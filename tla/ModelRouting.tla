---- MODULE ModelRouting ----
(* The routing record of one managed task in its linked worktree             *)
(* (scripts/model_routing.py): who was to write the task's content, who did,  *)
(* and what the gates before the checks and before the archive accept.        *)
(*                                                                            *)
(* `route` is the task's own record, `durable` the copy in the integration    *)
(* checkout, written only once there is an outcome.  Every command reads the  *)
(* record, decides, and replaces it; a dispatch keeps the record it has read  *)
(* for as long as its child runs, and may be killed at any time.  Content is  *)
(* the set of edits made so far, each with the writer and whether a plan      *)
(* stood behind it; the head of the integration checkout is the number of     *)
(* moves it has made, each by someone and with or without a receipt.          *)
EXTENDS Naturals, Sequences, FiniteSets

CONSTANT Bounds   \* how many edits, moves of the integration head, routes and context workers there may be,
                  \* and the kinds of selections: whether they run test groups

ASSUME RoutingAssumption ==
    Bounds \subseteq [edits: Nat, moves: Nat, routes: Nat, workers: Nat, selections: SUBSET BOOLEAN]

VARIABLES
    route,      \* .claude/model-routing/<change>.json in the task worktree
    durable,    \* the same file in the integration checkout
    content,    \* task content outside the managed package
    moves,      \* how the integration head has moved
    dirt,       \* changes of files in the integration checkout
    ahead,      \* its remote-tracking main is not its head
    run,        \* the dispatch under way, with the record it has read
    child,      \* the writer at work: "none", "codex", "native", "sandbox"
    reader,     \* the record a context worker was started with
    blamed,     \* heads a containment friction event was recorded at
    checks,     \* the run of the selected checks under way, with the content its gate saw
    checked,    \* automated-checks.json: the content it was written for, and whether the early gate saw that
    archiving,  \* an archive has passed the routing gate
    archived,
    edits,      \* edits made
    routes,     \* routes prepared
    bound,      \* the bounds of this behaviour
    lost,       \* a dispatch was killed before it recorded its child
    stale       \* a context worker has put an older plan back

routeVars == <<route, durable, reader, stale>>
mainVars == <<moves, dirt, ahead>>
archiveVars == <<checks, checked, archiving, archived>>
ghostVars == <<edits, routes, lost, bound>>
routingVars == <<routeVars, content, mainVars, run, child, blamed, archiveVars, ghostVars>>

Edit == [n: 1..bound.edits, by: {"codex", "claude", "supervisor", "unplanned", "late"}]
MainHead == Len(moves)

NoDelegation == [state |-> "none", by |-> "none", outcome |-> "none", post |-> {}, at |-> 0, recovered |-> 0]
NoExecution == [outcome |-> "none", launched |-> FALSE, released |-> TRUE, violation |-> FALSE, recovered |-> 0]
NoRoute == [provider |-> "none", profile |-> "none", mode |-> "none", policy |-> "none", pre |-> {}, head |-> 0,
            dirt |-> 0, delegation |-> NoDelegation, execution |-> NoExecution, escalated |-> FALSE, retry |-> FALSE]
NoRun == [on |-> FALSE, tests |-> FALSE, seen |-> {}]
NothingChecked == [of |-> {}, gated |-> FALSE]
Idle == [by |-> "none", stage |-> "none", plan |-> NoRoute, head |-> 0, dirt |-> 0, patch |-> FALSE]

RoutingInit ==
    /\ route = NoRoute /\ durable = NoRoute /\ content = {}
    /\ moves = <<>> /\ dirt = 0 /\ ahead = FALSE
    /\ run = Idle /\ reader = NoRoute /\ child = "none" /\ blamed = {}
    /\ checks = NoRun /\ checked = NothingChecked /\ archiving = FALSE /\ archived = FALSE
    /\ bound \in Bounds /\ edits = 0 /\ routes = 0 /\ lost = FALSE /\ stale = FALSE

----
(* What the commands decide by. *)

NeverDiverged(r) == FALSE
Diverged(r) == r.pre # content

\* A move from `base` to the head that is a fast-forward to the remote-tracking main.
FastForward(base) == ~ahead /\ \A i \in base + 1..MainHead : moves[i] # "commit"

\* An unbroken chain of receipts written since the delegation was opened.
ReceiptChain(base, since) == base >= since /\ \A i \in base + 1..MainHead : moves[i] = "receipted"

ClaudeDelegation(r) == r.provider = "claude" /\ r.delegation.state # "none" /\ r.delegation.outcome # "not-launched"

Base(r) ==
    IF r.execution.recovered > 0 THEN r.execution.recovered
    ELSE IF ClaudeDelegation(r) /\ r.delegation.recovered > 0 THEN r.delegation.recovered
    ELSE r.head

\* The integration checkout against the route's snapshot.
Contained(r, supervisor) ==
    /\ dirt = r.dirt
    /\ \/ MainHead = Base(r)
       \/ supervisor /\ FastForward(Base(r))
       \/ ClaudeDelegation(r) /\ FastForward(Base(r)) /\ ReceiptChain(Base(r), r.delegation.at)

LaunchConfirmed(r) == r.execution.launched
Abandoned(r) == r.delegation.outcome = "abandoned"

HasRealDelegation(r) ==
    /\ r.delegation.state # "none" /\ r.delegation.outcome # "not-launched"
    /\ \/ r.delegation.state = "open"
       \/ LaunchConfirmed(r)
       \/ r.delegation.by = "native" /\ r.execution.outcome = "claimed"

NoDelegatedChildRan(r) ==
    /\ r.delegation.state = "none" \/ r.delegation.outcome = "not-launched"
    /\ r.execution = NoExecution \/ ~r.execution.launched

UnlaunchedAttempt(r) ==
    /\ r.execution # NoExecution /\ ~r.execution.launched /\ r.execution.outcome # "retained"
    /\ r.delegation.state = "closed" /\ r.delegation.outcome = "not-launched"

NoneOpen(r) == FALSE
OpenCodex(r) == r.provider = "codex" /\ r.delegation.state = "open"

\* The child safety boundary every re-routing and escalation keeps.
RecoverySafe(r) ==
    IF r.execution = NoExecution
    THEN ~OpenCodex(r) /\ Contained(r, Abandoned(r))
    ELSE /\ r.provider = "codex" => r.execution.released /\ (r.execution.violation => r.execution.recovered > 0)
         /\ Contained(r, FALSE)

\* The content a new route finds is that of a child that failed, or was abandoned.
Attributable(r, c) ==
    /\ r.provider = "codex"
    /\ r.delegation.state = "closed" /\ r.delegation.post = c
    /\ \/ r.execution = NoExecution /\ Abandoned(r)
       \/ /\ r.execution.outcome \in {"failed", "abnormal"} /\ LaunchConfirmed(r)
          /\ r.delegation.outcome = r.execution.outcome

\* What the archive gate accepts of a record.
Proven(r) ==
    \/ r.execution.outcome \in {"retained", "claimed"}
    \/ /\ r.provider = "codex" /\ r.execution.launched
       /\ \/ r.execution.outcome = "completed" /\ ~r.execution.violation
          \/ r.execution.recovered > 0
    \/ r.provider = "claude" /\ r.execution.launched /\ r.execution.outcome = "completed"

\* The integration copy is read first.
Recorded == IF durable # NoRoute THEN durable ELSE route

RoutingGate == route # NoRoute /\ Proven(Recorded)

EarlyGate ==
    IF route = NoRoute THEN content = {}
    ELSE route.mode = "retained" \/ HasRealDelegation(route) \/ ~Diverged(route)

\* The write hook: a write is refused before it happens.
WriteAllowed == route # NoRoute /\ (route.mode = "retained" \/ HasRealDelegation(route))

----
(* The commands of the supervisor. *)

Write(r) == route' = r /\ UNCHANGED <<reader, stale>>
Persist(r) == Write(r) /\ durable' = r

Policy(profile, delegate) ==
    IF profile = "complex" THEN "complex-parent" ELSE IF delegate THEN "none" ELSE "balanced-parent"

NewRoute(p, profile, delegate, retry) ==
    LET policy == Policy(profile, delegate)
    IN  [NoRoute EXCEPT !.provider = p, !.profile = profile, !.policy = policy, !.retry = retry,
                        !.mode = IF policy = "none" THEN "delegated" ELSE "retained",
                        !.pre = content, !.head = MainHead, !.dirt = dirt]

\* prepare: content precedes a route only when it is a failed child's.
Prepare(p, profile, delegate) ==
    LET retry == route # NoRoute /\ Attributable(route, content)
    IN  /\ ~archived /\ routes < bound.routes
        /\ content # {} => retry
        /\ route # NoRoute => RecoverySafe(route)
        /\ Write(NewRoute(p, profile, delegate, retry)) /\ routes' = routes + 1
        /\ UNCHANGED <<durable, content, mainVars, run, child, blamed, archiveVars, edits, lost, bound>>

\* dispatch-codex after its prepare, dispatch-claude-sandboxed: the checks before the launch.
Dispatch(by) ==
    /\ ~archived /\ run = Idle /\ child = "none"
    /\ route.provider = (IF by = "codex" THEN "codex" ELSE "claude")
    /\ route.mode = "delegated" /\ route.execution = NoExecution /\ route.delegation = NoDelegation
    /\ ~Diverged(route)
    /\ run' = [Idle EXCEPT !.by = by, !.stage = "checked", !.plan = route, !.head = MainHead, !.dirt = dirt]
    /\ UNCHANGED <<routeVars, content, mainVars, child, blamed, archiveVars, ghostVars>>

\* The child process exists, and only then its delegation is recorded.
Spawn ==
    /\ run.stage = "checked"
    /\ run' = [run EXCEPT !.stage = "spawned"] /\ child' = run.by
    /\ UNCHANGED <<routeVars, content, mainVars, blamed, archiveVars, ghostVars>>

Opened == [NoDelegation EXCEPT !.state = "open", !.by = run.by, !.at = MainHead]

ConfirmLaunch ==
    /\ run.stage = "spawned"
    /\ Write([run.plan EXCEPT !.delegation = Opened])
    /\ run' = [run EXCEPT !.stage = "open", !.plan.delegation = Opened]
    /\ UNCHANGED <<durable, content, mainVars, child, blamed, archiveVars, ghostVars>>

Closed(outcome, c) == [run.plan.delegation EXCEPT !.state = "closed", !.by = run.by, !.outcome = outcome, !.post = c]

\* The launch fails: before it could be tried there is no execution, a tried one is recorded.
NotLaunched(tried) ==
    /\ run.stage = "checked"
    /\ tried => run.by = "codex"
    /\ LET closed == [run.plan EXCEPT !.delegation = Closed("not-launched", content)]
       IN  IF tried
           THEN Persist([closed EXCEPT !.execution = [NoExecution EXCEPT
                            !.outcome = "abnormal", !.released = FALSE, !.violation = TRUE]])
           ELSE Write(closed) /\ UNCHANGED durable
    /\ run' = Idle
    /\ UNCHANGED <<content, mainVars, child, blamed, archiveVars, ghostVars>>

\* Whether the observed run left the integration checkout alone.
Violated == dirt # run.dirt \/ (MainHead # run.head /\ ~FastForward(run.head))

\* A Codex child has ended, and its guard reports.
CodexEnds(outcome, released) ==
    /\ run.by = "codex" /\ run.stage = "open" /\ child = "none"
    /\ outcome = "completed" => ~Violated /\ released
    /\ outcome = "failed" => released
    /\ Persist([run.plan EXCEPT !.delegation = Closed(outcome, content),
                                !.execution = [NoExecution EXCEPT !.outcome = outcome, !.launched = TRUE,
                                                                  !.released = released, !.violation = Violated]])
    /\ run' = Idle
    /\ UNCHANGED <<content, mainVars, child, blamed, archiveVars, ghostVars>>

\* A sandboxed Claude child has ended; its patch lands only on the content it was made from.
SandboxEnds(failed) ==
    LET lands == ~failed /\ run.patch /\ ~Diverged(run.plan)
        c == IF lands THEN content \cup {[n |-> edits + 1, by |-> "claude"]} ELSE content
        outcome == IF failed THEN "failed" ELSE IF lands THEN "completed" ELSE IF run.patch THEN "rejected" ELSE "no-change"
    IN  /\ run.by = "sandbox" /\ run.stage = "open" /\ child = "none"
        /\ lands => edits < bound.edits
        /\ content' = c /\ edits' = IF lands THEN edits + 1 ELSE edits
        /\ Persist([run.plan EXCEPT !.delegation = Closed(outcome, c),
                                    !.execution = [NoExecution EXCEPT !.outcome = outcome, !.launched = TRUE]])
        /\ run' = Idle
        /\ UNCHANGED <<mainVars, child, blamed, archiveVars, routes, lost, bound>>

\* A dispatch is killed; its child may live on, or die with it.
KillDispatch(spare) ==
    /\ run # Idle
    /\ run' = Idle
    /\ child' = IF spare THEN child ELSE "none"
    /\ lost' = (lost \/ run.stage = "spawned")
    /\ UNCHANGED <<routeVars, content, mainVars, blamed, archiveVars, edits, routes, bound>>

\* An exception other than a kill closes the attempt without an outcome of the run.
AbortDispatch ==
    /\ run.stage \in {"checked", "open"} /\ child = "none"
    /\ Write([run.plan EXCEPT !.delegation =
                Closed(IF run.stage = "open" THEN "abnormal" ELSE "not-launched", content)])
    /\ run' = Idle
    /\ UNCHANGED <<durable, content, mainVars, child, blamed, archiveVars, ghostVars>>

\* begin-claude-delegation, and the native Agent call that follows it.
BeginClaude ==
    /\ ~archived /\ route.provider = "claude" /\ route.mode = "delegated"
    /\ route.execution = NoExecution /\ route.delegation = NoDelegation
    /\ ~Diverged(route)
    /\ Write([route EXCEPT !.delegation = [NoDelegation EXCEPT !.state = "open", !.by = "native", !.at = MainHead]])
    /\ UNCHANGED <<durable, content, mainVars, run, child, blamed, archiveVars, ghostVars>>

CallAgent ==
    /\ route.delegation.state = "open" /\ route.delegation.by = "native" /\ child = "none"
    /\ child' = "native"
    /\ UNCHANGED <<routeVars, content, mainVars, run, blamed, archiveVars, ghostVars>>

Recording == route.mode = "delegated" /\ route.provider = "claude" /\ route.delegation.state = "open"

\* record-claude-execution, after the Agent call has returned.
RecordClaude ==
    /\ ~archived /\ child # "native" /\ Recording /\ Contained(route, FALSE)
    /\ Persist([route EXCEPT !.delegation.state = "closed", !.delegation.post = content,
                             !.execution = [NoExecution EXCEPT !.outcome = "claimed"]])
    /\ UNCHANGED <<content, mainVars, run, child, blamed, archiveVars, ghostVars>>

\* The same command when the postcheck refuses: a friction event is all it leaves.
RefuseClaude ==
    /\ ~archived /\ child # "native" /\ Recording /\ ~Contained(route, FALSE)
    /\ dirt = route.dirt /\ blamed' = blamed \cup {MainHead} /\ MainHead \notin blamed
    /\ UNCHANGED <<routeVars, content, mainVars, run, child, archiveVars, ghostVars>>

\* recover-external-advance of a Claude route, with the owner's approval: no receipt may be older than the event.
RecoverClaude ==
    /\ ~archived /\ Recording /\ route.execution = NoExecution /\ route.delegation.recovered = 0
    /\ \E h \in blamed : h > route.delegation.at /\ \A i \in 1..h : moves[i] # "receipted"
    /\ dirt = route.dirt /\ MainHead > route.head /\ FastForward(route.head)
    /\ Write([route EXCEPT !.delegation.recovered = MainHead])
    /\ UNCHANGED <<durable, content, mainVars, run, child, blamed, archiveVars, ghostVars>>

\* recover-external-advance of a Codex route: the flagged run saw nothing but a move to recorded remote main.
RecoverCodex ==
    /\ ~archived /\ route.provider = "codex" /\ route.execution.recovered = 0
    /\ route.execution.launched /\ route.execution.violation /\ route.execution.outcome = "failed"
    /\ dirt = route.dirt /\ MainHead > route.head /\ \A i \in route.head + 1..MainHead : moves[i] # "commit"
    /\ Persist([route EXCEPT !.execution.recovered = MainHead])
    /\ UNCHANGED <<content, mainVars, run, child, blamed, archiveVars, ghostVars>>

\* escalate: to the strong parent, over a child's work or before any.
Escalate ==
    /\ ~archived /\ route # NoRoute /\ route.profile # "complex" /\ route.policy # "owner-approved"
    /\ RecoverySafe(route)
    /\ route.mode = "delegated" /\ ~HasRealDelegation(route) /\ ~Abandoned(route) => ~Diverged(route)
    /\ Write([route EXCEPT !.profile = "complex", !.mode = "retained", !.policy = "complex-parent",
                           !.escalated = route.mode = "delegated"])
    /\ UNCHANGED <<durable, content, mainVars, run, child, blamed, archiveVars, ghostVars>>

\* close-abandoned-delegation: no process has its working directory in the task worktree.
CloseAbandoned ==
    /\ ~archived /\ OpenCodex(route) /\ route.execution = NoExecution /\ child # "codex"
    /\ Write([route EXCEPT !.delegation.state = "closed", !.delegation.outcome = "abandoned",
                           !.delegation.post = content])
    /\ UNCHANGED <<durable, content, mainVars, run, child, blamed, archiveVars, ghostVars>>

Retained(r) == [r EXCEPT !.execution = [NoExecution EXCEPT !.outcome = "retained"]]

\* approve-supervisor-diff, with the owner's statement.
ApproveDiff ==
    /\ ~archived /\ route.mode = "delegated" /\ ~HasRealDelegation(route) /\ Diverged(route)
    /\ UnlaunchedAttempt(route) \/ (route.execution = NoExecution /\ ~OpenCodex(route))
    /\ Contained(route, NoDelegatedChildRan(route))
    /\ Persist(Retained([route EXCEPT !.mode = "retained", !.policy = "owner-approved"]))
    /\ UNCHANGED <<content, mainVars, run, child, blamed, archiveVars, ghostVars>>

\* record-retained-execution.
RecordRetained ==
    /\ ~archived /\ route.mode = "retained" /\ route.execution.outcome # "retained"
    /\ route.execution # NoExecution => route.escalated /\ RecoverySafe(route)
    /\ Contained(route, NoDelegatedChildRan(route))
    /\ Persist(Retained(route))
    /\ UNCHANGED <<content, mainVars, run, child, blamed, archiveVars, ghostVars>>

----
(* The checks and the archive. *)

\* select_checks.py asks the early gate before its first command, and only when the affected tests or a
\* command of the selection run test groups: a selection for documents or explorers asks nothing.
StartSelected(tests) ==
    /\ ~archived /\ ~checks.on /\ content # {} /\ checked.of # content
    /\ tests => EarlyGate
    /\ checks' = [on |-> TRUE, tests |-> tests, seen |-> content]
    /\ UNCHANGED <<routeVars, content, mainVars, run, child, blamed, checked, archiving, archived, ghostVars>>

\* The evidence names the content as it is when the run ends.
PassSelected ==
    /\ checks.on /\ ~archived
    /\ checks' = NoRun /\ checked' = [of |-> content, gated |-> checks.tests /\ checks.seen = content]
    /\ UNCHANGED <<routeVars, content, mainVars, run, child, blamed, archiving, archived, ghostVars>>

\* A command fails and the evidence says so, or the run is killed before it writes any.
StopSelected ==
    /\ checks.on /\ ~archived
    /\ checks' = NoRun /\ checked' \in {checked, NothingChecked}
    /\ UNCHANGED <<routeVars, content, mainVars, run, child, blamed, archiving, archived, ghostVars>>

\* finalize_change: the routing gate comes first, among the preconditions that are reported together.
OpenArchive ==
    /\ ~archived /\ ~archiving /\ content # {} /\ RoutingGate
    /\ archiving' = TRUE
    /\ UNCHANGED <<routeVars, content, mainVars, run, child, blamed, checks, checked, archived, ghostVars>>

\* A later precondition, the checks or the OpenSpec command refuse, or finish is killed.
StopArchive ==
    /\ archiving /\ ~archived
    /\ archiving' = FALSE
    /\ UNCHANGED <<routeVars, content, mainVars, run, child, blamed, checks, checked, archived, ghostVars>>

\* The checks have run, or their evidence is reused: it must be of the content as it now is.  The agent
\* runs finish when its dispatch and its Agent call have returned; a stray child may still be there.
Archive ==
    /\ archiving /\ ~archived /\ run = Idle /\ child # "native"
    /\ checked.of = content
    /\ archived' = TRUE
    /\ UNCHANGED <<routeVars, content, mainVars, run, child, blamed, checks, checked, archiving, ghostVars>>

----
(* The context workers. *)

\* Every record of an observation, a recall, a reread, a reduction or a compaction is added to the record
\* just read and written to both places, whether there is an outcome or not.
AddObservation ==
    /\ route # NoRoute /\ durable # route
    /\ durable' = route
    /\ UNCHANGED <<route, reader, stale, content, mainVars, run, child, blamed, archiveVars, ghostVars>>

\* A context worker runs for up to two minutes between the reading of the record and its writing.
ContextReads ==
    /\ route # NoRoute /\ reader = NoRoute /\ route.provider = "codex" /\ ~archived
    /\ bound.workers > 0 /\ ~stale
    /\ reader' = route
    /\ UNCHANGED <<route, durable, stale, content, mainVars, run, child, blamed, archiveVars, ghostVars>>

ContextRecords ==
    /\ reader # NoRoute /\ ~archived
    /\ route' = reader /\ durable' = reader /\ reader' = NoRoute
    /\ stale' = (stale \/ reader # route)
    /\ UNCHANGED <<content, mainVars, run, child, blamed, archiveVars, ghostVars>>

----
(* The writers, and the others who move the integration checkout. *)

AddEdit(by) == edits < bound.edits /\ edits' = edits + 1 /\ content' = content \cup {[n |-> edits + 1, by |-> by]}

\* The supervisor writes; without a plan that allows it only past the hook, and not beside a dispatch.
SupervisorEdits ==
    /\ ~archived /\ run = Idle
    /\ AddEdit(IF WriteAllowed THEN "supervisor" ELSE IF Abandoned(route) THEN "late" ELSE "unplanned")
    /\ UNCHANGED <<routeVars, mainVars, run, child, blamed, archiveVars, routes, lost, bound>>

ChildEdits ==
    /\ child \in {"codex", "native"}
    /\ AddEdit(IF child = "codex" THEN "codex" ELSE "claude")
    /\ UNCHANGED <<routeVars, mainVars, run, child, blamed, archiveVars, routes, lost, bound>>

SandboxWrites ==
    /\ child = "sandbox" /\ run.by = "sandbox"
    /\ run' = [run EXCEPT !.patch = TRUE]
    /\ UNCHANGED <<routeVars, content, mainVars, child, blamed, archiveVars, ghostVars>>

ChildEnds ==
    /\ child # "none" /\ run.stage # "spawned"
    /\ child' = "none"
    /\ UNCHANGED <<routeVars, content, mainVars, run, blamed, archiveVars, ghostVars>>

\* Other tasks' finishes leave a receipt, a pull by hand does not.
MainMoves(kind) ==
    /\ ~archived /\ MainHead < bound.moves
    /\ moves' = Append(moves, kind) /\ ahead' = FALSE
    /\ UNCHANGED <<routeVars, content, dirt, run, child, blamed, archiveVars, ghostVars>>

\* A native child has a shell: nothing but the postcheck keeps it from the integration checkout.
ChildEscapes(kind) ==
    /\ child = "native"
    /\ \/ kind = "dirt" /\ dirt = 0 /\ dirt' = 1 /\ UNCHANGED <<moves, ahead>>
       \/ kind = "commit" /\ MainHead < bound.moves /\ moves' = Append(moves, "commit") /\ UNCHANGED <<dirt, ahead>>
       \/ kind = "pull" /\ MainHead < bound.moves /\ moves' = Append(moves, "child") /\ ahead' = FALSE /\ UNCHANGED dirt
    /\ UNCHANGED <<routeVars, content, run, child, blamed, archiveVars, ghostVars>>

Fetch ==
    /\ ~archived /\ ~ahead /\ MainHead < bound.moves
    /\ ahead' = TRUE
    /\ UNCHANGED <<routeVars, content, moves, dirt, run, child, blamed, archiveVars, ghostVars>>

RoutingNext ==
    \/ \E p \in {"codex", "claude"}, profile \in {"standard", "complex"}, delegate \in BOOLEAN :
            Prepare(p, profile, delegate)
    \/ \E by \in {"codex", "sandbox"} : Dispatch(by)
    \/ Spawn \/ ConfirmLaunch
    \/ \E tried \in BOOLEAN : NotLaunched(tried)
    \/ \E outcome \in {"completed", "failed", "abnormal"}, released \in BOOLEAN : CodexEnds(outcome, released)
    \/ \E failed \in BOOLEAN : SandboxEnds(failed)
    \/ \E spare \in BOOLEAN : KillDispatch(spare)
    \/ AbortDispatch
    \/ BeginClaude \/ CallAgent \/ RecordClaude \/ RefuseClaude \/ RecoverClaude \/ RecoverCodex
    \/ Escalate \/ CloseAbandoned \/ ApproveDiff \/ RecordRetained
    \/ \E tests \in bound.selections : StartSelected(tests)
    \/ PassSelected \/ StopSelected \/ OpenArchive \/ StopArchive \/ Archive
    \/ AddObservation \/ ContextReads \/ ContextRecords
    \/ SupervisorEdits \/ ChildEdits \/ SandboxWrites \/ ChildEnds \/ Fetch
    \/ \E kind \in {"receipted", "bare"} : MainMoves(kind)
    \/ \E kind \in {"dirt", "commit", "pull"} : ChildEscapes(kind)

RoutingSpec == RoutingInit /\ [][RoutingNext]_routingVars

----
RouteRecord == [provider: {"none", "codex", "claude"}, profile: {"none", "standard", "complex"},
    mode: {"none", "delegated", "retained"}, policy: {"none", "complex-parent", "balanced-parent", "owner-approved"},
    pre: SUBSET Edit, head: 0..bound.moves, dirt: 0..1,
    delegation: [state: {"none", "open", "closed"}, by: {"none", "codex", "native", "sandbox"}, post: SUBSET Edit,
        outcome: {"none", "not-launched", "completed", "failed", "abnormal", "rejected", "no-change", "abandoned"},
        at: 0..bound.moves, recovered: 0..bound.moves],
    execution: [outcome: {"none", "completed", "failed", "abnormal", "rejected", "no-change", "claimed", "retained"},
        launched: BOOLEAN, released: BOOLEAN, violation: BOOLEAN, recovered: 0..bound.moves],
    escalated: BOOLEAN, retry: BOOLEAN]

RoutingTypeOK ==
    /\ {route, durable, reader} \subseteq RouteRecord
    /\ content \subseteq Edit
    /\ MainHead <= bound.moves /\ dirt \in 0..1 /\ blamed \subseteq 1..bound.moves
    /\ child \in {"none", "codex", "native", "sandbox"}
    /\ run.plan \in RouteRecord
    /\ checks \in [on: BOOLEAN, tests: BOOLEAN, seen: SUBSET Edit]
    /\ checked \in [of: SUBSET Edit, gated: BOOLEAN]
    /\ archiving \in BOOLEAN /\ archived \in BOOLEAN

\* What is archived under a route was written as a plan allowed, or the owner has accepted it: a diff the
\* supervisor wrote while a child was to write it is not legalized by anything recorded afterwards, through
\* reroutes, escalations, killed dispatches and evidence that is reused.  Only an archive whose evidence comes
\* from a run that asked no early gate (no test groups were selected) or that saw less than it vouches for
\* (the agent wrote during its own run) is excused; so is what was added after a delegation was closed as
\* abandoned (an escalation takes it with the child's), and a record a context worker has written back.
UnplannedIsApproved ==
    archived /\ checked.gated /\ ~stale /\ (\E e \in content : e.by = "unplanned") => route.policy = "owner-approved"

\* Content a Codex child wrote is attributed to a child by the record of the task, through retries and
\* escalations, unless its dispatch died between the start of the child and its recording, or a context
\* worker has written an older record back.
CodexWorkIsAttributed ==
    (\E e \in content : e.by = "codex") /\ ~lost /\ ~stale =>
        route.retry \/ route.delegation.by = "codex" \/ run.stage = "spawned"
====

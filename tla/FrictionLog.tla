---- MODULE FrictionLog ----
(* Process friction (agent_friction.py): events are appended to a local log,      *)
(* routed to the root Issue that carries the marker of their fingerprint, and     *)
(* linked by the retrospective checkpoint that the completion gate asks for.      *)
(* Curators resolve candidates, merge duplicate roots and close fixed ones.       *)
(*                                                                            *)
(* The log and the state file are written under a lock; what a write rests on is *)
(* often read before it.  GitHub calls fail, and sessions are killed.            *)
EXTENDS Naturals, Sequences, FiniteSets

CONSTANTS
    Sessions,      \* processes that route events or curate roots
    Tasks,         \* tasks with a retrospective of their own
    KindOf,        \* event -> [print, task, mandatory, complete]
    Similar,       \* pairs of fingerprints with a likely common root cause
    FrictionBounds \* how far a behaviour goes

Events == DOMAIN KindOf
Prints == {KindOf[e].print : e \in Events}
NoOne == "nobody"        \* the task of an event that belongs to none
Unclear == "unclear"     \* the task of an event that nothing identifies

ASSUME FrictionAssumption ==
    /\ \A e \in Events : /\ KindOf[e].task \in Tasks \cup {NoOne, Unclear}
                         /\ KindOf[e].mandatory \in BOOLEAN /\ KindOf[e].complete \in BOOLEAN
    /\ Similar \subseteq Prints \X Prints
    /\ FrictionBounds \subseteq [sessions: SUBSET Sessions, tasks: SUBSET Tasks, events: SUBSET Events, tries: Nat,
                              curations: Nat, marks: Nat, commits: Nat]

VARIABLES
    log,          \* the events in the order of their lines
    attributed,   \* event -> the explicit attribution, Unclear for none
    reviewed,     \* the review cursor
    routing,       \* event -> its routing status
    checkpoints,  \* task -> its retrospective checkpoint
    roots,        \* the generated Issues: markers, open, merged into, fixed
    session,      \* what each session is doing, with what it has read
    review,       \* task -> the retrospective under way
    taskContent,      \* task -> version of the task-owned content
    finish,       \* task -> the finish under way: stage, candidate and content it has read
    finishCommits,     \* history: task -> the versions that finish itself committed
    rodeAlong,    \* history: task -> the versions with work of the agent that a finish did not see as such
    contested,    \* history: fingerprints decided by hand, by two sessions at a time or on a stale body
    half,         \* fingerprints of merges that are not complete
    curatorsMet,      \* history: two curators were at work at a time
    caps, tries, curations, marks    \* bounds of this behaviour, and its counters

localState == <<log, attributed, reviewed, routing, checkpoints>>
github == <<roots, contested, half>>
completion == <<review, taskContent, finish, finishCommits, rodeAlong>>
tallies == <<caps, tries, curations, marks>>
frictionVars == <<localState, github, session, completion, curatorsMet, tallies>>

NoFinish == [stage |-> "idle", candidate |-> 0, content |-> 0]
NoCheckpoint == [recorded |-> FALSE, explained |-> {}, content |-> 0, reviewed |-> 0]
IdleSession == [command |-> "none", stage |-> "idle", event |-> "none", root |-> 0, seen |-> {}, duplicate |-> 0, adds |-> {},
         outcome |-> "none"]

FrictionInit ==
    /\ log = <<>> /\ attributed = [e \in Events |-> Unclear] /\ reviewed = 0
    /\ routing = [e \in Events |-> "unrouted"]
    /\ checkpoints = [t \in Tasks |-> NoCheckpoint]
    /\ roots = <<>>
    /\ session = [s \in Sessions |-> IdleSession]
    /\ review = [t \in Tasks |-> NoCheckpoint]
    /\ taskContent = [t \in Tasks |-> 0]
    /\ finish = [t \in Tasks |-> NoFinish]
    /\ finishCommits = [t \in Tasks |-> {}] /\ rodeAlong = [t \in Tasks |-> {}]
    /\ contested = {} /\ half = {} /\ curatorsMet = FALSE
    /\ caps \in FrictionBounds /\ tries = 0 /\ curations = 0 /\ marks = 0

LoggedEvents == {log[i] : i \in 1..Len(log)}
IssueNumbers == 1..Len(roots)
OpenRoots == {n \in IssueNumbers : roots[n].open}
MarkedRoots(p) == {n \in OpenRoots : p \in roots[n].markers}

SessionAt(s, command, stage) == session[s].command = command /\ session[s].stage = stage
SessionGo(s, stage) == session' = [session EXCEPT ![s].stage = stage]
Leave(s) == session' = [session EXCEPT ![s] = IdleSession]

----
(* Recording and attribution *)

\* The line is appended under the lock; routing follows unless --no-route is given.
Record(s, e, route) ==
    /\ session[s] = IdleSession /\ s \in caps.sessions /\ e \in caps.events \ LoggedEvents
    /\ log' = Append(log, e)
    /\ session' = IF route THEN [session EXCEPT ![s] = [IdleSession EXCEPT !.command = "route", !.stage = "list", !.event = e]]
                  ELSE session
    /\ UNCHANGED <<attributed, reviewed, routing, checkpoints, github, completion, curatorsMet, tallies>>

\* One attribution per event, under the lock; it is never changed.
Attribute(e, t) ==
    /\ e \in LoggedEvents /\ KindOf[e].task = Unclear /\ attributed[e] = Unclear
    /\ attributed' = [attributed EXCEPT ![e] = t]
    /\ UNCHANGED <<log, reviewed, routing, checkpoints, github, session, completion, curatorsMet, tallies>>

TaskOf(e) == IF KindOf[e].task = Unclear THEN attributed[e] ELSE KindOf[e].task

----
(* Routing *)

\* route-pending takes what is neither routed nor withheld.
RoutePending(s, e) ==
    /\ session[s] = IdleSession /\ s \in caps.sessions /\ tries < caps.tries
    /\ e \in LoggedEvents /\ routing[e] \notin {"routed", "withheld"}
    /\ session' = [session EXCEPT ![s] = [IdleSession EXCEPT !.command = "route", !.stage = "list", !.event = e]]
    /\ tries' = tries + 1
    /\ UNCHANGED <<localState, github, completion, curatorsMet, caps, curations, marks>>

FirstMarker(p, n) == roots[n].first = p
Carries(p, n) == p \in roots[n].markers

Matching(p) == {n \in OpenRoots : Carries(p, n)}
Alike(p) == \E n \in OpenRoots, q \in Prints \ {p} : q \in roots[n].markers /\ <<p, q>> \in Similar

Outcome(s, status) == session' = [session EXCEPT ![s].stage = "save", ![s].outcome = status]

\* All open Issues are read: the first with the marker is commented, a likely duplicate is left to
\* a decision, and otherwise a root is created.  A coordinator event that lacks its reason is withheld.
ListRoots(s) ==
    /\ SessionAt(s, "route", "list")
    /\ LET e == session[s].event
           p == KindOf[e].print
           found == Matching(p)
       IN IF ~KindOf[e].complete THEN Outcome(s, "withheld")
          ELSE IF found # {}
               THEN session' = [session EXCEPT ![s].stage = "comment",
                                               ![s].root = CHOOSE n \in found : \A m \in found : n <= m]
          ELSE IF Alike(p) THEN Outcome(s, "candidate")
          ELSE session' = [session EXCEPT ![s].stage = "create", ![s].adds = {p}]
    /\ UNCHANGED <<localState, github, completion, curatorsMet, tallies>>

\* An occurrence is added, also when the root was closed meanwhile.
CommentRoot(s) ==
    /\ session[s].stage = "comment"
    /\ Outcome(s, "routed")
    /\ UNCHANGED <<localState, github, completion, curatorsMet, tallies>>

AlsoAdding(s) == UNION {session[o].adds : o \in {x \in Sessions \ {s} : session[x].stage \in {"create", "mark"}}}

\* A root whose label could not be verified is there, and its event stays pending.
CreateRoot(s, verified) ==
    /\ session[s].stage = "create"
    /\ LET p == KindOf[session[s].event].print
       IN /\ roots' = Append(roots, [first |-> p, markers |-> {p}, open |-> TRUE, into |-> 0, fixed |-> FALSE])
          /\ contested' = contested \cup (IF session[s].command = "resolve" THEN {p} ELSE {p} \cap AlsoAdding(s))
    /\ IF session[s].command = "resolve" /\ ~verified THEN Leave(s)
       ELSE Outcome(s, IF verified THEN "routed" ELSE "pending")
    /\ UNCHANGED <<localState, half, completion, curatorsMet, tallies>>

\* The state is read again under the lock, and the entry of this event replaced.
SaveRoute(s) ==
    /\ session[s].stage = "save"
    /\ routing' = [routing EXCEPT ![session[s].event] = session[s].outcome]
    /\ Leave(s)
    /\ UNCHANGED <<log, attributed, reviewed, checkpoints, github, completion, curatorsMet, tallies>>

\* A GitHub call of the router fails; of a curator, the command ends with an error.
RouteFails(s) ==
    /\ session[s].command = "route" /\ session[s].stage \in {"list", "comment", "create"}
    /\ Outcome(s, "pending")
    /\ UNCHANGED <<localState, github, completion, curatorsMet, tallies>>

SessionDies(s) ==
    /\ session[s] # IdleSession /\ Leave(s)
    /\ UNCHANGED <<localState, github, completion, curatorsMet, tallies>>

----
(* Curation *)

Curating == {s \in Sessions : session[s].command \in {"resolve", "merge"}}

StartCuration(s, w) ==
    /\ session[s] = IdleSession /\ s \in caps.sessions /\ curations < caps.curations
    /\ session' = [session EXCEPT ![s] = w]
    /\ curations' = curations + 1
    /\ curatorsMet' = (curatorsMet \/ Curating # {})
    /\ UNCHANGED <<localState, github, completion, caps, tries, marks>>

\* resolve-candidate --same-root N: N is open and generated, and its body is read.
ResolveSameRoot(s, e, n) ==
    /\ routing[e] = "candidate" /\ n \in OpenRoots
    /\ StartCuration(s, [IdleSession EXCEPT !.command = "resolve", !.stage = "mark", !.event = e, !.root = n,
                                     !.seen = roots[n].markers, !.adds = {KindOf[e].print}])

\* resolve-candidate --new-root: no Issue is looked at.
ResolveNewRoot(s, e) ==
    /\ routing[e] = "candidate"
    /\ StartCuration(s, [IdleSession EXCEPT !.command = "resolve", !.stage = "create", !.event = e, !.adds = {KindOf[e].print}])

MarkLast == [begin |-> "name", name |-> "close", close |-> "mark", mark |-> "save"]
MergeStep == [begin |-> "mark", mark |-> "name", name |-> "close", close |-> "save"]

\* merge-roots: a duplicate that is closed has to be one of this merge.
MergeRoots(s, n, d) ==
    /\ n # d /\ n \in OpenRoots /\ (roots[d].open \/ roots[d].into = n)
    /\ StartCuration(s, [IdleSession EXCEPT !.command = "merge", !.stage = MergeStep["begin"], !.root = n, !.duplicate = d,
                                     !.seen = roots[n].markers, !.adds = roots[d].markers])

SessionProceeds(s) ==
    IF session[s].command = "resolve" THEN SessionGo(s, "comment")
    ELSE IF MergeStep[session[s].stage] = "save" THEN Leave(s)
    ELSE SessionGo(s, MergeStep[session[s].stage])

\* The body that was read is written back with the markers it lacks.
AppendMarkers(s) ==
    /\ session[s].stage = "mark"
    /\ LET w == session[s]
           again == w.command = "merge" /\ ~roots[w.duplicate].open
       IN /\ roots' = IF w.adds \subseteq w.seen THEN roots ELSE [roots EXCEPT ![w.root].markers = w.seen \cup w.adds]
          /\ contested' = contested \cup (IF w.command = "resolve" \/ again THEN w.adds ELSE w.adds \cap AlsoAdding(s))
                                    \cup (w.seen \ roots[w.root].markers)
          /\ half' = IF w.command = "merge" /\ roots[w.duplicate].open THEN half \cup w.adds ELSE half
    /\ SessionProceeds(s)
    /\ UNCHANGED <<localState, completion, curatorsMet, tallies>>

\* The target lists the merge, and the duplicate names its target.
NameTarget(s) ==
    /\ session[s].stage = "name"
    /\ roots' = [roots EXCEPT ![session[s].duplicate].into = IF roots[session[s].duplicate].open THEN session[s].root ELSE @]
    /\ SessionProceeds(s)
    /\ UNCHANGED <<localState, contested, half, completion, curatorsMet, tallies>>

CloseDuplicate(s) ==
    /\ session[s].stage = "close"
    /\ LET d == session[s].duplicate
       IN /\ roots' = [roots EXCEPT ![d].open = FALSE]
          /\ half' = {p \in half : Cardinality(MarkedRoots(p) \ {d}) > 1}
    /\ SessionProceeds(s)
    /\ UNCHANGED <<localState, contested, completion, curatorsMet, tallies>>

\* close-fixed, for a root that a merged pull request names.
CloseFixed(n) ==
    /\ n \in OpenRoots /\ curations < caps.curations
    /\ roots' = [roots EXCEPT ![n].open = FALSE, ![n].fixed = TRUE]
    /\ curations' = curations + 1
    /\ UNCHANGED <<localState, contested, half, session, completion, curatorsMet, caps, tries, marks>>

----
(* The periodic review of the log *)

\* The cursor is compared with the state read before the lock.
BeginMark(s, count) ==
    /\ session[s] = IdleSession /\ s \in caps.sessions /\ marks < caps.marks /\ count >= reviewed
    /\ session' = [session EXCEPT ![s] = [IdleSession EXCEPT !.command = "mark", !.stage = "write", !.root = count]]
    /\ marks' = marks + 1
    /\ UNCHANGED <<localState, github, completion, curatorsMet, caps, tries, curations>>

\* The file is replaced by one with a cursor and nothing else.
WriteMark(s) ==
    /\ SessionAt(s, "mark", "write")
    /\ reviewed' = session[s].root
    /\ routing' = [e \in Events |-> "unrouted"]
    /\ checkpoints' = [t \in Tasks |-> NoCheckpoint]
    /\ Leave(s)
    /\ UNCHANGED <<log, attributed, github, completion, curatorsMet, tallies>>

----
(* Retrospective and completion gate *)

Mandatory(t) == {e \in LoggedEvents : KindOf[e].mandatory /\ TaskOf(e) = t}
Ambiguous == {e \in LoggedEvents : TaskOf(e) = Unclear}

\* Every mandatory event of the task is linked or disposed of, none is left without a task.
Review(t) ==
    /\ t \in caps.tasks /\ Ambiguous = {}
    /\ review' = [review EXCEPT ![t] = [recorded |-> TRUE, explained |-> Mandatory(t), content |-> taskContent[t],
                                        reviewed |-> taskContent[t]]]
    /\ UNCHANGED <<localState, github, session, taskContent, finish, finishCommits, rodeAlong, curatorsMet, tallies>>

SaveCheckpoint(t) ==
    /\ review[t].recorded
    /\ checkpoints' = [checkpoints EXCEPT ![t] = review[t]]
    /\ review' = [review EXCEPT ![t] = NoCheckpoint]
    /\ UNCHANGED <<log, attributed, reviewed, routing, github, session, taskContent, finish, finishCommits, rodeAlong, curatorsMet, tallies>>

Satisfied(t) ==
    /\ checkpoints[t].recorded
    /\ Mandatory(t) \subseteq checkpoints[t].explained
    /\ checkpoints[t].content = taskContent[t]

\* The gate of finish (finalize_keeping_checkpoint); what is checked out is asked for again after it.
RequireCheckpoint(t) ==
    /\ finish[t].stage = "idle" /\ Satisfied(t)
    /\ finish' = [finish EXCEPT ![t].stage = "head"]
    /\ UNCHANGED <<localState, github, session, review, taskContent, finishCommits, rodeAlong, curatorsMet, tallies>>

ReadCandidate(t) ==
    /\ finish[t].stage = "head"
    /\ finish' = [finish EXCEPT ![t].stage = "archive", ![t].candidate = taskContent[t]]
    /\ UNCHANGED <<localState, github, session, review, taskContent, finishCommits, rodeAlong, curatorsMet, tallies>>

\* The archive commit of finish is the child of what is checked out at that moment.  The tree was
\* clean before the review; `swept`: what the agent has staged since, or edited below openspec/, goes
\* into the commit with the archive.
ArchiveCommit(t, swept) ==
    LET made == taskContent[t] + 1
    IN /\ finish[t].stage = "archive" /\ taskContent[t] < caps.commits
       /\ taskContent' = [taskContent EXCEPT ![t] = made]
       /\ finishCommits' = IF swept THEN finishCommits ELSE [finishCommits EXCEPT ![t] = @ \cup {made}]
       /\ rodeAlong' = IF swept THEN [rodeAlong EXCEPT ![t] = @ \cup {made}] ELSE rodeAlong
       /\ finish' = [finish EXCEPT ![t].stage = "carry"]
       /\ UNCHANGED <<localState, github, session, review, curatorsMet, tallies>>

\* The agent has archived and committed the change meanwhile: finish makes no commit, and goes on.
FindArchived(t) ==
    /\ finish[t].stage = "archive" /\ taskContent[t] > finish[t].candidate
    /\ finish' = [finish EXCEPT ![t].stage = "carry"]
    /\ rodeAlong' = [rodeAlong EXCEPT ![t] = @ \cup ((finish[t].candidate + 1)..taskContent[t])]
    /\ UNCHANGED <<localState, github, session, review, taskContent, finishCommits, curatorsMet, tallies>>

AnyParent(t) == taskContent[t] > 0
ChildOfCandidate(t) == taskContent[t] = finish[t].candidate + 1

\* The checkpoint is rebound to the archive commit (carry_checkpoint_over_finalize): the parent of what
\* is checked out has to be the candidate, then the content is computed, then it is written under the lock.
CompareParent(t) ==
    /\ finish[t].stage = "carry" /\ ChildOfCandidate(t)
    /\ finish' = [finish EXCEPT ![t].stage = "proof"]
    /\ UNCHANGED <<localState, github, session, review, taskContent, finishCommits, rodeAlong, curatorsMet, tallies>>

ReadProof(t) ==
    /\ finish[t].stage = "proof"
    /\ finish' = [finish EXCEPT ![t].stage = "write", ![t].content = taskContent[t]]
    /\ UNCHANGED <<localState, github, session, review, taskContent, finishCommits, rodeAlong, curatorsMet, tallies>>

CarryCheckpoint(t) ==
    /\ finish[t].stage = "write" /\ checkpoints[t].recorded
    /\ checkpoints' = [checkpoints EXCEPT ![t].content = finish[t].content]
    /\ finish' = [finish EXCEPT ![t] = NoFinish]
    /\ UNCHANGED <<log, attributed, reviewed, routing, github, session, review, taskContent, finishCommits, rodeAlong,
                   curatorsMet, tallies>>

FinishEnds(t) ==
    /\ finish[t].stage # "idle"
    /\ finish' = [finish EXCEPT ![t] = NoFinish]
    /\ UNCHANGED <<localState, github, session, review, taskContent, finishCommits, rodeAlong, curatorsMet, tallies>>

\* The agent of the task, or one of its subagents.  A commit between the gate and the reading of the
\* candidate, or between the comparison of the parent and the reading of the content, is taken for
\* what was compared.
Unwatched(t) == finish[t].stage \in {"head", "proof"}

AgentCommits(t) ==
    LET made == taskContent[t] + 1
    IN /\ t \in caps.tasks /\ taskContent[t] < caps.commits
       /\ taskContent' = [taskContent EXCEPT ![t] = made]
       /\ rodeAlong' = IF Unwatched(t) THEN [rodeAlong EXCEPT ![t] = @ \cup {made}] ELSE rodeAlong
       /\ UNCHANGED <<localState, github, session, review, finish, finishCommits, curatorsMet, tallies>>

----
FrictionNext ==
    \/ \E s \in Sessions, e \in Events : RoutePending(s, e) \/ ResolveNewRoot(s, e)
    \/ \E s \in Sessions, e \in Events, route \in BOOLEAN : Record(s, e, route)
    \/ \E e \in Events, t \in Tasks \cup {NoOne} : Attribute(e, t)
    \/ \E s \in Sessions : \/ ListRoots(s) \/ CommentRoot(s) \/ SaveRoute(s) \/ RouteFails(s) \/ SessionDies(s)
                           \/ AppendMarkers(s) \/ NameTarget(s) \/ CloseDuplicate(s) \/ WriteMark(s)
    \/ \E s \in Sessions, verified \in BOOLEAN : CreateRoot(s, verified)
    \/ \E s \in Sessions, e \in Events, n \in IssueNumbers : ResolveSameRoot(s, e, n)
    \/ \E s \in Sessions, n, d \in IssueNumbers : MergeRoots(s, n, d)
    \/ \E n \in IssueNumbers : CloseFixed(n)
    \/ \E s \in Sessions, count \in 1..Len(log) : BeginMark(s, count)
    \/ \E t \in Tasks : \/ Review(t) \/ SaveCheckpoint(t) \/ RequireCheckpoint(t) \/ ReadCandidate(t) \/ FindArchived(t)
                        \/ CompareParent(t) \/ ReadProof(t) \/ CarryCheckpoint(t) \/ FinishEnds(t) \/ AgentCommits(t)
    \/ \E t \in Tasks, swept \in BOOLEAN : ArchiveCommit(t, swept)

FrictionSpec == FrictionInit /\ [][FrictionNext]_frictionVars

----
(* Properties *)

\* One open Issue carries the marker of a fingerprint, through failed routings, deaths, fixes and
\* complete merges; but for fingerprints that a person decided about (also by merging a duplicate
\* again that is closed), that two sessions put up at a time, or that a curator put back with a
\* stale body (route_event, merge_roots).  And merging forgets no root cause: wherever it is killed,
\* and whatever is merged on into another root, each marker of a merged root is on one that is open
\* or was fixed.  Curators that work at the same time are left out of this: each writes back the
\* body it has read, and with it drops what the other has added.
OneRoot ==
    /\ \A p \in Prints \ (contested \cup half) : Cardinality(MarkedRoots(p)) <= 1
    /\ curatorsMet \/ \A n \in IssueNumbers :
           roots[n].open \/ roots[n].fixed
               \/ \A p \in roots[n].markers : \E m \in IssueNumbers : p \in roots[m].markers /\ (roots[m].open \/ roots[m].fixed)

\* A checkpoint stands for content that was reviewed, plus commits that finish made itself, when it
\* is carried and the agent commits at any moment (carry_checkpoint_over_finalize).  Work of the agent
\* rides along only where finish takes it for its own or for what it compared: committed between the
\* gate and the reading of the candidate, or between the comparison of the parent and the reading of the
\* content; as an archive commit of the agent's own on the candidate; or swept up by the commit of
\* finish.  Most of the window is watched: what is committed during the minutes of the review and of the
\* checks, beside the archive commit, or between it and the comparison, is never carried.
CarriedIsReviewed ==
    \A t \in Tasks :
        ((checkpoints[t].reviewed + 1)..checkpoints[t].content) \subseteq (finishCommits[t] \cup rodeAlong[t])

\* "A clean path retains a concise `none` checkpoint": while a finish is between its gate and the
\* carry, the checkpoint that the gate found is there.  Marking a review batch as read replaces the
\* state file (mark_reviewed).
CheckpointsAreKept ==
    \A t \in Tasks : finish[t].stage # "idle" => checkpoints[t].recorded

\* "One root cause keeps one open friction issue": also for fingerprints that were decided about
\* one after the other (resolve_candidate).
OneOpenRoot == curatorsMet \/ \A p \in Prints : Cardinality(MarkedRoots(p)) <= 1

====

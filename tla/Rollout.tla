---- MODULE Rollout ----
(* The managed rollout of platform versions to one downstream project           *)
(* (rollout_project.py, rollout_supersession.py, rollout_failure_streak.py): a   *)
(* job renders a version onto a branch of its own, guards what the project owns, *)
(* opens a pull request for review, closes the ones it supersedes, and keeps the *)
(* Issue that counts failed preparations in a row.                               *)
(*                                                                            *)
(* Jobs of several dispatches overlap: nothing serialises them.  The project     *)
(* commits, merges and closes pull requests at any time.  Copier, the bootstrap  *)
(* and GitHub are external: a conflict, a damaged file, a failed call.           *)
EXTENDS Naturals, Sequences, FiniteSets

CONSTANTS
    Paths,          \* files of the project that the template also renders
    OwnedPaths,     \* those that belong to the project
    ReclaimedPaths, \* those that the platform has taken back
    RunnerPaths,    \* workflows that name the CI runner
    Jobs,           \* jobs of the rollout and maintenance workflows
    Threshold,      \* failures in a row that raise an alert
    RolloutBounds   \* slices: how far a behaviour goes

ASSUME RolloutAssumption ==
    /\ OwnedPaths \cup ReclaimedPaths \cup RunnerPaths \subseteq Paths
    /\ OwnedPaths \cap (ReclaimedPaths \cup RunnerPaths) = {}
    /\ IsFiniteSet(Jobs) /\ Threshold \in Nat
    /\ RolloutBounds \subseteq [paths: SUBSET Paths, jobs: SUBSET Jobs, parallel: Nat, versions: Nat,
                                dispatches: Nat, edits: Nat, faults: Nat]

VARIABLES
    trunk,      \* the default branch: recorded version, runner answer, files
    mode,      \* harness_mode: who owns a conflict
    changes,   \* path -> the versions in which its template changed
    requests,  \* version -> the pull request of its reserved branch
    branches,  \* versions whose reserved branch exists on origin
    job,       \* what each job is doing, with what it has read
    issues,    \* tracking Issues in the order of their creation
    failures,  \* history: failed preparations recorded since the last recovery, none of them on a stale reading
    raced,     \* history: Issues written on a stale reading, or open beside one that was
    garbled,    \* history: Issues whose body somebody made unreadable
    unlabelled, \* history: Issues where the job that recorded the latest failure ended before it set the label
    limits, edits, faults, dispatches    \* bounds of this behaviour, and its counters

project == <<trunk, mode, changes, edits>>
tracking == <<issues, failures, raced, garbled, unlabelled>>
rolloutVars == <<project, requests, branches, job, tracking, limits, faults, dispatches>>

\* A file: the version its text comes from, and what the project made of it.
Own == {"none", "runner", "edit", "both"}
NoTree == [p \in Paths |-> [from |-> 0, own |-> "none"]]
NoBase == [version |-> 0, runner |-> FALSE, tree |-> NoTree]
NoUpdateRequest == [state |-> "none", bot |-> FALSE, from |-> NoBase, head |-> NoBase, conflicts |-> {}]
NoIssue == [open |-> TRUE, readable |-> TRUE, streak |-> 0, last |-> 0, alert |-> FALSE]
IdleJob == [stage |-> "idle", version |-> 0, clone |-> 0, from |-> NoBase, head |-> NoBase, conflicts |-> {},
            authority |-> 0, plan |-> {}, issue |-> 0, seen |-> NoIssue, stale |-> FALSE, prepared |-> FALSE]
Versions == 1..limits.versions

\* The render of a path of a version, under the recorded answers.
LastChange(p, v) == CHOOSE w \in changes[p] \cup {0} : w <= v /\ \A u \in changes[p] : u <= v => u <= w
RunnerAware(v) == v > 0    \* the first rollout is to a version that asks for the runner
Render(p, v, runner) == [from |-> LastChange(p, v), own |-> IF runner /\ RunnerAware(v) /\ p \in RunnerPaths THEN "runner" ELSE "none"]

RolloutInit ==
    /\ limits \in RolloutBounds
    /\ mode \in (IF limits.paths = {} THEN {"platform"} ELSE {"platform", "project"})
    /\ changes \in [Paths -> SUBSET Versions] /\ \A p \in Paths \ limits.paths : changes[p] = {}
    /\ trunk \in [version: {0}, runner: BOOLEAN, tree: [Paths -> [from: 0..1, own: Own]]]
    /\ \A p \in Paths : /\ trunk.tree[p].from \in changes[p] \cup {0}
                        /\ trunk.tree[p].own \in (IF p \in RunnerPaths THEN Own ELSE {"none", "edit"})
                        /\ p \notin limits.paths => trunk.tree[p].own = Render(p, 0, trunk.runner).own
    /\ limits.paths \cap RunnerPaths = {} => ~trunk.runner
    /\ requests = [v \in Versions |-> NoUpdateRequest] /\ branches = {}
    /\ job = [j \in Jobs |-> IdleJob]
    /\ issues = <<>> /\ failures = 0 /\ raced = {} /\ garbled = {} /\ unlabelled = {}
    /\ edits = 0 /\ faults = 0 /\ dispatches = 0

JobAt(j, stage) == job[j].stage = stage
Go(j, stage) == job' = [job EXCEPT ![j].stage = stage]
Fault == faults < limits.faults /\ faults' = faults + 1

\* A failed preparation is counted; another failed step only ends its job.
Block(j) == Go(j, "failure") /\ UNCHANGED <<requests, branches, tracking, faults>>
Abort(j) == job' = [job EXCEPT ![j] = IdleJob]

----
(* Preparation *)

\* The job clones the default branch when it starts.
Dispatch(j, v) ==
    /\ JobAt(j, "idle") /\ j \in limits.jobs
    /\ Cardinality({i \in Jobs : ~JobAt(i, "idle")}) < limits.parallel
    /\ dispatches < limits.dispatches /\ dispatches' = dispatches + 1
    /\ job' = [job EXCEPT ![j] = [IdleJob EXCEPT !.stage = "pending", !.version = v, !.clone = trunk.version]]
    /\ UNCHANGED <<project, requests, branches, tracking, faults>>

\* Open pull requests of the bot on their reserved branch.
EligibleRequests == {v \in Versions : requests[v].state = "open" /\ requests[v].bot}

FindPending(j) ==
    /\ JobAt(j, "pending")
    /\ job' = [job EXCEPT ![j].stage = IF job[j].version \in EligibleRequests THEN "list" ELSE "prepare",
                          ![j].authority = IF job[j].version \in EligibleRequests THEN job[j].version ELSE 0]
    /\ UNCHANGED <<project, requests, branches, tracking, faults, dispatches>>

UpToDate(j) ==
    /\ JobAt(j, "prepare") /\ job[j].clone = job[j].version
    /\ job' = [job EXCEPT ![j].stage = "list", ![j].prepared = TRUE]
    /\ UNCHANGED <<requests, branches, tracking, faults>>

RefuseToStart(j) ==
    /\ JobAt(j, "prepare")
    /\ job[j].clone > job[j].version \/ (job[j].clone < job[j].version /\ job[j].version \in branches)
    /\ Block(j)

\* The branch starts at the default branch as it is now, not as it was cloned.
CreateRolloutBranch(j) ==
    /\ JobAt(j, "prepare") /\ job[j].clone < job[j].version /\ job[j].version \notin branches
    /\ job' = [job EXCEPT ![j].stage = "runner", ![j].from = trunk, ![j].head = trunk]
    /\ UNCHANGED <<requests, branches, tracking, faults>>

\* A runner edited by hand becomes an answer, when nothing else was edited.
NeverNamed(file) == FALSE
NamesRunner(file) == file.own \in {"runner", "both"}
CustomRunners(tree) == {p \in RunnerPaths : NamesRunner(tree[p])}
Restored(tree, p) == IF p \in CustomRunners(tree) THEN [tree[p] EXCEPT !.own = IF @ = "both" THEN "edit" ELSE "none"] ELSE tree[p]
Migratable(start) ==
    /\ CustomRunners(start.tree) = RunnerPaths
    /\ \A p \in RunnerPaths : Restored(start.tree, p) = Render(p, start.version, FALSE)

MigrateRunner(j) ==
    LET start == job[j].head
    IN /\ JobAt(j, "runner")
       /\ IF start.runner \/ RunnerAware(start.version) \/ CustomRunners(start.tree) = {}
          THEN Go(j, "update") /\ UNCHANGED <<requests, branches, tracking, faults>>
          ELSE IF Migratable(start)
          THEN /\ job' = [job EXCEPT ![j].stage = "update", ![j].head.runner = TRUE,
                                     ![j].head.tree = [p \in Paths |-> Restored(start.tree, p)]]
               /\ UNCHANGED <<requests, branches, tracking, faults>>
          ELSE Block(j)

\* Copier replays what the project changed onto the new template.
Replayed(start, p, v) ==
    LET ours == start.tree[p]   old == Render(p, start.version, start.runner)   new == Render(p, v, start.runner)
    IN IF p \in OwnedPaths \/ old = new THEN ours
       ELSE IF ours.own = old.own \/ ours = new THEN new
       ELSE [new EXCEPT !.own = IF @ = "runner" /\ ours.own = "edit" THEN "both" ELSE ours.own]
Rewrites(start, p, v) == Render(p, start.version, start.runner) # Render(p, v, start.runner)
\* What the renderer may spoil although it is asked to leave it alone.
Damage(tree, spoilt) == [p \in Paths |-> IF p \in spoilt THEN [from |-> 0, own |-> "none"] ELSE tree[p]]
Spoiling(spoilt) == IF spoilt = {} THEN UNCHANGED faults ELSE Cardinality(spoilt) = 1 /\ Fault

UpdateProject(j) ==
    LET start == job[j].head   v == job[j].version
    IN /\ JobAt(j, "update") /\ start.version <= v
       /\ \E rejects \in SUBSET {p \in limits.paths : Rewrites(start, p, v)}, spoilt \in SUBSET OwnedPaths :
             /\ Spoiling(spoilt)
             /\ job' = IF rejects = {}
                       THEN [job EXCEPT ![j].stage = "rendered", ![j].conflicts = {},
                                        ![j].head.version = v,
                                        ![j].head.tree = Damage([p \in Paths |-> Replayed(start, p, v)], spoilt)]
                       ELSE [job EXCEPT ![j].stage = "classify", ![j].conflicts = rejects]
       /\ UNCHANGED <<requests, branches, tracking>>

\* Copier refuses a downgrade: the default branch was ahead of the clone.
RefuseDowngrade(j) == JobAt(j, "update") /\ job[j].head.version > job[j].version /\ Block(j)

\* Conflicts that hold nothing of the project.
Recoverable(ps) == IF mode = "project" THEN ps \cap OwnedPaths ELSE {}
Reclaimed(start, ps, v) == {p \in ps \cap ReclaimedPaths : start.tree[p] = Render(p, v, FALSE)}
OfSameVersion(start, ps) == {p \in ps : start.tree[p].from = LastChange(p, start.version)}
EqualToBaseline(start, ps) == {p \in ps : start.tree[p] = Render(p, start.version, start.runner)}
BaselineEquivalent(start, ps) == IF mode = "platform" THEN EqualToBaseline(start, ps) ELSE {}
TargetEquivalent(start, ps, v) == IF mode = "platform" THEN {p \in ps : start.tree[p] = Render(p, v, start.runner)} ELSE {}
Unexpected(start, ps, v) ==
    ps \ (Recoverable(ps) \cup Reclaimed(start, ps, v) \cup BaselineEquivalent(start, ps) \cup TargetEquivalent(start, ps, v))

ClassifyConflicts(j) ==
    /\ JobAt(j, "classify")
    /\ IF Unexpected(job[j].head, job[j].conflicts, job[j].version) = {}
       THEN Go(j, "recopy") /\ UNCHANGED <<requests, branches, tracking, faults>>
       ELSE Block(j)

\* From the reset branch: every file of the platform is written anew.
Recopied(start, p, v) == IF p \in OwnedPaths THEN start.tree[p] ELSE Render(p, v, start.runner)

Recopy(j) ==
    LET start == job[j].head   v == job[j].version
    IN /\ JobAt(j, "recopy")
       /\ \E spoilt \in SUBSET (OwnedPaths \cup job[j].conflicts) :
             /\ Spoiling(spoilt)
             /\ job' = [job EXCEPT ![j].stage = "rendered", ![j].head.version = v,
                                   ![j].head.tree = Damage([p \in Paths |-> Recopied(start, p, v)], spoilt)]
       /\ UNCHANGED <<requests, branches, tracking>>

OwnedPresent(j) == \A p \in OwnedPaths : job[j].head.tree[p].from <= job[j].version
OwnedIntact(j) == \A p \in OwnedPaths : job[j].head.tree[p] = job[j].from.tree[p]
ConflictsRendered(j) ==
    \A p \in job[j].conflicts \ OwnedPaths : job[j].head.tree[p] = Render(p, job[j].version, job[j].head.runner)
Rewritten(j) == job[j].head # job[j].from

\* Snapshots and proofs after the render, then a repository that is different.
CheckRender(j) ==
    /\ JobAt(j, "rendered")
    /\ IF OwnedIntact(j) /\ ConflictsRendered(j) /\ Rewritten(j)
       THEN Go(j, "validate") /\ UNCHANGED <<requests, branches, tracking, faults>>
       ELSE Block(j)

\* Publication conformance and the doctor's validation, which may fail.
Validate(j) ==
    /\ JobAt(j, "validate")
    /\ job' = [job EXCEPT ![j].stage = "push", ![j].prepared = TRUE]
    /\ UNCHANGED <<requests, branches, tracking, faults>>

FailValidation(j) == JobAt(j, "validate") /\ Fault /\ Go(j, "failure") /\ UNCHANGED <<requests, branches, tracking>>

----
(* Publication and supersession *)

\* A branch that another job has pushed meanwhile is not overwritten.
PushRollout(j) ==
    /\ JobAt(j, "push")
    /\ IF job[j].version \in branches
       THEN Abort(j) /\ UNCHANGED branches
       ELSE Go(j, "open") /\ branches' = branches \cup {job[j].version}
    /\ UNCHANGED <<requests, tracking, faults>>

OpenRequest(j) ==
    LET v == job[j].version
    IN /\ JobAt(j, "open") /\ requests[v].state # "open"
       /\ requests' = [requests EXCEPT ![v] = [state |-> "open", bot |-> TRUE, from |-> job[j].from, head |-> job[j].head,
                                               conflicts |-> job[j].conflicts]]
       /\ job' = [job EXCEPT ![j].stage = "list", ![j].authority = v]
       /\ UNCHANGED <<branches, tracking, faults>>

FailToOpen(j) ==
    /\ JobAt(j, "open")
    /\ IF requests[job[j].version].state = "open" THEN UNCHANGED faults ELSE Fault
    /\ Abort(j)
    /\ UNCHANGED <<requests, branches, tracking>>

\* Maintenance and an up-to-date project: the newest pull request is the authority.  The scheduled
\* maintenance only looks at the Issue.
DispatchMaintenance(j, start) ==
    /\ JobAt(j, "idle") /\ j \in limits.jobs
    /\ Cardinality({i \in Jobs : ~JobAt(i, "idle")}) < limits.parallel
    /\ dispatches < limits.dispatches /\ dispatches' = dispatches + 1
    /\ job' = [job EXCEPT ![j] = [IdleJob EXCEPT !.stage = start]]
    /\ UNCHANGED <<project, requests, branches, tracking, faults>>

Newest(vs) == CHOOSE v \in vs \cup {0} : \A w \in vs : w <= v

ListRequests(j) ==
    LET authority == IF job[j].authority = 0 THEN Newest(EligibleRequests) ELSE job[j].authority
    IN /\ JobAt(j, "list")
       /\ IF authority \in EligibleRequests \cup {0}
          THEN job' = [job EXCEPT ![j].stage = "plan", ![j].authority = authority, ![j].plan = EligibleRequests]
          ELSE Abort(j)
       /\ UNCHANGED <<requests, branches, tracking, faults>>

Differs(v, w) == v # w
IsOlder(v, w) == v < w
Supersedes(authority, v) == authority # 0 /\ IsOlder(v, authority)

\* The committed version is read after the list; unreadable, it proves nothing.
PlanSupersession(j) ==
    /\ JobAt(j, "plan")
    /\ \E readable \in BOOLEAN :
          /\ IF readable THEN UNCHANGED faults ELSE Fault
          /\ job' = [job EXCEPT ![j].stage = "close",
                                ![j].plan = {v \in @ : (readable /\ v <= trunk.version) \/ Supersedes(job[j].authority, v)}]
    /\ UNCHANGED <<requests, branches, tracking>>

\* Close, confirm, comment, and delete the branch if that succeeds.
CloseAndDelete(j) ==
    /\ JobAt(j, "close") /\ job[j].plan # {}
    /\ LET v == CHOOSE v \in job[j].plan : \A w \in job[j].plan : v <= w
       IN /\ requests' = [requests EXCEPT ![v].state = IF @ = "open" THEN "superseded" ELSE @]
          /\ \/ branches' = branches \ {v} /\ UNCHANGED faults
             \/ branches' = branches /\ Fault
          /\ job' = [job EXCEPT ![j].plan = @ \ {v}]
    /\ UNCHANGED tracking

FinishSupersession(j) ==
    /\ JobAt(j, "close") /\ job[j].plan = {}
    /\ job' = [job EXCEPT ![j].stage = IF job[j].version = 0 THEN "observe" ELSE IF job[j].prepared THEN "recovery" ELSE "idle"]
    /\ UNCHANGED <<requests, branches, tracking, faults>>

----
(* The Issue that counts failures in a row *)

OpenIssues == {n \in 1..Len(issues) : issues[n].open}
NoneTracked == {}
Tracked == OpenIssues
\* gh lists the latest first
TrackingIssue == CHOOSE n \in Tracked \cup {0} : \A m \in Tracked : m <= n

\* The labels are ensured, and the Issue is found with its body.
FindIssue(j, stage, next) ==
    LET n == TrackingIssue
    IN /\ JobAt(j, stage)
       /\ job' = [job EXCEPT ![j].stage = next, ![j].issue = n, ![j].seen = IF n = 0 THEN NoIssue ELSE issues[n],
                             ![j].stale = FALSE]
       /\ UNCHANGED <<requests, branches, tracking, faults>>

\* Jobs that hold a reading of the tracker; a write of another makes it stale.
Reading(i) == job[i].stage \in {"count", "proof", "resolve", "settle"}
Overtake(j, mine) == job' = [i \in Jobs |-> IF i = j THEN mine ELSE IF Reading(i) THEN [job[i] EXCEPT !.stale = TRUE] ELSE job[i]]

\* The count rests on the body that was found: one more, and the threshold if it could not be read.
Escalated == IF Threshold > 1 THEN Threshold ELSE 1
AfterFailure(prior, v) ==
    [prior EXCEPT !.readable = TRUE, !.last = v, !.streak = IF prior.readable THEN @ + 1 ELSE Escalated]
Alarming(body) == body.streak >= Threshold

\* The Issue is created, or its body replaced, also when it was closed meanwhile; the calls that follow are
\* a comment, on an Issue that was there, and the label of an alert.
RecordFailure(j) ==
    LET found == job[j].issue
        body == AfterFailure(job[j].seen, job[j].version)
        n == IF found = 0 THEN Len(issues) + 1 ELSE found
    IN /\ JobAt(j, "count")
       /\ issues' = IF found = 0 THEN Append(issues, body)
                    ELSE [issues EXCEPT ![n].readable = TRUE, ![n].streak = body.streak, ![n].last = body.last]
       /\ failures' = IF job[j].stale THEN failures ELSE failures + 1
       /\ raced' = IF job[j].stale THEN raced \cup {n} \cup OpenIssues ELSE raced
       /\ unlabelled' = unlabelled \ {n}
       /\ Overtake(j, [job[j] EXCEPT !.stage = IF found = 0 THEN "alert" ELSE "comment", !.issue = n, !.seen = body])
       /\ UNCHANGED <<requests, branches, garbled, faults>>

CommentFailure(j) == JobAt(j, "comment") /\ Go(j, "alert") /\ UNCHANGED <<requests, branches, tracking, faults>>

RaiseAlert(j) ==
    /\ JobAt(j, "alert")
    /\ issues' = IF Alarming(job[j].seen) THEN [issues EXCEPT ![job[j].issue].alert = TRUE] ELSE issues
    /\ Abort(j)
    /\ UNCHANGED <<requests, branches, failures, raced, garbled, unlabelled, faults>>

\* A recovery is commented on, then the Issue is closed.
CommentRecovery(j) ==
    /\ JobAt(j, "resolve")
    /\ IF job[j].issue = 0 THEN Abort(j) ELSE Go(j, "settle")
    /\ UNCHANGED <<requests, branches, tracking, faults>>

CloseIssue(j) ==
    /\ JobAt(j, "settle")
    /\ issues' = [issues EXCEPT ![job[j].issue].open = FALSE]
    /\ failures' = IF issues[job[j].issue].open THEN 0 ELSE failures
    /\ Overtake(j, IdleJob)
    /\ UNCHANGED <<requests, branches, raced, garbled, unlabelled, faults>>

\* Maintenance closes an alert once the default branch proves recovery, by the body that was found.
Recovered(found) == found.readable /\ found.last <= trunk.version

ObserveRecovery(j) ==
    /\ JobAt(j, "proof")
    /\ IF job[j].issue # 0 /\ Recovered(job[j].seen) THEN Go(j, "resolve") ELSE Abort(j)
    /\ UNCHANGED <<requests, branches, tracking, faults>>

\* A call of the tracker fails (TrackerError), or the job is killed between two of them.
Alerting(j) == job[j].stage \in {"comment", "alert"} /\ Alarming(job[j].seen)

TrackerFails(j) ==
    /\ job[j].stage \in {"failure", "count", "comment", "alert", "recovery", "observe", "proof", "resolve", "settle"}
    /\ Fault
    /\ unlabelled' = IF Alerting(j) THEN unlabelled \cup {job[j].issue} ELSE unlabelled
    /\ Abort(j)
    /\ UNCHANGED <<requests, branches, issues, failures, raced, garbled>>

----
(* The project *)

ProjectEdits ==
    /\ edits < limits.edits /\ edits' = edits + 1
    /\ \E p \in limits.paths, own \in Own :
          /\ own \in (IF p \in RunnerPaths THEN Own ELSE {"edit"})
          /\ trunk' = [trunk EXCEPT !.tree[p].own = own]
    /\ UNCHANGED <<mode, changes, requests, branches, job, tracking, faults>>

\* Both sides write the version: a request of another version does not merge.
MergeRollout(v) ==
    LET r == requests[v]
    IN /\ r.state = "open" /\ r.from.version = trunk.version
       /\ \A p \in Paths : r.head.tree[p] = r.from.tree[p] \/ trunk.tree[p] = r.from.tree[p]
       /\ requests' = [requests EXCEPT ![v].state = "merged"]
       /\ trunk' = [version |-> r.head.version, runner |-> r.head.runner,
                   tree |-> [p \in Paths |-> IF r.head.tree[p] = r.from.tree[p] THEN trunk.tree[p] ELSE r.head.tree[p]]]
       /\ \E left \in BOOLEAN : branches' = IF left THEN branches ELSE branches \ {v}
       /\ UNCHANGED <<mode, changes, edits, job, tracking, faults>>

\* Somebody rejects a rollout, or opens a request from a reserved branch by hand.
CloseByHand(v) ==
    /\ requests[v].state = "open" /\ edits < limits.edits /\ edits' = edits + 1
    /\ requests' = [requests EXCEPT ![v].state = "rejected"]
    /\ \E left \in BOOLEAN : branches' = IF left THEN branches ELSE branches \ {v}
    /\ UNCHANGED <<trunk, mode, changes, job, tracking, faults>>

OpenByHand(v) ==
    /\ requests[v].state # "open" /\ edits < limits.edits /\ edits' = edits + 1
    /\ requests' = [requests EXCEPT ![v] = [NoUpdateRequest EXCEPT !.state = "open", !.from = trunk, !.head = trunk]]
    /\ branches' = branches \cup {v}
    /\ UNCHANGED <<trunk, mode, changes, job, tracking, faults>>

\* Somebody edits the body of the Issue, and the state in it does not parse any more.
SpoilIssue(n) ==
    /\ issues[n].open /\ edits < limits.edits /\ edits' = edits + 1
    /\ issues' = [issues EXCEPT ![n].readable = FALSE]
    /\ garbled' = garbled \cup {n}
    /\ job' = [i \in Jobs |-> IF Reading(i) THEN [job[i] EXCEPT !.stale = TRUE] ELSE job[i]]
    /\ UNCHANGED <<trunk, mode, changes, requests, branches, failures, raced, unlabelled, faults>>

PrepareStep(j) ==
    /\ \/ UpToDate(j) \/ RefuseToStart(j) \/ CreateRolloutBranch(j) \/ MigrateRunner(j)
       \/ UpdateProject(j) \/ RefuseDowngrade(j) \/ ClassifyConflicts(j) \/ Recopy(j)
       \/ CheckRender(j) \/ Validate(j) \/ FailValidation(j)
       \/ PushRollout(j) \/ OpenRequest(j) \/ FailToOpen(j)
       \/ ListRequests(j) \/ PlanSupersession(j) \/ CloseAndDelete(j) \/ FinishSupersession(j)
       \/ FindIssue(j, "failure", "count") \/ FindIssue(j, "recovery", "resolve") \/ FindIssue(j, "observe", "proof")
       \/ RecordFailure(j) \/ CommentFailure(j) \/ RaiseAlert(j)
       \/ ObserveRecovery(j) \/ CommentRecovery(j) \/ CloseIssue(j) \/ TrackerFails(j)
    /\ UNCHANGED <<project, dispatches>>

RolloutNext ==
    /\ \/ \E j \in Jobs : FindPending(j) \/ PrepareStep(j)
                          \/ \E v \in Versions : Dispatch(j, v)
                          \/ \E start \in {"list", "observe"} : DispatchMaintenance(j, start)
       \/ /\ \/ ProjectEdits \/ \E n \in 1..Len(issues) : SpoilIssue(n)
             \/ \E v \in Versions : MergeRollout(v) \/ CloseByHand(v) \/ OpenByHand(v)
          /\ UNCHANGED dispatches
    /\ UNCHANGED limits

RolloutSpec == RolloutInit /\ [][RolloutNext]_rolloutVars

----
(* Properties *)

\* The project's files leave a rollout as they entered it; a file on which Copier
\* conflicted carries everything the project had made of it; and a CI runner named
\* by hand is named by the first version that asks for it: snapshots, proofs and the migration of
\* rollout_project.py, whatever the renderer spoils.  And supersession never takes the
\* last way to a version the project lacks: a request that the bot closed is behind the
\* default branch, or a newer one is open, was merged, or was rejected by the project
\* itself (rollout_supersession.py).
Survives(old, new) == old.own = "none" \/ new.own = old.own \/ new.own = "both"
RolloutKeepsWork ==
    \A v \in Versions : requests[v].bot =>
        LET r == requests[v]
        IN /\ \A p \in OwnedPaths : r.head.tree[p] = r.from.tree[p]
           /\ \A p \in r.conflicts \ OwnedPaths : Survives(r.from.tree[p], r.head.tree[p])
           /\ \A p \in RunnerPaths : ~RunnerAware(r.from.version) /\ r.from.tree[p].own \in {"runner", "both"} => r.head.tree[p].own \in {"runner", "both"}
           /\ r.state = "superseded" =>
                  v <= trunk.version \/ \E w \in Versions : v < w /\ requests[w].state \in {"open", "merged", "rejected"}

\* The Issue of a project's failures, whichever jobs overlap, whatever call of the tracker fails and
\* wherever a job is killed (rollout_failure_streak.py).  While a failure that was recorded on a current
\* reading has not been followed by a recovery that closed an Issue, one is open.  Of the Issues that no
\* stale reading was written to, and none of whose like was open beside them, at most one is open; it
\* counts exactly the recorded failures since the last recovery, or stands at the threshold or above
\* after somebody made it unreadable, and it is labelled as an alert only from the threshold on.  Races lose counts,
\* but no alert: an open Issue at the threshold has its label, a job is about to set it, or the job that
\* recorded the latest failure was the one whose calls failed.
Undisputed == OpenIssues \ raced

StreakIsExact ==
    /\ failures > 0 => OpenIssues # {}
    /\ Cardinality(Undisputed) <= 1
    /\ \A n \in Undisputed :
           issues[n].readable =>
               /\ issues[n].streak = failures \/ (n \in garbled /\ Alarming(issues[n]))
               /\ issues[n].alert => Alarming(issues[n])
    /\ \A n \in OpenIssues :
           Alarming(issues[n]) =>
               issues[n].alert \/ n \in unlabelled \/ \E j \in Jobs : Alerting(j) /\ job[j].issue = n

\* "Any currently divergent or otherwise unproven path SHALL remain fail-closed"
\* (openspec/specs/platform-rollout/spec.md): a rollout that recopies keeps what the
\* project made of every platform file, also of those Copier did not conflict on.
DivergenceSurvives ==
    \A v \in Versions : requests[v].bot =>
        \A p \in Paths : Survives(requests[v].from.tree[p], requests[v].head.tree[p])
====

------------------------------ MODULE Publication ------------------------------
(***************************************************************************)
(* Publication of a finished task in pull request mode with auto-merge:    *)
(* finish_task.py, the project_publish.py it runs, task_reconciliation.py  *)
(* and the integration lock (all under template/scripts).                  *)
(*                                                                         *)
(* A session is a run of `finish` or `finish --reconcile` in the worktree  *)
(* of a task.  Nothing but GitHub, the task branch and the receipts is     *)
(* remembered between two runs: a run can be killed anywhere, and the next *)
(* one finds out by lookups how far the delivery has come.  GitHub is the  *)
(* environment: it runs the checks, merges an armed request whenever they  *)
(* pass, and keeps the request across a push.                              *)
(*                                                                         *)
(* A head stands for the commit of a task branch: its position in the      *)
(* history of the branch (which only grows) and how much of main it has.   *)
(* The trace commit that finish may add to a head changes no content and   *)
(* is the same head here.                                                  *)
(***************************************************************************)
EXTENDS Naturals, FiniteSets

CONSTANTS
    Tasks,
    Sessions,
    NoSession,      \* nobody holds the integration lock
    TaskOf,         \* the task in whose worktree a session runs
    MaxCommits,     \* heads of a task branch, a bound of the model
    MaxMain,        \* merges of others into main, a bound of the model
    MaxFaults       \* kills, refusals and failed lookups, a bound of the model

ASSUME PublicationAssumption ==
    /\ NoSession \notin Sessions
    /\ TaskOf \in [Sessions -> Tasks]
    /\ MaxCommits \in Nat /\ MaxMain \in Nat /\ MaxFaults \in Nat

\* The agent of a task runs finish and reconcile one at a time.
OneAgent == \A s, u \in Sessions : TaskOf[s] = TaskOf[u] => s = u

VARIABLES
    pc,         \* where each session is
    at,         \* the head a session has observed and works on
    seen,       \* the main a session has fetched
    found,      \* what its PR lookup found: "none", "open" (at this head) or "stale"
    faults,     \* how much has gone wrong so far
    head,       \* the head of each task branch in the worktree
    remote,     \* the head of the task branch on GitHub
    open,       \* an open PR for the branch; its head is remote
    armed,      \* ... with auto-merge requested
    checks,     \* ... and the state of its required checks
    merged,     \* the heads of the task that GitHub has merged
    landed,     \* where in main the last of them is
    main,       \* the length of main on GitHub
    others,     \* how many of those commits are not from these tasks
    localMain,  \* the length of main in the integration copy
    tree,       \* its uncommitted content: "clean", "target" (equal to main) or "other"
    lock,       \* the session in the integration lock
    receipts,   \* the recorded advances of localMain
    validated,  \* the heads that passed the validation of a finish
    project,    \* the status of the task in the Project: "open", "review" or "done"
    parent,     \* the parent Requirement is reconciled
    claim,      \* the task has its claim on the board
    gone        \* the worktree of the task is removed

sessionVars == <<pc, at, seen, found>>
hubVars     == <<remote, open, armed, checks, merged, landed, main, others>>
localVars   == <<localMain, tree, receipts>>
taskVars    == <<head, validated, project, parent, claim, gone>>
vars == <<sessionVars, faults, hubVars, localVars, lock, taskVars>>

Heads  == Nat \X Nat        \* <<position in the branch, length of main it contains>>
NoHead == <<0, 0>>

Publishing == {"publish", "push", "ensure", "created", "review", "checks", "guard",
               "arm", "follow", "confirm", "delete", "stopped"}
Finishing  == {"start", "recover", "preflight", "validate", "gate", "resume", "discard"}
              \cup Publishing
Ending     == {"sync", "advance", "receipt", "done", "parent", "board", "cleanup"}
Reconciling == {"terminal", "observe", "disarm1", "prove1", "push1", "pushed", "merge",
                "again", "disarm2", "prove2", "push2"}
Locked     == (Ending \ {"sync"}) \cup {"arm"}

TypeOK ==
    /\ pc \in [Sessions -> {"idle"} \cup Finishing \cup Ending \cup Reconciling]
    /\ at \in [Sessions -> Heads]
    /\ seen \in [Sessions -> 0 .. main]
    /\ found \in [Sessions -> {"none", "open", "stale"}]
    /\ faults \in 0 .. MaxFaults
    /\ head \in [Tasks -> Heads]
    /\ remote \in [Tasks -> Heads]
    /\ open \in [Tasks -> BOOLEAN]
    /\ armed \in [Tasks -> BOOLEAN]
    /\ checks \in [Tasks -> {"pending", "passed", "failed"}]
    /\ merged \in [Tasks -> SUBSET Heads]
    /\ main \in Nat
    /\ landed \in [Tasks -> 0 .. main]
    /\ others \in 0 .. MaxMain
    /\ localMain \in 0 .. main
    /\ tree \in {"clean", "target", "other"}
    /\ lock \in Sessions \cup {NoSession}
    /\ receipts \subseteq Nat \X Nat
    /\ validated \in [Tasks -> SUBSET Heads]
    /\ project \in [Tasks -> {"open", "review", "done"}]
    /\ parent \in [Tasks -> BOOLEAN]
    /\ claim \in [Tasks -> BOOLEAN]
    /\ gone \in [Tasks -> BOOLEAN]

Init ==
    /\ pc = [s \in Sessions |-> "idle"]
    /\ at = [s \in Sessions |-> NoHead]
    /\ seen = [s \in Sessions |-> 0]
    /\ found = [s \in Sessions |-> "none"]
    /\ faults = 0
    /\ head = [t \in Tasks |-> <<1, 0>>]
    /\ remote = [t \in Tasks |-> NoHead]
    /\ open = [t \in Tasks |-> FALSE]
    /\ armed = [t \in Tasks |-> FALSE]
    /\ checks = [t \in Tasks |-> "pending"]
    /\ merged = [t \in Tasks |-> {}]
    /\ landed = [t \in Tasks |-> 0]
    /\ main = 0 /\ others = 0 /\ localMain = 0
    /\ tree = "clean"
    /\ lock = NoSession
    /\ receipts = {}
    /\ validated = [t \in Tasks |-> {}]
    /\ project = [t \in Tasks |-> "open"]
    /\ parent = [t \in Tasks |-> FALSE]
    /\ claim = [t \in Tasks |-> TRUE]
    /\ gone = [t \in Tasks |-> FALSE]

-----------------------------------------------------------------------------
(* Lookups and other operators on the state. *)

Goto(s, place) == pc' = [pc EXCEPT ![s] = place]

\* The head a session publishes is whatever the branch has at the moment.
Head(s) == head[TaskOf[s]]

\* Every head contains a part of main; a head that lacks the end of it is stale.
Fresh(h) == h[2] = main

\* find_exact_head_pr: a PR counts only at this very head, and only if it is the one PR.
BranchMerged(t, h) == merged[t] # {}
ExactMerged(t, h) == h \in merged[t] /\ ~(open[t] /\ remote[t] = h)
ExactOpen(t, h) == open[t] /\ remote[t] = h /\ h \notin merged[t]
OnePr(t, h) == ~(open[t] /\ remote[t] = h /\ h \in merged[t])

\* An accepted merge request is not a merge: only a MERGED PR at the exact head is one.
RequestAccepted(t, h) == h \in merged[t] \/ armed[t]
MergeProven(t, h) == h \in merged[t]

LookUp(t, h) == IF ~open[t] THEN "none" ELSE IF remote[t] = h THEN "open" ELSE "stale"

\* A lookup answers, or GitHub cannot be read.
Readable == UNCHANGED faults
Fault == faults < MaxFaults /\ faults' = faults + 1

\* An up-to-date main is a success of the synchronization, not a refusal.
NeverSynced(s) == FALSE
Synced(s) == localMain = seen[s]

\* What origin/main is once a session has fetched it: other worktrees fetch too.
Ahead(s) == {main + 1}
Fetched(s) == seen[s] .. main

\* serialized_integration: one session at a time between here and its Unlock.
NoLock == TRUE
LockFree == lock = NoSession

\* A PR without an armed request merges nothing.
PushAnyway(t) == TRUE
Disarmed(t) == ~armed[t]

Closed(t) == open' = [open EXCEPT ![t] = FALSE] /\ armed' = [armed EXCEPT ![t] = FALSE]

\* The end of a run closes the lock file.
Unlock(s) == lock' = IF lock = s THEN NoSession ELSE lock
Exit(s) == Goto(s, "idle") /\ Unlock(s)

\* A push moves the branch on GitHub, and with it the head of its open PR.
PushBranch(t) ==
    /\ remote' = [remote EXCEPT ![t] = head[t]]
    /\ checks' = IF remote[t] = head[t] THEN checks ELSE [checks EXCEPT ![t] = "pending"]
    /\ UNCHANGED <<open, armed, merged, landed, main, others>>

-----------------------------------------------------------------------------
(* finish: recovery first, then preflight and validation. *)

StartFinish(s) ==
    /\ pc[s] = "idle" /\ ~gone[TaskOf[s]]
    /\ Goto(s, "start")
    /\ UNCHANGED <<at, seen, found, faults, hubVars, localVars, lock, taskVars>>

\* remote_armed_pr: an armed PR at this head is followed before anything is validated.
FollowArmedPr(s) ==
    /\ pc[s] = "start"
    /\ ExactOpen(TaskOf[s], Head(s)) /\ armed[TaskOf[s]]
    /\ at' = [at EXCEPT ![s] = Head(s)]
    /\ Goto(s, "resume")
    /\ UNCHANGED <<seen, found, faults, hubVars, localVars, lock, taskVars>>

\* No such PR, or GitHub cannot be read: finish goes on.
NoArmedPr(s) ==
    /\ pc[s] = "start"
    /\ \/ ~(ExactOpen(TaskOf[s], Head(s)) /\ armed[TaskOf[s]]) /\ Readable
       \/ Fault
    /\ Goto(s, "recover")
    /\ UNCHANGED <<at, seen, found, hubVars, localVars, lock, taskVars>>

\* task_pr_is_already_merged: only local reconciliation is left.
RecoverMerged(s) ==
    /\ pc[s] = "recover"
    /\ ExactMerged(TaskOf[s], Head(s))
    /\ Goto(s, "sync")
    /\ UNCHANGED <<at, seen, found, faults, hubVars, localVars, lock, taskVars>>

NotMerged(s) ==
    /\ pc[s] = "recover"
    /\ \/ /\ ~ExactMerged(TaskOf[s], Head(s)) /\ Readable
          /\ found' = [found EXCEPT ![s] =
                IF ExactOpen(TaskOf[s], Head(s)) THEN "open" ELSE "none"]
       \/ Fault /\ found' = [found EXCEPT ![s] = "none"]
    /\ Goto(s, "preflight")
    /\ UNCHANGED <<at, seen, hubVars, localVars, lock, taskVars>>

\* The read-only blockers; a stale branch has to be reconciled even if its PR is open.
Preflight(s) ==
    /\ pc[s] = "preflight"
    /\ IF Fresh(Head(s))
       THEN Goto(s, "validate") /\ at' = [at EXCEPT ![s] = Head(s)]
       ELSE Goto(s, "idle") /\ UNCHANGED at
    /\ UNCHANGED <<seen, found, faults, hubVars, localVars, lock, taskVars>>

Validate(s) ==
    /\ pc[s] = "validate"
    /\ validated' = [validated EXCEPT ![TaskOf[s]] = @ \cup {at[s]}]
    /\ Goto(s, "gate")
    /\ UNCHANGED <<at, seen, found, faults, hubVars, localVars, lock, head, project, parent, claim, gone>>

\* Main can have moved during the validation: a first publication needs a fresh base.
PublicationGate(s) ==
    /\ pc[s] = "gate"
    /\ Goto(s, IF found[s] = "open" \/ Fresh(Head(s)) THEN "publish" ELSE "idle")
    /\ UNCHANGED <<at, seen, found, faults, hubVars, localVars, lock, taskVars>>

-----------------------------------------------------------------------------
(* project_publish: push, one PR for the exact head, and the request to merge it. *)

\* The head is read again here, and looked up.
Publish(s) ==
    /\ pc[s] = "publish"
    /\ at' = [at EXCEPT ![s] = Head(s)]
    /\ found' = [found EXCEPT ![s] = LookUp(TaskOf[s], Head(s))]
    /\ Goto(s, IF ~OnePr(TaskOf[s], Head(s)) THEN "stopped"
               ELSE IF ExactMerged(TaskOf[s], Head(s)) THEN "confirm" ELSE "push")
    /\ UNCHANGED <<seen, faults, hubVars, localVars, lock, taskVars>>

PushFeatureBranch(s) ==
    /\ pc[s] = "push"
    /\ IF found[s] = "open" \/ Fresh(Head(s))
       THEN Goto(s, "ensure") /\ PushBranch(TaskOf[s])
       ELSE Goto(s, "stopped") /\ UNCHANGED hubVars
    /\ UNCHANGED <<at, seen, found, faults, localVars, lock, taskVars>>

\* ensure_pr: reuse the PR of the lookup, or create one; GitHub has one open PR per branch.
EnsurePr(s) ==
    /\ pc[s] = "ensure"
    /\ Goto(s, IF found[s] = "open" THEN "review" ELSE "created")
    /\ IF found[s] = "none" /\ ~open[TaskOf[s]] /\ remote[TaskOf[s]] # NoHead
       THEN /\ open' = [open EXCEPT ![TaskOf[s]] = TRUE]
            /\ checks' = [checks EXCEPT ![TaskOf[s]] = "pending"]
       ELSE UNCHANGED <<open, checks>>
    /\ UNCHANGED <<at, seen, found, faults, remote, armed, merged, landed, main, others, localVars, lock, taskVars>>

\* A push to an older PR, a creation and a lost creation race all end in another lookup.
ConfirmPr(s) ==
    /\ pc[s] = "created"
    /\ Goto(s, IF ExactOpen(TaskOf[s], at[s]) THEN "review" ELSE "stopped")
    /\ UNCHANGED <<at, seen, found, faults, hubVars, localVars, lock, taskVars>>

InReview(s) ==
    /\ pc[s] = "review"
    /\ project' = [project EXCEPT ![TaskOf[s]] = "review"]
    /\ Goto(s, "checks")
    /\ UNCHANGED <<at, seen, found, faults, hubVars, localVars, lock, head, validated, parent, claim, gone>>

\* require_mergeable_checks reads the checks of the validated head, and of no other.
RequireChecks(s) ==
    /\ pc[s] = "checks"
    /\ Goto(s, IF /\ checks[TaskOf[s]] # "failed"
                  /\ remote[TaskOf[s]] = at[s] \/ at[s] \in merged[TaskOf[s]]
               THEN "guard" ELSE "stopped")
    /\ UNCHANGED <<at, seen, found, faults, hubVars, localVars, lock, taskVars>>

\* guard_before_protected_merge: a dirty integration copy stops the request.
Guard(s) ==
    /\ pc[s] = "guard"
    /\ LockFree
    /\ IF tree = "clean"
       THEN Goto(s, "arm") /\ lock' = s
       ELSE Goto(s, "stopped") /\ UNCHANGED lock
    /\ UNCHANGED <<at, seen, found, faults, hubVars, localVars, taskVars>>

\* gh pr merge --auto --match-head-commit: GitHub refuses the request at another head.
ArmMerge(s) ==
    /\ pc[s] = "arm"
    /\ Unlock(s)
    /\ IF ExactOpen(TaskOf[s], at[s])
       THEN Goto(s, "follow") /\ armed' = [armed EXCEPT ![TaskOf[s]] = TRUE]
       ELSE /\ Goto(s, IF at[s] \in merged[TaskOf[s]] THEN "follow" ELSE "stopped")
            /\ UNCHANGED armed
    /\ UNCHANGED <<at, seen, found, faults, remote, open, checks, merged, landed, main, others, localVars, taskVars>>

\* wait_for_merge_outcome: MERGED at this head is the one success.
FollowMerged(s) ==
    /\ pc[s] \in {"follow", "resume"}
    /\ MergeProven(TaskOf[s], at[s])
    /\ Goto(s, IF pc[s] = "follow" THEN "delete" ELSE "discard")
    /\ UNCHANGED <<at, seen, found, faults, hubVars, localVars, lock, taskVars>>

\* Another head, a closed PR, a failed check, no request, or behind its base: refuse.
FollowRefused(s) ==
    /\ pc[s] \in {"follow", "resume"}
    /\ at[s] \notin merged[TaskOf[s]]
    /\ \/ ~ExactOpen(TaskOf[s], at[s]) \/ ~armed[TaskOf[s]]
       \/ checks[TaskOf[s]] = "failed" \/ ~Fresh(at[s])
    /\ Goto(s, IF pc[s] = "follow" THEN "stopped" ELSE "idle")
    /\ UNCHANGED <<at, seen, found, faults, hubVars, localVars, lock, taskVars>>

\* exact_merged_state, for a PR that the lookup found merged.
ConfirmMerged(s) ==
    /\ pc[s] = "confirm"
    /\ Goto(s, IF at[s] \in merged[TaskOf[s]] THEN "delete" ELSE "stopped")
    /\ UNCHANGED <<at, seen, found, faults, hubVars, localVars, lock, taskVars>>

\* GitHub closes a PR whose branch is deleted.
DeleteRemoteBranch(s) ==
    /\ pc[s] \in {"delete", "discard"}
    /\ remote' = [remote EXCEPT ![TaskOf[s]] = NoHead]
    /\ Closed(TaskOf[s])
    /\ Goto(s, "sync")
    /\ UNCHANGED <<at, seen, found, faults, checks, merged, landed, main, others, localVars, lock, taskVars>>

\* The publication failed: if GitHub has merged the head all the same, finish goes on.
PublicationStopped(s) ==
    /\ pc[s] = "stopped"
    /\ Goto(s, IF ExactMerged(TaskOf[s], Head(s)) THEN "sync" ELSE "idle")
    /\ UNCHANGED <<at, seen, found, faults, hubVars, localVars, lock, taskVars>>

-----------------------------------------------------------------------------
(* reconcile_confirmed_remote_pr_merge, under the integration lock. *)

StartSync(s) ==
    /\ pc[s] = "sync"
    /\ LockFree
    /\ lock' = s
    /\ seen' = [seen EXCEPT ![s] = main]
    /\ Goto(s, "advance")
    /\ UNCHANGED <<at, found, faults, hubVars, localVars, taskVars>>

\* Local content blocks the synchronization unless it is what main has on GitHub.
SyncBlocked(s) ==
    /\ pc[s] = "advance"
    /\ tree = "other" \/ (tree = "target" /\ seen[s] # main)
    /\ Exit(s)
    /\ UNCHANGED <<at, seen, found, faults, hubVars, localVars, taskVars>>

AlreadySynced(s) ==
    /\ pc[s] = "advance"
    /\ tree = "clean" /\ Synced(s)
    /\ Goto(s, "done")
    /\ UNCHANGED <<at, seen, found, faults, hubVars, localVars, lock, taskVars>>

\* A fast-forward, or a mixed reset over content that is already there.  The head before
\* it is what the receipt will name.
AdvanceMain(s) ==
    /\ pc[s] = "advance"
    /\ localMain # seen[s] \/ tree = "target"
    /\ \/ tree = "clean" /\ localMain' \in Fetched(s)
       \/ tree = "target" /\ seen[s] = main /\ localMain' = main
    /\ seen' = [seen EXCEPT ![s] = localMain]
    /\ tree' = "clean"
    /\ Goto(s, "receipt")
    /\ UNCHANGED <<at, found, faults, hubVars, receipts, lock, taskVars>>

WriteReceipt(s) ==
    /\ pc[s] = "receipt"
    /\ receipts' = IF seen[s] = localMain THEN receipts ELSE receipts \cup {<<seen[s], localMain>>}
    /\ Goto(s, "done")
    /\ UNCHANGED <<at, seen, found, faults, hubVars, localMain, tree, lock, taskVars>>

ProjectDone(s) ==
    /\ pc[s] = "done"
    /\ project' = [project EXCEPT ![TaskOf[s]] = "done"]
    /\ Goto(s, "parent")
    /\ UNCHANGED <<at, seen, found, faults, hubVars, localVars, lock, head, validated, parent, claim, gone>>

\* A parent that cannot be closed stops finish: the next run has to come back to it.
CloseParent(s) ==
    /\ pc[s] = "parent"
    /\ parent' = [parent EXCEPT ![TaskOf[s]] = TRUE]
    /\ Goto(s, "board")
    /\ UNCHANGED <<at, seen, found, faults, hubVars, localVars, lock, head, validated, project, claim, gone>>

FinishBoard(s) ==
    /\ pc[s] = "board"
    /\ claim' = [claim EXCEPT ![TaskOf[s]] = FALSE]
    /\ Goto(s, "cleanup")
    /\ UNCHANGED <<at, seen, found, faults, hubVars, localVars, lock, head, validated, project, parent, gone>>

\* With --cleanup the worktree goes, unless its caller still is in it.
Cleanup(s) ==
    /\ pc[s] = "cleanup"
    /\ \E removed \in BOOLEAN : gone' = [gone EXCEPT ![TaskOf[s]] = @ \/ removed]
    /\ Exit(s)
    /\ UNCHANGED <<at, seen, found, faults, hubVars, localVars, head, validated, project, parent, claim>>

-----------------------------------------------------------------------------
(* finish --reconcile: merge main into the task branch, and push it to its open PR. *)

StartReconcile(s) ==
    /\ pc[s] = "idle" /\ ~gone[TaskOf[s]]
    /\ Goto(s, "terminal")
    /\ UNCHANGED <<at, seen, found, faults, hubVars, localVars, lock, taskVars>>

\* _require_exact_merged_is_terminal lets a run pass when GitHub cannot be read.
RequireNotTerminal(s) ==
    /\ pc[s] = "terminal"
    /\ \/ /\ Readable
          /\ Goto(s, IF ExactMerged(TaskOf[s], Head(s)) THEN "idle" ELSE "observe")
       \/ Fault /\ Goto(s, "observe")
    /\ UNCHANGED <<at, seen, found, hubVars, localVars, lock, taskVars>>

\* What the branch is on GitHub decides: not there, at the local head, or before it.
ObserveBranch(s) ==
    /\ pc[s] = "observe"
    /\ seen' = [seen EXCEPT ![s] = main]
    /\ at' = [at EXCEPT ![s] = remote[TaskOf[s]]]
    /\ Goto(s, IF remote[TaskOf[s]] = NoHead THEN "merge"
               ELSE IF remote[TaskOf[s]] # Head(s) THEN "disarm1"
               ELSE IF ExactOpen(TaskOf[s], Head(s)) THEN "merge" ELSE "idle")
    /\ UNCHANGED <<found, faults, hubVars, localVars, lock, taskVars>>

\* _disarm_before_new_head: GitHub would merge a pushed head under the old request.
Disarm(s, here, prove, push) ==
    /\ pc[s] = here
    /\ IF ~ExactOpen(TaskOf[s], at[s])
       THEN Goto(s, "idle") /\ UNCHANGED armed
       ELSE /\ armed' = IF Disarmed(TaskOf[s]) THEN armed ELSE [armed EXCEPT ![TaskOf[s]] = FALSE]
            /\ Goto(s, IF Disarmed(TaskOf[s]) THEN push ELSE prove)
    /\ UNCHANGED <<at, seen, found, faults, remote, open, checks, merged, landed, main, others, localVars, lock, taskVars>>

ProveDisarmed(s, here, push) ==
    /\ pc[s] = here
    /\ Goto(s, IF ExactOpen(TaskOf[s], at[s]) /\ Disarmed(TaskOf[s]) THEN push ELSE "idle")
    /\ UNCHANGED <<at, seen, found, faults, hubVars, localVars, lock, taskVars>>

\* A local fix continues the open PR before main is merged.
PushDescendant(s) ==
    /\ pc[s] = "push1"
    /\ PushBranch(TaskOf[s])
    /\ at' = [at EXCEPT ![s] = Head(s)]
    /\ Goto(s, "pushed")
    /\ UNCHANGED <<seen, found, faults, localVars, lock, taskVars>>

\* ... and the PR has to be open at the new head.
ConfirmPush(s) ==
    /\ pc[s] = "pushed"
    /\ Goto(s, IF ExactOpen(TaskOf[s], at[s]) THEN "merge" ELSE "idle")
    /\ UNCHANGED <<at, seen, found, faults, hubVars, localVars, lock, taskVars>>

MergeMain(s) ==
    /\ pc[s] = "merge"
    /\ Head(s)[2] # seen[s] /\ Head(s)[1] < MaxCommits
    /\ \E base \in seen[s] .. main : head' = [head EXCEPT ![TaskOf[s]] = <<@[1] + 1, base>>]
    /\ Goto(s, "again")
    /\ UNCHANGED <<at, seen, found, faults, hubVars, localVars, lock, validated, project, parent, claim, gone>>

AlreadyCurrent(s) ==
    /\ pc[s] = "merge"
    /\ Head(s)[2] = seen[s] \/ Head(s)[1] = MaxCommits
    /\ Goto(s, "idle")
    /\ UNCHANGED <<at, seen, found, faults, hubVars, localVars, lock, taskVars>>

\* A main or a branch that moved meanwhile keeps the new head at home.
ObserveAgain(s) ==
    /\ pc[s] = "again"
    /\ Goto(s, IF main = seen[s] /\ at[s] # NoHead /\ remote[TaskOf[s]] = at[s]
               THEN "disarm2" ELSE "idle")
    /\ UNCHANGED <<at, seen, found, faults, hubVars, localVars, lock, taskVars>>

PushReconciled(s) ==
    /\ pc[s] = "push2"
    /\ PushBranch(TaskOf[s])
    /\ Goto(s, "idle")
    /\ UNCHANGED <<at, seen, found, faults, localVars, lock, taskVars>>

-----------------------------------------------------------------------------
(* The environment: the agent, GitHub, other people and things that go wrong. *)

\* The agent commits while no run of its own is going on.
Commit(t) ==
    /\ \A s \in Sessions : TaskOf[s] = t => pc[s] = "idle"
    /\ claim[t] /\ ~gone[t] /\ head[t][1] < MaxCommits
    /\ head' = [head EXCEPT ![t] = <<@[1] + 1, @[2]>>]
    /\ UNCHANGED <<sessionVars, faults, hubVars, localVars, lock, validated, project, parent, claim, gone>>

FinishChecks(t) ==
    /\ open[t] /\ checks[t] = "pending"
    /\ \E result \in {"passed", "failed"} : checks' = [checks EXCEPT ![t] = result]
    /\ UNCHANGED <<sessionVars, faults, remote, open, armed, merged, landed, main, others, localVars, lock, taskVars>>

\* GitHub merges an armed PR with green checks, and may delete its branch.
GitHubMerges(t) ==
    /\ open[t] /\ armed[t] /\ checks[t] = "passed"
    /\ main' = main + 1
    /\ landed' = [landed EXCEPT ![t] = main + 1]
    /\ merged' = [merged EXCEPT ![t] = @ \cup {remote[t]}]
    /\ Closed(t)
    /\ \E kept \in {remote[t], NoHead} : remote' = [remote EXCEPT ![t] = kept]
    /\ tree' = IF tree = "target" THEN "other" ELSE tree
    /\ UNCHANGED <<sessionVars, faults, checks, others, localMain, receipts, lock, taskVars>>

OthersMerge ==
    /\ others < MaxMain
    /\ others' = others + 1
    /\ main' = main + 1
    /\ tree' = IF tree = "target" THEN "other" ELSE tree
    /\ UNCHANGED <<sessionVars, faults, remote, open, armed, checks, merged, landed, localMain, receipts, lock, taskVars>>

\* Somebody writes into the integration copy: anything, or what main has by now.
Scribble ==
    /\ tree = "clean" /\ faults < MaxFaults
    /\ faults' = faults + 1
    /\ \/ tree' = "other"
       \/ localMain < main /\ tree' = "target"
    /\ UNCHANGED <<sessionVars, hubVars, localMain, receipts, lock, taskVars>>

Tidy ==
    /\ tree # "clean"
    /\ tree' = "clean"
    /\ UNCHANGED <<sessionVars, faults, hubVars, localMain, receipts, lock, taskVars>>

\* A kill, or a gate or a remote call that fails: the kernel drops the lock.
Fail(s) ==
    /\ pc[s] # "idle"
    /\ Fault
    /\ Goto(s, IF pc[s] \in Publishing THEN "stopped" ELSE "idle") \/ Goto(s, "idle")
    /\ Unlock(s)
    /\ UNCHANGED <<at, seen, found, hubVars, localVars, taskVars>>

-----------------------------------------------------------------------------

Validation(s) ==
    \/ FollowArmedPr(s) \/ NoArmedPr(s) \/ RecoverMerged(s) \/ NotMerged(s)
    \/ Preflight(s) \/ Validate(s) \/ PublicationGate(s)

Delivery(s) ==
    \/ Publish(s) \/ PushFeatureBranch(s) \/ EnsurePr(s) \/ ConfirmPr(s) \/ InReview(s)
    \/ RequireChecks(s) \/ Guard(s) \/ ArmMerge(s) \/ FollowMerged(s) \/ FollowRefused(s)
    \/ ConfirmMerged(s) \/ DeleteRemoteBranch(s) \/ PublicationStopped(s)

Terminal(s) ==
    \/ StartSync(s) \/ SyncBlocked(s) \/ AlreadySynced(s) \/ AdvanceMain(s) \/ WriteReceipt(s)
    \/ ProjectDone(s) \/ CloseParent(s) \/ FinishBoard(s) \/ Cleanup(s)

Reconcile(s) ==
    \/ RequireNotTerminal(s) \/ ObserveBranch(s)
    \/ Disarm(s, "disarm1", "prove1", "push1") \/ ProveDisarmed(s, "prove1", "push1")
    \/ PushDescendant(s) \/ ConfirmPush(s) \/ MergeMain(s) \/ AlreadyCurrent(s) \/ ObserveAgain(s)
    \/ Disarm(s, "disarm2", "prove2", "push2") \/ ProveDisarmed(s, "prove2", "push2")
    \/ PushReconciled(s)

RunStep(s) == Validation(s) \/ Delivery(s) \/ Terminal(s) \/ Reconcile(s)

GitHub == \E t \in Tasks : FinishChecks(t) \/ GitHubMerges(t)

Next ==
    \/ \E s \in Sessions : StartFinish(s) \/ StartReconcile(s) \/ RunStep(s) \/ Fail(s)
    \/ \E t \in Tasks : Commit(t)
    \/ GitHub \/ OthersMerge \/ Scribble \/ Tidy

Spec == Init /\ [][Next]_vars

\* A run goes on and finds the lock free some time, its agent runs finish again, and
\* somebody tidies the integration copy.
FairSpec ==
    /\ Spec
    /\ \A s \in Sessions :
          WF_vars(RunStep(s)) /\ SF_vars(StartSync(s)) /\ SF_vars(StartFinish(s))
    /\ WF_vars(Tidy)

-----------------------------------------------------------------------------
(* Properties. *)

\* GitHub merges no head that finish has not validated: not one that a reconciliation
\* pushed to a PR whose auto-merge an earlier, killed run had requested
\* (_disarm_before_new_head), and not one committed after the validation.
OnlyValidatedMerges == \A t \in Tasks : merged[t] \subseteq validated[t]

\* A task leaves the board only when its present head is merged, local main has that
\* merge, and its Project item and parent are reconciled: a run that takes over after a
\* kill, or finds the PR of an earlier head merged, skips none of it.  And its remote
\* branch, which is the PR until then, is dropped only when GitHub has merged its head.
ReleasedIsDelivered ==
    [][\A t \in Tasks :
          /\ claim[t] /\ ~claim'[t] => /\ head[t] \in merged[t] /\ landed[t] <= localMain
                                       /\ project[t] = "done" /\ parent[t]
          /\ remote[t] # NoHead /\ remote'[t] = NoHead => remote[t] \in merged'[t]]_vars

\* Whatever an earlier run was killed at, finish brings a merged task off the board.
MergedIsReconciled ==
    \A t \in Tasks :
        head[t] \in merged[t] /\ claim[t] ~> ~claim[t] \/ head[t] \notin merged[t]

\* Whenever nobody integrates, the receipts lead to the present local main without a gap
\* or an overlap (a delegated run proves with them that it did not move main itself).
\* A run that is killed between an advance and its receipt leaves a gap that nothing fills:
\* the property is checked without faults, and proved for runs that are not killed there.
ReceiptsComplete ==
    lock = NoSession => \A m \in 1 .. localMain :
        Cardinality({r \in receipts : r[1] < m /\ m <= r[2]}) = 1

\* "A squash-merged delivery whose remote branch is already deleted is not reconciled
\* into a fresh task head that a later finish would republish"
\* (_require_exact_merged_is_terminal).
MergedStaysTerminal ==
    [][\A s \in Sessions : MergeMain(s) => Head(s) \notin merged[TaskOf[s]]]_vars

\* A reconciliation that refuses because the PR is merged sends the agent to finish for
\* the terminal reconciliation (_require_exact_open_pr): finish then has to find it merged.
RefusalLeadsOut ==
    [][\A s \in Sessions :
          pc[s] = "disarm1" /\ pc'[s] = "idle" /\ at[s] \in merged[TaskOf[s]] /\ UNCHANGED faults
          => Head(s) \in merged[TaskOf[s]]]_vars

=============================================================================

------------------------- MODULE WorktreeCleanup -------------------------
(***************************************************************************)
(* The removal of task worktrees (worktree_cleanup.py).  A finish whose    *)
(* pull request was merged removes its own worktree and branch, or, called *)
(* from inside it, defers that: path, branch and head go to a record file. *)
(* Later commands remove deferred worktrees, old merged ones and, one at a *)
(* time, abandoned ones whose pull request was closed.  The record file is *)
(* read and written back without a lock.  A command may be killed anywhere *)
(* (it then makes no further step).                                        *)
(*                                                                         *)
(* Commits of a branch are numbered; head 0 is no branch.  A worktree and  *)
(* the board entry of an agent that is in it come and go together.         *)
(***************************************************************************)
EXTENDS Naturals, FiniteSets

CONSTANTS
    Tasks,
    Cleaners,       \* the commands that remove worktrees
    CleanupBounds   \* the tasks there are, and the commits that their branches may get

ASSUME CleanupAssumption ==
    /\ Tasks # {}
    /\ CleanupBounds \subseteq [tasks : SUBSET Tasks, heads : Nat \ {0}]

VARIABLES
    tree,       \* the task has a worktree
    head,       \* the head of its branch
    dirty,      \* the worktree has uncommitted changes
    busy,       \* an agent is in the worktree
    delivered,  \* the newest commit that main contains, by merge or composition
    request,    \* the pull request of the branch: its state and head
    records,    \* the deferred cleanup file: head by task, 0 for no entry
    job,        \* what a command is doing, and the head it has looked up
    seen,       \* the entries it has read
    selected,   \* the tasks it may clean up: asked for, and not in use at its start
    left,       \* the entries it has not looked at
    kept,       \* the entries it will write back
    extent,     \* the bounds of the behaviour
    overlooked  \* heads by task that came, or whose pull request was reopened,
                \* after a command had looked and before it acted

taskVars == <<tree, head, dirty, busy, delivered, request>>
jobVars == <<job, seen, selected, left, kept>>
cleanupVars == <<taskVars, records, jobVars, extent, overlooked>>

NoJob == [at |-> "idle", task |-> CHOOSE t \in Tasks : TRUE, head |-> 0]
At(c, step) == job[c].at = step
Of(c, step, t) == job[c].at = step /\ job[c].task = t

CleanupTypeOK ==
    /\ tree \in [Tasks -> BOOLEAN] /\ dirty \in [Tasks -> BOOLEAN] /\ busy \in [Tasks -> BOOLEAN]
    /\ head \in [Tasks -> Nat] /\ delivered \in [Tasks -> Nat] /\ records \in [Tasks -> Nat]
    /\ request \in [Tasks -> [state : {"none", "open", "closed"}, head : Nat]]
    /\ job \in [Cleaners -> [at : {"idle", "following", "confirmed", "identified", "deferring", "own", "cleaned",
                                   "chosen", "working", "removing", "unbranching", "proven", "abandoning",
                                   "scanned", "over"}, task : Tasks, head : Nat]]
    /\ seen \in [Cleaners -> [Tasks -> Nat]] /\ kept \in [Cleaners -> [Tasks -> Nat]]
    /\ selected \in [Cleaners -> SUBSET Tasks] /\ left \in [Cleaners -> SUBSET Tasks]
    /\ extent \in CleanupBounds
    /\ overlooked \in SUBSET (Tasks \X Nat)

CleanupInit ==
    /\ extent \in CleanupBounds
    /\ tree = [t \in Tasks |-> t \in extent.tasks] /\ busy = tree
    /\ head = [t \in Tasks |-> IF tree[t] THEN 1 ELSE 0]
    /\ dirty = [t \in Tasks |-> FALSE] /\ delivered = [t \in Tasks |-> 0]
    /\ request = [t \in Tasks |-> [state |-> IF tree[t] THEN "open" ELSE "none", head |-> head[t]]]
    /\ records = [t \in Tasks |-> 0]
    /\ job = [c \in Cleaners |-> NoJob]
    /\ seen = [c \in Cleaners |-> [t \in Tasks |-> 0]] /\ kept = [c \in Cleaners |-> [t \in Tasks |-> 0]]
    /\ selected = [c \in Cleaners |-> {}] /\ left = [c \in Cleaners |-> {}]
    /\ overlooked = {}

\* A command goes on to a step about task t, for which it has looked up head h.
Hold(c, step, t, h) == job' = [job EXCEPT ![c] = [at |-> step, task |-> t, head |-> h]]
Become(c, step, t) == Hold(c, step, t, 0)
Turn(c, step) == Become(c, step, NoJob.task)

\* A command is done with the record file and forgets what it read.
Forget(c) ==
    /\ seen' = [seen EXCEPT ![c] = [t \in Tasks |-> 0]]
    /\ kept' = [kept EXCEPT ![c] = [t \in Tasks |-> 0]]
    /\ selected' = [selected EXCEPT ![c] = {}]
    /\ left' = [left EXCEPT ![c] = {}]

-----------------------------------------------------------------------------
(* Agents and GitHub. *)

\* Some command has looked at task t and will act on what it saw.
Relied(t, steps) == \E c \in Cleaners : job[c].task = t /\ job[c].at \in steps

\* An agent enters a worktree, edits it, cleans it up, and leaves it; also
\* while a finish that it started is running.
Agent(t) ==
    /\ tree[t]
    /\ \/ /\ busy' = [busy EXCEPT ![t] = ~@]
          /\ UNCHANGED <<head, dirty, overlooked>>
       \/ /\ busy[t]
          /\ dirty' = [dirty EXCEPT ![t] = ~@]
          /\ UNCHANGED <<head, busy, overlooked>>
       \/ /\ busy[t] /\ head[t] < extent.heads
          /\ head' = [head EXCEPT ![t] = @ + 1]
          /\ overlooked' = IF Relied(t, {"following", "confirmed", "proven"})
                           THEN overlooked \cup {<<t, head[t] + 1>>} ELSE overlooked
          /\ UNCHANGED <<dirty, busy>>
    /\ UNCHANGED <<tree, delivered, request, records, jobVars, extent>>

\* New commits are pushed; the request is closed, merged or not; one that was
\* closed without a merge is opened again.
GitHub(t) ==
    /\ \/ /\ head[t] > request[t].head
          /\ request' = [request EXCEPT ![t] = [state |-> "open", head |-> head[t]]]
          /\ UNCHANGED <<delivered, overlooked>>
       \/ /\ request[t].state = "open"
          /\ request' = [request EXCEPT ![t] = [state |-> "closed", head |-> request[t].head]]
          /\ \/ UNCHANGED delivered
             \/ delivered' = [delivered EXCEPT ![t] = request[t].head]
          /\ UNCHANGED overlooked
       \/ /\ request[t].state = "closed" /\ delivered[t] < request[t].head
          /\ request' = [request EXCEPT ![t] = [state |-> "open", head |-> request[t].head]]
          /\ overlooked' = IF Relied(t, {"proven", "abandoning"})
                           THEN overlooked \cup {<<t, head[t]>>} ELSE overlooked
          /\ UNCHANGED delivered
    /\ UNCHANGED <<tree, head, dirty, busy, records, jobVars, extent>>

-----------------------------------------------------------------------------
(* A finish after the merge: it looks up the merged head and, a fetch and  *)
(* the reconciliation of GitHub and the board later, removes its own       *)
(* worktree and branch or defers that.                                     *)

Looking == UNCHANGED <<taskVars, records, seen, selected, left, kept, extent, overlooked>>

\* The request of the head that the branch has now is followed until it is merged ...
FollowRequest(c, t) ==
    /\ At(c, "idle") /\ tree[t] /\ request[t] = [state |-> "open", head |-> head[t]]
    /\ Hold(c, "following", t, head[t])
    /\ Looking

ConfirmMerge(c) ==
    /\ At(c, "following") /\ job[c].head <= delivered[job[c].task]
    /\ Become(c, "confirmed", job[c].task)
    /\ Looking

\* ... or is found merged.
FindMerged(c, t) ==
    /\ At(c, "idle") /\ tree[t] /\ head[t] = delivered[t]
    /\ Become(c, "confirmed", t)
    /\ Looking

\* Called from inside the worktree: the list of worktrees tells its head now,
\* whatever was merged, ...
IdentifyOwn(c) ==
    LET t == job[c].task IN
    /\ At(c, "confirmed") /\ tree[t]
    /\ Hold(c, "identified", t, head[t])
    /\ Looking

\* ... the entries are read, ...
ReadToDefer(c) ==
    /\ At(c, "identified")
    /\ seen' = [seen EXCEPT ![c] = records]
    /\ Hold(c, "deferring", job[c].task, job[c].head)
    /\ UNCHANGED <<taskVars, records, selected, left, kept, extent, overlooked>>

\* ... and written back, with the entry of the task in place of an older one.
WriteDeferred(c) ==
    LET t == job[c].task IN
    /\ At(c, "deferring")
    /\ records' = [seen[c] EXCEPT ![t] = job[c].head]
    /\ Become(c, "cleaned", t)
    /\ Forget(c)
    /\ UNCHANGED <<taskVars, extent, overlooked>>

\* Called from elsewhere: git removes the worktree unless there are changes in
\* it, whatever its head ...
RemoveOwn(c) ==
    LET t == job[c].task IN
    /\ At(c, "confirmed") /\ tree[t] /\ ~dirty[t]
    /\ tree' = [tree EXCEPT ![t] = FALSE]
    /\ busy' = [busy EXCEPT ![t] = FALSE]
    /\ Become(c, "own", t)
    /\ UNCHANGED <<head, dirty, delivered, request, records, seen, selected, left, kept, extent, overlooked>>

\* ... and deletes the branch, whatever its head.
DeleteOwnBranch(c) ==
    LET t == job[c].task IN
    /\ At(c, "own")
    /\ head' = [head EXCEPT ![t] = IF tree[t] THEN @ ELSE 0]
    /\ Become(c, "cleaned", t)
    /\ UNCHANGED <<tree, dirty, busy, delivered, request, records, seen, selected, left, kept, extent, overlooked>>

\* Whatever fails of that is a warning.
WarnOwn(c) ==
    /\ \E step \in {"confirmed", "identified", "deferring", "own"} : At(c, step)
    /\ Become(c, "cleaned", job[c].task)
    /\ Forget(c)
    /\ UNCHANGED <<taskVars, records, extent, overlooked>>

-----------------------------------------------------------------------------
(* Deferred worktrees: one exact target, all, or, after a finish, all but  *)
(* that of its own task.                                                   *)

Recorded(r) == {t \in Tasks : r[t] # 0}

\* The first read selects entries, by their whole identity; those whose task
\* has a board entry or a process are left alone ...
SelectDeferred(c) ==
    LET Unused == {t \in Recorded(records) : ~busy[t]} IN
    /\ \/ /\ At(c, "idle")
          /\ \E S \in SUBSET Unused : selected' = [selected EXCEPT ![c] = S]
       \/ /\ At(c, "cleaned")
          /\ selected' = [selected EXCEPT ![c] = Unused \ {job[c].task}]
    /\ seen' = [seen EXCEPT ![c] = records]
    /\ Turn(c, "chosen")
    /\ UNCHANGED <<taskVars, records, left, kept, extent, overlooked>>

\* ... the second one is what is worked through and written back.
ReadDeferred(c) ==
    /\ At(c, "chosen")
    /\ selected' = [selected EXCEPT ![c] = {t \in @ : records[t] = seen[c][t]}]
    /\ seen' = [seen EXCEPT ![c] = records]
    /\ left' = [left EXCEPT ![c] = Recorded(records)]
    /\ kept' = [kept EXCEPT ![c] = [t \in Tasks |-> 0]]
    /\ Turn(c, "working")
    /\ UNCHANGED <<taskVars, records, extent, overlooked>>

\* The safety of one entry: a registered, clean worktree of exactly the
\* recorded branch and head, or none; and no other branch head.
DeferredSafe(c, t) ==
    /\ tree[t] => head[t] = seen[c][t] /\ ~dirty[t]
    /\ head[t] \in {0, seen[c][t]}

Drop(c, t) ==
    /\ left' = [left EXCEPT ![c] = @ \ {t}]
    /\ UNCHANGED kept

Keep(c, t) ==
    /\ kept' = [kept EXCEPT ![c][t] = seen[c][t]]
    /\ left' = [left EXCEPT ![c] = @ \ {t}]

KeepDeferred(c, t) ==
    /\ At(c, "working") /\ t \in left[c]
    /\ t \notin selected[c] \/ ~DeferredSafe(c, t)
    /\ Keep(c, t)
    /\ UNCHANGED <<taskVars, records, job, seen, selected, extent, overlooked>>

TakeDeferred(c, t) ==
    /\ At(c, "working") /\ t \in left[c] \cap selected[c] /\ DeferredSafe(c, t)
    /\ Become(c, IF tree[t] THEN "removing" ELSE "unbranching", t)
    /\ UNCHANGED <<taskVars, records, seen, selected, left, kept, extent, overlooked>>

\* git refuses to remove a worktree with changes in it.
RemoveDeferred(c) ==
    LET t == job[c].task IN
    /\ At(c, "removing")
    /\ \/ /\ tree[t] /\ ~dirty[t]
          /\ tree' = [tree EXCEPT ![t] = FALSE]
          /\ busy' = [busy EXCEPT ![t] = FALSE]
          /\ Become(c, "unbranching", t)
          /\ UNCHANGED <<left, kept>>
       \/ /\ ~tree[t] \/ dirty[t]
          /\ Keep(c, t)
          /\ Turn(c, "working")
          /\ UNCHANGED <<tree, busy>>
    /\ UNCHANGED <<head, dirty, delivered, request, records, seen, selected, extent, overlooked>>

AnyHead(c, t) == TRUE

\* The branch is deleted only at the recorded head, looked at once more.
StillRecorded(c, t) == head[t] = seen[c][t]

DeleteDeferredBranch(c) ==
    LET t == job[c].task IN
    /\ At(c, "unbranching")
    /\ \/ /\ head[t] = 0 \/ (StillRecorded(c, t) /\ ~tree[t])
          /\ head' = [head EXCEPT ![t] = 0]
          /\ left' = [left EXCEPT ![c] = @ \ {t}]
          /\ UNCHANGED kept
       \/ /\ head[t] # 0
          /\ ~StillRecorded(c, t) \/ tree[t]
          /\ Keep(c, t)
          /\ UNCHANGED head
    /\ Turn(c, "working")
    /\ UNCHANGED <<tree, dirty, busy, delivered, request, records, seen, selected, extent, overlooked>>

\* A deferred record that was written in the meantime is overwritten.
WriteKept(c) ==
    /\ At(c, "working") /\ left[c] = {}
    /\ records' = kept[c]
    /\ Turn(c, "over")
    /\ Forget(c)
    /\ UNCHANGED <<taskVars, extent, overlooked>>

-----------------------------------------------------------------------------
(* Old merged worktrees: scanned, scanned again, removed; the branch stays. *)

\* classify: clean, unused, and its head delivered.
Ordinary(t) == tree[t] /\ ~busy[t] /\ ~dirty[t] /\ head[t] <= delivered[t]

ScanOrdinary(c, t) ==
    /\ At(c, "idle") /\ records[t] = 0 /\ Ordinary(t)
    /\ Become(c, "scanned", t)
    /\ UNCHANGED <<taskVars, records, seen, selected, left, kept, extent, overlooked>>

RemoveOrdinary(c) ==
    LET t == job[c].task IN
    /\ At(c, "scanned")
    /\ IF Ordinary(t)
       THEN tree' = [tree EXCEPT ![t] = FALSE]
       ELSE UNCHANGED tree
    /\ Turn(c, "over")
    /\ UNCHANGED <<head, dirty, busy, delivered, request, records, seen, selected, left, kept, extent, overlooked>>

-----------------------------------------------------------------------------
(* One abandoned worktree, proven by the closed pull request of its head. *)

ClosedUnmerged(t) ==
    request[t].state = "closed" /\ request[t].head = head[t] /\ delivered[t] < head[t]

ProveAbandoned(c, t) ==
    /\ At(c, "idle")
    /\ tree[t] /\ ~busy[t] /\ ~dirty[t] /\ ClosedUnmerged(t)
    /\ Become(c, "proven", t)
    /\ UNCHANGED <<taskVars, records, seen, selected, left, kept, extent, overlooked>>

RemoveAbandoned(c) ==
    LET t == job[c].task IN
    /\ At(c, "proven")
    /\ IF tree[t] /\ ~dirty[t]
       THEN /\ tree' = [tree EXCEPT ![t] = FALSE]
            /\ busy' = [busy EXCEPT ![t] = FALSE]
            /\ Become(c, "abandoning", t)
       ELSE /\ UNCHANGED <<tree, busy>>
            /\ Turn(c, "over")
    /\ UNCHANGED <<head, dirty, delivered, request, records, seen, selected, left, kept, extent, overlooked>>

\* The branch is deleted whatever its head is now.
DeleteAbandonedBranch(c) ==
    LET t == job[c].task IN
    /\ At(c, "abandoning")
    /\ head' = [head EXCEPT ![t] = IF tree[t] THEN @ ELSE 0]
    /\ Turn(c, "over")
    /\ UNCHANGED <<tree, dirty, busy, delivered, request, records, seen, selected, left, kept, extent, overlooked>>

CleanerStep(c) ==
    \/ \E t \in Tasks : \/ FollowRequest(c, t) \/ FindMerged(c, t) \/ KeepDeferred(c, t) \/ TakeDeferred(c, t)
                        \/ ScanOrdinary(c, t) \/ ProveAbandoned(c, t)
    \/ ConfirmMerge(c) \/ IdentifyOwn(c) \/ ReadToDefer(c) \/ WriteDeferred(c)
    \/ RemoveOwn(c) \/ DeleteOwnBranch(c) \/ WarnOwn(c)
    \/ SelectDeferred(c) \/ ReadDeferred(c) \/ RemoveDeferred(c)
    \/ DeleteDeferredBranch(c) \/ WriteKept(c) \/ RemoveOrdinary(c)
    \/ RemoveAbandoned(c) \/ DeleteAbandonedBranch(c)

CleanupNext ==
    \/ \E t \in Tasks : Agent(t) \/ GitHub(t)
    \/ \E c \in Cleaners : CleanerStep(c)

CleanupSpec == CleanupInit /\ [][CleanupNext]_cleanupVars

-----------------------------------------------------------------------------
(* Properties. *)

\* A branch is deleted only at a head that main contains or that a pull request
\* had which is closed, whatever agents, GitHub and other commands do between
\* the look and the deletion, and however far the head has travelled through
\* the record file.  The exceptions are a commit made while a finish relied on
\* its merge or a removal on its proof of abandonment, and a request reopened
\* under that proof.  A deferred record goes only with its branch, also when
\* another entry fails, another command removes half of it or the entry was
\* not asked for; or else the command that writes the file back had read it
\* before the record was there.
OnlyProvenHeadsGo ==
    [][\A t \in Tasks :
          /\ head[t] # 0 /\ head'[t] = 0 /\ <<t, head[t]>> \notin overlooked =>
                head[t] <= delivered[t] \/ request[t] = [state |-> "closed", head |-> head[t]]
          /\ records[t] # 0 /\ records'[t] = 0 =>
                head[t] = 0 \/ \E c \in Cleaners : job'[c] # job[c] /\ seen[c][t] # records[t]]_cleanupVars

=============================================================================

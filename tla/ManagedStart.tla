-------------------------- MODULE ManagedStart --------------------------
(***************************************************************************)
(* The start of one managed task (start_managed_task.py with start_task.py *)
(* and start_worktree.py, multi-agent profile).  A start of a change takes *)
(* the lock of the change, records a transaction in a file, and creates    *)
(* branch, worktree, board entry and package one after the other.  What a  *)
(* failed or killed start left behind is removed by the next one, if it is *)
(* the task's own and carries no work, or refused.  The file outlives a    *)
(* kill; the lock does not.                                                *)
(*                                                                         *)
(* The module is about one change, several starts of it, and the agent     *)
(* that works in the task once a start has reported it.                    *)
(***************************************************************************)
EXTENDS FiniteSets

CONSTANTS Starts, NoStart, Revisions

ASSUME StartAssumption == NoStart \notin Starts /\ Revisions # {}

VARIABLES
    stage,       \* the step a start is at
    revision,    \* the package revision a start has discovered
    resumed,     \* the start found the package in place
    afterRemoval,\* the stage that follows a removal
    startLock,   \* the holder of the lock of the change
    transaction, \* the transaction file
    parts,       \* what there is of the task
    work,        \* what the agent has in it that is nowhere else
    reported,    \* a start has handed the task over
    overtaken    \* starts whose lock another took before they unlinked the file

ownVars == <<stage, revision, resumed, afterRemoval>>
startVars == <<ownVars, startLock, transaction, parts, work, reported, overtaken>>

Part == {"branch", "worktree", "board", "package"}
NoTransaction == [by |-> NoStart, revision |-> CHOOSE r \in Revisions : TRUE]
Transaction == [by : Starts, revision : Revisions] \cup {NoTransaction}
Stopped == {"refused", "waited", "done", "killed"}
Stage == {"idle", "waiting", "locked", "persisted", "unboarding", "unlinkingTree",
          "unbranching", "verifying", "creating", "branched", "added", "importing",
          "admitting", "failing", "completed", "unlinking"} \cup Stopped

StartTypeOK ==
    /\ stage \in [Starts -> Stage]
    /\ revision \in [Starts -> Revisions]
    /\ resumed \in [Starts -> BOOLEAN]
    /\ afterRemoval \in [Starts -> {"verifying", "failing"}]
    /\ startLock \in Starts \cup {NoStart}
    /\ transaction \in Transaction
    /\ parts \in SUBSET Part
    /\ work \in SUBSET {"commits", "dirt"}
    /\ reported \in BOOLEAN
    /\ overtaken \in SUBSET Starts

StartInit ==
    /\ stage = [s \in Starts |-> "idle"]
    /\ revision \in [Starts -> Revisions]
    /\ resumed = [s \in Starts |-> FALSE]
    /\ afterRemoval = [s \in Starts |-> "failing"]
    /\ startLock = NoStart
    /\ transaction = NoTransaction
    /\ parts = {}
    /\ work = {}
    /\ reported = FALSE
    /\ overtaken = {}

Move(s, next) == stage' = [stage EXCEPT ![s] = next]

\* A step that changes the parts of the task only.
Change(s, next, newParts) ==
    /\ Move(s, next)
    /\ parts' = newParts
    /\ UNCHANGED <<revision, resumed, afterRemoval, startLock, transaction, work, reported, overtaken>>

Skip(s, next) == Change(s, next, parts)

\* The package makes the task canonical; it lies in the worktree.
Canonical == {"worktree", "package"} \subseteq parts
NothingLeft == parts \cap {"branch", "worktree", "board"} = {}

-----------------------------------------------------------------------------
(* The transaction. *)

Discover(s) == stage[s] = "idle" /\ Skip(s, "waiting")

LockChange(s) ==
    /\ stage[s] = "waiting" /\ startLock = NoStart
    /\ startLock' = s
    /\ overtaken' = overtaken \cup {t \in Starts : stage[t] = "unlinking"}
    /\ Move(s, "locked")
    /\ UNCHANGED <<revision, resumed, afterRemoval, transaction, parts, work, reported>>

\* Another package revision is taken over only if the former start has
\* created nothing.
Adoptable(s) == transaction.revision = revision[s]
Supersedable == NothingLeft

Persist(s) ==
    /\ stage[s] = "locked"
    /\ \/ /\ transaction = NoTransaction \/ (~Adoptable(s) /\ Supersedable)
          /\ transaction' = [by |-> s, revision |-> revision[s]]
       \/ /\ transaction # NoTransaction /\ Adoptable(s)
          /\ UNCHANGED transaction
    /\ Move(s, "persisted")
    /\ UNCHANGED <<revision, resumed, afterRemoval, startLock, parts, work, reported, overtaken>>

\* An exception before the transaction is written, or with nothing to roll
\* back, leaves the file as it is.
Release(s, next) ==
    /\ startLock' = NoStart
    /\ Move(s, next)
    /\ UNCHANGED <<revision, resumed, afterRemoval, parts, work, overtaken>>

RefuseForeign(s) ==
    /\ stage[s] = "locked" /\ transaction # NoTransaction
    /\ ~Adoptable(s) /\ ~Supersedable
    /\ Release(s, "refused")
    /\ UNCHANGED <<transaction, reported>>

RollBackAll(s) == NoTransaction

\* A failed start that has left nothing takes its transaction along.
RollBack(s) == IF NothingLeft THEN NoTransaction ELSE transaction

Fail(s) ==
    /\ stage[s] = "failing"
    /\ Release(s, "refused")
    /\ transaction' = RollBack(s)
    /\ UNCHANGED reported

\* At its normal exit locked_json writes the record again; the task is as good
\* as handed over.
Commit(s) ==
    /\ stage[s] = "completed"
    /\ Release(s, "unlinking")
    /\ transaction' = [by |-> IF transaction = NoTransaction THEN s ELSE transaction.by,
                       revision |-> revision[s]]
    /\ reported' = Canonical

\* The file is removed after its lock is released.
UnlinkTransaction(s) ==
    /\ stage[s] = "unlinking"
    /\ transaction' = NoTransaction
    /\ Move(s, "done")
    /\ UNCHANGED <<revision, resumed, afterRemoval, startLock, parts, work, reported, overtaken>>

-----------------------------------------------------------------------------
(* Recovery of what an earlier start has left. *)

Resume(s) ==
    /\ stage[s] = "persisted" /\ Canonical
    /\ resumed' = [resumed EXCEPT ![s] = TRUE]
    /\ Move(s, "admitting")
    /\ UNCHANGED <<revision, afterRemoval, startLock, transaction, parts, work, reported, overtaken>>

NothingToRecover(s) == stage[s] = "persisted" /\ NothingLeft /\ Skip(s, "creating")

RegisteredWorktree == {"worktree", "branch"} \subseteq parts

\* Only a worktree of the task on its branch, without commits of its own and
\* without paths that are not the package's.
Removable == {"worktree", "branch"} \subseteq parts /\ work = {}

RemoveFrom(s, then) ==
    /\ afterRemoval' = [afterRemoval EXCEPT ![s] = then]
    /\ Move(s, "unboarding")
    /\ UNCHANGED <<revision, resumed, startLock, transaction, parts, work, reported, overtaken>>

Recover(s) ==
    /\ stage[s] = "persisted" /\ ~Canonical /\ ~NothingLeft /\ Removable
    /\ RemoveFrom(s, "verifying")

RefuseRecovery(s) ==
    /\ stage[s] = "persisted" /\ ~Canonical /\ ~NothingLeft /\ ~Removable
    /\ Skip(s, "failing")

\* cleanup_started_task looks at none of its results: each command may fail.
RemoveOrNot(s, next, gone) == Change(s, next, parts \ gone) \/ Skip(s, next)
RemoveBoardEntry(s) == stage[s] = "unboarding" /\ RemoveOrNot(s, "unlinkingTree", {"board"})

\* The worktree is removed by force, with what is in it.
RemoveWorktree(s) ==
    /\ stage[s] = "unlinkingTree"
    /\ \/ Skip(s, "unbranching")
       \/ /\ parts' = parts \ {"worktree", "package"}
          /\ work' = work \ {"dirt"}
          /\ reported' = FALSE
          /\ Move(s, "unbranching")
          /\ UNCHANGED <<revision, resumed, afterRemoval, startLock, transaction, overtaken>>

\* git does not delete a branch that a worktree has checked out.
RemoveBranch(s) ==
    /\ stage[s] = "unbranching"
    /\ \/ Skip(s, afterRemoval[s])
       \/ /\ "worktree" \notin parts
          /\ parts' = parts \ {"branch"}
          /\ work' = work \ {"commits"}
          /\ Move(s, afterRemoval[s])
          /\ UNCHANGED <<revision, resumed, afterRemoval, startLock, transaction, reported, overtaken>>

VerifyRemoval(s) ==
    stage[s] = "verifying" /\ Skip(s, IF NothingLeft THEN "creating" ELSE "failing")

-----------------------------------------------------------------------------
(* Creation. *)

\* git creates the branch and then the worktree.
CreateBranch(s) ==
    /\ stage[s] = "creating"
    /\ IF parts \cap {"branch", "worktree"} = {}
       THEN Change(s, "branched", parts \cup {"branch"})
       ELSE Skip(s, "failing")

CreateWorktree(s) == stage[s] = "branched" /\ Change(s, "added", parts \cup {"worktree"})

Register(s) == stage[s] = "added" /\ Change(s, "importing", parts \cup {"board"})

Import(s) == stage[s] = "importing" /\ Change(s, "admitting", parts \cup {"package"})

\* The board admits a task that is there and registered.
Admissible(s) == stage[s] = "admitting" /\ Canonical /\ "board" \in parts

AdmitRun(s) == Admissible(s) /\ Skip(s, "completed")

\* The task waits for another one and is handed over all the same.
AdmitWait(s) ==
    /\ Admissible(s)
    /\ Release(s, "waited")
    /\ reported' = TRUE
    /\ UNCHANGED transaction

\* git, the capability sync, the board, the import, the admission or GitHub
\* fails.  A resumed task is left alone, a new one is taken back.
CreationFails(s) ==
    \/ stage[s] \in {"creating", "branched"} /\ Skip(s, "failing")
    \/ stage[s] = "admitting" /\ resumed[s] /\ Skip(s, "failing")
    \/ /\ stage[s] \in {"added", "importing", "admitting"} /\ ~resumed[s]
       /\ RemoveFrom(s, "failing")

KillStart(s) ==
    /\ stage[s] \notin Stopped \cup {"idle"}
    /\ startLock' = IF startLock = s THEN NoStart ELSE startLock
    /\ Move(s, "killed")
    /\ UNCHANGED <<revision, resumed, afterRemoval, transaction, parts, work, reported, overtaken>>

-----------------------------------------------------------------------------
(* The agent, and the removal of the task. *)

\* The agent works in a task that was handed over, and somebody may look into
\* what a killed start has left while nobody starts it.
Work ==
    /\ "worktree" \in parts /\ ((Canonical /\ reported) \/ startLock = NoStart)
    /\ \E w \in {"commits", "dirt"} \ work : work' = work \cup {w}
    /\ UNCHANGED <<ownVars, startLock, transaction, parts, reported, overtaken>>

\* An abandoned task is removed by worktree_cleanup, without a look at the
\* transaction of its start.
RemoveTask ==
    /\ reported /\ "dirt" \notin work /\ "worktree" \in parts
    /\ parts' = {}
    /\ work' = {}
    /\ reported' = FALSE
    /\ UNCHANGED <<ownVars, startLock, transaction, overtaken>>

StartStep(s) ==
    \/ Discover(s) \/ LockChange(s) \/ Persist(s) \/ RefuseForeign(s) \/ Fail(s)
    \/ Commit(s) \/ UnlinkTransaction(s) \/ Resume(s) \/ NothingToRecover(s)
    \/ Recover(s) \/ RefuseRecovery(s) \/ RemoveBoardEntry(s) \/ RemoveWorktree(s)
    \/ RemoveBranch(s) \/ VerifyRemoval(s) \/ CreateBranch(s) \/ CreateWorktree(s)
    \/ Register(s) \/ Import(s) \/ AdmitRun(s) \/ AdmitWait(s) \/ CreationFails(s)
    \/ KillStart(s)

StartNext == (\E s \in Starts : StartStep(s)) \/ Work \/ RemoveTask

StartSpec == StartInit /\ [][StartNext]_startVars

-----------------------------------------------------------------------------
(* Properties. *)

\* Whatever a start has left of a task without its package is owned by a
\* transaction, wherever starts fail or are killed; the exception is a start
\* that removes its file after another one has taken the lock.
PartialIsOwned ==
    ~NothingLeft /\ ~Canonical /\ transaction = NoTransaction =>
        \E s \in overtaken : stage[s] = "done"

\* No start takes work away: neither the recovery of what another one left
\* nor the cleanup of its own failure.
StartsKeepWork == [][(\E s \in Starts : StartStep(s)) => work \subseteq work']_startVars

\* What the code says of a start that has to wait: the owning transaction
\* stays (start_managed_task.py, managed_start_transaction).
WaitKeepsTransaction ==
    \A s \in Starts :
        /\ stage[s] = "waited"
        /\ \A t \in Starts \ {s} : stage[t] \in {"idle", "waiting"} \/ t \in overtaken
        => transaction # NoTransaction

=============================================================================

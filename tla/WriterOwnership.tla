------------------------- MODULE WriterOwnership -------------------------
(***************************************************************************)
(* The ownership of one assigned worktree by delegated writers             *)
(* (delegated_write_guard.py).  A launcher takes an advisory lock without  *)
(* waiting, reads the receipt an earlier launch may have left, writes its  *)
(* own, starts a child as the leader of a new process group, records the   *)
(* group in the receipt, and waits.  Whatever way the wait ends, it ends   *)
(* the whole group; if it can prove the group gone it removes the receipt, *)
(* otherwise the receipt stays.  The lock ends with its launcher, the      *)
(* receipt does not.                                                       *)
(*                                                                         *)
(* A launcher is one call of run_observed_delegation and starts at most    *)
(* one child, so a process group is named by its launcher.  Descendants    *)
(* stay in the group of their leader.  A number is not given to a new      *)
(* child as long as a launcher may still refer to it; a stranger, whom no  *)
(* launcher started, may get it.                                           *)
(***************************************************************************)
EXTENDS FiniteSets

CONSTANTS Launchers, Nobody

ASSUME OwnershipAssumption == Nobody \notin Launchers

VARIABLES
    pc,           \* the step a launcher is at
    raised,       \* the launcher is in the except branch of its run
    writer_state, \* what it will report of the ownership
    lock,         \* the holder of the advisory lock
    receipt,      \* the receipt file: the launch it is of, and if it names the group
    members,      \* what is left of the process group of a launch
    robbed        \* launches whose receipt a launcher without the lock took away

launcherVars == <<pc, raised, writer_state>>
vars == <<launcherVars, lock, receipt, members, robbed>>

NoReceipt == [launch |-> Nobody, named |-> FALSE]
Receipt == [launch : Launchers \cup {Nobody}, named : BOOLEAN]

\* A zombie leader still keeps its group visible.
Member == {"leader", "zombie", "kin", "stranger"}

Over == {"refused", "ended", "dead"}

TypeOK ==
    /\ pc \in [Launchers -> {"idle", "locked", "clear", "launching", "spawned", "running",
                             "returned", "reaping", "releasing", "unlocking", "leaving"} \cup Over]
    /\ raised \in [Launchers -> BOOLEAN]
    /\ writer_state \in [Launchers -> {"released", "ambiguous"}]
    /\ lock \in Launchers \cup {Nobody}
    /\ receipt \in Receipt
    /\ members \in [Launchers -> SUBSET Member]
    /\ robbed \in SUBSET Launchers

Init ==
    /\ pc = [l \in Launchers |-> "idle"]
    /\ raised = [l \in Launchers |-> FALSE]
    /\ writer_state = [l \in Launchers |-> "released"]
    /\ lock = Nobody
    /\ receipt = NoReceipt
    /\ members = [l \in Launchers |-> {}]
    /\ robbed = {}

-----------------------------------------------------------------------------
(* The operating system's part. *)

\* A process of the launch can still write.
Live(l) == members[l] \cap {"leader", "kin"} # {}

\* The process that was started is gone.
LeaderAbsent(l) == members[l] \cap {"leader", "zombie"} = {}

\* Signal 0 to the group fails with ESRCH; any other answer is not absence.
Absent(l) == members[l] = {}

Goto(l, step) == pc' = [pc EXCEPT ![l] = step]
Unlocked(l) == IF lock = l THEN Nobody ELSE lock

\* The receipt is written or removed, with the lock or, if the launcher has
\* given it up before, without.
Touch(l, new) ==
    /\ receipt' = new
    /\ robbed' = IF lock = l THEN robbed
                 ELSE robbed \cup ({receipt.launch} \ {l, Nobody})

-----------------------------------------------------------------------------
(* Acquiring the worktree. *)

Lock(l) ==
    /\ pc[l] = "idle" /\ lock = Nobody
    /\ lock' = l
    /\ Goto(l, "locked")
    /\ UNCHANGED <<raised, writer_state, receipt, members, robbed>>

LockIsBusy(l) ==
    /\ pc[l] = "idle" /\ lock # Nobody
    /\ Goto(l, "refused")
    /\ UNCHANGED <<raised, writer_state, lock, receipt, members, robbed>>

NamedAndPresent == receipt.named /\ ~Absent(receipt.launch)

\* A receipt without a group, or with one that is not proven absent.
Blocked == receipt # NoReceipt /\ (receipt.named => ~Absent(receipt.launch))

Refuse(l) ==
    /\ pc[l] = "locked" /\ Blocked
    /\ lock' = Nobody
    /\ Goto(l, "refused")
    /\ UNCHANGED <<raised, writer_state, receipt, members, robbed>>

ClearReceipt(l) ==
    /\ pc[l] = "locked" /\ ~Blocked
    /\ receipt' = NoReceipt
    /\ Goto(l, "clear")
    /\ UNCHANGED <<raised, writer_state, lock, members, robbed>>

WriteLaunching(l) ==
    /\ pc[l] = "clear"
    /\ receipt' = [launch |-> l, named |-> FALSE]
    /\ Goto(l, "launching")
    /\ UNCHANGED <<raised, writer_state, lock, members, robbed>>

LaunchingUnwritten(l) ==
    /\ pc[l] = "clear"
    /\ lock' = Nobody
    /\ Goto(l, "refused")
    /\ UNCHANGED <<raised, writer_state, receipt, members, robbed>>

-----------------------------------------------------------------------------
(* Starting the child and waiting for it. *)

Spawn(l) ==
    /\ pc[l] = "launching"
    /\ members' = [members EXCEPT ![l] = {"leader"}]
    /\ Goto(l, "spawned")
    /\ UNCHANGED <<raised, writer_state, lock, receipt, robbed>>

SpawnFails(l) ==
    /\ pc[l] = "launching"
    /\ raised' = [raised EXCEPT ![l] = TRUE]
    /\ Goto(l, "releasing")
    /\ UNCHANGED <<writer_state, lock, receipt, members, robbed>>

MarkRunning(l) ==
    /\ pc[l] = "spawned"
    /\ receipt' = [launch |-> l, named |-> TRUE]
    /\ Goto(l, "running")
    /\ UNCHANGED <<raised, writer_state, lock, members, robbed>>

\* The receipt cannot be written, or an interrupt comes before the handlers
\* are armed: process_group is still None, and the except branch releases
\* without a look at the child.  Nobody else can come in between.
MarkRunningFails(l) ==
    /\ pc[l] = "spawned"
    /\ raised' = [raised EXCEPT ![l] = TRUE]
    /\ receipt' = NoReceipt
    /\ lock' = Nobody
    /\ Goto(l, "ended")
    /\ UNCHANGED <<writer_state, members, robbed>>

\* The leader has ended and its exit status is collected.
WaitReturns(l) ==
    /\ pc[l] = "running" /\ "zombie" \in members[l]
    /\ members' = [members EXCEPT ![l] = @ \ {"zombie"}]
    /\ Goto(l, "returned")
    /\ UNCHANGED <<raised, writer_state, lock, receipt, robbed>>

GroupIsGone(l) ==
    /\ pc[l] = "returned" /\ Absent(l)
    /\ Goto(l, "releasing")
    /\ UNCHANGED <<raised, writer_state, lock, receipt, members, robbed>>

GroupSurvives(l) ==
    /\ pc[l] = "returned" /\ ~Absent(l)
    /\ Goto(l, "reaping")
    /\ UNCHANGED <<raised, writer_state, lock, receipt, members, robbed>>

\* A timeout, a failed probe or hook, or a signal while the handlers are
\* armed, which they are until the run has left its try block.
Abort(l) ==
    /\ ~raised[l]
    /\ pc[l] \in {"running", "returned", "reaping", "releasing", "unlocking", "leaving"}
    /\ raised' = [raised EXCEPT ![l] = TRUE]
    /\ Goto(l, "reaping")
    /\ UNCHANGED <<writer_state, lock, receipt, members, robbed>>

-----------------------------------------------------------------------------
(* Ending the group and giving up the worktree. *)

\* Between the signals the launcher collects its child ...
Collect(l) ==
    /\ pc[l] = "reaping" /\ "zombie" \in members[l]
    /\ members' = [members EXCEPT ![l] = @ \ {"zombie"}]
    /\ UNCHANGED <<launcherVars, lock, receipt, robbed>>

Reaped(l) ==
    /\ pc[l] = "reaping" /\ Absent(l)
    /\ Goto(l, "releasing")
    /\ UNCHANGED <<raised, writer_state, lock, receipt, members, robbed>>

\* ... and after both, or one it may not send, it keeps the receipt.
MarkAmbiguous(l) ==
    /\ pc[l] = "reaping" /\ ~Absent(l)
    /\ writer_state' = [writer_state EXCEPT ![l] = "ambiguous"]
    /\ Touch(l, [launch |-> l, named |-> TRUE])
    /\ Goto(l, "unlocking")
    /\ UNCHANGED <<raised, lock, members>>

Unlink(l) ==
    /\ pc[l] = "releasing"
    /\ Touch(l, NoReceipt)
    /\ Goto(l, "unlocking")
    /\ UNCHANGED <<raised, writer_state, lock, members>>

Unlock(l) ==
    /\ pc[l] = "unlocking"
    /\ lock' = Unlocked(l)
    /\ Goto(l, IF raised[l] THEN "ended" ELSE "leaving")
    /\ UNCHANGED <<raised, writer_state, receipt, members, robbed>>

Leave(l) ==
    /\ pc[l] = "leaving"
    /\ Goto(l, "ended")
    /\ UNCHANGED <<raised, writer_state, lock, receipt, members, robbed>>

\* The launcher is killed, or an exception leaves its except branch.
Die(l) ==
    /\ pc[l] \notin Over \cup {"idle"}
    /\ lock' = Unlocked(l)
    /\ Goto(l, "dead")
    /\ UNCHANGED <<raised, writer_state, receipt, members, robbed>>

-----------------------------------------------------------------------------
(* The processes of the groups. *)

Fork(l) ==
    /\ Live(l)
    /\ members' = [members EXCEPT ![l] = @ \cup {"kin"}]

LeaderExits(l) ==
    /\ "leader" \in members[l]
    /\ members' = [members EXCEPT ![l] = (@ \ {"leader"}) \cup {"zombie"}]

KinExits(l) ==
    /\ "kin" \in members[l]
    /\ members' = [members EXCEPT ![l] = @ \ {"kin"}]

\* A child without a parent is collected by init.
InitCollects(l) ==
    /\ pc[l] \in Over /\ "zombie" \in members[l]
    /\ members' = [members EXCEPT ![l] = @ \ {"zombie"}]

StrangerComes(l) ==
    /\ receipt.launch = l /\ receipt.named /\ Absent(l)
    /\ members' = [members EXCEPT ![l] = {"stranger"}]

StrangerGoes(l) ==
    /\ "stranger" \in members[l]
    /\ members' = [members EXCEPT ![l] = {}]

System(l) ==
    /\ Fork(l) \/ LeaderExits(l) \/ KinExits(l) \/ InitCollects(l) \/ StrangerComes(l) \/ StrangerGoes(l)
    /\ UNCHANGED <<launcherVars, lock, receipt, robbed>>

Step(l) ==
    \/ Lock(l) \/ LockIsBusy(l) \/ Refuse(l) \/ ClearReceipt(l)
    \/ WriteLaunching(l) \/ LaunchingUnwritten(l)
    \/ Spawn(l) \/ SpawnFails(l) \/ MarkRunning(l) \/ MarkRunningFails(l)
    \/ WaitReturns(l) \/ GroupIsGone(l) \/ GroupSurvives(l) \/ Abort(l)
    \/ Collect(l) \/ Reaped(l) \/ MarkAmbiguous(l) \/ Unlink(l) \/ Unlock(l) \/ Leave(l)
    \/ Die(l)

Next == \E l \in Launchers : Step(l) \/ System(l)

Spec == Init /\ [][Next]_vars

-----------------------------------------------------------------------------
(* Properties. *)

\* The one way to report a live child as released: it was never recorded.
Abandoned(l) == pc[l] = "ended" /\ writer_state[l] = "released"

\* Two writers are never live in one worktree, whatever is killed and
\* interrupted, unless one of them was abandoned by its launcher before its
\* group was recorded, or had its receipt taken away by a launcher that
\* released twice.
WritersExclude ==
    \A l, m \in Launchers : l # m /\ Live(l) /\ Live(m) =>
        \E k \in {l, m} : Abandoned(k) \/ k \in robbed

\* A writer that outlives its launcher leaves a receipt that makes the next
\* launcher refuse, also when the launcher died between any two steps.
OrphanKeepsReceipt ==
    \A l \in Launchers \ robbed :
        pc[l] \in {"dead", "ended"} /\ Live(l) /\ ~Abandoned(l) => receipt.launch = l /\ Blocked

\* What the specification of the platform says: ownership is released only
\* after the launched process tree is reaped (platform-delegation/spec.md).
ReleasedIsReaped ==
    \A l \in Launchers : pc[l] = "ended" /\ writer_state[l] = "released" => ~Live(l)

\* What the class says: the receipt is retained if a launcher dies between
\* spawning and reaping its child, so that a later launcher fails closed.
DeadLeavesReceipt ==
    \A l \in Launchers : pc[l] = "dead" /\ Live(l) => receipt # NoReceipt

=============================================================================

------------------------- MODULE Ownership_proofs -------------------------
(***************************************************************************)
(* Proofs about those who own a worktree: that two delegated writers are   *)
(* never live in one without a lapse of a launcher, and one that outlives  *)
(* its launcher blocks the next (WriterOwnership); that what a start       *)
(* leaves half done is owned by a transaction, and that no start takes     *)
(* work away (ManagedStart); for any number of launchers, of starts and of *)
(* package revisions.                                                      *)
(***************************************************************************)
EXTENDS WriterOwnership, ManagedStart, TLAPS

-----------------------------------------------------------------------------
(* The delegated writer: types. *)

USE OwnershipAssumption

\* The receipts a launcher can write and read.
LEMMA Receipts ==
    /\ NoReceipt \in Receipt
    /\ \A l \in Launchers, named \in BOOLEAN : [launch |-> l, named |-> named] \in Receipt
  BY DEF NoReceipt, Receipt

\* What a launcher does keeps the types.
LEMMA StepTypes ==
    ASSUME TypeOK, NEW l \in Launchers, Step(l)
    PROVE  TypeOK'
<1> DEFINE Steps == {"idle", "locked", "clear", "launching", "spawned", "running", "returned",
                     "reaping", "releasing", "unlocking", "leaving"} \cup Over
           Writes == {"released", "ambiguous"}
<1>1. /\ pc' \in [Launchers -> Steps]
      /\ raised' \in [Launchers -> BOOLEAN]
  BY DEF TypeOK, Step, Goto, Over, launcherVars, Lock, LockIsBusy, Refuse, ClearReceipt, WriteLaunching,
         LaunchingUnwritten, Spawn, SpawnFails, MarkRunning, MarkRunningFails, WaitReturns, GroupIsGone,
         GroupSurvives, Abort, Collect, Reaped, MarkAmbiguous, Unlink, Unlock, Leave, Die
<1>2. writer_state' \in [Launchers -> Writes] /\ lock' \in Launchers \cup {Nobody}
  BY DEF TypeOK, Step, Unlocked, launcherVars, Lock, LockIsBusy, Refuse, ClearReceipt, WriteLaunching,
         LaunchingUnwritten, Spawn, SpawnFails, MarkRunning, MarkRunningFails, WaitReturns, GroupIsGone,
         GroupSurvives, Abort, Collect, Reaped, MarkAmbiguous, Unlink, Unlock, Leave, Die
<1>3. receipt' \in Receipt
  <2>1. receipt \in Receipt /\ TRUE \in BOOLEAN /\ FALSE \in BOOLEAN
    BY DEF TypeOK
  <2>2. \/ receipt' = receipt \/ receipt' = NoReceipt
        \/ receipt' = [launch |-> l, named |-> FALSE] \/ receipt' = [launch |-> l, named |-> TRUE]
    BY DEF Step, Touch, Lock, LockIsBusy, Refuse, ClearReceipt, WriteLaunching,
           LaunchingUnwritten, Spawn, SpawnFails, MarkRunning, MarkRunningFails, WaitReturns, GroupIsGone,
           GroupSurvives, Abort, Collect, Reaped, MarkAmbiguous, Unlink, Unlock, Leave, Die
  <2> QED
    BY <2>1, <2>2, Receipts
<1>4. members' \in [Launchers -> SUBSET Member]
  BY DEF TypeOK, Step, Member, Lock, LockIsBusy, Refuse, ClearReceipt, WriteLaunching,
         LaunchingUnwritten, Spawn, SpawnFails, MarkRunning, MarkRunningFails, WaitReturns, GroupIsGone,
         GroupSurvives, Abort, Collect, Reaped, MarkAmbiguous, Unlink, Unlock, Leave, Die
<1>5. robbed' \in SUBSET Launchers
  BY DEF TypeOK, Step, Touch, Receipt, Lock, LockIsBusy, Refuse, ClearReceipt, WriteLaunching,
         LaunchingUnwritten, Spawn, SpawnFails, MarkRunning, MarkRunningFails, WaitReturns, GroupIsGone,
         GroupSurvives, Abort, Collect, Reaped, MarkAmbiguous, Unlink, Unlock, Leave, Die
<1> QED
  BY <1>1, <1>2, <1>3, <1>4, <1>5 DEF TypeOK

\* So does what happens to the processes.
LEMMA SystemTypes ==
    ASSUME TypeOK, NEW l \in Launchers, System(l)
    PROVE  TypeOK'
  BY DEF TypeOK, System, Member, Fork, LeaderExits, KinExits, InitCollects, StrangerComes, StrangerGoes,
         launcherVars

\* The variables have their types, however many launchers there are.
THEOREM TypeCorrect == Spec => []TypeOK
<1>1. Init => TypeOK
  BY DEF Init, TypeOK, NoReceipt, Receipt, Over, Member
<1>2. TypeOK /\ [Next]_vars => TypeOK'
  <2> SUFFICES ASSUME TypeOK, [Next]_vars PROVE TypeOK'
    OBVIOUS
  <2>1. CASE UNCHANGED vars
    BY <2>1 DEF TypeOK, vars, launcherVars
  <2>2. CASE Next
    BY <2>2, StepTypes, SystemTypes DEF Next
  <2> QED
    BY <2>1, <2>2
<1> QED
  BY <1>1, <1>2, PTL DEF Spec

-----------------------------------------------------------------------------
(* One writer at a time.  A live writer that was neither abandoned nor     *)
(* robbed is the one the receipt is of, so two of them cannot be.  That    *)
(* needs to know that whoever holds the lock and has seen the receipt is   *)
(* past all such writers of others.                                        *)

Holding == {"locked", "clear", "launching", "spawned", "running", "returned"}

\* Before the first exception a launcher keeps its lock until it unlocks.
HoldsLock ==
    \A l \in Launchers :
        pc[l] \in Holding \/ (pc[l] \in {"reaping", "releasing", "unlocking"} /\ ~raised[l]) => lock = l

\* No writer before its start, and none when the receipt is given up.
NoWriterYet ==
    \A l \in Launchers :
        pc[l] \in {"idle", "refused", "locked", "clear", "launching", "releasing"} => ~Live(l)

\* Nothing is reported of a writer before its group is recorded.
NoReportYet ==
    \A l \in Launchers :
        pc[l] \in {"idle", "locked", "clear", "launching", "spawned"} => writer_state[l] = "released"

Excused(l) == Abandoned(l) \/ l \in robbed

OwnReceipt ==
    \A l \in Launchers : (Live(l) \/ pc[l] = "launching") /\ ~Excused(l) => receipt.launch = l

PastOthers ==
    \A l, m \in Launchers :
        lock = l /\ pc[l] # "locked" /\ m # l /\ Live(m) => Excused(m)

OwnershipInv == TypeOK /\ HoldsLock /\ NoWriterYet /\ NoReportYet /\ OwnReceipt /\ PastOthers

\* Only a start makes a new writer.
LEMMA NewWriters ==
    ASSUME TypeOK, NEW l \in Launchers, Step(l) \/ System(l), NEW m \in Launchers, Live(m)', ~Live(m)
    PROVE  m = l /\ Spawn(l)
  BY DEF TypeOK, Live, System, Fork, LeaderExits, KinExits, InitCollects, StrangerComes, StrangerGoes,
         Step, Lock, LockIsBusy, Refuse, ClearReceipt, WriteLaunching,
         LaunchingUnwritten, Spawn, SpawnFails, MarkRunning, MarkRunningFails, WaitReturns, GroupIsGone,
         GroupSurvives, Abort, Collect, Reaped, MarkAmbiguous, Unlink, Unlock, Leave, Die

\* An excuse lasts.
LEMMA ExcusesLast ==
    ASSUME TypeOK, NEW l \in Launchers, Step(l) \/ System(l), NEW m \in Launchers, Excused(m)
    PROVE  Excused(m)'
  BY DEF TypeOK, Excused, Abandoned, Over, Goto, Touch, System, launcherVars,
         Step, Lock, LockIsBusy, Refuse, ClearReceipt, WriteLaunching,
         LaunchingUnwritten, Spawn, SpawnFails, MarkRunning, MarkRunningFails, WaitReturns, GroupIsGone,
         GroupSurvives, Abort, Collect, Reaped, MarkAmbiguous, Unlink, Unlock, Leave, Die

\* A launcher keeps the lock that it holds.
LEMMA LockStaysHeld ==
    ASSUME TypeOK, HoldsLock, NEW l \in Launchers, Step(l) \/ System(l)
    PROVE  HoldsLock'
  BY DEF TypeOK, HoldsLock, Holding, Over, Goto, Unlocked, System, launcherVars,
         Step, Lock, LockIsBusy, Refuse, ClearReceipt, WriteLaunching,
         LaunchingUnwritten, Spawn, SpawnFails, MarkRunning, MarkRunningFails, WaitReturns, GroupIsGone,
         GroupSurvives, Abort, Collect, Reaped, MarkAmbiguous, Unlink, Unlock, Leave, Die

\* Where no writer was, none appears by another's step.
LEMMA StillNoWriter ==
    ASSUME TypeOK, NoWriterYet, NEW l \in Launchers, Step(l) \/ System(l)
    PROVE  NoWriterYet'
<1> SUFFICES ASSUME NEW m \in Launchers,
                    pc'[m] \in {"idle", "refused", "locked", "clear", "launching", "releasing"}
             PROVE  ~Live(m)'
  BY DEF NoWriterYet
<1>1. ~Spawn(l) \/ m # l
  BY DEF Spawn, Goto, TypeOK
<1>2. ~Live(m)
  BY DEF TypeOK, NoWriterYet, Live, Absent, Over, Goto, System, launcherVars,
         Step, Lock, LockIsBusy, Refuse, ClearReceipt, WriteLaunching,
         LaunchingUnwritten, Spawn, SpawnFails, MarkRunning, MarkRunningFails, WaitReturns, GroupIsGone,
         GroupSurvives, Abort, Collect, Reaped, MarkAmbiguous, Unlink, Unlock, Leave, Die
<1> QED
  BY <1>1, <1>2, NewWriters

\* Where no report was, none appears.
LEMMA StillNoReport ==
    ASSUME TypeOK, NoReportYet, NEW l \in Launchers, Step(l) \/ System(l)
    PROVE  NoReportYet'
  BY DEF TypeOK, NoReportYet, Over, Goto, System, launcherVars,
         Step, Lock, LockIsBusy, Refuse, ClearReceipt, WriteLaunching,
         LaunchingUnwritten, Spawn, SpawnFails, MarkRunning, MarkRunningFails, WaitReturns, GroupIsGone,
         GroupSurvives, Abort, Collect, Reaped, MarkAmbiguous, Unlink, Unlock, Leave, Die

\* Who changes the receipt, and to what.
LEMMA ReceiptChanges ==
    ASSUME NEW l \in Launchers, Step(l) \/ System(l), receipt' # receipt
    PROVE  \/ ClearReceipt(l) \/ WriteLaunching(l) \/ MarkRunning(l) \/ MarkRunningFails(l)
           \/ MarkAmbiguous(l) \/ Unlink(l)
  BY DEF System, Step, Lock, LockIsBusy, Refuse, LaunchingUnwritten, Spawn, SpawnFails, WaitReturns,
         GroupIsGone, GroupSurvives, Abort, Collect, Reaped, Unlock, Leave, Die

\* The receipt stays with a writer that has no excuse.
LEMMA ReceiptStays ==
    ASSUME OwnershipInv, NEW l \in Launchers, Step(l) \/ System(l)
    PROVE  OwnReceipt'
<1> SUFFICES ASSUME NEW m \in Launchers, Live(m)' \/ pc'[m] = "launching", ~Excused(m)'
             PROVE  receipt'.launch = m
  BY DEF OwnReceipt
<1>1. ~Excused(m)
  BY ExcusesLast DEF OwnershipInv
<1>2. CASE m = l /\ WriteLaunching(l)
  BY <1>2 DEF WriteLaunching
<1>3. CASE m = l /\ Spawn(l)
  BY <1>1, <1>3 DEF Spawn, OwnershipInv, OwnReceipt
<1>4. CASE ~(m = l /\ (WriteLaunching(l) \/ Spawn(l)))
  <2>1. Live(m) \/ pc[m] = "launching"
    <3>1. CASE Live(m)'
      BY <1>4, <3>1, NewWriters DEF OwnershipInv
    <3>2. CASE pc'[m] = "launching"
      BY <1>4, <3>2 DEF OwnershipInv, TypeOK, Goto, System, launcherVars,
         Step, Lock, LockIsBusy, Refuse, ClearReceipt, WriteLaunching,
         LaunchingUnwritten, Spawn, SpawnFails, MarkRunning, MarkRunningFails, WaitReturns, GroupIsGone,
         GroupSurvives, Abort, Collect, Reaped, MarkAmbiguous, Unlink, Unlock, Leave, Die
    <3> QED
      BY <3>1, <3>2
  <2>2. receipt.launch = m
    BY <1>1, <2>1 DEF OwnershipInv, OwnReceipt
  <2>3. CASE m = l /\ receipt' # receipt
    <3>1. ~ClearReceipt(l) /\ ~Unlink(l)
      BY <2>1, <2>3 DEF ClearReceipt, Unlink, OwnershipInv, NoWriterYet
    <3>2. ~MarkRunningFails(l)
      BY <2>3 DEF MarkRunningFails, OwnershipInv, TypeOK, NoReportYet, Excused, Abandoned, Goto
    <3> QED
      BY <1>4, <2>3, <3>1, <3>2, ReceiptChanges DEF MarkRunning, MarkAmbiguous, Touch
  <2>4. CASE m # l /\ receipt' # receipt
    <3>1. lock = l => pc[m] # "launching" /\ Live(m)
      BY <2>1, <2>4 DEF OwnershipInv, HoldsLock, Holding
    <3>2. lock = l => pc[l] = "locked"
      BY <1>1, <2>4, <3>1 DEF OwnershipInv, PastOthers
    <3>3. ~ClearReceipt(l)
      <4>1. ClearReceipt(l) => lock = l
        BY DEF ClearReceipt, OwnershipInv, HoldsLock, Holding
      <4>2. receipt # NoReceipt
        BY <2>2 DEF NoReceipt
      <4> QED
        BY <2>2, <3>1, <4>1, <4>2 DEF ClearReceipt, Blocked, Absent, Live
    <3>4. ~WriteLaunching(l) /\ ~MarkRunning(l) /\ ~MarkRunningFails(l)
      BY <3>2 DEF WriteLaunching, MarkRunning, MarkRunningFails, OwnershipInv, HoldsLock, Holding
    <3>5. MarkAmbiguous(l) \/ Unlink(l)
      BY <2>4, <3>3, <3>4, ReceiptChanges
    <3>6. lock # l
      BY <3>2, <3>5 DEF MarkAmbiguous, Unlink
    <3>7. m \in robbed'
      BY <2>2, <2>4, <3>5, <3>6 DEF MarkAmbiguous, Unlink, Touch
    <3> QED
      BY <3>7 DEF Excused
  <2> QED
    BY <2>2, <2>3, <2>4
<1> QED
  BY <1>2, <1>3, <1>4

\* A launcher that is past the receipts of others stays past them.
LEMMA StillPastOthers ==
    ASSUME OwnershipInv, NEW l \in Launchers, Step(l) \/ System(l)
    PROVE  PastOthers'
<1> SUFFICES ASSUME NEW k \in Launchers, NEW m \in Launchers,
                    lock' = k, pc'[k] # "locked", m # k, Live(m)'
             PROVE  Excused(m)'
  BY DEF PastOthers
<1>1. CASE lock = k /\ pc[k] # "locked"
  <2>1. Live(m)
    <3>1. ~Live(m) => m = l /\ Spawn(l)
      BY NewWriters DEF OwnershipInv
    <3>2. Spawn(l) => lock = l
      BY DEF Spawn, OwnershipInv, HoldsLock, Holding
    <3> QED
      BY <1>1, <3>1, <3>2
  <2> QED
    BY <1>1, <2>1, ExcusesLast DEF OwnershipInv, PastOthers
<1>2. CASE lock = k /\ pc[k] = "locked"
  <2>1. k = l /\ ClearReceipt(l)
    BY <1>2 DEF OwnershipInv, TypeOK, Goto, Unlocked, System, launcherVars,
         Step, Lock, LockIsBusy, Refuse, ClearReceipt, WriteLaunching,
         LaunchingUnwritten, Spawn, SpawnFails, MarkRunning, MarkRunningFails, WaitReturns, GroupIsGone,
         GroupSurvives, Abort, Collect, Reaped, MarkAmbiguous, Unlink, Unlock, Leave, Die
  <2>2. Live(m) /\ members[m] # {}
    BY <2>1, NewWriters DEF OwnershipInv, ClearReceipt, Spawn, Live
  <2>3. receipt.launch # m
    BY <2>1, <2>2 DEF ClearReceipt, Blocked, Absent, NoReceipt
  <2> QED
    BY <2>2, <2>3, ExcusesLast DEF OwnershipInv, OwnReceipt
<1>3. CASE lock # k
  BY <1>3 DEF OwnershipInv, TypeOK, Goto, Unlocked, System, launcherVars,
         Step, Lock, LockIsBusy, Refuse, ClearReceipt, WriteLaunching,
         LaunchingUnwritten, Spawn, SpawnFails, MarkRunning, MarkRunningFails, WaitReturns, GroupIsGone,
         GroupSurvives, Abort, Collect, Reaped, MarkAmbiguous, Unlink, Unlock, Leave, Die
<1> QED
  BY <1>1, <1>2, <1>3

\* Lock, receipt and processes agree, always.
THEOREM OwnershipInvariant == Spec => []OwnershipInv
<1>1. Init => OwnershipInv
  <2> SUFFICES ASSUME Init PROVE OwnershipInv
    OBVIOUS
  <2>1. TypeOK
    BY DEF Init, TypeOK, NoReceipt, Receipt, Over, Member
  <2>2. \A l \in Launchers : ~Live(l) /\ pc[l] = "idle"
    BY DEF Init, Live
  <2> QED
    BY <2>1, <2>2 DEF Init, OwnershipInv, HoldsLock, Holding, NoWriterYet, NoReportYet, OwnReceipt, PastOthers
<1>2. OwnershipInv /\ [Next]_vars => OwnershipInv'
  <2> SUFFICES ASSUME OwnershipInv, [Next]_vars PROVE OwnershipInv'
    OBVIOUS
  <2>1. CASE UNCHANGED vars
    BY <2>1 DEF OwnershipInv, TypeOK, HoldsLock, NoWriterYet, NoReportYet, OwnReceipt, PastOthers,
                Excused, Abandoned, Live, vars, launcherVars
  <2>2. CASE Next
    <3>1. PICK l \in Launchers : Step(l) \/ System(l)
      BY <2>2 DEF Next
    <3>2. TypeOK' /\ HoldsLock' /\ NoWriterYet' /\ NoReportYet'
      BY <3>1, StepTypes, SystemTypes, LockStaysHeld, StillNoWriter, StillNoReport DEF OwnershipInv
    <3>3. OwnReceipt' /\ PastOthers'
      BY <3>1, ReceiptStays, StillPastOthers
    <3> QED
      BY <3>2, <3>3 DEF OwnershipInv
  <2> QED
    BY <2>1, <2>2
<1> QED
  BY <1>1, <1>2, PTL DEF Spec

\* Two live writers of one worktree: one of them was abandoned unrecorded, or
\* its receipt was taken away.
THEOREM OneWriter == Spec => []WritersExclude
<1>1. OwnershipInv => WritersExclude
  BY DEF OwnershipInv, OwnReceipt, WritersExclude, Excused
<1> QED
  BY <1>1, OwnershipInvariant, PTL

\* A writer that outlives its launcher keeps the receipt, and the receipt
\* blocks.
THEOREM OrphansBlock == Spec => []OrphanKeepsReceipt
<1>1. OwnershipInv => OrphanKeepsReceipt
  <2> SUFFICES ASSUME OwnershipInv, NEW l \in Launchers \ robbed, Live(l), ~Abandoned(l)
               PROVE  receipt.launch = l /\ Blocked
    BY DEF OrphanKeepsReceipt
  <2>1. receipt.launch = l
    BY DEF OwnershipInv, OwnReceipt, Excused
  <2>2. receipt # NoReceipt
    BY <2>1 DEF NoReceipt
  <2>3. ~Absent(l)
    BY DEF Absent, Live
  <2> QED
    BY <2>1, <2>2, <2>3 DEF Blocked
<1> QED
  BY <1>1, OwnershipInvariant, PTL

-----------------------------------------------------------------------------
(* The managed start: types. *)

USE StartAssumption

\* A transaction of a start is not the missing one.
LEMMA Transactions ==
    /\ NoTransaction \in Transaction
    /\ \A s \in Starts, r \in Revisions :
           [by |-> s, revision |-> r] \in Transaction /\ [by |-> s, revision |-> r] # NoTransaction
    /\ \A x \in Transaction : x # NoTransaction => x.by \in Starts
  BY DEF NoTransaction, Transaction

\* What a start does keeps the types.
LEMMA StartStepTypes ==
    ASSUME StartTypeOK, NEW s \in Starts, StartStep(s)
    PROVE  StartTypeOK'
<1>1. stage' \in [Starts -> Stage]
  BY DEF StartTypeOK, Stage, Stopped, StartStep, Discover, LockChange, Persist, RefuseForeign, Fail, Commit,
         UnlinkTransaction, Resume, NothingToRecover, Recover, RefuseRecovery, RemoveBoardEntry, RemoveWorktree,
         RemoveBranch, VerifyRemoval, CreateBranch, CreateWorktree, Register, Import, AdmitRun, AdmitWait,
         CreationFails, KillStart, Move, Change, Skip, Release, RemoveFrom, RemoveOrNot
<1>2. /\ revision' = revision /\ resumed' \in [Starts -> BOOLEAN]
      /\ afterRemoval' \in [Starts -> {"verifying", "failing"}]
  BY DEF StartTypeOK, StartStep, Discover, LockChange, Persist, RefuseForeign, Fail, Commit,
         UnlinkTransaction, Resume, NothingToRecover, Recover, RefuseRecovery, RemoveBoardEntry, RemoveWorktree,
         RemoveBranch, VerifyRemoval, CreateBranch, CreateWorktree, Register, Import, AdmitRun, AdmitWait,
         CreationFails, KillStart, Change, Skip, Release, RemoveFrom, RemoveOrNot
<1>3. startLock' \in Starts \cup {NoStart} /\ overtaken' \in SUBSET Starts /\ reported' \in BOOLEAN
  BY DEF StartTypeOK, StartStep, Discover, LockChange, Persist, RefuseForeign, Fail, Commit, Canonical,
         UnlinkTransaction, Resume, NothingToRecover, Recover, RefuseRecovery, RemoveBoardEntry, RemoveWorktree,
         RemoveBranch, VerifyRemoval, CreateBranch, CreateWorktree, Register, Import, AdmitRun, AdmitWait,
         CreationFails, KillStart, Change, Skip, Release, RemoveFrom, RemoveOrNot
<1>4. transaction' \in Transaction
  <2>1. \/ transaction' \in {transaction, NoTransaction}
        \/ transaction' = [by |-> s, revision |-> revision[s]]
        \/ transaction # NoTransaction /\ transaction' = [by |-> transaction.by, revision |-> revision[s]]
    BY DEF StartStep, Discover, LockChange, Persist, RefuseForeign, Fail, Commit, RollBack,
         UnlinkTransaction, Resume, NothingToRecover, Recover, RefuseRecovery, RemoveBoardEntry, RemoveWorktree,
         RemoveBranch, VerifyRemoval, CreateBranch, CreateWorktree, Register, Import, AdmitRun, AdmitWait,
         CreationFails, KillStart, Change, Skip, RemoveFrom, RemoveOrNot
  <2>2. revision[s] \in Revisions /\ transaction \in Transaction
    BY DEF StartTypeOK
  <2> QED
    BY <2>1, <2>2, Transactions
<1>5. parts' \in SUBSET Part /\ work' \in SUBSET {"commits", "dirt"}
  BY DEF StartTypeOK, Part, StartStep, Discover, LockChange, Persist, RefuseForeign, Fail, Commit,
         UnlinkTransaction, Resume, NothingToRecover, Recover, RefuseRecovery, RemoveBoardEntry, RemoveWorktree,
         RemoveBranch, VerifyRemoval, CreateBranch, CreateWorktree, Register, Import, AdmitRun, AdmitWait,
         CreationFails, KillStart, Change, Skip, Release, RemoveFrom, RemoveOrNot
<1> QED
  BY <1>1, <1>2, <1>3, <1>4, <1>5 DEF StartTypeOK

\* The variables have their types, however many starts there are.
THEOREM StartTypeCorrect == StartSpec => []StartTypeOK
<1>1. StartInit => StartTypeOK
  BY Transactions DEF StartInit, StartTypeOK, Stage
<1>2. StartTypeOK /\ [StartNext]_startVars => StartTypeOK'
  <2> SUFFICES ASSUME StartTypeOK, [StartNext]_startVars PROVE StartTypeOK'
    OBVIOUS
  <2>1. CASE UNCHANGED startVars
    BY <2>1 DEF StartTypeOK, startVars, ownVars
  <2>2. CASE Work \/ RemoveTask
    BY <2>2 DEF StartTypeOK, Work, RemoveTask, ownVars
  <2> QED
    BY <2>1, <2>2, StartStepTypes DEF StartNext
<1> QED
  BY <1>1, <1>2, PTL DEF StartSpec

-----------------------------------------------------------------------------
(* The lock of the change.  A start that has taken it keeps it until it    *)
(* releases it, and whoever comes next overtakes those that have released  *)
(* it and not yet removed their file.                                      *)

Removing == {"unboarding", "unlinkingTree", "unbranching"}
Inside == Removing \cup {"locked", "persisted", "verifying", "creating", "branched", "added", "importing",
                         "admitting", "failing", "completed"}

LockKept == \A s \in Starts : stage[s] \in Inside => startLock = s

OvertakenBy == \A s, t \in Starts : stage[s] \in Inside /\ stage[t] = "unlinking" => t \in overtaken

LockInv == StartTypeOK /\ LockKept /\ OvertakenBy

\* A start inside the lock is alone there.
LEMMA AloneInside ==
    ASSUME LockKept, NEW s \in Starts, stage[s] \in Inside
    PROVE  \A t \in Starts \ {s} : stage[t] \notin Inside
  BY DEF LockKept

\* A step of a start is its own.
LEMMA OthersStay ==
    ASSUME StartTypeOK, NEW s \in Starts, StartStep(s), NEW t \in Starts \ {s}
    PROVE  stage'[t] = stage[t] /\ resumed'[t] = resumed[t] /\ afterRemoval'[t] = afterRemoval[t]
  BY DEF StartTypeOK, StartStep, Discover, LockChange, Persist, RefuseForeign, Fail, Commit,
         UnlinkTransaction, Resume, NothingToRecover, Recover, RefuseRecovery, RemoveBoardEntry, RemoveWorktree,
         RemoveBranch, VerifyRemoval, CreateBranch, CreateWorktree, Register, Import, AdmitRun, AdmitWait,
         CreationFails, KillStart, Move, Change, Skip, Release, RemoveFrom, RemoveOrNot

\* How a step of a start deals with the lock.
LEMMA LockSteps ==
    ASSUME StartTypeOK, NEW s \in Starts, StartStep(s)
    PROVE  \/ /\ stage[s] = "waiting" /\ startLock = NoStart /\ startLock' = s /\ stage'[s] = "locked"
              /\ overtaken' = overtaken \cup {t \in Starts : stage[t] = "unlinking"}
           \/ /\ stage[s] \in Inside /\ startLock' = NoStart /\ stage'[s] \notin Inside /\ overtaken' = overtaken
           \/ stage[s] \in Inside /\ startLock' = startLock /\ stage'[s] \in Inside /\ overtaken' = overtaken
           \/ /\ stage[s] \notin Inside /\ stage'[s] \notin Inside \cup {"unlinking"} /\ overtaken' = overtaken
              /\ startLock' = startLock \/ startLock = s
           \/ stage[s] \in Inside /\ stage'[s] = "killed" /\ overtaken' = overtaken /\ startLock' \in {NoStart, startLock}
  BY DEF StartTypeOK, Inside, Removing, Stopped, StartStep, Discover, LockChange, Persist, RefuseForeign, Fail, Commit,
         UnlinkTransaction, Resume, NothingToRecover, Recover, RefuseRecovery, RemoveBoardEntry, RemoveWorktree,
         RemoveBranch, VerifyRemoval, CreateBranch, CreateWorktree, Register, Import, AdmitRun, Admissible, AdmitWait,
         CreationFails, KillStart, Move, Change, Skip, Release, RemoveFrom, RemoveOrNot

\* Every step keeps the lock with the start inside.
LEMMA LockStays ==
    ASSUME LockInv, NEW s \in Starts, StartStep(s)
    PROVE  LockKept' /\ OvertakenBy'
<1>1. StartTypeOK /\ LockKept /\ OvertakenBy
  BY DEF LockInv
<1>2. \A t \in Starts \ {s} : stage'[t] = stage[t]
  BY <1>1, OthersStay
<1>3. \/ stage[s] \in Inside \/ stage[s] \notin Inside
  OBVIOUS
<1>4. LockKept'
  BY <1>1, <1>2, LockSteps DEF LockKept, Inside, Removing
<1>5. OvertakenBy'
  BY <1>1, <1>2, LockSteps DEF LockKept, OvertakenBy, Inside, Removing
<1> QED
  BY <1>4, <1>5

-----------------------------------------------------------------------------
(* What is half done is owned.  A start that creates or removes parts has  *)
(* its transaction, unless one that it overtook has unlinked the file.     *)

Overtaking == \E t \in overtaken : stage[t] = "done"

TransactionHeld ==
    \A s \in Starts : stage[s] \in Inside \ {"locked"} /\ transaction = NoTransaction => Overtaking

WholeOrNothing ==
    \A s \in Starts : stage[s] \in {"completed", "unlinking"} /\ s \notin overtaken => Canonical \/ NothingLeft

OwnedInv == LockInv /\ TransactionHeld /\ WholeOrNothing /\ PartialIsOwned

\* What has been overtaken stays so, and done is done.
LEMMA OvertakingStays ==
    ASSUME StartTypeOK, NEW s \in Starts, StartStep(s), Overtaking
    PROVE  Overtaking'
<1>1. PICK t \in overtaken : stage[t] = "done"
  BY DEF Overtaking
<1>2. t \in Starts /\ overtaken \subseteq overtaken'
  BY LockSteps DEF StartTypeOK
<1>3. stage[s] # "done"
  BY DEF StartStep, Stopped, Discover, LockChange, Persist, RefuseForeign, Fail, Commit,
         UnlinkTransaction, Resume, NothingToRecover, Recover, RefuseRecovery, RemoveBoardEntry, RemoveWorktree,
         RemoveBranch, VerifyRemoval, CreateBranch, CreateWorktree, Register, Import, AdmitRun, Admissible, AdmitWait,
         CreationFails, KillStart
<1>4. stage'[t] = "done"
  BY <1>1, <1>2, <1>3, OthersStay
<1> QED
  BY <1>1, <1>2, <1>4 DEF Overtaking

\* Parts change inside the lock alone, after the transaction was written.
LEMMA PartsChange ==
    ASSUME StartTypeOK, NEW s \in Starts, StartStep(s)
    PROVE  parts' = parts \/ (stage[s] \in Inside \ {"locked", "completed"} /\ transaction' = transaction)
  BY DEF Inside, Removing, StartStep, Discover, LockChange, Persist, RefuseForeign, Fail, Commit,
         UnlinkTransaction, Resume, NothingToRecover, Recover, RefuseRecovery, RemoveBoardEntry, RemoveWorktree,
         RemoveBranch, VerifyRemoval, CreateBranch, CreateWorktree, Register, Import, AdmitRun, AdmitWait,
         CreationFails, KillStart, Change, Skip, Release, RemoveFrom, RemoveOrNot

\* A transaction goes with what it owns, or with its own start's success.
LEMMA TransactionGoes ==
    ASSUME StartTypeOK, NEW s \in Starts, StartStep(s), transaction' = NoTransaction,
           ~UnlinkTransaction(s), ~Fail(s)
    PROVE  /\ transaction = NoTransaction
           /\ stage'[s] \in Inside \ {"locked"} => stage[s] \in Inside \ {"locked"}
<1>1. \A r \in Revisions : [by |-> s, revision |-> r] # NoTransaction
  BY Transactions
<1>2. revision[s] \in Revisions /\ transaction \in Transaction /\ stage \in [Starts -> Stage]
  BY DEF StartTypeOK
<1>3. CASE Commit(s)
  <2>1. transaction # NoTransaction => [by |-> transaction.by, revision |-> revision[s]] # NoTransaction
    BY <1>2, Transactions
  <2> QED
    BY <1>1, <1>2, <1>3, <2>1 DEF Commit
<1>4. CASE Persist(s)
  BY <1>1, <1>2, <1>4 DEF Persist
<1>5. CASE ~Commit(s) /\ ~Persist(s)
  BY <1>2, <1>5
     DEF Inside, Removing, StartStep, Discover, LockChange, RefuseForeign,
         Resume, NothingToRecover, Recover, RefuseRecovery, RemoveBoardEntry, RemoveWorktree,
         RemoveBranch, VerifyRemoval, CreateBranch, CreateWorktree, Register, Import, AdmitRun, Admissible, AdmitWait,
         CreationFails, KillStart, Move, Change, Skip, Release, RemoveFrom, RemoveOrNot
<1> QED
  BY <1>3, <1>4, <1>5

\* A start becomes complete with the whole task, and stays so until it unlinks.
LEMMA Completion ==
    ASSUME StartTypeOK, NEW s \in Starts, StartStep(s), stage'[s] \in {"completed", "unlinking"}
    PROVE  /\ parts' = parts /\ overtaken' = overtaken
           /\ Canonical \/ stage[s] = "completed"
  BY DEF StartTypeOK, Canonical, Admissible, StartStep, Discover, LockChange, Persist, RefuseForeign, Fail, Commit,
         UnlinkTransaction, Resume, NothingToRecover, Recover, RefuseRecovery, RemoveBoardEntry, RemoveWorktree,
         RemoveBranch, VerifyRemoval, CreateBranch, CreateWorktree, Register, Import, AdmitRun, AdmitWait,
         CreationFails, KillStart, Move, Change, Skip, Release, RemoveFrom, RemoveOrNot

\* Every step keeps what is left of a task owned by a transaction.
LEMMA OwnedStays ==
    ASSUME OwnedInv, NEW s \in Starts, StartStep(s)
    PROVE  TransactionHeld' /\ WholeOrNothing' /\ PartialIsOwned'
<1>1. StartTypeOK /\ LockKept /\ OvertakenBy
  BY DEF OwnedInv, LockInv
<1>2. \A t \in Starts \ {s} : stage'[t] = stage[t]
  BY <1>1, OthersStay
<1>3. overtaken \subseteq overtaken' /\ overtaken \subseteq Starts
  BY <1>1, LockSteps DEF StartTypeOK
<1>4. UnlinkTransaction(s) /\ s \in overtaken => Overtaking'
  BY <1>1, <1>3 DEF UnlinkTransaction, Move, Overtaking, StartTypeOK
<1>5. TransactionHeld'
  <2> SUFFICES ASSUME NEW t \in Starts, stage'[t] \in Inside \ {"locked"}, transaction' = NoTransaction, ~Overtaking
               PROVE  Overtaking'
    BY <1>1, OvertakingStays DEF TransactionHeld, Inside
  <2>1. CASE UnlinkTransaction(s)
    <3>1. stage'[s] = "done" /\ stage[s] = "unlinking"
      BY <1>1, <2>1 DEF UnlinkTransaction, Move, StartTypeOK
    <3>2. t # s /\ stage[t] \in Inside
      BY <1>2, <3>1 DEF Inside, Removing
    <3> QED
      BY <1>1, <1>4, <2>1, <3>1, <3>2 DEF OvertakenBy
  <2>2. CASE Fail(s)
    <3>1. stage'[s] = "refused" /\ stage[s] = "failing"
      BY <1>1, <2>2 DEF Fail, Release, Move, StartTypeOK
    <3>2. t # s /\ stage[t] \in Inside /\ stage[s] \in Inside
      BY <1>2, <3>1 DEF Inside, Removing
    <3> QED
      BY <1>1, <3>2, AloneInside
  <2>3. CASE ~UnlinkTransaction(s) /\ ~Fail(s)
    <3>1. transaction = NoTransaction /\ stage[t] \in Inside \ {"locked"}
      BY <1>1, <1>2, <2>3, TransactionGoes
    <3> QED
      BY <3>1 DEF OwnedInv, TransactionHeld
  <2> QED
    BY <2>1, <2>2, <2>3
<1>6. WholeOrNothing'
  <2> SUFFICES ASSUME NEW t \in Starts, stage'[t] \in {"completed", "unlinking"}, t \notin overtaken'
               PROVE  (Canonical \/ NothingLeft)'
    BY DEF WholeOrNothing
  <2>1. CASE t = s
    <3>1. parts' = parts /\ overtaken' = overtaken /\ (Canonical \/ stage[s] = "completed")
      BY <1>1, <2>1, Completion
    <3>2. Canonical \/ NothingLeft
      BY <2>1, <3>1 DEF OwnedInv, WholeOrNothing
    <3> QED
      BY <3>1, <3>2 DEF Canonical, NothingLeft
  <2>2. CASE t # s
    <3>1. stage[t] = stage'[t] /\ t \notin overtaken
      BY <1>2, <1>3, <2>2
    <3>2. stage[s] \notin Inside
      BY <1>1, <2>2, <3>1, AloneInside DEF OvertakenBy, Inside, Removing
    <3>3. parts' = parts
      BY <1>1, <3>2, PartsChange
    <3>4. Canonical \/ NothingLeft
      BY <3>1 DEF OwnedInv, WholeOrNothing
    <3> QED
      BY <3>3, <3>4 DEF Canonical, NothingLeft
  <2> QED
    BY <2>1, <2>2
<1>7. PartialIsOwned'
  <2> SUFFICES ASSUME ~NothingLeft', ~Canonical', transaction' = NoTransaction
               PROVE  Overtaking'
    BY DEF PartialIsOwned, Overtaking
  <2>1. CASE Overtaking
    BY <1>1, <2>1, OvertakingStays
  <2>2. CASE parts' # parts /\ ~Overtaking
    <3>1. stage[s] \in Inside \ {"locked"} /\ transaction = NoTransaction
      BY <1>1, <2>2, PartsChange
    <3> QED
      BY <2>2, <3>1 DEF OwnedInv, TransactionHeld
  <2>3. CASE parts' = parts /\ ~Overtaking
    <3>1. ~NothingLeft /\ ~Canonical
      BY <2>3 DEF NothingLeft, Canonical
    <3>2. transaction # NoTransaction
      BY <2>3, <3>1 DEF OwnedInv, PartialIsOwned, Overtaking
    <3>3. UnlinkTransaction(s) \/ Fail(s)
      BY <1>1, <3>2, TransactionGoes
    <3>4. ~Fail(s)
      BY <3>1, <3>2 DEF Fail, RollBack
    <3>5. stage[s] = "unlinking"
      BY <3>3, <3>4 DEF UnlinkTransaction
    <3>6. s \in overtaken
      BY <3>1, <3>5 DEF OwnedInv, WholeOrNothing
    <3> QED
      BY <1>4, <3>3, <3>4, <3>6
  <2> QED
    BY <2>1, <2>2, <2>3
<1> QED
  BY <1>5, <1>6, <1>7

\* Nothing that a start has left of a task is without an owner.
THEOREM PartialsAreOwned == StartSpec => []PartialIsOwned
<1>1. StartInit => OwnedInv
  <2> SUFFICES ASSUME StartInit PROVE OwnedInv
    OBVIOUS
  <2>1. StartTypeOK
    BY Transactions DEF StartInit, StartTypeOK, Stage
  <2> QED
    BY <2>1 DEF StartInit, OwnedInv, LockInv, LockKept, OvertakenBy, TransactionHeld, WholeOrNothing, PartialIsOwned,
                Inside, Removing, NothingLeft
<1>2. OwnedInv /\ [StartNext]_startVars => OwnedInv'
  <2> SUFFICES ASSUME OwnedInv, [StartNext]_startVars PROVE OwnedInv'
    OBVIOUS
  <2>1. CASE UNCHANGED startVars
    BY <2>1 DEF OwnedInv, LockInv, StartTypeOK, LockKept, OvertakenBy, TransactionHeld, WholeOrNothing, Overtaking,
                PartialIsOwned, Canonical, NothingLeft, startVars, ownVars
  <2>2. CASE Work \/ RemoveTask
    <3>1. StartTypeOK'
      BY <2>2 DEF OwnedInv, LockInv, StartTypeOK, Work, RemoveTask, ownVars
    <3>2. /\ stage' = stage /\ startLock' = startLock /\ overtaken' = overtaken /\ transaction' = transaction
          /\ parts' \in {parts, {}}
      BY <2>2 DEF Work, RemoveTask, ownVars
    <3> QED
      BY <3>1, <3>2 DEF OwnedInv, LockInv, LockKept, OvertakenBy, TransactionHeld, WholeOrNothing, Overtaking,
                PartialIsOwned, Canonical, NothingLeft
  <2>3. ASSUME NEW s \in Starts, StartStep(s) PROVE OwnedInv'
    BY <2>3, StartStepTypes, LockStays, OwnedStays DEF OwnedInv, LockInv
  <2> QED
    BY <2>1, <2>2, <2>3 DEF StartNext
<1>3. OwnedInv => PartialIsOwned
  BY DEF OwnedInv
<1> QED
  BY <1>1, <1>2, <1>3, PTL DEF StartSpec

-----------------------------------------------------------------------------
(* Work is kept.  A start that removes something knows that nobody has     *)
(* worked in it, and nobody can begin to before it is handed over.         *)

WorkIsSomewhere ==
    /\ "worktree" \in parts => "branch" \in parts
    /\ "dirt" \in work => "worktree" \in parts
    /\ "commits" \in work => "branch" \in parts
    /\ reported => Canonical

Bare == work = {} /\ ~reported
FreshOrBare ==
    \A s \in Starts :
        /\ stage[s] \in Removing => Bare
        /\ stage[s] = "branched" => Bare /\ "branch" \in parts /\ "worktree" \notin parts
        /\ stage[s] \in {"added", "importing"} => Bare /\ "worktree" \in parts
        /\ stage[s] = "admitting" /\ ~resumed[s] => Bare

WorkInv == LockInv /\ WorkIsSomewhere /\ FreshOrBare

\* Where nothing is left, nothing was worked.
LEMMA NothingIsBare == ASSUME StartTypeOK, WorkIsSomewhere PROVE "branch" \notin parts => Bare
  BY DEF StartTypeOK, WorkIsSomewhere, Bare, Canonical

\* No step of a start takes work away.
LEMMA WorkKept ==
    ASSUME WorkInv, NEW s \in Starts, StartStep(s)
    PROVE  work \subseteq work'
<1>1. stage[s] \in Removing => work = {}
  BY DEF WorkInv, FreshOrBare, Bare
<1> QED
  BY <1>1 DEF Removing, StartStep, Discover, LockChange, Persist, RefuseForeign, Fail, Commit,
         UnlinkTransaction, Resume, NothingToRecover, Recover, RefuseRecovery, RemoveBoardEntry, RemoveWorktree,
         RemoveBranch, VerifyRemoval, CreateBranch, CreateWorktree, Register, Import, AdmitRun, AdmitWait,
         CreationFails, KillStart, Change, Skip, Release, RemoveFrom, RemoveOrNot

\* What a start writes of parts, work and the report.
LEMMA WorkSomewhereStays ==
    ASSUME WorkInv, NEW s \in Starts, StartStep(s)
    PROVE  WorkIsSomewhere'
<1>1. StartTypeOK /\ WorkIsSomewhere
  BY DEF WorkInv, LockInv
<1>2. work \subseteq {"commits", "dirt"} /\ parts \subseteq Part
  BY <1>1 DEF StartTypeOK
<1>3. CASE RemoveWorktree(s)
  <2>1. stage[s] \in Removing
    BY <1>3 DEF RemoveWorktree, Removing
  <2>2. work = {} /\ ~reported
    BY <2>1 DEF WorkInv, FreshOrBare, Bare
  <2> QED
    BY <1>1, <1>3, <2>2 DEF RemoveWorktree, Skip, Change, WorkIsSomewhere, Canonical
<1>4. CASE RemoveBranch(s)
  <2>1. stage[s] \in Removing
    BY <1>4 DEF RemoveBranch, Removing
  <2>2. work = {} /\ ~reported
    BY <2>1 DEF WorkInv, FreshOrBare, Bare
  <2> QED
    BY <1>1, <1>4, <2>2 DEF RemoveBranch, Skip, Change, WorkIsSomewhere, Canonical
<1>5. CASE CreateWorktree(s)
  <2>1. "branch" \in parts
    BY <1>5 DEF CreateWorktree, WorkInv, FreshOrBare
  <2> QED
    BY <1>1, <1>5, <2>1 DEF CreateWorktree, Change, WorkIsSomewhere, Canonical
<1>6. CASE RemoveBoardEntry(s) \/ CreateBranch(s) \/ Register(s) \/ Import(s)
  BY <1>1, <1>6 DEF RemoveBoardEntry, RemoveOrNot, CreateBranch, Register, Import, Skip, Change, WorkIsSomewhere, Canonical
<1>7. CASE ~RemoveWorktree(s) /\ ~RemoveBranch(s) /\ ~CreateWorktree(s) /\ ~RemoveBoardEntry(s) /\ ~CreateBranch(s)
           /\ ~Register(s) /\ ~Import(s)
  <2>1. parts' = parts /\ work' = work /\ (reported' = reported \/ (reported' => Canonical))
    BY <1>7 DEF StartStep, Discover, LockChange, Persist, RefuseForeign, Fail, Commit, Admissible,
         UnlinkTransaction, Resume, NothingToRecover, Recover, RefuseRecovery, VerifyRemoval, AdmitRun, AdmitWait,
         CreationFails, KillStart, Change, Skip, Release, RemoveFrom
  <2> QED
    BY <1>1, <2>1 DEF WorkIsSomewhere, Canonical
<1> QED
  BY <1>3, <1>4, <1>5, <1>6, <1>7

\* What a start builds carries no work until it is handed over.
LEMMA FreshStays ==
    ASSUME WorkInv, NEW s \in Starts, StartStep(s)
    PROVE  FreshOrBare'
<1> DEFINE Good(t) ==
        /\ stage[t] \in Removing => Bare
        /\ stage[t] = "branched" => Bare /\ "branch" \in parts /\ "worktree" \notin parts
        /\ stage[t] \in {"added", "importing"} => Bare /\ "worktree" \in parts
        /\ stage[t] = "admitting" /\ ~resumed[t] => Bare
<1>1. StartTypeOK /\ WorkIsSomewhere /\ LockKept /\ Good(s)
  BY DEF WorkInv, LockInv, FreshOrBare
<1>2. ASSUME NEW t \in Starts \ {s} PROVE Good(t)'
  <2>1. stage'[t] = stage[t] /\ resumed'[t] = resumed[t]
    BY <1>1, OthersStay
  <2>2. CASE stage[s] \in Inside
    <3>1. stage[t] \notin Inside
      BY <1>1, <2>2, AloneInside
    <3> QED
      BY <2>1, <3>1 DEF Inside, Removing
  <2>3. CASE stage[s] \notin Inside
    <3>1. work' = work /\ reported' = reported /\ parts' = parts
      BY <2>3 DEF Inside, Removing, StartStep, Discover, LockChange, Persist, RefuseForeign, Fail, Commit,
         UnlinkTransaction, Resume, NothingToRecover, Recover, RefuseRecovery, RemoveBoardEntry, RemoveWorktree,
         RemoveBranch, VerifyRemoval, CreateBranch, CreateWorktree, Register, Import, AdmitRun, Admissible, AdmitWait,
         CreationFails, KillStart, Change, Skip, Release, RemoveFrom, RemoveOrNot
    <3> QED
      BY <2>1, <3>1 DEF WorkInv, FreshOrBare, Bare
  <2> QED
    BY <2>2, <2>3
<1>3. "branch" \notin parts => Bare
  BY <1>1, NothingIsBare
<1>4. ASSUME Recover(s) \/ CreationFails(s) PROVE Good(s)'
  <2>1. Recover(s) => Bare
    BY <1>1 DEF Recover, Removable, Bare, WorkIsSomewhere
  <2>2. work' = work /\ reported' = reported /\ parts' = parts
    BY <1>4 DEF Recover, CreationFails, RemoveFrom, Skip, Change
  <2>3. \/ stage'[s] = "failing"
        \/ stage'[s] = "unboarding" /\ Bare
    BY <1>1, <1>4, <2>1 DEF Recover, CreationFails, RemoveFrom, Skip, Change, Move, StartTypeOK
  <2> QED
    BY <2>2, <2>3 DEF Removing, Bare
<1>5. ASSUME RemoveBoardEntry(s) \/ RemoveWorktree(s) \/ RemoveBranch(s) PROVE Good(s)'
  <2>1. Bare /\ afterRemoval[s] \in {"verifying", "failing"}
    BY <1>1, <1>5 DEF RemoveBoardEntry, RemoveWorktree, RemoveBranch, Removing, StartTypeOK
  <2>2. Bare' /\ stage'[s] \in {"unlinkingTree", "unbranching", "verifying", "failing"}
    BY <1>1, <1>5, <2>1
       DEF RemoveBoardEntry, RemoveOrNot, RemoveWorktree, RemoveBranch, Skip, Change, Move, Bare, StartTypeOK
  <2> QED
    BY <2>2 DEF Removing
<1>6. ASSUME CreateBranch(s) PROVE Good(s)'
  <2>1. /\ \/ stage'[s] = "failing"
           \/ stage'[s] = "branched" /\ parts' = parts \cup {"branch"} /\ parts \cap {"branch", "worktree"} = {}
        /\ work' = work /\ reported' = reported
    BY <1>1, <1>6 DEF CreateBranch, Skip, Change, Move, StartTypeOK
  <2> QED
    BY <1>3, <2>1 DEF Bare, Removing
<1>7. ASSUME CreateWorktree(s) \/ Register(s) PROVE Good(s)'
  <2>1. /\ stage[s] \in {"branched", "added"} /\ stage'[s] \in {"added", "importing"}
        /\ \/ parts' = parts \cup {"worktree"}
           \/ stage[s] = "added" /\ parts' = parts \cup {"board"}
        /\ work' = work /\ reported' = reported
    BY <1>1, <1>7 DEF CreateWorktree, Register, Change, Move, StartTypeOK
  <2> QED
    BY <1>1, <2>1 DEF Bare, Removing
<1>8. ASSUME Import(s) PROVE Good(s)'
  BY <1>1, <1>8 DEF Import, Change, Move, Bare, Removing, StartTypeOK
<1>9. ASSUME Resume(s) PROVE Good(s)'
  BY <1>1, <1>9 DEF Resume, Move, Removing, StartTypeOK
<1>10. ASSUME ~Recover(s) /\ ~CreationFails(s) /\ ~RemoveBoardEntry(s) /\ ~RemoveWorktree(s) /\ ~RemoveBranch(s)
              /\ ~CreateBranch(s) /\ ~CreateWorktree(s) /\ ~Register(s) /\ ~Import(s) /\ ~Resume(s)
       PROVE  Good(s)'
  <2>1. stage'[s] \notin Removing \cup {"branched", "added", "importing", "admitting"}
    BY <1>1, <1>10 DEF Removing, Stopped, StartTypeOK, StartStep, Discover, LockChange, Persist, RefuseForeign, Fail, Commit,
         UnlinkTransaction, NothingToRecover, RefuseRecovery, VerifyRemoval, AdmitRun, Admissible, AdmitWait,
         KillStart, Move, Change, Skip, Release
  <2> QED
    BY <2>1
<1>11. Good(s)'
  BY <1>4, <1>5, <1>6, <1>7, <1>8, <1>9, <1>10
<1> QED
  BY <1>2, <1>11 DEF FreshOrBare

\* The agent works where a task was handed over, or where nobody is inside.
LEMMA WorkOfOthers ==
    ASSUME WorkInv, Work \/ RemoveTask
    PROVE  WorkInv'
<1>1. StartTypeOK /\ WorkIsSomewhere /\ LockKept /\ OvertakenBy /\ FreshOrBare
  BY DEF WorkInv, LockInv
<1>2. StartTypeOK'
  BY <1>1 DEF StartTypeOK, Work, RemoveTask, ownVars
<1>3. /\ stage' = stage /\ startLock' = startLock /\ overtaken' = overtaken /\ resumed' = resumed
  BY DEF Work, RemoveTask, ownVars
<1>4. LockKept' /\ OvertakenBy'
  BY <1>1, <1>3 DEF LockKept, OvertakenBy
<1>5. WorkIsSomewhere'
  <2>1. CASE Work
    BY <1>1, <2>1 DEF Work, WorkIsSomewhere, Canonical
  <2>2. CASE RemoveTask
    BY <2>2 DEF RemoveTask, WorkIsSomewhere
  <2> QED
    BY <2>1, <2>2
<1>6. FreshOrBare'
  <2>1. CASE \A s \in Starts : stage[s] \notin Inside
    BY <1>3, <2>1 DEF FreshOrBare, Inside, Removing
  <2>2. ASSUME NEW s \in Starts, stage[s] \in Inside PROVE FreshOrBare'
    <3>1. \A t \in Starts \ {s} : stage[t] \notin Inside
      BY <1>1, <2>2, AloneInside
    <3>2. startLock # NoStart
      BY <1>1, <2>2 DEF LockKept
    <3>3. reported
      BY <3>2 DEF Work, RemoveTask
    <3>4. /\ stage[s] \notin Removing \cup {"branched", "added", "importing"}
          /\ stage[s] = "admitting" => resumed[s]
      BY <1>1, <3>3 DEF FreshOrBare, Bare
    <3> QED
      BY <1>3, <3>1, <3>4 DEF FreshOrBare, Inside, Removing
  <2> QED
    BY <2>1, <2>2
<1> QED
  BY <1>2, <1>4, <1>5, <1>6 DEF WorkInv, LockInv

\* No start takes work away, whatever it recovers or takes back.
THEOREM WorkIsKept == StartSpec => StartsKeepWork
<1>1. StartInit => WorkInv
  <2> SUFFICES ASSUME StartInit PROVE WorkInv
    OBVIOUS
  <2>1. StartTypeOK
    BY Transactions DEF StartInit, StartTypeOK, Stage
  <2> QED
    BY <2>1 DEF StartInit, WorkInv, LockInv, LockKept, OvertakenBy, WorkIsSomewhere, FreshOrBare, Inside, Removing
<1>2. WorkInv /\ [StartNext]_startVars => WorkInv'
  <2> SUFFICES ASSUME WorkInv, [StartNext]_startVars PROVE WorkInv'
    OBVIOUS
  <2>1. CASE UNCHANGED startVars
    BY <2>1 DEF WorkInv, LockInv, StartTypeOK, LockKept, OvertakenBy, WorkIsSomewhere, FreshOrBare, Bare,
                Canonical, startVars, ownVars
  <2>2. ASSUME NEW s \in Starts, StartStep(s) PROVE WorkInv'
    <3>1. LockInv
      BY DEF WorkInv
    <3> QED
      BY <2>2, <3>1, StartStepTypes, LockStays, WorkSomewhereStays, FreshStays DEF WorkInv, LockInv
  <2> QED
    BY <2>1, <2>2, WorkOfOthers DEF StartNext
<1>3. WorkInv /\ [StartNext]_startVars => [(\E s \in Starts : StartStep(s)) => work \subseteq work']_startVars
  BY WorkKept
<1> QED
  BY <1>1, <1>2, <1>3, PTL DEF StartSpec, StartsKeepWork
=============================================================================

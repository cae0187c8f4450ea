------------------------------ MODULE MachinePool ------------------------------
(***************************************************************************)
(* The machine-wide validation pool of template/scripts/machine_pool.py.   *)
(*                                                                         *)
(* Several runs on one host share Tokens slot files.  A run queues a       *)
(* ticket file it keeps locked, polls until its ticket is the head of the  *)
(* queue, and then takes Weight[r] slot locks, all or nothing.  Every lock *)
(* is a kernel flock: it belongs to an open file, so a killed process      *)
(* gives up what it held, and a child that inherited the slot descriptors  *)
(* keeps the slots after its parent is gone.                               *)
(*                                                                         *)
(* One action is one system call or one decision between two of them, for  *)
(* that is where another process, a kill or a stop can come in.  A run     *)
(* goes through the pool once; a second acquisition is another run.        *)
(***************************************************************************)
EXTENDS Naturals, FiniteSets

CONSTANTS
    Runs,           \* the runs that want tokens
    NoRun,          \* "nobody holds this lock"
    Tokens,         \* config.tokens
    Weight,         \* the weight each run asks for
    Bounded,        \* the runs that cap their weight at Tokens
    Rank,           \* CLASS_RANKS: 0 for finalize, 1 for development
    MaxAttempts,    \* _TICKET_ATTEMPTS
    MaxStopped      \* how many runs may be suspended (a bound of the model)

ASSUME PoolAssumption ==
    /\ NoRun \notin Runs
    /\ Tokens \in Nat \ {0}
    /\ Weight \in [Runs -> Nat \ {0}]
    /\ Bounded \subseteq Runs
    /\ Rank \in [Runs -> Nat]
    /\ MaxAttempts \in Nat \ {0}
    /\ MaxStopped \in Nat

VARIABLES
    pc,          \* where each run is
    files,       \* the ticket files of the queue directory
    fresh,       \* the number (arrival time and nonce) of the next ticket name
    ticket,      \* the ticket file each run has open
    attempts,    \* ticket names a run has tried
    tries,       \* how a run has waited so far: "none", "queued", "polled"
    admission,   \* the run that holds admission.lock
    todo,        \* the listed tickets a scan has not looked at yet
    ahead,       \* the scan met a live ticket that goes first
    sweep,       \* the dead ticket a scan has locked and is about to unlink
    slot,        \* the lease each slot file is locked by
    index,       \* the slot _try_take_slots looks at next
    child,       \* a child of the run has the slot descriptors open
    expired,     \* the run's wait deadline has passed
    stopped,     \* the runs suspended by a signal
    lookTicket,  \* the tickets under a reader's shared lock
    lookSlot     \* the slots under a reader's shared lock

queueVars == <<files, fresh, ticket, sweep>>
waitVars  == <<tries, attempts, expired>>
scanVars  == <<todo, ahead>>
slotVars  == <<slot, index, child>>
envVars   == <<stopped, lookTicket, lookSlot>>
vars == <<pc, admission, queueVars, waitVars, scanVars, slotVars, envVars>>

Slots == 0 .. Tokens - 1
Names == Nat \X (Nat \ {0})     \* <<class rank, arrival>>
NoTicket == <<0, 0>>

\* The order of the queue: the class rank, then the arrival.
Before(m, n) == m[1] < n[1] \/ (m[1] = n[1] /\ m[2] < n[2])

\* The tokens a run really takes: a bounded run is capped at the pool size.
LeaseWeight(r) == IF r \in Bounded /\ Weight[r] > Tokens THEN Tokens ELSE Weight[r]

Joining == {"queueing", "creating", "locking"}
Polling == {"poll", "scan", "rescan", "take", "wait"}
Queued  == Polling \cup {"granted"}
Ended   == {"failed", "done", "dead"}
Places  == {"idle", "running"} \cup Joining \cup Queued \cup Ended

SlotsOf(r) == {s \in Slots : slot[s] = r}

\* Somebody works under the lease of r: the run itself or a child of it.
Working(r) == pc[r] \in {"granted", "running"} \/ child[r]

\* A ticket file is locked: by the run that queued it, by a sweeper or by a reader.
HeldBy(r, n)  == pc[r] \in Queued /\ ticket[r] = n
LockedFor(n, r) ==
    \/ \E q \in Runs \ {r} : HeldBy(q, n) \/ sweep[q] = n
    \/ n \in lookTicket

TypeOK ==
    /\ pc \in [Runs -> Places]
    /\ files \subseteq Names
    /\ fresh \in Nat \ {0}
    /\ ticket \in [Runs -> Names \cup {NoTicket}]
    /\ attempts \in [Runs -> 0 .. MaxAttempts]
    /\ tries \in [Runs -> {"none", "queued", "polled"}]
    /\ admission \in Runs \cup {NoRun}
    /\ todo \in [Runs -> SUBSET Names]
    /\ ahead \in [Runs -> BOOLEAN]
    /\ sweep \in [Runs -> Names \cup {NoTicket}]
    /\ slot \in [Slots -> Runs \cup {NoRun}]
    /\ index \in [Runs -> 0 .. Tokens]
    /\ child \in [Runs -> BOOLEAN]
    /\ expired \in [Runs -> BOOLEAN]
    /\ stopped \subseteq Runs
    /\ lookTicket \subseteq Names
    /\ lookSlot \subseteq Slots

Init ==
    /\ pc = [r \in Runs |-> "idle"]
    /\ files = {}
    /\ fresh = 1
    /\ ticket = [r \in Runs |-> NoTicket]
    /\ attempts = [r \in Runs |-> 0]
    /\ tries = [r \in Runs |-> "none"]
    /\ admission = NoRun
    /\ todo = [r \in Runs |-> {}]
    /\ ahead = [r \in Runs |-> FALSE]
    /\ sweep = [r \in Runs |-> NoTicket]
    /\ slot = [s \in Slots |-> NoRun]
    /\ index = [r \in Runs |-> 0]
    /\ child = [r \in Runs |-> FALSE]
    /\ expired = [r \in Runs |-> FALSE]
    /\ stopped = {}
    /\ lookTicket = {}
    /\ lookSlot = {}

Goto(r, place) == pc' = [pc EXCEPT ![r] = place]

\* The finally of _acquire: unlink the ticket, close its descriptor.
ReleaseTicket(r) ==
    /\ files' = files \ {ticket[r]}
    /\ ticket' = [ticket EXCEPT ![r] = NoTicket]
    /\ UNCHANGED <<fresh, sweep>>

\* The admission lock is free.
NoAdmissionLock == TRUE
AdmissionFree == admission = NoRun

\* A run looks at its deadline after a failed try for the lock, and after the sleep.
BlockedToJoin(r) == expired[r] /\ tries[r] = "queued" /\ AdmissionFree
LateToJoin(r) == expired[r] /\ (tries[r] = "queued" \/ ~AdmissionFree)

OneNameMore(r) == attempts[r] <= MaxAttempts
NamesLeft(r) == attempts[r] < MaxAttempts

\* The locked file is still the one of that name: a sweep has not unlinked it.
NoInodeCheck(r) == TRUE
SameFile(r) == ticket[r] \in files

\* With the slot it takes now, the run has all it needs.
OneSlotLate(r) == Cardinality(SlotsOf(r)) = LeaseWeight(r)
LastSlot(r) == Cardinality(SlotsOf(r)) + 1 = LeaseWeight(r)

\* What a run remembers of its waiting and of a scan matters no more once it is over.
StopWaiting(r) ==
    /\ tries' = [tries EXCEPT ![r] = "none"]
    /\ attempts' = [attempts EXCEPT ![r] = 0]
    /\ expired' = [expired EXCEPT ![r] = FALSE]

DropScan(r) ==
    /\ todo' = [todo EXCEPT ![r] = {}]
    /\ ahead' = [ahead EXCEPT ![r] = FALSE]

FreeSlots(r) == slot' = [s \in Slots |-> IF slot[s] = r THEN NoRun ELSE slot[s]]

\* The kernel frees a slot when the last descriptor of it is closed.
CloseAlone(r, shared) == FreeSlots(r)
CloseSlots(r, shared) == IF shared THEN UNCHANGED slot ELSE FreeSlots(r)

-----------------------------------------------------------------------------
(* Queueing a ticket, under the admission lock. *)

\* lease(): an unbounded weight above the pool is refused before anything is queued.
Enter(r) ==
    /\ pc[r] = "idle"
    /\ Goto(r, IF LeaseWeight(r) > Tokens THEN "failed" ELSE "queueing")
    /\ UNCHANGED <<admission, queueVars, waitVars, scanVars, slotVars, envVars>>

JoinLocked(r) ==
    /\ pc[r] = "queueing"
    /\ ~(tries[r] = "queued" /\ expired[r])
    /\ AdmissionFree
    /\ admission' = r
    /\ Goto(r, "creating")
    /\ UNCHANGED <<queueVars, waitVars, scanVars, slotVars, envVars>>

\* The admission lock is tried, never waited on: a busy one costs one sleep.
JoinBusy(r) ==
    /\ pc[r] = "queueing"
    /\ ~expired[r]
    /\ ~AdmissionFree
    /\ tries' = [tries EXCEPT ![r] = "queued"]
    /\ UNCHANGED <<pc, admission, queueVars, scanVars, slotVars, envVars, attempts, expired>>

JoinTimeout(r) ==
    /\ pc[r] = "queueing"
    /\ LateToJoin(r)
    /\ Goto(r, "failed")
    /\ StopWaiting(r)
    /\ UNCHANGED <<admission, queueVars, scanVars, slotVars, envVars>>

\* The file exists before its creator has locked it: a scan can take it for a dead one.
CreateTicket(r) ==
    /\ pc[r] = "creating"
    /\ NamesLeft(r)
    /\ files' = files \cup {<<Rank[r], fresh>>}
    /\ ticket' = [ticket EXCEPT ![r] = <<Rank[r], fresh>>]
    /\ fresh' = fresh + 1
    /\ attempts' = [attempts EXCEPT ![r] = @ + 1]
    /\ Goto(r, "locking")
    /\ UNCHANGED <<admission, scanVars, slotVars, envVars, sweep, tries, expired>>

\* Somebody holds the fresh file, or has swept it: close it, take another name.
LoseTicket(r) ==
    /\ pc[r] = "locking"
    /\ LockedFor(ticket[r], r) \/ ~SameFile(r)
    /\ ticket' = [ticket EXCEPT ![r] = NoTicket]
    /\ Goto(r, "creating")
    /\ UNCHANGED <<admission, waitVars, scanVars, slotVars, envVars, files, fresh, sweep>>

\* Locked and still the file of that name: the run is queued.
LockTicket(r) ==
    /\ pc[r] = "locking"
    /\ ~LockedFor(ticket[r], r) /\ SameFile(r)
    /\ admission' = NoRun
    /\ Goto(r, "poll")
    /\ attempts' = [attempts EXCEPT ![r] = 0]
    /\ UNCHANGED <<queueVars, scanVars, slotVars, envVars, tries, expired>>

NoNameLeft(r) ==
    /\ pc[r] = "creating"
    /\ ~NamesLeft(r)
    /\ admission' = NoRun
    /\ Goto(r, "failed")
    /\ StopWaiting(r)
    /\ UNCHANGED <<queueVars, scanVars, slotVars, envVars>>

-----------------------------------------------------------------------------
(* Polling: scan the queue, sweep dead tickets, decide. *)

\* A poll that follows a sleep fails first if the deadline passed meanwhile; a run
\* whose own ticket is not listed any more fails too.
StartPoll(r) ==
    /\ pc[r] = "poll"
    /\ ~(tries[r] # "none" /\ expired[r])
    /\ IF ticket[r] \in files
       THEN /\ Goto(r, "scan")
            /\ todo' = [todo EXCEPT ![r] = files \ {ticket[r]}]
            /\ UNCHANGED <<queueVars, waitVars, ahead>>
       ELSE Goto(r, "failed") /\ ReleaseTicket(r) /\ StopWaiting(r) /\ UNCHANGED scanVars
    /\ UNCHANGED <<admission, slotVars, envVars>>

PollTimeout(r) ==
    /\ pc[r] = "poll"
    /\ tries[r] # "none" /\ expired[r]
    /\ ReleaseTicket(r)
    /\ Goto(r, "failed")
    /\ StopWaiting(r)
    /\ UNCHANGED <<admission, scanVars, slotVars, envVars>>

Scanning(r) == pc[r] \in {"scan", "rescan"} /\ sweep[r] = NoTicket
IsNext(r, n) == n \in todo[r] /\ \A m \in todo[r] : ~Before(m, n)
Scanned(r, place) == pc[r] = place /\ sweep[r] = NoTicket /\ todo[r] = {}

\* The ticket was unlinked after the directory was listed.
ScanGone(r, n) ==
    /\ Scanning(r) /\ IsNext(r, n)
    /\ n \notin files
    /\ todo' = [todo EXCEPT ![r] = @ \ {n}]
    /\ UNCHANGED <<pc, admission, queueVars, waitVars, slotVars, envVars, ahead>>

ScanLive(r, n) ==
    /\ Scanning(r) /\ IsNext(r, n)
    /\ n \in files /\ LockedFor(n, r)
    /\ todo' = [todo EXCEPT ![r] = @ \ {n}]
    /\ ahead' = [ahead EXCEPT ![r] = @ \/ Before(n, ticket[r])]
    /\ UNCHANGED <<pc, admission, queueVars, waitVars, slotVars, envVars>>

\* Nobody holds the ticket: take its lock, the licence to unlink it.
ScanDead(r, n) ==
    /\ Scanning(r) /\ IsNext(r, n)
    /\ n \in files /\ ~LockedFor(n, r)
    /\ sweep' = [sweep EXCEPT ![r] = n]
    /\ UNCHANGED <<pc, admission, waitVars, scanVars, slotVars, envVars, files, fresh, ticket>>

Sweep(r) ==
    /\ sweep[r] # NoTicket
    /\ files' = files \ {sweep[r]}
    /\ todo' = [todo EXCEPT ![r] = @ \ {sweep[r]}]
    /\ sweep' = [sweep EXCEPT ![r] = NoTicket]
    /\ UNCHANGED <<pc, admission, waitVars, slotVars, envVars, fresh, ticket, ahead>>

NotHead(r) ==
    /\ Scanned(r, "scan") /\ ahead[r]
    /\ Goto(r, "wait")
    /\ DropScan(r)
    /\ UNCHANGED <<admission, queueVars, waitVars, slotVars, envVars>>

\* Load, memory or memory pressure do not admit the head now.
MachineBusy(r) ==
    /\ Scanned(r, "scan") /\ ~ahead[r]
    /\ Goto(r, "wait")
    /\ UNCHANGED <<admission, queueVars, waitVars, scanVars, slotVars, envVars>>

\* A value that cannot be measured fails the run: on its first pass, or as the head.
MeasureFails(r) ==
    /\ Scanned(r, "scan")
    /\ tries[r] # "polled" \/ ~ahead[r]
    /\ ReleaseTicket(r)
    /\ Goto(r, "failed")
    /\ StopWaiting(r) /\ DropScan(r)
    /\ UNCHANGED <<admission, slotVars, envVars>>

AdmissionBusy(r) ==
    /\ Scanned(r, "scan") /\ ~ahead[r]
    /\ ~AdmissionFree
    /\ Goto(r, "wait")
    /\ UNCHANGED <<admission, queueVars, waitVars, scanVars, slotVars, envVars>>

\* The head re-reads the queue under the admission lock, which no ticket joins meanwhile.
StartAdmission(r) ==
    /\ Scanned(r, "scan") /\ ~ahead[r]
    /\ AdmissionFree
    /\ admission' = r
    /\ todo' = [todo EXCEPT ![r] = files \ {ticket[r]}]
    /\ ahead' = [ahead EXCEPT ![r] = FALSE]
    /\ Goto(r, "rescan")
    /\ UNCHANGED <<queueVars, waitVars, slotVars, envVars>>

Overtaken(r) ==
    /\ Scanned(r, "rescan") /\ ahead[r]
    /\ admission' = NoRun
    /\ Goto(r, "wait")
    /\ DropScan(r)
    /\ UNCHANGED <<queueVars, waitVars, slotVars, envVars>>

StartTake(r) ==
    /\ Scanned(r, "rescan") /\ ~ahead[r]
    /\ Goto(r, "take")
    /\ UNCHANGED <<admission, queueVars, waitVars, scanVars, slotVars, envVars>>

WaitTimeout(r) ==
    /\ pc[r] = "wait"
    /\ expired[r]
    /\ ReleaseTicket(r)
    /\ Goto(r, "failed")
    /\ StopWaiting(r)
    /\ UNCHANGED <<admission, scanVars, slotVars, envVars>>

Sleep(r) ==
    /\ pc[r] = "wait"
    /\ ~expired[r]
    /\ tries' = [tries EXCEPT ![r] = "polled"]
    /\ Goto(r, "poll")
    /\ UNCHANGED <<admission, queueVars, scanVars, slotVars, envVars, attempts, expired>>

-----------------------------------------------------------------------------
(* Taking slots, all or nothing, and holding the lease. *)

TakeSlot(r) ==
    /\ pc[r] = "take" /\ index[r] < Tokens
    /\ slot[index[r]] = NoRun /\ index[r] \notin lookSlot
    /\ slot' = [slot EXCEPT ![index[r]] = r]
    /\ IF LastSlot(r)
       THEN Goto(r, "granted") /\ admission' = NoRun /\ index' = [index EXCEPT ![r] = 0]
       ELSE index' = [index EXCEPT ![r] = @ + 1] /\ UNCHANGED <<pc, admission>>
    /\ UNCHANGED <<queueVars, waitVars, scanVars, envVars, child>>

SkipSlot(r) ==
    /\ pc[r] = "take" /\ index[r] < Tokens
    /\ slot[index[r]] # NoRun \/ index[r] \in lookSlot
    /\ index' = [index EXCEPT ![r] = @ + 1]
    /\ UNCHANGED <<pc, admission, queueVars, waitVars, scanVars, envVars, slot, child>>

TooFewFree(r) ==
    /\ pc[r] = "take" /\ index[r] = Tokens
    /\ FreeSlots(r)
    /\ admission' = NoRun
    /\ Goto(r, "wait")
    /\ index' = [index EXCEPT ![r] = 0]
    /\ UNCHANGED <<queueVars, waitVars, scanVars, envVars, child>>

\* The holder metadata is written, then the ticket leaves the queue.
Grant(r) ==
    /\ pc[r] = "granted"
    /\ ReleaseTicket(r)
    /\ Goto(r, "running")
    /\ StopWaiting(r)
    /\ UNCHANGED <<admission, scanVars, slotVars, envVars>>

GrantFails(r) ==
    /\ pc[r] = "granted"
    /\ ReleaseTicket(r)
    /\ FreeSlots(r)
    /\ Goto(r, "failed")
    /\ StopWaiting(r)
    /\ UNCHANGED <<admission, scanVars, envVars, index, child>>

\* A child gets the slot descriptors (pass_fds) and reuses the lease it finds exported.
Spawn(r) ==
    /\ pc[r] = "running"
    /\ ~child[r]
    /\ child' = [child EXCEPT ![r] = TRUE]
    /\ UNCHANGED <<pc, admission, queueVars, waitVars, scanVars, envVars, slot, index>>

\* The end of the with body closes the descriptors of the parent.
Leave(r) ==
    /\ pc[r] = "running"
    /\ CloseSlots(r, child[r])
    /\ Goto(r, "done")
    /\ UNCHANGED <<admission, queueVars, waitVars, scanVars, envVars, index, child>>

ChildExit(r) ==
    /\ child[r]
    /\ child' = [child EXCEPT ![r] = FALSE]
    /\ CloseSlots(r, pc[r] = "running")
    /\ UNCHANGED <<pc, admission, queueVars, waitVars, scanVars, envVars, index>>

-----------------------------------------------------------------------------
(* The environment: kills, suspensions, the clock and readers. *)

\* SIGKILL: the kernel closes every descriptor of the run; its ticket file stays.
Kill(r) ==
    /\ pc[r] \notin {"idle"} \cup Ended
    /\ ticket' = [ticket EXCEPT ![r] = NoTicket]
    /\ sweep' = [sweep EXCEPT ![r] = NoTicket]
    /\ admission' = IF admission = r THEN NoRun ELSE admission
    /\ CloseSlots(r, child[r])
    /\ Goto(r, "dead")
    /\ StopWaiting(r) /\ DropScan(r)
    /\ index' = [index EXCEPT ![r] = 0]
    /\ UNCHANGED <<files, fresh, child, envVars>>

Stop(r) ==
    /\ r \notin stopped
    /\ Cardinality(stopped) < MaxStopped
    /\ pc[r] \notin {"idle"} \cup Ended
    /\ stopped' = stopped \cup {r}
    /\ UNCHANGED <<pc, admission, queueVars, waitVars, scanVars, slotVars, lookTicket, lookSlot>>

Expire(r) ==
    /\ pc[r] \in Joining \cup Polling
    /\ ~expired[r]
    /\ expired' = [expired EXCEPT ![r] = TRUE]
    /\ UNCHANGED <<pc, admission, queueVars, scanVars, slotVars, envVars, tries, attempts>>

\* read_holders and `status` test a lock by taking it shared for a moment.
LookAtTicket(n) ==
    /\ lookTicket = {} /\ lookSlot = {}
    /\ n \in files /\ \A r \in Runs : ~HeldBy(r, n) /\ sweep[r] # n
    /\ lookTicket' = {n}
    /\ UNCHANGED <<pc, admission, queueVars, waitVars, scanVars, slotVars, stopped, lookSlot>>

LookAtSlot(s) ==
    /\ lookTicket = {} /\ lookSlot = {}
    /\ slot[s] = NoRun
    /\ lookSlot' = {s}
    /\ UNCHANGED <<pc, admission, queueVars, waitVars, scanVars, slotVars, stopped, lookTicket>>

LookAway ==
    /\ lookTicket # {} \/ lookSlot # {}
    /\ lookTicket' = {} /\ lookSlot' = {}
    /\ UNCHANGED <<pc, admission, queueVars, waitVars, scanVars, slotVars, stopped>>

-----------------------------------------------------------------------------

Join(r) ==
    \/ Enter(r) \/ JoinLocked(r) \/ JoinBusy(r) \/ JoinTimeout(r)
    \/ CreateTicket(r) \/ LoseTicket(r) \/ LockTicket(r) \/ NoNameLeft(r)

Poll(r) ==
    \/ StartPoll(r) \/ PollTimeout(r) \/ Sweep(r)
    \/ \E n \in todo[r] : ScanGone(r, n) \/ ScanLive(r, n) \/ ScanDead(r, n)
    \/ NotHead(r) \/ MachineBusy(r) \/ MeasureFails(r) \/ AdmissionBusy(r)
    \/ StartAdmission(r) \/ Overtaken(r) \/ StartTake(r)
    \/ WaitTimeout(r) \/ Sleep(r)

Hold(r) ==
    \/ TakeSlot(r) \/ SkipSlot(r) \/ TooFewFree(r)
    \/ Grant(r) \/ GrantFails(r) \/ Spawn(r) \/ Leave(r)

\* What a run does by itself; a suspended one does nothing.
RunStep(r) == r \notin stopped /\ (Join(r) \/ Poll(r) \/ Hold(r))

Next ==
    \/ \E r \in Runs : RunStep(r) \/ ChildExit(r) \/ Kill(r) \/ Stop(r) \/ Expire(r)
    \/ \E n \in files : LookAtTicket(n)
    \/ \E s \in Slots : LookAtSlot(s)
    \/ LookAway

Spec == Init /\ [][Next]_vars

\* A run that is not suspended goes on, and its deadline comes.
FairSpec == Spec /\ \A r \in Runs : WF_vars(RunStep(r)) /\ WF_vars(Expire(r))

-----------------------------------------------------------------------------
(* Properties. *)

\* A queued run never loses its ticket to a sweep: between the creation of the file
\* and its lock a scan may take it for the ticket of a dead run, and then the run must
\* not go on with it (_create_ticket_unlocked compares the inodes).
TicketKept ==
    \A r \in Runs : pc[r] \in Queued =>
        ticket[r] \in files /\ \A q \in Runs : sweep[q] # ticket[r]

\* A run takes slots only as the head of the queue: no run with an earlier ticket is
\* queued meanwhile, one that joined after the last poll included (_admit_if_head).
HeadOnly ==
    \A r, q \in Runs :
        pc[r] = "take" /\ pc[q] \in Queued => ~Before(ticket[q], ticket[r])

\* All or nothing, and for as long as somebody works: a run or its surviving child has
\* every token of the lease, and a run that waits, failed or died without a child has none.
TokensCovered ==
    \A r \in Runs :
        /\ Working(r) => Cardinality(SlotsOf(r)) = LeaseWeight(r)
        /\ ~Working(r) /\ pc[r] # "take" => SlotsOf(r) = {}

\* Who holds which token under a complete lease.
Leased == [s \in Slots |-> IF slot[s] \in Runs /\ Working(slot[s]) THEN slot[s] ELSE NoRun]

TokenSets(r) == {S \in SUBSET Slots : Cardinality(S) = LeaseWeight(r)}

Pool == INSTANCE TokenPool WITH Leases <- TokenSets, owner <- Leased

\* The pool implements TokenPool: a slot that a run has locked counts as leased from the
\* moment the run has all of them, and until the last of its processes lets go.
LeasesAreAtomic == Pool!Spec

\* The admission lock is never waited on (_admission): whoever is killed or suspended
\* while it holds a lock or a place in the queue, every other run that waits gets its
\* tokens or fails at its own deadline.
WaitEnds ==
    \A r \in Runs :
        pc[r] \in Joining \cup Polling ~> pc[r] \notin Joining \cup Polling \/ r \in stopped

=============================================================================

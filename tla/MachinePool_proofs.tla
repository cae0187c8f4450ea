--------------------------- MODULE MachinePool_proofs ---------------------------
(***************************************************************************)
(* Proofs about MachinePool, for every set of runs, number of tokens and   *)
(* choice of weights and ranks.                                            *)
(***************************************************************************)
EXTENDS MachinePool, FiniteSetTheorems, TLAPS

-----------------------------------------------------------------------------
(* Type correctness. *)

\* A run that joins the queue keeps the types.
LEMMA JoinType == ASSUME TypeOK, NEW r \in Runs, Join(r) PROVE TypeOK'
<1> USE PoolAssumption DEF TypeOK, Places, Joining, Queued, Polling, Ended, Goto,
        envVars, waitVars, scanVars, slotVars, queueVars
<1>1. CASE Enter(r)        BY <1>1 DEF Enter
<1>2. CASE JoinLocked(r)   BY <1>2 DEF JoinLocked
<1>3. CASE JoinBusy(r)     BY <1>3 DEF JoinBusy
<1>4. CASE JoinTimeout(r)  BY <1>4 DEF JoinTimeout, StopWaiting
<1>5. CASE CreateTicket(r) BY <1>5 DEF CreateTicket, NamesLeft, Names
<1>6. CASE LoseTicket(r)   BY <1>6 DEF LoseTicket
<1>7. CASE LockTicket(r)   BY <1>7 DEF LockTicket
<1>8. CASE NoNameLeft(r)   BY <1>8 DEF NoNameLeft, StopWaiting
<1>9. QED BY <1>1, <1>2, <1>3, <1>4, <1>5, <1>6, <1>7, <1>8 DEF Join

\* So does a run that polls,
LEMMA PollType == ASSUME TypeOK, NEW r \in Runs, Poll(r) PROVE TypeOK'
<1> USE PoolAssumption DEF TypeOK, Places, Joining, Queued, Polling, Ended, Goto,
        envVars, waitVars, scanVars, slotVars, queueVars
<1>1. CASE StartPoll(r)
    <2>1. CASE ticket[r] \in files BY <1>1, <2>1 DEF StartPoll
    <2>2. CASE ticket[r] \notin files
        <3>1. ReleaseTicket(r) /\ StopWaiting(r) /\ pc' = [pc EXCEPT ![r] = "failed"]
            BY <1>1, <2>2 DEF StartPoll
        <3>2. UNCHANGED <<todo, ahead, admission, slot, index, child, stopped, lookTicket, lookSlot>>
            BY <1>1, <2>2 DEF StartPoll
        <3>3. QED BY <3>1, <3>2 DEF ReleaseTicket, StopWaiting
    <2>3. QED BY <2>1, <2>2
<1>2. CASE PollTimeout(r) BY <1>2 DEF PollTimeout, ReleaseTicket, StopWaiting
<1>3. CASE Sweep(r)       BY <1>3 DEF Sweep
<1>4. ASSUME NEW n \in todo[r], ScanGone(r, n) \/ ScanLive(r, n) \/ ScanDead(r, n) PROVE TypeOK'
    <2>1. CASE ScanGone(r, n) BY <2>1 DEF ScanGone
    <2>2. CASE ScanLive(r, n) BY <2>2 DEF ScanLive, Before
    <2>3. CASE ScanDead(r, n) BY <2>3 DEF ScanDead
    <2>4. QED BY <1>4, <2>1, <2>2, <2>3
<1>5. CASE NotHead(r)        BY <1>5 DEF NotHead, DropScan
<1>6. CASE MachineBusy(r)    BY <1>6 DEF MachineBusy
<1>7. CASE MeasureFails(r)   BY <1>7 DEF MeasureFails, ReleaseTicket, StopWaiting, DropScan
<1>8. CASE AdmissionBusy(r)  BY <1>8 DEF AdmissionBusy
<1>9. CASE StartAdmission(r) BY <1>9 DEF StartAdmission
<1>10. CASE Overtaken(r)     BY <1>10 DEF Overtaken, DropScan
<1>11. CASE StartTake(r)     BY <1>11 DEF StartTake
<1>12. CASE WaitTimeout(r)   BY <1>12 DEF WaitTimeout, ReleaseTicket, StopWaiting
<1>13. CASE Sleep(r)         BY <1>13 DEF Sleep
<1>14. QED BY <1>1, <1>2, <1>3, <1>4, <1>5, <1>6, <1>7, <1>8, <1>9, <1>10, <1>11, <1>12, <1>13 DEF Poll

\* one that works under its lease,
LEMMA HoldType == ASSUME TypeOK, NEW r \in Runs, Hold(r) PROVE TypeOK'
<1> USE PoolAssumption DEF TypeOK, Places, Joining, Queued, Polling, Ended, Goto,
        envVars, waitVars, scanVars, slotVars, queueVars
<1>1. CASE TakeSlot(r)
    <2>1. index[r] + 1 \in 0 .. Tokens
        BY <1>1 DEF TakeSlot
    <2>2. slot' = [slot EXCEPT ![index[r]] = r]
        BY <1>1 DEF TakeSlot
    <2>3. UNCHANGED <<queueVars, waitVars, scanVars, envVars, child>>
        BY <1>1 DEF TakeSlot
    <2>4. /\ pc' \in [Runs -> Places]
          /\ admission' \in Runs \cup {NoRun}
          /\ index' \in [Runs -> 0 .. Tokens]
        <3>1. CASE LastSlot(r)  BY <1>1, <3>1 DEF TakeSlot
        <3>2. CASE ~LastSlot(r) BY <1>1, <2>1, <3>2 DEF TakeSlot
        <3>3. QED BY <3>1, <3>2
    <2>5. QED BY <2>2, <2>3, <2>4
<1>2. CASE SkipSlot(r)   BY <1>2 DEF SkipSlot
<1>3. CASE TooFewFree(r) BY <1>3 DEF TooFewFree, FreeSlots
<1>4. CASE Grant(r)      BY <1>4 DEF Grant, ReleaseTicket, StopWaiting
<1>5. CASE GrantFails(r) BY <1>5 DEF GrantFails, ReleaseTicket, StopWaiting, FreeSlots
<1>6. CASE Spawn(r)      BY <1>6 DEF Spawn
<1>7. CASE Leave(r)      BY <1>7 DEF Leave, CloseSlots, FreeSlots
<1>8. QED BY <1>1, <1>2, <1>3, <1>4, <1>5, <1>6, <1>7 DEF Hold

\* and everything from outside.
LEMMA EnvironmentType ==
    ASSUME TypeOK,
           \/ \E r \in Runs : ChildExit(r) \/ Kill(r) \/ Stop(r) \/ Expire(r)
           \/ \E n \in files : LookAtTicket(n)
           \/ \E s \in Slots : LookAtSlot(s)
           \/ LookAway
    PROVE  TypeOK'
<1> USE PoolAssumption DEF TypeOK, Places, Joining, Queued, Polling, Ended, Goto,
        envVars, waitVars, scanVars, slotVars, queueVars
<1>1. ASSUME NEW r \in Runs, ChildExit(r) PROVE TypeOK' BY <1>1 DEF ChildExit, CloseSlots, FreeSlots
<1>2. ASSUME NEW r \in Runs, Kill(r) PROVE TypeOK'
    BY <1>2 DEF Kill, CloseSlots, FreeSlots, StopWaiting, DropScan
<1>3. ASSUME NEW r \in Runs, Stop(r) PROVE TypeOK' BY <1>3 DEF Stop
<1>4. ASSUME NEW r \in Runs, Expire(r) PROVE TypeOK' BY <1>4 DEF Expire
<1>5. ASSUME NEW n \in files, LookAtTicket(n) PROVE TypeOK' BY <1>5 DEF LookAtTicket
<1>6. ASSUME NEW s \in Slots, LookAtSlot(s) PROVE TypeOK' BY <1>6 DEF LookAtSlot
<1>7. CASE LookAway BY <1>7 DEF LookAway
<1>8. QED BY <1>1, <1>2, <1>3, <1>4, <1>5, <1>6, <1>7

\* Every variable keeps its type, whatever runs do, die or are suspended.
THEOREM TypeCorrect == Spec => []TypeOK
<1>1. Init => TypeOK
    BY PoolAssumption DEF Init, TypeOK, Places
<1>2. TypeOK /\ [Next]_vars => TypeOK'
    <2> SUFFICES ASSUME TypeOK, [Next]_vars PROVE TypeOK' OBVIOUS
    <2>1. CASE Next
        BY <2>1, JoinType, PollType, HoldType, EnvironmentType DEF Next, RunStep
    <2>2. CASE UNCHANGED vars
        BY <2>2 DEF vars, queueVars, waitVars, scanVars, slotVars, envVars, TypeOK
    <2>3. QED BY <2>1, <2>2
<1>3. QED BY <1>1, <1>2, PTL DEF Spec

-----------------------------------------------------------------------------
(* The queue and its admission lock. *)

Listed == Queued \cup {"locking"}     \* the run has a ticket file open
Admitting == {"creating", "locking", "rescan", "take"}

\* A ticket name is used once: every name in use is older than the next one, and two
\* runs never have the same file open.
NamesFresh ==
    /\ \A n \in files : n[2] < fresh
    /\ \A r \in Runs : pc[r] \in Listed => ticket[r] \in Names /\ ticket[r][2] < fresh
    /\ \A r, q \in Runs : pc[r] \in Listed /\ pc[q] \in Listed /\ r # q => ticket[r] # ticket[q]

\* A run sweeps only while it scans, and never scans its own ticket.
SweepWhileScanning ==
    \A r \in Runs :
        /\ sweep[r] # NoTicket => pc[r] \in {"scan", "rescan"}
        /\ pc[r] \in {"scan", "rescan"} => ticket[r] \notin todo[r]

\* The lock covers the creation of a ticket and the admission of the head.
LockHeld == \A r \in Runs : pc[r] \in Admitting => admission = r

\* While the head re-reads the queue, an earlier ticket is still to be looked at or has
\* been seen; when it takes slots nothing is left to look at.
NothingMissed ==
    \A r \in Runs :
        /\ pc[r] \in {"rescan", "take"} =>
              \A q \in Runs : pc[q] \in Queued /\ Before(ticket[q], ticket[r])
                                 => ticket[q] \in todo[r] \/ ahead[r]
        /\ pc[r] = "take" => todo[r] = {} /\ ~ahead[r]

QueueInv == TypeOK /\ NamesFresh /\ TicketKept /\ SweepWhileScanning /\ LockHeld /\ NothingMissed

\* A ticket is not ahead of itself.
LEMMA NotBeforeItself == ASSUME NEW n \in Names PROVE ~Before(n, n)
BY DEF Names, Before

\* The missing ticket is none.
LEMMA NoTicketIsNoName == NoTicket \notin Names
BY DEF NoTicket, Names

\* Joining keeps the tickets of queued runs.
LEMMA JoinQueue == ASSUME QueueInv, NEW r \in Runs, Join(r), TypeOK' PROVE QueueInv'
<1> USE DEF QueueInv, TypeOK, NamesFresh, TicketKept, SweepWhileScanning, LockHeld, NothingMissed,
        Listed, Admitting, Places, Joining, Queued, Polling, Ended, Goto,
        envVars, waitVars, scanVars, slotVars, queueVars
<1>1. CASE Enter(r)        BY <1>1 DEF Enter
<1>2. CASE JoinLocked(r)   BY <1>2, PoolAssumption DEF JoinLocked, AdmissionFree
<1>3. CASE JoinBusy(r)     BY <1>3 DEF JoinBusy
<1>4. CASE JoinTimeout(r)  BY <1>4 DEF JoinTimeout
<1>5. CASE CreateTicket(r)
    <2> DEFINE name == <<Rank[r], fresh>>
    <2>1. name \in Names /\ name[2] = fresh /\ fresh \in Nat /\ fresh' = fresh + 1
        BY <1>5, PoolAssumption DEF CreateTicket, Names
    <2>2. /\ files' = files \cup {name}
          /\ ticket' = [ticket EXCEPT ![r] = name]
          /\ pc' = [pc EXCEPT ![r] = "locking"]
          /\ pc[r] = "creating"
          /\ UNCHANGED <<admission, todo, ahead, sweep>>
        BY <1>5 DEF CreateTicket
    <2> HIDE DEF name
    <2>3. \A n \in Names : n[2] \in Nat
        BY DEF Names
    <2>4. NamesFresh'
        BY <2>1, <2>2, <2>3
    <2>5. TicketKept' /\ SweepWhileScanning' /\ LockHeld'
        BY <2>1, <2>2
    <2>6. NothingMissed'
        BY <2>1, <2>2
    <2>7. QED BY <2>4, <2>5, <2>6
<1>6. CASE LoseTicket(r)   BY <1>6 DEF LoseTicket
<1>7. CASE LockTicket(r)
    <2>1. /\ pc[r] = "locking" /\ pc' = [pc EXCEPT ![r] = "poll"]
          /\ ticket[r] \in files
          /\ UNCHANGED <<files, fresh, ticket, sweep, todo, ahead>>
        BY <1>7 DEF LockTicket, SameFile
    <2>2. \A q \in Runs : sweep[q] # ticket[r]
        BY <1>7, NoTicketIsNoName DEF LockTicket, LockedFor
    <2>3. \A q \in Runs \ {r} : pc[q] \notin Admitting
        BY <2>1
    <2>4. NamesFresh' /\ TicketKept' /\ SweepWhileScanning'
        BY <2>1, <2>2
    <2>5. LockHeld' /\ NothingMissed'
        BY <2>1, <2>3
    <2>6. QED BY <2>4, <2>5
<1>8. CASE NoNameLeft(r)   BY <1>8 DEF NoNameLeft
<1>9. QED BY <1>1, <1>2, <1>3, <1>4, <1>5, <1>6, <1>7, <1>8 DEF Join

\* So does polling, which sweeps the queue,
LEMMA PollQueue == ASSUME QueueInv, NEW r \in Runs, Poll(r), TypeOK' PROVE QueueInv'
<1> USE DEF QueueInv, TypeOK, NamesFresh, TicketKept, SweepWhileScanning, LockHeld, NothingMissed,
        Listed, Admitting, Places, Joining, Queued, Polling, Ended, Goto,
        envVars, waitVars, scanVars, slotVars, queueVars
<1>1. CASE StartPoll(r)
    <2>1. ticket[r] \in files
        BY <1>1 DEF StartPoll
    <2>2. QED BY <1>1, <2>1 DEF StartPoll
<1>2. CASE PollTimeout(r) BY <1>2 DEF PollTimeout, ReleaseTicket
<1>3. CASE Sweep(r)
    <2>1. /\ sweep[r] # NoTicket
          /\ files' = files \ {sweep[r]}
          /\ todo' = [todo EXCEPT ![r] = @ \ {sweep[r]}]
          /\ sweep' = [sweep EXCEPT ![r] = NoTicket]
          /\ UNCHANGED <<pc, fresh, ticket, ahead, admission>>
        BY <1>3 DEF Sweep
    <2>2. NamesFresh' /\ LockHeld'
        BY <2>1
    <2>3. TicketKept'
        BY <2>1, NoTicketIsNoName
    <2>4. SweepWhileScanning'
        BY <2>1
    <2>5. NothingMissed'
        BY <2>1
    <2>6. QED BY <2>2, <2>3, <2>4, <2>5
<1>4. ASSUME NEW n \in todo[r], ScanGone(r, n) PROVE QueueInv'
    BY <1>4 DEF ScanGone, Scanning
<1>5. ASSUME NEW n \in todo[r], ScanLive(r, n) PROVE QueueInv'
    <2>1. /\ pc[r] \in {"scan", "rescan"}
          /\ todo' = [todo EXCEPT ![r] = @ \ {n}]
          /\ ahead' = [ahead EXCEPT ![r] = @ \/ Before(n, ticket[r])]
          /\ UNCHANGED <<pc, admission, files, fresh, ticket, sweep>>
        BY <1>5 DEF ScanLive, Scanning
    <2>2. NamesFresh' /\ LockHeld' /\ TicketKept' /\ SweepWhileScanning'
        BY <2>1
    <2>3. ASSUME NEW q \in Runs, pc[q] \in Queued, Before(ticket[q], ticket[r]), pc[r] = "rescan"
          PROVE  (ticket[q] \in todo[r] \/ ahead[r])'
        <3>1. CASE ticket[q] = n
            <4>1. Before(n, ticket[r])
                BY <2>3, <3>1
            <4>2. ahead' = [ahead EXCEPT ![r] = TRUE]
                BY <2>1, <4>1
            <4>3. QED BY <4>2
        <3>2. CASE ticket[q] # n
            <4>1. ticket[q] \in todo[r] \/ ahead[r]
                BY <2>3
            <4>2. CASE ticket[q] \in todo[r] BY <2>1, <3>2, <4>2
            <4>3. CASE ahead[r] BY <2>1, <4>3
            <4>4. QED BY <4>1, <4>2, <4>3
        <3>3. QED BY <3>1, <3>2
    <2>4. NothingMissed'
        BY <2>1, <2>3
    <2>5. QED BY <2>2, <2>4
<1>6. ASSUME NEW n \in todo[r], ScanDead(r, n) PROVE QueueInv'
    BY <1>6 DEF ScanDead, Scanning, LockedFor, HeldBy
<1>7. CASE NotHead(r)        BY <1>7 DEF NotHead, DropScan, Scanned
<1>8. CASE MachineBusy(r)    BY <1>8 DEF MachineBusy, Scanned
<1>9. CASE MeasureFails(r)   BY <1>9 DEF MeasureFails, ReleaseTicket, DropScan, Scanned
<1>10. CASE AdmissionBusy(r) BY <1>10 DEF AdmissionBusy, Scanned
<1>11. CASE StartAdmission(r)
    <2>1. /\ pc[r] = "scan" /\ sweep[r] = NoTicket /\ admission = NoRun
          /\ admission' = r
          /\ pc' = [pc EXCEPT ![r] = "rescan"]
          /\ todo' = [todo EXCEPT ![r] = files \ {ticket[r]}]
          /\ ahead' = [ahead EXCEPT ![r] = FALSE]
          /\ UNCHANGED <<files, fresh, ticket, sweep>>
        BY <1>11 DEF StartAdmission, Scanned, AdmissionFree
    <2>2. NamesFresh' /\ TicketKept' /\ SweepWhileScanning'
        BY <2>1
    <2>3. LockHeld'
        BY <2>1, PoolAssumption
    <2>4. ASSUME NEW q \in Runs, pc[q] \in Queued, Before(ticket[q], ticket[r])
          PROVE  ticket[q] \in files \ {ticket[r]}
        BY <2>1, <2>4, NotBeforeItself
    <2>5. NothingMissed'
        BY <2>1, <2>4, PoolAssumption
    <2>6. QED BY <2>2, <2>3, <2>5
<1>12. CASE Overtaken(r)     BY <1>12 DEF Overtaken, DropScan, Scanned
<1>13. CASE StartTake(r)     BY <1>13 DEF StartTake, Scanned
<1>14. CASE WaitTimeout(r)   BY <1>14 DEF WaitTimeout, ReleaseTicket
<1>15. CASE Sleep(r)         BY <1>15 DEF Sleep
<1>16. QED BY <1>1, <1>2, <1>3, <1>4, <1>5, <1>6, <1>7, <1>8, <1>9, <1>10, <1>11, <1>12, <1>13,
              <1>14, <1>15 DEF Poll

\* working under a lease,
LEMMA HoldQueue == ASSUME QueueInv, NEW r \in Runs, Hold(r), TypeOK' PROVE QueueInv'
<1> USE DEF QueueInv, TypeOK, NamesFresh, TicketKept, SweepWhileScanning, LockHeld, NothingMissed,
        Listed, Admitting, Places, Joining, Queued, Polling, Ended, Goto,
        envVars, waitVars, scanVars, slotVars, queueVars
<1>1. CASE TakeSlot(r)
    <2>1. CASE LastSlot(r)  BY <1>1, <2>1 DEF TakeSlot
    <2>2. CASE ~LastSlot(r) BY <1>1, <2>2 DEF TakeSlot
    <2>3. QED BY <2>1, <2>2
<1>2. CASE SkipSlot(r)   BY <1>2 DEF SkipSlot
<1>3. CASE TooFewFree(r) BY <1>3 DEF TooFewFree
<1>4. CASE Grant(r)      BY <1>4 DEF Grant, ReleaseTicket
<1>5. CASE GrantFails(r) BY <1>5 DEF GrantFails, ReleaseTicket
<1>6. CASE Spawn(r)      BY <1>6 DEF Spawn
<1>7. CASE Leave(r)      BY <1>7 DEF Leave
<1>8. QED BY <1>1, <1>2, <1>3, <1>4, <1>5, <1>6, <1>7 DEF Hold

\* and what comes from outside.
LEMMA EnvironmentQueue ==
    ASSUME QueueInv, TypeOK',
           \/ \E r \in Runs : ChildExit(r) \/ Kill(r) \/ Stop(r) \/ Expire(r)
           \/ \E n \in files : LookAtTicket(n)
           \/ \E s \in Slots : LookAtSlot(s)
           \/ LookAway
    PROVE  QueueInv'
<1> USE DEF QueueInv, TypeOK, NamesFresh, TicketKept, SweepWhileScanning, LockHeld, NothingMissed,
        Listed, Admitting, Places, Joining, Queued, Polling, Ended, Goto,
        envVars, waitVars, scanVars, slotVars, queueVars
<1>1. ASSUME NEW r \in Runs, ChildExit(r) PROVE QueueInv' BY <1>1 DEF ChildExit
<1>2. ASSUME NEW r \in Runs, Kill(r) PROVE QueueInv'
    <2>1. /\ pc' = [pc EXCEPT ![r] = "dead"]
          /\ ticket' = [ticket EXCEPT ![r] = NoTicket]
          /\ sweep' = [sweep EXCEPT ![r] = NoTicket]
          /\ todo' = [todo EXCEPT ![r] = {}]
          /\ ahead' = [ahead EXCEPT ![r] = FALSE]
          /\ admission' = IF admission = r THEN NoRun ELSE admission
          /\ UNCHANGED <<files, fresh>>
        BY <1>2 DEF Kill, DropScan
    <2>2. NamesFresh'
        BY <2>1
    <2>3. TicketKept' /\ SweepWhileScanning'
        BY <2>1, NoTicketIsNoName
    <2>4. LockHeld'
        BY <2>1
    <2>5. NothingMissed'
        BY <2>1
    <2>6. QED BY <2>2, <2>3, <2>4, <2>5
<1>3. ASSUME NEW r \in Runs, Stop(r) PROVE QueueInv'      BY <1>3 DEF Stop
<1>4. ASSUME NEW r \in Runs, Expire(r) PROVE QueueInv'    BY <1>4 DEF Expire
<1>5. ASSUME NEW n \in files, LookAtTicket(n) PROVE QueueInv' BY <1>5 DEF LookAtTicket
<1>6. ASSUME NEW s \in Slots, LookAtSlot(s) PROVE QueueInv'   BY <1>6 DEF LookAtSlot
<1>7. CASE LookAway BY <1>7 DEF LookAway
<1>8. QED BY <1>1, <1>2, <1>3, <1>4, <1>5, <1>6, <1>7

\* A queued run has its ticket and the lock of it, always.
LEMMA QueueInvariant == Spec => []QueueInv
<1>1. Init => QueueInv
    BY PoolAssumption DEF Init, QueueInv, TypeOK, Places, NamesFresh, TicketKept, SweepWhileScanning,
       LockHeld, NothingMissed, Listed, Admitting, Queued, Polling
<1>2. TypeOK /\ TypeOK' /\ QueueInv /\ [Next]_vars => QueueInv'
    <2> SUFFICES ASSUME TypeOK, TypeOK', QueueInv, [Next]_vars PROVE QueueInv' OBVIOUS
    <2>1. CASE Next
        BY <2>1, JoinQueue, PollQueue, HoldQueue, EnvironmentQueue DEF Next, RunStep
    <2>2. CASE UNCHANGED vars
        BY <2>2 DEF vars, queueVars, waitVars, scanVars, slotVars, envVars, QueueInv, TypeOK, NamesFresh,
           TicketKept, SweepWhileScanning, LockHeld, NothingMissed
    <2>3. QED BY <2>1, <2>2
<1>3. QED BY <1>1, <1>2, TypeCorrect, PTL DEF Spec

\* No sweep ever takes the ticket of a queued run, for any number of runs and scans.
THEOREM TicketsAreKept == Spec => []TicketKept
<1>1. QueueInv => TicketKept BY DEF QueueInv
<1>2. QED BY <1>1, QueueInvariant, PTL

\* Slots are only ever taken by the head of the queue.
THEOREM OnlyTheHeadTakes == Spec => []HeadOnly
<1>1. QueueInv => HeadOnly
    BY DEF QueueInv, NothingMissed, HeadOnly
<1>2. QED BY <1>1, QueueInvariant, PTL

-----------------------------------------------------------------------------
(* Leases. *)

\* Only a run that got its lease starts a child.
LeaseInv ==
    /\ TypeOK
    /\ TokensCovered
    /\ \A r \in Runs : child[r] => pc[r] \in {"running", "done", "dead"}

\* A lease has at least one token.
LEMMA WeightIsPositive == ASSUME NEW r \in Runs PROVE LeaseWeight(r) \in Nat \ {0}
BY PoolAssumption DEF LeaseWeight

\* The slots of a run can be counted.
LEMMA SlotsAreFinite ==
    ASSUME NEW r \in Runs
    PROVE  IsFiniteSet(SlotsOf(r)) /\ Cardinality(SlotsOf(r)) \in Nat
<1>1. IsFiniteSet(Slots)
    BY PoolAssumption, FS_Interval DEF Slots
<1>2. SlotsOf(r) \subseteq Slots
    BY DEF SlotsOf
<1>3. QED BY <1>1, <1>2, FS_Subset, FS_CardinalityType

\* While no slot changes hands, every run keeps its own.
LEMMA SameSlots == ASSUME UNCHANGED slot, NEW r \in Runs PROVE SlotsOf(r)' = SlotsOf(r)
BY DEF SlotsOf

\* Slots that are given back belong to nobody.
LEMMA FreedSlots ==
    ASSUME TypeOK, NEW r \in Runs, FreeSlots(r), NEW q \in Runs
    PROVE  SlotsOf(q)' = IF q = r THEN {} ELSE SlotsOf(q)
BY PoolAssumption DEF FreeSlots, SlotsOf, TypeOK

\* One slot more is one token more.
LEMMA TakenSlot ==
    ASSUME TypeOK, NEW r \in Runs, TakeSlot(r)
    PROVE  /\ index[r] \in Slots /\ slot[index[r]] = NoRun
           /\ slot' = [slot EXCEPT ![index[r]] = r]
           /\ SlotsOf(r)' = SlotsOf(r) \cup {index[r]}
           /\ Cardinality(SlotsOf(r)') = Cardinality(SlotsOf(r)) + 1
           /\ \A q \in Runs \ {r} : SlotsOf(q)' = SlotsOf(q)
<1>1. index[r] \in Slots
    BY PoolAssumption DEF TakeSlot, TypeOK, Slots
<1>2. slot[index[r]] = NoRun /\ slot' = [slot EXCEPT ![index[r]] = r]
    BY DEF TakeSlot
<1>3. SlotsOf(r)' = SlotsOf(r) \cup {index[r]}
    BY <1>1, <1>2 DEF SlotsOf, TypeOK
<1>4. \A q \in Runs \ {r} : SlotsOf(q)' = SlotsOf(q)
    BY <1>1, <1>2, PoolAssumption DEF SlotsOf, TypeOK
<1>5. index[r] \notin SlotsOf(r)
    BY <1>2, PoolAssumption DEF SlotsOf
<1>6. Cardinality(SlotsOf(r)') = Cardinality(SlotsOf(r)) + 1
    BY <1>3, <1>5, SlotsAreFinite, FS_AddElement
<1>7. QED BY <1>1, <1>2, <1>3, <1>4, <1>6

\* A step that leaves slots and children alone, and no run starts or stops working.
LEMMA QuietStep ==
    ASSUME LeaseInv, TypeOK', NEW r \in Runs, UNCHANGED <<slot, child>>,
           \A q \in Runs \ {r} : pc'[q] = pc[q],
           pc'[r] = pc[r] \/ (/\ pc[r] \notin {"take", "granted", "running", "done", "dead"}
                              /\ pc'[r] \notin {"granted", "running"})
    PROVE  LeaseInv' /\ UNCHANGED Leased
<1>1. \A q \in Runs : SlotsOf(q)' = SlotsOf(q)
    BY SameSlots
<1>2. \A q \in Runs : Working(q)' = Working(q)
    BY DEF Working, LeaseInv, TypeOK
<1>3. \A q \in Runs : pc'[q] = "take" \/ pc[q] # "take"
    OBVIOUS
<1>4. TokensCovered'
    BY <1>1, <1>2, <1>3 DEF LeaseInv, TokensCovered
<1>5. \A q \in Runs : child'[q] => pc'[q] \in {"running", "done", "dead"}
    BY DEF LeaseInv
<1>6. UNCHANGED Leased
    BY <1>2 DEF Leased
<1>7. QED BY <1>4, <1>5, <1>6 DEF LeaseInv

\* A step that ends the lease of r, or drops the slots it had not all got.
LEMMA FreeStep ==
    ASSUME LeaseInv, TypeOK', NEW r \in Runs, FreeSlots(r), ~Working(r)',
           pc'[r] # "take", child'[r] = FALSE,
           \A q \in Runs \ {r} : pc'[q] = pc[q] /\ child'[q] = child[q]
    PROVE  LeaseInv' /\ (Pool!Next \/ UNCHANGED Leased)
<1>1. \A q \in Runs : SlotsOf(q)' = IF q = r THEN {} ELSE SlotsOf(q)
    BY FreedSlots DEF LeaseInv
<1>2. \A q \in Runs \ {r} : Working(q)' = Working(q)
    BY DEF Working
<1>3. LeaseInv'
    BY <1>1, <1>2 DEF LeaseInv, TokensCovered
<1>4. CASE Working(r)
    <2>1. Cardinality(SlotsOf(r)) # 0
        BY <1>4, WeightIsPositive DEF LeaseInv, TokensCovered
    <2>2. PICK s \in Slots : slot[s] = r
        BY <2>1, FS_EmptySet DEF SlotsOf
    <2>3. Leased[s] = r
        BY <1>4, <2>2 DEF Leased
    <2>4. Leased' = [t \in Slots |-> IF Leased[t] = r THEN NoRun ELSE Leased[t]]
        BY <1>2, <1>4, PoolAssumption DEF Leased, FreeSlots, LeaseInv, TypeOK
    <2>5. Pool!Release(r)
        BY <2>2, <2>3, <2>4 DEF Pool!Release, Pool!Owned
    <2>6. QED BY <1>3, <2>5 DEF Pool!Next
<1>5. CASE ~Working(r)
    <2>1. UNCHANGED Leased
        BY <1>2, <1>5, PoolAssumption DEF Leased, FreeSlots, LeaseInv, TypeOK
    <2>2. QED BY <1>3, <2>1
<1>6. QED BY <1>4, <1>5

\* Joining touches no lease.
LEMMA JoinLease == ASSUME LeaseInv, NEW r \in Runs, Join(r), TypeOK' PROVE LeaseInv' /\ UNCHANGED Leased
<1>1. /\ UNCHANGED <<slot, child>>
      /\ \A q \in Runs \ {r} : pc'[q] = pc[q]
      /\ pc'[r] = pc[r] \/ (pc[r] \in {"idle"} \cup Joining /\ pc'[r] \in {"failed", "poll"} \cup Joining)
    <2> USE DEF LeaseInv, TypeOK, Joining, Goto, slotVars
    <2>1. CASE Enter(r)        BY <2>1 DEF Enter
    <2>2. CASE JoinLocked(r)   BY <2>2 DEF JoinLocked
    <2>3. CASE JoinBusy(r)     BY <2>3 DEF JoinBusy
    <2>4. CASE JoinTimeout(r)  BY <2>4 DEF JoinTimeout
    <2>5. CASE CreateTicket(r) BY <2>5 DEF CreateTicket
    <2>6. CASE LoseTicket(r)   BY <2>6 DEF LoseTicket
    <2>7. CASE LockTicket(r)   BY <2>7 DEF LockTicket
    <2>8. CASE NoNameLeft(r)   BY <2>8 DEF NoNameLeft
    <2>9. QED BY <2>1, <2>2, <2>3, <2>4, <2>5, <2>6, <2>7, <2>8 DEF Join
<1>2. QED BY <1>1, QuietStep DEF Joining

\* A run that sweeps is scanning, so that no step of a poll starts from "take".
LEMMA PollLease ==
    ASSUME LeaseInv, SweepWhileScanning, NEW r \in Runs, Poll(r), TypeOK'
    PROVE  LeaseInv' /\ UNCHANGED Leased
<1>1. /\ UNCHANGED <<slot, child>>
      /\ \A q \in Runs \ {r} : pc'[q] = pc[q]
      /\ pc'[r] = pc[r] \/ (/\ pc[r] \in {"poll", "scan", "rescan", "wait"}
                           /\ pc'[r] \in {"failed"} \cup Polling)
    <2> USE DEF LeaseInv, TypeOK, Polling, Goto, slotVars
    <2>1. CASE StartPoll(r)
        <3>1. CASE ticket[r] \in files    BY <2>1, <3>1 DEF StartPoll
        <3>2. CASE ticket[r] \notin files BY <2>1, <3>2 DEF StartPoll
        <3>3. QED BY <3>1, <3>2
    <2>2. CASE PollTimeout(r) BY <2>2 DEF PollTimeout
    <2>3. CASE Sweep(r)       BY <2>3 DEF Sweep
    <2>4. ASSUME NEW n \in todo[r], ScanGone(r, n) \/ ScanLive(r, n) \/ ScanDead(r, n)
          PROVE  UNCHANGED <<slot, child, pc>>
        BY <2>4 DEF ScanGone, ScanLive, ScanDead
    <2>5. CASE NotHead(r)         BY <2>5 DEF NotHead, Scanned
    <2>6. CASE MachineBusy(r)     BY <2>6 DEF MachineBusy, Scanned
    <2>7. CASE MeasureFails(r)    BY <2>7 DEF MeasureFails, Scanned
    <2>8. CASE AdmissionBusy(r)   BY <2>8 DEF AdmissionBusy, Scanned
    <2>9. CASE StartAdmission(r)  BY <2>9 DEF StartAdmission, Scanned
    <2>10. CASE Overtaken(r)      BY <2>10 DEF Overtaken, Scanned
    <2>11. CASE StartTake(r)      BY <2>11 DEF StartTake, Scanned
    <2>12. CASE WaitTimeout(r)    BY <2>12 DEF WaitTimeout
    <2>13. CASE Sleep(r)          BY <2>13 DEF Sleep
    <2>14. QED BY <2>1, <2>2, <2>3, <2>4, <2>5, <2>6, <2>7, <2>8, <2>9, <2>10, <2>11, <2>12, <2>13
               DEF Poll
<1>2. QED BY <1>1, QuietStep DEF Polling

\* A run that takes slots takes a free one after the other.
LEMMA TakeLease ==
    ASSUME LeaseInv, NEW r \in Runs, TakeSlot(r), TypeOK'
    PROVE  LeaseInv' /\ (Pool!Next \/ UNCHANGED Leased)
<1>1. pc[r] = "take" /\ UNCHANGED child
    BY DEF TakeSlot
<1>2. ~Working(r) /\ child[r] = FALSE
    BY <1>1 DEF LeaseInv, Working, TypeOK
<1>3. \A q \in Runs \ {r} : pc'[q] = pc[q] /\ Working(q)' = Working(q)
    <2>1. CASE LastSlot(r)  BY <2>1, <1>1 DEF TakeSlot, Goto, Working, LeaseInv, TypeOK
    <2>2. CASE ~LastSlot(r) BY <2>2, <1>1 DEF TakeSlot, Working
    <2>3. QED BY <2>1, <2>2
<1>4. CASE ~LastSlot(r)
    <2>1. pc'[r] = "take" /\ child'[r] = FALSE
        BY <1>1, <1>2, <1>4 DEF TakeSlot
    <2>2. ~Working(r)'
        BY <2>1 DEF Working
    <2>3. LeaseInv'
        BY <1>1, <1>3, <2>1, <2>2, TakenSlot DEF LeaseInv, TokensCovered
    <2>4. UNCHANGED Leased
        BY <1>2, <1>3, <2>2, TakenSlot, PoolAssumption DEF Leased, LeaseInv, TypeOK
    <2>5. QED BY <2>3, <2>4
<1>5. CASE LastSlot(r)
    <2>1. pc'[r] = "granted"
        BY <1>1, <1>5 DEF TakeSlot, Goto, LeaseInv, TypeOK
    <2>2. Working(r)'
        BY <2>1 DEF Working
    <2>3. Cardinality(SlotsOf(r)') = LeaseWeight(r)
        BY <1>5, TakenSlot DEF LastSlot, LeaseInv
    <2>4. LeaseInv'
        BY <1>1, <1>2, <1>3, <2>1, <2>2, <2>3, TakenSlot DEF LeaseInv, TokensCovered
    <2>5. \A s \in Slots : Leased[s] # r
        BY <1>2, PoolAssumption DEF Leased
    <2> DEFINE S == SlotsOf(r) \cup {index[r]}
    <2>6. S \subseteq Slots /\ \A s \in S : Leased[s] = NoRun
        <3>1. index[r] \in Slots /\ slot[index[r]] = NoRun
            BY TakenSlot DEF LeaseInv
        <3>2. Leased[index[r]] = NoRun
            BY <3>1, PoolAssumption DEF Leased
        <3>3. \A s \in SlotsOf(r) : s \in Slots /\ Leased[s] = NoRun
            BY <1>2 DEF Leased, SlotsOf
        <3>4. QED BY <3>1, <3>2, <3>3
    <2>7. Leased' = [s \in Slots |-> IF s \in S THEN r ELSE Leased[s]]
        <3>1. index[r] \in Slots /\ slot' = [slot EXCEPT ![index[r]] = r]
            BY TakenSlot DEF LeaseInv
        <3>2. ASSUME NEW s \in S PROVE Leased'[s] = r
            <4>1. s \in Slots /\ slot'[s] = r
                BY <2>6, <3>1, <3>2 DEF LeaseInv, TypeOK, SlotsOf
            <4>2. QED BY <2>2, <4>1 DEF Leased
        <3>3. ASSUME NEW s \in Slots \ S PROVE Leased'[s] = Leased[s]
            <4>1. slot'[s] = slot[s] /\ slot[s] # r
                BY <3>1, <3>3 DEF LeaseInv, TypeOK, SlotsOf
            <4>2. QED BY <1>3, <4>1 DEF Leased
        <3>4. QED BY <2>6, <3>2, <3>3 DEF Leased
    <2>8. Pool!Acquire(r)
        <3>1. S \in TokenSets(r)
            BY <2>3, <2>6, TakenSlot DEF LeaseInv, TokenSets
        <3>2. Pool!Owned(r) = {}
            BY <2>5 DEF Pool!Owned
        <3>3. S \subseteq Pool!Free
            BY <2>6 DEF Pool!Free
        <3> HIDE DEF S
        <3>4. QED BY <2>7, <3>1, <3>2, <3>3 DEF Pool!Acquire
    <2>9. QED BY <2>4, <2>8 DEF Pool!Next
<1>6. QED BY <1>4, <1>5

\* A run that is over closes its descriptors, a child of it may go on.
LEMMA CloseStep ==
    ASSUME LeaseInv, TypeOK', NEW r \in Runs, CloseSlots(r, child[r]), UNCHANGED child,
           pc'[r] \in {"done", "dead"}, \A q \in Runs \ {r} : pc'[q] = pc[q]
    PROVE  LeaseInv' /\ (Pool!Next \/ UNCHANGED Leased)
<1>1. CASE child[r]
    <2>1. UNCHANGED slot
        BY <1>1 DEF CloseSlots
    <2>2. \A q \in Runs : SlotsOf(q)' = SlotsOf(q)
        BY <2>1, SameSlots
    <2>3. \A q \in Runs : Working(q)' = Working(q)
        BY <1>1 DEF Working, LeaseInv, TypeOK
    <2>4. LeaseInv'
        BY <1>1, <2>2, <2>3 DEF LeaseInv, TokensCovered
    <2>5. UNCHANGED Leased
        BY <2>1, <2>3 DEF Leased
    <2>6. QED BY <2>4, <2>5
<1>2. CASE ~child[r]
    <2>1. FreeSlots(r) /\ child'[r] = FALSE
        BY <1>2 DEF CloseSlots, LeaseInv, TypeOK
    <2>2. ~Working(r)'
        BY <2>1 DEF Working
    <2>3. QED BY <2>1, <2>2, FreeStep
<1>3. QED BY <1>1, <1>2

\* Whoever works holds its tokens until it gives all back.
LEMMA HoldLease ==
    ASSUME LeaseInv, NEW r \in Runs, Hold(r), TypeOK'
    PROVE  LeaseInv' /\ (Pool!Next \/ UNCHANGED Leased)
<1>1. CASE TakeSlot(r) BY <1>1, TakeLease
<1>2. CASE SkipSlot(r) BY <1>2, QuietStep DEF SkipSlot
<1>3. CASE TooFewFree(r)
    <2>1. /\ FreeSlots(r) /\ UNCHANGED child
          /\ pc[r] = "take" /\ pc' = [pc EXCEPT ![r] = "wait"]
        BY <1>3 DEF TooFewFree, Goto
    <2>2. child'[r] = FALSE /\ pc'[r] = "wait" /\ \A q \in Runs \ {r} : pc'[q] = pc[q]
        BY <2>1 DEF LeaseInv, TypeOK
    <2>3. ~Working(r)'
        BY <2>2 DEF Working
    <2>4. QED BY <2>1, <2>2, <2>3, FreeStep
<1>4. CASE Grant(r)
    <2>1. /\ pc[r] = "granted" /\ pc' = [pc EXCEPT ![r] = "running"]
          /\ UNCHANGED <<slot, child>>
        BY <1>4 DEF Grant, Goto, slotVars
    <2>2. /\ pc'[r] = "running"
          /\ \A q \in Runs \ {r} : pc'[q] = pc[q]
          /\ \A q \in Runs : SlotsOf(q)' = SlotsOf(q)
        BY <2>1, SameSlots DEF LeaseInv, TypeOK
    <2>3. \A q \in Runs : Working(q)' = Working(q)
        BY <2>1, <2>2 DEF Working
    <2>4. LeaseInv'
        BY <2>1, <2>2, <2>3 DEF LeaseInv, TokensCovered
    <2>5. UNCHANGED Leased
        BY <2>1, <2>3 DEF Leased
    <2>6. QED BY <2>4, <2>5
<1>5. CASE GrantFails(r)
    <2>1. /\ FreeSlots(r) /\ UNCHANGED child
          /\ pc[r] = "granted" /\ pc' = [pc EXCEPT ![r] = "failed"]
        BY <1>5 DEF GrantFails, Goto
    <2>2. child'[r] = FALSE /\ pc'[r] = "failed" /\ \A q \in Runs \ {r} : pc'[q] = pc[q]
        BY <2>1 DEF LeaseInv, TypeOK
    <2>3. ~Working(r)'
        BY <2>2 DEF Working
    <2>4. QED BY <2>1, <2>2, <2>3, FreeStep
<1>6. CASE Spawn(r)
    <2>1. /\ pc[r] = "running" /\ UNCHANGED <<pc, slot>>
          /\ child' = [child EXCEPT ![r] = TRUE]
        BY <1>6 DEF Spawn
    <2>2. \A q \in Runs : SlotsOf(q)' = SlotsOf(q)
        BY <2>1, SameSlots
    <2>3. \A q \in Runs : Working(q)' = Working(q)
        BY <2>1 DEF Working, LeaseInv, TypeOK
    <2>4. LeaseInv'
        BY <2>1, <2>2, <2>3 DEF LeaseInv, TokensCovered, TypeOK
    <2>5. UNCHANGED Leased
        BY <2>1, <2>3 DEF Leased
    <2>6. QED BY <2>4, <2>5
<1>7. CASE Leave(r)
    <2>1. /\ pc[r] = "running" /\ pc' = [pc EXCEPT ![r] = "done"]
          /\ CloseSlots(r, child[r]) /\ UNCHANGED child
        BY <1>7 DEF Leave, Goto
    <2>2. pc'[r] = "done" /\ \A q \in Runs \ {r} : pc'[q] = pc[q]
        BY <2>1 DEF LeaseInv, TypeOK
    <2>3. QED BY <2>1, <2>2, CloseStep
<1>8. QED BY <1>1, <1>2, <1>3, <1>4, <1>5, <1>6, <1>7 DEF Hold

\* A killed run leaves its tokens to its child or gives them up.
LEMMA KillLease ==
    ASSUME LeaseInv, NEW r \in Runs, Kill(r), TypeOK'
    PROVE  LeaseInv' /\ (Pool!Next \/ UNCHANGED Leased)
<1>1. /\ pc[r] \notin {"idle"} \cup Ended /\ pc' = [pc EXCEPT ![r] = "dead"]
      /\ CloseSlots(r, child[r]) /\ UNCHANGED child
    BY DEF Kill, Goto
<1>2. pc'[r] = "dead" /\ \A q \in Runs \ {r} : pc'[q] = pc[q]
    BY <1>1 DEF LeaseInv, TypeOK
<1>3. QED BY <1>1, <1>2, CloseStep

\* With the child goes the lease.
LEMMA ChildExitLease ==
    ASSUME LeaseInv, NEW r \in Runs, ChildExit(r), TypeOK'
    PROVE  LeaseInv' /\ (Pool!Next \/ UNCHANGED Leased)
<1>1. /\ child[r] /\ child' = [child EXCEPT ![r] = FALSE] /\ UNCHANGED pc
      /\ CloseSlots(r, pc[r] = "running")
    BY DEF ChildExit
<1>2. child'[r] = FALSE /\ \A q \in Runs \ {r} : child'[q] = child[q]
    BY <1>1 DEF LeaseInv, TypeOK
<1>3. CASE pc[r] = "running"
    <2>1. UNCHANGED slot
        BY <1>1, <1>3 DEF CloseSlots
    <2>2. \A q \in Runs : SlotsOf(q)' = SlotsOf(q)
        BY <2>1, SameSlots
    <2>3. \A q \in Runs : Working(q)' = Working(q)
        BY <1>1, <1>2, <1>3 DEF Working
    <2>4. LeaseInv'
        BY <1>1, <1>2, <2>2, <2>3 DEF LeaseInv, TokensCovered
    <2>5. UNCHANGED Leased
        BY <2>1, <2>3 DEF Leased
    <2>6. QED BY <2>4, <2>5
<1>4. CASE pc[r] # "running"
    <2>1. FreeSlots(r)
        BY <1>1, <1>4 DEF CloseSlots
    <2>2. pc[r] \in {"done", "dead"}
        BY <1>1, <1>4 DEF LeaseInv
    <2>3. ~Working(r)' /\ pc'[r] # "take"
        BY <1>1, <1>2, <2>2 DEF Working
    <2>4. QED BY <1>1, <1>2, <2>1, <2>3, FreeStep
<1>5. QED BY <1>3, <1>4

\* Every step keeps the leases covered.
LEMMA LeaseStep ==
    ASSUME LeaseInv, SweepWhileScanning, [Next]_vars, TypeOK'
    PROVE  LeaseInv' /\ (Pool!Next \/ UNCHANGED Leased)
<1>1. ASSUME NEW r \in Runs, RunStep(r) PROVE LeaseInv' /\ (Pool!Next \/ UNCHANGED Leased)
    BY <1>1, JoinLease, PollLease, HoldLease DEF RunStep
<1>2. ASSUME UNCHANGED <<pc, slot, child>> PROVE LeaseInv' /\ UNCHANGED Leased
    <2>1. \A q \in Runs : SlotsOf(q)' = SlotsOf(q) /\ Working(q)' = Working(q)
        BY <1>2, SameSlots DEF Working
    <2>2. QED BY <1>2, <2>1 DEF LeaseInv, TokensCovered, Leased
<1>3. ASSUME NEW r \in Runs, Stop(r) \/ Expire(r) PROVE UNCHANGED <<pc, slot, child>>
    BY <1>3 DEF Stop, Expire, slotVars
<1>4. ASSUME NEW n \in files, LookAtTicket(n) PROVE UNCHANGED <<pc, slot, child>>
    BY <1>4 DEF LookAtTicket, slotVars
<1>5. ASSUME NEW s \in Slots, LookAtSlot(s) PROVE UNCHANGED <<pc, slot, child>>
    BY <1>5 DEF LookAtSlot, slotVars
<1>6. CASE LookAway BY <1>2, <1>6 DEF LookAway, slotVars
<1>7. CASE UNCHANGED vars BY <1>2, <1>7 DEF vars, slotVars
<1>8. QED BY <1>1, <1>2, <1>3, <1>4, <1>5, <1>6, <1>7, KillLease, ChildExitLease DEF Next

\* The tokens of a lease are covered, always.
LEMMA LeaseInvariant == Spec => []LeaseInv
<1>1. Init => LeaseInv
    <2> SUFFICES ASSUME Init PROVE LeaseInv OBVIOUS
    <2>1. TypeOK
        BY PoolAssumption DEF Init, TypeOK, Places
    <2>2. \A r \in Runs : SlotsOf(r) = {} /\ ~Working(r)
        BY PoolAssumption DEF Init, SlotsOf, Working
    <2>3. QED BY <2>1, <2>2 DEF LeaseInv, TokensCovered, Init
<1>2. QueueInv /\ TypeOK' /\ LeaseInv /\ [Next]_vars => LeaseInv'
    BY LeaseStep DEF QueueInv
<1>3. QED BY <1>1, <1>2, QueueInvariant, TypeCorrect, PTL DEF Spec

\* A lease is all or nothing, and its tokens stay taken while the run or a child works.
THEOREM TokensAreCovered == Spec => []TokensCovered
<1>1. LeaseInv => TokensCovered BY DEF LeaseInv
<1>2. QED BY <1>1, LeaseInvariant, PTL

\* The pool implements TokenPool: every step of the file protocol leases all the tokens of
\* one run at once, gives all of them back at once, or changes nobody's lease.
THEOREM ImplementsTokenPool == Spec => LeasesAreAtomic
<1>1. Init => Pool!Init
    BY PoolAssumption DEF Init, Pool!Init, Leased
<1>2. QueueInv /\ LeaseInv /\ TypeOK' /\ [Next]_vars => [Pool!Next]_Leased
    BY LeaseStep DEF QueueInv
<1>3. QED BY <1>1, <1>2, QueueInvariant, LeaseInvariant, TypeCorrect, PTL DEF Spec, LeasesAreAtomic, Pool!Spec

=============================================================================

---------------------------- MODULE AgentBoard_proofs ----------------------------
(***************************************************************************)
(* Proofs about AgentBoard: type correctness, and that admitted tasks      *)
(* never claim the same file, nor publish changes of it, without an        *)
(* excuse, for any number of tasks, files and registrations.               *)
(***************************************************************************)
EXTENDS AgentBoard, TLAPS

-----------------------------------------------------------------------------
(* What an entry of the board is after a command has written a part of it. *)

\* An entry of a task that is not registered, and an empty board.
LEMMA EmptyEntry == NoEntry \in Entry /\ NoBoard \in [Tasks -> Entry]
  BY DEF NoEntry, NoBoard, Entry

\* The entry that start writes.
LEMMA NewEntry ==
    ASSUME NEW id \in Nat, NEW scope \in SUBSET Paths
    PROVE  [NoEntry EXCEPT !.id = id, !.scope = scope, !.fresh = TRUE] \in Entry
  BY DEF Entry, NoEntry

\* The entry that a new scope leaves.
LEMMA ScopedEntry ==
    ASSUME NEW e \in Entry, NEW scope \in SUBSET Paths
    PROVE  [e EXCEPT !.scope = scope, !.fresh = TRUE] \in Entry
  BY DEF Entry

\* The entry that an admission leaves.
LEMMA ClaimedEntry ==
    ASSUME NEW e \in Entry, NEW claims \in SUBSET Paths
    PROVE  [e EXCEPT !.claims = claims] \in Entry
  BY DEF Entry

\* The entry that lapses.
LEMMA StaleEntry ==
    ASSUME NEW e \in Entry
    PROVE  [e EXCEPT !.fresh = FALSE] \in Entry
  BY DEF Entry

\* The entry after an acknowledgment.
LEMMA AcknowledgedEntry ==
    ASSUME NEW e \in Entry, NEW id \in Nat, NEW path \in Paths
    PROVE  [e EXCEPT !.acks = @ \cup {<<id, path>>}] \in Entry
  BY DEF Entry

\* The fields of an entry, one by one.
LEMMA Fields ==
    ASSUME NEW e \in Entry
    PROVE  /\ e.id \in Nat /\ e.scope \in SUBSET Paths /\ e.claims \in SUBSET Paths
           /\ e.acks \in SUBSET (Nat \X Paths) /\ e.fresh \in BOOLEAN
  BY DEF Entry

-----------------------------------------------------------------------------
(* Types. *)

\* A command that ends keeps the types of what it lets go ...
LEMMA LeaveTypes ==
    ASSUME TypeOK, NEW p \in Procs, Leave(p)
    PROVE  /\ data' \in [Procs -> [Tasks -> Entry]] /\ lock' \in Procs \cup {Nobody}
           /\ pc' \in [Procs -> {"idle", "admit", "gate", "publish", "fix"}]
  BY EmptyEntry DEF Leave, Goto, TypeOK

\* ... and of what it forgets.
LEMMA ForgetTypes ==
    ASSUME TypeOK, NEW t \in Tasks, Forget(t)
    PROVE  /\ mine' \in [Tasks -> SUBSET Paths] /\ todo' \in [Tasks -> SUBSET Tasks]
           /\ hits' \in [Tasks -> SUBSET (Nat \X Paths)]
  BY DEF Forget, TypeOK

\* An agent's command keeps the types.
LEMMA CommandTypes ==
    ASSUME TypeOK, NEW t \in Tasks, Command(t)
    PROVE  TypeOK'
<1> USE BoardAssumption
<1> DEFINE Board == [Tasks -> Entry]
<1>0. /\ board \in Board /\ board[t] \in Entry
      /\ data \in [Procs -> Board] /\ data[t] \in Board /\ data[t][t] \in Entry
      /\ t \in Procs
  BY DEF TypeOK, Procs
<1>1. CASE Register(t)
  <2>1. PICK scope \in Scopes :
           board' = [board EXCEPT ![t] = [NoEntry EXCEPT !.id = ids + 1, !.scope = scope, !.fresh = TRUE]]
    BY <1>1 DEF Register
  <2>2. ids' = ids + 1 /\ ids < MaxIds /\ ids \in Nat
    BY <1>1 DEF Register, TypeOK
  <2>3. [NoEntry EXCEPT !.id = ids + 1, !.scope = scope, !.fresh = TRUE] \in Entry
    <3>1. ids + 1 \in Nat /\ scope \in SUBSET Paths
      BY <2>2
    <3> QED
      BY <3>1, NewEntry
  <2>4. board' \in Board
    BY <1>0, <2>1, <2>3
  <2>5. ids' \in 0 .. MaxIds /\ lapsed' \subseteq Nat
    BY <1>1, <2>2 DEF Register, TypeOK
  <2> QED
    BY <1>1, <2>4, <2>5 DEF Register, TypeOK, commandVars, worldVars
<1>2. CASE Update(t)
  <2>1. PICK scope \in Scopes \cup {board[t].scope} :
           board' = [board EXCEPT ![t].scope = scope, ![t].fresh = TRUE]
    BY <1>2 DEF Update
  <2>2. scope \in SUBSET Paths
    BY <1>0, Fields
  <2>3. board' = [board EXCEPT ![t] = [board[t] EXCEPT !.scope = scope, !.fresh = TRUE]]
    BY <1>0, <2>1
  <2>4. board' \in Board
    BY <1>0, <2>2, <2>3, ScopedEntry
  <2> QED
    BY <1>2, <2>4 DEF Update, TypeOK, commandVars, worldVars
<1>3. CASE Acknowledge(t)
  <2>1. PICK u \in Tasks, path \in Candidates(board, t) :
           board' = [board EXCEPT ![t].acks = @ \cup {<<board[u].id, path>>}]
    BY <1>3 DEF Acknowledge, Registered, Evidence
  <2>2. path \in Paths /\ board[u].id \in Nat
    BY <1>0, Fields DEF Candidates, TypeOK
  <2>3. board' = [board EXCEPT ![t] = [board[t] EXCEPT !.acks = @ \cup {<<board[u].id, path>>}]]
    BY <1>0, <2>1
  <2>4. board' \in Board
    BY <1>0, <2>2, <2>3, AcknowledgedEntry
  <2> QED
    BY <1>3, <2>4 DEF Acknowledge, TypeOK, commandVars, worldVars
<1>4. CASE Release(t)
  <2>1. board' \in Board
    BY <1>0, <1>4, EmptyEntry DEF Release
  <2> QED
    BY <1>4, <2>1 DEF Release, TypeOK, commandVars, worldVars
<1>5. CASE AskAdmission(t)
  <2>1. PICK scope \in Scopes \cup {board[t].scope} :
           /\ data' = [data EXCEPT ![t] = [board EXCEPT ![t].scope = scope, ![t].fresh = TRUE]]
           /\ mine' = [mine EXCEPT ![t] = scope \cup edits[t]]
    BY <1>5 DEF AskAdmission, Open
  <2>2. scope \in SUBSET Paths
    BY <1>0, Fields
  <2>3. [board EXCEPT ![t].scope = scope, ![t].fresh = TRUE]
          = [board EXCEPT ![t] = [board[t] EXCEPT !.scope = scope, !.fresh = TRUE]]
    BY <1>0
  <2>4. data' \in [Procs -> Board]
    BY <1>0, <2>1, <2>2, <2>3, ScopedEntry
  <2>5. mine' \in [Tasks -> SUBSET Paths] /\ todo' \in [Tasks -> SUBSET Tasks]
    BY <1>5, <2>1, <2>2 DEF AskAdmission, Registered, TypeOK
  <2>6. pc' \in [Procs -> {"idle", "admit", "gate", "publish", "fix"}] /\ lock' \in Procs \cup {Nobody}
    BY <1>0, <1>5 DEF AskAdmission, Open, Goto, TypeOK
  <2> QED
    BY <1>5, <2>4, <2>5, <2>6 DEF AskAdmission, TypeOK, worldVars
<1>6. ASSUME NEW u \in Tasks, LookAt(t, u)
      PROVE  TypeOK'
  <2>1. Conflicts(data[t], t, u, mine[t]) \in SUBSET (Nat \X Paths)
    <3>1. data[t][u] \in Entry /\ mine[t] \in SUBSET Paths
      BY <1>0 DEF TypeOK
    <3> QED
      BY <3>1, Fields DEF Conflicts
  <2>2. todo' \in [Tasks -> SUBSET Tasks]
    BY <1>6 DEF LookAt, TypeOK
  <2>3. hits' = [hits EXCEPT ![t] = @ \cup Conflicts(data[t], t, u, mine[t])] \/ hits' = hits
    BY <1>6 DEF LookAt
  <2>4. hits' \in [Tasks -> SUBSET (Nat \X Paths)]
    BY <2>1, <2>3 DEF TypeOK
  <2> QED
    BY <1>6, <2>2, <2>4 DEF LookAt, TypeOK, worldVars
<1>7. CASE Admit(t) \/ Wait(t)
  <2>1. board' \in Board
    <3>1. ClaimsOf(data[t], t) \in SUBSET Paths
      BY <1>0, Fields DEF ClaimsOf, Candidates, TypeOK
    <3>2. CASE Admit(t)
      <4>1. board' = [data[t] EXCEPT ![t] = [data[t][t] EXCEPT !.claims = ClaimsOf(data[t], t)]]
        BY <1>0, <3>2 DEF Admit
      <4> QED
        BY <1>0, <3>1, <4>1, ClaimedEntry
    <3>3. CASE Wait(t)
      BY <1>0, <3>3 DEF Wait
    <3> QED
      BY <1>7, <3>2, <3>3
  <2>2. Leave(t) /\ Forget(t)
    BY <1>7 DEF Admit, Wait
  <2> QED
    BY <1>0, <1>7, <2>1, <2>2, LeaveTypes, ForgetTypes DEF Admit, Wait, TypeOK, worldVars
<1>8. CASE StartGate(t)
  <2>1. data' \in [Procs -> Board]
    BY <1>0, <1>8 DEF StartGate
  <2>2. mine' \in [Tasks -> SUBSET Paths] /\ todo' \in [Tasks -> SUBSET Tasks]
    BY <1>0, <1>8, Fields DEF StartGate, Candidates, Registered, TypeOK
  <2>3. pc' \in [Procs -> {"idle", "admit", "gate", "publish", "fix"}]
    BY <1>0, <1>8 DEF StartGate, Goto, TypeOK
  <2> QED
    BY <1>8, <2>1, <2>2, <2>3 DEF StartGate, TypeOK, worldVars
<1>9. CASE LeaveGate(t)
  <2>1. data' \in [Procs -> Board]
    BY <1>0, <1>9, EmptyEntry DEF LeaveGate
  <2>2. /\ mine' \in [Tasks -> SUBSET Paths] /\ todo' \in [Tasks -> SUBSET Tasks]
        /\ hits' \in [Tasks -> SUBSET (Nat \X Paths)]
    BY <1>9 DEF LeaveGate, Forget, TypeOK
  <2>3. pc' \in [Procs -> {"idle", "admit", "gate", "publish", "fix"}]
    BY <1>0, <1>9 DEF LeaveGate, Goto, TypeOK
  <2> QED
    BY <1>9, <2>1, <2>2, <2>3 DEF LeaveGate, TypeOK, worldVars
<1> QED
  BY <1>1, <1>2, <1>3, <1>4, <1>5, <1>6, <1>7, <1>8, <1>9 DEF Command

\* The types hold before the first command.
LEMMA TypeAtInit == Init => TypeOK
<1> SUFFICES ASSUME Init
             PROVE  TypeOK
  OBVIOUS
<1>1. board \in [Tasks -> Entry] /\ data \in [Procs -> [Tasks -> Entry]]
  BY EmptyEntry DEF Init
<1> QED
  BY <1>1, BoardAssumption DEF Init, TypeOK, Procs

\* Type correctness: every variable keeps its type through every step.
THEOREM TypeCorrect == Spec => []TypeOK
<1> USE BoardAssumption
<1>1. Init => TypeOK
  BY TypeAtInit
<1>2. TypeOK /\ [Next]_vars => TypeOK'
  <2> SUFFICES ASSUME TypeOK, [Next]_vars
               PROVE  TypeOK'
    OBVIOUS
  <2>1. ASSUME NEW t \in Tasks, Command(t)
        PROVE  TypeOK'
    BY <2>1, CommandTypes
  <2>2. ASSUME NEW t \in Tasks, CreateWorktree(t) \/ Commit(t)
        PROVE  TypeOK'
    <3>1. tree' \in [Tasks -> {"absent", "work", "merged"}] /\ edits' \in [Tasks -> SUBSET Paths]
      BY SMTT(20), <2>2 DEF CreateWorktree, Commit, TypeOK
    <3>2. UNCHANGED <<commandVars, board, ids, lapsed>>
      BY <2>2 DEF CreateWorktree, Commit
    <3> QED
      BY <3>1, <3>2 DEF TypeOK, commandVars
  <2>3. ASSUME NEW t \in Tasks, Lapse(t)
        PROVE  lapsed' \subseteq Nat
    <3>1. board[t].id \in Nat
      BY Fields DEF TypeOK
    <3> QED
      BY <2>3, <3>1 DEF Lapse, TypeOK
  <2>4. ASSUME NEW t \in Tasks, RemoveWorktree(t) \/ Publish(t)
        PROVE  TypeOK'
    <3>1. lapsed' \subseteq Nat
      <4>1. Lapse(t) \/ lapsed' = lapsed
        BY <2>4 DEF RemoveWorktree, Publish
      <4> QED
        BY <2>3, <4>1 DEF TypeOK
    <3>2. tree' \in [Tasks -> {"absent", "work", "merged"}] /\ edits' \in [Tasks -> SUBSET Paths]
      BY <2>4 DEF RemoveWorktree, Publish, TypeOK
    <3>3. pc' \in [Procs -> {"idle", "admit", "gate", "publish", "fix"}]
      BY <2>4 DEF RemoveWorktree, Publish, Goto, TypeOK, commandVars, Procs
    <3> QED
      BY <2>4, <3>1, <3>2, <3>3 DEF RemoveWorktree, Publish, TypeOK, commandVars
  <2>5. ASSUME NEW t \in Tasks, Expire(t)
        PROVE  TypeOK'
    <3>1. lapsed' \subseteq Nat
      BY <2>3, <2>5 DEF Expire
    <3>2. ASSUME NEW b \in [Tasks -> Entry]
          PROVE  [b EXCEPT ![t].fresh = FALSE] \in [Tasks -> Entry]
      <4>1. [b EXCEPT ![t].fresh = FALSE] = [b EXCEPT ![t] = [b[t] EXCEPT !.fresh = FALSE]]
        OBVIOUS
      <4> QED
        BY <4>1, StaleEntry
    <3>3. board' \in [Tasks -> Entry]
      BY <2>5, <3>2 DEF Expire, TypeOK
    <3>4. data' \in [Procs -> [Tasks -> Entry]]
      BY <2>5, <3>2 DEF Expire, TypeOK
    <3> QED
      BY <2>5, <3>1, <3>3, <3>4 DEF Expire, TypeOK, worldVars
  <2>6. CASE Diagnose
    <3>1. data' \in [Procs -> [Tasks -> Entry]] /\ lock' \in Procs
      BY <2>6 DEF Diagnose, Open, TypeOK, Procs
    <3>2. doomed' \subseteq Tasks /\ pc' \in [Procs -> {"idle", "admit", "gate", "publish", "fix"}]
      BY <2>6 DEF Diagnose, Registered, Goto, TypeOK
    <3> QED
      BY <2>6, <3>1, <3>2 DEF Diagnose, TypeOK, worldVars
  <2>7. CASE Fix
    <3>1. board' \in [Tasks -> Entry]
      BY <2>7, EmptyEntry DEF Fix, TypeOK, Procs
    <3>2. Doctor \in Procs /\ Leave(Doctor)
      BY <2>7 DEF Fix, Procs
    <3> QED
      BY <2>7, <3>1, <3>2, LeaveTypes DEF Fix, TypeOK, worldVars
  <2>8. ASSUME NEW p \in Procs, Refuse(p)
        PROVE  TypeOK'
    <3>1. /\ mine' \in [Tasks -> SUBSET Paths] /\ todo' \in [Tasks -> SUBSET Tasks]
          /\ hits' \in [Tasks -> SUBSET (Nat \X Paths)] /\ doomed' \subseteq Tasks
      BY <2>8 DEF Refuse, Forget, TypeOK
    <3> QED
      BY <2>8, <3>1, LeaveTypes DEF Refuse, TypeOK, worldVars
  <2>9. CASE UNCHANGED vars
    BY <2>9 DEF vars, TypeOK, commandVars, worldVars
  <2> QED
    BY <2>1, <2>2, <2>4, <2>5, <2>6, <2>7, <2>8, <2>9 DEF Next, World
<1> QED
  BY <1>1, <1>2, PTL DEF Spec

-----------------------------------------------------------------------------
(* Admitted tasks claim different files. *)

\* Who is between reading and writing the board file holds its lock.
WriterLocks ==
    /\ \A t \in Tasks : pc[t] # "fix" /\ (pc[t] = "admit" => lock = t)
    /\ pc[Doctor] # "admit" /\ (pc[Doctor] = "fix" => lock = Doctor)

\* ... so what it has read is what is in the file, but for the scope of its own entry.
ReadIsBoard ==
    /\ \A t \in Tasks : pc[t] = "admit" =>
          /\ \A u \in Tasks \ {t} : data[t][u] = board[u]
          /\ data[t][t].id = board[t].id /\ data[t][t].claims = board[t].claims
          /\ data[t][t].acks = board[t].acks /\ data[t][t].fresh
          /\ mine[t] = Candidates(data[t], t)
    /\ pc[Doctor] = "fix" => data[Doctor] = board

\* An entry that does not count as active has lapsed.
LapsedIsKnown ==
    \A u \in Registered(board) : ~board[u].fresh \/ tree[u] # "work" => board[u].id \in lapsed

\* An overlap with an entry that an admission has looked at is excused, or one of its hits.
SeenIsFound ==
    \A t \in Tasks : pc[t] = "admit" =>
        \A u \in Registered(board) \ ({t} \cup todo[t]) :
            \A path \in mine[t] \cap board[u].claims :
                Excused(t, u, path) \/ <<board[u].id, path>> \in hits[t]

Exclusion == TypeOK /\ WriterLocks /\ ReadIsBoard /\ LapsedIsKnown /\ SeenIsFound /\ ClaimsAreExclusive

\* An excuse stays one while the entries stay and their acknowledgments grow.
LEMMA ExcusedStays ==
    ASSUME NEW t, NEW u, NEW path, Excused(t, u, path), lapsed \subseteq lapsed',
           board'[t].id = board[t].id, board[t].acks \subseteq board'[t].acks,
           board'[u].id = board[u].id, board[u].acks \subseteq board'[u].acks
    PROVE  Excused(t, u, path)'
  BY DEF Excused

\* Claims stay exclusive when every entry keeps its id and its claims, or has no claims.
LEMMA ClaimsStay ==
    ASSUME ClaimsAreExclusive, lapsed \subseteq lapsed',
           \A t \in Tasks : \/ board'[t].claims = {}
                            \/ /\ board'[t].id = board[t].id /\ board'[t].claims = board[t].claims
                               /\ board[t].acks \subseteq board'[t].acks
    PROVE  ClaimsAreExclusive'
<1> SUFFICES ASSUME NEW t \in Registered(board)', NEW u \in Registered(board)', t # u,
                    NEW path \in board'[t].claims \cap board'[u].claims
             PROVE  Excused(t, u, path)'
  BY DEF ClaimsAreExclusive
<1>1. /\ t \in Tasks /\ u \in Tasks /\ board'[t].id # 0 /\ board'[u].id # 0
  BY DEF Registered
<1>2. /\ board'[t].id = board[t].id /\ board'[t].claims = board[t].claims /\ board[t].acks \subseteq board'[t].acks
      /\ board'[u].id = board[u].id /\ board'[u].claims = board[u].claims /\ board[u].acks \subseteq board'[u].acks
  BY <1>1
<1>3. t \in Registered(board) /\ u \in Registered(board) /\ path \in board[t].claims \cap board[u].claims
  BY <1>1, <1>2 DEF Registered
<1>4. Excused(t, u, path)
  BY <1>3 DEF ClaimsAreExclusive
<1> QED
  BY <1>2, <1>4, ExcusedStays

\* With nobody between reading and writing, nothing read can be outdated.
LEMMA NobodyWrites ==
    ASSUME \A p \in Procs : pc'[p] \notin {"admit", "fix"}
    PROVE  (WriterLocks /\ ReadIsBoard /\ SeenIsFound)'
  BY DEF Procs, WriterLocks, ReadIsBoard, SeenIsFound

\* A step of a process that is not about to write disturbs nobody who is.
LEMMA Aside ==
    ASSUME Exclusion, NEW p \in Procs, board' = board, lapsed \subseteq lapsed',
           pc'[p] \notin {"admit", "fix"},
           \A q \in Procs \ {p} : pc'[q] = pc[q] /\ (lock = q => lock' = q) /\ data'[q] = data[q],
           \A s \in Tasks \ {p} : /\ mine'[s] = mine[s] /\ todo'[s] = todo[s] /\ hits'[s] = hits[s]
                                  /\ edits'[s] = edits[s]
    PROVE  (WriterLocks /\ ReadIsBoard /\ SeenIsFound /\ ClaimsAreExclusive)'
<1> USE DEF Exclusion
<1>1. WriterLocks'
  BY DEF WriterLocks, Procs
<1>2. ReadIsBoard'
  <2>1. ASSUME NEW t \in Tasks, pc'[t] = "admit"
        PROVE  /\ t # p /\ t \in Procs /\ pc[t] = "admit" /\ data'[t] = data[t]
               /\ mine'[t] = mine[t] /\ edits'[t] = edits[t]
    BY <2>1 DEF Procs
  <2>2. Doctor \in Procs
    BY DEF Procs
  <2> QED
    BY <2>1, <2>2 DEF ReadIsBoard, Candidates
<1>3. SeenIsFound'
  <2> SUFFICES ASSUME NEW t \in Tasks, pc'[t] = "admit",
                      NEW u \in Registered(board)' \ ({t} \cup todo'[t]),
                      NEW path \in mine'[t] \cap board'[u].claims
               PROVE  Excused(t, u, path)' \/ <<board'[u].id, path>> \in hits'[t]
    BY DEF SeenIsFound
  <2>1. t # p /\ pc[t] = "admit" /\ mine'[t] = mine[t] /\ todo'[t] = todo[t] /\ hits'[t] = hits[t]
    BY DEF Procs
  <2>2. Excused(t, u, path) \/ <<board[u].id, path>> \in hits[t]
    BY <2>1 DEF SeenIsFound, Registered
  <2> QED
    BY <2>1, <2>2, ExcusedStays
<1>4. ClaimsAreExclusive'
  BY ClaimsStay
<1> QED
  BY <1>1, <1>2, <1>3, <1>4

\* A command of one step: it finds the file unlocked, so nobody is about to write.
LEMMA OneStepCommands ==
    ASSUME Exclusion, TypeOK', NEW t \in Tasks,
           Register(t) \/ Update(t) \/ Acknowledge(t) \/ Release(t)
    PROVE  Exclusion'
<1> USE BoardAssumption
<1>1. board \in [Tasks -> Entry] /\ board[t] \in Entry /\ t \in Procs /\ edits' = edits /\ tree' = tree
  BY DEF Exclusion, TypeOK, Procs, Register, Update, Acknowledge, Release, worldVars
<1>2. (WriterLocks /\ ReadIsBoard /\ SeenIsFound)'
  <2>1. \A p \in Procs : pc'[p] \notin {"admit", "fix"}
    BY DEF Exclusion, WriterLocks, Register, Update, Acknowledge, Release, LockFree, commandVars, Procs
  <2> QED
    BY <2>1, NobodyWrites
<1>3. ASSUME NEW e \in Entry, board' = [board EXCEPT ![t] = e], lapsed \subseteq lapsed',
             e.claims = {} \/ (e.id = board[t].id /\ e.claims = board[t].claims /\ board[t].acks \subseteq e.acks),
             e.id # 0 /\ (~e.fresh \/ tree[t] # "work") => e.id \in lapsed'
      PROVE  ClaimsAreExclusive' /\ LapsedIsKnown'
  <2>1. board'[t] = e /\ \A u \in Tasks \ {t} : board'[u] = board[u]
    BY <1>1, <1>3
  <2>2. ClaimsAreExclusive'
    BY <1>3, <2>1, ClaimsStay DEF Exclusion
  <2>3. LapsedIsKnown'
    BY <1>1, <1>3, <2>1 DEF Exclusion, LapsedIsKnown, Registered
  <2> QED
    BY <2>2, <2>3
<1>4. CASE Register(t)
  <2>1. PICK scope \in Scopes :
           board' = [board EXCEPT ![t] = [NoEntry EXCEPT !.id = ids + 1, !.scope = scope, !.fresh = TRUE]]
    BY <1>4 DEF Register
  <2> DEFINE e == [NoEntry EXCEPT !.id = ids + 1, !.scope = scope, !.fresh = TRUE]
  <2>2. e \in Entry
    <3>1. ids + 1 \in Nat /\ scope \in SUBSET Paths
      BY DEF Exclusion, TypeOK
    <3> QED
      BY <3>1, NewEntry
  <2>3. e.claims = {} /\ e.id = ids + 1 /\ e.fresh
    BY DEF NoEntry
  <2>4. lapsed \subseteq lapsed' /\ (tree[t] # "work" => ids + 1 \in lapsed')
    BY <1>4 DEF Register
  <2>5. board' = [board EXCEPT ![t] = e]
    BY <2>1
  <2> HIDE DEF e
  <2>6. ClaimsAreExclusive' /\ LapsedIsKnown'
    BY <1>3, <2>2, <2>3, <2>4, <2>5
  <2> QED
    BY <1>2, <2>6 DEF Exclusion
<1>5. CASE Update(t)
  <2>1. PICK scope \in Scopes \cup {board[t].scope} :
           board' = [board EXCEPT ![t].scope = scope, ![t].fresh = TRUE]
    BY <1>5 DEF Update
  <2> DEFINE e == [board[t] EXCEPT !.scope = scope, !.fresh = TRUE]
  <2>2. e \in Entry
    BY <1>1, Fields, ScopedEntry
  <2>3. e.id = board[t].id /\ e.claims = board[t].claims /\ board[t].acks \subseteq e.acks /\ e.fresh
    BY <1>1 DEF Entry
  <2>4. board' = [board EXCEPT ![t] = e] /\ lapsed' = lapsed
    BY <1>1, <1>5, <2>1 DEF Update
  <2>5. board[t].id # 0 /\ tree[t] # "work" => board[t].id \in lapsed
    BY DEF Exclusion, LapsedIsKnown, Registered
  <2> HIDE DEF e
  <2>6. ClaimsAreExclusive' /\ LapsedIsKnown'
    BY <1>3, <2>2, <2>3, <2>4, <2>5
  <2> QED
    BY <1>2, <2>6 DEF Exclusion
<1>6. CASE Acknowledge(t)
  <2>1. PICK u \in Tasks, path \in Candidates(board, t) :
           board' = [board EXCEPT ![t].acks = @ \cup {<<board[u].id, path>>}]
    BY <1>6 DEF Acknowledge, Registered, Evidence
  <2> DEFINE e == [board[t] EXCEPT !.acks = @ \cup {<<board[u].id, path>>}]
  <2>2. e \in Entry
    <3>1. board[u].id \in Nat /\ path \in Paths
      BY <1>1, Fields DEF Candidates, Exclusion, TypeOK
    <3> QED
      BY <1>1, <3>1, AcknowledgedEntry
  <2>3. /\ e.id = board[t].id /\ e.claims = board[t].claims /\ board[t].acks \subseteq e.acks
        /\ e.fresh = board[t].fresh
    BY <1>1 DEF Entry
  <2>4. board' = [board EXCEPT ![t] = e] /\ lapsed' = lapsed
    BY <1>1, <1>6, <2>1 DEF Acknowledge
  <2>5. board[t].id # 0 /\ (~board[t].fresh \/ tree[t] # "work") => board[t].id \in lapsed
    BY DEF Exclusion, LapsedIsKnown, Registered
  <2> HIDE DEF e
  <2>6. ClaimsAreExclusive' /\ LapsedIsKnown'
    BY <1>3, <2>2, <2>3, <2>4, <2>5
  <2> QED
    BY <1>2, <2>6 DEF Exclusion
<1>7. CASE Release(t)
  <2>1. board' = [board EXCEPT ![t] = NoEntry] /\ lapsed' = lapsed
    BY <1>7 DEF Release
  <2>2. NoEntry.claims = {} /\ NoEntry.id = 0
    BY DEF NoEntry
  <2> QED
    BY <1>2, <1>3, <2>1, <2>2, EmptyEntry DEF Exclusion
<1> QED
  BY <1>4, <1>5, <1>6, <1>7

\* What an admission does to its own entry.
LEMMA AdmissionKeepsExclusion ==
    ASSUME Exclusion, TypeOK', NEW t \in Tasks, AskAdmission(t)
    PROVE  Exclusion'
<1> USE BoardAssumption
<1>1. /\ board \in [Tasks -> Entry] /\ board[t] \in Entry /\ t \in Procs /\ Doctor \in Procs /\ t # Doctor
      /\ data \in [Procs -> [Tasks -> Entry]] /\ pc \in [Procs -> {"idle", "admit", "gate", "publish", "fix"}]
  BY DEF Exclusion, TypeOK, Procs
<1>2. PICK scope \in Scopes \cup {board[t].scope} :
         /\ lock = Nobody /\ lock' = t
         /\ data' = [data EXCEPT ![t] = [board EXCEPT ![t].scope = scope, ![t].fresh = TRUE]]
         /\ mine' = [mine EXCEPT ![t] = scope \cup edits[t]]
  BY DEF AskAdmission, Open, LockFree
<1>3. /\ pc' = [pc EXCEPT ![t] = "admit"] /\ board' = board /\ edits' = edits /\ tree' = tree
      /\ lapsed' = lapsed /\ todo' = [todo EXCEPT ![t] = Registered(board) \ {t}]
  BY DEF AskAdmission, Goto, worldVars
<1>4. \A p \in Procs : pc[p] \notin {"admit", "fix"}
  BY <1>2 DEF Exclusion, WriterLocks, Procs
<1>5. WriterLocks'
  BY <1>1, <1>2, <1>3, <1>4 DEF WriterLocks, Procs
<1>6. ReadIsBoard'
  <2>1. [board EXCEPT ![t].scope = scope, ![t].fresh = TRUE]
          = [board EXCEPT ![t] = [board[t] EXCEPT !.scope = scope, !.fresh = TRUE]]
    BY <1>1
  <2>2. /\ data'[t][t] = [board[t] EXCEPT !.scope = scope, !.fresh = TRUE]
        /\ \A u \in Tasks \ {t} : data'[t][u] = board[u]
    BY <1>1, <1>2, <2>1
  <2>3. /\ data'[t][t].id = board[t].id /\ data'[t][t].claims = board[t].claims
        /\ data'[t][t].acks = board[t].acks
        /\ data'[t][t].fresh /\ data'[t][t].scope = scope
    BY <1>1, <2>2 DEF Entry
  <2>4. mine'[t] = Candidates(data[t], t)'
    BY <1>2, <1>3, <2>3 DEF Candidates, Exclusion, TypeOK
  <2>5. \A p \in Procs \ {t} : pc'[p] \notin {"admit", "fix"}
    BY <1>1, <1>3, <1>4
  <2> QED
    BY <1>1, <1>3, <2>2, <2>3, <2>4, <2>5 DEF ReadIsBoard, Procs, Candidates
<1>7. SeenIsFound'
  BY <1>1, <1>3, <1>4 DEF SeenIsFound, Registered, Procs, Exclusion, TypeOK
<1>8. LapsedIsKnown' /\ ClaimsAreExclusive'
  BY <1>3, ClaimsStay DEF Exclusion, LapsedIsKnown, Registered
<1> QED
  BY <1>5, <1>6, <1>7, <1>8 DEF Exclusion

\* A look at a sibling finds every overlap with it that has no excuse.
LEMMA LookKeepsExclusion ==
    ASSUME Exclusion, TypeOK', NEW t \in Tasks, NEW u \in Tasks, LookAt(t, u)
    PROVE  Exclusion'
<1> USE BoardAssumption
<1>1. /\ UNCHANGED <<pc, lock, data, mine, board, edits, tree, lapsed>>
      /\ todo' = [todo EXCEPT ![t] = @ \ {u}]
  BY DEF LookAt, worldVars
<1>2. (WriterLocks /\ ReadIsBoard /\ LapsedIsKnown)' /\ ClaimsAreExclusive'
  BY <1>1, ClaimsStay DEF Exclusion, WriterLocks, ReadIsBoard, Candidates, LapsedIsKnown, Registered
<1>3. PICK active \in Looks(data[t], u) :
         hits' = IF active THEN [hits EXCEPT ![t] = @ \cup Conflicts(data[t], t, u, mine[t])] ELSE hits
  BY DEF LookAt
<1>4. /\ \A s \in Tasks : hits[s] \subseteq hits'[s]
      /\ active => Conflicts(data[t], t, u, mine[t]) \subseteq hits'[t]
  BY <1>3 DEF Exclusion, TypeOK
<1>5. SeenIsFound'
  <2> SUFFICES ASSUME NEW s \in Tasks, pc[s] = "admit",
                      NEW v \in Registered(board) \ ({s} \cup todo'[s]),
                      NEW path \in mine[s] \cap board[v].claims
               PROVE  Excused(s, v, path) \/ <<board[v].id, path>> \in hits'[s]
    BY <1>1, ExcusedStays DEF SeenIsFound, Registered, Excused
  <2>1. CASE v \notin todo[s]
    BY <1>4, <2>1 DEF Exclusion, SeenIsFound
  <2>2. CASE v \in todo[s]
    <3>1. s = t /\ v = u /\ u # t
      BY <1>1, <2>2 DEF Exclusion, TypeOK
    <3>2. /\ data[t][u] = board[u] /\ data[t][t].acks = board[t].acks
      BY <3>1 DEF Exclusion, ReadIsBoard, Registered
    <3>3. CASE active
      BY <1>4, <3>1, <3>2, <3>3 DEF Conflicts, Owned, Acknowledged, Excused
    <3>4. CASE ~active
      <4>1. tree[u] # "work" \/ ~board[u].fresh
        BY <1>3, <3>2, <3>4 DEF Looks, Exclusion, TypeOK
      <4>2. board[u].id \in lapsed
        BY <3>1, <4>1 DEF Exclusion, LapsedIsKnown
      <4> QED
        BY <3>1, <4>2 DEF Excused
    <3> QED
      BY <3>3, <3>4, <1>3 DEF Looks
  <2> QED
    BY <2>1, <2>2
<1> QED
  BY <1>2, <1>5 DEF Exclusion

\* The end of an admission: a RUN claims what was looked at, a WAIT claims nothing new.
LEMMA DecisionKeepsExclusion ==
    ASSUME Exclusion, TypeOK', NEW t \in Tasks, Admit(t) \/ Wait(t)
    PROVE  Exclusion'
<1> USE BoardAssumption
<1>1. /\ pc[t] = "admit" /\ todo[t] = {} /\ tree' = tree /\ lapsed' = lapsed
      /\ pc' = [pc EXCEPT ![t] = "idle"]
  BY DEF Admit, Wait, Leave, Goto, worldVars
<1>2. /\ t \in Procs /\ lock = t /\ data[t] \in [Tasks -> Entry] /\ data[t][t] \in Entry
      /\ pc \in [Procs -> {"idle", "admit", "gate", "publish", "fix"}]
  BY <1>1 DEF Exclusion, TypeOK, WriterLocks, Procs
<1>3. (WriterLocks /\ ReadIsBoard /\ SeenIsFound)'
  <2>1. \A p \in Procs : pc'[p] \notin {"admit", "fix"}
    BY <1>1, <1>2 DEF Exclusion, WriterLocks, Procs
  <2> QED
    BY <2>1, NobodyWrites
<1>4. /\ \A u \in Tasks \ {t} : data[t][u] = board[u]
      /\ data[t][t].id = board[t].id /\ data[t][t].acks = board[t].acks /\ data[t][t].fresh
      /\ mine[t] = Candidates(data[t], t)
  BY <1>1 DEF Exclusion, ReadIsBoard
<1>5. /\ \A u \in Tasks \ {t} : board'[u] = board[u]
      /\ board'[t].id = board[t].id /\ board'[t].acks = board[t].acks /\ board'[t].fresh
  <2>1. CASE Admit(t)
    <3>1. board' = [data[t] EXCEPT ![t] = [data[t][t] EXCEPT !.claims = ClaimsOf(data[t], t)]]
      BY <1>2, <2>1 DEF Admit
    <3>2. board'[t] = [data[t][t] EXCEPT !.claims = ClaimsOf(data[t], t)]
      BY <1>2, <3>1
    <3> QED
      BY <1>2, <1>4, <3>1, <3>2 DEF Entry
  <2>2. CASE Wait(t)
    BY <1>4, <2>2 DEF Wait
  <2> QED
    BY <2>1, <2>2
<1>6. LapsedIsKnown'
  BY <1>1, <1>5 DEF Exclusion, LapsedIsKnown, Registered
<1>7. CASE Admit(t)
  <2>1. board'[t].claims = mine[t] /\ hits[t] = {}
    <3>1. board' = [data[t] EXCEPT ![t] = [data[t][t] EXCEPT !.claims = mine[t]]]
      BY <1>2, <1>4, <1>7 DEF Admit, ClaimsOf
    <3> QED
      BY <1>2, <1>7, <3>1 DEF Admit, Entry
  <2>2. ASSUME NEW u \in Registered(board)', NEW path \in board'[t].claims \cap board'[u].claims,
               u # t, t \in Registered(board)'
        PROVE  Excused(t, u, path)' /\ Excused(u, t, path)'
    <3>1. u \in Registered(board) \ {t} /\ board'[u] = board[u]
      BY <1>5, <2>2 DEF Registered
    <3>2. Excused(t, u, path)
      BY <1>1, <2>1, <2>2, <3>1 DEF Exclusion, SeenIsFound
    <3> QED
      BY <1>1, <1>5, <3>1, <3>2 DEF Excused
  <2>3. ASSUME NEW u \in Registered(board)', NEW v \in Registered(board)', u # v, u # t, v # t,
               NEW path \in board'[u].claims \cap board'[v].claims
        PROVE  Excused(u, v, path)'
    <3>1. u \in Registered(board) /\ v \in Registered(board) /\ board'[u] = board[u] /\ board'[v] = board[v]
      BY <1>5, <2>3 DEF Registered
    <3>2. Excused(u, v, path)
      BY <2>3, <3>1 DEF Exclusion, ClaimsAreExclusive
    <3> QED
      BY <1>1, <3>1, <3>2 DEF Excused
  <2> QED
    BY <1>3, <1>6, <2>2, <2>3 DEF ClaimsAreExclusive, Exclusion
<1>8. CASE Wait(t)
  <2>1. data[t][t].claims = board[t].claims /\ board' = data[t]
    BY <1>1, <1>8 DEF Wait, Exclusion, ReadIsBoard
  <2>2. ClaimsAreExclusive'
    BY <1>1, <1>5, <2>1, ClaimsStay DEF Exclusion
  <2> QED
    BY <1>3, <1>6, <2>2 DEF Exclusion
<1> QED
  BY <1>7, <1>8

\* An agent's command.
LEMMA CommandKeepsExclusion ==
    ASSUME Exclusion, TypeOK', NEW t \in Tasks, Command(t)
    PROVE  Exclusion'
<1> USE BoardAssumption
<1>1. CASE StartGate(t) \/ LeaveGate(t)
  <2>1. /\ board' = board /\ lapsed' = lapsed /\ lock' = lock /\ edits' = edits /\ tree' = tree
        /\ pc'[t] \in {"gate", "publish", "idle"} /\ t \in Procs
        /\ \A q \in Procs \ {t} : pc'[q] = pc[q] /\ data'[q] = data[q]
        /\ \A s \in Tasks \ {t} : mine'[s] = mine[s] /\ todo'[s] = todo[s] /\ hits'[s] = hits[s]
    BY <1>1 DEF StartGate, LeaveGate, Goto, Forget, worldVars, Exclusion, TypeOK, Procs
  <2>2. (WriterLocks /\ ReadIsBoard /\ SeenIsFound /\ ClaimsAreExclusive)'
    BY <2>1, Aside
  <2>3. LapsedIsKnown'
    BY <2>1 DEF Exclusion, LapsedIsKnown, Registered
  <2> QED
    BY <2>2, <2>3 DEF Exclusion
<1>2. CASE \E u \in Tasks : LookAt(t, u)
  BY <1>2, LookKeepsExclusion
<1>3. CASE Admit(t) \/ Wait(t)
  BY <1>3, DecisionKeepsExclusion
<1>4. CASE AskAdmission(t)
  BY <1>4, AdmissionKeepsExclusion
<1>5. CASE Register(t) \/ Update(t) \/ Acknowledge(t) \/ Release(t)
  BY <1>5, OneStepCommands
<1> QED
  BY <1>1, <1>2, <1>3, <1>4, <1>5 DEF Command

\* The worktrees, GitHub and the clock.
LEMMA WorldKeepsExclusion ==
    ASSUME Exclusion, TypeOK', NEW t \in Tasks, World(t)
    PROVE  Exclusion'
<1> USE BoardAssumption
<1>0. /\ t \in Procs /\ Doctor \in Procs /\ t # Doctor
      /\ board \in [Tasks -> Entry] /\ data \in [Procs -> [Tasks -> Entry]]
      /\ tree \in [Tasks -> {"absent", "work", "merged"}] /\ edits \in [Tasks -> SUBSET Paths]
      /\ pc \in [Procs -> {"idle", "admit", "gate", "publish", "fix"}]
  BY DEF Exclusion, TypeOK, Procs
<1>1. ASSUME Lapse(t), board' = board
      PROVE  lapsed \subseteq lapsed' /\ (t \in Registered(board)' => board'[t].id \in lapsed')
  BY <1>1 DEF Lapse, Registered
<1>2. CASE CreateWorktree(t) \/ RemoveWorktree(t) \/ Commit(t) \/ Publish(t)
  <2>1. /\ board' = board /\ lock' = lock /\ data' = data /\ mine' = mine /\ todo' = todo /\ hits' = hits
        /\ pc'[t] = "idle"
        /\ \A q \in Procs \ {t} : pc'[q] = pc[q]
        /\ \A s \in Tasks \ {t} : edits'[s] = edits[s] /\ tree'[s] = tree[s]
    BY <1>0, <1>2 DEF CreateWorktree, RemoveWorktree, Commit, Publish, Goto, commandVars
  <2>2. lapsed' = lapsed \/ Lapse(t)
    BY <1>2 DEF CreateWorktree, RemoveWorktree, Commit, Publish
  <2>3. tree'[t] = "work" \/ tree'[t] = tree[t] \/ Lapse(t)
    BY <1>0, <1>2 DEF CreateWorktree, RemoveWorktree, Commit, Publish
  <2>4. lapsed \subseteq lapsed'
    BY <1>1, <2>1, <2>2
  <2>5. LapsedIsKnown'
    BY <1>1, <2>1, <2>3, <2>4 DEF Exclusion, LapsedIsKnown, Registered
  <2>6. (WriterLocks /\ ReadIsBoard /\ SeenIsFound /\ ClaimsAreExclusive)'
    BY <1>0, <2>1, <2>4, Aside
  <2> QED
    BY <2>5, <2>6 DEF Exclusion
<1>3. CASE Expire(t)
  <2>1. /\ UNCHANGED <<pc, lock, mine, todo, hits, edits, tree>>
        /\ lock # t /\ pc[t] # "admit"
    BY <1>3 DEF Expire, worldVars, Exclusion, WriterLocks
  <2>2. /\ \A u \in Tasks \ {t} : board'[u] = board[u]
        /\ board'[t] = [board[t] EXCEPT !.fresh = FALSE]
        /\ \A p \in Procs : data'[p] = [data[p] EXCEPT ![t].fresh = FALSE]
        /\ board' = [board EXCEPT ![t].fresh = FALSE]
    BY <1>0, <1>3 DEF Expire
  <2>3. /\ board'[t].id = board[t].id /\ board'[t].claims = board[t].claims /\ board'[t].acks = board[t].acks
    BY <1>0, <2>2 DEF Entry
  <2>4. lapsed \subseteq lapsed' /\ (t \in Registered(board)' => board'[t].id \in lapsed')
    BY <1>3, <2>3 DEF Expire, Lapse, Registered
  <2>5. WriterLocks' /\ LapsedIsKnown'
    BY <2>1, <2>2, <2>4 DEF Exclusion, WriterLocks, LapsedIsKnown, Registered
  <2>6. ReadIsBoard'
    <3>1. ASSUME NEW s \in Tasks, pc[s] = "admit"
          PROVE  /\ data'[s][s] = data[s][s] /\ board'[s] = board[s]
                 /\ \A u \in Tasks \ {s} : data'[s][u] = board'[u]
      <4>1. s # t /\ s \in Procs /\ data[s] \in [Tasks -> Entry]
        BY <1>0, <2>1, <3>1 DEF Procs
      <4>2. data'[s] = [data[s] EXCEPT ![t].fresh = FALSE]
        BY <2>2, <4>1
      <4>3. data'[s][t] = [data[s][t] EXCEPT !.fresh = FALSE] /\ \A u \in Tasks \ {t} : data'[s][u] = data[s][u]
        BY <4>1, <4>2
      <4>4. \A u \in Tasks \ {s} : data[s][u] = board[u]
        BY <3>1 DEF Exclusion, ReadIsBoard
      <4>5. data'[s][t] = board'[t]
        BY <2>2, <4>1, <4>3, <4>4
      <4> QED
        BY <2>2, <4>1, <4>3, <4>4, <4>5
    <3>2. ASSUME pc[Doctor] = "fix"
          PROVE  data'[Doctor] = board'
      <4>1. data[Doctor] = board
        BY <3>2 DEF Exclusion, ReadIsBoard
      <4>2. data'[Doctor] = [data[Doctor] EXCEPT ![t].fresh = FALSE]
        BY <1>0, <2>2
      <4> QED
        BY <2>2, <4>1, <4>2
    <3>3. ReadIsBoard
      BY DEF Exclusion
    <3> QED
      BY <2>1, <3>1, <3>2, <3>3 DEF ReadIsBoard, Candidates
  <2>7. SeenIsFound'
    <3> SUFFICES ASSUME NEW s \in Tasks, pc[s] = "admit",
                        NEW v \in Registered(board)' \ ({s} \cup todo[s]),
                        NEW path \in mine[s] \cap board'[v].claims
                 PROVE  Excused(s, v, path)' \/ <<board'[v].id, path>> \in hits[s]
      BY <2>1 DEF SeenIsFound
    <3>1. \A u \in Tasks : /\ board'[u].id = board[u].id /\ board'[u].claims = board[u].claims
                           /\ board'[u].acks = board[u].acks
      BY <2>2, <2>3
    <3>2. v \in Registered(board) /\ v \in Tasks /\ path \in board[v].claims
      BY <3>1 DEF Registered
    <3>3. Excused(s, v, path) \/ <<board[v].id, path>> \in hits[s]
      BY <3>2 DEF Exclusion, SeenIsFound
    <3> QED
      BY <2>4, <3>1, <3>2, <3>3 DEF Excused
  <2>8. ClaimsAreExclusive'
    BY <2>2, <2>3, <2>4, ClaimsStay DEF Exclusion
  <2> QED
    BY <2>5, <2>6, <2>7, <2>8 DEF Exclusion
<1> QED
  BY <1>2, <1>3 DEF World

\* The doctor, and whoever is refused.
LEMMA DoctorKeepsExclusion ==
    ASSUME Exclusion, TypeOK', Diagnose \/ Fix \/ \E p \in Procs : Refuse(p)
    PROVE  Exclusion'
<1> USE BoardAssumption
<1>0. /\ Doctor \in Procs /\ Doctor \notin Tasks
      /\ board \in [Tasks -> Entry] /\ data \in [Procs -> [Tasks -> Entry]]
      /\ pc \in [Procs -> {"idle", "admit", "gate", "publish", "fix"}]
  BY DEF Exclusion, TypeOK, Procs
<1>1. CASE Diagnose
  <2>1. /\ lock = Nobody /\ lock' = Doctor /\ pc' = [pc EXCEPT ![Doctor] = "fix"]
        /\ data' = [data EXCEPT ![Doctor] = board]
        /\ UNCHANGED <<mine, todo, hits, board, tree, edits, lapsed>>
    BY <1>1 DEF Diagnose, Open, LockFree, Goto, worldVars
  <2>2. \A p \in Procs : pc[p] \notin {"admit", "fix"}
    BY <2>1 DEF Exclusion, WriterLocks, Procs
  <2>3. \A t \in Tasks : pc'[t] \notin {"admit", "fix"}
    BY <1>0, <2>1, <2>2 DEF Procs
  <2>4. WriterLocks' /\ ReadIsBoard' /\ SeenIsFound'
    BY <1>0, <2>1, <2>3 DEF WriterLocks, ReadIsBoard, SeenIsFound
  <2>5. LapsedIsKnown' /\ ClaimsAreExclusive'
    BY <2>1, ClaimsStay DEF Exclusion, LapsedIsKnown, Registered
  <2> QED
    BY <2>4, <2>5 DEF Exclusion
<1>2. CASE Fix
  <2>1. /\ pc[Doctor] = "fix" /\ pc' = [pc EXCEPT ![Doctor] = "idle"] /\ tree' = tree /\ lapsed' = lapsed
        /\ \A t \in Tasks : board'[t] = NoEntry \/ board'[t] = board[t]
    BY <1>2 DEF Fix, Leave, Goto, worldVars, Exclusion, ReadIsBoard
  <2>2. \A p \in Procs : pc'[p] \notin {"admit", "fix"}
    BY <1>0, <2>1 DEF Exclusion, WriterLocks, Procs
  <2>3. (WriterLocks /\ ReadIsBoard /\ SeenIsFound)'
    BY <2>2, NobodyWrites
  <2>4. LapsedIsKnown'
    BY <2>1 DEF Exclusion, LapsedIsKnown, Registered, NoEntry
  <2>5. ClaimsAreExclusive'
    <3>1. NoEntry.claims = {}
      BY DEF NoEntry
    <3> QED
      BY <2>1, <3>1, ClaimsStay DEF Exclusion
  <2> QED
    BY <2>3, <2>4, <2>5 DEF Exclusion
<1>3. ASSUME NEW p \in Procs, Refuse(p)
      PROVE  Exclusion'
  <2>1. /\ board' = board /\ tree' = tree /\ edits' = edits /\ lapsed' = lapsed
        /\ pc'[p] = "idle"
        /\ \A q \in Procs \ {p} : pc'[q] = pc[q] /\ data'[q] = data[q] /\ (lock = q => lock' = q)
    BY <1>0, <1>3 DEF Refuse, Leave, Goto, worldVars
  <2>2. \A s \in Tasks \ {p} : mine'[s] = mine[s] /\ todo'[s] = todo[s] /\ hits'[s] = hits[s]
    BY <1>3 DEF Refuse, Forget, Exclusion, TypeOK
  <2>3. (WriterLocks /\ ReadIsBoard /\ SeenIsFound /\ ClaimsAreExclusive)'
    BY <2>1, <2>2, Aside
  <2>4. LapsedIsKnown'
    BY <2>1 DEF Exclusion, LapsedIsKnown, Registered
  <2> QED
    BY <2>3, <2>4 DEF Exclusion
<1> QED
  BY <1>1, <1>2, <1>3

\* Every step keeps the invariant.
LEMMA ExclusionHolds == Spec => []Exclusion
<1>1. Init => Exclusion
  <2> SUFFICES ASSUME Init
               PROVE  Exclusion
    OBVIOUS
  <2>1. TypeOK
    BY TypeAtInit
  <2>2. \A p \in Procs : pc[p] = "idle"
    BY DEF Init
  <2>3. Registered(board) = {}
    BY DEF Init, Registered, NoBoard, NoEntry
  <2> QED
    BY <2>1, <2>2, <2>3 DEF Exclusion, WriterLocks, ReadIsBoard, LapsedIsKnown, SeenIsFound,
                            ClaimsAreExclusive, Procs
<1>2. Exclusion /\ TypeOK' /\ [Next]_vars => Exclusion'
  <2> SUFFICES ASSUME Exclusion, TypeOK', [Next]_vars
               PROVE  Exclusion'
    OBVIOUS
  <2>1. CASE UNCHANGED vars
    BY <2>1 DEF vars, commandVars, worldVars, Exclusion, WriterLocks, ReadIsBoard, LapsedIsKnown,
                SeenIsFound, ClaimsAreExclusive, Excused, Registered, Candidates
  <2> QED
    BY <2>1, CommandKeepsExclusion, WorldKeepsExclusion, DoctorKeepsExclusion DEF Next
<1> QED
  BY <1>1, <1>2, TypeCorrect, PTL DEF Spec

\* Two admitted tasks never claim the same file without an excuse, for any number of tasks,
\* files and registrations: the decision is recorded under the lock under which the board
\* was read, and each sibling is looked at in between (cmd_admit, _admission_conflicts).
THEOREM ClaimsExclusive == Spec => []ClaimsAreExclusive
<1>1. Exclusion => ClaimsAreExclusive
  BY DEF Exclusion
<1> QED
  BY <1>1, ExclusionHolds, PTL

-----------------------------------------------------------------------------
(* Nobody writes back an old entry of another task. *)

\* The doctor removes entries whose owner had gone or had merged when it looked.
DoomedLapsed == pc[Doctor] = "fix" => \A u \in doomed : board[u].id \in lapsed

\* The doctor's list stays right until the entries are removed: nobody else writes meanwhile.
LEMMA DoomedStays ==
    ASSUME Exclusion, DoomedLapsed, TypeOK', [Next]_vars
    PROVE  DoomedLapsed'
<1> USE BoardAssumption
<1> SUFFICES ASSUME pc'[Doctor] = "fix", NEW u \in doomed'
             PROVE  board'[u].id \in lapsed'
  BY DEF DoomedLapsed
<1>0. /\ Doctor \in Procs /\ Doctor \notin Tasks /\ board \in [Tasks -> Entry] /\ u \in Tasks
      /\ data \in [Procs -> [Tasks -> Entry]]
      /\ pc \in [Procs -> {"idle", "admit", "gate", "publish", "fix"}]
  BY DEF Exclusion, TypeOK, Procs, Registered
<1>1. ASSUME pc[Doctor] = "fix", doomed' = doomed, board' = board, lapsed \subseteq lapsed'
      PROVE  board'[u].id \in lapsed'
  BY <1>1 DEF DoomedLapsed, Registered
<1>2. CASE Diagnose
  <2>1. u \in Registered(board) /\ tree[u] # "work" /\ board' = board /\ lapsed' = lapsed
    BY <1>2 DEF Diagnose, Registered
  <2> QED
    BY <2>1 DEF Exclusion, LapsedIsKnown
<1>3. CASE Fix
  BY <1>0, <1>3 DEF Fix, Leave, Goto
<1>4. ASSUME NEW p \in Procs, Refuse(p)
      PROVE  board'[u].id \in lapsed'
  <2>1. p # Doctor /\ pc[Doctor] = "fix" /\ doomed' = doomed /\ board' = board /\ lapsed' = lapsed
    BY <1>0, <1>4 DEF Refuse, Leave, Goto
  <2> QED
    BY <1>1, <2>1
<1>5. ASSUME NEW t \in Tasks, Command(t)
      PROVE  board'[u].id \in lapsed'
  <2>1. pc[Doctor] = "fix" /\ lock = Doctor
    BY <1>0, <1>5 DEF Command, Register, Update, Acknowledge, Release, AskAdmission, LookAt, Admit, Wait,
                      StartGate, LeaveGate, Leave, Goto, commandVars, Exclusion, WriterLocks
  <2>2. doomed' = doomed /\ board' = board /\ lapsed' = lapsed
    BY <1>0, <1>5, <2>1 DEF Command, Register, Update, Acknowledge, Release, AskAdmission, LookAt, Admit, Wait,
                      StartGate, LeaveGate, Open, LockFree, Exclusion, WriterLocks, Procs
  <2> QED
    BY <1>1, <2>1, <2>2
<1>6. ASSUME NEW t \in Tasks, World(t)
      PROVE  board'[u].id \in lapsed'
  <2>1. pc[Doctor] = "fix" /\ doomed' = doomed /\ lapsed \subseteq lapsed'
    BY <1>0, <1>6 DEF World, CreateWorktree, RemoveWorktree, Commit, Publish, Expire, Lapse, Goto, commandVars
  <2>2. CASE Expire(t)
    <3>1. board'[u].id = board[u].id
      <4>1. board'[u] = board[u] \/ board'[u] = [board[u] EXCEPT !.fresh = FALSE]
        BY <1>0, <2>2 DEF Expire
      <4> QED
        BY <1>0, <4>1 DEF Entry
    <3> QED
      BY <2>1, <3>1 DEF DoomedLapsed, Registered
  <2>3. CASE ~Expire(t)
    BY <1>1, <1>6, <2>1, <2>3 DEF World, CreateWorktree, RemoveWorktree, Commit, Publish
  <2> QED
    BY <2>2, <2>3
<1>7. CASE UNCHANGED vars
  BY <1>1, <1>7 DEF vars, commandVars
<1> QED
  BY <1>2, <1>3, <1>4, <1>5, <1>6, <1>7 DEF Next

\* One step changes an entry only as its own task, the clock or the doctor may.
LEMMA EntryChanges ==
    ASSUME Exclusion, DoomedLapsed, [Next]_vars, NEW t \in Tasks, board'[t] # board[t]
    PROVE  \/ pc[t] # pc'[t] \/ UNCHANGED commandVars
           \/ board'[t] = [board[t] EXCEPT !.fresh = FALSE]
           \/ board'[t] = NoEntry /\ pc[Doctor] = "fix" /\ board[t].id \in lapsed
<1> USE BoardAssumption
<1>0. /\ board \in [Tasks -> Entry] /\ data \in [Procs -> [Tasks -> Entry]] /\ t \in Procs
      /\ pc \in [Procs -> {"idle", "admit", "gate", "publish", "fix"}]
  BY DEF Exclusion, TypeOK, Procs
<1>1. ASSUME NEW s \in Tasks, Admit(s) \/ Wait(s)
      PROVE  pc[t] # pc'[t]
  <2>1. /\ \A u \in Tasks \ {s} : data[s][u] = board[u] 
        /\ data[s] \in [Tasks -> Entry] /\ pc[s] = "admit" /\ pc' = [pc EXCEPT ![s] = "idle"]
    BY <1>0, <1>1 DEF Admit, Wait, Leave, Goto, Exclusion, ReadIsBoard, Procs
  <2>2. s = t
    BY <1>1, <2>1 DEF Admit, Wait
  <2> QED
    BY <1>0, <2>1, <2>2
<1>2. ASSUME NEW s \in Tasks, Command(s), ~(Admit(s) \/ Wait(s))
      PROVE  UNCHANGED commandVars
  BY <1>2 DEF Command, Register, Update, Acknowledge, Release, AskAdmission, LookAt, StartGate, LeaveGate
<1>3. ASSUME NEW s \in Tasks, World(s)
      PROVE  board'[t] = [board[t] EXCEPT !.fresh = FALSE]
  BY <1>0, <1>3 DEF World, CreateWorktree, RemoveWorktree, Commit, Publish, Expire
<1>4. CASE Fix
  <2>1. /\ pc[Doctor] = "fix" /\ data[Doctor] = board
        /\ board'[t] = IF t \in doomed THEN NoEntry ELSE data[Doctor][t]
    BY <1>4 DEF Fix, Exclusion, ReadIsBoard
  <2> QED
    BY <2>1 DEF DoomedLapsed
<1>5. CASE Diagnose \/ (\E p \in Procs : Refuse(p)) \/ UNCHANGED vars
  BY <1>5 DEF Diagnose, Refuse, vars
<1> QED
  BY <1>1, <1>2, <1>3, <1>4, <1>5 DEF Next

\* Nobody writes back an old entry of another task, and the doctor removes only entries whose
\* owner it saw gone or merged (locked_json, cmd_doctor).
THEOREM NoUpdateIsLost == Spec => NoLostUpdate
<1>1. Init => DoomedLapsed
  BY DEF Init, DoomedLapsed, Procs
<1>2. Exclusion /\ TypeOK' /\ DoomedLapsed /\ [Next]_vars => DoomedLapsed'
  BY DoomedStays
<1> DEFINE EntriesKept ==
      \A t \in Tasks : board'[t] # board[t] =>
          \/ pc[t] # pc'[t] \/ UNCHANGED commandVars
          \/ board'[t] = [board[t] EXCEPT !.fresh = FALSE]
          \/ board'[t] = NoEntry /\ pc[Doctor] = "fix" /\ board[t].id \in lapsed
<1>3. Exclusion /\ DoomedLapsed /\ [Next]_vars => EntriesKept
  BY EntryChanges
<1> HIDE DEF EntriesKept
<1>4. Spec => [][EntriesKept]_vars
  BY <1>1, <1>2, <1>3, ExclusionHolds, TypeCorrect, PTL DEF Spec
<1> QED
  BY <1>4 DEF NoLostUpdate, EntriesKept

-----------------------------------------------------------------------------
(* Two publications behind the gate never carry the same file. *)

Passing(t) == pc[t] \in {"gate", "publish"}

\* A task in or behind the gate: its worktree is live, it asks for all that it changes, and
\* the acknowledgments it has read still stand, unless the doctor has removed its entry.
GateKnown(t) ==
    /\ Passing(t) => tree[t] = "work"
    /\ pc[t] = "gate" => /\ edits[t] \subseteq mine[t]
                         /\ board[t].id = 0 \/ data[t][t].acks \subseteq board[t].acks

\* The gate of t will not let it pass before it has looked at the present entry of u.
Owes(t, u) ==
    /\ pc[t] = "gate"
    /\ \/ hits[t] # {}
       \/ u \in todo[t] /\ data[t][u].id = board[u].id /\ (data[t][u].fresh \/ board[u].id \in lapsed)

\* Of two tasks in or behind the gate, the later one looks at what the earlier one changes.
Settled(t, u) == \A path \in edits[t] \cap edits[u] : Excused(t, u, path)

GateInv ==
    /\ \A t \in Tasks : GateKnown(t)
    /\ \A t, u \in Tasks : t # u /\ Passing(t) /\ Passing(u) =>
          Settled(t, u) \/ Owes(t, u) \/ Owes(u, t)

\* A process acts alone: what the commands of the others have, stays.
Alone(p) ==
    \A t \in Tasks \ {p} :
        /\ pc'[t] = pc[t] /\ mine'[t] = mine[t] /\ todo'[t] = todo[t] /\ hits'[t] = hits[t]
        /\ data'[t] = data[t] /\ edits'[t] = edits[t] /\ tree'[t] = tree[t]

\* An entry whose task is in or behind the gate keeps its id and its acknowledgments, or goes.
EntriesStay ==
    \A t \in Tasks : Passing(t) =>
        \/ board'[t].id = 0
        \/ board'[t].id = board[t].id /\ board[t].acks \subseteq board'[t].acks

\* What is settled stays settled.
LEMMA SettledStays ==
    ASSUME NEW t \in Tasks, NEW u \in Tasks, Settled(t, u), Passing(t), Passing(u), EntriesStay,
           lapsed \subseteq lapsed', edits'[t] = edits[t], edits'[u] = edits[u]
    PROVE  Settled(t, u)'
<1> SUFFICES ASSUME NEW path \in edits[t] \cap edits[u]
             PROVE  Excused(t, u, path)'
  BY DEF Settled
<1>1. Excused(t, u, path)
  BY DEF Settled
<1>2. CASE board'[t].id = 0 \/ board'[u].id = 0
  BY <1>2 DEF Excused
<1>3. CASE board'[t].id # 0 /\ board'[u].id # 0
  BY <1>1, <1>3, ExcusedStays DEF EntriesStay
<1> QED
  BY <1>2, <1>3

\* A look that is owed stays owed, or the entry to be looked at is gone.
LEMMA OweStays ==
    ASSUME NEW t \in Tasks, NEW u \in Tasks, Owes(t, u), Passing(u), EntriesStay,
           lapsed \subseteq lapsed', pc'[t] = pc[t], todo'[t] = todo[t], hits'[t] = hits[t], data'[t] = data[t]
    PROVE  Settled(t, u)' \/ Owes(t, u)'
<1>1. CASE board'[u].id = 0
  BY <1>1 DEF Settled, Excused
<1>2. CASE board'[u].id = board[u].id
  BY <1>2 DEF Owes
<1> QED
  BY <1>1, <1>2 DEF EntriesStay

\* A process that is not in the gate afterwards disturbs none that is.
LEMMA OutsiderKeepsGate ==
    ASSUME GateInv, NEW p \in Procs, Alone(p), EntriesStay, lapsed \subseteq lapsed',
           p \in Tasks => ~Passing(p)'
    PROVE  GateInv'
<1>1. ASSUME NEW t \in Tasks
      PROVE  GateKnown(t)'
  <2>1. CASE t = p
    BY <2>1 DEF GateKnown, Passing
  <2>2. CASE t # p
    BY <2>2 DEF GateInv, GateKnown, Passing, Alone, EntriesStay
  <2> QED
    BY <2>1, <2>2
<1>2. ASSUME NEW t \in Tasks, NEW u \in Tasks, t # u, Passing(t)', Passing(u)'
      PROVE  (Settled(t, u) \/ Owes(t, u) \/ Owes(u, t))'
  <2>1. t # p /\ u # p
    BY <1>2
  <2>2. /\ Passing(t) /\ Passing(u) /\ pc'[t] = pc[t] /\ pc'[u] = pc[u]
        /\ edits'[t] = edits[t] /\ edits'[u] = edits[u]
        /\ todo'[t] = todo[t] /\ hits'[t] = hits[t] /\ data'[t] = data[t]
        /\ todo'[u] = todo[u] /\ hits'[u] = hits[u] /\ data'[u] = data[u]
    BY <1>2, <2>1 DEF Alone, Passing
  <2>3. Settled(t, u) \/ Owes(t, u) \/ Owes(u, t)
    BY <1>2, <2>2 DEF GateInv
  <2>4. CASE Settled(t, u)
    BY <2>2, <2>4, SettledStays
  <2>5. CASE Owes(t, u)
    BY <2>2, <2>5, OweStays
  <2>6. CASE Owes(u, t)
    <3>1. Settled(u, t)' \/ Owes(u, t)'
      BY <2>2, <2>6, OweStays
    <3>2. Settled(u, t)' => Settled(t, u)'
      BY DEF Settled, Excused
    <3> QED
      BY <3>1, <3>2
  <2> QED
    BY <2>3, <2>4, <2>5, <2>6
<1> QED
  BY <1>1, <1>2 DEF GateInv

\* Nobody but its own task, the clock and the doctor changes the entry of a task in the gate.
LEMMA GateEntriesStay ==
    ASSUME Exclusion, TypeOK', Next
    PROVE  EntriesStay /\ lapsed \subseteq lapsed'
<1> USE BoardAssumption
<1>0. /\ board \in [Tasks -> Entry] /\ data \in [Procs -> [Tasks -> Entry]] /\ Doctor \in Procs
      /\ pc \in [Procs -> {"idle", "admit", "gate", "publish", "fix"}]
  BY DEF Exclusion, TypeOK, Procs
<1>1. ASSUME UNCHANGED <<board, lapsed>>
      PROVE  EntriesStay /\ lapsed \subseteq lapsed'
  BY <1>1 DEF EntriesStay, Passing
<1>2. ASSUME NEW t \in Tasks, Register(t) \/ Update(t) \/ Acknowledge(t) \/ Release(t)
      PROVE  EntriesStay /\ lapsed \subseteq lapsed'
  <2>1. /\ pc[t] = "idle" /\ \A u \in Tasks \ {t} : board'[u] = board[u]
        /\ lapsed \subseteq lapsed'
    BY <1>0, <1>2 DEF Register, Update, Acknowledge, Release
  <2> QED
    BY <2>1 DEF EntriesStay, Passing
<1>3. ASSUME NEW t \in Tasks, Admit(t) \/ Wait(t)
      PROVE  EntriesStay /\ lapsed \subseteq lapsed'
  <2>1. /\ pc[t] = "admit" /\ lapsed' = lapsed /\ t \in Procs
        /\ \A u \in Tasks \ {t} : board'[u] = data[t][u]
    BY <1>0, <1>3 DEF Admit, Wait, Procs
  <2>2. \A u \in Tasks \ {t} : data[t][u] = board[u]
    BY <2>1 DEF Exclusion, ReadIsBoard
  <2> QED
    BY <2>1, <2>2 DEF EntriesStay, Passing
<1>4. CASE Fix
  <2>1. /\ data[Doctor] = board /\ lapsed' = lapsed
        /\ \A u \in Tasks : board'[u] = IF u \in doomed THEN NoEntry ELSE data[Doctor][u]
    BY <1>4 DEF Fix, Exclusion, ReadIsBoard
  <2> QED
    BY <2>1 DEF EntriesStay, NoEntry
<1>5. ASSUME NEW t \in Tasks, Expire(t)
      PROVE  EntriesStay /\ lapsed \subseteq lapsed'
  <2>1. lapsed \subseteq lapsed' /\ board' = [board EXCEPT ![t].fresh = FALSE]
    BY <1>5 DEF Expire, Lapse
  <2>2. \A u \in Tasks : board'[u].id = board[u].id /\ board'[u].acks = board[u].acks
    <3>1. board'[t] = [board[t] EXCEPT !.fresh = FALSE] /\ \A u \in Tasks \ {t} : board'[u] = board[u]
      BY <1>0, <2>1
    <3>2. board'[t].id = board[t].id /\ board'[t].acks = board[t].acks
      BY <1>0, <3>1 DEF Entry
    <3> QED
      BY <3>1, <3>2
  <2> QED
    BY <2>1, <2>2 DEF EntriesStay
<1>6. ASSUME NEW t \in Tasks, RemoveWorktree(t) \/ Publish(t)
      PROVE  EntriesStay /\ lapsed \subseteq lapsed'
  <2>1. board' = board /\ lapsed \subseteq lapsed'
    BY <1>6 DEF RemoveWorktree, Publish, Lapse
  <2> QED
    BY <2>1 DEF EntriesStay
<1>7. ASSUME NEW t \in Tasks, \/ AskAdmission(t) \/ (\E u \in Tasks : LookAt(t, u)) \/ StartGate(t) \/ LeaveGate(t)
                              \/ CreateWorktree(t) \/ Commit(t)
      PROVE  EntriesStay /\ lapsed \subseteq lapsed'
  BY <1>1, <1>7 DEF AskAdmission, LookAt, StartGate, LeaveGate, CreateWorktree, Commit
<1>8. CASE Diagnose \/ (\E p \in Procs : Refuse(p))
  BY <1>1, <1>8 DEF Diagnose, Refuse
<1> QED
  BY <1>2, <1>3, <1>4, <1>5, <1>6, <1>7, <1>8 DEF Next, Command, World

\* The gate reads the board as it is: it owes a look at every task that is registered.
LEMMA StartKeepsGate ==
    ASSUME Exclusion, GateInv, NEW t \in Tasks, StartGate(t)
    PROVE  GateInv'
<1> USE BoardAssumption
<1>0. /\ board \in [Tasks -> Entry] /\ data \in [Procs -> [Tasks -> Entry]] /\ t \in Procs
      /\ pc \in [Procs -> {"idle", "admit", "gate", "publish", "fix"}]
      /\ mine \in [Tasks -> SUBSET Paths] /\ todo \in [Tasks -> SUBSET Tasks] /\ Tasks \subseteq Procs
  BY DEF Exclusion, TypeOK, Procs
<1>1. /\ pc' = [pc EXCEPT ![t] = "gate"] /\ data' = [data EXCEPT ![t] = board]
      /\ mine' = [mine EXCEPT ![t] = board[t].scope \cup edits[t]]
      /\ todo' = [todo EXCEPT ![t] = Registered(board) \ {t}]
      /\ tree[t] = "work" /\ pc[t] = "idle"
      /\ UNCHANGED <<hits, board, tree, edits, lapsed>>
  BY DEF StartGate, Goto, Candidates, worldVars
<1>2. /\ pc'[t] = "gate" /\ data'[t] = board /\ edits[t] \subseteq mine'[t] /\ todo'[t] = Registered(board) \ {t}
      /\ \A u \in Tasks \ {t} : pc'[u] = pc[u] /\ mine'[u] = mine[u] /\ todo'[u] = todo[u] /\ data'[u] = data[u]
  BY <1>0, <1>1
<1>3. \A u \in Tasks : GateKnown(u)'
  BY <1>1, <1>2 DEF GateInv, GateKnown, Passing
<1>4. ASSUME NEW u \in Tasks \ {t}, Passing(u)
      PROVE  Settled(t, u)' \/ Owes(t, u)'
  <2>1. CASE board[u].id = 0
    BY <1>1, <2>1 DEF Settled, Excused
  <2>2. CASE board[u].id # 0
    <3>1. u \in Registered(board) /\ (board[u].fresh \/ board[u].id \in lapsed)
      BY <2>2 DEF Exclusion, LapsedIsKnown, Registered
    <3> QED
      BY <1>1, <1>2, <3>1 DEF Owes
  <2> QED
    BY <2>1, <2>2
<1>5. ASSUME NEW u \in Tasks, NEW v \in Tasks, u # v, Passing(u)', Passing(v)'
      PROVE  (Settled(u, v) \/ Owes(u, v) \/ Owes(v, u))'
  <2>1. CASE u = t
    <3>1. Passing(v)
      BY <1>2, <1>5, <2>1 DEF Passing
    <3> QED
      BY <1>4, <1>5, <2>1, <3>1
  <2>2. CASE v = t
    <3>1. Passing(u)
      BY <1>2, <1>5, <2>2 DEF Passing
    <3>2. Settled(t, u)' => Settled(u, t)'
      BY DEF Settled, Excused
    <3> QED
      BY <1>4, <1>5, <2>2, <3>1, <3>2
  <2>3. CASE u # t /\ v # t
    <3>1. Passing(u) /\ Passing(v)
      BY <1>2, <1>5, <2>3 DEF Passing
    <3>2. Settled(u, v) \/ Owes(u, v) \/ Owes(v, u)
      BY <1>5, <3>1 DEF GateInv
    <3> QED
      BY <1>1, <1>2, <2>3, <3>2 DEF Settled, Excused, Owes
  <2> QED
    BY <2>1, <2>2, <2>3
<1> QED
  BY <1>3, <1>5 DEF GateInv

\* A look of the gate finds the file that both have changed, unless there is an excuse.
LEMMA GateLookSettles ==
    ASSUME Exclusion, GateInv, NEW t \in Tasks, NEW u \in Tasks, LookAt(t, u), pc[t] = "gate",
           Passing(u), t # u, Owes(t, u)
    PROVE  Settled(t, u)' \/ Owes(t, u)'
<1>1. /\ \E active \in Looks(data[t], u) :
             hits' = IF active THEN [hits EXCEPT ![t] = @ \cup Conflicts(data[t], t, u, mine[t])] ELSE hits
      /\ UNCHANGED <<pc, data, mine, board, edits, tree, lapsed>>
  BY DEF LookAt, worldVars
<1>2. hits \in [Tasks -> SUBSET (Nat \X Paths)]
  BY DEF Exclusion, TypeOK
<1>3. CASE hits[t] # {}
  BY <1>1, <1>2, <1>3 DEF Owes
<1>4. CASE hits[t] = {}
  <2>1. data[t][u].id = board[u].id /\ (data[t][u].fresh \/ board[u].id \in lapsed) /\ tree[u] = "work"
    BY <1>4 DEF Owes, GateInv, GateKnown
  <2>2. CASE board[u].id \in lapsed \/ board[t].id = 0
    BY <1>1, <2>2 DEF Settled, Excused
  <2>3. CASE data[t][u].fresh /\ board[u].id \notin lapsed /\ board[t].id # 0
    <3>1. hits' = [hits EXCEPT ![t] = @ \cup Conflicts(data[t], t, u, mine[t])]
      BY <1>1, <2>1, <2>3 DEF Looks
    <3>2. hits'[t] = Conflicts(data[t], t, u, mine[t])
      BY <1>2, <1>4, <3>1
    <3>3. edits[t] \subseteq mine[t] /\ data[t][t].acks \subseteq board[t].acks
      BY <2>3 DEF GateInv, GateKnown
    <3>4. ASSUME hits'[t] = {}, NEW path \in edits[t] \cap edits[u]
          PROVE  Excused(t, u, path)'
      <4>1. CASE path \in Generated
        BY <4>1 DEF Excused
      <4>2. CASE path \notin Generated
        <5>1. Acknowledged(data[t][t], data[t][u].id, path)
          BY <3>2, <3>3, <3>4, <4>2 DEF Conflicts, Owned
        <5> QED
          BY <1>1, <2>1, <3>3, <5>1 DEF Acknowledged, Excused
      <4> QED
        BY <4>1, <4>2
    <3> QED
      BY <1>1, <3>4 DEF Settled, Owes
  <2> QED
    BY <2>1, <2>2, <2>3
<1> QED
  BY <1>3, <1>4

\* Every look of the gate keeps what is owed to the others.
LEMMA LookKeepsGate ==
    ASSUME Exclusion, GateInv, NEW t \in Tasks, NEW w \in Tasks, LookAt(t, w)
    PROVE  GateInv'
<1>0. /\ t \in Procs /\ hits \in [Tasks -> SUBSET (Nat \X Paths)] /\ todo \in [Tasks -> SUBSET Tasks]
  BY DEF Exclusion, TypeOK, Procs
<1>1. /\ UNCHANGED <<pc, data, mine, board, edits, tree, lapsed>>
      /\ \A u \in Tasks \ {t} : hits'[u] = hits[u] /\ todo'[u] = todo[u]
      /\ hits[t] \subseteq hits'[t] /\ todo'[t] = todo[t] \ {w}
  BY <1>0 DEF LookAt, worldVars
<1>2. \A u \in Tasks : GateKnown(u)'
  BY <1>1 DEF GateInv, GateKnown, Passing
<1>3. \A u, v \in Tasks : /\ Settled(u, v) => Settled(u, v)'
                          /\ Owes(u, v) /\ ~(u = t /\ v = w) => Owes(u, v)'
                          /\ Settled(u, v)' => Settled(v, u)'
  BY <1>1 DEF Settled, Excused, Owes
<1>4. Passing(w) /\ t # w /\ Owes(t, w) => Settled(t, w)' \/ Owes(t, w)'
  BY GateLookSettles DEF Owes
<1>5. ASSUME NEW u \in Tasks, NEW v \in Tasks, u # v, Passing(u)', Passing(v)'
      PROVE  (Settled(u, v) \/ Owes(u, v) \/ Owes(v, u))'
  <2>1. Passing(u) /\ Passing(v)
    BY <1>1, <1>5 DEF Passing
  <2>2. Settled(u, v) \/ Owes(u, v) \/ Owes(v, u)
    BY <1>5, <2>1 DEF GateInv
  <2> QED
    BY <1>3, <1>4, <1>5, <2>1, <2>2
<1> QED
  BY <1>2, <1>5 DEF GateInv

\* Who leaves the gate owes nothing, and who has found something does not publish.
LEMMA LeaveKeepsGate ==
    ASSUME Exclusion, GateInv, NEW t \in Tasks, LeaveGate(t)
    PROVE  GateInv'
<1>0. /\ t \in Procs /\ pc \in [Procs -> {"idle", "admit", "gate", "publish", "fix"}]
      /\ hits \in [Tasks -> SUBSET (Nat \X Paths)] /\ todo \in [Tasks -> SUBSET Tasks] /\ mine \in [Tasks -> SUBSET Paths]
      /\ data \in [Procs -> [Tasks -> Entry]] /\ Tasks \subseteq Procs
  BY DEF Exclusion, TypeOK, Procs
<1>1. /\ UNCHANGED <<board, edits, tree, lapsed>> /\ pc[t] = "gate" /\ todo[t] = {}
      /\ pc'[t] = IF hits[t] = {} THEN "publish" ELSE "idle"
      /\ \A u \in Tasks \ {t} : /\ pc'[u] = pc[u] /\ hits'[u] = hits[u] /\ todo'[u] = todo[u]
                                /\ mine'[u] = mine[u] /\ data'[u] = data[u]
  BY <1>0 DEF LeaveGate, Goto, Forget, worldVars
<1>2. \A u \in Tasks : GateKnown(u)'
  BY <1>1 DEF GateInv, GateKnown, Passing
<1>3. \A u, v \in Tasks : Settled(u, v) => Settled(u, v)'
  BY <1>1 DEF Settled, Excused
<1>4. \A v \in Tasks : hits[t] = {} => ~Owes(t, v)
  BY <1>1 DEF Owes
<1>5. \A u \in Tasks \ {t}, v \in Tasks : Owes(u, v) => Owes(u, v)'
  BY <1>1 DEF Owes
<1>6. ASSUME NEW u \in Tasks, NEW v \in Tasks, u # v, Passing(u)', Passing(v)'
      PROVE  (Settled(u, v) \/ Owes(u, v) \/ Owes(v, u))'
  <2>1. /\ Passing(u) /\ Passing(v) /\ (u = t \/ v = t => hits[t] = {})
    BY <1>1, <1>6 DEF Passing
  <2>2. Settled(u, v) \/ Owes(u, v) \/ Owes(v, u)
    BY <1>6, <2>1 DEF GateInv
  <2> QED
    BY <1>3, <1>4, <1>5, <2>1, <2>2
<1> QED
  BY <1>2, <1>6 DEF GateInv

\* A heartbeat that expires while somebody looks has lapsed, for the reader as for the board.
LEMMA ExpiryKeepsGate ==
    ASSUME Exclusion, GateInv, NEW w \in Tasks, Expire(w)
    PROVE  GateInv'
<1>0. /\ board \in [Tasks -> Entry] /\ data \in [Procs -> [Tasks -> Entry]] /\ Tasks \subseteq Procs
  BY DEF Exclusion, TypeOK, Procs
<1>1. /\ board' = [board EXCEPT ![w].fresh = FALSE]
      /\ data' = [p \in Procs |-> [data[p] EXCEPT ![w].fresh = FALSE]]
      /\ lapsed' = IF board[w].id = 0 THEN lapsed ELSE lapsed \cup {board[w].id}
      /\ UNCHANGED <<pc, mine, todo, hits, tree, edits>>
  BY DEF Expire, Lapse, worldVars
<1>2. \A u \in Tasks : board'[u].id = board[u].id /\ board'[u].acks = board[u].acks
  <2>1. board'[w] = [board[w] EXCEPT !.fresh = FALSE] /\ \A u \in Tasks \ {w} : board'[u] = board[u]
    BY <1>0, <1>1
  <2>2. board'[w].id = board[w].id /\ board'[w].acks = board[w].acks
    BY <1>0, <2>1 DEF Entry
  <2> QED
    BY <2>1, <2>2
<1>3. \A t, u \in Tasks : /\ data'[t][u].id = data[t][u].id /\ data'[t][u].acks = data[t][u].acks
                          /\ u # w => data'[t][u].fresh = data[t][u].fresh
  <2> SUFFICES ASSUME NEW t \in Tasks
               PROVE  \A u \in Tasks : /\ data'[t][u].id = data[t][u].id /\ data'[t][u].acks = data[t][u].acks
                                       /\ u # w => data'[t][u].fresh = data[t][u].fresh
    OBVIOUS
  <2>1. data'[t] = [data[t] EXCEPT ![w].fresh = FALSE] /\ data[t] \in [Tasks -> Entry]
    BY <1>0, <1>1
  <2>2. data'[t][w] = [data[t][w] EXCEPT !.fresh = FALSE] /\ \A u \in Tasks \ {w} : data'[t][u] = data[t][u]
    BY <2>1
  <2>3. data'[t][w].id = data[t][w].id /\ data'[t][w].acks = data[t][w].acks
    BY <2>1, <2>2 DEF Entry
  <2> QED
    BY <2>2, <2>3
<1>4. \A u \in Tasks : GateKnown(u)'
  <2>1. UNCHANGED <<pc, mine, tree, edits>>
    BY <1>1
  <2> QED
    BY <1>2, <1>3, <2>1 DEF GateInv, GateKnown, Passing
<1>5. \A t, u \in Tasks : Settled(t, u) => Settled(t, u)'
  BY <1>1, <1>2 DEF Settled, Excused
<1>6. lapsed \subseteq lapsed' /\ (board[w].id # 0 => board[w].id \in lapsed')
  BY <1>1
<1>7. \A t, u \in Tasks : Owes(t, u) => Owes(t, u)' \/ Settled(t, u)'
  <2> SUFFICES ASSUME NEW t \in Tasks, NEW u \in Tasks, Owes(t, u)
               PROVE  Owes(t, u)' \/ Settled(t, u)'
    OBVIOUS
  <2>1. CASE u = w /\ board[w].id = 0
    BY <1>2, <2>1 DEF Settled, Excused
  <2>2. CASE u # w \/ board[w].id # 0
    <3>1. pc'[t] = "gate" /\ hits'[t] = hits[t] /\ todo'[t] = todo[t]
      BY <1>1 DEF Owes
    <3>2. CASE hits[t] # {}
      BY <3>1, <3>2 DEF Owes
    <3>3. CASE hits[t] = {}
      <4>1. u \in todo[t] /\ data[t][u].id = board[u].id /\ (data[t][u].fresh \/ board[u].id \in lapsed)
        BY <3>3 DEF Owes
      <4>2. data'[t][u].id = board'[u].id
        BY <1>2, <1>3, <4>1
      <4>3. data'[t][u].fresh \/ board'[u].id \in lapsed'
        <5>1. CASE u = w
          BY <1>2, <1>6, <2>2, <5>1
        <5>2. CASE u # w
          BY <1>2, <1>3, <1>6, <4>1, <5>2
        <5> QED
          BY <5>1, <5>2
      <4> QED
        BY <3>1, <4>1, <4>2, <4>3 DEF Owes
    <3> QED
      BY <3>2, <3>3
  <2> QED
    BY <2>1, <2>2
<1>8. \A t, u \in Tasks : Settled(t, u)' => Settled(u, t)'
  BY DEF Settled, Excused
<1>9. ASSUME NEW u \in Tasks, NEW v \in Tasks, u # v, Passing(u)', Passing(v)'
      PROVE  (Settled(u, v) \/ Owes(u, v) \/ Owes(v, u))'
  <2>1. Passing(u) /\ Passing(v)
    BY <1>1, <1>9 DEF Passing
  <2>2. Settled(u, v) \/ Owes(u, v) \/ Owes(v, u)
    BY <1>9, <2>1 DEF GateInv
  <2> QED
    BY <1>5, <1>7, <1>8, <2>2
<1> QED
  BY <1>4, <1>9 DEF GateInv

\* Every other step is one of a process that is not in the gate when it has taken it.
LEMMA OthersKeepGate ==
    ASSUME Exclusion, TypeOK', GateInv, Next,
           \A t \in Tasks : ~StartGate(t) /\ ~LeaveGate(t) /\ ~Expire(t) /\ \A u \in Tasks : ~LookAt(t, u)
    PROVE  GateInv'
<1> USE BoardAssumption
<1>0. /\ pc \in [Procs -> {"idle", "admit", "gate", "publish", "fix"}]
      /\ mine \in [Tasks -> SUBSET Paths] /\ todo \in [Tasks -> SUBSET Tasks]
      /\ hits \in [Tasks -> SUBSET (Nat \X Paths)] /\ data \in [Procs -> [Tasks -> Entry]]
      /\ tree \in [Tasks -> {"absent", "work", "merged"}] /\ edits \in [Tasks -> SUBSET Paths]
      /\ Procs = Tasks \cup {Doctor}
  BY DEF Exclusion, TypeOK, Procs
<1>1. EntriesStay /\ lapsed \subseteq lapsed'
  BY GateEntriesStay
<1>2. ASSUME NEW t \in Tasks, Register(t) \/ Update(t) \/ Acknowledge(t) \/ Release(t) \/ AskAdmission(t)
                              \/ Admit(t) \/ Wait(t)
      PROVE  GateInv'
  <2>1. Alone(t) /\ t \in Procs /\ pc'[t] \in {"idle", "admit"}
    <3>1. CASE Register(t) \/ Update(t) \/ Acknowledge(t) \/ Release(t)
      BY <1>0, <3>1 DEF Alone, Register, Update, Acknowledge, Release, commandVars, worldVars
    <3>2. CASE AskAdmission(t)
      BY <1>0, <3>2 DEF Alone, AskAdmission, Open, Goto, worldVars
    <3>3. CASE Admit(t) \/ Wait(t)
      BY <1>0, <3>3 DEF Alone, Admit, Wait, Leave, Forget, Goto, worldVars
    <3> QED
      BY <1>2, <3>1, <3>2, <3>3
  <2> QED
    BY <1>1, <2>1, OutsiderKeepsGate DEF Passing
<1>3. ASSUME NEW t \in Tasks, CreateWorktree(t) \/ RemoveWorktree(t) \/ Commit(t) \/ Publish(t)
      PROVE  GateInv'
  <2>1. Alone(t) /\ t \in Procs /\ pc'[t] = "idle"
    BY <1>0, <1>3 DEF Alone, CreateWorktree, RemoveWorktree, Commit, Publish, Goto, commandVars, worldVars
  <2> QED
    BY <1>1, <2>1, OutsiderKeepsGate DEF Passing
<1>4. CASE Diagnose \/ Fix
  <2>1. Alone(Doctor) /\ Doctor \in Procs
    BY <1>0, <1>4 DEF Alone, Diagnose, Fix, Open, Leave, Goto, worldVars
  <2> QED
    BY <1>1, <2>1, OutsiderKeepsGate
<1>5. ASSUME NEW p \in Procs, Refuse(p)
      PROVE  GateInv'
  <2>1. Alone(p) /\ pc'[p] = "idle"
    BY <1>0, <1>5 DEF Alone, Refuse, Leave, Forget, Goto, worldVars
  <2> QED
    BY <1>1, <2>1, OutsiderKeepsGate DEF Passing
<1> QED
  BY <1>2, <1>3, <1>4, <1>5 DEF Next, Command, World

\* Behind the gate no two tasks carry changes of the same file without an excuse, for any
\* number of tasks and files: the gate has no lock, but of two tasks the one that enters
\* it later looks at what the earlier one has changed by then, which is all it publishes
\* (enforce_scope_gate).
THEOREM PublicationsExclusive == Spec => []PublicationsAreExclusive
<1>1. Init => GateInv
  <2>1. Init => \A t \in Tasks : pc[t] = "idle"
    BY DEF Init, Procs
  <2> QED
    BY <2>1 DEF GateInv, GateKnown, Passing
<1>2. Exclusion /\ TypeOK' /\ GateInv /\ [Next]_vars => GateInv'
  <2> SUFFICES ASSUME Exclusion, TypeOK', GateInv, [Next]_vars
               PROVE  GateInv'
    OBVIOUS
  <2>1. CASE UNCHANGED vars
    BY <2>1 DEF vars, commandVars, worldVars, GateInv, GateKnown, Passing, Settled, Excused, Owes
  <2>2. CASE Next
    BY <2>2, StartKeepsGate, LookKeepsGate, LeaveKeepsGate, ExpiryKeepsGate, OthersKeepGate
  <2> QED
    BY <2>1, <2>2
<1>3. GateInv => PublicationsAreExclusive
  BY DEF GateInv, PublicationsAreExclusive, Passing, Settled, Owes
<1> QED
  BY <1>1, <1>2, <1>3, ExclusionHolds, TypeCorrect, PTL DEF Spec

=============================================================================

--------------------------- MODULE Publication_proofs ---------------------------
(***************************************************************************)
(* Proofs about Publication, for any number of tasks, commits and faults,  *)
(* as long as the agent of a task runs one command at a time: types, that  *)
(* GitHub merges only heads that finish has validated, that a claim leaves *)
(* the board as delivered only when its head is merged, and that the       *)
(* receipts tile local main when no run is killed before it wrote its own. *)
(***************************************************************************)
EXTENDS Publication, FiniteSetTheorems, TLAPS

\* The types survive every step of Validation.
LEMMA ValidationTypes ==
    ASSUME TypeOK, NEW s \in Sessions, Validation(s)
    PROVE  TypeOK'
<1> USE PublicationAssumption DEF TypeOK, Heads, NoHead
<1>1. CASE FollowArmedPr(s)
  BY <1>1 DEF FollowArmedPr, Head, Goto, hubVars, localVars, taskVars, Publishing, Finishing, Ending, Reconciling
<1>2. CASE NoArmedPr(s)
  BY <1>2 DEF NoArmedPr, Readable, Fault, Goto, hubVars, localVars, taskVars, Publishing, Finishing, Ending, Reconciling
<1>3. CASE RecoverMerged(s)
  BY <1>3 DEF RecoverMerged, Goto, hubVars, localVars, taskVars, Publishing, Finishing, Ending, Reconciling
<1>4. CASE NotMerged(s)
  <2>1. faults' \in 0 .. MaxFaults
    BY <1>4 DEF NotMerged, Readable, Fault
  <2>2. found' \in [Sessions -> {"none", "open", "stale"}]
    BY <1>4 DEF NotMerged
  <2> QED
    BY <1>4, <2>1, <2>2 DEF NotMerged, Goto, hubVars, localVars, taskVars, Publishing, Finishing, Ending, Reconciling
<1>5. CASE Preflight(s)
  <2>1. at' \in [Sessions -> Heads] /\ pc' \in [Sessions -> {"idle"} \cup Finishing \cup Ending \cup Reconciling]
    <3>1. CASE Fresh(Head(s))
      <4>1. Head(s) \in Nat \X Nat
        BY DEF Head
      <4>2. pc' = [pc EXCEPT ![s] = "validate"] /\ at' = [at EXCEPT ![s] = Head(s)]
        BY <1>5, <3>1 DEF Preflight, Goto
      <4> QED
        BY <4>1, <4>2 DEF Finishing
    <3>2. CASE ~Fresh(Head(s))
      BY <1>5, <3>2 DEF Preflight, Goto, hubVars, localVars, taskVars, Publishing, Finishing, Ending, Reconciling
    <3> QED
      BY <3>1, <3>2
  <2> QED
    BY <1>5, <2>1 DEF Preflight, Goto, hubVars, localVars, taskVars, Publishing, Finishing, Ending, Reconciling
<1>6. CASE Validate(s)
  BY <1>6 DEF Validate, Goto, hubVars, localVars, taskVars, Publishing, Finishing, Ending, Reconciling
<1>7. CASE PublicationGate(s)
  BY <1>7 DEF PublicationGate, Goto, hubVars, localVars, taskVars, Publishing, Finishing, Ending, Reconciling
<1> QED
  BY <1>1, <1>2, <1>3, <1>4, <1>5, <1>6, <1>7 DEF Validation

\* The types survive every step of Delivery.
LEMMA DeliveryTypes ==
    ASSUME TypeOK, NEW s \in Sessions, Delivery(s)
    PROVE  TypeOK'
<1> USE PublicationAssumption DEF TypeOK, Heads, NoHead
<1>1. CASE Publish(s)
  BY <1>1 DEF Publish, Head, LookUp, Goto, hubVars, localVars, taskVars, Publishing, Finishing, Ending, Reconciling
<1>2. CASE PushFeatureBranch(s)
  <2>1. CASE found[s] = "open" \/ Fresh(Head(s))
    <3>1. PushBranch(TaskOf[s]) /\ pc' = [pc EXCEPT ![s] = "ensure"]
      BY <1>2, <2>1 DEF PushFeatureBranch, Goto
    <3>2. remote' \in [Tasks -> Nat \X Nat] /\ checks' \in [Tasks -> {"pending", "passed", "failed"}]
      BY <3>1 DEF PushBranch
    <3> QED
      BY <1>2, <3>1, <3>2 DEF PushFeatureBranch, PushBranch, localVars, taskVars, Publishing, Finishing
  <2>2. CASE ~(found[s] = "open" \/ Fresh(Head(s)))
    BY <1>2, <2>2 DEF PushFeatureBranch, Goto, hubVars, localVars, taskVars, Publishing, Finishing, Ending, Reconciling
  <2> QED
    BY <2>1, <2>2
<1>3. CASE EnsurePr(s)
  BY <1>3 DEF EnsurePr, Goto, hubVars, localVars, taskVars, Publishing, Finishing, Ending, Reconciling
<1>4. CASE ConfirmPr(s)
  BY <1>4 DEF ConfirmPr, Goto, hubVars, localVars, taskVars, Publishing, Finishing, Ending, Reconciling
<1>5. CASE InReview(s)
  BY <1>5 DEF InReview, Goto, hubVars, localVars, taskVars, Publishing, Finishing, Ending, Reconciling
<1>6. CASE RequireChecks(s)
  BY <1>6 DEF RequireChecks, Goto, hubVars, localVars, taskVars, Publishing, Finishing, Ending, Reconciling
<1>7. CASE Guard(s)
  BY ZenonT(40), <1>7 DEF Guard, Goto, hubVars, localVars, taskVars, Publishing, Finishing, Ending, Reconciling
<1>8. CASE ArmMerge(s)
  BY ZenonT(40), <1>8 DEF ArmMerge, Unlock, Goto, hubVars, localVars, taskVars, Publishing, Finishing, Ending, Reconciling
<1>9. CASE FollowMerged(s)
  BY <1>9 DEF FollowMerged, Goto, hubVars, localVars, taskVars, Publishing, Finishing, Ending, Reconciling
<1>10. CASE FollowRefused(s)
  BY <1>10 DEF FollowRefused, Goto, hubVars, localVars, taskVars, Publishing, Finishing, Ending, Reconciling
<1>11. CASE ConfirmMerged(s)
  BY <1>11 DEF ConfirmMerged, Goto, hubVars, localVars, taskVars, Publishing, Finishing, Ending, Reconciling
<1>12. CASE DeleteRemoteBranch(s)
  BY <1>12 DEF DeleteRemoteBranch, Closed, Goto, hubVars, localVars, taskVars, Publishing, Finishing, Ending, Reconciling
<1>13. CASE PublicationStopped(s)
  BY <1>13 DEF PublicationStopped, Goto, hubVars, localVars, taskVars, Publishing, Finishing, Ending, Reconciling
<1> QED
  BY <1>1, <1>2, <1>3, <1>4, <1>5, <1>6, <1>7, <1>8, <1>9, <1>10, <1>11, <1>12, <1>13 DEF Delivery

\* The types survive every step of Terminal.
LEMMA TerminalTypes ==
    ASSUME TypeOK, NEW s \in Sessions, Terminal(s)
    PROVE  TypeOK'
<1> USE PublicationAssumption DEF TypeOK, Heads, NoHead
<1>1. CASE StartSync(s)
  BY <1>1 DEF StartSync, Goto, hubVars, localVars, taskVars, Publishing, Finishing, Ending, Reconciling
<1>2. CASE SyncBlocked(s)
  BY <1>2 DEF SyncBlocked, Exit, Unlock, Goto, hubVars, localVars, taskVars, Publishing, Finishing, Ending, Reconciling
<1>3. CASE AlreadySynced(s)
  BY <1>3 DEF AlreadySynced, Goto, hubVars, localVars, taskVars, Publishing, Finishing, Ending, Reconciling
<1>4. CASE AdvanceMain(s)
  BY <1>4 DEF AdvanceMain, Fetched, Goto, hubVars, localVars, taskVars, Publishing, Finishing, Ending, Reconciling
<1>5. CASE WriteReceipt(s)
  BY <1>5 DEF WriteReceipt, Goto, hubVars, localVars, taskVars, Publishing, Finishing, Ending, Reconciling
<1>6. CASE ProjectDone(s)
  BY <1>6 DEF ProjectDone, Goto, hubVars, localVars, taskVars, Publishing, Finishing, Ending, Reconciling
<1>7. CASE CloseParent(s)
  BY <1>7 DEF CloseParent, Goto, hubVars, localVars, taskVars, Publishing, Finishing, Ending, Reconciling
<1>8. CASE FinishBoard(s)
  BY <1>8 DEF FinishBoard, Goto, hubVars, localVars, taskVars, Publishing, Finishing, Ending, Reconciling
<1>9. CASE Cleanup(s)
  BY <1>9 DEF Cleanup, Exit, Unlock, Goto, hubVars, localVars, taskVars, Publishing, Finishing, Ending, Reconciling
<1> QED
  BY <1>1, <1>2, <1>3, <1>4, <1>5, <1>6, <1>7, <1>8, <1>9 DEF Terminal

\* The types survive every step of Reconcile.
LEMMA ReconcileTypes ==
    ASSUME TypeOK, NEW s \in Sessions, Reconcile(s)
    PROVE  TypeOK'
<1> USE PublicationAssumption DEF TypeOK, Heads, NoHead
<1>1. CASE RequireNotTerminal(s)
  <2>1. faults' \in 0 .. MaxFaults
    BY <1>1 DEF RequireNotTerminal, Readable, Fault
  <2>2. pc' = [pc EXCEPT ![s] = "idle"] \/ pc' = [pc EXCEPT ![s] = "observe"]
    BY <1>1 DEF RequireNotTerminal, Goto
  <2>3. pc' \in [Sessions -> {"idle"} \cup Finishing \cup Ending \cup Reconciling]
    BY <2>2 DEF Reconciling
  <2> QED
    BY <1>1, <2>1, <2>3 DEF RequireNotTerminal, hubVars, localVars, taskVars
<1>2. CASE ObserveBranch(s)
  BY <1>2 DEF ObserveBranch, Goto, hubVars, localVars, taskVars, Publishing, Finishing, Ending, Reconciling
<1>3. CASE Disarm(s, "disarm1", "prove1", "push1")
  BY ZenonT(40), <1>3 DEF Disarm, Goto, hubVars, localVars, taskVars, Publishing, Finishing, Ending, Reconciling
<1>4. CASE ProveDisarmed(s, "prove1", "push1")
  BY <1>4 DEF ProveDisarmed, Goto, hubVars, localVars, taskVars, Publishing, Finishing, Ending, Reconciling
<1>5. CASE PushDescendant(s)
  BY <1>5 DEF PushDescendant, PushBranch, Head, Goto, hubVars, localVars, taskVars, Publishing, Finishing, Ending, Reconciling
<1>6. CASE MergeMain(s)
  BY <1>6 DEF MergeMain, Goto, hubVars, localVars, taskVars, Publishing, Finishing, Ending, Reconciling
<1>7. CASE AlreadyCurrent(s)
  BY <1>7 DEF AlreadyCurrent, Goto, hubVars, localVars, taskVars, Publishing, Finishing, Ending, Reconciling
<1>8. CASE ObserveAgain(s)
  BY <1>8 DEF ObserveAgain, Goto, hubVars, localVars, taskVars, Publishing, Finishing, Ending, Reconciling
<1>9. CASE Disarm(s, "disarm2", "prove2", "push2")
  BY ZenonT(40), <1>9 DEF Disarm, Goto, hubVars, localVars, taskVars, Publishing, Finishing, Ending, Reconciling
<1>10. CASE ProveDisarmed(s, "prove2", "push2")
  BY <1>10 DEF ProveDisarmed, Goto, hubVars, localVars, taskVars, Publishing, Finishing, Ending, Reconciling
<1>11. CASE PushReconciled(s)
  BY <1>11 DEF PushReconciled, PushBranch, Goto, hubVars, localVars, taskVars, Publishing, Finishing, Ending, Reconciling
<1>12. CASE ConfirmPush(s)
  BY <1>12 DEF ConfirmPush, Goto, hubVars, localVars, taskVars, Publishing, Finishing, Ending, Reconciling
<1> QED
  BY <1>1, <1>2, <1>3, <1>4, <1>5, <1>6, <1>7, <1>8, <1>9, <1>10, <1>11, <1>12 DEF Reconcile

\* Type correctness: every variable keeps its type, the pending main of a session and
\* the local main never beyond main on GitHub.
THEOREM TypeCorrect == Spec => []TypeOK
<1>1. Init => TypeOK
  BY PublicationAssumption DEF Init, TypeOK, Heads, NoHead
<1>2. TypeOK /\ [Next]_vars => TypeOK'
  <2> SUFFICES ASSUME TypeOK, [Next]_vars
               PROVE  TypeOK'
    OBVIOUS
  <2> USE PublicationAssumption
  <2>1. ASSUME NEW s \in Sessions, RunStep(s)
        PROVE  TypeOK'
    BY <2>1, ValidationTypes, DeliveryTypes, TerminalTypes, ReconcileTypes DEF RunStep
  <2>2. ASSUME NEW s \in Sessions, StartFinish(s) \/ StartReconcile(s)
        PROVE  TypeOK'
    BY <2>2 DEF TypeOK, StartFinish, StartReconcile, Goto, hubVars, localVars, taskVars, Publishing, Finishing, Ending, Reconciling
  <2>3. ASSUME NEW s \in Sessions, Fail(s)
        PROVE  TypeOK'
    <3>1. faults' \in 0 .. MaxFaults /\ lock' \in Sessions \cup {NoSession}
      BY <2>3 DEF TypeOK, Fail, Fault, Unlock
    <3> QED
      BY <2>3, <3>1 DEF TypeOK, Fail, Goto, hubVars, localVars, taskVars, Publishing, Finishing, Ending, Reconciling
  <2>4. ASSUME NEW t \in Tasks, Commit(t)
        PROVE  TypeOK'
    BY <2>4 DEF TypeOK, Heads, Commit, sessionVars, Goto, hubVars, localVars, taskVars, Publishing, Finishing, Ending, Reconciling
  <2>5. ASSUME NEW t \in Tasks, FinishChecks(t)
        PROVE  TypeOK'
    BY <2>5 DEF TypeOK, FinishChecks, sessionVars, Goto, hubVars, localVars, taskVars, Publishing, Finishing, Ending, Reconciling
  <2>6. ASSUME NEW t \in Tasks, GitHubMerges(t)
        PROVE  TypeOK'
    BY <2>6 DEF TypeOK, Heads, NoHead, GitHubMerges, Closed, sessionVars, Goto, hubVars, localVars, taskVars, Publishing, Finishing, Ending, Reconciling
  <2>7. CASE OthersMerge
    BY <2>7 DEF TypeOK, OthersMerge, sessionVars, Goto, hubVars, localVars, taskVars, Publishing, Finishing, Ending, Reconciling
  <2>8. CASE Scribble
    BY <2>8 DEF TypeOK, Scribble, sessionVars, Goto, hubVars, localVars, taskVars, Publishing, Finishing, Ending, Reconciling
  <2>9. CASE Tidy
    BY <2>9 DEF TypeOK, Tidy, sessionVars, Goto, hubVars, localVars, taskVars, Publishing, Finishing, Ending, Reconciling
  <2>10. CASE UNCHANGED vars
    BY <2>10 DEF TypeOK, vars, sessionVars, Goto, hubVars, localVars, taskVars, Publishing, Finishing, Ending, Reconciling
  <2> QED
    BY <2>1, <2>2, <2>3, <2>4, <2>5, <2>6, <2>7, <2>8, <2>9, <2>10 DEF Next, GitHub
<1> QED
  BY <1>1, <1>2, PTL DEF Spec

-----------------------------------------------------------------------------
(* What GitHub merges is validated. *)

\* A task: its merged heads are validated, and so is the head that GitHub may merge next.
TaskSafe(t) ==
    /\ merged[t] \subseteq validated[t]
    /\ armed[t] => open[t] /\ remote[t] \in validated[t]

\* A session: what it pushes, creates a PR for and arms is validated, and the pushes of a
\* reconciliation, which validates nothing, find no armed request.
SessionSafe(s) ==
    /\ pc[s] = "validate" => at[s] = head[TaskOf[s]]
    /\ pc[s] \in {"gate", "publish", "push"} => head[TaskOf[s]] \in validated[TaskOf[s]]
    /\ pc[s] \in {"push", "ensure", "created", "review", "checks", "guard", "arm"}
          => at[s] \in validated[TaskOf[s]]
    /\ pc[s] \in {"push1", "push2"} => ~armed[TaskOf[s]]

Safe ==
    /\ \A t \in Tasks : TaskSafe(t)
    /\ \A s \in Sessions : SessionSafe(s)

\* A step of Validation keeps what GitHub may merge validated.
LEMMA ValidationSafe ==
    ASSUME OneAgent, TypeOK, Safe, NEW s \in Sessions, Validation(s)
    PROVE  Safe'
<1> USE PublicationAssumption DEF OneAgent, TypeOK, Safe, TaskSafe, SessionSafe, Goto, hubVars, taskVars
<1>1. CASE FollowArmedPr(s)
  BY <1>1 DEF FollowArmedPr, Head
<1>2. CASE NoArmedPr(s)
  BY <1>2 DEF NoArmedPr
<1>3. CASE RecoverMerged(s)
  BY <1>3 DEF RecoverMerged
<1>4. CASE NotMerged(s)
  BY <1>4 DEF NotMerged
<1>5. CASE Preflight(s)
  BY <1>5 DEF Preflight, Head
<1>6. CASE Validate(s)
  BY <1>6 DEF Validate
<1>7. CASE PublicationGate(s)
  BY <1>7 DEF PublicationGate
<1> QED
  BY <1>1, <1>2, <1>3, <1>4, <1>5, <1>6, <1>7 DEF Validation

\* A step of Delivery keeps what GitHub may merge validated.
LEMMA DeliverySafe ==
    ASSUME OneAgent, TypeOK, Safe, NEW s \in Sessions, Delivery(s)
    PROVE  Safe'
<1> USE PublicationAssumption DEF OneAgent, TypeOK, Safe, TaskSafe, SessionSafe, Goto, hubVars, taskVars
<1>1. CASE Publish(s)
  BY <1>1 DEF Publish, Head
<1>2. CASE PushFeatureBranch(s)
  BY SMTT(20), <1>2 DEF PushFeatureBranch, PushBranch
<1>3. CASE EnsurePr(s)
  BY <1>3 DEF EnsurePr
<1>4. CASE ConfirmPr(s)
  BY <1>4 DEF ConfirmPr
<1>5. CASE InReview(s)
  BY <1>5 DEF InReview
<1>6. CASE RequireChecks(s)
  BY <1>6 DEF RequireChecks
<1>7. CASE Guard(s)
  BY <1>7 DEF Guard
<1>8. CASE ArmMerge(s)
  BY SMTT(20), <1>8 DEF ArmMerge, ExactOpen
<1>9. CASE FollowMerged(s)
  BY <1>9 DEF FollowMerged
<1>10. CASE FollowRefused(s)
  BY <1>10 DEF FollowRefused
<1>11. CASE ConfirmMerged(s)
  BY <1>11 DEF ConfirmMerged
<1>12. CASE DeleteRemoteBranch(s)
  BY <1>12 DEF DeleteRemoteBranch, Closed
<1>13. CASE PublicationStopped(s)
  BY <1>13 DEF PublicationStopped
<1> QED
  BY <1>1, <1>2, <1>3, <1>4, <1>5, <1>6, <1>7, <1>8, <1>9, <1>10, <1>11, <1>12, <1>13 DEF Delivery

\* A step of Terminal keeps what GitHub may merge validated.
LEMMA TerminalSafe ==
    ASSUME OneAgent, TypeOK, Safe, NEW s \in Sessions, Terminal(s)
    PROVE  Safe'
<1> USE PublicationAssumption DEF OneAgent, TypeOK, Safe, TaskSafe, SessionSafe, Goto, hubVars, taskVars
<1>1. CASE StartSync(s)
  BY <1>1 DEF StartSync
<1>2. CASE SyncBlocked(s)
  BY <1>2 DEF SyncBlocked, Exit
<1>3. CASE AlreadySynced(s)
  BY <1>3 DEF AlreadySynced
<1>4. CASE AdvanceMain(s)
  BY <1>4 DEF AdvanceMain
<1>5. CASE WriteReceipt(s)
  BY <1>5 DEF WriteReceipt
<1>6. CASE ProjectDone(s)
  BY <1>6 DEF ProjectDone
<1>7. CASE CloseParent(s)
  BY <1>7 DEF CloseParent
<1>8. CASE FinishBoard(s)
  BY <1>8 DEF FinishBoard
<1>9. CASE Cleanup(s)
  BY <1>9 DEF Cleanup, Exit
<1> QED
  BY <1>1, <1>2, <1>3, <1>4, <1>5, <1>6, <1>7, <1>8, <1>9 DEF Terminal

\* A step of Reconcile keeps what GitHub may merge validated.
LEMMA ReconcileSafe ==
    ASSUME OneAgent, TypeOK, Safe, NEW s \in Sessions, Reconcile(s)
    PROVE  Safe'
<1> USE PublicationAssumption DEF OneAgent, TypeOK, Safe, TaskSafe, SessionSafe, Goto, hubVars, taskVars
<1>1. CASE RequireNotTerminal(s)
  BY <1>1 DEF RequireNotTerminal
<1>2. CASE ObserveBranch(s)
  BY <1>2 DEF ObserveBranch
<1>3. CASE Disarm(s, "disarm1", "prove1", "push1")
  BY <1>3 DEF Disarm, Disarmed, ExactOpen
<1>4. CASE ProveDisarmed(s, "prove1", "push1")
  BY <1>4 DEF ProveDisarmed, Disarmed
<1>5. CASE PushDescendant(s)
  BY <1>5 DEF PushDescendant, PushBranch
<1>6. CASE MergeMain(s)
  BY <1>6 DEF MergeMain
<1>7. CASE AlreadyCurrent(s)
  BY <1>7 DEF AlreadyCurrent
<1>8. CASE ObserveAgain(s)
  BY <1>8 DEF ObserveAgain
<1>9. CASE Disarm(s, "disarm2", "prove2", "push2")
  BY <1>9 DEF Disarm, Disarmed, ExactOpen
<1>10. CASE ProveDisarmed(s, "prove2", "push2")
  BY <1>10 DEF ProveDisarmed, Disarmed
<1>11. CASE PushReconciled(s)
  BY <1>11 DEF PushReconciled, PushBranch
<1>12. CASE ConfirmPush(s)
  BY <1>12 DEF ConfirmPush
<1> QED
  BY <1>1, <1>2, <1>3, <1>4, <1>5, <1>6, <1>7, <1>8, <1>9, <1>10, <1>11, <1>12 DEF Reconcile

\* GitHub merges no head that finish has not validated, when the agent of a task runs its
\* commands one at a time.
THEOREM OnlyValidated ==
    ASSUME OneAgent
    PROVE  Spec => []OnlyValidatedMerges
<1>1. Init => Safe
  BY PublicationAssumption DEF Init, Safe, TaskSafe, SessionSafe
<1>2. TypeOK /\ Safe /\ [Next]_vars => Safe'
  <2> SUFFICES ASSUME TypeOK, Safe, [Next]_vars
               PROVE  Safe'
    OBVIOUS
  <2> USE PublicationAssumption
  <2>1. ASSUME NEW s \in Sessions, RunStep(s)
        PROVE  Safe'
    BY <2>1, ValidationSafe, DeliverySafe, TerminalSafe, ReconcileSafe DEF RunStep
  <2> USE DEF TypeOK, Safe, TaskSafe, SessionSafe, sessionVars, hubVars, taskVars
  <2>2. ASSUME NEW s \in Sessions, StartFinish(s) \/ StartReconcile(s) \/ Fail(s)
        PROVE  Safe'
    BY <2>2 DEF StartFinish, StartReconcile, Fail, Goto
  <2>3. ASSUME NEW t \in Tasks, Commit(t)
        PROVE  Safe'
    BY <2>3 DEF Commit
  <2>4. ASSUME NEW t \in Tasks, FinishChecks(t)
        PROVE  Safe'
    BY <2>4 DEF FinishChecks
  <2>5. ASSUME NEW t \in Tasks, GitHubMerges(t)
        PROVE  Safe'
    BY <2>5 DEF GitHubMerges, Closed
  <2>6. CASE OthersMerge \/ Scribble \/ Tidy
    BY <2>6 DEF OthersMerge, Scribble, Tidy
  <2>7. CASE UNCHANGED vars
    BY <2>7 DEF vars
  <2> QED
    BY <2>1, <2>2, <2>3, <2>4, <2>5, <2>6, <2>7 DEF Next, GitHub
<1>3. Safe => OnlyValidatedMerges
  BY DEF Safe, TaskSafe, OnlyValidatedMerges
<1> QED
  BY <1>1, <1>2, <1>3, TypeCorrect, PTL DEF Spec

-----------------------------------------------------------------------------
(* What a task that leaves the board has behind it, and the record of local main. *)

\* A task: only its head and earlier heads are on GitHub, and once the head is merged no
\* PR is open and the branch holds nothing else.
HeadsKnown(t) ==
    /\ head[t][1] > 0 /\ remote[t][1] <= head[t][1]
    /\ \A h \in merged[t] : h[1] <= head[t][1]
    /\ head[t] \in merged[t] => ~open[t] /\ remote[t] \in {head[t], NoHead}

\* A session holds the integration lock wherever it needs it, with a main it has fetched.
LockHeld(s) ==
    /\ pc[s] \in Locked => lock = s
    /\ pc[s] = "advance" => localMain <= seen[s]

\* A session: it works on the present head, creates a PR for a head that is not merged,
\* and ends a task that is, one step after the other.
EndKnown(s) ==
    LET t == TaskOf[s]
    IN  /\ pc[s] \in {"push", "ensure", "created", "review", "checks", "guard", "arm", "follow",
                      "confirm", "delete", "resume", "discard"} => at[s] = head[t]
        /\ pc[s] \in {"push", "ensure"} /\ found[s] = "none" => ~open[t] /\ head[t] \notin merged[t]
        /\ pc[s] \in Ending \cup {"delete", "discard"} => head[t] \in merged[t]
        /\ pc[s] = "advance" => landed[t] <= seen[s]
        /\ pc[s] \in {"receipt", "done", "parent", "board"} => landed[t] <= localMain
        /\ pc[s] \in {"parent", "board"} => project[t] = "done"
        /\ pc[s] = "board" => parent[t]

DeliveryInv ==
    /\ \A t \in Tasks : HeadsKnown(t)
    /\ \A s \in Sessions : LockHeld(s) /\ EndKnown(s)

\* The receipts tile main up to n.
Tiled(n) ==
    /\ \A r \in receipts : r[1] < r[2] /\ r[2] <= n
    /\ \A m \in 1 .. n : \E r \in receipts : r[1] < m /\ m <= r[2]
    /\ \A m \in 1 .. n : \A q, r \in receipts :
          q[1] < m /\ m <= q[2] /\ r[1] < m /\ m <= r[2] => q = r

\* A session that has moved local main owes the receipt for exactly the missing part.
ReceiptInv ==
    /\ \A s \in Sessions : pc[s] = "receipt" => seen[s] <= localMain /\ Tiled(seen[s])
    /\ (\A s \in Sessions : pc[s] # "receipt") => Tiled(localMain)

\* A step of Validation keeps the delivery known.
LEMMA ValidationKnows ==
    ASSUME OneAgent, TypeOK, DeliveryInv, NEW s \in Sessions, Validation(s)
    PROVE  DeliveryInv'
<1> USE PublicationAssumption DEF OneAgent, TypeOK, Heads, NoHead, DeliveryInv, HeadsKnown, LockHeld, EndKnown,
                                  Locked, Ending, Goto, hubVars, localVars, taskVars
<1>1. CASE FollowArmedPr(s)
  BY <1>1 DEF FollowArmedPr, Head, ExactOpen
<1>2. CASE NoArmedPr(s)
  BY <1>2 DEF NoArmedPr
<1>3. CASE RecoverMerged(s)
  BY <1>3 DEF RecoverMerged, Head, ExactMerged
<1>4. CASE NotMerged(s)
  BY <1>4 DEF NotMerged
<1>5. CASE Preflight(s)
  BY <1>5 DEF Preflight, Head
<1>6. CASE Validate(s)
  BY <1>6 DEF Validate
<1>7. CASE PublicationGate(s)
  BY <1>7 DEF PublicationGate
<1> QED
  BY <1>1, <1>2, <1>3, <1>4, <1>5, <1>6, <1>7 DEF Validation

\* A step of Delivery keeps the delivery known.
LEMMA DeliveryKnows ==
    ASSUME OneAgent, TypeOK, DeliveryInv, NEW s \in Sessions, Delivery(s)
    PROVE  DeliveryInv'
<1> USE PublicationAssumption DEF OneAgent, TypeOK, Heads, NoHead, DeliveryInv, HeadsKnown, LockHeld, EndKnown,
                                  Locked, Ending, Goto, hubVars, localVars, taskVars
<1>1. CASE Publish(s)
  BY <1>1 DEF Publish, Head, LookUp, OnePr, ExactMerged
<1>2. CASE PushFeatureBranch(s)
  <2>1. CASE found[s] = "open" \/ Fresh(Head(s))
    <3>1. /\ pc' = [pc EXCEPT ![s] = "ensure"] /\ remote' = [remote EXCEPT ![TaskOf[s]] = head[TaskOf[s]]]
          /\ UNCHANGED <<at, seen, found, localMain, lock, open, merged, landed, head, project, parent>>
      BY <1>2, <2>1 DEF PushFeatureBranch, PushBranch
    <3>2. \A t \in Tasks : HeadsKnown(t)'
      BY <3>1
    <3>3. \A u \in Sessions : LockHeld(u)' /\ EndKnown(u)'
      BY <1>2, <3>1 DEF PushFeatureBranch
    <3> QED
      BY <3>2, <3>3
  <2>2. CASE ~(found[s] = "open" \/ Fresh(Head(s)))
    BY <1>2, <2>2 DEF PushFeatureBranch
  <2> QED
    BY <2>1, <2>2
<1>3. CASE EnsurePr(s)
  <2>1. \A t \in Tasks : HeadsKnown(t)'
    <3>1. /\ UNCHANGED <<head, merged, remote>>
          /\ \A t \in Tasks : open'[t] = open[t] \/ (t = TaskOf[s] /\ found[s] = "none")
      BY <1>3 DEF EnsurePr
    <3>2. found[s] = "none" => head[TaskOf[s]] \notin merged[TaskOf[s]]
      BY <1>3 DEF EnsurePr
    <3> QED
      BY <3>1, <3>2
  <2>2. \A u \in Sessions : LockHeld(u)' /\ EndKnown(u)'
    <3>1. /\ \E place \in {"review", "created"} : pc' = [pc EXCEPT ![s] = place]
          /\ UNCHANGED <<at, seen, found, localMain, lock, head, merged, landed, project, parent>>
          /\ open' = open \/ open' = [open EXCEPT ![TaskOf[s]] = TRUE]
      BY <1>3 DEF EnsurePr
    <3>2. pc[s] = "ensure" /\ at[s] = head[TaskOf[s]]
      BY <1>3 DEF EnsurePr
    <3> QED
      BY <3>1, <3>2
  <2> QED
    BY <2>1, <2>2
<1>4. CASE ConfirmPr(s)
  BY <1>4 DEF ConfirmPr
<1>5. CASE InReview(s)
  BY <1>5 DEF InReview
<1>6. CASE RequireChecks(s)
  BY <1>6 DEF RequireChecks
<1>7. CASE Guard(s)
  BY <1>7 DEF Guard, LockFree
<1>8. CASE ArmMerge(s)
  BY <1>8 DEF ArmMerge, Unlock
<1>9. CASE FollowMerged(s)
  BY <1>9 DEF FollowMerged, MergeProven
<1>10. CASE FollowRefused(s)
  BY <1>10 DEF FollowRefused
<1>11. CASE ConfirmMerged(s)
  BY <1>11 DEF ConfirmMerged
<1>12. CASE DeleteRemoteBranch(s)
  BY <1>12 DEF DeleteRemoteBranch, Closed
<1>13. CASE PublicationStopped(s)
  BY <1>13 DEF PublicationStopped, Head, ExactMerged
<1> QED
  BY <1>1, <1>2, <1>3, <1>4, <1>5, <1>6, <1>7, <1>8, <1>9, <1>10, <1>11, <1>12, <1>13 DEF Delivery

\* A step of Terminal keeps the delivery known.
LEMMA TerminalKnows ==
    ASSUME OneAgent, TypeOK, DeliveryInv, NEW s \in Sessions, Terminal(s)
    PROVE  DeliveryInv'
<1> USE PublicationAssumption DEF OneAgent, TypeOK, Heads, NoHead, DeliveryInv, HeadsKnown, LockHeld, EndKnown,
                                  Locked, Ending, Goto, hubVars, localVars, taskVars
<1>1. CASE StartSync(s)
  BY <1>1 DEF StartSync, LockFree
<1>2. CASE SyncBlocked(s)
  BY <1>2 DEF SyncBlocked, Exit, Unlock
<1>3. CASE AlreadySynced(s)
  BY <1>3 DEF AlreadySynced, Synced
<1>4. CASE AdvanceMain(s)
  BY <1>4 DEF AdvanceMain, Fetched
<1>5. CASE WriteReceipt(s)
  BY <1>5 DEF WriteReceipt
<1>6. CASE ProjectDone(s)
  BY <1>6 DEF ProjectDone
<1>7. CASE CloseParent(s)
  BY <1>7 DEF CloseParent
<1>8. CASE FinishBoard(s)
  BY <1>8 DEF FinishBoard
<1>9. CASE Cleanup(s)
  BY <1>9 DEF Cleanup, Exit, Unlock
<1> QED
  BY <1>1, <1>2, <1>3, <1>4, <1>5, <1>6, <1>7, <1>8, <1>9 DEF Terminal

\* A step of Reconcile keeps the delivery known.
LEMMA ReconcileKnows ==
    ASSUME OneAgent, TypeOK, DeliveryInv, NEW s \in Sessions, Reconcile(s)
    PROVE  DeliveryInv'
<1> USE PublicationAssumption DEF OneAgent, TypeOK, Heads, NoHead, DeliveryInv, HeadsKnown, LockHeld, EndKnown,
                                  Locked, Ending, Goto, hubVars, localVars, taskVars
<1>1. CASE RequireNotTerminal(s)
  BY <1>1 DEF RequireNotTerminal
<1>2. CASE ObserveBranch(s)
  BY <1>2 DEF ObserveBranch
<1>3. CASE Disarm(s, "disarm1", "prove1", "push1")
  BY <1>3 DEF Disarm
<1>4. CASE ProveDisarmed(s, "prove1", "push1")
  BY <1>4 DEF ProveDisarmed
<1>5. CASE PushDescendant(s)
  BY <1>5 DEF PushDescendant, PushBranch, Head
<1>6. CASE ConfirmPush(s)
  BY <1>6 DEF ConfirmPush
<1>7. CASE MergeMain(s)
  BY <1>7 DEF MergeMain, Head
<1>8. CASE AlreadyCurrent(s)
  BY <1>8 DEF AlreadyCurrent
<1>9. CASE ObserveAgain(s)
  BY <1>9 DEF ObserveAgain
<1>10. CASE Disarm(s, "disarm2", "prove2", "push2")
  BY <1>10 DEF Disarm
<1>11. CASE ProveDisarmed(s, "prove2", "push2")
  BY <1>11 DEF ProveDisarmed
<1>12. CASE PushReconciled(s)
  BY <1>12 DEF PushReconciled, PushBranch
<1> QED
  BY <1>1, <1>2, <1>3, <1>4, <1>5, <1>6, <1>7, <1>8, <1>9, <1>10, <1>11, <1>12 DEF Reconcile

\* What a task leaves behind is known in every reachable state.
LEMMA DeliveryHolds ==
    ASSUME OneAgent
    PROVE  Spec => []DeliveryInv
<1>1. Init => DeliveryInv
  BY PublicationAssumption DEF Init, DeliveryInv, HeadsKnown, LockHeld, EndKnown, Locked, Ending, NoHead
<1>2. TypeOK /\ DeliveryInv /\ [Next]_vars => DeliveryInv'
  <2> SUFFICES ASSUME TypeOK, DeliveryInv, [Next]_vars
               PROVE  DeliveryInv'
    OBVIOUS
  <2> USE PublicationAssumption
  <2>1. ASSUME NEW s \in Sessions, RunStep(s)
        PROVE  DeliveryInv'
    BY <2>1, ValidationKnows, DeliveryKnows, TerminalKnows, ReconcileKnows DEF RunStep
  <2> USE DEF OneAgent, TypeOK, Heads, NoHead, DeliveryInv, HeadsKnown, LockHeld, EndKnown, Locked, Ending, Goto,
              sessionVars, hubVars, localVars, taskVars
  <2>2. ASSUME NEW s \in Sessions, StartFinish(s) \/ StartReconcile(s)
        PROVE  DeliveryInv'
    BY <2>2 DEF StartFinish, StartReconcile
  <2>3. ASSUME NEW s \in Sessions, Fail(s)
        PROVE  DeliveryInv'
    BY <2>3 DEF Fail, Unlock
  <2>4. ASSUME NEW t \in Tasks, Commit(t)
        PROVE  DeliveryInv'
    BY <2>4 DEF Commit
  <2>5. ASSUME NEW t \in Tasks, FinishChecks(t)
        PROVE  DeliveryInv'
    BY <2>5 DEF FinishChecks
  <2>6. ASSUME NEW t \in Tasks, GitHubMerges(t)
        PROVE  DeliveryInv'
    <3>1. /\ UNCHANGED <<pc, at, seen, found, head, localMain, lock, project, parent>>
          /\ open[t] /\ remote[t] \in Heads
          /\ merged' = [merged EXCEPT ![t] = @ \cup {remote[t]}]
          /\ landed' = [landed EXCEPT ![t] = main + 1]
          /\ open' = [open EXCEPT ![t] = FALSE]
          /\ \E kept \in {remote[t], NoHead} : remote' = [remote EXCEPT ![t] = kept]
      BY <2>6 DEF GitHubMerges, Closed
    <3>2. head[t] \notin merged[t] /\ remote[t][1] <= head[t][1]
      BY <3>1
    <3>3. \A u \in Tasks : HeadsKnown(u)'
      <4>1. HeadsKnown(t)'
        BY <3>1, <3>2
      <4>2. \A u \in Tasks \ {t} : HeadsKnown(u)'
        BY <3>1
      <4> QED
        BY <4>1, <4>2
    <3>4. \A s \in Sessions : LockHeld(s)' /\ EndKnown(s)'
      BY <3>1, <3>2
    <3> QED
      BY <3>3, <3>4
  <2>7. CASE OthersMerge \/ Scribble \/ Tidy
    BY <2>7 DEF OthersMerge, Scribble, Tidy
  <2>8. CASE UNCHANGED vars
    BY <2>8 DEF vars
  <2> QED
    BY <2>1, <2>2, <2>3, <2>4, <2>5, <2>6, <2>7, <2>8 DEF Next, GitHub
<1> QED
  BY <1>1, <1>2, TypeCorrect, PTL DEF Spec

\* A task leaves the board only when its present head is merged and in local main, and its
\* Project item and parent are reconciled, and its remote branch is dropped only when
\* GitHub has merged what is on it: for any number of tasks, sessions and faults, when the
\* agent of a task runs its commands one at a time.
THEOREM ReleasedDelivered ==
    ASSUME OneAgent
    PROVE  Spec => ReleasedIsDelivered
<1> DEFINE Kept(t) ==
        /\ claim[t] /\ ~claim'[t] => /\ head[t] \in merged[t] /\ landed[t] <= localMain
                                     /\ project[t] = "done" /\ parent[t]
        /\ remote[t] # NoHead /\ remote'[t] = NoHead => remote[t] \in merged'[t]
<1>1. TypeOK /\ DeliveryInv /\ [Next]_vars => [\A t \in Tasks : Kept(t)]_vars
  <2> SUFFICES ASSUME TypeOK, DeliveryInv, Next, NEW t \in Tasks
               PROVE  Kept(t)
    OBVIOUS
  <2> USE PublicationAssumption
  <2>1. \/ claim'[t] = claim[t]
        \/ \E s \in Sessions : FinishBoard(s) /\ TaskOf[s] = t
    <3>1. \/ UNCHANGED claim
          \/ \E s \in Sessions : FinishBoard(s)
      BY ZenonT(60) DEF Next, GitHub, RunStep, Validation, Delivery, Terminal, Reconcile, FollowArmedPr, NoArmedPr, RecoverMerged,
         NotMerged, Preflight, Validate, PublicationGate, Publish, PushFeatureBranch, EnsurePr, ConfirmPr, InReview,
         RequireChecks, Guard, ArmMerge, FollowMerged, FollowRefused, ConfirmMerged, DeleteRemoteBranch,
         PublicationStopped, StartSync, SyncBlocked, AlreadySynced, AdvanceMain, WriteReceipt, ProjectDone,
         CloseParent, Cleanup, RequireNotTerminal, ObserveBranch, Disarm, ProveDisarmed, PushDescendant, ConfirmPush,
         MergeMain, AlreadyCurrent, ObserveAgain, PushReconciled, StartFinish, StartReconcile, Fail, Commit,
         FinishChecks, GitHubMerges, OthersMerge, Scribble, Tidy, taskVars
    <3> QED
      BY <3>1 DEF FinishBoard, TypeOK
  <2>2. \/ remote'[t] = remote[t]
        \/ \E s \in Sessions : DeleteRemoteBranch(s) /\ TaskOf[s] = t
        \/ remote'[t] = head[t]
        \/ GitHubMerges(t)
    <3>1. ASSUME NEW s \in Sessions, Validation(s) \/ Terminal(s)
          PROVE  UNCHANGED remote
      BY <3>1 DEF Validation, FollowArmedPr, NoArmedPr, RecoverMerged, NotMerged, Preflight, Validate, PublicationGate,
         Terminal, StartSync, SyncBlocked, AlreadySynced, AdvanceMain, WriteReceipt, ProjectDone, CloseParent,
         FinishBoard, Cleanup, hubVars
    <3>2. ASSUME NEW s \in Sessions, Delivery(s)
          PROVE  UNCHANGED remote \/ DeleteRemoteBranch(s) \/ PushBranch(TaskOf[s])
      BY <3>2 DEF Delivery, Publish, PushFeatureBranch, EnsurePr, ConfirmPr, InReview, RequireChecks, Guard, ArmMerge,
         FollowMerged, FollowRefused, ConfirmMerged, PublicationStopped, hubVars
    <3>3. ASSUME NEW s \in Sessions, Reconcile(s)
          PROVE  UNCHANGED remote \/ PushBranch(TaskOf[s])
      BY <3>3 DEF Reconcile, RequireNotTerminal, ObserveBranch, Disarm, ProveDisarmed, PushDescendant, ConfirmPush,
         MergeMain, AlreadyCurrent, ObserveAgain, PushReconciled, hubVars
    <3>4. ASSUME NEW s \in Sessions, StartFinish(s) \/ StartReconcile(s) \/ Fail(s)
          PROVE  UNCHANGED remote
      BY <3>4 DEF StartFinish, StartReconcile, Fail, hubVars
    <3>5. ASSUME NEW u \in Tasks, Commit(u) \/ FinishChecks(u)
          PROVE  UNCHANGED remote
      BY <3>5 DEF Commit, FinishChecks, hubVars
    <3>6. OthersMerge \/ Scribble \/ Tidy => UNCHANGED remote
      BY DEF OthersMerge, Scribble, Tidy, hubVars
    <3>7. ASSUME NEW s \in Sessions, StartFinish(s) \/ StartReconcile(s) \/ RunStep(s) \/ Fail(s)
          PROVE  UNCHANGED remote \/ DeleteRemoteBranch(s) \/ PushBranch(TaskOf[s])
      BY <3>1, <3>2, <3>3, <3>4, <3>7 DEF RunStep
    <3>8. GitHub => UNCHANGED remote \/ \E u \in Tasks : GitHubMerges(u)
      BY <3>5 DEF GitHub
    <3>9. \/ UNCHANGED remote
          \/ \E s \in Sessions : DeleteRemoteBranch(s) \/ PushBranch(TaskOf[s])
          \/ \E u \in Tasks : GitHubMerges(u)
      BY <3>5, <3>6, <3>7, <3>8 DEF Next
    <3> QED
      BY <3>9 DEF DeleteRemoteBranch, PushBranch, GitHubMerges, TypeOK
  <2>3. claim[t] /\ ~claim'[t] => /\ head[t] \in merged[t] /\ landed[t] <= localMain
                                  /\ project[t] = "done" /\ parent[t]
    <3> SUFFICES ASSUME NEW s \in Sessions, FinishBoard(s), TaskOf[s] = t
                 PROVE  /\ head[t] \in merged[t] /\ landed[t] <= localMain
                        /\ project[t] = "done" /\ parent[t]
      BY <2>1
    <3> QED
      BY DEF DeliveryInv, EndKnown, FinishBoard, Ending
  <2>4. remote[t] # NoHead /\ remote'[t] = NoHead => remote[t] \in merged'[t]
    <3>1. CASE remote'[t] = head[t]
      <4>1. head[t][1] > 0
        BY DEF DeliveryInv, HeadsKnown
      <4>2. head[t] # NoHead
        BY <4>1 DEF NoHead
      <4> QED
        BY <3>1, <4>2
    <3>2. CASE GitHubMerges(t)
      BY <3>2 DEF GitHubMerges, TypeOK
    <3>3. ASSUME NEW s \in Sessions, DeleteRemoteBranch(s), TaskOf[s] = t
          PROVE  remote[t] # NoHead => remote[t] \in merged'[t]
      BY <3>3 DEF DeleteRemoteBranch, DeliveryInv, HeadsKnown, EndKnown
    <3> QED
      BY <2>2, <3>1, <3>2, <3>3
  <2> QED
    BY <2>3, <2>4
<1>2. ReleasedIsDelivered <=> [][\A t \in Tasks : Kept(t)]_vars
  BY DEF ReleasedIsDelivered
<1> QED
  BY <1>1, <1>2, TypeCorrect, DeliveryHolds, PTL DEF Spec

-----------------------------------------------------------------------------
(* The receipts account for local main. *)

\* A step that moves nothing: every session that owes a receipt still owes the same one.
Quiet ==
    /\ UNCHANGED <<localMain, receipts>>
    /\ \A s \in Sessions : (pc'[s] = "receipt" <=> pc[s] = "receipt") /\ (pc[s] = "receipt" => seen'[s] = seen[s])

LEMMA QuietKeepsReceipts ==
    ASSUME ReceiptInv, Quiet
    PROVE  ReceiptInv'
BY DEF ReceiptInv, Quiet, Tiled

\* Only AdvanceMain and WriteReceipt, and a run that dies in between, are not quiet.
LEMMA MostStepsAreQuiet ==
    ASSUME TypeOK, Next,
           \A s \in Sessions : ~AdvanceMain(s) /\ ~WriteReceipt(s) /\ (Fail(s) => pc[s] # "receipt")
    PROVE  Quiet
<1> USE PublicationAssumption DEF TypeOK, Quiet, Goto, localVars, sessionVars
<1>1. ASSUME NEW s \in Sessions, Validation(s)
      PROVE  Quiet
  BY <1>1 DEF Validation, FollowArmedPr, NoArmedPr, RecoverMerged, NotMerged, Preflight, Validate, PublicationGate
<1>2. ASSUME NEW s \in Sessions, Delivery(s)
      PROVE  Quiet
  <2>1. /\ UNCHANGED <<seen, localMain, receipts>>
        /\ \E place \in Publishing \cup {"idle", "discard", "sync"} : pc' = [pc EXCEPT ![s] = place]
        /\ pc[s] \in Publishing \cup {"resume", "discard"}
    BY <1>2 DEF Delivery, Publish, PushFeatureBranch, EnsurePr, ConfirmPr, InReview, RequireChecks, Guard, ArmMerge,
       FollowMerged, FollowRefused, ConfirmMerged, DeleteRemoteBranch, PublicationStopped, Publishing
  <2> QED
    BY <2>1 DEF Publishing
<1>3. ASSUME NEW s \in Sessions, Terminal(s)
      PROVE  Quiet
  BY <1>3 DEF Terminal, StartSync, SyncBlocked, AlreadySynced, ProjectDone, CloseParent, FinishBoard, Cleanup, Exit
<1>4. ASSUME NEW s \in Sessions, Reconcile(s)
      PROVE  Quiet
  <2>1. /\ \E main0 \in {seen[s], main} : seen' = [seen EXCEPT ![s] = main0]
        /\ UNCHANGED <<localMain, receipts>>
        /\ \E place \in Reconciling \cup {"idle"} : pc' = [pc EXCEPT ![s] = place]
        /\ pc[s] \in Reconciling
    BY <1>4 DEF Reconcile, RequireNotTerminal, ObserveBranch, Disarm, ProveDisarmed, PushDescendant, ConfirmPush,
       MergeMain, AlreadyCurrent, ObserveAgain, PushReconciled, Reconciling
  <2> QED
    BY <2>1 DEF Reconciling
<1>5. ASSUME NEW s \in Sessions, StartFinish(s) \/ StartReconcile(s) \/ Fail(s)
      PROVE  Quiet
  BY <1>5 DEF StartFinish, StartReconcile, Fail
<1>6. ASSUME NEW t \in Tasks, Commit(t) \/ FinishChecks(t) \/ GitHubMerges(t)
      PROVE  Quiet
  BY <1>6 DEF Commit, FinishChecks, GitHubMerges
<1>7. CASE OthersMerge \/ Scribble \/ Tidy
  BY <1>7 DEF OthersMerge, Scribble, Tidy
<1> QED
  BY <1>1, <1>2, <1>3, <1>4, <1>5, <1>6, <1>7 DEF Next, GitHub, RunStep

\* The receipt of an advance extends the tiling to the new local main.
LEMMA ReceiptExtends ==
    ASSUME NEW from \in Nat, NEW to \in Nat, from < to, Tiled(from), receipts \subseteq Nat \X Nat,
           receipts' = receipts \cup {<<from, to>>}
    PROVE  Tiled(to)'
<1>1. \A r \in receipts' : r[1] < r[2] /\ r[2] <= to
  BY DEF Tiled
<1>2. \A m \in 1 .. to : \E r \in receipts' : r[1] < m /\ m <= r[2]
  <2> TAKE m \in 1 .. to
  <2>1. CASE m <= from
    BY <2>1 DEF Tiled
  <2>2. CASE from < m
    <3> WITNESS <<from, to>> \in receipts'
    <3> QED
      BY <2>2
  <2> QED
    BY <2>1, <2>2
<1>3. \A m \in 1 .. to : \A q, r \in receipts' :
          q[1] < m /\ m <= q[2] /\ r[1] < m /\ m <= r[2] => q = r
  <2> SUFFICES ASSUME NEW m \in 1 .. to, NEW q \in receipts', NEW r \in receipts',
                      q[1] < m, m <= q[2], r[1] < m, m <= r[2]
               PROVE  q = r
    OBVIOUS
  <2>1. CASE m <= from
    BY <2>1 DEF Tiled
  <2>2. CASE from < m
    BY <2>2 DEF Tiled
  <2> QED
    BY <2>1, <2>2
<1> QED
  BY <1>1, <1>2, <1>3 DEF Tiled

\* The receipts lead to local main without a gap or an overlap whenever nobody holds the
\* lock, as long as no run dies between the advance of local main and its receipt: the two
\* are separate writes, and nothing makes up for a receipt that was never written.
THEOREM ReceiptsHold ==
    ASSUME OneAgent
    PROVE  Spec /\ [][\A s \in Sessions : Fail(s) => pc[s] # "receipt"]_vars => []ReceiptsComplete
<1> DEFINE Completes == \A s \in Sessions : Fail(s) => pc[s] # "receipt"
<1>1. Init => ReceiptInv
  BY DEF Init, ReceiptInv, Tiled
<1>2. TypeOK /\ DeliveryInv /\ ReceiptInv /\ [Next]_vars /\ [Completes]_vars => ReceiptInv'
  <2> SUFFICES ASSUME TypeOK, DeliveryInv, ReceiptInv, [Next]_vars, [Completes]_vars
               PROVE  ReceiptInv'
    OBVIOUS
  <2> USE PublicationAssumption
  <2>1. ASSUME NEW s \in Sessions, AdvanceMain(s)
        PROVE  ReceiptInv'
    <3>1. \A u \in Sessions : pc[u] = "receipt" => u = s
      BY <2>1 DEF DeliveryInv, LockHeld, Locked, Ending, AdvanceMain
    <3>2. \A u \in Sessions : pc[u] # "receipt"
      BY <2>1, <3>1 DEF AdvanceMain
    <3>3. /\ pc' = [pc EXCEPT ![s] = "receipt"] /\ seen' = [seen EXCEPT ![s] = localMain] /\ receipts' = receipts
          /\ localMain <= localMain'
      <4>1. localMain <= seen[s] /\ seen[s] \in 0 .. main /\ main \in Nat /\ localMain \in Nat
        BY <2>1 DEF DeliveryInv, LockHeld, AdvanceMain, TypeOK
      <4> QED
        BY <2>1, <4>1 DEF AdvanceMain, Fetched, Goto
    <3>4. Tiled(localMain)
      BY <3>2 DEF ReceiptInv
    <3> QED
      BY <3>2, <3>3, <3>4 DEF ReceiptInv, Tiled, TypeOK
  <2>2. ASSUME NEW s \in Sessions, WriteReceipt(s)
        PROVE  ReceiptInv'
    <3>1. /\ pc[s] = "receipt" /\ pc' = [pc EXCEPT ![s] = "done"] /\ UNCHANGED <<localMain, seen>>
          /\ receipts' = IF seen[s] = localMain THEN receipts ELSE receipts \cup {<<seen[s], localMain>>}
      BY <2>2 DEF WriteReceipt, Goto
    <3>2. \A u \in Sessions : pc[u] = "receipt" => u = s
      BY <3>1 DEF DeliveryInv, LockHeld, Locked, Ending
    <3>3. \A u \in Sessions : pc'[u] # "receipt"
      BY <3>1, <3>2 DEF TypeOK
    <3>4. seen[s] <= localMain /\ Tiled(seen[s]) /\ seen[s] \in Nat /\ localMain \in Nat
      BY <3>1 DEF ReceiptInv, TypeOK
    <3>5. Tiled(localMain)'
      <4>1. CASE seen[s] = localMain
        BY <3>1, <3>4, <4>1 DEF Tiled
      <4>2. CASE seen[s] # localMain
        <5>1. seen[s] < localMain /\ receipts' = receipts \cup {<<seen[s], localMain>>}
          BY <3>1, <3>4, <4>2
        <5>2. \A n \in Nat : n = localMain => Tiled(n)'
          BY <3>4, <5>1, ReceiptExtends DEF TypeOK
        <5> QED
          BY <3>1, <3>4, <5>2 DEF Tiled
      <4> QED
        BY <4>1, <4>2
    <3> QED
      BY <3>3, <3>5 DEF ReceiptInv
  <2>3. CASE UNCHANGED vars
    BY <2>3 DEF vars, sessionVars, localVars, ReceiptInv, Tiled
  <2>4. CASE /\ Next /\ Completes /\ \A s \in Sessions : ~AdvanceMain(s) /\ ~WriteReceipt(s)
    BY <2>4, MostStepsAreQuiet, QuietKeepsReceipts
  <2> QED
    BY <2>1, <2>2, <2>3, <2>4
<1>3. TypeOK /\ DeliveryInv /\ ReceiptInv => ReceiptsComplete
  <2> SUFFICES ASSUME TypeOK, DeliveryInv, ReceiptInv, lock = NoSession, NEW m \in 1 .. localMain
               PROVE  Cardinality({r \in receipts : r[1] < m /\ m <= r[2]}) = 1
    BY DEF ReceiptsComplete
  <2>1. Tiled(localMain)
    BY PublicationAssumption DEF ReceiptInv, DeliveryInv, LockHeld, Locked, Ending
  <2>2. PICK q \in receipts : {r \in receipts : r[1] < m /\ m <= r[2]} = {q}
    <3>1. PICK q \in receipts : q[1] < m /\ m <= q[2]
      BY <2>1 DEF Tiled
    <3>2. {r \in receipts : r[1] < m /\ m <= r[2]} = {q}
      BY <2>1, <3>1 DEF Tiled
    <3> QED
      BY <3>2
  <2> QED
    BY <2>2, FS_Singleton
<1> QED
  BY <1>1, <1>2, <1>3, TypeCorrect, DeliveryHolds, PTL DEF Spec

=============================================================================

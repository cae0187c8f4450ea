-------------------- MODULE Requirements_proofs --------------------
(***************************************************************************)
(* Proofs about the parts that author and deliver a Requirement: that its  *)
(* children come from a design that a person approved; that two machines   *)
(* never report one number for two of them; that a parent is closed only   *)
(* when everything it is closed for holds, and its children never all      *)
(* leave the closing to another one; that a repaired candidate that lands  *)
(* is exactly what its manifest recorded; and that the shared delivery     *)
(* merges all of the children once, at heads with receipts and checks of   *)
(* their own.                                                              *)
(***************************************************************************)
EXTENDS PreAuthoring, ChildIdentity, RequirementClosing, MergeRecovery, SharedCandidate,
        SequenceTheorems, WellFoundedInduction, TLAPS

-----------------------------------------------------------------------------
(* Types. *)

CloserRecord ==
    [at : Step, finishes : SUBSET Children, delivered : SUBSET Children,
     body : Body, review : Body, left : SUBSET Children, lineage : SUBSET Children]

\* A run that is over, and the steps it can be at.
LEMMA IdleType == Idle \in CloserRecord
  BY DEF Idle, CloserRecord, Step, Body, NoBody

\* The types hold before the first run.
LEMMA InitTypes == ClosingInit => ClosingTypeOK
<1> SUFFICES ASSUME ClosingInit PROVE ClosingTypeOK
  OBVIOUS
<1>1. closer \in [Closers -> CloserRecord]
  BY IdleType DEF ClosingInit
<1>2. told \in [Children -> {"nothing", "waiting", "closed"}]
  BY DEF ClosingInit
<1>3. checkpoint \in Body
  BY DEF ClosingInit, NoBody, Body
<1> QED
  BY <1>1, <1>2, <1>3 DEF ClosingInit, ClosingTypeOK, CloserRecord

\* What is read is a body.
LEMMA BodyType == ClosingTypeOK => CurrentBody \in Body
  BY DEF ClosingTypeOK, CurrentBody, Body

\* The record of a run that takes a step keeps its type.
LEMMA RecordTypes ==
    ASSUME ClosingTypeOK, NEW k \in Closers, CloserStep(k)
    PROVE  closer' \in [Closers -> CloserRecord]
<1>1. closer \in [Closers -> CloserRecord] /\ CurrentBody \in Body
  BY BodyType DEF ClosingTypeOK, CloserRecord
<1>2. closer[k] \in CloserRecord
  BY <1>1
<1>3. Idle \in CloserRecord
  BY IdleType
<1>4. linked \subseteq Children /\ merged \subseteq Children /\ checkpoint \in Body
  BY DEF ClosingTypeOK
<1>5. ASSUME NEW c \in Children, StartFinish(k, c) PROVE closer' \in [Closers -> CloserRecord]
  <2>1. [Idle EXCEPT !.at = "reporting", !.finishes = {c}, !.delivered = {c}] \in CloserRecord
    BY <1>3 DEF CloserRecord, Step
  <2> QED
    BY <1>1, <1>5, <2>1 DEF StartFinish, Turn
<1>6. CASE \E c \in Children : LookAtOther(k, c)
  BY <1>1, <1>2, <1>3, <1>6 DEF LookAtOther, End, Turn, CloserRecord
<1>7. CASE \E c \in Children : Verify(k, c)
  BY <1>1, <1>2, <1>7 DEF Verify, CloserRecord
<1>8. CASE \E i \in Items : Accept(k, i)
  <2>1. [Idle EXCEPT !.at = "opening", !.delivered = linked] \in CloserRecord
    BY <1>3, <1>4 DEF CloserRecord, Step
  <2> QED
    BY <1>1, <1>3, <1>8, <2>1 DEF Accept
<1>9. CASE StartReconcile(k) \/ StartShared(k)
  <2>1. [Idle EXCEPT !.at = "opening"] \in CloserRecord
    BY <1>3 DEF CloserRecord, Step
  <2>2. [Idle EXCEPT !.at = "reporting", !.delivered = linked] \in CloserRecord
    BY <1>3, <1>4 DEF CloserRecord, Step
  <2> QED
    BY <1>1, <1>9, <2>1, <2>2 DEF StartReconcile, StartShared, Turn
<1>10. CASE ReportDone(k)
  BY <1>1, <1>2, <1>10 DEF ReportDone, CloserRecord, Step
<1>11. CASE LookAtParent(k)
  <2>1. [closer[k] EXCEPT !.at = "asking", !.left = linked \ closer[k].finishes] \in CloserRecord
    BY <1>2, <1>4 DEF CloserRecord, Step
  <2> QED
    BY <1>1, <1>3, <1>11, <2>1 DEF LookAtParent, End, Turn
<1>12. CASE LookedAtAll(k) \/ VerifiedAll(k) \/ ReadDecisions(k)
  BY <1>1, <1>2, <1>12 DEF LookedAtAll, VerifiedAll, ReadDecisions, Goto, Turn, CloserRecord, Step
<1>13. CASE ReadBody(k)
  BY <1>1, <1>2, <1>13 DEF ReadBody, Turn, CloserRecord, Step
<1>14. CASE ReadCheckpoint(k)
  BY <1>1, <1>2, <1>4, <1>14 DEF ReadCheckpoint, Turn, CloserRecord, Step
<1>15. CASE FetchMain(k)
  <2>1. closer[k].body.children \subseteq Children
    BY <1>2 DEF CloserRecord, Body
  <2>2. [closer[k] EXCEPT !.at = "verifying", !.lineage = merged, !.left = closer[k].body.children] \in CloserRecord
    BY <1>2, <1>4, <2>1 DEF CloserRecord, Step
  <2> QED
    BY <1>1, <1>15, <2>2 DEF FetchMain, Turn
<1>16. CASE ReportParent(k)
  BY <1>1, <1>2, <1>16 DEF ReportParent, CloserRecord, Step
<1>17. CASE CloseParent(k) \/ Refuse(k) \/ LoseGitHub(k)
  BY <1>1, <1>3, <1>17 DEF CloseParent, Refuse, LoseGitHub, End
<1> QED
  BY <1>5, <1>6, <1>7, <1>8, <1>9, <1>10, <1>11, <1>12, <1>13, <1>14, <1>15, <1>16, <1>17 DEF CloserStep

\* So does everything else that a run writes.
LEMMA CloserTypes ==
    ASSUME ClosingTypeOK, NEW k \in Closers, CloserStep(k)
    PROVE  ClosingTypeOK'
<1>1. closer' \in [Closers -> CloserRecord]
  BY RecordTypes
<1>2. /\ linked' \subseteq Children /\ items' \subseteq Items /\ merged' \subseteq Children
      /\ checkpoint' \in Body /\ decided' \subseteq Items
  BY DEF ClosingTypeOK, CloserStep, StartFinish, LookAtOther, Verify, Accept, StartReconcile, StartShared,
         ReportDone, LookAtParent, LookedAtAll, ReadBody, ReadDecisions, ReadCheckpoint, FetchMain, VerifiedAll,
         ReportParent, CloseParent, Refuse, LoseGitHub, Turn, Goto, OnlyReads, bodyVars, deliveryVars, reviewVars
<1>3. closer[k].delivered \subseteq Children
  BY DEF ClosingTypeOK
<1>4. boardDone' \subseteq Children /\ issueClosed' \subseteq Children
  BY <1>3 DEF ClosingTypeOK, CloserStep, StartFinish, LookAtOther, Verify, Accept, StartReconcile, StartShared,
         ReportDone, LookAtParent, LookedAtAll, ReadBody, ReadDecisions, ReadCheckpoint, FetchMain, VerifiedAll,
         ReportParent, CloseParent, Refuse, LoseGitHub, Turn, Goto, OnlyReads, bodyVars, deliveryVars, reviewVars
<1>5. parentDone' \in BOOLEAN /\ parentClosed' \in BOOLEAN
  BY DEF ClosingTypeOK, CloserStep, StartFinish, LookAtOther, Verify, Accept, StartReconcile, StartShared,
         ReportDone, LookAtParent, LookedAtAll, ReadBody, ReadDecisions, ReadCheckpoint, FetchMain, VerifiedAll,
         ReportParent, CloseParent, Refuse, LoseGitHub, Turn, Goto, OnlyReads
<1>6. told' \in [Children -> {"nothing", "waiting", "closed"}]
  BY DEF ClosingTypeOK, CloserStep, StartFinish, LookAtOther, Verify, Accept, StartReconcile, StartShared,
         ReportDone, LookAtParent, LookedAtAll, ReadBody, ReadDecisions, ReadCheckpoint, FetchMain, VerifiedAll,
         ReportParent, CloseParent, Refuse, LoseGitHub, Turn, Goto, End
<1> QED
  BY <1>1, <1>2, <1>4, <1>5, <1>6 DEF ClosingTypeOK, CloserRecord

\* And what people and merges do.
LEMMA WorldTypes ==
    ASSUME ClosingTypeOK, World
    PROVE  ClosingTypeOK'
<1>1. NoBody \in Body /\ CurrentBody \in Body
  BY BodyType DEF NoBody, Body
<1> QED
  BY <1>1 DEF ClosingTypeOK, World, Merge, LinkChild, SetByHand, AddItem, Checkpoint, Signal, Outside,
              bodyVars, deliveryVars, reviewVars

\* The variables have their types, however many children and runs there are.
THEOREM ClosingTypeCorrect == ClosingSpec => []ClosingTypeOK
<1>1. ClosingInit => ClosingTypeOK
  BY InitTypes
<1>2. ClosingTypeOK /\ [ClosingNext]_closingVars => ClosingTypeOK'
  <2> SUFFICES ASSUME ClosingTypeOK, [ClosingNext]_closingVars PROVE ClosingTypeOK'
    OBVIOUS
  <2>1. CASE UNCHANGED closingVars
    BY <2>1 DEF ClosingTypeOK, closingVars, bodyVars, deliveryVars, reviewVars
  <2>2. CASE ClosingNext
    BY <2>2, CloserTypes, WorldTypes DEF ClosingNext
  <2> QED
    BY <2>1, <2>2
<1> QED
  BY <1>1, <1>2, PTL DEF ClosingSpec

-----------------------------------------------------------------------------
(* What a run that closes has seen.  Whatever it has seen of decisions,    *)
(* merges, statuses and Issues stays: none of them is ever taken back.     *)

AfterDecisions == {"reviewing", "fetching", "verifying", "parentDone", "closing"}
AfterReview == {"fetching", "verifying", "parentDone", "closing"}

Proven(c) == c \in merged /\ c \in boardDone /\ c \in issueClosed

SeenByCloser(k) ==
    /\ closer[k].at \in {"deciding"} \cup AfterDecisions => closer[k].body.children # {}
    /\ closer[k].at \in AfterDecisions => closer[k].body.items \subseteq decided
    /\ closer[k].at \in AfterReview => closer[k].review = closer[k].body
    /\ closer[k].at = "verifying" =>
           /\ closer[k].lineage \subseteq merged
           /\ \A c \in closer[k].body.children \ closer[k].left : Proven(c)
    /\ closer[k].at \in {"parentDone", "closing"} => \A c \in closer[k].body.children : Proven(c)

ClosingInv == ClosingTypeOK /\ \A k \in Closers : SeenByCloser(k)

\* Nothing that a run relies on is taken back.
LEMMA NothingTakenBack ==
    ASSUME ClosingTypeOK, ClosingNext
    PROVE  /\ merged \subseteq merged' /\ boardDone \subseteq boardDone'
           /\ issueClosed \subseteq issueClosed' /\ decided \subseteq decided' /\ linked \subseteq linked'
<1>1. CASE World
  BY <1>1 DEF World, Merge, LinkChild, SetByHand, AddItem, Checkpoint, Signal, bodyVars, deliveryVars, reviewVars
<1>2. CASE \E k \in Closers : CloserStep(k)
  BY ZenonT(40), <1>2 DEF CloserStep, StartFinish, LookAtOther, Verify, Accept, StartReconcile, StartShared,
         ReportDone, LookAtParent, LookedAtAll, ReadBody, ReadDecisions, ReadCheckpoint, FetchMain, VerifiedAll,
         ReportParent, CloseParent, Refuse, LoseGitHub, Turn, Goto, OnlyReads, bodyVars, deliveryVars, reviewVars
<1> QED
  BY <1>1, <1>2 DEF ClosingNext

\* So whatever a run has seen stays true while others take steps.
LEMMA SeenStays ==
    ASSUME ClosingTypeOK, ClosingNext, NEW k \in Closers, SeenByCloser(k), closer'[k] = closer[k]
    PROVE  SeenByCloser(k)'
  BY NothingTakenBack DEF SeenByCloser, Proven

\* A step of a run leaves the records of the others alone.
LEMMA OthersStay ==
    ASSUME ClosingTypeOK, NEW k \in Closers, CloserStep(k), NEW j \in Closers \ {k}
    PROVE  closer'[j] = closer[j]
  BY DEF ClosingTypeOK, CloserStep, StartFinish, LookAtOther, Verify, Accept, StartReconcile, StartShared,
         ReportDone, LookAtParent, LookedAtAll, ReadBody, ReadDecisions, ReadCheckpoint, FetchMain, VerifiedAll,
         ReportParent, CloseParent, Refuse, LoseGitHub, Turn, Goto, End

\* What a run sees in its own step.
LEMMA OwnStepSees ==
    ASSUME ClosingTypeOK, NEW k \in Closers, CloserStep(k), SeenByCloser(k)
    PROVE  SeenByCloser(k)'
<1>1. closer \in [Closers -> CloserRecord] /\ closer[k] \in CloserRecord
  BY DEF ClosingTypeOK, CloserRecord
<1>2. /\ merged \subseteq merged' /\ boardDone \subseteq boardDone'
      /\ issueClosed \subseteq issueClosed' /\ decided \subseteq decided'
  BY NothingTakenBack DEF ClosingNext
<1>3. CASE closer'[k].at \in {"idle", "reporting", "looking", "asking", "opening"}
  BY <1>3 DEF SeenByCloser, AfterDecisions, AfterReview
<1>4. CASE ReadBody(k)
  BY <1>1, <1>4 DEF ReadBody, Turn, CurrentBody, SeenByCloser, AfterDecisions, AfterReview, CloserRecord
<1>5. CASE ReadDecisions(k)
  BY <1>1, <1>2, <1>5 DEF ReadDecisions, Goto, Turn, At, SeenByCloser, AfterDecisions, AfterReview, CloserRecord
<1>6. CASE ReadCheckpoint(k)
  BY <1>1, <1>2, <1>6 DEF ReadCheckpoint, Turn, At, Reviewed, SeenByCloser, AfterDecisions, AfterReview, CloserRecord
<1>7. CASE FetchMain(k)
  BY <1>1, <1>2, <1>7 DEF FetchMain, Turn, At, SeenByCloser, AfterDecisions, AfterReview, CloserRecord
<1>8. ASSUME NEW c \in Children, Verify(k, c) PROVE SeenByCloser(k)'
  <2>1. /\ closer[k].at = "verifying" /\ closer'[k] = [closer[k] EXCEPT !.left = @ \ {c}]
        /\ c \in boardDone /\ c \in closer[k].lineage /\ c \in issueClosed'
    BY <1>1, <1>8 DEF Verify, At, Delivered
  <2>2. Proven(c)'
    BY <1>2, <2>1 DEF SeenByCloser, Proven
  <2>3. \A d \in closer'[k].body.children \ closer'[k].left : Proven(d)'
    BY <1>1, <1>2, <2>1, <2>2 DEF SeenByCloser, Proven, CloserRecord
  <2> QED
    BY <1>1, <1>2, <2>1, <2>3 DEF SeenByCloser, AfterDecisions, AfterReview, CloserRecord
<1>9. CASE VerifiedAll(k)
  BY <1>1, <1>2, <1>9 DEF VerifiedAll, Goto, Turn, At, SeenByCloser, Proven, AfterDecisions, AfterReview, CloserRecord
<1>10. CASE ReportParent(k)
  BY <1>1, <1>2, <1>10 DEF ReportParent, At, SeenByCloser, Proven, AfterDecisions, AfterReview, CloserRecord
<1>11. ASSUME NEW c \in Children, StartFinish(k, c) \/ LookAtOther(k, c)
       PROVE  closer'[k].at \in {"idle", "reporting", "looking", "asking", "opening"}
  <2>1. CASE StartFinish(k, c)
    <3>1. closer'[k] = [Idle EXCEPT !.at = "reporting", !.finishes = {c}, !.delivered = {c}]
      BY <1>1, <2>1 DEF StartFinish, Turn
    <3> QED
      BY <3>1 DEF Idle
  <2>2. CASE LookAtOther(k, c)
    <3>1. closer'[k] = Idle \/ closer'[k] = [closer[k] EXCEPT !.left = @ \ {c}]
      BY <1>1, <2>2 DEF LookAtOther, Turn, End
    <3> QED
      BY <1>1, <2>2, <3>1 DEF Idle, LookAtOther, At, CloserRecord
  <2> QED
    BY <1>11, <2>1, <2>2
<1>12. ASSUME NEW i \in Items, Accept(k, i)
       PROVE  closer'[k].at \in {"idle", "reporting", "looking", "asking", "opening"}
  BY <1>1, <1>12 DEF Accept, Idle
<1>13. CASE StartReconcile(k) \/ StartShared(k) \/ ReportDone(k) \/ LookAtParent(k) \/ LookedAtAll(k)
            \/ CloseParent(k) \/ Refuse(k) \/ LoseGitHub(k)
  <2>1. \/ closer'[k] = Idle
        \/ closer'[k] = [Idle EXCEPT !.at = "opening"]
        \/ closer'[k] = [Idle EXCEPT !.at = "reporting", !.delivered = linked]
        \/ closer'[k] = [closer[k] EXCEPT !.at = IF closer[k].finishes = {} THEN "opening" ELSE "looking"]
        \/ closer'[k] = [closer[k] EXCEPT !.at = "asking", !.left = linked \ closer[k].finishes]
        \/ closer'[k] = [closer[k] EXCEPT !.at = "opening"]
    BY <1>1, <1>13 DEF StartReconcile, StartShared, ReportDone, LookAtParent, LookedAtAll, CloseParent, Refuse,
           LoseGitHub, Goto, Turn, End
  <2>2. Idle.at = "idle" /\ DOMAIN Idle = DOMAIN closer[k] /\ "at" \in DOMAIN Idle /\ "left" \in DOMAIN Idle
    BY <1>1 DEF Idle, CloserRecord
  <2>3. closer'[k].at \in {"idle", "reporting", "looking", "asking", "opening"}
    BY <2>1, <2>2
  <2> QED
    BY <1>3, <2>3
<1> QED
  BY <1>3, <1>4, <1>5, <1>6, <1>7, <1>8, <1>9, <1>10, <1>11, <1>12, <1>13 DEF CloserStep

\* People and merges leave the records of the runs alone.
LEMMA WorldLeavesClosers == World => closer' = closer
  BY DEF World, Merge, LinkChild, SetByHand, AddItem, Checkpoint, Signal, Outside

\* A run has seen what its step stands for, always.
LEMMA ClosingInvariant == ClosingSpec => []ClosingInv
<1>1. ClosingInit => ClosingInv
  <2> SUFFICES ASSUME ClosingInit PROVE ClosingInv
    OBVIOUS
  <2>1. ClosingTypeOK
    BY InitTypes
  <2>2. \A k \in Closers : closer[k].at = "idle"
    BY DEF ClosingInit, Idle
  <2> QED
    BY <2>1, <2>2 DEF ClosingInv, SeenByCloser, AfterDecisions, AfterReview
<1>2. ClosingInv /\ [ClosingNext]_closingVars => ClosingInv'
  <2> SUFFICES ASSUME ClosingInv, [ClosingNext]_closingVars PROVE ClosingInv'
    OBVIOUS
  <2>1. CASE UNCHANGED closingVars
    BY <2>1 DEF ClosingInv, ClosingTypeOK, SeenByCloser, Proven, closingVars, bodyVars, deliveryVars, reviewVars
  <2>2. CASE World
    <3>1. ClosingTypeOK'
      BY <2>2, WorldTypes DEF ClosingInv
    <3>2. \A k \in Closers : SeenByCloser(k)'
      BY <2>2, WorldLeavesClosers, SeenStays DEF ClosingInv, ClosingNext
    <3> QED
      BY <3>1, <3>2 DEF ClosingInv
  <2>3. ASSUME NEW k \in Closers, CloserStep(k) PROVE ClosingInv'
    <3>1. ClosingTypeOK'
      BY <2>3, CloserTypes DEF ClosingInv
    <3>2. SeenByCloser(k)'
      BY <2>3, OwnStepSees DEF ClosingInv
    <3>3. \A j \in Closers \ {k} : SeenByCloser(j)'
      BY <2>3, OthersStay, SeenStays DEF ClosingInv, ClosingNext
    <3> QED
      BY <3>1, <3>2, <3>3 DEF ClosingInv
  <2> QED
    BY <2>1, <2>2, <2>3 DEF ClosingNext
<1> QED
  BY <1>1, <1>2, PTL DEF ClosingSpec

\* A parent is closed for what it was proven to be: every child of the body
\* merged, Done and closed, every item decided, and the body reviewed.
THEOREM ClosedOnlyWhenProven == ClosingSpec => []ClosedIsProven
<1>1. ClosingInv => ClosedIsProven
  BY DEF ClosingInv, SeenByCloser, Proven, ClosedIsProven, At, AfterDecisions, AfterReview
<1> QED
  BY <1>1, ClosingInvariant, PTL

-----------------------------------------------------------------------------
(* Who closes.  A child whose finish ended waiting is Done itself; the one *)
(* it has waited for was not, and so has not ended waiting.                *)

FinishesAreDone ==
    \A k \in Closers :
        /\ closer[k].finishes \subseteq linked /\ closer[k].finishes \subseteq closer[k].delivered \cup boardDone
        /\ closer[k].at \notin {"idle", "reporting"} => closer[k].finishes \subseteq boardDone
        /\ closer[k].at = "asking" => closer[k].left \subseteq linked \ closer[k].finishes

WaitingAreDone == \A c \in Children : told[c] = "waiting" => c \in boardDone /\ c \in linked

WaitingInv == ClosingTypeOK /\ FinishesAreDone /\ WaitingAreDone /\ SomeoneCloses

\* Every step keeps the finished children of a run Done.
LEMMA FinishesStay ==
    ASSUME ClosingTypeOK, FinishesAreDone, NEW k \in Closers, CloserStep(k)
    PROVE  FinishesAreDone'
<1> DEFINE Good(r) == /\ r.finishes \subseteq linked' /\ r.finishes \subseteq r.delivered \cup boardDone'
                      /\ r.at \notin {"idle", "reporting"} => r.finishes \subseteq boardDone'
                      /\ r.at = "asking" => r.left \subseteq linked' \ r.finishes
<1>1. closer \in [Closers -> CloserRecord] /\ closer[k] \in CloserRecord
  BY DEF ClosingTypeOK, CloserRecord
<1>2. linked \subseteq linked' /\ boardDone \subseteq boardDone'
  BY NothingTakenBack DEF ClosingNext
<1>3. \A j \in Closers \ {k} : Good(closer'[j])
  BY <1>2, OthersStay DEF FinishesAreDone
<1>4. Good(closer[k])
  BY <1>2 DEF FinishesAreDone
<1>5. Good(Idle)
  BY DEF Idle
<1>6. ASSUME NEW c \in Children, StartFinish(k, c) PROVE Good(closer'[k])
  <2>1. closer'[k] = [Idle EXCEPT !.at = "reporting", !.finishes = {c}, !.delivered = {c}] /\ c \in linked
    BY <1>1, <1>6 DEF StartFinish, Turn
  <2> QED
    BY <1>2, <2>1 DEF Idle
<1>7. ASSUME NEW c \in Children, LookAtOther(k, c) PROVE Good(closer'[k])
  <2>1. closer'[k] = Idle \/ closer'[k] = [closer[k] EXCEPT !.left = @ \ {c}]
    BY <1>1, <1>7 DEF LookAtOther, End, Turn
  <2> QED
    BY <1>1, <1>4, <1>5, <2>1 DEF CloserRecord
<1>8. ASSUME NEW c \in Children, Verify(k, c) PROVE Good(closer'[k])
  <2>1. closer'[k] = [closer[k] EXCEPT !.left = @ \ {c}]
    BY <1>1, <1>8 DEF Verify
  <2> QED
    BY <1>1, <1>4, <2>1 DEF CloserRecord
<1>9. ASSUME NEW i \in Items, Accept(k, i) PROVE Good(closer'[k])
  <2>1. closer'[k] = Idle \/ closer'[k] = [Idle EXCEPT !.at = "opening", !.delivered = linked]
    BY <1>1, <1>9 DEF Accept
  <2> QED
    BY <1>5, <2>1 DEF Idle
<1>10. ASSUME StartReconcile(k) \/ StartShared(k) PROVE Good(closer'[k])
  <2>1. \/ closer'[k] = [Idle EXCEPT !.at = "opening"]
        \/ closer'[k] = [Idle EXCEPT !.at = "reporting", !.delivered = linked]
    BY <1>1, <1>10 DEF StartReconcile, StartShared, Turn
  <2> QED
    BY <2>1 DEF Idle
<1>11. ASSUME ReportDone(k) PROVE Good(closer'[k])
  <2>1. closer[k].finishes \subseteq boardDone'
    BY <1>2, <1>4, <1>11 DEF ReportDone
  <2>2. /\ closer'[k].finishes = closer[k].finishes /\ closer'[k].delivered = closer[k].delivered
        /\ closer'[k].at \in {"opening", "looking"}
    BY <1>1, <1>11 DEF ReportDone, CloserRecord
  <2> QED
    BY <1>4, <2>1, <2>2
<1>12. ASSUME LookAtParent(k) PROVE Good(closer'[k])
  <2>1. closer[k].at = "looking"
    BY <1>12 DEF LookAtParent, At
  <2>2. \/ closer'[k] = Idle
        \/ closer'[k] = [closer[k] EXCEPT !.at = "asking", !.left = linked \ closer[k].finishes]
    BY <1>1, <1>12 DEF LookAtParent, End, Turn
  <2> QED
    BY <1>1, <1>2, <1>4, <1>5, <2>1, <2>2 DEF CloserRecord
<1>13. ASSUME \/ LookedAtAll(k) \/ ReadBody(k) \/ ReadDecisions(k) \/ ReadCheckpoint(k) \/ FetchMain(k)
              \/ VerifiedAll(k) \/ ReportParent(k)
       PROVE  Good(closer'[k])
  <2>1. /\ closer[k].at \notin {"idle", "reporting"}
        /\ \/ closer'[k] = [closer[k] EXCEPT !.at = "opening"]
           \/ closer'[k] = [closer[k] EXCEPT !.at = "deciding", !.body = CurrentBody]
           \/ closer'[k] = [closer[k] EXCEPT !.at = "reviewing"]
           \/ closer'[k] = [closer[k] EXCEPT !.at = "fetching", !.review = checkpoint]
           \/ closer'[k] = [closer[k] EXCEPT !.at = "verifying", !.lineage = merged, !.left = closer[k].body.children]
           \/ closer'[k] = [closer[k] EXCEPT !.at = "parentDone"]
           \/ closer'[k] = [closer[k] EXCEPT !.at = "closing"]
    BY <1>1, <1>13 DEF LookedAtAll, ReadBody, ReadDecisions, ReadCheckpoint, FetchMain, VerifiedAll, ReportParent,
           Goto, Turn, At
  <2>2. "at" \in DOMAIN closer[k]
    BY <1>1 DEF CloserRecord
  <2>3. /\ closer'[k].at # "asking"
        /\ closer'[k].finishes = closer[k].finishes /\ closer'[k].delivered = closer[k].delivered
    BY <1>1, <2>1, <2>2 DEF CloserRecord
  <2> QED
    BY <1>4, <2>1, <2>3
<1>14. ASSUME CloseParent(k) \/ Refuse(k) \/ LoseGitHub(k) PROVE Good(closer'[k])
  BY <1>1, <1>5, <1>14 DEF CloseParent, Refuse, LoseGitHub, End
<1>15. Good(closer'[k])
  BY <1>6, <1>7, <1>8, <1>9, <1>10, <1>11, <1>12, <1>13, <1>14 DEF CloserStep
<1> QED
  BY <1>3, <1>15 DEF FinishesAreDone

\* Only a run that has asked about a child that is not Done ends waiting.
LEMMA WhoWaits ==
    ASSUME ClosingTypeOK, NEW k \in Closers, CloserStep(k)
    PROVE  \/ told' = told
           \/ \A c \in Children : told'[c] # "waiting" \/ told'[c] = told[c]
           \/ /\ \E d \in closer[k].left : d \notin boardDone
              /\ closer[k].at = "asking" /\ boardDone' = boardDone /\ linked' = linked
              /\ told' = [c \in Children |-> IF c \in closer[k].finishes THEN "waiting" ELSE told[c]]
  BY DEF ClosingTypeOK, CloserStep, StartFinish, LookAtOther, Verify, Accept, StartReconcile, StartShared,
         ReportDone, LookAtParent, LookedAtAll, ReadBody, ReadDecisions, ReadCheckpoint, FetchMain, VerifiedAll,
         ReportParent, CloseParent, Refuse, LoseGitHub, Turn, Goto, End, At, Awaited, OnlyReads,
         bodyVars, deliveryVars

\* The children are never all left waiting: their statuses are written before
\* those of the others are read.
LEMMA WaitingStep ==
    ASSUME WaitingInv, NEW k \in Closers, CloserStep(k)
    PROVE  WaitingAreDone' /\ SomeoneCloses'
<1>1. linked \subseteq linked' /\ boardDone \subseteq boardDone' /\ linked' = linked /\ linked \subseteq Children
  BY NothingTakenBack DEF ClosingNext, WaitingInv, ClosingTypeOK, CloserStep, StartFinish, LookAtOther, Verify, Accept,
         StartReconcile, StartShared, ReportDone, LookAtParent, LookedAtAll, ReadBody, ReadDecisions, ReadCheckpoint,
         FetchMain, VerifiedAll, ReportParent, CloseParent, Refuse, LoseGitHub, Turn, Goto, OnlyReads, bodyVars
<1>2. CASE told' = told \/ \A c \in Children : told'[c] # "waiting" \/ told'[c] = told[c]
  BY <1>1, <1>2 DEF WaitingInv, WaitingAreDone, SomeoneCloses
<1>3. CASE /\ \E d \in closer[k].left : d \notin boardDone
           /\ closer[k].at = "asking" /\ boardDone' = boardDone /\ linked' = linked
           /\ told' = [c \in Children |-> IF c \in closer[k].finishes THEN "waiting" ELSE told[c]]
  <2>1. PICK d \in closer[k].left : d \notin boardDone
    BY <1>3
  <2>2. closer[k].left \subseteq linked \ closer[k].finishes /\ closer[k].finishes \subseteq boardDone \cap linked
    BY <1>3 DEF WaitingInv, FinishesAreDone
  <2>3. told'[d] # "waiting" /\ d \in linked
    BY <1>1, <1>3, <2>1, <2>2 DEF WaitingInv, WaitingAreDone
  <2>4. WaitingAreDone'
    BY <1>3, <2>2 DEF WaitingInv, WaitingAreDone
  <2> QED
    BY <1>3, <2>3, <2>4 DEF SomeoneCloses
<1>4. ClosingTypeOK
  BY DEF WaitingInv
<1> QED
  BY <1>2, <1>3, <1>4, WhoWaits

\* A child that is linked later has not ended waiting.
LEMMA WaitingWorld ==
    ASSUME WaitingInv, World
    PROVE  FinishesAreDone' /\ WaitingAreDone' /\ SomeoneCloses'
<1>1. /\ closer' = closer /\ told' = told /\ linked \subseteq linked' /\ boardDone \subseteq boardDone'
  BY NothingTakenBack, WorldLeavesClosers
     DEF WaitingInv, ClosingNext, World, Merge, LinkChild, SetByHand, AddItem, Checkpoint, Signal, Outside
<1>2. FinishesAreDone' /\ WaitingAreDone'
  BY <1>1 DEF WaitingInv, FinishesAreDone, WaitingAreDone
<1>3. linked' \subseteq Children
  BY WorldTypes DEF WaitingInv, ClosingTypeOK
<1>4. CASE linked = {}
  BY <1>1, <1>2, <1>3, <1>4 DEF WaitingInv, WaitingAreDone, SomeoneCloses
<1>5. CASE linked # {}
  BY <1>1, <1>2, <1>5 DEF WaitingInv, SomeoneCloses
<1> QED
  BY <1>2, <1>4, <1>5

\* The finishes of the children never all end waiting for another one.
THEOREM SomeoneAlwaysCloses == ClosingSpec => []SomeoneCloses
<1>1. ClosingInit => WaitingInv
  <2> SUFFICES ASSUME ClosingInit PROVE WaitingInv
    OBVIOUS
  <2>1. ClosingTypeOK
    BY InitTypes
  <2>2. FinishesAreDone
    BY DEF ClosingInit, FinishesAreDone, Idle
  <2>3. WaitingAreDone /\ SomeoneCloses
    BY DEF ClosingInit, WaitingAreDone, SomeoneCloses
  <2> QED
    BY <2>1, <2>2, <2>3 DEF WaitingInv
<1>2. WaitingInv /\ [ClosingNext]_closingVars => WaitingInv'
  <2> SUFFICES ASSUME WaitingInv, [ClosingNext]_closingVars PROVE WaitingInv'
    OBVIOUS
  <2>1. CASE UNCHANGED closingVars
    BY <2>1 DEF WaitingInv, ClosingTypeOK, FinishesAreDone, WaitingAreDone, SomeoneCloses,
                closingVars, bodyVars, deliveryVars, reviewVars
  <2>2. CASE World
    BY <2>2, WorldTypes, WaitingWorld DEF WaitingInv
  <2>3. ASSUME NEW k \in Closers, CloserStep(k) PROVE WaitingInv'
    BY <2>3, CloserTypes, FinishesStay, WaitingStep DEF WaitingInv
  <2> QED
    BY <2>1, <2>2, <2>3 DEF ClosingNext
<1>3. WaitingInv => SomeoneCloses
  BY DEF WaitingInv
<1> QED
  BY <1>1, <1>2, <1>3, PTL DEF ClosingSpec

-----------------------------------------------------------------------------
(* Merge recovery: what a repaired candidate brings along with its manifest. *)

\* A candidate with exactly the content that a manifest of its generation is for.
Exact(head, gen) == head.source = SourceOf(gen) /\ ~head.stray /\ ~head.extra

CandidateShape ==
    \A g \in DOMAIN merging :
        merging[g] = [stage |-> merging[g].stage, source |-> merging[g].source,
                      resolved |-> merging[g].resolved, edits |-> merging[g].edits,
                      stray |-> merging[g].stray, extra |-> merging[g].extra]

CommandShape ==
    recovery = [at |-> recovery.at, gen |-> recovery.gen, head |-> recovery.head, late |-> recovery.late]

ManifestsRecord ==
    /\ DOMAIN manifests \subseteq DOMAIN merging
    /\ \A g \in DOMAIN manifests : manifests[g][ChainLength] = SourceOf(g)

CommandKnows ==
    /\ InCommand("prepare") => GenIn \in DOMAIN merging /\ recovery.head[ChainLength] = SourceOf(GenIn)
    /\ recovery.at \in {"merge", "bind"} => GenIn \in DOMAIN merging
    /\ recovery.at \in {"check", "recheck", "publish"} => GenIn \in DOMAIN manifests
    /\ InCommand("publish") /\ ~recovery.late => ExactCandidate(GenIn)

SentIsExact ==
    /\ DOMAIN request \subseteq DOMAIN manifests
    /\ \A g \in DOMAIN request : ~request[g].late => Exact(request[g].head, g)
    /\ \A l \in landing : l.gen \in DOMAIN manifests /\ (~l.late => Exact(l.head, l.gen))

RecoveryInv == CandidateShape /\ CommandShape /\ ManifestsRecord /\ CommandKnows /\ SentIsExact

LEMMA RecoveryStarts == RecoveryInit => RecoveryInv
  BY DEF RecoveryInit, RecoveryInv, NoCommand, CandidateShape, CommandShape, ManifestsRecord, CommandKnows,
         SentIsExact, InCommand

\* What was sent and what the manifests say stay true when only a step of the
\* command changes that neither writes a manifest nor sends anything.
LEMMA SentStays ==
    ASSUME RecoveryInv, UNCHANGED <<manifests, request, landing>>, DOMAIN merging' = DOMAIN merging
    PROVE  ManifestsRecord' /\ SentIsExact'
  BY DEF RecoveryInv, ManifestsRecord, SentIsExact, Exact, SourceOf

LEMMA AddRecoveryWorktreeStep == RecoveryInv /\ AddRecoveryWorktree => RecoveryInv'
<1> SUFFICES ASSUME RecoveryInv, AddRecoveryWorktree PROVE RecoveryInv'
  OBVIOUS
<1> DEFINE gen == <<mainline, readyHead[ChainLength]>>
<1> DEFINE fresh == [stage |-> "added", source |-> <<>>, resolved |-> FALSE,
                     edits |-> 0, stray |-> FALSE, extra |-> FALSE]
<1>1. /\ gen \notin DOMAIN merging /\ merging' = With(merging, gen, fresh)
      /\ recovery' = [NoCommand EXCEPT !.at = "prepare", !.gen = gen, !.head = readyHead]
      /\ UNCHANGED <<manifests, request, landing>>
  BY DEF AddRecoveryWorktree, ServerStays
<1>2. /\ DOMAIN merging' = DOMAIN merging \cup {gen} /\ merging'[gen] = fresh
      /\ \A g \in DOMAIN merging : merging'[g] = merging[g]
  BY <1>1 DEF With
<1>3. CandidateShape'
  BY <1>2 DEF RecoveryInv, CandidateShape
<1>4. /\ recovery'.at = "prepare" /\ recovery'.gen = gen /\ recovery'.head = readyHead
      /\ CommandShape'
  BY <1>1 DEF NoCommand, CommandShape
<1>5. CommandKnows'
  BY <1>2, <1>4 DEF CommandKnows, InCommand, GenIn, SourceOf
<1>6. ManifestsRecord' /\ SentIsExact'
  BY <1>1, <1>2 DEF RecoveryInv, ManifestsRecord, SentIsExact, Exact, SourceOf
<1> QED
  BY <1>3, <1>4, <1>5, <1>6 DEF RecoveryInv

LEMMA WriteManifestStep == RecoveryInv /\ WriteManifest => RecoveryInv'
<1> SUFFICES ASSUME RecoveryInv, WriteManifest PROVE RecoveryInv'
  OBVIOUS
<1>1. /\ InCommand("prepare") /\ recovery' = [recovery EXCEPT !.at = "merge"]
      /\ manifests' = With(manifests, GenIn, recovery.head)
      /\ UNCHANGED <<merging, request, landing>>
  BY DEF WriteManifest, GoesOn, ServerStays
<1>2. /\ DOMAIN manifests' = DOMAIN manifests \cup {GenIn}
      /\ \A g \in DOMAIN manifests \ {GenIn} : manifests'[g] = manifests[g]
      /\ manifests'[GenIn] = recovery.head
  BY <1>1 DEF With
<1>3. /\ recovery'.at = "merge" /\ recovery'.gen = recovery.gen /\ recovery'.head = recovery.head
      /\ CommandShape'
  BY <1>1 DEF RecoveryInv, CommandShape
<1>4. CandidateShape' /\ CommandKnows'
  BY <1>1, <1>3 DEF RecoveryInv, CandidateShape, CommandKnows, InCommand, GenIn
<1>5. ManifestsRecord'
  BY <1>1, <1>2 DEF RecoveryInv, ManifestsRecord, CommandKnows, SourceOf
<1>6. SentIsExact'
  BY <1>1, <1>2 DEF RecoveryInv, SentIsExact, Exact, SourceOf
<1> QED
  BY <1>3, <1>4, <1>5, <1>6 DEF RecoveryInv

LEMMA StartMergeStep == RecoveryInv /\ StartMerge => RecoveryInv'
<1> SUFFICES ASSUME RecoveryInv, StartMerge PROVE RecoveryInv'
  OBVIOUS
<1>1. PICK clean \in BOOLEAN :
        merging' = [merging EXCEPT ![GenIn].stage = "merging", ![GenIn].source = SourceOf(GenIn),
                                   ![GenIn].resolved = clean]
  BY DEF StartMerge
<1>2. recovery' = NoCommand /\ UNCHANGED <<manifests, request, landing>> /\ GenIn \in DOMAIN merging
  BY DEF StartMerge, EndCommand, ServerStays, RecoveryInv, CommandKnows, InCommand
<1>3. /\ DOMAIN merging' = DOMAIN merging
      /\ merging'[GenIn] = [merging[GenIn] EXCEPT !.stage = "merging", !.source = SourceOf(GenIn), !.resolved = clean]
      /\ \A g \in DOMAIN merging \ {GenIn} : merging'[g] = merging[g]
  BY <1>1, <1>2
<1>4. CandidateShape'
  BY <1>2, <1>3 DEF RecoveryInv, CandidateShape
<1>5. CommandShape' /\ CommandKnows'
  BY <1>2 DEF CommandShape, CommandKnows, NoCommand, InCommand
<1> QED
  BY <1>2, <1>3, <1>4, <1>5, SentStays DEF RecoveryInv

LEMMA CommitStep ==
    ASSUME RecoveryInv, (\E gen \in DOMAIN merging : CommitMerge(gen)) \/ CommitManifest
    PROVE  RecoveryInv'
<1>1. PICK gen \in DOMAIN merging, s \in {"merged", "bound"} :
        /\ merging' = [merging EXCEPT ![gen].stage = s]
        /\ \/ recovery' = [NoCommand EXCEPT !.at = "bind", !.gen = gen]
           \/ recovery' = NoCommand
        /\ UNCHANGED <<manifests, request, landing>>
  BY DEF CommitMerge, CommitManifest, EndCommand, ServerStays, RecoveryInv, CommandKnows, InCommand
<1>2. /\ DOMAIN merging' = DOMAIN merging
      /\ merging'[gen] = [merging[gen] EXCEPT !.stage = s]
      /\ \A g \in DOMAIN merging \ {gen} : merging'[g] = merging[g]
  BY <1>1
<1>3. CandidateShape'
  BY <1>2 DEF RecoveryInv, CandidateShape
<1>4. CommandShape' /\ (recovery'.at = "none" \/ (recovery'.at = "bind" /\ recovery'.gen \in DOMAIN merging'))
  <2>1. CASE recovery' = NoCommand
    BY <2>1 DEF CommandShape, NoCommand
  <2>2. CASE recovery' = [NoCommand EXCEPT !.at = "bind", !.gen = gen]
    BY <1>2, <2>2 DEF CommandShape, NoCommand
  <2> QED
    BY <1>1, <2>1, <2>2
<1>5. CommandKnows'
  BY <1>4 DEF CommandKnows, InCommand, GenIn
<1> QED
  BY <1>1, <1>2, <1>3, <1>4, <1>5, SentStays DEF RecoveryInv

\* The steps of publish that only look, and the end of a command.
LEMMA LookStep ==
    ASSUME RecoveryInv,
           \/ \E gen \in DOMAIN merging : BeginPublish(gen)
           \/ RunRecoveryChecks \/ RecheckCandidate \/ SeeLanding \/ SettleChildren \/ KillRecovery
    PROVE  RecoveryInv'
<1>1. UNCHANGED <<manifests, merging, request, landing>>
  BY DEF BeginPublish, RunRecoveryChecks, RecheckCandidate, SeeLanding, SettleChildren, KillRecovery, ServerStays
<1>2. /\ CommandShape'
      /\ \/ recovery'.at \in {"none", "settle"}
         \/ recovery'.at = "check" /\ recovery'.gen \in DOMAIN manifests
         \/ /\ recovery'.at = "recheck" /\ recovery'.gen = recovery.gen /\ GenIn \in DOMAIN manifests
         \/ /\ recovery'.at = "publish" /\ recovery'.gen = recovery.gen /\ GenIn \in DOMAIN manifests
            /\ ExactCandidate(GenIn)
  <2>1. CASE \E gen \in DOMAIN merging : BeginPublish(gen)
    BY <2>1 DEF BeginPublish, NoCommand, CommandShape
  <2>2. CASE RunRecoveryChecks
    BY <2>2 DEF RunRecoveryChecks, GoesOn, EndCommand, NoCommand, InCommand, RecoveryInv, CommandShape, CommandKnows
  <2>3. CASE RecheckCandidate
    BY <2>3 DEF RecheckCandidate, Validated, GoesOn, EndCommand, NoCommand, InCommand, GenIn, RecoveryInv,
                CommandShape, CommandKnows
  <2>4. CASE SeeLanding \/ SettleChildren \/ KillRecovery
    BY <2>4 DEF SeeLanding, SettleChildren, KillRecovery, GoesOn, EndCommand, NoCommand, RecoveryInv, CommandShape
  <2> QED
    BY <2>1, <2>2, <2>3, <2>4
<1>3. CandidateShape'
  BY <1>1 DEF RecoveryInv, CandidateShape
<1>4. CommandKnows'
  BY <1>1, <1>2 DEF CommandKnows, InCommand, GenIn, ExactCandidate, SourceOf
<1> QED
  BY <1>1, <1>2, <1>3, <1>4, SentStays DEF RecoveryInv

\* What is pushed is exact, unless somebody edited it after the last look.
LEMMA PublishCandidateStep == RecoveryInv /\ PublishCandidate => RecoveryInv'
<1> SUFFICES ASSUME RecoveryInv, PublishCandidate PROVE RecoveryInv'
  OBVIOUS
<1>1. /\ InCommand("publish") /\ UNCHANGED <<manifests, merging, landing>>
      /\ recovery' = NoCommand \/ recovery' = [recovery EXCEPT !.at = "await"]
      /\ \/ UNCHANGED request
         \/ request' = With(request, GenIn, [head |-> merging[GenIn], late |-> recovery.late])
  BY DEF PublishCandidate, GoesOn, EndCommand
<1>2. CommandShape' /\ CommandKnows' /\ CandidateShape' /\ ManifestsRecord'
  BY <1>1 DEF RecoveryInv, CommandShape, CommandKnows, CandidateShape, ManifestsRecord, NoCommand, InCommand, SourceOf
<1>3. GenIn \in DOMAIN manifests /\ (~recovery.late => Exact(merging[GenIn], GenIn))
  BY <1>1 DEF RecoveryInv, CommandKnows, InCommand, ExactCandidate, Exact
<1>4. CASE UNCHANGED request
  BY <1>1, <1>2, <1>4, SentStays DEF RecoveryInv
<1>5. CASE request' = With(request, GenIn, [head |-> merging[GenIn], late |-> recovery.late])
  <2>1. /\ DOMAIN request' = DOMAIN request \cup {GenIn}
        /\ request'[GenIn] = [head |-> merging[GenIn], late |-> recovery.late]
        /\ \A g \in DOMAIN request \ {GenIn} : request'[g] = request[g]
    BY <1>5 DEF With
  <2>2. SentIsExact'
    BY <1>1, <1>3, <2>1 DEF RecoveryInv, SentIsExact, Exact, SourceOf
  <2> QED
    BY <1>2, <2>2 DEF RecoveryInv
<1> QED
  BY <1>1, <1>4, <1>5

LEMMA EditStep ==
    ASSUME RecoveryInv, NEW gen \in DOMAIN merging, EditByHand(gen)
    PROVE  RecoveryInv'
<1>1. /\ UNCHANGED <<manifests, request, landing>>
      /\ recovery' = [recovery EXCEPT !.late = @ \/ (recovery.at = "publish" /\ gen = GenIn)]
  BY DEF EditByHand, ServerStays
<1>2. /\ DOMAIN merging' = DOMAIN merging /\ \A g \in DOMAIN merging \ {gen} : merging'[g] = merging[g]
      /\ merging'[gen] = [stage |-> merging'[gen].stage, source |-> merging'[gen].source,
                          resolved |-> merging'[gen].resolved, edits |-> merging'[gen].edits,
                          stray |-> merging'[gen].stray, extra |-> merging'[gen].extra]
  <2>1. \/ \E s \in {SourceOf(gen), childHead[ChainLength]}, outside \in BOOLEAN :
             merging' = [merging EXCEPT ![gen].resolved = TRUE, ![gen].source = s, ![gen].stray = outside]
        \/ \E outside \in BOOLEAN :
             merging' = [merging EXCEPT ![gen].edits = @ + 1, ![gen].stray = outside]
        \/ merging' = [merging EXCEPT ![gen].extra = TRUE, ![gen].stray = TRUE]
    BY DEF EditByHand
  <2>2. DOMAIN merging' = DOMAIN merging /\ \A g \in DOMAIN merging \ {gen} : merging'[g] = merging[g]
    BY <2>1
  <2>3. \/ \E s \in {SourceOf(gen), childHead[ChainLength]}, outside \in BOOLEAN :
             merging'[gen] = [merging[gen] EXCEPT !.resolved = TRUE, !.source = s, !.stray = outside]
        \/ \E outside \in BOOLEAN :
             merging'[gen] = [merging[gen] EXCEPT !.edits = @ + 1, !.stray = outside]
        \/ merging'[gen] = [merging[gen] EXCEPT !.extra = TRUE, !.stray = TRUE]
    BY <2>1
  <2> QED
    BY <2>2, <2>3 DEF RecoveryInv, CandidateShape
<1>3. CandidateShape'
  BY <1>2 DEF RecoveryInv, CandidateShape
<1>4. /\ recovery'.at = recovery.at /\ recovery'.gen = recovery.gen /\ recovery'.head = recovery.head
      /\ ~recovery'.late => ~recovery.late /\ ~(recovery.at = "publish" /\ gen = GenIn)
      /\ CommandShape'
  BY <1>1 DEF RecoveryInv, CommandShape
<1>5. CommandKnows'
  BY <1>1, <1>2, <1>4 DEF RecoveryInv, CommandKnows, ManifestsRecord, InCommand, GenIn, ExactCandidate, SourceOf
<1> QED
  BY <1>1, <1>2, <1>3, <1>4, <1>5, SentStays DEF RecoveryInv

\* Children and main move as they like; what GitHub merges was sent before.
LEMMA RecoveryWorldStep ==
    ASSUME RecoveryInv,
           \/ \E k \in Chain : WorkOnChild(k) \/ WriteReady(k)
           \/ MergeMainline \/ \E gen \in DOMAIN request : MergeRecovered(gen)
    PROVE  RecoveryInv'
<1>1. UNCHANGED <<manifests, merging, request, recovery>>
  BY DEF WorkOnChild, CommitChildHead, WriteReady, MergeMainline, MergeRecovered, ServerStays
<1>2. CandidateShape' /\ CommandShape' /\ ManifestsRecord' /\ CommandKnows'
  BY <1>1 DEF RecoveryInv, CandidateShape, CommandShape, ManifestsRecord, CommandKnows, InCommand, GenIn,
              ExactCandidate, SourceOf
<1>3. CASE UNCHANGED landing
  BY <1>1, <1>2, <1>3, SentStays DEF RecoveryInv
<1>4. ASSUME NEW gen \in DOMAIN request, MergeRecovered(gen) PROVE RecoveryInv'
  <2>1. landing' = landing \cup {[gen |-> gen, head |-> request[gen].head, late |-> request[gen].late]}
    BY <1>4 DEF MergeRecovered
  <2>2. SentIsExact'
    BY <1>1, <2>1 DEF RecoveryInv, SentIsExact, Exact, SourceOf
  <2> QED
    BY <1>2, <2>2 DEF RecoveryInv
<1> QED
  BY <1>3, <1>4 DEF WorkOnChild, CommitChildHead, WriteReady, MergeMainline, ServerStays

\* What GitHub merges through the recovery is the merge of exactly the head
\* that its manifest records last, whatever was edited by hand before the last
\* look of the publisher.
THEOREM RecoveredIsExact == RecoverySpec => []LandedIsExact
<1>1. RecoveryInv /\ [RecoveryNext]_recoveryVars => RecoveryInv'
  <2> SUFFICES ASSUME RecoveryInv, [RecoveryNext]_recoveryVars PROVE RecoveryInv'
    OBVIOUS
  <2>1. CASE UNCHANGED recoveryVars
    BY <2>1 DEF recoveryVars, RecoveryInv, CandidateShape, CommandShape, ManifestsRecord, CommandKnows,
                SentIsExact, Exact, InCommand, GenIn, ExactCandidate, SourceOf
  <2>2. CASE RecoveryNext
    BY <2>2, AddRecoveryWorktreeStep, WriteManifestStep, StartMergeStep, CommitStep, LookStep,
       PublishCandidateStep, EditStep, RecoveryWorldStep DEF RecoveryNext
  <2> QED
    BY <2>1, <2>2
<1>2. RecoveryInv => LandedIsExact
  BY DEF RecoveryInv, ManifestsRecord, SentIsExact, Exact, LandedIsExact
<1> QED
  BY <1>1, <1>2, RecoveryStarts, PTL DEF RecoverySpec

-----------------------------------------------------------------------------
(* The shared delivery: one chain of children, delivered once. *)

\* The heads of a chain of children, as sequences.
Chains == {s \in Seq(1..MaxHead) : Len(s) <= Len(Change)}

LEMMA HeadsAreChains == Heads = Chains
<1>1. Len(Change) \in Nat
  BY CandidateAssumption
<1>2. ASSUME NEW s \in Heads PROVE s \in Chains
  <2>1. PICK n \in 0..Len(Change) : s \in [1..n -> 1..MaxHead]
    BY <1>2 DEF Heads
  <2>2. n \in Nat /\ n <= Len(Change)
    BY <1>1, <2>1
  <2>3. s \in Seq(1..MaxHead)
    BY <2>1, <2>2, SeqDef
  <2>4. Len(s) = n
    <3>1. Len(s) \in Nat /\ DOMAIN s = 1..Len(s)
      BY <2>3, LenProperties
    <3>2. DOMAIN s = 1..n
      BY <2>1
    <3>3. ASSUME NEW m \in Nat, 1..m = 1..n PROVE m = n
      <4>1. \A i \in Nat : i \in 1..m <=> i \in 1..n
        BY <3>3
      <4>2. \A i \in Nat : 1 <= i /\ i <= m <=> 1 <= i /\ i <= n
        BY <2>2, <4>1
      <4> QED
        BY <2>2, <4>2
    <3> QED
      BY <3>1, <3>2, <3>3
  <2> QED
    BY <2>2, <2>3, <2>4 DEF Chains
<1>3. ASSUME NEW s \in Chains PROVE s \in Heads
  <2>1. s \in [1..Len(s) -> 1..MaxHead] /\ Len(s) \in 0..Len(Change)
    <3>1. s \in Seq(1..MaxHead) /\ Len(s) <= Len(Change)
      BY <1>3 DEF Chains
    <3>2. s \in [1..Len(s) -> 1..MaxHead] /\ Len(s) \in Nat
      BY <3>1, LenProperties
    <3> QED
      BY <1>1, <3>1, <3>2
  <2> QED
    BY <2>1 DEF Heads
<1> QED
  BY <1>2, <1>3

\* What the proofs use of chains: they are compared element by element, and
\* grow at their end.
LEMMA SequencePrefix ==
    ASSUME NEW S, NEW s \in Seq(S), NEW t \in Seq(S)
    PROVE  IsPrefix(s, t) <=> Len(s) <= Len(t) /\ \A i \in 1..Len(s) : s[i] = t[i]
<1>1. SubSeq(s, 1, Len(s)) = s
  OBVIOUS
<1>2. CASE Len(s) <= Len(t)
  <2>1. /\ SubSeq(t, 1, Len(s)) \in Seq(S) /\ Len(SubSeq(t, 1, Len(s))) = Len(s)
        /\ \A i \in 1..Len(s) : SubSeq(t, 1, Len(s))[i] = t[i]
    BY <1>2
  <2>2. SubSeq(t, 1, Len(s)) = s <=> \A i \in 1..Len(s) : s[i] = t[i]
    BY <2>1
  <2> QED
    BY <1>1, <2>2 DEF IsPrefix
<1>3. CASE ~(Len(s) <= Len(t))
  BY <1>3 DEF IsPrefix
<1> QED
  BY <1>2, <1>3

LEMMA FirstOf ==
    ASSUME NEW S, NEW s \in Seq(S), NEW n \in Nat, n <= Len(s)
    PROVE  /\ SubSeq(s, 1, n) \in Seq(S) /\ Len(SubSeq(s, 1, n)) = n
           /\ \A i \in 1..n : SubSeq(s, 1, n)[i] = s[i]
OBVIOUS

LEMMA ChainPrefix ==
    ASSUME NEW s \in Chains, NEW t \in Chains
    PROVE  IsPrefix(s, t) <=> Len(s) <= Len(t) /\ \A i \in 1..Len(s) : s[i] = t[i]
<1>1. s \in Seq(1..MaxHead) /\ t \in Seq(1..MaxHead)
  BY DEF Chains
<1> QED
  BY <1>1, SequencePrefix

LEMMA ChainGrows ==
    ASSUME NEW s \in Chains, NEW x \in 1..MaxHead, Len(s) < Len(Change)
    PROVE  /\ Append(s, x) \in Chains /\ Len(Append(s, x)) = Len(s) + 1
           /\ Append(s, x)[Len(s) + 1] = x
           /\ \A i \in 1..Len(s) : Append(s, x)[i] = s[i]
<1>1. Len(Change) \in Nat /\ s \in Seq(1..MaxHead) /\ Len(s) \in Nat
  BY CandidateAssumption DEF Chains
<1> QED
  BY <1>1 DEF Chains

LEMMA ChainFacts ==
    /\ Len(Change) \in Nat \ {0, 1} /\ MaxHead \in Nat \ {0} /\ MaxMain \in Nat \ {0}
    /\ <<>> \in Chains /\ Len(<<>>) = 0 /\ Child \subseteq Nat
    /\ \A s \in Chains : /\ Len(s) \in Nat /\ Len(s) <= Len(Change) /\ 1..Len(s) \subseteq Child
                         /\ \A i \in 1..Len(s) : s[i] \in 1..MaxHead
                         /\ Len(s) = 0 => s = <<>>
    /\ Mains \subseteq Nat /\ 1 \in Mains /\ \A n \in 1..MaxMain : n + 1 \in Mains
<1>1. /\ Len(Change) \in Nat \ {0, 1} /\ MaxHead \in Nat \ {0} /\ MaxMain \in Nat \ {0}
  BY CandidateAssumption
<1>2. <<>> \in Chains /\ Len(<<>>) = 0
  BY <1>1 DEF Chains
<1>3. ASSUME NEW s \in Chains
      PROVE  /\ Len(s) \in Nat /\ Len(s) <= Len(Change) /\ 1..Len(s) \subseteq Child
             /\ \A i \in 1..Len(s) : s[i] \in 1..MaxHead
             /\ Len(s) = 0 => s = <<>>
  BY <1>1 DEF Chains, Child
<1> QED
  BY <1>1, <1>2, <1>3 DEF Mains, Child

-----------------------------------------------------------------------------
(* Types. *)

BranchRecord == [base : {0} \cup Mains, built : Chains, bound : 0..Len(Change), dirty : BOOLEAN]
RequestRecord == [head : Chains, draft : BOOLEAN, armed : BOOLEAN]
RoundStage == {"idle", "collecting", "binding", "composing", "building", "publishing",
               "checking", "rechecking", "pushing", "opening", "waiting", "merged"}
RoundRecord == [at : RoundStage, heads : Chains, base : {0} \cup Mains, gen : Generation]

RoundTypes ==
    /\ tip \in [Child -> 0..MaxHead] /\ bornAt \in [Child -> {0} \cup Mains]
    /\ receipt \in [Child -> 0..MaxHead] /\ moved \in BOOLEAN
    /\ main \in Mains /\ localMain \in Mains /\ others \in 1..MaxMain
    /\ candidate \in [Generation -> BranchRecord] /\ pr \in [Generation -> RequestRecord]
    /\ landed \subseteq Generation \X Chains /\ checked \subseteq Generation \X Chains
    /\ done \in BOOLEAN /\ run \in RoundRecord

LEMMA TypesAreTypes == CandidateTypeOK <=> RoundTypes
BY HeadsAreChains DEF CandidateTypeOK, RoundTypes, BranchRecord, RequestRecord, RoundStage, RoundRecord

\* The records that a step starts from have their types.
LEMMA BlankTypes ==
    /\ NoCandidate \in BranchRecord /\ NoRequest \in RequestRecord /\ NoRun \in RoundRecord
    /\ 0 \in Generation /\ Mains \subseteq Generation /\ Generation \subseteq Nat
<1>1. 0 \in Generation /\ Mains \subseteq Generation /\ Generation \subseteq Nat
  BY ChainFacts DEF Generation
<1> QED
  BY <1>1, ChainFacts DEF NoCandidate, NoRequest, NoRun, BranchRecord, RequestRecord, RoundRecord, RoundStage

LEMMA RunTypes ==
    ASSUME RoundTypes, CandidateNext
    PROVE  run' \in RoundRecord
<1>1. /\ run \in RoundRecord /\ NoRun \in RoundRecord /\ localMain \in Mains
      /\ candidate \in [Generation -> BranchRecord] /\ tip \in [Child -> 0..MaxHead]
  BY BlankTypes DEF RoundTypes
<1>2. CASE run' = run \/ run' = NoRun
  BY <1>1, <1>2
<1>3. CASE \E step \in RoundStage : run' = [run EXCEPT !.at = step]
  BY <1>1, <1>3 DEF RoundRecord
<1>4. CASE BeginRound
  <2>1. run' = [NoRun EXCEPT !.at = "collecting"]
    BY <1>4 DEF BeginRound
  <2> QED
    BY <1>1, <2>1 DEF RoundRecord, RoundStage
<1>5. CASE Collect
  <2>1. /\ run' = [run EXCEPT !.heads = Append(@, tip[Len(run.heads) + 1])] /\ run.heads \in Chains
        /\ Ready(Len(run.heads) + 1)
    BY <1>1, <1>5 DEF Collect, RoundRecord
  <2>2. Len(run.heads) < Len(Change) /\ tip[Len(run.heads) + 1] \in 1..MaxHead
    BY <1>1, <2>1, ChainFacts DEF Ready, Child
  <2>3. Append(run.heads, tip[Len(run.heads) + 1]) \in Chains
    BY <2>1, <2>2, ChainGrows
  <2> QED
    BY <1>1, <2>1, <2>3 DEF RoundRecord
<1>6. CASE Bind
  <2>1. PICK base \in {0} \cup Mains :
          run' = [run EXCEPT !.at = "composing", !.base = base, !.gen = GenerationOf(base)]
    BY <1>1, <1>6 DEF Bind, Existing, BranchRecord
  <2>2. GenerationOf(base) \in Generation
    BY BlankTypes DEF GenerationOf, Generation
  <2>3. [run EXCEPT !.at = "composing"] \in RoundRecord
    BY <1>1 DEF RoundRecord, RoundStage
  <2>4. [run EXCEPT !.at = "composing", !.base = base] \in RoundRecord
    BY <1>1, <2>3 DEF RoundRecord
  <2> QED
    BY <1>1, <2>1, <2>2, <2>4 DEF RoundRecord
<1> QED
  BY <1>2, <1>3, <1>4, <1>5, <1>6 DEF CandidateNext, RoundStep, Collected, StartFirst, NothingToDo, Compose, Apply,
     CommitChild, BindManifest, Resume, RunFullChecks, Recheck, Push, Open, SeeMerge, Reconcile, EndRound, StartByHand,
     Commit, MoveMain, SyncMain, MergeRequest, RoundGoes, Stop, RoundStage

\* What a step does to the children and to main.
StartsChild == \E c \in Child : bornAt[c] = 0 /\ bornAt' = [bornAt EXCEPT ![c] = localMain]
Handoff ==
    \E c \in Child :
        /\ tip[c] > 0 /\ receipt' = [receipt EXCEPT ![c] = tip[c]]
        /\ moved' = (moved \/ receipt[c] \notin {0, tip[c]})
        /\ run.at = "collecting" /\ c = Len(run.heads) + 1 /\ run' = [run EXCEPT !.heads = Append(@, tip[c])]

LEMMA WorldSteps ==
    ASSUME RoundTypes, CandidateNext
    PROVE  /\ \/ UNCHANGED bornAt \/ StartsChild
           /\ \/ UNCHANGED tip
              \/ \E c \in Child : bornAt[c] # 0 /\ tip[c] < MaxHead /\ tip' = [tip EXCEPT ![c] = @ + 1]
           /\ \/ UNCHANGED <<receipt, moved>> \/ Handoff
           /\ \/ UNCHANGED <<main, others>>
              \/ main' = main + 1 /\ main + 1 \in Mains /\ others' = others
              \/ main' = main + 1 /\ main + 1 \in Mains /\ others < MaxMain /\ others' = others + 1
           /\ localMain' \in {localMain, main}
<1>1. /\ candidate \in [Generation -> BranchRecord] /\ run \in RoundRecord /\ tip \in [Child -> 0..MaxHead]
      /\ bornAt \in [Child -> {0} \cup Mains] /\ run.heads \in Chains
  BY DEF RoundTypes, RoundRecord
<1>2. CASE Open
  <2>1. \/ UNCHANGED bornAt
        \/ ~Complete(run.heads)
           /\ bornAt' = [bornAt EXCEPT ![Len(run.heads) + 1] = IF @ = 0 THEN localMain ELSE @]
    BY <1>2 DEF Open, Deliverable
  <2>2. ASSUME ~Complete(run.heads) PROVE Len(run.heads) + 1 \in Child
    BY <1>1, <2>2, ChainFacts DEF Complete, Child
  <2>3. UNCHANGED bornAt \/ StartsChild
    <3>1. CASE UNCHANGED bornAt
      BY <3>1
    <3>2. CASE ~Complete(run.heads) /\ bornAt[Len(run.heads) + 1] = 0
      BY <1>1, <2>1, <2>2, <3>2 DEF StartsChild
    <3>3. CASE ~Complete(run.heads) /\ bornAt[Len(run.heads) + 1] # 0
      BY <1>1, <2>1, <2>2, <3>3
    <3> QED
      BY <2>1, <3>1, <3>2, <3>3
  <2> QED
    BY <1>2, <2>3 DEF Open, mainVars
<1>3. CASE Collect
  BY <1>1, <1>3 DEF Collect, Ready, Handoff, RoundAt, childVars, mainVars
<1>4. CASE StartFirst \/ \E c \in Child : StartByHand(c)
  <2>1. 1 \in Child
    BY ChainFacts DEF Child
  <2> QED
    BY <1>4, <2>1 DEF StartFirst, StartByHand, StartNext, StartsChild, mainVars
<1>5. CASE \E c \in Child : Commit(c)
  BY <1>5 DEF Commit, mainVars
<1>6. CASE MoveMain \/ SyncMain \/ \E g \in Generation : MergeRequest(g)
  BY <1>6 DEF MoveMain, SyncMain, MergeRequest, childVars
<1>7. CASE Reconcile
  BY <1>7 DEF Reconcile, childVars
<1>8. CASE UNCHANGED <<childVars, receipt, moved, mainVars>>
  BY <1>8 DEF childVars, mainVars
<1> QED
  BY <1>2, <1>3, <1>4, <1>5, <1>6, <1>7, <1>8 DEF CandidateNext, RoundStep, BeginRound, Collected, NothingToDo, Bind,
     Compose, Apply, CommitChild, BindManifest, Resume, RunFullChecks, Recheck, Push, SeeMerge, EndRound,
     OnlyTheRun, SetCandidate, childVars, mainVars

LEMMA FamilyTypes ==
    ASSUME RoundTypes, CandidateNext
    PROVE  /\ tip' \in [Child -> 0..MaxHead] /\ bornAt' \in [Child -> {0} \cup Mains]
           /\ receipt' \in [Child -> 0..MaxHead] /\ moved' \in BOOLEAN
           /\ main' \in Mains /\ localMain' \in Mains /\ others' \in 1..MaxMain
<1>1. /\ tip \in [Child -> 0..MaxHead] /\ bornAt \in [Child -> {0} \cup Mains]
      /\ receipt \in [Child -> 0..MaxHead] /\ moved \in BOOLEAN
      /\ main \in Mains /\ localMain \in Mains /\ others \in 1..MaxMain
      /\ MaxHead \in Nat /\ MaxMain \in Nat
  BY ChainFacts DEF RoundTypes
<1>2. tip' \in [Child -> 0..MaxHead]
  <2>1. ASSUME NEW c \in Child, tip[c] < MaxHead PROVE tip[c] + 1 \in 0..MaxHead
    BY <1>1, <2>1
  <2> QED
    BY <1>1, <2>1, WorldSteps
<1>3. bornAt' \in [Child -> {0} \cup Mains]
  BY <1>1, WorldSteps DEF StartsChild
<1>4. receipt' \in [Child -> 0..MaxHead]
  BY <1>1, WorldSteps DEF Handoff
<1>5. moved' \in BOOLEAN
  BY <1>1, WorldSteps, Zenon DEF Handoff
<1>6. main' \in Mains /\ localMain' \in Mains
  BY <1>1, WorldSteps
<1>7. others' \in 1..MaxMain
  BY <1>1, WorldSteps
<1> QED
  BY <1>2, <1>3, <1>4, <1>5, <1>6, <1>7

\* What a step does to a candidate and to its pull request.
Creates == Mine.base = 0 /\ candidate' = [candidate EXCEPT ![run.gen] = [NoCandidate EXCEPT !.base = run.base]]
StartsApply == Len(Mine.built) < Len(run.heads) /\ candidate' = [candidate EXCEPT ![run.gen] = [Mine EXCEPT !.dirty = TRUE]]
EndsApply ==
    /\ Mine.dirty
    /\ candidate' = [candidate EXCEPT ![run.gen] =
                        [Mine EXCEPT !.dirty = FALSE, !.built = Append(Mine.built, run.heads[Len(Mine.built) + 1])]]
BindsAll ==
    /\ Mine.built = run.heads
    /\ candidate' = [candidate EXCEPT ![run.gen] = [Mine EXCEPT !.bound = Len(run.heads)]]

LEMMA CandidateSteps ==
    ASSUME RoundTypes, CandidateNext
    PROVE  \/ UNCHANGED candidate
           \/ Compose /\ Creates
           \/ Apply /\ StartsApply
           \/ CommitChild /\ EndsApply
           \/ BindManifest /\ BindsAll
<1>1. candidate \in [Generation -> BranchRecord] /\ run.gen \in Generation
  BY DEF RoundTypes, RoundRecord
<1>2. CASE Compose
  <2>1. CASE Mine.base = 0
    BY <1>2, <2>1 DEF Compose, SetCandidate, Creates
  <2>2. CASE Mine.base # 0
    <3>1. candidate' = [candidate EXCEPT ![run.gen] = candidate[run.gen]]
      BY <1>2, <2>2 DEF Compose, SetCandidate, Mine
    <3> QED
      BY <1>1, <3>1
  <2> QED
    BY <2>1, <2>2
<1>3. CASE Apply
  BY <1>3 DEF Apply, SetCandidate, StartsApply
<1>4. CASE CommitChild
  <2>1. candidate' = [candidate EXCEPT ![run.gen] =
                         [Mine EXCEPT !.dirty = FALSE, !.built = Append(@, run.heads[Len(@) + 1])]]
    BY <1>4 DEF CommitChild, SetCandidate
  <2>2. Mine \in BranchRecord /\ Mine.dirty
    BY <1>1, <1>4 DEF Mine, CommitChild
  <2>3. [Mine EXCEPT !.dirty = FALSE, !.built = Append(@, run.heads[Len(@) + 1])]
            = [Mine EXCEPT !.dirty = FALSE, !.built = Append(Mine.built, run.heads[Len(Mine.built) + 1])]
    BY <2>2 DEF BranchRecord
  <2> QED
    BY <1>4, <2>1, <2>2, <2>3 DEF EndsApply
<1>5. CASE BindManifest
  BY <1>5 DEF BindManifest, SetCandidate, BindsAll
<1> QED
  BY <1>2, <1>3, <1>4, <1>5 DEF CandidateNext, RoundStep, BeginRound, Collect, Collected, StartFirst, NothingToDo, Bind,
     Resume, RunFullChecks, Recheck, Push, Open, SeeMerge, Reconcile, EndRound, StartByHand, StartNext, Commit,
     MoveMain, SyncMain, MergeRequest, OnlyTheRun

LEMMA CandidateTypes ==
    ASSUME RoundTypes, CandidateNext,
           run.at = "building" /\ Mine.dirty => Len(Mine.built) < Len(run.heads)
    PROVE  candidate' \in [Generation -> BranchRecord]
<1>1. /\ candidate \in [Generation -> BranchRecord] /\ run.gen \in Generation /\ run.heads \in Chains
      /\ run.base \in {0} \cup Mains /\ Mine \in BranchRecord /\ Len(run.heads) \in 0..Len(Change)
  BY ChainFacts DEF RoundTypes, RoundRecord, Mine
<1>2. ASSUME NEW r \in BranchRecord, candidate' = [candidate EXCEPT ![run.gen] = r]
      PROVE  candidate' \in [Generation -> BranchRecord]
  BY <1>1, <1>2
<1>3. CASE Creates
  <2>1. [NoCandidate EXCEPT !.base = run.base] \in BranchRecord
    BY <1>1, BlankTypes DEF BranchRecord
  <2> QED
    BY <1>2, <1>3, <2>1 DEF Creates
<1>4. CASE StartsApply
  <2>1. [Mine EXCEPT !.dirty = TRUE] \in BranchRecord
    BY <1>1 DEF BranchRecord
  <2> QED
    BY <1>2, <1>4, <2>1 DEF StartsApply
<1>5. CASE CommitChild /\ EndsApply
  <2> DEFINE longer == Append(Mine.built, run.heads[Len(Mine.built) + 1])
  <2>1. Mine.built \in Chains /\ run.at = "building" /\ Mine.dirty
    BY <1>1, <1>5 DEF CommitChild, RoundAt, BranchRecord
  <2>2. longer \in Chains
    <3>1. Len(Mine.built) < Len(run.heads)
      BY <2>1
    <3>2. Len(Mine.built) + 1 \in 1..Len(run.heads)
      BY <1>1, <2>1, <3>1, ChainFacts
    <3> QED
      BY <1>1, <2>1, <3>2, ChainFacts, ChainGrows
  <2>3. [Mine EXCEPT !.dirty = FALSE] \in BranchRecord
    BY <1>1 DEF BranchRecord
  <2>4. [Mine EXCEPT !.dirty = FALSE, !.built = longer] \in BranchRecord
    BY <2>2, <2>3 DEF BranchRecord
  <2> QED
    BY <1>2, <1>5, <2>4 DEF EndsApply
<1>6. CASE BindsAll
  <2>1. [Mine EXCEPT !.bound = Len(run.heads)] \in BranchRecord
    BY <1>1 DEF BranchRecord
  <2> QED
    BY <1>2, <1>6, <2>1 DEF BindsAll
<1> QED
  BY <1>1, <1>3, <1>4, <1>5, <1>6, CandidateSteps

LEMMA RequestSteps ==
    ASSUME RoundTypes, CandidateNext
    PROVE  \/ UNCHANGED pr
           \/ /\ Push
              /\ pr' = [pr EXCEPT ![run.gen] =
                           IF pr[run.gen] = NoRequest
                           THEN [head |-> run.heads, draft |-> ~Complete(run.heads), armed |-> FALSE]
                           ELSE [pr[run.gen] EXCEPT !.head = run.heads]]
           \/ /\ Open /\ pr[run.gen].head = run.heads
              /\ pr' = [pr EXCEPT ![run.gen] =
                           [head |-> run.heads, draft |-> ~Complete(run.heads), armed |-> Complete(run.heads)]]
           \/ \E g \in Generation : MergeRequest(g) /\ pr' = [pr EXCEPT ![g] = NoRequest]
<1>1. pr \in [Generation -> RequestRecord] /\ run.gen \in Generation
  BY DEF RoundTypes, RoundRecord
<1>2. CASE Push
  BY <1>2 DEF Push
<1>3. CASE Open
  BY <1>3 DEF Open, Deliverable
<1>4. CASE \E g \in Generation : MergeRequest(g)
  BY <1>4 DEF MergeRequest
<1> QED
  BY <1>2, <1>3, <1>4 DEF CandidateNext, RoundStep, BeginRound, Collect, Collected, StartFirst, NothingToDo, Bind,
     Compose, Apply, CommitChild, BindManifest, Resume, RunFullChecks, Recheck, SeeMerge, Reconcile, EndRound,
     StartByHand, StartNext, Commit, MoveMain, SyncMain, OnlyTheRun, SetCandidate, remoteVars

LEMMA RequestTypes ==
    ASSUME RoundTypes, CandidateNext
    PROVE  pr' \in [Generation -> RequestRecord]
<1>1. /\ pr \in [Generation -> RequestRecord] /\ run.gen \in Generation /\ run.heads \in Chains
      /\ NoRequest \in RequestRecord /\ (Complete(run.heads) \in BOOLEAN) /\ (~Complete(run.heads)) \in BOOLEAN
  <2>1. (Complete(run.heads) \in BOOLEAN) /\ (~Complete(run.heads)) \in BOOLEAN
    BY Zenon DEF Complete
  <2> QED
    BY <2>1, BlankTypes DEF RoundTypes, RoundRecord
<1>2. /\ [head |-> run.heads, draft |-> ~Complete(run.heads), armed |-> FALSE] \in RequestRecord
      /\ [head |-> run.heads, draft |-> ~Complete(run.heads), armed |-> Complete(run.heads)] \in RequestRecord
      /\ [pr[run.gen] EXCEPT !.head = run.heads] \in RequestRecord
  BY <1>1 DEF RequestRecord
<1> QED
  BY <1>1, <1>2, RequestSteps

LEMMA VerdictTypes ==
    ASSUME RoundTypes, CandidateNext
    PROVE  /\ \/ UNCHANGED landed
              \/ \E g \in Generation : MergeRequest(g) /\ landed' = landed \cup {<<g, pr[g].head>>}
           /\ \/ UNCHANGED checked
              \/ RunFullChecks /\ checked' = checked \cup {<<run.gen, run.heads>>}
           /\ UNCHANGED done \/ (Reconcile /\ done' = (done \/ Complete(run.heads)))
           /\ landed' \subseteq Generation \X Chains /\ checked' \subseteq Generation \X Chains /\ done' \in BOOLEAN
<1>1. /\ landed \subseteq Generation \X Chains /\ checked \subseteq Generation \X Chains /\ done \in BOOLEAN
      /\ run.gen \in Generation /\ run.heads \in Chains /\ \A g \in Generation : pr[g].head \in Chains
  BY DEF RoundTypes, RoundRecord, RequestRecord
<1>2. /\ \/ UNCHANGED landed
         \/ \E g \in Generation : MergeRequest(g) /\ landed' = landed \cup {<<g, pr[g].head>>}
      /\ \/ UNCHANGED checked
         \/ RunFullChecks /\ checked' = checked \cup {<<run.gen, run.heads>>}
      /\ UNCHANGED done \/ (Reconcile /\ done' = (done \/ Complete(run.heads)))
  BY DEF CandidateNext, RoundStep, BeginRound, Collect, Collected, StartFirst, NothingToDo, Bind,
     Compose, Apply, CommitChild, BindManifest, Resume, RunFullChecks, Recheck, Push, Open, SeeMerge, Reconcile, EndRound,
     StartByHand, StartNext, Commit, MoveMain, SyncMain, MergeRequest, OnlyTheRun, SetCandidate, remoteVars, Reconcilable
<1>3. done' \in BOOLEAN
  BY <1>1, <1>2, Zenon
<1> QED
  BY <1>1, <1>2, <1>3

-----------------------------------------------------------------------------
(* What is known of children, candidates and the round.                    *)

\* The generation that the first n children belong to on a base.
GenOf(n, base) == IF \E c \in 1..n : bornAt[c] < base THEN base ELSE 0
Bound(g) == candidate[g].bound > 0

\* A child is started once, before it has a head, and its receipt is for a
\* head it had.
ChildrenGrow ==
    /\ \A c \in Child : receipt[c] <= tip[c] /\ (tip[c] > 0 => bornAt[c] > 0)
    /\ localMain <= main

\* The heads of a round are those in the receipts.
HeadsAreReceipts == \A c \in 1..Len(run.heads) : run.heads[c] = receipt[c]

\* A candidate holds children that were ready, at the heads of their receipts
\* as long as none was superseded; what is published of it was bound to it.
CandidatesGrow ==
    \A g \in Generation :
        /\ candidate[g].bound <= Len(candidate[g].built)
        /\ \A c \in 1..Len(candidate[g].built) :
              receipt[c] > 0 /\ (~moved => candidate[g].built[c] = receipt[c])
        /\ candidate[g].base <= localMain /\ (g # 0 /\ candidate[g].base # 0 => candidate[g].base = g)
        /\ candidate[g].base = 0 => candidate[g].built = <<>>
        /\ IsPrefix(pr[g].head, candidate[g].built) /\ Len(pr[g].head) <= candidate[g].bound

LandedAreBound ==
    \A one \in landed : IsPrefix(one[2], candidate[one[1]].built) /\ Len(one[2]) <= candidate[one[1]].bound

\* What a round knows at its steps.
RoundKnows ==
    /\ run.at = "binding" => \A g \in Generation : Len(candidate[g].built) <= Len(run.heads)
    /\ run.at \in {"composing", "building"} =>
         /\ run.base > 0 /\ run.base <= localMain /\ run.gen = GenOf(Len(run.heads), run.base)
    /\ run.at = "building" =>
         /\ IsPrefix(Mine.built, run.heads) /\ (Mine.dirty => Len(Mine.built) < Len(run.heads))
         /\ Mine.base # 0
    /\ run.at = "pushing" => Composed
    /\ run.at \in {"rechecking", "pushing", "opening"} /\ Complete(run.heads) => <<run.gen, run.heads>> \in checked
    /\ run.at = "merged" => <<run.gen, run.heads>> \in landed

\* As long as no receipt was superseded there is one chain of children, and
\* at most one candidate that holds all of it.
OneChain ==
    ~moved =>
      /\ \A g \in Generation : Bound(g) => g = GenOf(candidate[g].bound, candidate[g].base)
      /\ \A g, h \in Generation : Bound(g) /\ Bound(h) /\ g # h =>
            ~(candidate[g].bound = Len(Change) /\ candidate[h].bound = Len(Change))
      /\ run.at \in {"composing", "building"} =>
            /\ Mine.base # 0 => Mine.base <= run.base
            /\ \A g \in Generation : Bound(g) =>
               run.base = candidate[g].base /\ \A h \in Generation : Bound(h) => g = h

DoneWasMerged == done => \E one \in landed : Complete(one[2]) /\ \A c \in Child : one[2][c] <= receipt[c]

DeliveryInv ==
    /\ RoundTypes /\ ChildrenGrow /\ HeadsAreReceipts /\ CandidatesGrow /\ LandedAreBound
    /\ RoundKnows /\ OneChain /\ DoneWasMerged /\ ArmedIsVerified

\* The types, as the proofs use them.
LEMMA TypedFacts ==
    ASSUME RoundTypes
    PROVE  /\ run.heads \in Chains /\ run.gen \in Generation /\ run.base \in Nat /\ Mine = candidate[run.gen]
           /\ localMain \in Nat /\ localMain > 0 /\ main \in Nat
           /\ \A g \in Generation : /\ candidate[g].built \in Chains /\ candidate[g].base \in Nat
                                    /\ candidate[g].bound \in Nat /\ candidate[g].bound <= Len(Change)
                                    /\ pr[g].head \in Chains
           /\ \A c \in Child : tip[c] \in Nat /\ receipt[c] \in Nat /\ bornAt[c] \in Nat
<1>1. /\ run.heads \in Chains /\ run.gen \in Generation /\ run.base \in {0} \cup Mains /\ Mine = candidate[run.gen]
  BY DEF RoundTypes, RoundRecord, Mine
<1>2. localMain \in Nat /\ localMain > 0 /\ main \in Nat
  BY ChainFacts DEF RoundTypes, Mains
<1>3. ASSUME NEW g \in Generation
      PROVE  /\ candidate[g].built \in Chains /\ candidate[g].base \in Nat
             /\ candidate[g].bound \in Nat /\ candidate[g].bound <= Len(Change) /\ pr[g].head \in Chains
  <2>1. candidate[g] \in BranchRecord /\ pr[g] \in RequestRecord
    BY DEF RoundTypes
  <2> QED
    <3>1. Mains \subseteq Nat /\ Len(Change) \in Nat
      BY ChainFacts
    <3>2. candidate[g].bound \in 0..Len(Change) /\ candidate[g].base \in {0} \cup Mains /\ candidate[g].built \in Chains
      BY <2>1 DEF BranchRecord
    <3>3. pr[g].head \in Chains
      BY <2>1 DEF RequestRecord
    <3>4. candidate[g].bound \in Nat /\ candidate[g].bound <= Len(Change)
      BY <3>1, <3>2
    <3>5. candidate[g].base \in Nat
      <4>1. CASE candidate[g].base = 0
        BY <4>1
      <4>2. CASE candidate[g].base \in Mains
        BY <3>1, <4>2
      <4> QED
        BY <3>2, <4>1, <4>2
    <3> QED
      BY <3>2, <3>3, <3>4, <3>5
<1>4. \A c \in Child : tip[c] \in Nat /\ receipt[c] \in Nat /\ bornAt[c] \in Nat
  <2>1. Mains \subseteq Nat /\ MaxHead \in Nat
    BY ChainFacts
  <2> TAKE c \in Child
  <2>2. tip[c] \in 0..MaxHead /\ receipt[c] \in 0..MaxHead
    BY DEF RoundTypes
  <2>3. bornAt[c] \in {0} \cup Mains
    BY DEF RoundTypes
  <2>4. tip[c] \in Nat /\ receipt[c] \in Nat
    BY <2>1, <2>2
  <2>5. bornAt[c] \in Nat
    <3>1. CASE bornAt[c] = 0
      BY <3>1
    <3>2. CASE bornAt[c] \in Mains
      BY <2>1, <3>2
    <3> QED
      BY <2>3, <3>1, <3>2
  <2> QED
    BY <2>4, <2>5
<1> QED
  BY <1>1, <1>2, <1>3, <1>4, ChainFacts

\* Heads, receipts and main only grow, and a child that was started stays so.
LEMMA WorldGrows ==
    ASSUME RoundTypes, ChildrenGrow, CandidateNext
    PROVE  /\ \A c \in Child :
                /\ tip[c] <= tip'[c] /\ receipt[c] <= receipt'[c]
                /\ bornAt[c] # 0 => bornAt'[c] = bornAt[c]
                /\ receipt[c] > 0 /\ ~moved' => receipt'[c] = receipt[c]
           /\ localMain <= localMain' /\ (moved => moved')
<1>1. /\ tip \in [Child -> 0..MaxHead] /\ bornAt \in [Child -> {0} \cup Mains] /\ receipt \in [Child -> 0..MaxHead]
      /\ localMain \in Nat /\ main \in Nat /\ localMain <= main
      /\ \A c \in Child : tip[c] \in Nat /\ receipt[c] \in Nat /\ receipt[c] <= tip[c]
  BY TypedFacts DEF RoundTypes, ChildrenGrow
<1>2. localMain <= localMain' /\ (moved => moved')
  <2>1. localMain <= localMain'
    BY <1>1, WorldSteps
  <2>2. moved => moved'
    BY WorldSteps, Zenon DEF Handoff
  <2> QED
    BY <2>1, <2>2
<1>3. \A c \in Child : tip[c] <= tip'[c]
  BY <1>1, WorldSteps
<1>4. \A c \in Child : bornAt[c] # 0 => bornAt'[c] = bornAt[c]
  BY <1>1, WorldSteps DEF StartsChild
<1>5. ASSUME NEW c \in Child
      PROVE  receipt[c] <= receipt'[c] /\ (receipt[c] > 0 /\ ~moved' => receipt'[c] = receipt[c])
  <2>1. CASE UNCHANGED <<receipt, moved>>
    BY <1>1, <2>1
  <2>2. CASE Handoff
    <3>1. PICK d \in Child : receipt' = [receipt EXCEPT ![d] = tip[d]] /\ (receipt[d] \notin {0, tip[d]} => moved')
      BY <2>2 DEF Handoff
    <3> QED
      BY <1>1, <3>1
  <2> QED
    BY <2>1, <2>2, WorldSteps
<1> QED
  BY <1>2, <1>3, <1>4, <1>5

LEMMA ChildrenStep ==
    ASSUME RoundTypes, ChildrenGrow, CandidateNext
    PROVE  ChildrenGrow'
<1>1. /\ tip \in [Child -> 0..MaxHead] /\ bornAt \in [Child -> {0} \cup Mains] /\ receipt \in [Child -> 0..MaxHead]
      /\ localMain \in Nat /\ localMain > 0 /\ main \in Nat /\ localMain <= main
      /\ \A c \in Child : tip[c] \in Nat /\ receipt[c] \in Nat /\ bornAt[c] \in Nat
      /\ \A c \in Child : receipt[c] <= tip[c] /\ (tip[c] > 0 => bornAt[c] > 0)
  BY TypedFacts DEF RoundTypes, ChildrenGrow
<1>2. localMain' <= main'
  BY <1>1, WorldSteps
<1>3. ASSUME NEW c \in Child PROVE receipt'[c] <= tip'[c] /\ (tip'[c] > 0 => bornAt'[c] > 0)
  <2>1. tip[c] <= tip'[c] /\ tip'[c] \in Nat
    BY <1>1, WorldGrows, FamilyTypes, ChainFacts
  <2>2. receipt'[c] \in {receipt[c], tip[c]}
    BY <1>1, WorldSteps DEF Handoff
  <2>3. tip'[c] = tip[c] \/ bornAt[c] # 0
    BY <1>1, WorldSteps
  <2>4. bornAt[c] # 0 => bornAt'[c] = bornAt[c]
    BY WorldGrows
  <2> QED
    BY <1>1, <2>1, <2>2, <2>3, <2>4
<1> QED
  BY <1>2, <1>3 DEF ChildrenGrow

\* What a step does to the round.
NewRound == run'.heads = <<>> /\ run'.at \in {"idle", "collecting"}
Goes(step) ==
    /\ run' = [run EXCEPT !.at = step]
    /\ step = "binding" => Collected
    /\ step # "composing" /\ step # "collecting" /\ step # "idle"
    /\ step = "building" => Compose
    /\ step = "rechecking" => RunFullChecks \/ ~Complete(run.heads)
    /\ step = "pushing" => Recheck
    /\ step = "opening" => Push
    /\ step = "merged" => <<run.gen, run.heads>> \in landed
BindTo(base) ==
    /\ run' = [run EXCEPT !.at = "composing", !.base = base, !.gen = GenerationOf(base)]
    /\ \/ Existing = {} /\ base = localMain
       \/ \E g \in Existing : Existing = {g} /\ base = candidate[g].base

LEMMA RunSteps ==
    ASSUME RoundTypes, CandidateNext
    PROVE  \/ Handoff /\ UNCHANGED candidate
           \/ UNCHANGED <<receipt, moved>> /\ NewRound /\ UNCHANGED candidate
           \/ UNCHANGED <<receipt, moved>> /\ \E step \in RoundStage : Goes(step)
           \/ UNCHANGED <<receipt, moved>> /\ run.at = "binding" /\ (\E base \in Nat : BindTo(base)) /\ UNCHANGED candidate
           \/ UNCHANGED <<receipt, moved>> /\ run' = run /\ ~Compose /\ ~BindManifest
<1>1. CASE Collect
  <2>1. Handoff
    BY <1>1 DEF Collect, Ready, Handoff, RoundAt
  <2> QED
    BY <1>1, <2>1 DEF Collect
<1>2. CASE BeginRound \/ StartFirst \/ NothingToDo \/ Reconcile \/ EndRound
  <2>1. run' \in {NoRun, [NoRun EXCEPT !.at = "collecting"]} /\ UNCHANGED <<receipt, moved, candidate>>
    BY <1>2 DEF BeginRound, StartFirst, NothingToDo, Reconcile, EndRound, OnlyTheRun, Stop, StartNext
  <2> QED
    BY <2>1 DEF NewRound, NoRun
<1>3. CASE Bind
  <2>1. UNCHANGED <<receipt, moved, candidate>> /\ run.at = "binding"
    BY <1>3 DEF Bind, OnlyTheRun, RoundAt
  <2>2. PICK base : BindTo(base)
    BY <1>3 DEF Bind, BindTo
  <2>3. base \in Nat
    BY <2>2, TypedFacts DEF BindTo, Existing
  <2> QED
    BY <2>1, <2>2, <2>3
<1>4. CASE Compose
  <2>1. UNCHANGED <<receipt, moved>> /\ run' = [run EXCEPT !.at = IF Composed THEN "publishing" ELSE "building"]
    BY <1>4 DEF Compose, SetCandidate, RoundGoes
  <2> QED
    BY <1>4, <2>1 DEF Goes, RoundStage
<1>5. CASE Collected \/ BindManifest \/ RunFullChecks \/ Recheck \/ Push \/ SeeMerge
  BY <1>5 DEF Collected, BindManifest, RunFullChecks, Recheck, Push, SeeMerge, RoundGoes, OnlyTheRun, SetCandidate,
     Goes, RoundStage
<1>6. CASE Resume
  BY <1>6 DEF Resume, RoundGoes, OnlyTheRun, Goes, RoundStage
<1>7. CASE Open
  <2>1. /\ UNCHANGED <<receipt, moved, candidate>>
        /\ run' = NoRun \/ run' = [run EXCEPT !.at = "waiting"]
    BY <1>7 DEF Open, Stop, RoundGoes
  <2>2. CASE run' = NoRun
    BY <1>7, <2>2 DEF Open, NewRound, NoRun
  <2>3. CASE run' = [run EXCEPT !.at = "waiting"]
    BY <1>7, <2>3 DEF Open, Goes, RoundStage
  <2> QED
    BY <2>1, <2>2, <2>3
<1>8. CASE \/ Apply \/ CommitChild \/ \E c \in Child : StartByHand(c) \/ Commit(c)
           \/ MoveMain \/ SyncMain \/ \E g \in Generation : MergeRequest(g)
  <2>1. UNCHANGED <<receipt, moved>> /\ run' = run
    BY <1>8 DEF Apply, CommitChild, StartByHand, StartNext, Commit, MoveMain, SyncMain, MergeRequest, SetCandidate
  <2>2. \A step \in RoundStage : run.at # step => run' # [run EXCEPT !.at = step]
    <3>1. run \in RoundRecord
      BY DEF RoundTypes
    <3> QED
      BY <2>1, <3>1 DEF RoundRecord
  <2>3. (Compose => run.at = "composing" /\ run'.at # "composing") /\ (BindManifest => run.at = "building" /\ run'.at # "building")
    <3>1. run \in RoundRecord
      BY DEF RoundTypes
    <3> QED
      BY <3>1 DEF Compose, BindManifest, RoundAt, RoundGoes, RoundRecord
  <2> QED
    BY <2>1, <2>3
<1> QED
  BY <1>1, <1>2, <1>3, <1>4, <1>5, <1>6, <1>7, <1>8 DEF CandidateNext, RoundStep

LEMMA HeadsStep ==
    ASSUME RoundTypes, ChildrenGrow, HeadsAreReceipts, CandidateNext
    PROVE  HeadsAreReceipts'
<1>1. run.heads \in Chains /\ run \in RoundRecord /\ receipt \in [Child -> 0..MaxHead] /\ tip \in [Child -> 0..MaxHead]
  BY TypedFacts DEF RoundTypes
<1>2. CASE Handoff
  <2>1. PICK c \in Child : /\ tip[c] > 0 /\ receipt' = [receipt EXCEPT ![c] = tip[c]] /\ c = Len(run.heads) + 1
                           /\ run' = [run EXCEPT !.heads = Append(@, tip[c])]
    BY <1>2 DEF Handoff
  <2>2. run'.heads = Append(run.heads, tip[c])
    BY <1>1, <2>1 DEF RoundRecord
  <2>3. Len(run.heads) \in Nat /\ Len(run.heads) < Len(Change) /\ tip[c] \in 1..MaxHead
    BY <1>1, <2>1, ChainFacts DEF Child
  <2>4. /\ Len(run'.heads) = Len(run.heads) + 1 /\ run'.heads[c] = tip[c]
        /\ \A i \in 1..Len(run.heads) : run'.heads[i] = run.heads[i]
    BY <1>1, <2>1, <2>2, <2>3, ChainGrows
  <2> SUFFICES ASSUME NEW i \in 1..Len(run'.heads) PROVE run'.heads[i] = receipt'[i]
    BY DEF HeadsAreReceipts
  <2>5. CASE i = c
    BY <1>1, <2>1, <2>4, <2>5
  <2>6. CASE i \in 1..Len(run.heads)
    <3>1. i # c /\ i \in Child /\ run.heads[i] = receipt[i]
      BY <1>1, <2>1, <2>3, <2>6, ChainFacts DEF HeadsAreReceipts
    <3> QED
      BY <1>1, <2>1, <2>4, <2>6, <3>1
  <2> QED
    BY <2>1, <2>3, <2>4, <2>5, <2>6
<1>3. CASE UNCHANGED receipt /\ (run'.heads = run.heads \/ run'.heads = <<>>)
  BY <1>3, ChainFacts DEF HeadsAreReceipts
<1>4. ASSUME NEW base, BindTo(base) PROVE run'.heads = run.heads
  BY <1>1, <1>4 DEF BindTo, RoundRecord
<1>5. ASSUME NEW step, Goes(step) PROVE run'.heads = run.heads
  BY <1>1, <1>5 DEF Goes, RoundRecord
<1> QED
  BY <1>2, <1>3, <1>4, <1>5, RunSteps DEF NewRound

\* A candidate grows by one child of the round, is bound to all of its heads,
\* or gets its base; it never loses anything.
Extended(g) ==
    /\ CommitChild /\ g = run.gen /\ Len(candidate[g].built) + 1 \in 1..Len(run.heads)
    /\ candidate'[g].built = Append(candidate[g].built, run.heads[Len(candidate[g].built) + 1])
    /\ candidate'[g].bound = candidate[g].bound /\ candidate'[g].base = candidate[g].base
Completed(g) ==
    /\ BindManifest /\ g = run.gen /\ candidate[g].built = run.heads
    /\ candidate'[g].bound = Len(run.heads)
    /\ candidate'[g].built = candidate[g].built /\ candidate'[g].base = candidate[g].base
Founded(g) ==
    /\ Compose /\ g = run.gen /\ candidate[g].base = 0 /\ candidate'[g].base = run.base
    /\ candidate'[g].built = candidate[g].built /\ candidate'[g].bound = candidate[g].bound
    /\ candidate'[g].dirty = FALSE
Remained(g) ==
    /\ candidate'[g].built = candidate[g].built /\ candidate'[g].bound = candidate[g].bound
    /\ candidate'[g].base = candidate[g].base

LEMMA CandidateChange ==
    ASSUME RoundTypes, CandidatesGrow, RoundKnows, CandidateNext, NEW g \in Generation
    PROVE  Remained(g) \/ Extended(g) \/ Completed(g) \/ Founded(g)
<1>1. /\ candidate \in [Generation -> BranchRecord] /\ run.gen \in Generation /\ Mine = candidate[run.gen]
      /\ run.heads \in Chains /\ Mine \in BranchRecord /\ Mine.built \in Chains
      /\ Mine.bound \in Nat /\ Len(Mine.built) \in Nat /\ Len(run.heads) \in Nat
  <2>1. candidate \in [Generation -> BranchRecord]
    BY DEF RoundTypes
  <2> QED
    BY <2>1, TypedFacts, ChainFacts
<1>2. CASE UNCHANGED candidate
  BY <1>2 DEF Remained
<1>3. CASE g # run.gen
  <2>1. candidate'[g] = candidate[g]
    BY <1>1, <1>3, CandidateSteps DEF Creates, StartsApply, EndsApply, BindsAll
  <2> QED
    BY <2>1 DEF Remained
<1>4. CASE g = run.gen /\ Compose /\ Creates
  <2>1. candidate'[g] = [NoCandidate EXCEPT !.base = run.base]
    BY <1>1, <1>4 DEF Creates
  <2>2. /\ candidate'[g].base = run.base /\ candidate'[g].built = <<>> /\ candidate'[g].bound = 0
        /\ candidate'[g].dirty = FALSE
    BY <2>1 DEF NoCandidate
  <2>3. Mine.base = 0 /\ Mine.built = <<>> /\ Mine.bound = 0
    BY <1>1, <1>4, ChainFacts DEF Creates, CandidatesGrow
  <2> QED
    BY <1>1, <1>4, <2>2, <2>3 DEF Founded
<1>5. CASE g = run.gen /\ StartsApply
  <2>1. candidate'[g] = [Mine EXCEPT !.dirty = TRUE]
    BY <1>1, <1>5 DEF StartsApply
  <2> QED
    BY <1>1, <1>5, <2>1 DEF Remained, BranchRecord
<1>6. CASE g = run.gen /\ CommitChild /\ EndsApply
  <2> DEFINE longer == Append(Mine.built, run.heads[Len(Mine.built) + 1])
  <2>1. candidate'[g] = [Mine EXCEPT !.dirty = FALSE, !.built = longer] /\ Mine.dirty /\ run.at = "building"
    BY <1>1, <1>6 DEF EndsApply, CommitChild, RoundAt
  <2>2. candidate'[g].built = longer /\ candidate'[g].bound = Mine.bound /\ candidate'[g].base = Mine.base
    <3> HIDE DEF longer
    <3>1. [Mine EXCEPT !.dirty = FALSE] \in BranchRecord
      BY <1>1 DEF BranchRecord
    <3>2. /\ [Mine EXCEPT !.dirty = FALSE].bound = Mine.bound
          /\ [Mine EXCEPT !.dirty = FALSE].base = Mine.base
      BY <1>1 DEF BranchRecord
    <3> QED
      BY <2>1, <3>1, <3>2 DEF BranchRecord
  <2>3. Len(Mine.built) + 1 \in 1..Len(run.heads)
    <3>1. Len(Mine.built) < Len(run.heads)
      BY <2>1 DEF RoundKnows
    <3> QED
      BY <1>1, <3>1
  <2> QED
    BY <1>1, <1>6, <2>2, <2>3 DEF Extended
<1>7. CASE g = run.gen /\ BindManifest /\ BindsAll
  <2>1. candidate'[g] = [Mine EXCEPT !.bound = Len(run.heads)] /\ Mine.built = run.heads
    BY <1>1, <1>7 DEF BindsAll
  <2> QED
    BY <1>1, <1>7, <2>1 DEF Completed, BranchRecord
<1> QED
  BY <1>2, <1>3, <1>4, <1>5, <1>6, <1>7, CandidateSteps

\* What it held it holds.
LEMMA CandidateKeeps ==
    ASSUME RoundTypes, CandidatesGrow, RoundKnows, CandidateNext, NEW g \in Generation
    PROVE  /\ \A s \in Chains : IsPrefix(s, candidate[g].built) => IsPrefix(s, candidate'[g].built)
           /\ Len(candidate[g].built) <= Len(candidate'[g].built) /\ candidate[g].bound <= candidate'[g].bound
           /\ candidate'[g].built \in Chains
           /\ candidate[g].base # 0 => candidate'[g].base = candidate[g].base
<1>1. /\ candidate[g].built \in Chains /\ candidate[g].bound \in Nat /\ candidate[g].bound <= Len(candidate[g].built)
      /\ run.heads \in Chains /\ Len(candidate[g].built) \in Nat
  BY TypedFacts, ChainFacts DEF CandidatesGrow
<1>2. CASE Remained(g) \/ Founded(g)
  BY <1>1, <1>2 DEF Remained, Founded
<1>3. CASE Completed(g)
  BY <1>1, <1>3 DEF Completed
<1>4. CASE Extended(g)
  <2> DEFINE b == candidate[g].built
             x == run.heads[Len(b) + 1]
  <2>1. x \in 1..MaxHead /\ Len(b) < Len(Change)
    <3>1. /\ run.heads \in Chains /\ Len(b) \in Nat /\ Len(b) < Len(run.heads)
          /\ Len(run.heads) \in Nat /\ Len(run.heads) <= Len(Change) /\ Len(Change) \in Nat
      BY <1>1, <1>4, ChainFacts DEF Extended
    <3>2. Len(b) + 1 \in 1..Len(run.heads) /\ Len(b) < Len(Change)
      BY <3>1
    <3> QED
      BY <3>1, <3>2, ChainFacts
  <2>2. /\ Append(b, x) \in Chains /\ Len(Append(b, x)) = Len(b) + 1
        /\ \A i \in 1..Len(b) : Append(b, x)[i] = b[i]
    BY <1>1, <2>1, ChainGrows
  <2>3. candidate'[g].built = Append(b, x) /\ candidate'[g].bound = candidate[g].bound /\ candidate'[g].base = candidate[g].base
    BY <1>4 DEF Extended
  <2>4. ASSUME NEW s \in Chains, IsPrefix(s, b) PROVE IsPrefix(s, Append(b, x))
    <3>1. Len(s) \in Nat /\ Len(s) <= Len(b) /\ \A i \in 1..Len(s) : s[i] = b[i]
      BY <1>1, <2>4, ChainPrefix, ChainFacts
    <3>2. Len(s) <= Len(Append(b, x)) /\ \A i \in 1..Len(s) : s[i] = Append(b, x)[i]
      BY <1>1, <2>2, <3>1
    <3> QED
      BY <2>2, <3>2, ChainPrefix
  <2> HIDE DEF b, x
  <2>5. b = candidate[g].built
    BY DEF b
  <2> QED
    BY <1>1, <2>2, <2>3, <2>4, <2>5
<1> QED
  BY <1>2, <1>3, <1>4, CandidateChange

\* Published heads are bound to their candidate.
LEMMA PublishedStep ==
    ASSUME RoundTypes, CandidatesGrow, RoundKnows, CandidateNext, NEW g \in Generation
    PROVE  IsPrefix(pr'[g].head, candidate'[g].built) /\ Len(pr'[g].head) <= candidate'[g].bound
<1>1. /\ pr \in [Generation -> RequestRecord] /\ run.gen \in Generation /\ run.heads \in Chains
      /\ Mine = candidate[run.gen] /\ pr[g].head \in Chains
      /\ candidate[g].bound \in Nat /\ candidate[g].built \in Chains
  <2>1. pr \in [Generation -> RequestRecord]
    BY DEF RoundTypes
  <2> QED
    BY <2>1, TypedFacts
<1>2. candidate[g].bound <= candidate'[g].bound /\ candidate'[g].built \in Chains /\ candidate'[g].bound \in Nat
  <2>1. candidate'[g].bound \in Nat
    BY <1>1, CandidateChange, ChainFacts DEF Remained, Extended, Completed, Founded
  <2> QED
    BY <2>1, CandidateKeeps
<1>3. ASSUME pr'[g].head = pr[g].head
      PROVE  IsPrefix(pr'[g].head, candidate'[g].built) /\ Len(pr'[g].head) <= candidate'[g].bound
  <2>1. IsPrefix(pr[g].head, candidate[g].built) /\ Len(pr[g].head) <= candidate[g].bound /\ Len(pr[g].head) \in Nat
    BY <1>1, ChainFacts DEF CandidatesGrow
  <2> QED
    BY <1>1, <1>2, <1>3, <2>1, CandidateKeeps
<1>4. CASE pr'[g].head = <<>>
  <2>1. <<>> \in Chains /\ Len(<<>>) = 0 /\ Len(candidate'[g].built) \in Nat
    BY <1>2, ChainFacts
  <2>2. IsPrefix(<<>>, candidate'[g].built)
    BY <1>2, <2>1, ChainPrefix
  <2> QED
    BY <1>2, <1>4, <2>1, <2>2
<1>5. ASSUME Push, g = run.gen, pr'[g].head = run.heads
      PROVE  IsPrefix(pr'[g].head, candidate'[g].built) /\ Len(pr'[g].head) <= candidate'[g].bound
  <2>1. candidate[g].built = run.heads /\ candidate[g].bound = Len(run.heads) /\ Len(run.heads) \in Nat
    BY <1>1, <1>5, ChainFacts DEF Push, RoundAt, RoundKnows, Composed
  <2>2. IsPrefix(run.heads, candidate[g].built)
    BY <1>1, <2>1, ChainPrefix
  <2> QED
    BY <1>1, <1>2, <1>5, <2>1, <2>2, CandidateKeeps
<1>6. CASE UNCHANGED pr
  BY <1>3, <1>6
<1>7. CASE \E h \in Generation : MergeRequest(h) /\ pr' = [pr EXCEPT ![h] = NoRequest]
  BY <1>1, <1>3, <1>4, <1>7 DEF NoRequest
<1>8. CASE Open /\ pr[run.gen].head = run.heads
           /\ pr' = [pr EXCEPT ![run.gen] =
                           [head |-> run.heads, draft |-> ~Complete(run.heads), armed |-> Complete(run.heads)]]
  BY <1>1, <1>3, <1>8
<1>9. CASE /\ Push
           /\ pr' = [pr EXCEPT ![run.gen] =
                           IF pr[run.gen] = NoRequest
                           THEN [head |-> run.heads, draft |-> ~Complete(run.heads), armed |-> FALSE]
                           ELSE [pr[run.gen] EXCEPT !.head = run.heads]]
  <2>1. CASE g # run.gen
    BY <1>1, <1>3, <1>9, <2>1
  <2>2. CASE g = run.gen
    <3>1. pr'[g].head = run.heads
      BY <1>1, <1>9, <2>2 DEF RequestRecord
    <3> QED
      BY <1>5, <1>9, <2>2, <3>1
  <2> QED
    BY <2>1, <2>2
<1> QED
  BY <1>6, <1>7, <1>8, <1>9, RequestSteps

LEMMA CandidatesStep ==
    ASSUME RoundTypes, ChildrenGrow, HeadsAreReceipts, CandidatesGrow, RoundKnows, CandidateNext
    PROVE  CandidatesGrow'
<1> SUFFICES ASSUME NEW g \in Generation
             PROVE  /\ candidate'[g].bound <= Len(candidate'[g].built)
                    /\ \A c \in 1..Len(candidate'[g].built) :
                          receipt'[c] > 0 /\ (~moved' => candidate'[g].built[c] = receipt'[c])
                    /\ candidate'[g].base <= localMain' /\ (g # 0 /\ candidate'[g].base # 0 => candidate'[g].base = g)
                    /\ candidate'[g].base = 0 => candidate'[g].built = <<>>
                    /\ IsPrefix(pr'[g].head, candidate'[g].built) /\ Len(pr'[g].head) <= candidate'[g].bound
  BY DEF CandidatesGrow
<1> DEFINE b == candidate[g].built
<1>1. /\ b \in Chains /\ candidate[g].bound \in Nat /\ candidate[g].base \in Nat
      /\ candidate[g].bound <= Len(b) /\ Len(b) \in Nat
      /\ \A c \in 1..Len(b) : c \in Child /\ receipt[c] > 0 /\ (~moved => b[c] = receipt[c])
      /\ candidate[g].base <= localMain /\ (g # 0 /\ candidate[g].base # 0 => candidate[g].base = g)
      /\ candidate[g].base = 0 => b = <<>>
      /\ run.heads \in Chains /\ Len(run.heads) \in Nat
      /\ localMain \in Nat /\ localMain <= localMain' /\ run.base \in Nat
      /\ \A c \in Child : receipt[c] \in Nat
  BY TypedFacts, ChainFacts, WorldGrows DEF CandidatesGrow
<1>2. /\ \A c \in Child : receipt'[c] \in Nat /\ receipt[c] <= receipt'[c]
      /\ \A c \in Child : receipt[c] > 0 /\ ~moved' => receipt'[c] = receipt[c]
      /\ moved => moved'
      /\ localMain' \in Nat
  <2>1. \A c \in Child : receipt'[c] \in Nat
    BY FamilyTypes, ChainFacts
  <2>2. localMain' \in Nat
    BY FamilyTypes, ChainFacts
  <2> QED
    BY <2>1, <2>2, WorldGrows
<1>3. \A c \in 1..Len(b) : receipt'[c] > 0 /\ (~moved' => b[c] = receipt'[c])
  <2> TAKE c \in 1..Len(b)
  <2>1. c \in Child /\ receipt[c] > 0 /\ (~moved => b[c] = receipt[c]) /\ receipt[c] \in Nat
    BY <1>1
  <2> QED
    BY <1>2, <2>1
<1>4. IsPrefix(pr'[g].head, candidate'[g].built) /\ Len(pr'[g].head) <= candidate'[g].bound
  BY PublishedStep
<1>5. CASE Remained(g)
  BY <1>1, <1>2, <1>3, <1>4, <1>5 DEF Remained
<1>6. CASE Completed(g)
  <2>1. Len(candidate'[g].built) = Len(run.heads) /\ candidate'[g].bound = Len(run.heads) /\ candidate'[g].built = b
        /\ candidate'[g].base = candidate[g].base
    BY <1>6 DEF Completed
  <2> HIDE DEF b
  <2> QED
    BY <1>1, <1>2, <1>3, <1>4, <2>1
<1>7. CASE Founded(g)
  <2>1. run.base > 0 /\ run.base <= localMain /\ g \in {0, run.base}
    BY <1>7 DEF Founded, Compose, RoundAt, RoundKnows, GenOf
  <2>2. candidate'[g].built = b /\ candidate'[g].bound = candidate[g].bound /\ candidate'[g].base = run.base
    BY <1>7 DEF Founded
  <2> HIDE DEF b
  <2> QED
    BY <1>1, <1>2, <1>3, <1>4, <2>1, <2>2
<1>8. CASE Extended(g)
  <2> DEFINE n == Len(b) + 1
             x == run.heads[n]
  <2>1. /\ candidate'[g].built = Append(b, x) /\ candidate'[g].bound = candidate[g].bound
        /\ candidate'[g].base = candidate[g].base /\ n \in 1..Len(run.heads) /\ run.at = "building" /\ g = run.gen
    BY <1>8 DEF Extended, CommitChild, RoundAt
  <2>2. candidate[g].base # 0
    BY <2>1, TypedFacts DEF RoundKnows
  <2>3. x \in 1..MaxHead /\ Len(b) < Len(Change) /\ n \in Child
    <3>1. /\ run.heads \in Chains /\ Len(b) \in Nat
          /\ Len(run.heads) \in Nat /\ Len(run.heads) <= Len(Change) /\ Len(Change) \in Nat
      BY <1>1, TypedFacts, ChainFacts
    <3>2. n \in Child /\ x \in 1..MaxHead
      BY <2>1, <3>1, ChainFacts
    <3> QED
      BY <2>1, <3>1, <3>2
  <2>4. x = receipt[n] /\ x > 0
    <3>1. x = receipt[n]
      BY <2>1 DEF HeadsAreReceipts
    <3>2. MaxHead \in Nat
      BY ChainFacts
    <3> QED
      BY <2>3, <3>1, <3>2
  <2>5. /\ Len(Append(b, x)) = n /\ Append(b, x)[n] = x
        /\ \A i \in 1..Len(b) : Append(b, x)[i] = b[i]
    BY <1>1, <2>3, ChainGrows
  <2>6. receipt'[n] > 0 /\ (~moved' => x = receipt'[n])
    BY <1>1, <1>2, <2>3, <2>4
  <2>7. ASSUME NEW c \in 1..Len(candidate'[g].built)
        PROVE  receipt'[c] > 0 /\ (~moved' => candidate'[g].built[c] = receipt'[c])
    <3>1. c \in 1..Len(b) \/ c = n
      BY SMTT(20), <1>1, <2>1, <2>5, <2>7
    <3> QED
      BY <1>3, <2>1, <2>5, <2>6, <3>1
  <2>8. candidate'[g].bound <= Len(candidate'[g].built)
    BY SMTT(20), <1>1, <2>1, <2>5
  <2> HIDE DEF b, n, x
  <2> QED
    BY <1>1, <1>2, <1>4, <2>1, <2>2, <2>7, <2>8
<1> QED
  BY <1>5, <1>6, <1>7, <1>8, CandidateChange

LEMMA LandedStep ==
    ASSUME RoundTypes, CandidatesGrow, LandedAreBound, RoundKnows, CandidateNext
    PROVE  LandedAreBound'
<1>1. landed \subseteq Generation \X Chains /\ \A g \in Generation : pr[g].head \in Chains
  <2>1. landed \subseteq Generation \X Chains
    BY DEF RoundTypes
  <2> QED
    BY <2>1, TypedFacts
<1>2. ASSUME NEW g \in Generation, NEW s \in Chains, IsPrefix(s, candidate[g].built), Len(s) <= candidate[g].bound
      PROVE  IsPrefix(s, candidate'[g].built) /\ Len(s) <= candidate'[g].bound
  <2>1. candidate[g].bound \in Nat /\ Len(s) \in Nat /\ candidate[g].bound <= candidate'[g].bound
    BY CandidateKeeps, TypedFacts, ChainFacts
  <2>2. candidate'[g].bound \in Nat
    BY <2>1, CandidateChange, ChainFacts, TypedFacts DEF Remained, Extended, Completed, Founded
  <2> QED
    BY <1>2, <2>1, <2>2, CandidateKeeps
<1>3. \A one \in landed : IsPrefix(one[2], candidate'[one[1]].built) /\ Len(one[2]) <= candidate'[one[1]].bound
  <2> TAKE one \in landed
  <2>1. one[1] \in Generation /\ one[2] \in Chains
    BY <1>1
  <2> QED
    BY <1>2, <2>1 DEF LandedAreBound
<1>4. ASSUME NEW g \in Generation, landed' = landed \cup {<<g, pr[g].head>>}
      PROVE  LandedAreBound'
  <2>1. IsPrefix(pr[g].head, candidate'[g].built) /\ Len(pr[g].head) <= candidate'[g].bound
    BY <1>1, <1>2 DEF CandidatesGrow
  <2> QED
    BY <1>3, <1>4, <2>1 DEF LandedAreBound
<1>5. CASE UNCHANGED landed
  BY <1>3, <1>5 DEF LandedAreBound
<1> QED
  BY <1>4, <1>5, VerdictTypes

\* A child with a receipt was born, so the generations of chains stay.
LEMMA BornStays ==
    ASSUME RoundTypes, ChildrenGrow, CandidateNext, NEW c \in Child, receipt[c] > 0
    PROVE  bornAt'[c] = bornAt[c] /\ tip[c] > 0
<1>1. receipt[c] \in Nat /\ tip[c] \in Nat /\ bornAt[c] \in Nat /\ receipt[c] <= tip[c] /\ (tip[c] > 0 => bornAt[c] > 0)
  BY TypedFacts DEF ChildrenGrow
<1>2. tip[c] > 0 /\ bornAt[c] # 0
  BY <1>1
<1> QED
  BY <1>2, WorldGrows

\* The heads of the round have receipts.
LEMMA HeadsBorn ==
    ASSUME RoundTypes, ChildrenGrow, HeadsAreReceipts, CandidateNext, NEW c \in 1..Len(run.heads)
    PROVE  c \in Child /\ receipt[c] > 0 /\ bornAt'[c] = bornAt[c]
<1>1. run.heads \in Chains
  BY TypedFacts
<1>2. c \in Child /\ run.heads[c] \in 1..MaxHead
  BY <1>1, ChainFacts
<1>3. receipt[c] > 0
  BY <1>2, ChainFacts DEF HeadsAreReceipts
<1> QED
  BY <1>2, <1>3, BornStays

\* A round that has collected its heads has as many as any candidate.
LEMMA BindingStep ==
    ASSUME RoundTypes, ChildrenGrow, HeadsAreReceipts, CandidatesGrow, RoundKnows, CandidateNext, run'.at = "binding"
    PROVE  \A g \in Generation : Len(candidate'[g].built) <= Len(run'.heads)
<1>1. run \in RoundRecord /\ run.heads \in Chains /\ Len(run.heads) \in Nat
  BY TypedFacts, ChainFacts DEF RoundTypes
<1>2. CASE run' = [run EXCEPT !.at = "binding"] /\ Collected
  <2>1. run'.heads = run.heads /\ candidate' = candidate /\ ~Ready(Len(run.heads) + 1)
    BY <1>1, <1>2 DEF Collected, OnlyTheRun, RoundRecord
  <2> SUFFICES ASSUME NEW g \in Generation, ~(Len(candidate[g].built) <= Len(run.heads)) PROVE FALSE
    BY <2>1
  <2> DEFINE c == Len(run.heads) + 1
  <2>2. candidate[g].built \in Chains /\ Len(candidate[g].built) \in Nat
    BY TypedFacts, ChainFacts
  <2>3. c \in 1..Len(candidate[g].built)
    BY <1>1, <2>2
  <2>4. c \in Child /\ receipt[c] > 0
    BY <2>2, <2>3, ChainFacts DEF CandidatesGrow
  <2>5. tip[c] > 0
    BY <2>4, BornStays
  <2> QED
    BY <2>1, <2>4, <2>5 DEF Ready
<1>3. CASE run' = run /\ ~Compose /\ ~BindManifest
  <2>1. run.at = "binding"
    BY <1>3
  <2>2. candidate' = candidate
    BY <2>1, CandidateSteps DEF Compose, Apply, CommitChild, BindManifest, RoundAt
  <2> QED
    BY <1>3, <2>1, <2>2 DEF RoundKnows
<1>4. ASSUME Handoff PROVE FALSE
  <2>1. PICK x : run.at = "collecting" /\ run' = [run EXCEPT !.heads = x]
    BY <1>4 DEF Handoff
  <2> QED
    BY <1>1, <2>1 DEF RoundRecord
<1>5. ASSUME NEW base \in Nat, BindTo(base) PROVE FALSE
  BY <1>1, <1>5 DEF BindTo, RoundRecord
<1>6. ASSUME NEW step \in RoundStage, Goes(step) PROVE run' = [run EXCEPT !.at = "binding"] /\ Collected
  BY <1>1, <1>6 DEF Goes, RoundRecord
<1>7. ~NewRound
  BY DEF NewRound
<1> QED
  BY <1>2, <1>3, <1>4, <1>5, <1>6, <1>7, RunSteps

\* A round at composition is bound to a base, and to the generation of it.
LEMMA GenerationStep ==
    ASSUME RoundTypes, ChildrenGrow, HeadsAreReceipts, CandidatesGrow, RoundKnows, CandidateNext,
           run'.at \in {"composing", "building"}
    PROVE  run'.base > 0 /\ run'.base <= localMain' /\ run'.gen = GenOf(Len(run.heads), run.base)'
<1>1. /\ run \in RoundRecord /\ run.heads \in Chains /\ Len(run.heads) \in Nat
      /\ localMain \in Nat /\ localMain > 0 /\ localMain <= localMain' /\ localMain' \in Nat /\ run.base \in Nat
  <2>1. localMain' \in Nat
    BY FamilyTypes, ChainFacts
  <2> QED
    BY <2>1, TypedFacts, ChainFacts, WorldGrows DEF RoundTypes
<1>2. \A c \in 1..Len(run.heads) : bornAt'[c] = bornAt[c]
  BY HeadsBorn
<1>3. ASSUME run'.heads = run.heads, run'.base = run.base, run'.gen = run.gen, run.at \in {"composing", "building"}
      PROVE  run'.base > 0 /\ run'.base <= localMain' /\ run'.gen = GenOf(Len(run.heads), run.base)'
  BY <1>1, <1>2, <1>3 DEF RoundKnows, GenOf
<1>4. ASSUME NEW base \in Nat, BindTo(base)
      PROVE  run'.base > 0 /\ run'.base <= localMain' /\ run'.gen = GenOf(Len(run.heads), run.base)'
  <2>1. run'.heads = run.heads /\ run'.base = base /\ run'.gen = GenerationOf(base)
    <3>1. /\ [run EXCEPT !.at = "composing"].heads = run.heads
          /\ [run EXCEPT !.at = "composing", !.base = base].heads = run.heads
      BY <1>1 DEF RoundRecord
    <3> QED
      BY <1>1, <1>4, <3>1 DEF BindTo, RoundRecord
  <2>2. base > 0 /\ base <= localMain
    <3>1. CASE base = localMain
      BY <1>1, <3>1
    <3>2. CASE \E g \in Existing : base = candidate[g].base
      <4>1. PICK g \in Generation : base = candidate[g].base /\ candidate[g].bound > 0
        BY <3>2 DEF Existing
      <4>2. candidate[g].built # <<>>
        BY <4>1, TypedFacts, ChainFacts DEF CandidatesGrow
      <4> QED
        BY <1>4, <4>1, <4>2, TypedFacts DEF CandidatesGrow
    <3> QED
      BY <1>4, <3>1, <3>2 DEF BindTo
  <2>3. GenerationOf(base) = GenOf(Len(run.heads), base)
    BY DEF GenerationOf, GenOf
  <2>4. GenOf(Len(run.heads), base) = IF \E c \in 1..Len(run.heads) : bornAt'[c] < base THEN base ELSE 0
    BY <1>2 DEF GenOf
  <2> QED
    BY <1>1, <1>4, <2>1, <2>2, <2>3, <2>4 DEF GenOf
<1>5. ASSUME Handoff PROVE FALSE
  <2>1. PICK x : run.at = "collecting" /\ run' = [run EXCEPT !.heads = x]
    BY <1>5 DEF Handoff
  <2> QED
    BY <1>1, <2>1 DEF RoundRecord
<1>6. ASSUME NEW step \in RoundStage, Goes(step)
      PROVE  /\ run'.heads = run.heads /\ run'.base = run.base /\ run'.gen = run.gen
             /\ run.at \in {"composing", "building"}
  <2>1. run'.heads = run.heads /\ run'.base = run.base /\ run'.gen = run.gen /\ run'.at = step
    BY <1>1, <1>6 DEF Goes, RoundRecord
  <2>2. Compose
    BY <1>6, <2>1 DEF Goes
  <2> QED
    BY <2>1, <2>2 DEF Compose, RoundAt
<1>7. ~NewRound
  BY DEF NewRound
<1> QED
  BY <1>3, <1>4, <1>5, <1>6, <1>7, RunSteps

\* While a round builds, the candidate holds the first of its heads.
LEMMA BuildingStep ==
    ASSUME RoundTypes, CandidatesGrow, RoundKnows, CandidateNext, run'.at = "building"
    PROVE  /\ IsPrefix(candidate'[run'.gen].built, run'.heads)
           /\ candidate'[run'.gen].dirty => Len(candidate'[run'.gen].built) < Len(run'.heads)
           /\ candidate'[run'.gen].base # 0
<1>1. /\ run \in RoundRecord /\ candidate \in [Generation -> BranchRecord]
      /\ run.heads \in Chains /\ run.gen \in Generation /\ Mine = candidate[run.gen] /\ Mine.built \in Chains
      /\ run.base \in Nat /\ Mine.base \in Nat /\ Len(Mine.built) \in Nat /\ Len(run.heads) \in Nat
  <2>1. run \in RoundRecord /\ candidate \in [Generation -> BranchRecord]
    BY DEF RoundTypes
  <2> QED
    BY <2>1, TypedFacts, ChainFacts
<1>2. CASE Compose
  <2>1. /\ run' = [run EXCEPT !.at = IF Composed THEN "publishing" ELSE "building"]
        /\ run.at = "composing" /\ ~Mine.dirty /\ IsPrefix(Mine.built, run.heads)
        /\ candidate' = [candidate EXCEPT ![run.gen] =
                            IF Mine.base = 0 THEN [NoCandidate EXCEPT !.base = run.base] ELSE Mine]
    BY <1>2 DEF Compose, RoundGoes, RoundAt, Composable, History, SetCandidate
  <2>2. run'.gen = run.gen /\ run'.heads = run.heads
    BY <1>1, <2>1 DEF RoundRecord
  <2>3. CASE Mine.base = 0
    <3>1. candidate'[run.gen] = [NoCandidate EXCEPT !.base = run.base]
      BY <1>1, <2>1, <2>3
    <3>2. candidate'[run.gen].built = <<>> /\ candidate'[run.gen].base = run.base /\ candidate'[run.gen].dirty = FALSE
      BY <3>1 DEF NoCandidate
    <3>3. run.base > 0
      BY <2>1 DEF RoundKnows
    <3>4. Mine.built = <<>>
      BY <1>1, <2>3 DEF CandidatesGrow
    <3> QED
      BY <1>1, <2>1, <2>2, <3>2, <3>3, <3>4
  <2>4. CASE Mine.base # 0
    <3>1. candidate'[run.gen] = Mine
      BY <1>1, <2>1, <2>4
    <3> QED
      BY <2>1, <2>2, <2>4, <3>1
  <2> QED
    BY <2>3, <2>4
<1>3. CASE Apply /\ StartsApply
  <2>1. run' = run /\ run.at = "building" /\ candidate'[run.gen] = [Mine EXCEPT !.dirty = TRUE]
        /\ Len(Mine.built) < Len(run.heads)
    BY <1>1, <1>3 DEF Apply, RoundAt, StartsApply
  <2>2. candidate'[run.gen].built = Mine.built /\ candidate'[run.gen].base = Mine.base
    BY <1>1, <2>1 DEF BranchRecord
  <2> QED
    BY <2>1, <2>2 DEF RoundKnows
<1>4. CASE CommitChild /\ EndsApply
  <2> DEFINE n == Len(Mine.built) + 1
             x == run.heads[n]
  <2>1. run' = run /\ run.at = "building" /\ Mine.dirty
        /\ candidate'[run.gen] = [Mine EXCEPT !.dirty = FALSE, !.built = Append(Mine.built, x)]
    BY <1>1, <1>4 DEF CommitChild, RoundAt, EndsApply
  <2>2. /\ IsPrefix(Mine.built, run.heads) /\ Len(Mine.built) < Len(run.heads) /\ Mine.base # 0
    BY <2>1 DEF RoundKnows
  <2>3. n \in 1..Len(run.heads) /\ x \in 1..MaxHead /\ Len(Mine.built) < Len(Change)
    BY <1>1, <2>2, ChainFacts
  <2>4. /\ Append(Mine.built, x) \in Chains /\ Len(Append(Mine.built, x)) = n /\ Append(Mine.built, x)[n] = x
        /\ \A i \in 1..Len(Mine.built) : Append(Mine.built, x)[i] = Mine.built[i]
    BY <1>1, <2>3, ChainGrows
  <2>5. \A i \in 1..Len(Mine.built) : Mine.built[i] = run.heads[i]
    BY <1>1, <2>2, ChainPrefix
  <2> HIDE DEF x
  <2>6. IsPrefix(Append(Mine.built, x), run.heads)
    <3>1. Len(Append(Mine.built, x)) <= Len(run.heads)
      BY <2>3, <2>4
    <3>2. \A i \in 1..n : Append(Mine.built, x)[i] = run.heads[i]
      <4> TAKE i \in 1..n
      <4>1. i \in 1..Len(Mine.built) \/ i = n
        BY <1>1
      <4> QED
        BY <2>4, <2>5, <4>1 DEF x
    <3>3. PICK s \in Chains : s = Append(Mine.built, x)
      BY <2>4
    <3>4. Len(s) <= Len(run.heads) /\ \A i \in 1..Len(s) : s[i] = run.heads[i]
      BY <2>4, <3>1, <3>2, <3>3
    <3>5. IsPrefix(s, run.heads)
      BY <1>1, <3>4, ChainPrefix
    <3> QED
      BY <3>3, <3>5
  <2>7. [Mine EXCEPT !.dirty = FALSE] \in BranchRecord /\ [Mine EXCEPT !.dirty = FALSE].base = Mine.base
        /\ [Mine EXCEPT !.dirty = FALSE].dirty = FALSE
    BY <1>1 DEF BranchRecord
  <2>8. /\ candidate'[run.gen].built = Append(Mine.built, x) /\ candidate'[run.gen].dirty = FALSE
        /\ candidate'[run.gen].base = Mine.base
    BY <2>1, <2>7 DEF BranchRecord
  <2> QED
    BY <2>1, <2>2, <2>6, <2>8
<1>5. CASE UNCHANGED candidate /\ run' = run
  BY <1>1, <1>5 DEF RoundKnows
<1>6. ASSUME Handoff PROVE FALSE
  <2>1. PICK x : run.at = "collecting" /\ run' = [run EXCEPT !.heads = x]
    BY <1>6 DEF Handoff
  <2> QED
    BY <1>1, <2>1 DEF RoundRecord
<1>7. ASSUME NEW base \in Nat, BindTo(base) PROVE FALSE
  <2>1. [run EXCEPT !.at = "composing"].at = "composing" /\ [run EXCEPT !.at = "composing", !.base = base].at = "composing"
    BY <1>1 DEF RoundRecord
  <2> QED
    BY <1>1, <1>7, <2>1 DEF BindTo, RoundRecord
<1>8. ASSUME NEW step \in RoundStage, Goes(step) PROVE Compose
  BY <1>1, <1>8 DEF Goes, RoundRecord
<1>9. ~NewRound
  BY DEF NewRound
<1>10. Compose \/ (run' = run /\ ~Compose /\ ~BindManifest)
  BY <1>6, <1>7, <1>8, <1>9, RunSteps
<1> QED
  BY <1>2, <1>3, <1>4, <1>5, <1>10, CandidateSteps

\* The steps of the publication: what is pushed is composed and, when it is
\* complete, checked; what is reconciled was merged.
LEMMA PublishingStep ==
    ASSUME RoundTypes, CandidatesGrow, RoundKnows, CandidateNext
    PROVE  /\ run'.at = "pushing" => Composed'
           /\ run'.at \in {"rechecking", "pushing", "opening"} /\ Complete(run.heads)' => (<<run.gen, run.heads>> \in checked)'
           /\ run'.at = "merged" => (<<run.gen, run.heads>> \in landed)'
<1>1. /\ run \in RoundRecord /\ landed \subseteq landed' /\ checked \subseteq checked'
  <2>1. landed \subseteq landed' /\ checked \subseteq checked'
    BY VerdictTypes
  <2> QED
    BY <2>1 DEF RoundTypes
<1>2. CASE run' = run /\ ~Compose /\ ~BindManifest
  <2>1. ASSUME run.at = "pushing" PROVE candidate' = candidate
    BY <1>2, <2>1, CandidateSteps DEF Compose, Apply, CommitChild, BindManifest, RoundAt
  <2> QED
    BY <1>1, <1>2, <2>1 DEF RoundKnows, Composed, Mine
<1>3. ASSUME NEW step \in RoundStage, Goes(step)
      PROVE  /\ run'.at = "pushing" => Composed'
             /\ run'.at \in {"rechecking", "pushing", "opening"} /\ Complete(run.heads)' => (<<run.gen, run.heads>> \in checked)'
             /\ run'.at = "merged" => (<<run.gen, run.heads>> \in landed)'
  <2>1. run'.heads = run.heads /\ run'.gen = run.gen /\ run'.at = step
    BY <1>1, <1>3 DEF Goes, RoundRecord
  <2>2. ASSUME step = "pushing" PROVE Composed' /\ (Complete(run.heads) => <<run.gen, run.heads>> \in checked)
    <3>1. Recheck
      BY <1>3, <2>2 DEF Goes
    <3> QED
      BY <2>1, <3>1 DEF Recheck, RoundAt, Composed, Mine, OnlyTheRun, RoundKnows
  <2>3. ASSUME step = "rechecking" PROVE Complete(run.heads) => <<run.gen, run.heads>> \in checked'
    <3>1. RunFullChecks \/ ~Complete(run.heads)
      BY <1>3, <2>3 DEF Goes
    <3> QED
      BY <3>1 DEF RunFullChecks
  <2>4. ASSUME step = "opening" PROVE Complete(run.heads) => <<run.gen, run.heads>> \in checked
    <3>1. Push
      BY <1>3, <2>4 DEF Goes
    <3> QED
      BY <3>1 DEF Push, RoundAt, RoundKnows
  <2>5. ASSUME step = "merged" PROVE <<run.gen, run.heads>> \in landed
    BY <1>3, <2>5 DEF Goes
  <2> QED
    BY <1>1, <2>1, <2>2, <2>3, <2>4, <2>5 DEF Complete
<1>4. ASSUME Handoff PROVE run'.at = "collecting"
  <2>1. PICK x : run.at = "collecting" /\ run' = [run EXCEPT !.heads = x]
    BY <1>4 DEF Handoff
  <2> QED
    BY <1>1, <2>1 DEF RoundRecord
<1>5. ASSUME NEW base \in Nat, BindTo(base) PROVE run'.at = "composing"
  <2>1. [run EXCEPT !.at = "composing"].at = "composing" /\ [run EXCEPT !.at = "composing", !.base = base].at = "composing"
    BY <1>1 DEF RoundRecord
  <2> QED
    BY <1>1, <1>5, <2>1 DEF BindTo, RoundRecord
<1> QED
  BY <1>2, <1>3, <1>4, <1>5, RunSteps DEF NewRound

LEMMA RoundStepKnows ==
    ASSUME RoundTypes, ChildrenGrow, HeadsAreReceipts, CandidatesGrow, RoundKnows, CandidateNext
    PROVE  RoundKnows'
<1>1. run'.at = "binding" => \A g \in Generation : Len(candidate'[g].built) <= Len(run'.heads)
  BY BindingStep
<1>2. run'.at \in {"composing", "building"} =>
         run'.base > 0 /\ run'.base <= localMain' /\ (run.gen = GenOf(Len(run.heads), run.base))'
  BY GenerationStep
<1>3. run'.at = "building" =>
         /\ IsPrefix(candidate'[run'.gen].built, run'.heads)
         /\ candidate'[run'.gen].dirty => Len(candidate'[run'.gen].built) < Len(run'.heads)
         /\ candidate'[run'.gen].base # 0
  BY BuildingStep
<1> QED
  BY <1>1, <1>2, <1>3, PublishingStep DEF RoundKnows, Mine

-----------------------------------------------------------------------------
(* One chain.                                                              *)

\* A candidate that is bound has a base, and the children it is bound to were
\* born before.
LEMMA BoundFacts ==
    ASSUME RoundTypes, ChildrenGrow, CandidatesGrow, CandidateNext, NEW g \in Generation, Bound(g)
    PROVE  /\ candidate[g].base # 0 /\ candidate[g].built # <<>>
           /\ \A c \in 1..candidate[g].bound : c \in Child /\ bornAt'[c] = bornAt[c]
<1>1. /\ candidate[g].built \in Chains /\ candidate[g].bound \in Nat /\ Len(candidate[g].built) \in Nat
      /\ candidate[g].bound <= Len(candidate[g].built) /\ candidate[g].bound > 0
  BY TypedFacts, ChainFacts DEF CandidatesGrow, Bound
<1>2. candidate[g].built # <<>>
  BY <1>1, ChainFacts
<1>3. candidate[g].base # 0
  BY <1>2 DEF CandidatesGrow
<1>4. ASSUME NEW c \in 1..candidate[g].bound PROVE c \in Child /\ bornAt'[c] = bornAt[c]
  <2>1. c \in 1..Len(candidate[g].built)
    BY <1>1
  <2>2. c \in Child /\ receipt[c] > 0
    BY <1>1, <2>1, ChainFacts DEF CandidatesGrow
  <2> QED
    BY <2>2, BornStays
<1> QED
  BY <1>2, <1>3, <1>4

\* Only its own round binds a candidate anew.
LEMMA BoundStays ==
    ASSUME RoundTypes, CandidatesGrow, RoundKnows, CandidateNext, NEW g \in Generation, ~Completed(g)
    PROVE  /\ candidate'[g].bound = candidate[g].bound
           /\ Bound(g) => candidate'[g].base = candidate[g].base
           /\ candidate'[g].base = candidate[g].base \/ (Founded(g) /\ candidate'[g].base = run.base)
<1>1. candidate[g].bound \in Nat /\ candidate[g].bound <= Len(candidate[g].built) /\ candidate[g].built \in Chains
  BY TypedFacts DEF CandidatesGrow
<1>2. Founded(g) => ~Bound(g)
  <2>1. candidate[g].base = 0 => candidate[g].bound = 0
    BY <1>1, ChainFacts DEF CandidatesGrow
  <2> QED
    BY <2>1 DEF Founded, Bound
<1> QED
  BY <1>2, CandidateChange DEF Remained, Extended, Founded

\* A bound candidate is the one of its base.
LEMMA GenerationHolds ==
    ASSUME RoundTypes, ChildrenGrow, HeadsAreReceipts, CandidatesGrow, RoundKnows, OneChain, CandidateNext, ~moved',
           NEW g \in Generation, candidate'[g].bound > 0
    PROVE  g = IF \E c \in 1..candidate'[g].bound : bornAt'[c] < candidate'[g].base THEN candidate'[g].base ELSE 0
<1>1. ~moved
  BY WorldGrows
<1>2. CASE ~Completed(g)
  <2>1. Bound(g) /\ candidate'[g].bound = candidate[g].bound /\ candidate'[g].base = candidate[g].base
    BY <1>2, BoundStays DEF Bound
  <2>2. g = GenOf(candidate[g].bound, candidate[g].base)
    BY <1>1, <2>1 DEF OneChain
  <2> QED
    BY <2>1, <2>2, BoundFacts DEF GenOf
<1>3. CASE Completed(g)
  <2>1. /\ run.at = "building" /\ g = run.gen /\ candidate'[g].bound = Len(run.heads)
        /\ candidate'[g].base = candidate[g].base /\ Mine = candidate[g]
    BY <1>3 DEF Completed, BindManifest, RoundAt, Mine
  <2>2. /\ candidate[g].base # 0 /\ (g # 0 => candidate[g].base = g) /\ candidate[g].base <= run.base
        /\ run.base > 0 /\ g = GenOf(Len(run.heads), run.base)
    BY <1>1, <2>1 DEF RoundKnows, OneChain, CandidatesGrow
  <2>3. \A c \in 1..Len(run.heads) : c \in Child /\ bornAt'[c] = bornAt[c] /\ bornAt[c] \in Nat
    BY HeadsBorn, TypedFacts
  <2>4. run.base \in Nat /\ candidate[g].base \in Nat
    BY TypedFacts
  <2>5. CASE g = 0
    <3>1. \A c \in 1..Len(run.heads) : ~(bornAt[c] < run.base)
      BY <2>2, <2>5 DEF GenOf
    <3>2. \A c \in 1..Len(run.heads) : ~(bornAt'[c] < candidate[g].base)
      <4> TAKE c \in 1..Len(run.heads)
      <4>1. ~(bornAt[c] < run.base) /\ bornAt[c] \in Nat /\ bornAt'[c] = bornAt[c]
        BY <2>3, <3>1
      <4> QED
        BY <2>2, <2>4, <4>1
    <3> QED
      BY <2>1, <2>5, <3>2
  <2>6. CASE g # 0
    <3>1. g = run.base /\ candidate[g].base = run.base /\ \E c \in 1..Len(run.heads) : bornAt[c] < run.base
      BY <2>2, <2>6 DEF GenOf
    <3> QED
      BY <2>1, <2>3, <3>1
  <2> QED
    BY <2>5, <2>6
<1> QED
  BY <1>2, <1>3

\* The candidate that a round completes is the only complete one.
LEMMA CompletedAlone ==
    ASSUME RoundTypes, ChildrenGrow, CandidatesGrow, RoundKnows, OneChain, CandidateNext, ~moved,
           NEW g \in Generation, NEW h \in Generation, Completed(g), Bound(h),
           Len(run.heads) = Len(Change), candidate[h].bound = Len(Change)
    PROVE  g = h
<1>1. run.at = "building" /\ g = run.gen
  BY DEF Completed, BindManifest, RoundAt
<1>2. g = GenOf(Len(Change), run.base) /\ run.base = candidate[h].base
  BY <1>1 DEF RoundKnows, OneChain
<1>3. h = GenOf(Len(Change), candidate[h].base)
  BY DEF OneChain
<1> QED
  BY <1>2, <1>3

LEMMA CompleteStep ==
    ASSUME RoundTypes, ChildrenGrow, HeadsAreReceipts, CandidatesGrow, RoundKnows, OneChain, CandidateNext, ~moved',
           NEW g \in Generation, NEW h \in Generation, g # h, candidate'[g].bound > 0, candidate'[h].bound > 0,
           candidate'[g].bound = Len(Change), candidate'[h].bound = Len(Change)
    PROVE  FALSE
<1>1. ~moved
  BY WorldGrows
<1>2. ASSUME NEW i \in Generation, NEW j \in Generation, i # j, Completed(i),
             candidate'[i].bound = Len(Change), candidate'[j].bound = Len(Change), candidate'[j].bound > 0
      PROVE  FALSE
  <2>1. ~Completed(j) /\ Len(run.heads) = Len(Change)
    BY <1>2 DEF Completed
  <2>2. candidate[j].bound = Len(Change) /\ Bound(j)
    BY <1>2, <2>1, BoundStays DEF Bound
  <2> QED
    BY <1>1, <1>2, <2>1, <2>2, CompletedAlone
<1>3. CASE ~Completed(g) /\ ~Completed(h)
  <2>1. candidate[g].bound = Len(Change) /\ Bound(g) /\ candidate[h].bound = Len(Change) /\ Bound(h)
    BY <1>3, BoundStays DEF Bound
  <2> QED
    BY <1>1, <2>1 DEF OneChain
<1> QED
  BY <1>2, <1>3

\* Every bound candidate exists for the round: it holds the first of its heads.
LEMMA AllExist ==
    ASSUME RoundTypes, HeadsAreReceipts, CandidatesGrow, RoundKnows, run.at = "binding", ~moved,
           NEW g \in Generation, Bound(g)
    PROVE  g \in Existing /\ candidate[g].bound <= Len(run.heads)
<1> DEFINE b == candidate[g].built
           n == candidate[g].bound
           s == SubSeq(b, 1, n)
<1>1. /\ b \in Chains /\ n \in Nat /\ n > 0 /\ n <= Len(b) /\ Len(b) \in Nat /\ Len(b) <= Len(run.heads)
      /\ run.heads \in Chains /\ Len(run.heads) \in Nat /\ n <= Len(Change)
  BY TypedFacts, ChainFacts DEF CandidatesGrow, Bound, RoundKnows
<1>2. b \in Seq(1..MaxHead)
  BY <1>1 DEF Chains
<1>3. /\ s \in Seq(1..MaxHead) /\ Len(s) = n /\ \A i \in 1..n : s[i] = b[i]
  BY <1>1, <1>2, FirstOf
<1>4. s \in Chains
  BY <1>1, <1>3 DEF Chains
<1>5. \A i \in 1..n : b[i] = run.heads[i]
  <2> TAKE i \in 1..n
  <2>1. i \in 1..Len(b) /\ i \in 1..Len(run.heads)
    BY <1>1
  <2> QED
    BY <2>1 DEF CandidatesGrow, HeadsAreReceipts
<1>6. IsPrefix(s, run.heads)
  <2>1. Len(s) <= Len(run.heads) /\ \A i \in 1..Len(s) : s[i] = run.heads[i]
    BY SMTT(20), <1>1, <1>3, <1>5
  <2> QED
    BY <1>1, <1>4, <2>1, ChainPrefix
<1> QED
  BY <1>1, <1>6 DEF Existing, Bound

\* What a round binds itself to.
LEMMA BindKnows ==
    ASSUME RoundTypes, ChildrenGrow, HeadsAreReceipts, CandidatesGrow, RoundKnows, OneChain, ~moved,
           run.at = "binding", NEW base \in Nat, BindTo(base)
    PROVE  /\ candidate[GenerationOf(base)].base # 0 => candidate[GenerationOf(base)].base <= base
           /\ \A g \in Generation : Bound(g) =>
                base = candidate[g].base /\ \A h \in Generation : Bound(h) => g = h
<1>1. \A g \in Generation : Bound(g) => g \in Existing /\ candidate[g].bound <= Len(run.heads)
  BY AllExist
<1>2. GenerationOf(base) \in {0, base} /\ GenerationOf(base) = GenOf(Len(run.heads), base)
  BY DEF GenerationOf, GenOf
<1>3. CASE Existing = {} /\ base = localMain
  <2>1. GenerationOf(base) \in Generation
    BY <1>2, <1>3, BlankTypes DEF RoundTypes
  <2> QED
    BY <1>1, <1>3, <2>1 DEF CandidatesGrow
<1>4. ASSUME NEW g \in Existing, Existing = {g}, base = candidate[g].base
      PROVE  /\ candidate[GenerationOf(base)].base # 0 => candidate[GenerationOf(base)].base <= base
             /\ \A h \in Generation : Bound(h) =>
                  base = candidate[h].base /\ \A i \in Generation : Bound(i) => h = i
  <2>1. g \in Generation /\ Bound(g)
    BY <1>4 DEF Existing, Bound
  <2>2. \A h \in Generation : Bound(h) => h = g
    BY <1>1, <1>4
  <2>3. /\ candidate[g].base \in Nat /\ candidate[g].bound \in Nat /\ Len(run.heads) \in Nat
        /\ candidate[g].bound <= Len(run.heads)
    BY <1>1, <2>1, TypedFacts, ChainFacts
  <2>4. candidate[GenerationOf(base)].base # 0 => candidate[GenerationOf(base)].base <= base
    <3>1. CASE GenerationOf(base) = g
      BY <1>4, <2>3, <3>1
    <3>2. CASE GenerationOf(base) # g /\ g = 0
      <4>1. GenerationOf(base) = base /\ base # 0
        BY <1>2, <3>2
      <4>2. base \in Generation
        <5>1. candidate[g] \in BranchRecord
          BY <2>1 DEF RoundTypes
        <5>2. candidate[g].base \in {0} \cup Mains
          BY <5>1 DEF BranchRecord
        <5> QED
          BY <1>4, <5>2, BlankTypes DEF Generation
      <4> QED
        BY <4>1, <4>2 DEF CandidatesGrow
    <3>3. CASE GenerationOf(base) # g /\ g # 0
      <4>1. g = GenOf(candidate[g].bound, base)
        BY <1>4, <2>1 DEF OneChain
      <4>2. g = base /\ \E c \in 1..candidate[g].bound : bornAt[c] < base
        BY <3>3, <4>1 DEF GenOf
      <4>3. \E c \in 1..Len(run.heads) : bornAt[c] < base
        BY <2>3, <4>2
      <4> QED
        BY <1>2, <3>3, <4>2, <4>3 DEF GenOf
    <3> QED
      BY <3>1, <3>2, <3>3
  <2> QED
    BY <1>4, <2>2, <2>4
<1> QED
  BY <1>3, <1>4 DEF BindTo

LEMMA OneChainStep ==
    ASSUME RoundTypes, ChildrenGrow, HeadsAreReceipts, CandidatesGrow, RoundKnows, OneChain, CandidateNext, CandidatesGrow'
    PROVE  OneChain'
<1> SUFFICES ASSUME ~moved' PROVE OneChain'
  BY DEF OneChain
<1>1. ~moved /\ run \in RoundRecord /\ run.gen \in Generation
  BY WorldGrows, TypedFacts DEF RoundTypes
<1>2. ASSUME run'.at \in {"composing", "building"}
      PROVE  /\ candidate'[run'.gen].base # 0 => candidate'[run'.gen].base <= run'.base
             /\ \A g \in Generation : candidate'[g].bound > 0 =>
                  run'.base = candidate'[g].base /\ \A h \in Generation : candidate'[h].bound > 0 => g = h
  <2>1. ASSUME NEW base \in Nat, BindTo(base), run.at = "binding", candidate' = candidate
        PROVE  /\ candidate'[run'.gen].base # 0 => candidate'[run'.gen].base <= run'.base
               /\ \A g \in Generation : candidate'[g].bound > 0 =>
                    run'.base = candidate'[g].base /\ \A h \in Generation : candidate'[h].bound > 0 => g = h
    <3>1. run'.base = base /\ run'.gen = GenerationOf(base)
      BY <1>1, <2>1 DEF BindTo, RoundRecord
    <3> QED
      BY <1>1, <2>1, <3>1, BindKnows DEF Bound
  <2>2. ASSUME run'.gen = run.gen, run'.base = run.base, run.at \in {"composing", "building"}, ~BindManifest
        PROVE  /\ candidate'[run'.gen].base # 0 => candidate'[run'.gen].base <= run'.base
               /\ \A g \in Generation : candidate'[g].bound > 0 =>
                    run'.base = candidate'[g].base /\ \A h \in Generation : candidate'[h].bound > 0 => g = h
    <3>1. \A g \in Generation : ~Completed(g)
      BY <2>2 DEF Completed
    <3>2. /\ Mine.base # 0 => Mine.base <= run.base
          /\ \A g \in Generation : Bound(g) =>
               run.base = candidate[g].base /\ \A h \in Generation : Bound(h) => g = h
      BY <1>1, <2>2 DEF OneChain
    <3>3. \A g \in Generation : candidate'[g].bound > 0 => Bound(g) /\ candidate'[g].base = candidate[g].base
      BY <3>1, BoundStays DEF Bound
    <3>4. candidate'[run.gen].base = Mine.base \/ candidate'[run.gen].base = run.base
      BY <1>1, <3>1, BoundStays DEF Mine
    <3>5. run.base \in Nat
      BY TypedFacts
    <3> QED
      BY <2>2, <3>2, <3>3, <3>4, <3>5
  <2>3. ASSUME NEW step \in RoundStage, Goes(step)
        PROVE  run'.gen = run.gen /\ run'.base = run.base /\ run.at \in {"composing", "building"} /\ ~BindManifest
    <3>1. run'.gen = run.gen /\ run'.base = run.base /\ run'.at = step
      BY <1>1, <2>3 DEF Goes, RoundRecord
    <3>2. Compose
      BY <1>2, <2>3, <3>1 DEF Goes
    <3> QED
      BY <3>1, <3>2 DEF Compose, BindManifest, RoundAt
  <2>4. ASSUME Handoff PROVE FALSE
    <3>1. PICK x : run.at = "collecting" /\ run' = [run EXCEPT !.heads = x]
      BY <2>4 DEF Handoff
    <3> QED
      BY <1>1, <1>2, <3>1 DEF RoundRecord
  <2>5. ~NewRound
    BY <1>2 DEF NewRound
  <2>6. ASSUME run' = run, ~BindManifest
        PROVE  run'.gen = run.gen /\ run'.base = run.base /\ run.at \in {"composing", "building"} /\ ~BindManifest
    BY <1>2, <2>6
  <2> QED
    BY <2>1, <2>2, <2>3, <2>4, <2>5, <2>6, RunSteps
<1>3. \A g \in Generation : Bound(g)' => (g = GenOf(candidate[g].bound, candidate[g].base))'
  BY GenerationHolds DEF Bound, GenOf
<1>4. \A g, h \in Generation : Bound(g)' /\ Bound(h)' /\ g # h =>
            ~(candidate'[g].bound = Len(Change) /\ candidate'[h].bound = Len(Change))
  BY CompleteStep DEF Bound
<1> QED
  BY <1>2, <1>3, <1>4 DEF OneChain, Bound, GenOf, Mine

\* The children are Done only after a merge of all of them at their receipts.
LEMMA DoneStep ==
    ASSUME RoundTypes, ChildrenGrow, HeadsAreReceipts, RoundKnows, DoneWasMerged, CandidateNext
    PROVE  DoneWasMerged'
<1>1. /\ landed \subseteq landed' /\ \A c \in Child : receipt[c] <= receipt'[c] /\ receipt[c] \in Nat /\ receipt'[c] \in Nat
      /\ landed \subseteq Generation \X Chains
  <2>1. landed \subseteq landed' /\ landed \subseteq Generation \X Chains
    BY VerdictTypes DEF RoundTypes
  <2>2. \A c \in Child : receipt[c] <= receipt'[c] /\ receipt[c] \in Nat /\ receipt'[c] \in Nat
    BY WorldGrows, FamilyTypes, TypedFacts, ChainFacts
  <2> QED
    BY <2>1, <2>2
<1>2. ASSUME NEW one \in landed, Complete(one[2]), \A c \in Child : one[2][c] <= receipt[c] PROVE DoneWasMerged'
  <2>1. one[2] \in Chains /\ Len(one[2]) = Len(Change)
    BY <1>1, <1>2 DEF Complete
  <2>2. \A c \in Child : one[2][c] <= receipt'[c]
    <3> TAKE c \in Child
    <3>1. one[2][c] \in Nat
      BY <2>1, ChainFacts DEF Child
    <3> QED
      BY <1>1, <1>2, <3>1
  <2> QED
    BY <1>1, <1>2, <2>2 DEF DoneWasMerged, Complete
<1>3. CASE UNCHANGED done
  BY <1>2, <1>3 DEF DoneWasMerged
<1>4. CASE Reconcile /\ done' = (done \/ Complete(run.heads))
  <2>1. ASSUME Complete(run.heads) PROVE DoneWasMerged'
    <3>1. <<run.gen, run.heads>> \in landed
      BY <1>4 DEF Reconcile, RoundAt, RoundKnows
    <3>2. \A c \in Child : run.heads[c] <= receipt[c]
      BY <1>1, <2>1 DEF Complete, Child, HeadsAreReceipts
    <3> DEFINE one == <<run.gen, run.heads>>
    <3>3. one \in landed /\ one[2] = run.heads
      BY <3>1
    <3> HIDE DEF one
    <3> QED
      BY <1>2, <2>1, <3>2, <3>3
  <2>2. CASE ~Complete(run.heads) /\ done
    BY <1>2, <2>2 DEF DoneWasMerged
  <2>3. CASE ~Complete(run.heads) /\ ~done
    <3>1. ~done'
      BY <1>4, <2>3, Zenon
    <3> QED
      BY <3>1 DEF DoneWasMerged
  <2> QED
    BY <2>1, <2>2, <2>3
<1> QED
  BY <1>3, <1>4, VerdictTypes

\* An armed request stays complete and checked: what is pushed over it is the
\* same chain.
LEMMA ArmedStep ==
    ASSUME RoundTypes, CandidatesGrow, RoundKnows, ArmedIsVerified, CandidateNext
    PROVE  ArmedIsVerified'
<1>1. /\ pr \in [Generation -> RequestRecord] /\ checked \subseteq checked' /\ run.gen \in Generation
      /\ run.heads \in Chains /\ Mine = candidate[run.gen] /\ Mine.built \in Chains /\ pr[run.gen].head \in Chains
  <2>1. pr \in [Generation -> RequestRecord]
    BY DEF RoundTypes
  <2> QED
    BY <2>1, TypedFacts, VerdictTypes
<1>2. ASSUME NEW g \in Generation, pr'[g] = pr[g], pr'[g].armed
      PROVE  Complete(pr'[g].head) /\ ~pr'[g].draft /\ <<g, pr'[g].head>> \in checked'
  BY <1>1, <1>2 DEF ArmedIsVerified
<1>3. CASE UNCHANGED pr
  BY <1>2, <1>3 DEF ArmedIsVerified, Complete
<1>4. CASE \E h \in Generation : pr' = [pr EXCEPT ![h] = NoRequest]
  BY <1>1, <1>2, <1>4 DEF NoRequest, ArmedIsVerified, Complete
<1>5. CASE /\ Open
           /\ pr' = [pr EXCEPT ![run.gen] =
                        [head |-> run.heads, draft |-> ~Complete(run.heads), armed |-> Complete(run.heads)]]
  <2>1. Complete(run.heads) => <<run.gen, run.heads>> \in checked
    BY <1>5 DEF Open, RoundAt, RoundKnows
  <2>2. /\ pr'[run.gen].head = run.heads /\ pr'[run.gen].armed = Complete(run.heads)
        /\ pr'[run.gen].draft = ~Complete(run.heads)
        /\ \A g \in Generation \ {run.gen} : pr'[g] = pr[g]
    BY <1>1, <1>5
  <2> SUFFICES ASSUME NEW g \in Generation, pr'[g].armed
               PROVE  Complete(pr'[g].head) /\ ~pr'[g].draft /\ <<g, pr'[g].head>> \in checked'
    BY DEF ArmedIsVerified, Complete
  <2>3. CASE g = run.gen
    BY <1>1, <2>1, <2>2, <2>3, Zenon
  <2>4. CASE g # run.gen
    BY <1>2, <2>2, <2>4
  <2> QED
    BY <2>3, <2>4
<1>6. CASE /\ Push
           /\ pr' = [pr EXCEPT ![run.gen] =
                        IF pr[run.gen] = NoRequest
                        THEN [head |-> run.heads, draft |-> ~Complete(run.heads), armed |-> FALSE]
                        ELSE [pr[run.gen] EXCEPT !.head = run.heads]]
  <2>1. Mine.built = run.heads /\ (Complete(run.heads) => <<run.gen, run.heads>> \in checked)
    BY <1>6 DEF Push, RoundAt, RoundKnows, Composed
  <2> SUFFICES ASSUME NEW g \in Generation, pr'[g].armed
               PROVE  Complete(pr'[g].head) /\ ~pr'[g].draft /\ <<g, pr'[g].head>> \in checked'
    BY DEF ArmedIsVerified, Complete
  <2>2. CASE g # run.gen
    BY <1>1, <1>2, <1>6, <2>2
  <2>3. CASE g = run.gen
    <3>1. pr[g] # NoRequest
      BY <1>1, <1>6, <2>3
    <3>2. pr'[g] = [pr[g] EXCEPT !.head = run.heads]
      BY <1>1, <1>6, <2>3, <3>1
    <3>3. pr'[g].armed = pr[g].armed /\ pr'[g].draft = pr[g].draft /\ pr'[g].head = run.heads
      BY <1>1, <3>2 DEF RequestRecord
    <3>4. Complete(pr[g].head) /\ ~pr[g].draft
      BY <3>3 DEF ArmedIsVerified
    <3>5. Len(run.heads) = Len(Change)
      <4>1. IsPrefix(pr[g].head, Mine.built)
        BY <1>1, <2>3 DEF CandidatesGrow
      <4>2. Len(pr[g].head) <= Len(run.heads) /\ Len(run.heads) <= Len(Change) /\ Len(run.heads) \in Nat
        BY <1>1, <2>1, <2>3, <4>1, ChainPrefix, ChainFacts
      <4> QED
        BY <3>4, <4>2, ChainFacts DEF Complete
    <3> QED
      BY <1>1, <2>1, <2>3, <3>3, <3>4, <3>5 DEF Complete
  <2> QED
    BY <2>2, <2>3
<1> QED
  BY <1>3, <1>4, <1>5, <1>6, RequestSteps

-----------------------------------------------------------------------------
(* The invariant of the shared delivery, and what follows from it. *)

LEMMA DeliveryStart == CandidateInit => DeliveryInv
<1> SUFFICES ASSUME CandidateInit PROVE DeliveryInv
  OBVIOUS
<1>1. /\ tip = [c \in Child |-> 0] /\ bornAt = [c \in Child |-> 0] /\ receipt = [c \in Child |-> 0]
      /\ moved = FALSE /\ main = 1 /\ localMain = 1 /\ others = 1
      /\ candidate = [g \in Generation |-> NoCandidate] /\ pr = [g \in Generation |-> NoRequest]
      /\ landed = {} /\ checked = {} /\ done = FALSE /\ run = NoRun
  BY DEF CandidateInit
<1>2. /\ \A g \in Generation : candidate[g] = NoCandidate /\ pr[g] = NoRequest
      /\ \A c \in Child : tip[c] = 0 /\ receipt[c] = 0 /\ bornAt[c] = 0
      /\ run.heads = <<>> /\ run.at = "idle" /\ Len(<<>>) = 0
  BY <1>1, ChainFacts DEF NoRun
<1>3. RoundTypes
  <2>1. /\ 0 \in 0..MaxHead /\ 1 \in 1..MaxMain /\ 1 \in Mains /\ NoCandidate \in BranchRecord
        /\ NoRequest \in RequestRecord /\ NoRun \in RoundRecord
    BY BlankTypes, ChainFacts
  <2>2. /\ tip \in [Child -> 0..MaxHead] /\ bornAt \in [Child -> {0} \cup Mains]
        /\ receipt \in [Child -> 0..MaxHead]
    BY <1>1, <2>1
  <2>3. candidate \in [Generation -> BranchRecord] /\ pr \in [Generation -> RequestRecord]
    BY <1>1, <2>1
  <2> QED
    BY <1>1, <2>1, <2>2, <2>3 DEF RoundTypes
<1>4. ChildrenGrow
  BY <1>1, <1>2 DEF ChildrenGrow
<1>5. HeadsAreReceipts
  BY <1>2 DEF HeadsAreReceipts
<1>6. IsPrefix(<<>>, <<>>)
  BY ChainFacts, ChainPrefix
<1>7. CandidatesGrow
  BY <1>1, <1>2, <1>6 DEF CandidatesGrow, NoCandidate, NoRequest
<1>8. LandedAreBound /\ DoneWasMerged
  BY <1>1 DEF LandedAreBound, DoneWasMerged
<1>9. RoundKnows
  BY <1>2 DEF RoundKnows
<1>10. OneChain
  BY <1>2 DEF OneChain, Bound, NoCandidate
<1>11. ArmedIsVerified
  BY <1>2 DEF ArmedIsVerified, NoRequest
<1> QED
  BY <1>3, <1>4, <1>5, <1>7, <1>8, <1>9, <1>10, <1>11 DEF DeliveryInv

LEMMA DeliveryStep == DeliveryInv /\ CandidateNext => DeliveryInv'
<1> SUFFICES ASSUME DeliveryInv, CandidateNext PROVE DeliveryInv'
  OBVIOUS
<1>1. /\ RoundTypes /\ ChildrenGrow /\ HeadsAreReceipts /\ CandidatesGrow /\ LandedAreBound
      /\ RoundKnows /\ OneChain /\ DoneWasMerged /\ ArmedIsVerified
  BY DEF DeliveryInv
<1>2. run.at = "building" /\ Mine.dirty => Len(Mine.built) < Len(run.heads)
  BY <1>1 DEF RoundKnows
<1>3. RoundTypes'
  BY <1>1, <1>2, FamilyTypes, CandidateTypes, RequestTypes, VerdictTypes, RunTypes DEF RoundTypes
<1>4. ChildrenGrow'
  BY <1>1, ChildrenStep
<1>5. HeadsAreReceipts'
  BY <1>1, HeadsStep
<1>6. CandidatesGrow'
  BY <1>1, CandidatesStep
<1>7. LandedAreBound'
  BY <1>1, LandedStep
<1>8. RoundKnows'
  BY <1>1, RoundStepKnows
<1>9. OneChain'
  BY <1>1, <1>6, OneChainStep
<1>10. DoneWasMerged'
  BY <1>1, DoneStep
<1>11. ArmedIsVerified'
  BY <1>1, ArmedStep
<1> QED
  BY <1>3, <1>4, <1>5, <1>6, <1>7, <1>8, <1>9, <1>10, <1>11 DEF DeliveryInv

LEMMA DeliveryStutters == DeliveryInv /\ UNCHANGED candidateVars => DeliveryInv'
<1> SUFFICES ASSUME DeliveryInv, UNCHANGED candidateVars PROVE DeliveryInv'
  OBVIOUS
<1>1. UNCHANGED <<tip, bornAt, receipt, moved, main, localMain, others, candidate, pr, landed, checked, done, run>>
  BY DEF candidateVars, childVars, mainVars, remoteVars
<1> QED
  BY <1>1 DEF DeliveryInv, RoundTypes, ChildrenGrow, HeadsAreReceipts, CandidatesGrow, LandedAreBound, RoundKnows,
     OneChain, DoneWasMerged, ArmedIsVerified, Bound, GenOf, Mine, Composed, Complete

LEMMA DeliveryHolds == CandidateSpec => []DeliveryInv
<1>1. DeliveryInv /\ [CandidateNext]_candidateVars => DeliveryInv'
  BY DeliveryStep, DeliveryStutters
<1> QED
  BY <1>1, DeliveryStart, PTL DEF CandidateSpec

\* Every record of a round, a candidate and a pull request keeps its type: a
\* candidate never holds more children than there are.
THEOREM CandidateTypeCorrect == CandidateSpec => []CandidateTypeOK
<1>1. DeliveryInv => CandidateTypeOK
  BY TypesAreTypes DEF DeliveryInv
<1> QED
  BY <1>1, DeliveryHolds, PTL

\* What GitHub merges by itself is complete and was checked at that very head:
\* a head that is pushed to an armed pull request later is a complete one too,
\* and the round that pushes it has checked it.
THEOREM ArmedIsComplete == CandidateSpec => []ArmedIsVerified
<1>1. DeliveryInv => ArmedIsVerified
  BY DEF DeliveryInv
<1> QED
  BY <1>1, DeliveryHolds, PTL

LEMMA CompleteLandsOnce ==
    ASSUME DeliveryInv, ~moved, NEW one \in landed, NEW other \in landed,
           Complete(one[2]), Complete(other[2])
    PROVE  one = other
<1>1. PICK g \in Generation, s \in Chains : one = <<g, s>>
  BY DEF DeliveryInv, RoundTypes
<1>2. PICK h \in Generation, t \in Chains : other = <<h, t>>
  BY DEF DeliveryInv, RoundTypes
<1>3. /\ Len(s) = Len(Change) /\ Len(t) = Len(Change) /\ Len(Change) \in Nat \ {0, 1}
      /\ IsPrefix(s, candidate[g].built) /\ Len(s) <= candidate[g].bound
      /\ IsPrefix(t, candidate[h].built) /\ Len(t) <= candidate[h].bound
  BY <1>1, <1>2, ChainFacts DEF DeliveryInv, LandedAreBound, Complete
<1>4. /\ candidate[g].built \in Chains /\ candidate[g].bound \in Nat /\ candidate[g].bound <= Len(Change)
      /\ candidate[h].built \in Chains /\ candidate[h].bound \in Nat /\ candidate[h].bound <= Len(Change)
  BY TypedFacts DEF DeliveryInv
<1>5. candidate[g].bound = Len(Change) /\ candidate[h].bound = Len(Change)
  BY <1>3, <1>4
<1>6. g = h
  BY <1>3, <1>5 DEF DeliveryInv, OneChain, Bound
<1>7. s = t
  <2>1. \A i \in 1..Len(s) : s[i] = t[i]
    BY <1>3, <1>4, <1>6, ChainPrefix
  <2>2. s \in Seq(1..MaxHead) /\ t \in Seq(1..MaxHead)
    BY DEF Chains
  <2> QED
    BY <1>3, <2>1, <2>2, SeqEqual
<1> QED
  BY <1>1, <1>2, <1>6, <1>7

\* The children are Done only after all of them were merged at heads they had
\* receipts for, and the whole lands once as long as no receipt is superseded,
\* however many generations the rounds that were killed left behind.
THEOREM DeliveredOnce == CandidateSpec => []DoneIsDelivered
<1>1. ASSUME DeliveryInv PROVE DoneIsDelivered
  <2>1. ASSUME done
        PROVE  \E g \in Generation, heads \in Heads :
                  <<g, heads>> \in landed /\ Complete(heads) /\ \A c \in Child : heads[c] <= receipt[c]
    <3>1. PICK one \in landed : Complete(one[2]) /\ \A c \in Child : one[2][c] <= receipt[c]
      BY <1>1, <2>1 DEF DeliveryInv, DoneWasMerged
    <3>2. one[1] \in Generation /\ one[2] \in Heads /\ one = <<one[1], one[2]>>
      BY <1>1, HeadsAreChains DEF DeliveryInv, RoundTypes
    <3> QED
      BY <3>1, <3>2
  <2>2. ASSUME NEW one \in landed, NEW other \in landed, one # other, Complete(one[2]), Complete(other[2])
        PROVE  moved
    BY <1>1, <2>2, CompleteLandsOnce
  <2> QED
    BY <2>1, <2>2 DEF DoneIsDelivered
<1> QED
  BY <1>1, DeliveryHolds, PTL

-----------------------------------------------------------------------------
(* The gates before the children: types. *)

SeenRecord == [identity : Nat, status : {"fresh", "escalation-required", "requires-extraction"}]
Shots == {NoSnapshot} \cup [rev : Nat, seen : [Sources -> SeenRecord]]
AddRecord == [text : Nat, draft : Nat, open : BOOLEAN, prepared : Nat, cited : Shots]
ApprovalRecord ==
    [of : AddRecord, seen : {<<>>} \cup [Sources -> SeenRecord], known : SUBSET PlannedChildren, blind : BOOLEAN]
IntentRecord == [of : AddRecord, edit : Nat]
HandoffRecord == [of : AddRecord, intents : IntentRecord]
DesignRecord == [text : Nat, draft : Nat]
KidRecord == [design : DesignRecord, marker : HandoffRecord]
CommitRecord == [by : PlannedChildren \cup {Outsider}, deltas : SUBSET Sources, paths : SUBSET Sources]
RebindRecord ==
    [at : {"checked", "snapshot", "add", "carried", "handoffs", "written"}, head : Nat, known : SUBSET PlannedChildren,
     kept : Shots \X AddRecord \X ApprovalRecord \X IntentRecord \X [Planned -> HandoffRecord]]

AuthoringTypes ==
    /\ slice \in AuthoringBounds
    /\ specLog \in Seq(CommitRecord) /\ \A i \in 1..Len(specLog) : specLog[i].by # Outsider => specLog[i].deltas = Touches[specLog[i].by]
    /\ text \in Nat /\ binding \in Nat /\ depth \in Depths \cup {"none"}
    /\ snapshot \in Shots /\ add \in AddRecord /\ approval \in ApprovalRecord /\ intents \in IntentRecord
    /\ handoffs \in [Planned -> HandoffRecord]
    /\ bundles \in [PlannedChildren -> DesignRecord] /\ linkedAs \in [PlannedChildren -> KidRecord]
    /\ startedKid \in [kid : PlannedChildren \cup {Outsider}, alone : BOOLEAN] /\ projectDone \subseteq PlannedChildren
    /\ rebind \in {NotRebinding} \cup RebindRecord

-----------------------------------------------------------------------------
(* The gates before the children: the invariant. *)

ChangingIn(log, s, after, upto) == {i \in (after + 1)..upto : s \in log[i].paths}

\* What a snapshot has seen is the last change at its revision.
ExactIn(log, shot) ==
    shot # NoSnapshot => /\ shot.rev <= Len(log)
                         /\ \A s \in Sources : /\ shot.seen[s].identity <= shot.rev
                                               /\ ChangingIn(log, s, shot.seen[s].identity, shot.rev) = {}

\* A change by a child that has the spec as its own.
OwnIn(log, s, i) == log[i].by # Outsider /\ s \in Touches[log[i].by]

\* Between what the approval saw and what the approved content cites there are own changes only.
Vouches(log, delivered, appr) ==
    ~appr.blind /\ appr.of.cited # NoSnapshot =>
        \A kid \in appr.known \ delivered : \A s \in Touches[kid] :
            /\ appr.seen[s].identity \in Nat
            /\ \A i \in ChangingIn(log, s, appr.seen[s].identity, appr.of.cited.seen[s].identity) : OwnIn(log, s, i)
ApprovalWell(log, delivered, approved, appr) ==
    /\ appr # NoApproval => appr.of.draft > 0 /\ Design(appr.of) \in approved
    /\ ExactIn(log, appr.of.cited) /\ Vouches(log, delivered, appr)
HandoffsWell(approved, hands) == \A k \in Planned : hands[k] # NoHandoff => Design(hands[k].of) \in approved

DesignInv ==
    /\ binding <= text /\ (add = NoAdd \/ add.text = binding)
    /\ ExactIn(specLog, snapshot) /\ ExactIn(specLog, add.cited)
    /\ ApprovalWell(specLog, projectDone, vouched, approval) /\ HandoffsWell(vouched, handoffs)

KidsInv ==
    /\ \A k \in Planned : /\ bundles[k] # NoDesign => bundles[k] \in vouched
                          /\ linkedAs[k] # NoKidIssue => linkedAs[k].design \in vouched
    /\ \A n \in DOMAIN Plan : startedKid = [kid |-> Plan[n], alone |-> FALSE] =>
           /\ linkedAs[Plan[n]] # NoKidIssue
           /\ \A m \in 1..(n - 1) : \E i \in DOMAIN specLog : specLog[i].by = Plan[m]

\* What a rebind has looked at, and what it can restore.
Checked(log, delivered, r) ==
    \A kid \in r.known \ delivered : \A s \in Touches[kid] :
        \A i \in ChangingIn(log, s, r.kept[1].seen[s].identity, r.head) : OwnIn(log, s, i)
RebindInv ==
    rebind.at # "none" =>
        /\ rebind.head <= Len(specLog) /\ Checked(specLog, projectDone, rebind)
        /\ rebind.kept[1] # NoSnapshot /\ ExactIn(specLog, rebind.kept[1])
        /\ rebind.kept[2].text = binding /\ Design(add) = Design(rebind.kept[2])
        /\ rebind.kept[3] # NoApproval /\ rebind.kept[3].of = rebind.kept[2]
        /\ ApprovalWell(specLog, projectDone, vouched, rebind.kept[3]) /\ HandoffsWell(vouched, rebind.kept[5])
        /\ rebind.at \in {"checked", "snapshot"} => add = rebind.kept[2]
        /\ rebind.at = "add" => add.cited = IF rebind.kept[2].cited # NoSnapshot THEN snapshot ELSE NoSnapshot

AuthoringInv == DesignInv /\ KidsInv /\ RebindInv

-----------------------------------------------------------------------------
(* The gates before the children: records, and the log that grows. *)

LEMMA NothingAuthored ==
    /\ NoSnapshot \in Shots /\ NoAdd \in AddRecord /\ NoApproval \in ApprovalRecord /\ NoIntents \in IntentRecord
    /\ NoHandoff \in HandoffRecord /\ NoDesign \in DesignRecord /\ NoKidIssue \in KidRecord
    /\ NoAdd.cited = NoSnapshot /\ NoApproval.of = NoAdd /\ NotRebinding.at = "none"
<1>1. NoSnapshot \in Shots
  BY DEF Shots
<1>2. NoAdd \in AddRecord /\ NoAdd.cited = NoSnapshot
  BY <1>1 DEF NoAdd, AddRecord
<1>3. NoIntents \in IntentRecord /\ NoApproval.of = NoAdd
  BY <1>2 DEF NoIntents, IntentRecord, NoApproval
<1>4. NoApproval \in ApprovalRecord
  <2>1. {} \in SUBSET PlannedChildren /\ FALSE \in BOOLEAN /\ <<>> \in {<<>>} \cup [Sources -> SeenRecord]
    OBVIOUS
  <2> QED
    BY <1>2, <2>1 DEF NoApproval, ApprovalRecord
<1>5. NoHandoff \in HandoffRecord
  BY <1>2, <1>3 DEF NoHandoff, HandoffRecord
<1>6. NoDesign \in DesignRecord
  BY DEF NoDesign, DesignRecord
<1>7. NoKidIssue \in KidRecord
  BY <1>5, <1>6 DEF NoKidIssue, KidRecord
<1> QED
  BY <1>1, <1>2, <1>3, <1>4, <1>5, <1>6, <1>7 DEF NotRebinding

LEMMA RebindFacts ==
    ASSUME NEW r \in {NotRebinding} \cup RebindRecord
    PROVE  /\ r.at = "none" <=> r = NotRebinding
           /\ r.at # "none" => /\ r \in RebindRecord /\ r.head \in Nat /\ r.known \subseteq PlannedChildren
                               /\ r.kept[1] \in Shots /\ r.kept[2] \in AddRecord /\ r.kept[3] \in ApprovalRecord
                               /\ r.kept[4] \in IntentRecord /\ r.kept[5] \in [Planned -> HandoffRecord]
                               /\ r.at \in {"checked", "snapshot", "add", "carried", "handoffs", "written"}
<1>1. NotRebinding.at = "none"
  BY DEF NotRebinding
<1>2. ASSUME r \in RebindRecord
      PROVE  /\ r.at \in {"checked", "snapshot", "add", "carried", "handoffs", "written"}
             /\ r.head \in Nat /\ r.known \subseteq PlannedChildren
             /\ r.kept \in Shots \X AddRecord \X ApprovalRecord \X IntentRecord \X [Planned -> HandoffRecord]
  BY <1>2 DEF RebindRecord
<1>3. ASSUME r \in RebindRecord
      PROVE  /\ r.kept[1] \in Shots /\ r.kept[2] \in AddRecord /\ r.kept[3] \in ApprovalRecord
             /\ r.kept[4] \in IntentRecord /\ r.kept[5] \in [Planned -> HandoffRecord]
  BY <1>2, <1>3
<1> QED
  BY <1>1, <1>2, <1>3

LEMMA ShotFacts ==
    ASSUME NEW shot \in Shots, shot # NoSnapshot
    PROVE  shot.rev \in Nat /\ shot.seen \in [Sources -> SeenRecord] /\ \A s \in Sources : shot.seen[s].identity \in Nat
<1>1. shot.rev \in Nat /\ shot.seen \in [Sources -> SeenRecord]
  BY DEF Shots
<1> QED
  BY <1>1 DEF SeenRecord

\* The children know their sources.
LEMMA TouchesFacts == \A kid \in PlannedChildren : Touches[kid] \subseteq Sources
  BY AuthoringAssumption

\* Of numbers up to a bound one is the largest.
LEMMA GreatestNatural ==
    ASSUME NEW S, S \subseteq Nat, 0 \in S, NEW b \in Nat, \A n \in S : n <= b
    PROVE  \E m \in S : \A n \in S : m >= n
<1>1. PICK T : T = {n \in Nat : \A m \in S : m <= n}
  OBVIOUS
<1>2. T \subseteq Nat /\ T # {}
  BY <1>1
<1>3. PICK t \in T : \A m \in T : ~(m < t)
  <2>1. PICK n \in T : \A m \in T : <<m, n>> \notin OpToRel(<, Nat)
    BY <1>2, WFMin, NatLessThanWellFounded, Zenon
  <2>2. \A m \in T : ~(m < n)
    BY <1>2, <2>1, Zenon DEF OpToRel
  <2> QED
    BY <2>2
<1>4. t \in S
  <2> SUFFICES ASSUME t \notin S PROVE FALSE
    OBVIOUS
  <2>1. t \in Nat /\ \A m \in S : m <= t /\ m # t
    BY <1>1, <1>3
  <2>2. t # 0
    BY <2>1
  <2>3. t - 1 \in T /\ t - 1 < t
    BY <1>1, <2>1, <2>2
  <2> QED
    BY <1>3, <2>3
<1> QED
  BY <1>1, <1>3, <1>4

\* The identity of a source is its last change.
LEMMA IdentityFacts ==
    ASSUME AuthoringTypes, NEW s
    PROVE  Identity(s) \in Nat /\ Identity(s) <= LogEnd /\ LogEnd \in Nat /\ ChangingIn(specLog, s, Identity(s), LogEnd) = {}
<1>1. LogEnd \in Nat
  BY DEF AuthoringTypes, LogEnd
<1>2. PICK S : S = {0} \cup Changing(s, 0, LogEnd)
  OBVIOUS
<1>3. S \subseteq Nat /\ 0 \in S /\ \A n \in S : n <= LogEnd
  BY <1>1, <1>2 DEF Changing
<1>4. PICK m \in S : \A n \in S : m >= n
  BY <1>1, <1>3, GreatestNatural
<1>5. Max(S) \in S /\ \A n \in S : Max(S) >= n
  BY <1>4 DEF Max
<1>6. PICK x : x = Identity(s)
  OBVIOUS
<1>7. x \in S /\ \A n \in S : x >= n
  BY <1>2, <1>5, <1>6 DEF Identity
<1>8. \A i \in (x + 1)..LogEnd : s \notin specLog[i].paths
  BY <1>1, <1>2, <1>3, <1>7 DEF Changing
<1> QED
  BY <1>1, <1>3, <1>6, <1>7, <1>8 DEF ChangingIn

\* A longer log says the same of what it said before.
LEMMA ExactGrows ==
    ASSUME NEW log, NEW log2, Len(log) \in Nat, Len(log2) \in Nat, Len(log) <= Len(log2),
           \A i \in 1..Len(log) : log2[i] = log[i], NEW shot \in Shots, ExactIn(log, shot)
    PROVE  ExactIn(log2, shot)
<1> SUFFICES ASSUME shot # NoSnapshot
             PROVE  /\ shot.rev <= Len(log2)
                    /\ \A s \in Sources : /\ shot.seen[s].identity <= shot.rev
                                          /\ ChangingIn(log2, s, shot.seen[s].identity, shot.rev) = {}
  BY DEF ExactIn
<1>1. shot.rev <= Len(log) /\ shot.rev \in Nat /\ shot.rev <= Len(log2)
  BY ShotFacts DEF ExactIn
<1>2. ASSUME NEW s \in Sources
      PROVE  shot.seen[s].identity <= shot.rev /\ ChangingIn(log2, s, shot.seen[s].identity, shot.rev) = {}
  <2>1. shot.seen[s].identity \in Nat /\ shot.seen[s].identity <= shot.rev
    BY ShotFacts DEF ExactIn
  <2>2. ChangingIn(log, s, shot.seen[s].identity, shot.rev) = {}
    BY DEF ExactIn
  <2>3. \A i \in (shot.seen[s].identity + 1)..shot.rev : log2[i] = log[i]
    BY <1>1, <2>1
  <2> QED
    BY <2>1, <2>2, <2>3 DEF ChangingIn
<1> QED
  BY <1>1, <1>2

LEMMA OwnGrows ==
    ASSUME NEW log, NEW log2, Len(log) \in Nat, \A i \in 1..Len(log) : log2[i] = log[i], NEW s, NEW a \in Nat, NEW b \in Nat,
           b <= Len(log), \A i \in ChangingIn(log, s, a, b) : OwnIn(log, s, i)
    PROVE  \A i \in ChangingIn(log2, s, a, b) : OwnIn(log2, s, i)
<1>1. \A i \in (a + 1)..b : log2[i] = log[i]
  OBVIOUS
<1> QED
  BY <1>1 DEF ChangingIn, OwnIn

LEMMA ApprovalFacts ==
    ASSUME NEW appr \in ApprovalRecord
    PROVE  /\ appr.of \in AddRecord /\ appr.of.cited \in Shots /\ appr.of.text \in Nat /\ appr.of.draft \in Nat
           /\ appr.known \subseteq PlannedChildren /\ appr.blind \in BOOLEAN
<1>1. appr.of \in AddRecord /\ appr.known \subseteq PlannedChildren /\ appr.blind \in BOOLEAN
  BY DEF ApprovalRecord
<1> QED
  BY <1>1 DEF AddRecord

LEMMA ApprovalStays ==
    ASSUME NEW log, NEW log2, Len(log) \in Nat, Len(log2) \in Nat, Len(log) <= Len(log2), \A i \in 1..Len(log) : log2[i] = log[i],
           NEW delivered, NEW delivered2, delivered \subseteq delivered2, NEW known, NEW known2, known \subseteq known2,
           NEW appr \in ApprovalRecord, ApprovalWell(log, delivered, known, appr)
    PROVE  ApprovalWell(log2, delivered2, known2, appr)
<1>1. ExactIn(log2, appr.of.cited)
  BY ApprovalFacts, ExactGrows DEF ApprovalWell
<1>2. Vouches(log2, delivered2, appr)
  <2> SUFFICES ASSUME ~appr.blind, appr.of.cited # NoSnapshot, NEW kid \in appr.known \ delivered2, NEW s \in Touches[kid]
               PROVE  /\ appr.seen[s].identity \in Nat
                      /\ \A i \in ChangingIn(log2, s, appr.seen[s].identity, appr.of.cited.seen[s].identity) : OwnIn(log2, s, i)
    BY DEF Vouches
  <2>1. kid \in appr.known \ delivered /\ s \in Sources
    BY ApprovalFacts, TouchesFacts
  <2>2. /\ appr.seen[s].identity \in Nat
        /\ \A i \in ChangingIn(log, s, appr.seen[s].identity, appr.of.cited.seen[s].identity) : OwnIn(log, s, i)
    BY <2>1 DEF ApprovalWell, Vouches
  <2>3. appr.of.cited.seen[s].identity \in Nat /\ appr.of.cited.rev \in Nat
    BY <2>1, ApprovalFacts, ShotFacts
  <2>4. appr.of.cited.seen[s].identity <= appr.of.cited.rev /\ appr.of.cited.rev <= Len(log)
    BY <2>1 DEF ApprovalWell, ExactIn
  <2>5. appr.of.cited.seen[s].identity <= Len(log)
    BY <2>3, <2>4
  <2> QED
    BY <2>2, <2>3, <2>5, OwnGrows
<1> QED
  BY <1>1, <1>2 DEF ApprovalWell

LEMMA CheckedStays ==
    ASSUME NEW log, NEW log2, Len(log) \in Nat, \A i \in 1..Len(log) : log2[i] = log[i],
           NEW delivered, NEW delivered2, delivered \subseteq delivered2, NEW r \in RebindRecord, r.head <= Len(log), r.kept[1] # NoSnapshot,
           Checked(log, delivered, r)
    PROVE  Checked(log2, delivered2, r)
<1>1. r \in {NotRebinding} \cup RebindRecord /\ r.at # "none"
  BY DEF RebindRecord
<1>2. r.kept[1] \in Shots /\ r.known \subseteq PlannedChildren /\ r.head \in Nat
  BY <1>1, RebindFacts
<1> SUFFICES ASSUME NEW kid \in r.known \ delivered2, NEW s \in Touches[kid]
             PROVE  \A i \in ChangingIn(log2, s, r.kept[1].seen[s].identity, r.head) : OwnIn(log2, s, i)
  BY DEF Checked
<1>3. kid \in r.known \ delivered /\ s \in Sources
  BY <1>2, TouchesFacts
<1>4. r.kept[1].seen[s].identity \in Nat
  BY <1>2, <1>3, ShotFacts
<1>5. \A i \in ChangingIn(log, s, r.kept[1].seen[s].identity, r.head) : OwnIn(log, s, i)
  BY <1>3 DEF Checked
<1> QED
  BY <1>2, <1>4, <1>5, OwnGrows

-----------------------------------------------------------------------------
(* The gates before the children: text, depth, snapshot and design. *)

\* Outside of a rebind, the design changes and the rest stays.
LEMMA DesignStays ==
    ASSUME AuthoringInv, rebind.at = "none", UNCHANGED <<specLog, kidVars, rebind>>, vouched \subseteq vouched', DesignInv'
    PROVE  AuthoringInv'
<1>1. KidsInv'
  BY DEF AuthoringInv, KidsInv, kidVars
<1>2. RebindInv'
  BY DEF RebindInv
<1> QED
  BY <1>1, <1>2 DEF AuthoringInv

LEMMA QuietFacts ==
    ASSUME AuthoringTypes, Quiet
    PROVE  rebind.at = "none"
  BY DEF Quiet, NotRebinding

\* What leaves of the design when the text or the depth changes.
LEMMA WishMoves ==
    ASSUME AuthoringTypes, binding <= text, WriteText \/ BindText \/ \E chosen \in Depths : SelectDepth(chosen)
    PROVE  /\ rebind.at = "none" /\ UNCHANGED <<specLog, snapshot, kidVars, rebind, vouched, slice>>
           /\ text' \in Nat /\ binding' \in Nat /\ binding' <= text' /\ depth' \in Depths \cup {"none"}
           /\ \/ add' = NoAdd
              \/ add' = add /\ binding' = binding
              \/ add' = NewAdd /\ binding' = text
           /\ approval' \in {approval, NoApproval} /\ intents' \in {intents, NoIntents}
           /\ handoffs' \in {handoffs, [k \in Planned |-> NoHandoff]}
<1>1. rebind.at = "none" /\ UNCHANGED <<specLog, snapshot, kidVars, rebind, vouched, slice>>
  BY QuietFacts DEF WriteText, BindText, SelectDepth, ExceptWish
<1>2. CASE WriteText
  BY <1>1, <1>2 DEF WriteText, AuthoringTypes, designVars
<1>3. ASSUME NEW cut \in 1..All, Cut(cut)
      PROVE  /\ depth' = "none" /\ add' \in {add, NoAdd} /\ (cut = All => add' = NoAdd)
             /\ approval' \in {approval, NoApproval} /\ intents' \in {intents, NoIntents}
             /\ handoffs' \in {handoffs, [k \in Planned |-> NoHandoff]}
  BY <1>3 DEF Cut, All
<1>4. CASE BindText
  <2>1. PICK cut \in 1..All : Cut(cut) /\ binding' = IF cut = All THEN text ELSE binding
    BY <1>4 DEF BindText, InvalidateFromSelection
  <2>2. text' = text /\ text \in Nat /\ binding \in Nat
    BY <1>4 DEF BindText, AuthoringTypes
  <2> QED
    BY <1>1, <1>3, <2>1, <2>2
<1>5. ASSUME NEW chosen \in Depths, SelectDepth(chosen)
      PROVE  /\ text' = text /\ binding' = binding /\ binding = text /\ depth' \in Depths \cup {"none"}
             /\ add' \in {add, NoAdd, NewAdd}
             /\ approval' \in {approval, NoApproval} /\ intents' \in {intents, NoIntents}
             /\ handoffs' \in {handoffs, [k \in Planned |-> NoHandoff]}
  <2>1. text' = text /\ binding' = binding /\ binding = text
    BY <1>5 DEF SelectDepth
  <2>2. CASE \E cut \in 1..All : Cut(cut)
    BY <1>3, <2>1, <2>2
  <2>3. CASE (Scaffold \/ UNCHANGED designVars) /\ depth' \in {chosen, depth}
    BY <2>1, <2>3 DEF Scaffold, designVars, AuthoringTypes
  <2> QED
    BY <1>5, <2>2, <2>3 DEF SelectDepth, InvalidateFromSelection
<1> QED
  BY <1>1, <1>2, <1>4, <1>5 DEF AuthoringTypes

LEMMA EmptyFit ==
    /\ \A log : ExactIn(log, NoSnapshot)
    /\ \A log, delivered, known : ApprovalWell(log, delivered, known, NoApproval)
    /\ \A known : HandoffsWell(known, [k \in Planned |-> NoHandoff])
<1>1. \A log : ExactIn(log, NoSnapshot)
  BY DEF ExactIn
<1>2. NoApproval.of.cited = NoSnapshot
  BY NothingAuthored
<1> QED
  BY <1>1, <1>2 DEF ApprovalWell, Vouches, HandoffsWell

LEMMA WishStays ==
    ASSUME AuthoringTypes, AuthoringInv, WriteText \/ BindText \/ \E chosen \in Depths : SelectDepth(chosen)
    PROVE  AuthoringTypes' /\ AuthoringInv'
<1>1. DesignInv
  BY DEF AuthoringInv
<1>2. NewAdd \in AddRecord /\ NewAdd.text = text /\ NewAdd.cited = NoSnapshot
  <2>1. text \in Nat /\ LogEnd \in Nat
    BY DEF AuthoringTypes, LogEnd
  <2> QED
    BY <2>1, NothingAuthored DEF NewAdd, AddRecord, NoAdd
<1>3. /\ rebind.at = "none" /\ UNCHANGED <<specLog, snapshot, kidVars, rebind, vouched, slice>>
      /\ text' \in Nat /\ binding' \in Nat /\ binding' <= text' /\ depth' \in Depths \cup {"none"}
      /\ \/ add' = NoAdd
         \/ add' = add /\ binding' = binding
         \/ add' = NewAdd /\ binding' = text
      /\ approval' \in {approval, NoApproval} /\ intents' \in {intents, NoIntents}
      /\ handoffs' \in {handoffs, [k \in Planned |-> NoHandoff]}
  BY <1>1, WishMoves DEF DesignInv
<1>4. add' \in AddRecord /\ approval' \in ApprovalRecord /\ intents' \in IntentRecord /\ handoffs' \in [Planned -> HandoffRecord]
  BY <1>2, <1>3, NothingAuthored DEF AuthoringTypes
<1>5. AuthoringTypes'
  BY <1>3, <1>4 DEF AuthoringTypes, kidVars
<1>6. ExactIn(specLog, add'.cited)
  BY <1>1, <1>2, <1>3, EmptyFit, NothingAuthored DEF DesignInv
<1>7. add' = NoAdd \/ add'.text = binding'
  BY <1>1, <1>2, <1>3 DEF DesignInv
<1>8. ApprovalWell(specLog, projectDone, vouched, approval') /\ HandoffsWell(vouched, handoffs')
  BY <1>1, <1>3, EmptyFit DEF DesignInv
<1>9. DesignInv'
  BY <1>1, <1>3, <1>6, <1>7, <1>8 DEF DesignInv, kidVars
<1> QED
  BY <1>3, <1>5, <1>9, DesignStays

\* A snapshot of this moment is exact.
LEMMA ExactNow ==
    ASSUME AuthoringTypes, NEW shot, shot.rev = LogEnd, \A s \in Sources : shot.seen[s].identity = Identity(s)
    PROVE  ExactIn(specLog, shot)
<1>1. shot.rev <= Len(specLog)
  BY IdentityFacts DEF LogEnd
<1>2. ASSUME NEW s \in Sources
      PROVE  shot.seen[s].identity <= shot.rev /\ ChangingIn(specLog, s, shot.seen[s].identity, shot.rev) = {}
  BY <1>2, IdentityFacts
<1> QED
  BY <1>1, <1>2 DEF ExactIn

LEMMA SnapshotStays ==
    ASSUME AuthoringTypes, AuthoringInv, NEW supplied, BuildSnapshot(supplied)
    PROVE  AuthoringTypes' /\ AuthoringInv'
<1>1. PICK doubtful \in slice.doubts :
          snapshot' = [rev |-> LogEnd, seen |-> [s \in Sources |-> Projection(s, supplied, doubtful)]]
  BY DEF BuildSnapshot
<1>2. UNCHANGED <<specLog, wishVars, designVars, kidVars, rebind, vouched, slice>> /\ rebind.at = "none"
  BY QuietFacts DEF BuildSnapshot
<1>3. ASSUME NEW s \in Sources
      PROVE  Projection(s, supplied, doubtful) \in SeenRecord /\ Projection(s, supplied, doubtful).identity = Identity(s)
  <2>1. Identity(s) \in Nat
    BY IdentityFacts
  <2>2. HaveSnapshot => snapshot.seen[s] \in SeenRecord
    BY ShotFacts DEF HaveSnapshot, AuthoringTypes
  <2> QED
    BY <2>1, <2>2 DEF Projection, SeenRecord
<1>4. /\ snapshot'.rev = LogEnd /\ snapshot' \in Shots
      /\ \A s \in Sources : snapshot'.seen[s].identity = Identity(s)
  <2>1. LogEnd \in Nat
    BY DEF AuthoringTypes, LogEnd
  <2> QED
    BY <1>1, <1>3, <2>1 DEF Shots
<1>5. ExactIn(specLog, snapshot')
  BY <1>4, ExactNow
<1>6. AuthoringTypes'
  BY <1>2, <1>4 DEF AuthoringTypes, wishVars, designVars, kidVars
<1>7. DesignInv'
  BY <1>2, <1>5 DEF AuthoringInv, DesignInv, wishVars, designVars, kidVars
<1> QED
  BY <1>2, <1>6, <1>7, DesignStays

LEMMA DraftStays ==
    ASSUME AuthoringTypes, AuthoringInv, WriteDraft \/ CiteAgain \/ RecordDecision
    PROVE  AuthoringTypes' /\ AuthoringInv'
<1>1. add \in AddRecord /\ snapshot \in Shots /\ LogEnd \in Nat /\ DesignInv
  BY DEF AuthoringTypes, LogEnd, AuthoringInv
<1>0. /\ add.text \in Nat /\ add.draft \in Nat /\ add.draft + 1 \in Nat /\ add.open \in BOOLEAN /\ add.prepared \in Nat
      /\ add.cited \in Shots /\ FALSE \in BOOLEAN
  BY <1>1 DEF AddRecord
<1>2. /\ UNCHANGED <<approval, intents, handoffs, vouched, specLog, wishVars, snapshot, kidVars, rebind, slice>>
      /\ rebind.at = "none"
  BY QuietFacts DEF WriteDraft, CiteAgain, RecordDecision, OnlyAdd, ExceptDesign
<1>3. ASSUME WriteDraft PROVE add' \in AddRecord /\ add'.text = add.text /\ add'.cited \in {NoSnapshot, snapshot, add.cited} /\ add # NoAdd
  <2>1. PICK open \in BOOLEAN, cited \in {NoSnapshot, snapshot} :
            add' = [add EXCEPT !.draft = @ + 1, !.open = open, !.cited = cited, !.prepared = LogEnd]
    BY <1>3 DEF WriteDraft
  <2>2. cited \in Shots /\ add # NoAdd
    BY <1>1, <1>3, NothingAuthored DEF WriteDraft
  <2>3. add' \in AddRecord /\ add'.text = add.text /\ add'.cited = cited
    BY <1>0, <1>1, <2>1, <2>2, ZenonT(40) DEF AddRecord
  <2> QED
    BY <2>2, <2>3
<1>4. ASSUME CiteAgain PROVE add' \in AddRecord /\ add'.text = add.text /\ add'.cited \in {NoSnapshot, snapshot, add.cited} /\ add # NoAdd
  <2>1. add # NoAdd
    BY <1>4, NothingAuthored DEF CiteAgain, Cites
  <2>2. add' = [add EXCEPT !.cited = snapshot, !.prepared = LogEnd]
    BY <1>4 DEF CiteAgain
  <2>3. add' \in AddRecord /\ add'.text = add.text /\ add'.cited \in {snapshot, add.cited}
    BY <1>0, <1>1, <2>1, <2>2, ZenonT(40) DEF AddRecord
  <2> QED
    BY <2>1, <2>3
<1>5. ASSUME RecordDecision PROVE add' \in AddRecord /\ add'.text = add.text /\ add'.cited \in {NoSnapshot, snapshot, add.cited} /\ add # NoAdd
  <2>1. add # NoAdd
    BY <1>5 DEF RecordDecision, NoAdd
  <2>2. add' = [add EXCEPT !.open = FALSE] /\ FALSE \in BOOLEAN
    BY <1>5 DEF RecordDecision
  <2>3. add' \in AddRecord /\ add'.text = add.text /\ add'.cited \in {snapshot, add.cited}
    BY <1>0, <1>1, <2>1, <2>2, ZenonT(40) DEF AddRecord
  <2> QED
    BY <2>1, <2>3
<1>6. add' \in AddRecord /\ add'.text = add.text /\ add'.cited \in {NoSnapshot, snapshot, add.cited} /\ add # NoAdd
  BY <1>3, <1>4, <1>5
<1>7. AuthoringTypes'
  BY <1>2, <1>6 DEF AuthoringTypes, wishVars, kidVars
<1>8. ExactIn(specLog, add'.cited)
  BY <1>1, <1>6, EmptyFit DEF DesignInv
<1>9. DesignInv'
  BY <1>1, <1>2, <1>6, <1>8 DEF DesignInv, wishVars, kidVars
<1> QED
  BY <1>2, <1>7, <1>9, DesignStays

\* What a person approves is the present content, and between what the approval
\* saw and what the content cites there is nothing.
LEMMA ApproveStays ==
    ASSUME AuthoringTypes, AuthoringInv, Approve
    PROVE  AuthoringTypes' /\ AuthoringInv'
<1>1. add \in AddRecord /\ add.cited \in Shots /\ DesignInv
  BY DEF AuthoringTypes, AuthoringInv, AddRecord
<1>2. UNCHANGED <<add, intents, handoffs, specLog, wishVars, snapshot, kidVars, rebind, slice>> /\ rebind.at = "none"
  BY QuietFacts DEF Approve, ExceptDesign
<1>3. /\ approval' = [of |-> add, seen |-> add.cited.seen, known |-> Planned, blind |-> FALSE]
      /\ vouched' = vouched \cup {Design(add)} /\ add.draft > 0
  BY DEF Approve
<1>4. approval' \in ApprovalRecord
  <2>1. add.cited.seen \in {<<>>} \cup [Sources -> SeenRecord]
    BY <1>1 DEF Shots, NoSnapshot
  <2>2. FALSE \in BOOLEAN /\ Planned \in SUBSET PlannedChildren
    BY DEF PlannedChildren
  <2> QED
    BY <1>1, <1>3, <2>1, <2>2 DEF ApprovalRecord
<1>5. AuthoringTypes'
  BY <1>2, <1>4 DEF AuthoringTypes, wishVars, kidVars
<1>6. Vouches(specLog, projectDone, approval')
  <2> SUFFICES ASSUME add.cited # NoSnapshot, NEW kid \in Planned, NEW s \in Touches[kid]
               PROVE  /\ add.cited.seen[s].identity \in Nat
                      /\ ChangingIn(specLog, s, add.cited.seen[s].identity, add.cited.seen[s].identity) = {}
    BY <1>3 DEF Vouches
  <2>1. s \in Sources
    BY TouchesFacts DEF PlannedChildren
  <2>2. add.cited.seen[s].identity \in Nat
    BY <1>1, <2>1, ShotFacts
  <2> QED
    BY <2>2 DEF ChangingIn
<1>7. ApprovalWell(specLog, projectDone, vouched', approval')
  BY <1>1, <1>3, <1>6 DEF ApprovalWell, DesignInv
<1>8. HandoffsWell(vouched', handoffs)
  BY <1>1, <1>3 DEF DesignInv, HandoffsWell
<1>9. DesignInv'
  BY <1>1, <1>2, <1>7, <1>8 DEF DesignInv, wishVars, kidVars
<1>10. vouched \subseteq vouched'
  BY <1>3
<1> QED
  BY <1>2, <1>5, <1>9, <1>10, DesignStays

\* Intents and handoffs are those of a design that is approved as it is.
LEMMA ReadyIsVouched ==
    ASSUME AuthoringTypes, DesignInv, AddReady
    PROVE  Design(add) \in vouched /\ add # NoAdd /\ approval.of = add
  BY DEF DesignInv, ApprovalWell, AddReady, Approved, ApprovalCurrent

LEMMA HandoffStays ==
    ASSUME AuthoringTypes, AuthoringInv, Decompose \/ \E kid \in Planned : PrepareHandoff(kid)
    PROVE  AuthoringTypes' /\ AuthoringInv'
<1>1. add \in AddRecord /\ intents \in IntentRecord /\ DesignInv
  BY DEF AuthoringTypes, AuthoringInv
<1>2. /\ UNCHANGED <<add, approval, vouched, specLog, wishVars, snapshot, kidVars, rebind, slice>>
      /\ rebind.at = "none" /\ AddReady
  BY QuietFacts DEF Decompose, PrepareHandoff, ExceptDesign, IntentsReady, IntentsValid
<1>3. Design(add) \in vouched
  BY <1>1, <1>2, ReadyIsVouched
<1>4. ASSUME Decompose PROVE intents' \in IntentRecord
  <2>1. handoffs' = handoffs /\ intents' = [of |-> add, edit |-> intents.edit + 1]
    BY <1>4 DEF Decompose
  <2>2. intents' \in IntentRecord
    BY <1>1, <2>1 DEF IntentRecord
  <2> QED
    BY <2>2
<1>5. ASSUME NEW kid \in Planned, PrepareHandoff(kid)
      PROVE  intents' \in IntentRecord /\ handoffs' \in [Planned -> HandoffRecord] /\ HandoffsWell(vouched, handoffs')
  <2>1. intents' = intents /\ handoffs' = [handoffs EXCEPT ![kid] = [of |-> add, intents |-> intents]]
    BY <1>5 DEF PrepareHandoff
  <2>2. [of |-> add, intents |-> intents] \in HandoffRecord
    BY <1>1 DEF HandoffRecord
  <2>3. handoffs' \in [Planned -> HandoffRecord]
    BY <2>1, <2>2 DEF AuthoringTypes
  <2>4. ASSUME NEW k \in Planned, handoffs'[k] # NoHandoff
        PROVE  Design(handoffs'[k].of) \in vouched
    <3>1. CASE k = kid
      BY <1>3, <2>1, <3>1 DEF AuthoringTypes
    <3>2. CASE k # kid
      BY <1>1, <2>1, <2>4, <3>2 DEF AuthoringTypes, DesignInv, HandoffsWell
    <3> QED
      BY <3>1, <3>2
  <2> QED
    BY <1>1, <2>1, <2>3, <2>4 DEF HandoffsWell
<1>6. intents' \in IntentRecord /\ handoffs' \in [Planned -> HandoffRecord] /\ HandoffsWell(vouched, handoffs')
  <2>1. CASE Decompose
    <3>1. handoffs' = handoffs /\ HandoffsWell(vouched, handoffs) /\ handoffs \in [Planned -> HandoffRecord]
      BY <1>1, <2>1 DEF Decompose, DesignInv, AuthoringTypes
    <3> QED
      BY <1>4, <2>1, <3>1
  <2> QED
    BY <1>5, <2>1
<1>7. AuthoringTypes'
  BY <1>2, <1>6 DEF AuthoringTypes, wishVars, kidVars
<1>8. DesignInv'
  BY <1>1, <1>2, <1>6 DEF DesignInv, wishVars, kidVars
<1> QED
  BY <1>2, <1>7, <1>8, DesignStays

-----------------------------------------------------------------------------
(* The gates before the children: the children and the commits. *)

\* Outside of the design, the children change and the rest stays; what the
\* Project says only grows.
LEMMA KidsStay ==
    ASSUME AuthoringTypes, AuthoringInv, UNCHANGED <<specLog, wishVars, snapshot, designVars, rebind, vouched, slice>>,
           projectDone \subseteq projectDone', KidsInv'
    PROVE  AuthoringInv'
<1>1. Len(specLog) \in Nat /\ approval \in ApprovalRecord
  BY DEF AuthoringTypes
<1>2. ApprovalWell(specLog, projectDone', vouched, approval)
  BY <1>1, ApprovalStays DEF AuthoringInv, DesignInv
<1>3. DesignInv'
  BY <1>2 DEF AuthoringInv, DesignInv, wishVars, designVars
<1>4. ASSUME rebind.at # "none"
      PROVE  Checked(specLog, projectDone', rebind) /\ ApprovalWell(specLog, projectDone', vouched, rebind.kept[3])
  <2>1. /\ rebind.head <= Len(specLog) /\ Checked(specLog, projectDone, rebind) /\ rebind.kept[1] # NoSnapshot
        /\ ApprovalWell(specLog, projectDone, vouched, rebind.kept[3])
    BY <1>4 DEF AuthoringInv, RebindInv
  <2>2. rebind \in RebindRecord /\ rebind.kept[3] \in ApprovalRecord
    BY <1>4, RebindFacts DEF AuthoringTypes
  <2>3. Checked(specLog, projectDone', rebind)
    BY <1>1, <2>1, <2>2, CheckedStays
  <2> QED
    BY <1>1, <2>1, <2>2, <2>3, ApprovalStays
<1>5. RebindInv'
  BY <1>4 DEF AuthoringInv, RebindInv, wishVars, designVars
<1> QED
  BY <1>3, <1>5 DEF AuthoringInv

\* A complete chain has a design that a person approved.
LEMMA CompleteFacts ==
    ASSUME AuthoringTypes, DesignInv, Stage = "complete"
    PROVE  /\ binding = text
           /\ depth = "material-design" => AddReady /\ add.text = text /\ Design(add) \in vouched
<1>1. binding = text /\ (depth = "material-design" => AddReady)
  BY DEF Stage, SelectionReady
<1>2. ASSUME depth = "material-design" PROVE AddReady /\ add.text = text /\ Design(add) \in vouched
  BY <1>1, <1>2, ReadyIsVouched DEF DesignInv
<1> QED
  BY <1>1, <1>2

LEMMA BundleStays ==
    ASSUME AuthoringTypes, AuthoringInv, NEW kid \in PlannedChildren, AuthorBundle(kid)
    PROVE  AuthoringTypes' /\ AuthoringInv'
<1>1. /\ UNCHANGED <<linkedAs, startedKid, projectDone, specLog, wishVars, snapshot, designVars, rebind, vouched, slice>>
      /\ Direct \notin Planned
  BY AuthoringAssumption DEF AuthorBundle, ExceptKids
<1>2. PICK d : bundles' = [bundles EXCEPT ![kid] = d] /\ d \in DesignRecord /\ (kid \in Planned => d \in vouched)
  <2>1. CASE kid \in Planned /\ handoffs[kid] # NoHandoff /\ bundles' = [bundles EXCEPT ![kid] = Design(handoffs[kid].of)]
    <3>1. Design(handoffs[kid].of) \in vouched
      BY <2>1 DEF AuthoringInv, DesignInv, HandoffsWell
    <3>2. handoffs[kid].of \in AddRecord
      BY <2>1 DEF AuthoringTypes, HandoffRecord
    <3>3. Design(handoffs[kid].of) \in DesignRecord
      BY <3>2 DEF AddRecord, Design, DesignRecord
    <3> QED
      BY <2>1, <3>1, <3>3
  <2>2. CASE kid = Direct /\ bundles' = [bundles EXCEPT ![kid] = [text |-> text, draft |-> 0]]
    <3>1. [text |-> text, draft |-> 0] \in DesignRecord
      BY DEF AuthoringTypes, DesignRecord
    <3> QED
      BY <1>1, <2>2, <3>1
  <2> QED
    BY <2>1, <2>2 DEF AuthorBundle
<1>3. bundles' \in [PlannedChildren -> DesignRecord]
  BY <1>2 DEF AuthoringTypes
<1>4. AuthoringTypes'
  BY <1>1, <1>3 DEF AuthoringTypes, wishVars, designVars
<1>5. ASSUME NEW k \in Planned, bundles'[k] # NoDesign PROVE bundles'[k] \in vouched
  <2>1. CASE k = kid
    BY <1>2, <2>1 DEF AuthoringTypes
  <2>2. CASE k # kid
    BY <1>2, <1>5, <2>2 DEF AuthoringTypes, AuthoringInv, KidsInv, PlannedChildren
  <2> QED
    BY <2>1, <2>2
<1>6. KidsInv'
  BY <1>1, <1>5 DEF AuthoringInv, KidsInv
<1> QED
  BY <1>1, <1>4, <1>6, KidsStay

\* A linked child has the design of its bundle.
LEMMA LinkStays ==
    ASSUME AuthoringTypes, AuthoringInv, MaterializeDirect \/ \E kid \in Planned : Materialize(kid)
    PROVE  AuthoringTypes' /\ AuthoringInv'
<1>1. UNCHANGED <<bundles, startedKid, projectDone, specLog, wishVars, snapshot, designVars, rebind, vouched, slice>>
  BY DEF MaterializeDirect, Materialize, ExceptKids
<1>2. PICK kid \in PlannedChildren, marker \in HandoffRecord :
          /\ linkedAs' = [linkedAs EXCEPT ![kid] = [design |-> bundles[kid], marker |-> marker]]
          /\ kid \in Planned => bundles[kid] # NoDesign
  <2>1. CASE MaterializeDirect
    BY <2>1, NothingAuthored, AuthoringAssumption DEF MaterializeDirect, PlannedChildren
  <2>2. ASSUME NEW k \in Planned, Materialize(k)
        PROVE  /\ linkedAs' = [linkedAs EXCEPT ![k] = [design |-> bundles[k], marker |-> handoffs[k]]]
               /\ bundles[k] # NoDesign /\ handoffs[k] \in HandoffRecord /\ k \in PlannedChildren
    BY <2>2 DEF Materialize, Authored, AuthoringTypes, PlannedChildren
  <2> QED
    BY <2>1, <2>2
<1>3. [design |-> bundles[kid], marker |-> marker] \in KidRecord
  BY DEF AuthoringTypes, KidRecord
<1>4. linkedAs' \in [PlannedChildren -> KidRecord] /\ \A k \in PlannedChildren \ {kid} : linkedAs'[k] = linkedAs[k]
  BY <1>2, <1>3 DEF AuthoringTypes
<1>5. AuthoringTypes'
  BY <1>1, <1>4 DEF AuthoringTypes, wishVars, designVars
<1>6. linkedAs'[kid].design = bundles[kid]
  BY <1>2, <1>3 DEF AuthoringTypes
<1>7. ASSUME NEW k \in Planned, linkedAs'[k] # NoKidIssue PROVE linkedAs'[k].design \in vouched
  <2>1. CASE k = kid
    BY <1>2, <1>6, <2>1 DEF AuthoringInv, KidsInv
  <2>2. CASE k # kid
    BY <1>4, <1>7, <2>2 DEF AuthoringInv, KidsInv, PlannedChildren
  <2> QED
    BY <2>1, <2>2
<1>8. ASSUME NEW k \in Planned, linkedAs[k] # NoKidIssue PROVE linkedAs'[k] # NoKidIssue
  <2>1. CASE k = kid
    <3>1. kid \in Planned /\ bundles[kid] # NoDesign
      BY <1>2, <2>1
    <3>2. NoKidIssue.design = NoDesign
      BY DEF NoKidIssue
    <3> QED
      BY <1>6, <2>1, <3>1, <3>2
  <2>2. CASE k # kid
    BY <1>4, <1>8, <2>2 DEF PlannedChildren
  <2> QED
    BY <2>1, <2>2
<1>9. \A n \in DOMAIN Plan : Plan[n] \in Planned
  BY DEF Planned
<1>10. KidsInv'
  BY <1>1, <1>7, <1>8, <1>9 DEF AuthoringInv, KidsInv
<1> QED
  BY <1>1, <1>5, <1>10, KidsStay

\* A child that starts in order has every one before it on main.
LEMMA StartStays ==
    ASSUME AuthoringTypes, AuthoringInv,
           (\E i \in DOMAIN Plan : StartInOrder(i)) \/ \E kid \in PlannedChildren : StartDirect(kid)
    PROVE  AuthoringTypes' /\ AuthoringInv'
<1>1. UNCHANGED <<bundles, linkedAs, projectDone, specLog, wishVars, snapshot, designVars, rebind, vouched, slice>>
  BY DEF StartInOrder, StartDirect, ExceptKids
<1>2. PICK kid \in PlannedChildren, alone \in BOOLEAN : startedKid' = [kid |-> kid, alone |-> alone]
  <2>1. ASSUME NEW i \in DOMAIN Plan, StartInOrder(i) PROVE Plan[i] \in PlannedChildren /\ startedKid' = [kid |-> Plan[i], alone |-> FALSE]
    BY <2>1 DEF StartInOrder, PlannedChildren, Planned
  <2>2. TRUE \in BOOLEAN /\ FALSE \in BOOLEAN
    OBVIOUS
  <2> QED
    BY <2>1, <2>2 DEF StartDirect
<1>3. AuthoringTypes'
  BY <1>1, <1>2 DEF AuthoringTypes, wishVars, designVars
<1>4. ASSUME NEW n \in DOMAIN Plan, startedKid' = [kid |-> Plan[n], alone |-> FALSE]
      PROVE  /\ linkedAs[Plan[n]] # NoKidIssue
             /\ \A m \in 1..(n - 1) : \E i \in DOMAIN specLog : specLog[i].by = Plan[m]
  <2>1. PICK i \in DOMAIN Plan : StartInOrder(i)
    <3>1. \A kid2 : startedKid' # [kid |-> kid2, alone |-> TRUE]
      BY <1>4
    <3> QED
      BY <3>1 DEF StartDirect
  <2>2. Plan[i] = Plan[n]
    BY <1>4, <2>1 DEF StartInOrder
  <2>3. i = n
    BY <2>2, AuthoringAssumption
  <2>4. Plan[n] \in Planned /\ \A k \in Planned : KidLinked(k)
    BY <2>1 DEF StartInOrder, RebindResumable, Planned
  <2>5. \A m \in 1..(n - 1) : MergedKid(Plan[m])
    BY <2>1, <2>3 DEF StartInOrder, KidDelivered
  <2> QED
    BY <2>4, <2>5 DEF KidLinked, MergedKid
<1>5. KidsInv'
  BY <1>1, <1>4 DEF AuthoringInv, KidsInv
<1> QED
  BY <1>1, <1>3, <1>5, KidsStay

LEMMA ReportKidStays ==
    ASSUME AuthoringTypes, AuthoringInv, NEW kid \in PlannedChildren, ReportKid(kid)
    PROVE  AuthoringTypes' /\ AuthoringInv'
<1>1. /\ UNCHANGED <<bundles, linkedAs, startedKid, specLog, wishVars, snapshot, designVars, rebind, vouched, slice>>
      /\ projectDone' = projectDone \cup {kid}
  BY DEF ReportKid, ExceptKids
<1>2. AuthoringTypes'
  BY <1>1 DEF AuthoringTypes, wishVars, designVars
<1>3. KidsInv'
  BY <1>1 DEF AuthoringInv, KidsInv
<1>4. projectDone \subseteq projectDone'
  BY <1>1
<1> QED
  BY <1>1, <1>2, <1>3, <1>4, KidsStay

\* main only grows, and a child brings what it has as its own.
LEMMA LandStays ==
    ASSUME AuthoringTypes, AuthoringInv,
           (\E kid \in PlannedChildren : MergeKid(kid)) \/ \E s \in Sources : MergeOther(s)
    PROVE  AuthoringTypes' /\ AuthoringInv'
<1>1. PICK commit \in CommitRecord : Land(commit) /\ (commit.by # Outsider => commit.deltas = Touches[commit.by])
  <2>1. ASSUME NEW kid \in PlannedChildren, MergeKid(kid)
        PROVE  \E commit \in CommitRecord : Land(commit) /\ commit.deltas = Touches[commit.by]
    <3>1. PICK stray \in slice.strays : Land([by |-> kid, deltas |-> Touches[kid], paths |-> Touches[kid] \cup stray])
      BY <2>1 DEF MergeKid
    <3>2. stray \subseteq Sources /\ Touches[kid] \subseteq Sources
      BY TouchesFacts, AuthoringAssumption DEF AuthoringTypes
    <3>3. [by |-> kid, deltas |-> Touches[kid], paths |-> Touches[kid] \cup stray] \in CommitRecord
      BY <3>2 DEF CommitRecord
    <3> QED
      BY <3>1, <3>3
  <2>2. ASSUME NEW s \in Sources, MergeOther(s)
        PROVE  \E commit \in CommitRecord : Land(commit) /\ commit.by = Outsider
    <3>1. [by |-> Outsider, deltas |-> {s}, paths |-> {s}] \in CommitRecord
      BY DEF CommitRecord
    <3> QED
      BY <2>2, <3>1 DEF MergeOther
  <2> QED
    BY <2>1, <2>2
<1>2. /\ UNCHANGED <<wishVars, snapshot, designVars, kidVars, rebind, vouched, slice>>
      /\ specLog' = Append(specLog, commit)
  BY <1>1 DEF Land
<1>3. /\ Len(specLog) \in Nat /\ specLog' \in Seq(CommitRecord) /\ Len(specLog') = Len(specLog) + 1
      /\ \A i \in 1..Len(specLog) : specLog'[i] = specLog[i]
      /\ specLog'[Len(specLog) + 1] = commit
  BY <1>2 DEF AuthoringTypes
<1>4. \A i \in 1..Len(specLog') : specLog'[i].by # Outsider => specLog'[i].deltas = Touches[specLog'[i].by]
  <2>1. \A i \in 1..Len(specLog) : specLog'[i].by # Outsider => specLog'[i].deltas = Touches[specLog'[i].by]
    BY <1>3 DEF AuthoringTypes
  <2> QED
    BY <1>1, <1>3, <2>1
<1>5. AuthoringTypes'
  BY <1>2, <1>3, <1>4 DEF AuthoringTypes, wishVars, designVars, kidVars
<1>6. /\ Len(specLog') \in Nat /\ Len(specLog) <= Len(specLog') /\ snapshot \in Shots /\ add.cited \in Shots
      /\ approval \in ApprovalRecord
  BY <1>3 DEF AuthoringTypes, AddRecord
<1>7. ExactIn(specLog', snapshot) /\ ExactIn(specLog', add.cited) /\ ApprovalWell(specLog', projectDone, vouched, approval)
  BY <1>3, <1>6, ExactGrows, ApprovalStays DEF AuthoringInv, DesignInv
<1>8. DesignInv'
  BY <1>2, <1>7 DEF AuthoringInv, DesignInv, wishVars, designVars, kidVars
<1>9. \A k : (\E i \in DOMAIN specLog : specLog[i].by = k) => \E i \in DOMAIN specLog' : specLog'[i].by = k
  <2>1. DOMAIN specLog = 1..Len(specLog) /\ DOMAIN specLog' = 1..(Len(specLog) + 1)
    BY <1>3 DEF AuthoringTypes
  <2>2. ASSUME NEW i \in DOMAIN specLog PROVE i \in DOMAIN specLog' /\ specLog'[i] = specLog[i]
    BY <1>3, <2>1, <2>2
  <2> QED
    BY <2>2, Zenon
<1>10. KidsInv'
  BY <1>2, <1>9 DEF AuthoringInv, KidsInv, kidVars
<1>11. ASSUME rebind.at # "none"
      PROVE  /\ rebind.head <= Len(specLog') /\ Checked(specLog', projectDone, rebind) /\ ExactIn(specLog', rebind.kept[1])
             /\ ApprovalWell(specLog', projectDone, vouched, rebind.kept[3])
  <2>1. /\ rebind.head <= Len(specLog) /\ Checked(specLog, projectDone, rebind) /\ rebind.kept[1] # NoSnapshot
        /\ ExactIn(specLog, rebind.kept[1]) /\ ApprovalWell(specLog, projectDone, vouched, rebind.kept[3])
    BY <1>11 DEF AuthoringInv, RebindInv
  <2>2. /\ rebind \in RebindRecord /\ rebind.head \in Nat /\ rebind.kept[1] \in Shots /\ rebind.kept[3] \in ApprovalRecord
    BY <1>11, RebindFacts DEF AuthoringTypes
  <2>3. rebind.head <= Len(specLog')
    BY <1>6, <2>1, <2>2, <1>3
  <2>4. Checked(specLog', projectDone, rebind)
    BY <1>3, <1>6, <2>1, <2>2, CheckedStays
  <2>5. ExactIn(specLog', rebind.kept[1])
    BY <1>3, <1>6, <2>1, <2>2, ExactGrows
  <2>6. ApprovalWell(specLog', projectDone, vouched, rebind.kept[3])
    BY <1>3, <1>6, <2>1, <2>2, ApprovalStays
  <2> QED
    BY <2>3, <2>4, <2>5, <2>6
<1>12. RebindInv'
  BY <1>2, <1>11 DEF AuthoringInv, RebindInv, wishVars, designVars, kidVars
<1> QED
  BY <1>5, <1>8, <1>10, <1>12 DEF AuthoringInv

-----------------------------------------------------------------------------
(* The gates before the children: the rebind. *)

LEMMA KidsFrame ==
    ASSUME KidsInv, UNCHANGED <<specLog, kidVars, vouched>>
    PROVE  KidsInv'
  BY DEF KidsInv, kidVars

\* What a rebind checks: whatever changed a source of an undelivered child since
\* its snapshot is an own change.
LEMMA BeginChecks ==
    ASSUME AuthoringTypes, AuthoringInv, BeginRebind, snapshot # NoSnapshot,
           NEW kid \in Authored \ projectDone, NEW s \in Touches[kid]
    PROVE  \A i \in ChangingIn(specLog, s, snapshot.seen[s].identity, LogEnd) : OwnIn(specLog, s, i)
<1>1. kid \in PlannedChildren /\ s \in Sources /\ s \in Affected
  BY TouchesFacts DEF Authored, Affected
<1>2. snapshot.seen[s].identity \in Nat /\ snapshot.rev \in Nat /\ LogEnd \in Nat
  BY <1>1, ShotFacts, IdentityFacts DEF AuthoringTypes
<1>3. PICK x : x = snapshot.seen[s].identity
  OBVIOUS
<1>4. ChangingIn(specLog, s, x, snapshot.rev) = {}
  BY <1>1, <1>3 DEF AuthoringInv, DesignInv, ExactIn
<1> SUFFICES ASSUME NEW i \in ChangingIn(specLog, s, x, LogEnd) PROVE OwnIn(specLog, s, i)
  BY <1>3
<1>5. i \in 1..Len(specLog) /\ i > x /\ s \in specLog[i].paths /\ i \in Int
  BY <1>2, <1>3 DEF ChangingIn, LogEnd
<1>6. i > snapshot.rev
  <2> SUFFICES ASSUME i <= snapshot.rev PROVE FALSE
    BY <1>2, <1>5
  <2>1. i \in ChangingIn(specLog, s, x, snapshot.rev)
    BY <1>2, <1>3, <1>5 DEF ChangingIn
  <2> QED
    BY <1>4, <2>1
<1>7. x # Identity(s)
  <2> SUFFICES ASSUME x = Identity(s) PROVE FALSE
    OBVIOUS
  <2>1. ChangingIn(specLog, s, Identity(s), LogEnd) = {}
    BY IdentityFacts
  <2> QED
    BY <2>1
<1>8. Explained(s)
  BY <1>1, <1>3, <1>7 DEF BeginRebind
<1>9. i \in Changing(s, snapshot.rev, LogEnd)
  BY <1>2, <1>5, <1>6 DEF Changing, LogEnd
<1>10. specLog[i].by \in projectDone /\ s \in specLog[i].deltas
  BY <1>1, <1>8, <1>9, Zenon DEF Explained, OwnCommit
<1>11. specLog[i].by # Outsider
  BY <1>10, AuthoringAssumption DEF AuthoringTypes
<1> QED
  BY <1>5, <1>10, <1>11 DEF AuthoringTypes, OwnIn

LEMMA BeginStays ==
    ASSUME AuthoringTypes, AuthoringInv, BeginRebind
    PROVE  AuthoringTypes' /\ AuthoringInv'
<1>1. /\ UNCHANGED <<specLog, wishVars, snapshot, designVars, kidVars, vouched, slice>>
      /\ rebind' = [at |-> "checked", head |-> LogEnd, known |-> Authored, kept |-> <<snapshot, add, approval, intents, handoffs>>]
      /\ Approved
  BY DEF BeginRebind
<1>2. snapshot # NoSnapshot
  BY DEF BeginRebind, StaleChain, Stage, SnapshotReady, HaveSnapshot
<1>3. /\ LogEnd \in Nat /\ LogEnd = Len(specLog) /\ Authored \subseteq PlannedChildren
      /\ <<snapshot, add, approval, intents, handoffs>>
             \in Shots \X AddRecord \X ApprovalRecord \X IntentRecord \X [Planned -> HandoffRecord]
  BY DEF AuthoringTypes, LogEnd, Authored
<1>4. rebind' \in RebindRecord
  BY <1>1, <1>3 DEF RebindRecord
<1>5. AuthoringTypes'
  BY <1>1, <1>4 DEF AuthoringTypes, wishVars, designVars, kidVars
<1>6. /\ rebind'.at = "checked" /\ rebind'.head = LogEnd /\ rebind'.known = Authored
      /\ rebind'.kept[1] = snapshot /\ rebind'.kept[2] = add /\ rebind'.kept[3] = approval
      /\ rebind'.kept[5] = handoffs
  BY <1>1
<1>7. Checked(specLog, projectDone, rebind')
  BY <1>2, <1>6, BeginChecks DEF Checked
<1>8. approval # NoApproval /\ approval.of = add
  BY <1>1 DEF Approved, ApprovalCurrent
<1>9. add.text = binding
  <2>1. add.draft > 0
    BY <1>8 DEF AuthoringInv, DesignInv, ApprovalWell
  <2>2. add # NoAdd
    BY <2>1 DEF NoAdd
  <2> QED
    BY <2>2 DEF AuthoringInv, DesignInv
<1>10. DesignInv' /\ KidsInv'
  BY <1>1, KidsFrame DEF AuthoringInv, DesignInv, wishVars, designVars, kidVars
<1>11. RebindInv'
  <2>1. rebind'.head <= Len(specLog)
    BY <1>3, <1>6
  <2>2. /\ ExactIn(specLog, snapshot) /\ ApprovalWell(specLog, projectDone, vouched, approval)
        /\ HandoffsWell(vouched, handoffs)
    BY DEF AuthoringInv, DesignInv
  <2> QED
    BY <1>1, <1>2, <1>6, <1>7, <1>8, <1>9, <2>1, <2>2 DEF RebindInv, wishVars, designVars, kidVars
<1> QED
  BY <1>5, <1>10, <1>11 DEF AuthoringInv

\* A step of a rebind keeps what it has looked at and what it can restore.
LEMMA RebindGoesOn ==
    ASSUME AuthoringTypes, AuthoringInv, rebind.at # "none", UNCHANGED <<specLog, wishVars, kidVars, vouched, slice>>,
           NEW step \in {"snapshot", "add", "carried", "handoffs", "written"}, RebindGoes(step),
           Design(add') = Design(add), step = "snapshot" => add' = rebind.kept[2],
           step = "add" => add'.cited = IF rebind.kept[2].cited # NoSnapshot THEN snapshot' ELSE NoSnapshot,
           snapshot' \in Shots, add' \in AddRecord, approval' \in ApprovalRecord, intents' \in IntentRecord,
           handoffs' \in [Planned -> HandoffRecord], DesignInv'
    PROVE  AuthoringTypes' /\ AuthoringInv'
<1>1. rebind \in RebindRecord
  BY RebindFacts DEF AuthoringTypes
<1>2. /\ rebind' \in RebindRecord /\ rebind'.at = step /\ rebind'.head = rebind.head /\ rebind'.known = rebind.known
      /\ rebind'.kept = rebind.kept
  BY <1>1 DEF RebindGoes, RebindRecord
<1>3. AuthoringTypes'
  BY <1>2 DEF AuthoringTypes, wishVars, kidVars
<1>4. Checked(specLog, projectDone, rebind')
  BY <1>2 DEF AuthoringInv, RebindInv, Checked
<1>5. RebindInv'
  BY <1>2, <1>4 DEF AuthoringInv, RebindInv, wishVars, kidVars
<1>6. KidsInv'
  BY KidsFrame DEF AuthoringInv
<1> QED
  BY <1>3, <1>5, <1>6 DEF AuthoringInv

LEMMA RebuildStays ==
    ASSUME AuthoringTypes, AuthoringInv, RebuildSnapshot
    PROVE  AuthoringTypes' /\ AuthoringInv'
<1>1. /\ rebind.at = "checked" /\ RebindGoes("snapshot") /\ UNCHANGED <<designVars, specLog, wishVars, kidVars, vouched, slice>>
      /\ snapshot' = [rev |-> LogEnd, seen |-> [s \in Sources |-> [identity |-> Identity(s), status |-> "fresh"]]]
  BY DEF RebuildSnapshot, RebindAt, ExceptRebind
<1>2. \A s \in Sources : [identity |-> Identity(s), status |-> "fresh"] \in SeenRecord
  BY IdentityFacts DEF SeenRecord
<1>3. snapshot' \in Shots /\ snapshot'.rev = LogEnd /\ \A s \in Sources : snapshot'.seen[s].identity = Identity(s)
  <2>1. LogEnd \in Nat
    BY DEF AuthoringTypes, LogEnd
  <2> QED
    BY <1>1, <1>2, <2>1 DEF Shots
<1>4. ExactIn(specLog, snapshot')
  BY <1>3, ExactNow
<1>5. DesignInv'
  BY <1>1, <1>4 DEF AuthoringInv, DesignInv, wishVars, designVars, kidVars
<1>6. add' = rebind.kept[2] /\ Design(add') = Design(add)
  BY <1>1 DEF AuthoringInv, RebindInv, designVars
<1>7. add' \in AddRecord /\ approval' \in ApprovalRecord /\ intents' \in IntentRecord /\ handoffs' \in [Planned -> HandoffRecord]
  BY <1>1 DEF AuthoringTypes, designVars
<1> QED
  BY <1>1, <1>3, <1>5, <1>6, <1>7, RebindGoesOn

LEMMA RewriteAddStays ==
    ASSUME AuthoringTypes, AuthoringInv, RewriteAdd
    PROVE  AuthoringTypes' /\ AuthoringInv'
<1>1. /\ rebind.at = "snapshot" /\ RebindGoes("add")
      /\ UNCHANGED <<snapshot, intents, handoffs, specLog, wishVars, kidVars, vouched, slice>>
      /\ approval' = NoApproval
  BY DEF RewriteAdd, RebindAt, ExceptRebind
<1>2. PICK cited : cited = IF add.cited # NoSnapshot THEN snapshot ELSE NoSnapshot
  OBVIOUS
<1>3. add' = [add EXCEPT !.prepared = rebind.head, !.cited = cited]
  BY <1>2 DEF RewriteAdd, Cites
<1>4. /\ add.text \in Nat /\ add.draft \in Nat /\ add.open \in BOOLEAN /\ add.prepared \in Nat /\ add.cited \in Shots
      /\ add \in AddRecord /\ cited \in Shots /\ rebind.head \in Nat
  BY <1>1, <1>2, RebindFacts, NothingAuthored DEF AuthoringTypes, AddRecord
<1>5. add' \in AddRecord /\ add'.text = add.text /\ add'.draft = add.draft /\ add'.cited = cited
  BY <1>3, <1>4, ZenonT(40) DEF AddRecord
<1>6. add = rebind.kept[2] /\ add.text = binding
  BY <1>1 DEF AuthoringInv, RebindInv
<1>7. ExactIn(specLog, add'.cited)
  BY <1>2, <1>5, EmptyFit DEF AuthoringInv, DesignInv
<1>8. DesignInv'
  BY <1>1, <1>5, <1>6, <1>7, EmptyFit DEF AuthoringInv, DesignInv, wishVars, kidVars
<1>9. Design(add') = Design(add)
  BY <1>5 DEF Design
<1>10. add'.cited = IF rebind.kept[2].cited # NoSnapshot THEN snapshot' ELSE NoSnapshot
  BY <1>1, <1>2, <1>5, <1>6
<1>11. snapshot' \in Shots /\ approval' \in ApprovalRecord /\ intents' \in IntentRecord /\ handoffs' \in [Planned -> HandoffRecord]
  BY <1>1, NothingAuthored DEF AuthoringTypes
<1> QED
  BY <1>1, <1>5, <1>8, <1>9, <1>10, <1>11, RebindGoesOn

\* From what the approval saw to what the old content cites the approval
\* answers, and from there to the head the check of the rebind.
LEMMA CarryVouches ==
    ASSUME AuthoringTypes, AuthoringInv, rebind.at = "add", ~rebind.kept[3].blind, rebind.kept[2].cited = rebind.kept[1],
           snapshot.rev = rebind.head, snapshot # NoSnapshot,
           NEW kid \in (rebind.kept[3].known \cap rebind.known) \ projectDone, NEW s \in Touches[kid]
    PROVE  /\ rebind.kept[3].seen[s].identity \in Nat
           /\ \A i \in ChangingIn(specLog, s, rebind.kept[3].seen[s].identity, snapshot.seen[s].identity) : OwnIn(specLog, s, i)
<1>1. /\ rebind.head \in Nat /\ rebind.known \subseteq PlannedChildren /\ rebind.kept[1] \in Shots
  BY RebindFacts DEF AuthoringTypes
<1>2. /\ rebind.kept[1] # NoSnapshot /\ rebind.kept[3].of.cited = rebind.kept[1] /\ Checked(specLog, projectDone, rebind)
      /\ Vouches(specLog, projectDone, rebind.kept[3])
  BY DEF AuthoringInv, RebindInv, ApprovalWell
<1>3. s \in Sources
  BY <1>1, TouchesFacts
<1>4. PICK a, b, c : a = rebind.kept[3].seen[s].identity /\ b = rebind.kept[1].seen[s].identity /\ c = snapshot.seen[s].identity
  OBVIOUS
<1>5. a \in Nat /\ \A i \in ChangingIn(specLog, s, a, b) : OwnIn(specLog, s, i)
  BY <1>2, <1>4 DEF Vouches
<1>6. \A i \in ChangingIn(specLog, s, b, rebind.head) : OwnIn(specLog, s, i)
  BY <1>2, <1>4 DEF Checked
<1>7. b \in Nat /\ c \in Nat
  BY <1>1, <1>2, <1>3, <1>4, ShotFacts DEF AuthoringTypes
<1>8. c <= rebind.head
  BY <1>3, <1>4 DEF AuthoringInv, DesignInv, ExactIn
<1>9. ASSUME NEW i \in ChangingIn(specLog, s, a, c) PROVE OwnIn(specLog, s, i)
  <2>1. i \in Int /\ i > a /\ i <= c /\ s \in specLog[i].paths
    BY <1>5, <1>7 DEF ChangingIn
  <2>2. CASE i <= b
    <3>1. i \in ChangingIn(specLog, s, a, b)
      BY <1>5, <1>7, <2>1, <2>2 DEF ChangingIn
    <3> QED
      BY <1>5, <3>1
  <2>3. CASE i > b
    <3>1. i \in ChangingIn(specLog, s, b, rebind.head)
      BY <1>1, <1>7, <1>8, <2>1, <2>3 DEF ChangingIn
    <3> QED
      BY <1>6, <3>1
  <2> QED
    BY <1>7, <2>1, <2>2, <2>3
<1> QED
  BY <1>4, <1>5, <1>9

LEMMA CarryStays ==
    ASSUME AuthoringTypes, AuthoringInv, CarryApproval
    PROVE  AuthoringTypes' /\ AuthoringInv'
<1>1. /\ rebind.at = "add" /\ RebindGoes("carried")
      /\ UNCHANGED <<snapshot, add, intents, handoffs, specLog, wishVars, kidVars, vouched, slice>>
  BY DEF CarryApproval, RebindAt, ExceptRebind
<1>2. PICK known : known = rebind.kept[3].known \cap rebind.known
  OBVIOUS
<1>3. PICK blind \in BOOLEAN :
          /\ blind = (rebind.kept[3].blind \/ rebind.kept[2].cited # rebind.kept[1] \/ snapshot.rev # rebind.head)
          /\ approval' = [of |-> add, seen |-> rebind.kept[3].seen, known |-> known, blind |-> blind]
  BY <1>2, Zenon DEF CarryApproval, Kept
<1>4. rebind.kept[3] \in ApprovalRecord /\ rebind.known \subseteq PlannedChildren
  BY <1>1, RebindFacts DEF AuthoringTypes
<1>5. approval' \in ApprovalRecord
  <2>1. rebind.kept[3].seen \in {<<>>} \cup [Sources -> SeenRecord] /\ known \in SUBSET PlannedChildren
    BY <1>2, <1>4 DEF ApprovalRecord
  <2>2. add \in AddRecord
    BY DEF AuthoringTypes
  <2> QED
    BY <1>3, <2>1, <2>2 DEF ApprovalRecord
<1>6. add.draft > 0 /\ Design(add) \in vouched
  <2>1. rebind.kept[3].of.draft > 0 /\ Design(rebind.kept[3].of) \in vouched /\ Design(add) = Design(rebind.kept[3].of)
    BY <1>1 DEF AuthoringInv, RebindInv, ApprovalWell
  <2>2. Design(add).draft = add.draft /\ Design(rebind.kept[3].of).draft = rebind.kept[3].of.draft
    BY DEF Design
  <2> QED
    BY <2>1, <2>2
<1>7. approval'.of = add /\ approval'.seen = rebind.kept[3].seen /\ approval'.known = known /\ approval'.blind = blind
  BY <1>3
<1>8. Vouches(specLog, projectDone, approval')
  <2> SUFFICES ASSUME ~blind, add.cited # NoSnapshot, NEW kid \in known \ projectDone, NEW s \in Touches[kid]
               PROVE  /\ rebind.kept[3].seen[s].identity \in Nat
                      /\ \A i \in ChangingIn(specLog, s, rebind.kept[3].seen[s].identity, add.cited.seen[s].identity) : OwnIn(specLog, s, i)
    BY <1>7 DEF Vouches
  <2>1. ~rebind.kept[3].blind /\ rebind.kept[2].cited = rebind.kept[1] /\ snapshot.rev = rebind.head
    BY <1>3, Zenon
  <2>2. add.cited = snapshot
    BY <1>1 DEF AuthoringInv, RebindInv
  <2> QED
    BY <1>1, <1>2, <2>1, <2>2, CarryVouches
<1>9. ApprovalWell(specLog, projectDone, vouched, approval')
  BY <1>6, <1>7, <1>8 DEF ApprovalWell, AuthoringInv, DesignInv
<1>10. DesignInv'
  BY <1>1, <1>9 DEF AuthoringInv, DesignInv, wishVars, kidVars
<1>11. /\ snapshot' \in Shots /\ add' \in AddRecord /\ intents' \in IntentRecord /\ handoffs' \in [Planned -> HandoffRecord]
       /\ Design(add') = Design(add)
  BY <1>1 DEF AuthoringTypes
<1> QED
  BY <1>1, <1>5, <1>10, <1>11, RebindGoesOn

LEMMA RewriteIntentsStays ==
    ASSUME AuthoringTypes, AuthoringInv, RewriteIntents
    PROVE  AuthoringTypes' /\ AuthoringInv'
<1>1. /\ rebind.at = "carried" /\ RebindGoes("handoffs") /\ intents' = [intents EXCEPT !.of = add]
      /\ UNCHANGED <<snapshot, add, approval, handoffs, specLog, wishVars, kidVars, vouched, slice>>
  BY DEF RewriteIntents, RebindAt, ExceptRebind
<1>2. /\ snapshot' \in Shots /\ add' \in AddRecord /\ approval' \in ApprovalRecord /\ handoffs' \in [Planned -> HandoffRecord]
      /\ Design(add') = Design(add)
  BY <1>1 DEF AuthoringTypes
<1>3. intents' \in IntentRecord
  BY <1>1 DEF AuthoringTypes, IntentRecord
<1>4. DesignInv'
  BY <1>1 DEF AuthoringInv, DesignInv, wishVars, kidVars
<1> QED
  BY <1>1, <1>2, <1>3, <1>4, RebindGoesOn

LEMMA RewriteHandoffsStays ==
    ASSUME AuthoringTypes, AuthoringInv, RewriteHandoffs
    PROVE  AuthoringTypes' /\ AuthoringInv'
<1>1. /\ rebind.at = "handoffs" /\ RebindGoes("written") /\ AddReady
      /\ handoffs' = [k \in Planned |-> IF handoffs[k] = NoHandoff THEN NoHandoff ELSE [of |-> add, intents |-> intents]]
      /\ UNCHANGED <<snapshot, add, approval, intents, specLog, wishVars, kidVars, vouched, slice>>
  BY DEF RewriteHandoffs, RebindAt, ExceptRebind, IntentsReady, IntentsValid
<1>2. Design(add) \in vouched
  BY <1>1, ReadyIsVouched DEF AuthoringInv
<1>3. /\ snapshot' \in Shots /\ add' \in AddRecord /\ approval' \in ApprovalRecord /\ intents' \in IntentRecord
      /\ Design(add') = Design(add)
  BY <1>1 DEF AuthoringTypes
<1>4. [of |-> add, intents |-> intents] \in HandoffRecord
  BY DEF AuthoringTypes, HandoffRecord
<1>5. handoffs' \in [Planned -> HandoffRecord]
  BY <1>1, <1>4, NothingAuthored
<1>6. HandoffsWell(vouched, handoffs')
  BY <1>1, <1>2 DEF HandoffsWell
<1>7. DesignInv'
  BY <1>1, <1>6 DEF AuthoringInv, DesignInv, wishVars, kidVars
<1> QED
  BY <1>1, <1>3, <1>5, <1>7, RebindGoesOn

\* It ends with what it wrote, with what there was before, or in between.
LEMMA RebindEnds ==
    ASSUME AuthoringTypes, AuthoringInv, ConfirmRebind \/ RollBackRebind \/ KillRebind
    PROVE  AuthoringTypes' /\ AuthoringInv'
<1>1. /\ UNCHANGED <<specLog, wishVars, kidVars, vouched, slice>> /\ rebind' = NotRebinding
      /\ \/ UNCHANGED <<snapshot, designVars>>
         \/ /\ rebind.at # "none"
            /\ snapshot' = rebind.kept[1] /\ add' = rebind.kept[2] /\ approval' = rebind.kept[3]
            /\ intents' = rebind.kept[4] /\ handoffs' = rebind.kept[5]
  BY DEF ConfirmRebind, RollBackRebind, KillRebind, ExceptRebind, RebindAt, Kept
<1>2. rebind'.at = "none" /\ rebind' \in {NotRebinding}
  BY <1>1, NothingAuthored
<1>3. KidsInv' /\ RebindInv'
  BY <1>1, <1>2, KidsFrame DEF AuthoringInv, RebindInv
<1>4. CASE UNCHANGED <<snapshot, designVars>>
  <2>1. AuthoringTypes'
    BY <1>1, <1>2, <1>4 DEF AuthoringTypes, wishVars, designVars, kidVars
  <2>2. DesignInv'
    BY <1>1, <1>4 DEF AuthoringInv, DesignInv, wishVars, designVars, kidVars
  <2> QED
    BY <1>3, <2>1, <2>2 DEF AuthoringInv
<1>5. ASSUME rebind.at # "none", snapshot' = rebind.kept[1], add' = rebind.kept[2], approval' = rebind.kept[3],
             intents' = rebind.kept[4], handoffs' = rebind.kept[5]
      PROVE  AuthoringTypes' /\ AuthoringInv'
  <2>1. /\ snapshot' \in Shots /\ add' \in AddRecord /\ approval' \in ApprovalRecord
        /\ intents' \in IntentRecord /\ handoffs' \in [Planned -> HandoffRecord]
    BY <1>5, RebindFacts DEF AuthoringTypes
  <2>2. AuthoringTypes'
    BY <1>1, <1>2, <2>1 DEF AuthoringTypes, wishVars, kidVars
  <2>3. /\ add'.text = binding /\ ExactIn(specLog, snapshot') /\ approval'.of = add'
        /\ ApprovalWell(specLog, projectDone, vouched, approval') /\ HandoffsWell(vouched, handoffs')
    BY <1>5 DEF AuthoringInv, RebindInv
  <2>4. ExactIn(specLog, add'.cited)
    BY <2>3 DEF ApprovalWell
  <2>5. DesignInv'
    BY <1>1, <2>3, <2>4 DEF AuthoringInv, DesignInv, wishVars, kidVars
  <2> QED
    BY <1>3, <2>2, <2>5 DEF AuthoringInv
<1> QED
  BY <1>1, <1>4, <1>5

-----------------------------------------------------------------------------
(* The gates before the children: the theorems. *)

LEMMA AuthoringStart ==
    ASSUME AuthoringInit
    PROVE  AuthoringTypes /\ AuthoringInv
<1>1. /\ specLog = <<>> /\ text = 1 /\ binding = 1 /\ depth = "none" /\ slice \in AuthoringBounds
      /\ snapshot = NoSnapshot /\ add = NoAdd /\ approval = NoApproval
      /\ intents = NoIntents /\ handoffs = [k \in Planned |-> NoHandoff]
      /\ bundles = [k \in PlannedChildren |-> NoDesign] /\ linkedAs = [k \in PlannedChildren |-> NoKidIssue]
      /\ startedKid = [kid |-> Outsider, alone |-> FALSE] /\ projectDone = {}
      /\ rebind = NotRebinding /\ vouched = {}
  BY DEF AuthoringInit
<1>2. specLog \in Seq(CommitRecord) /\ Len(specLog) = 0 /\ 1 \in Nat
  BY <1>1
<1>3. startedKid \in [kid : PlannedChildren \cup {Outsider}, alone : BOOLEAN]
  BY <1>1
<1>4. AuthoringTypes
  <2>1. handoffs \in [Planned -> HandoffRecord]
    BY <1>1, NothingAuthored
  <2>2. bundles \in [PlannedChildren -> DesignRecord]
    BY <1>1, NothingAuthored
  <2>3. linkedAs \in [PlannedChildren -> KidRecord]
    BY <1>1, NothingAuthored
  <2>4. snapshot \in Shots /\ add \in AddRecord /\ approval \in ApprovalRecord /\ intents \in IntentRecord
    BY <1>1, NothingAuthored
  <2>5. \A i \in 1..Len(specLog) : specLog[i].by # Outsider => specLog[i].deltas = Touches[specLog[i].by]
    BY <1>2
  <2> QED
    BY <1>1, <1>2, <1>3, <2>1, <2>2, <2>3, <2>4, <2>5 DEF AuthoringTypes
<1>5. DesignInv
  <2>1. binding <= text /\ ExactIn(specLog, add.cited)
    BY <1>1, EmptyFit, NothingAuthored
  <2> QED
    BY <1>1, <2>1, EmptyFit DEF DesignInv
<1>6. KidsInv
  <2>1. \A k \in Planned : bundles[k] = NoDesign /\ linkedAs[k] = NoKidIssue
    BY <1>1 DEF PlannedChildren
  <2>2. \A n \in DOMAIN Plan : Plan[n] # Outsider
    BY AuthoringAssumption DEF PlannedChildren, Planned
  <2>3. \A n \in DOMAIN Plan : startedKid # [kid |-> Plan[n], alone |-> FALSE]
    BY <1>1, <2>2
  <2> QED
    BY <2>1, <2>3 DEF KidsInv
<1>7. RebindInv
  BY <1>1, NothingAuthored DEF RebindInv
<1> QED
  BY <1>4, <1>5, <1>6, <1>7 DEF AuthoringInv

LEMMA AuthoringStays ==
    ASSUME AuthoringTypes, AuthoringInv, [AuthoringNext]_authoringVars
    PROVE  AuthoringTypes' /\ AuthoringInv'
<1>1. CASE UNCHANGED authoringVars
  <2>1. AuthoringTypes'
    BY <1>1 DEF AuthoringTypes, authoringVars, wishVars, designVars, kidVars
  <2>2. DesignInv'
    BY <1>1 DEF AuthoringInv, DesignInv, authoringVars, wishVars, designVars, kidVars
  <2>3. KidsInv'
    BY <1>1, KidsFrame DEF AuthoringInv, authoringVars
  <2>4. RebindInv'
    BY <1>1 DEF AuthoringInv, RebindInv, authoringVars, wishVars, designVars, kidVars
  <2> QED
    BY <2>1, <2>2, <2>3, <2>4 DEF AuthoringInv
<1>2. CASE WriteText \/ BindText \/ \E chosen \in Depths : SelectDepth(chosen)
  BY <1>2, WishStays
<1>3. CASE \E supplied \in SUBSET Sources : BuildSnapshot(supplied)
  BY <1>3, SnapshotStays
<1>4. CASE WriteDraft \/ CiteAgain \/ RecordDecision
  BY <1>4, DraftStays
<1>5. CASE Approve
  BY <1>5, ApproveStays
<1>6. CASE Decompose \/ \E kid \in Planned : PrepareHandoff(kid)
  BY <1>6, HandoffStays
<1>7. CASE MaterializeDirect \/ \E kid \in Planned : Materialize(kid)
  BY <1>7, LinkStays
<1>8. CASE BeginRebind
  BY <1>8, BeginStays
<1>9. CASE RebindStep
  BY <1>9, RebuildStays, RewriteAddStays, CarryStays, RewriteIntentsStays, RewriteHandoffsStays, RebindEnds DEF RebindStep
<1>10. CASE (\E i \in DOMAIN Plan : StartInOrder(i)) \/ \E kid \in PlannedChildren : StartDirect(kid)
  BY <1>10, StartStays
<1>11. CASE \E kid \in PlannedChildren : AuthorBundle(kid)
  BY <1>11, BundleStays
<1>12. CASE \E kid \in PlannedChildren : ReportKid(kid)
  BY <1>12, ReportKidStays
<1>13. CASE (\E kid \in PlannedChildren : MergeKid(kid)) \/ \E s \in Sources : MergeOther(s)
  BY <1>13, LandStays
<1> QED
  BY <1>1, <1>2, <1>3, <1>4, <1>5, <1>6, <1>7, <1>8, <1>9, <1>10, <1>11, <1>12, <1>13 DEF AuthoringNext

LEMMA AuthoringHolds == AuthoringSpec => [](AuthoringTypes /\ AuthoringInv)
<1>1. AuthoringInit => AuthoringTypes /\ AuthoringInv
  BY AuthoringStart
<1>2. (AuthoringTypes /\ AuthoringInv) /\ [AuthoringNext]_authoringVars => (AuthoringTypes /\ AuthoringInv)'
  BY AuthoringStays
<1> QED
  BY <1>1, <1>2, PTL DEF AuthoringSpec

\* A complete chain is about the text that is bound and has a design that a
\* person approved as it is; a child that was started in order was materialized
\* from such a design, and every one before it is on main.
THEOREM CompleteChainsAreVouched == AuthoringSpec => []CompleteIsVouched
<1>1. ASSUME AuthoringTypes, AuthoringInv PROVE CompleteIsVouched
  <2>1. Stage = "complete" /\ depth = "material-design" => add.text = text /\ Design(add) \in vouched
    BY <1>1, CompleteFacts DEF AuthoringInv
  <2>2. ASSUME NEW n \in DOMAIN Plan, startedKid = [kid |-> Plan[n], alone |-> FALSE]
        PROVE  linkedAs[Plan[n]].design \in vouched /\ \A j \in 1..(n - 1) : MergedKid(Plan[j])
    <3>1. Plan[n] \in Planned
      BY DEF Planned
    <3> QED
      BY <1>1, <2>2, <3>1 DEF AuthoringInv, KidsInv, MergedKid
  <2> QED
    BY <2>1, <2>2 DEF CompleteIsVouched
<1> QED
  BY <1>1, AuthoringHolds, PTL

\* Since a person approved the design, the specs that the remaining children
\* change were changed only by own children, unless some commits were looked at
\* by nobody.
THEOREM CarriedOverOwnChanges == AuthoringSpec => []CarriedOverOwnOnly
<1>1. ASSUME AuthoringTypes, AuthoringInv PROVE CarriedOverOwnOnly
  <2> SUFFICES ASSUME ~approval.blind, Stage = "complete", depth = "material-design", Cites,
                      NEW kid \in approval.known \ projectDone, NEW s \in Touches[kid],
                      NEW i \in Changing(s, approval.seen[s].identity, snapshot.seen[s].identity)
               PROVE  specLog[i].by # Outsider /\ s \in Touches[specLog[i].by]
    BY DEF CarriedOverOwnOnly, OnlyOwnSince
  <2>1. AddReady
    BY <1>1, CompleteFacts DEF AuthoringInv
  <2>2. approval.of = add /\ snapshot = add.cited /\ add.cited # NoSnapshot
    BY <2>1 DEF AddReady, Approved, ApprovalCurrent, EvidenceHolds, Cites
  <2>3. Vouches(specLog, projectDone, approval)
    BY <1>1 DEF AuthoringInv, DesignInv, ApprovalWell
  <2>4. i \in ChangingIn(specLog, s, approval.seen[s].identity, approval.of.cited.seen[s].identity)
    BY <2>2 DEF Changing, ChangingIn
  <2> QED
    BY <2>2, <2>3, <2>4 DEF Vouches, OwnIn
<1> QED
  BY <1>1, AuthoringHolds, PTL

-----------------------------------------------------------------------------
(* The numbers of the children: the invariant. *)

Writing == {"claiming", "childChecked", "claimed", "checked", "written", "parentReadBack"}
ClaimDone == Writing \ {"claiming"}
View(l) == Assigned(linker[l].seen, linker[l].claims)

\* A run that is not over has its host, and from the allocation on its number
\* is that of its child and of no other one in what it has read.
Hosted == \A l \in Linkers : linker[l].at # "idle" => hostLock[HostOf[l]] = l
Allocated ==
    \A l \in Linkers :
        /\ linker[l].at \in Writing => linker[l].number # 0 /\ \A p \in View(l) : p[1] = linker[l].kid <=> p[2] = linker[l].number
        /\ linker[l].at \in ClaimDone => linker[l].claims[linker[l].kid] = linker[l].number

\* The claim of a child stays, for nobody is about to write another one; or the
\* reservation stays, for nobody is about to write a body without it.
ClaimStays(j, n) ==
    /\ claim[j] = n
    /\ \A l \in Linkers : linker[l].at = "childChecked" /\ linker[l].kid = j => linker[l].number = n
ReservationStays(j, n) ==
    /\ <<j, n>> \in parent.reserved
    /\ \A l \in Linkers : linker[l].at = "checked" => <<j, n>> \in View(l)
Settled(j, n) == ClaimStays(j, n) \/ ReservationStays(j, n)

\* A reported number is settled, and so is one whose run has written the parent,
\* as long as the child claims it; if another child has that number, its
\* claim stays.
NumbersInv ==
    /\ \A j \in Kids : reported[j] # 0 => Settled(j, reported[j])
    /\ \A l \in Linkers : linker[l].at \in {"written", "parentReadBack"} =>
           /\ claim[linker[l].kid] = linker[l].number => Settled(linker[l].kid, linker[l].number)
           /\ \A j \in Kids \ {linker[l].kid} : reported[j] = linker[l].number => ClaimStays(j, reported[j])

IdentityInv == Hosted /\ Allocated /\ NumbersInv /\ NumbersDiffer

-----------------------------------------------------------------------------
(* The numbers of the children: types. *)

LinkerRecord ==
    [at : LinkStep, kid : Kids, seen : ParentBody, claims : [Kids -> {0} \cup Number], number : {0} \cup Number]

LEMMA NumberFacts == Number \subseteq Nat /\ 0 \notin Number
  BY DEF Number

LEMMA BodyFacts ==
    ASSUME NEW body \in ParentBody
    PROVE  body.list \subseteq Kids /\ body.reserved \subseteq Kids \X Number /\ body.edits \in 0..MaxEdits
  BY DEF ParentBody

LEMMA RunFacts ==
    ASSUME IdentityTypeOK, NEW l \in Linkers
    PROVE  /\ linker[l] \in LinkerRecord /\ linker[l].at \in LinkStep /\ linker[l].kid \in Kids
           /\ linker[l].seen \in ParentBody /\ linker[l].claims \in [Kids -> {0} \cup Number]
           /\ linker[l].number \in {0} \cup Number
<1>1. linker[l] \in LinkerRecord
  BY DEF IdentityTypeOK, LinkerRecord
<1> QED
  BY <1>1 DEF LinkerRecord

LEMMA AssignedFacts ==
    ASSUME NEW body \in ParentBody, NEW claims \in [Kids -> {0} \cup Number]
    PROVE  /\ Assigned(body, claims) \subseteq Kids \X Number /\ body.reserved \subseteq Assigned(body, claims)
           /\ \A k \in Kids : claims[k] # 0 => <<k, claims[k]>> \in Assigned(body, claims)
<1>1. \A k \in Kids : claims[k] # 0 => claims[k] \in Number
  OBVIOUS
<1> QED
  BY <1>1, BodyFacts DEF Assigned

LEMMA IdleFacts ==
    /\ \A k : IdleLinker(k).at = "idle" /\ IdleLinker(k).number = 0
    /\ IdleLinker(CHOOSE k \in Kids : TRUE) \in LinkerRecord
    /\ NoBodySeen \in ParentBody /\ NoClaims \in [Kids -> {0} \cup Number]
<1>1. (CHOOSE k \in Kids : TRUE) \in Kids
  BY IdentityAssumption
<1>2. NoBodySeen \in ParentBody
  BY IdentityAssumption DEF NoBodySeen, ParentBody
<1>3. NoClaims \in [Kids -> {0} \cup Number]
  BY DEF NoClaims
<1>4. \A k : IdleLinker(k).at = "idle" /\ IdleLinker(k).number = 0
  BY DEF IdleLinker
<1>5. ASSUME NEW k \in Kids PROVE IdleLinker(k) \in LinkerRecord
  BY <1>2, <1>3 DEF IdleLinker, LinkerRecord, LinkStep
<1> QED
  BY <1>1, <1>2, <1>3, <1>4, <1>5

\* What one run does to the records of all runs.
LEMMA UpdateFacts ==
    ASSUME IdentityTypeOK, NEW l \in Linkers, NEW record, Update(l, record)
    PROVE  /\ linker'[l] = record /\ \A m \in Linkers \ {l} : linker'[m] = linker[m]
           /\ record \in LinkerRecord => linker' \in [Linkers -> LinkerRecord]
  BY DEF Update, IdentityTypeOK, LinkerRecord

\* What a run keeps until it is over.
Same(l) ==
    /\ linker'[l].kid = linker[l].kid /\ linker'[l].number = linker[l].number
    /\ linker'[l].seen = linker[l].seen /\ linker'[l].claims = linker[l].claims
GoesTo(l, from, to) == linker[l].at = from /\ linker'[l].at = to
OnlyLinkers == UNCHANGED <<parent, claim, hostLock, reported>>

Starts(l) ==
    /\ GoesTo(l, "idle", "locked") /\ hostLock[HostOf[l]] = NoLinker
    /\ hostLock' = [hostLock EXCEPT ![HostOf[l]] = l] /\ UNCHANGED <<parent, claim, reported>>
Looks(l) == linker'[l].at \in {"parentRead", "allocating"} /\ linker[l].at # "idle" /\ OnlyLinkers
GetsNumber(l) ==
    /\ GoesTo(l, "allocating", "claiming") /\ Consistent(View(l)) /\ linker'[l].number \in Number
    /\ linker'[l].number = NumberFor(linker[l].kid, View(l))
    /\ linker'[l].kid = linker[l].kid /\ linker'[l].seen = linker[l].seen /\ linker'[l].claims = linker[l].claims
    /\ OnlyLinkers
LooksAtChild(l) ==
    /\ GoesTo(l, "claiming", "childChecked") /\ claim[linker[l].kid] = linker[l].claims[linker[l].kid]
    /\ linker'[l].kid = linker[l].kid /\ linker'[l].number = linker[l].number /\ linker'[l].seen = linker[l].seen
    /\ linker'[l].claims = [linker[l].claims EXCEPT ![linker[l].kid] = linker[l].number]
    /\ OnlyLinkers
Claims(l) ==
    /\ GoesTo(l, "childChecked", "claimed") /\ Same(l)
    /\ claim' = [claim EXCEPT ![linker[l].kid] = linker[l].number] /\ UNCHANGED <<parent, hostLock, reported>>
LooksAtParent(l) == GoesTo(l, "claimed", "checked") /\ Same(l) /\ parent = linker[l].seen /\ OnlyLinkers
Reserves(l) ==
    /\ GoesTo(l, "checked", "written") /\ Same(l) /\ parent'.reserved = View(l)
    /\ UNCHANGED <<claim, hostLock, reported>>
LooksBack(l) == GoesTo(l, "written", "parentReadBack") /\ Same(l) /\ OnlyLinkers
Reports(l) ==
    /\ linker[l].at = "parentReadBack" /\ ReadBackOK(l)
    /\ reported' = [reported EXCEPT ![linker[l].kid] = linker[l].number]
Ends(l) ==
    /\ linker[l].at # "idle" /\ linker'[l].at = "idle" /\ UNCHANGED <<parent, claim>>
    /\ hostLock' = [h \in Hosts |-> IF hostLock[h] = l THEN NoLinker ELSE hostLock[h]]
    /\ reported' = reported \/ Reports(l)
Moves(l) ==
    \/ Starts(l) \/ Looks(l) \/ GetsNumber(l) \/ LooksAtChild(l) \/ Claims(l) \/ LooksAtParent(l)
    \/ Reserves(l) \/ LooksBack(l) \/ Ends(l)

LEMMA LinkerMoves ==
    ASSUME IdentityTypeOK, NEW l \in Linkers, LinkerStep(l)
    PROVE  /\ linker' \in [Linkers -> LinkerRecord] /\ \A m \in Linkers \ {l} : linker'[m] = linker[m]
           /\ Moves(l)
<1>1. /\ linker[l] \in LinkerRecord /\ linker[l].kid \in Kids /\ linker[l].seen \in ParentBody
      /\ linker[l].claims \in [Kids -> {0} \cup Number] /\ linker[l].number \in {0} \cup Number
  BY RunFacts
<1>2. CASE LockHost(l)
  <2>1. PICK k \in Kids : Update(l, [linker[l] EXCEPT !.at = "locked", !.kid = k])
    BY <1>2 DEF LockHost
  <2>2. [linker[l] EXCEPT !.at = "locked", !.kid = k] \in LinkerRecord
    BY <1>1 DEF LinkerRecord, LinkStep
  <2>3. [linker[l] EXCEPT !.at = "locked", !.kid = k].at = "locked"
    BY <1>1 DEF LinkerRecord
  <2> QED
    BY <1>2, <2>1, <2>2, <2>3, UpdateFacts DEF LockHost, LinkerAt, Moves, Starts, GoesTo
<1>3. CASE ReadParent(l)
  <2>1. Update(l, [linker[l] EXCEPT !.at = "parentRead", !.seen = parent]) /\ parent \in ParentBody
    BY <1>3 DEF ReadParent, LinkerReads, IdentityTypeOK
  <2>2. [linker[l] EXCEPT !.at = "parentRead", !.seen = parent] \in LinkerRecord
    BY <1>1, <2>1 DEF LinkerRecord, LinkStep
  <2>3. [linker[l] EXCEPT !.at = "parentRead", !.seen = parent].at = "parentRead"
    BY <1>1 DEF LinkerRecord
  <2> QED
    BY <1>3, <2>1, <2>2, <2>3, UpdateFacts DEF ReadParent, LinkerReads, LinkerAt, Moves, Looks, OnlyLinkers
<1>4. CASE ReadClaims(l)
  <2>1. Update(l, [linker[l] EXCEPT !.at = "allocating", !.claims = claim]) /\ claim \in [Kids -> {0} \cup Number]
    BY <1>4 DEF ReadClaims, LinkerReads, IdentityTypeOK
  <2>2. [linker[l] EXCEPT !.at = "allocating", !.claims = claim] \in LinkerRecord
    BY <1>1, <2>1 DEF LinkerRecord, LinkStep
  <2>3. [linker[l] EXCEPT !.at = "allocating", !.claims = claim].at = "allocating"
    BY <1>1 DEF LinkerRecord
  <2> QED
    BY <1>4, <2>1, <2>2, <2>3, UpdateFacts DEF ReadClaims, LinkerReads, LinkerAt, Moves, Looks, OnlyLinkers
<1>5. CASE Allocate(l)
  <2>1. PICK number : number = NumberFor(linker[l].kid, View(l))
    OBVIOUS
  <2>2. /\ linker[l].at = "allocating" /\ Consistent(View(l)) /\ number \in Number
        /\ Update(l, [linker[l] EXCEPT !.at = "claiming", !.number = number]) /\ OnlyLinkers
    BY <1>5, <2>1 DEF Allocate, View, LinkerReads, LinkerAt, OnlyLinkers
  <2>3. [linker[l] EXCEPT !.at = "claiming", !.number = number] \in LinkerRecord
    BY <1>1, <2>2 DEF LinkerRecord, LinkStep
  <2>4. /\ linker'[l] = [linker[l] EXCEPT !.at = "claiming", !.number = number]
        /\ linker' \in [Linkers -> LinkerRecord] /\ \A m \in Linkers \ {l} : linker'[m] = linker[m]
    BY <2>2, <2>3, UpdateFacts
  <2>5. /\ linker'[l].at = "claiming" /\ linker'[l].number = number /\ linker'[l].kid = linker[l].kid
        /\ linker'[l].seen = linker[l].seen /\ linker'[l].claims = linker[l].claims
    BY <1>1, <2>4 DEF LinkerRecord
  <2> QED
    BY <2>1, <2>2, <2>4, <2>5 DEF Moves, GetsNumber, GoesTo
<1>6. CASE CheckChild(l)
  <2>1. PICK claims : claims = [linker[l].claims EXCEPT ![linker[l].kid] = linker[l].number]
    OBVIOUS
  <2>2. /\ linker[l].at = "claiming" /\ claim[linker[l].kid] = linker[l].claims[linker[l].kid]
        /\ Update(l, [linker[l] EXCEPT !.at = "childChecked", !.claims = claims]) /\ OnlyLinkers
    BY <1>6, <2>1 DEF CheckChild, LinkerReads, LinkerAt, OnlyLinkers
  <2>3. claims \in [Kids -> {0} \cup Number]
    BY <1>1, <2>1
  <2>4. [linker[l] EXCEPT !.at = "childChecked", !.claims = claims] \in LinkerRecord
    BY <1>1, <2>3 DEF LinkerRecord, LinkStep
  <2>5. /\ linker'[l] = [linker[l] EXCEPT !.at = "childChecked", !.claims = claims]
        /\ linker' \in [Linkers -> LinkerRecord] /\ \A m \in Linkers \ {l} : linker'[m] = linker[m]
    BY <2>2, <2>4, UpdateFacts
  <2>6. /\ linker'[l].at = "childChecked" /\ linker'[l].number = linker[l].number /\ linker'[l].kid = linker[l].kid
        /\ linker'[l].seen = linker[l].seen /\ linker'[l].claims = claims
    BY <1>1, <2>5 DEF LinkerRecord
  <2> QED
    BY <2>1, <2>2, <2>5, <2>6 DEF Moves, LooksAtChild, GoesTo
<1>7. ASSUME NEW step \in LinkStep, Update(l, [linker[l] EXCEPT !.at = step])
      PROVE  /\ linker' \in [Linkers -> LinkerRecord] /\ \A m \in Linkers \ {l} : linker'[m] = linker[m]
             /\ linker'[l].at = step /\ Same(l)
  <2>1. [linker[l] EXCEPT !.at = step] \in LinkerRecord
    BY <1>1 DEF LinkerRecord
  <2>2. linker'[l] = [linker[l] EXCEPT !.at = step]
    BY <1>7, UpdateFacts
  <2>3. linker'[l].at = step /\ Same(l)
    BY <1>1, <2>2 DEF LinkerRecord, Same
  <2> QED
    BY <1>7, <2>1, <2>3, UpdateFacts
<1>8. CASE ClaimNumber(l)
  <2>1. "claimed" \in LinkStep /\ Update(l, [linker[l] EXCEPT !.at = "claimed"])
    BY <1>8 DEF ClaimNumber, LinkStep
  <2> QED
    BY <1>7, <1>8, <2>1 DEF ClaimNumber, LinkerAt, Moves, Claims, GoesTo
<1>9. CASE CheckParent(l)
  <2>1. "checked" \in LinkStep /\ Update(l, [linker[l] EXCEPT !.at = "checked"])
    BY <1>9 DEF CheckParent, LinkerReads, LinkStep
  <2> QED
    BY <1>7, <1>9, <2>1 DEF CheckParent, LinkerReads, LinkerAt, Moves, LooksAtParent, GoesTo, OnlyLinkers
<1>10. CASE WriteParent(l)
  <2>1. "written" \in LinkStep /\ Update(l, [linker[l] EXCEPT !.at = "written"])
    BY <1>10 DEF WriteParent, LinkStep
  <2>2. parent'.reserved = View(l)
    BY <1>1, <1>10 DEF WriteParent, NewParent, ParentBody, View
  <2> QED
    BY <1>7, <1>10, <2>1, <2>2 DEF WriteParent, LinkerAt, Moves, Reserves, GoesTo
<1>11. CASE ReadParentBack(l)
  <2>1. "parentReadBack" \in LinkStep /\ Update(l, [linker[l] EXCEPT !.at = "parentReadBack"])
    BY <1>11 DEF ReadParentBack, LinkerReads, LinkStep
  <2> QED
    BY <1>7, <1>11, <2>1 DEF ReadParentBack, LinkerReads, LinkerAt, Moves, LooksBack, GoesTo, OnlyLinkers
<1>12. CASE Linked(l) \/ GiveUp(l)
  <2>1. /\ Release(l) /\ linker[l].at # "idle" /\ UNCHANGED <<parent, claim>> /\ (reported' = reported \/ Reports(l))
    BY <1>12 DEF Linked, GiveUp, LinkerAt, Reports
  <2>2. /\ linker' \in [Linkers -> LinkerRecord] /\ \A m \in Linkers \ {l} : linker'[m] = linker[m]
        /\ linker'[l].at = "idle"
    BY <2>1, UpdateFacts, IdleFacts DEF Release
  <2> QED
    BY <2>1, <2>2 DEF Release, Moves, Ends
<1> QED
  BY <1>2, <1>3, <1>4, <1>5, <1>6, <1>8, <1>9, <1>10, <1>11, <1>12 DEF LinkerStep

\* A person edits the parent, or takes an unreported claim back.
LEMMA PeopleMove ==
    ASSUME IdentityTypeOK, EditParent \/ \E k \in Kids : RepairClaim(k)
    PROVE  /\ UNCHANGED <<hostLock, linker, reported, runs>> /\ parent' \in ParentBody /\ claim' \in [Kids -> {0} \cup Number]
           /\ \A j \in Kids : \/ reported[j] = 0 /\ claim'[j] = 0
                              \/ /\ claim'[j] = claim[j]
                                 /\ \A n : <<j, n>> \in parent.reserved => <<j, n>> \in parent'.reserved
<1>1. /\ parent \in ParentBody /\ parent.list \subseteq Kids /\ parent.reserved \subseteq Kids \X Number /\ parent.edits \in 0..MaxEdits
      /\ claim \in [Kids -> {0} \cup Number]
  BY BodyFacts DEF IdentityTypeOK
<1>2. CASE EditParent
  <2>1. /\ UNCHANGED <<claim, hostLock, linker, reported, runs>> /\ parent.edits < MaxEdits
        /\ parent' = [parent EXCEPT !.edits = @ + 1]
    BY <1>2 DEF EditParent
  <2>2. parent.edits + 1 \in 0..MaxEdits
    BY <1>1, <2>1, IdentityAssumption
  <2>3. parent' \in ParentBody /\ parent'.reserved = parent.reserved
    BY <1>1, <2>1, <2>2 DEF ParentBody
  <2> QED
    BY <1>1, <2>1, <2>3
<1>3. ASSUME NEW k \in Kids, RepairClaim(k)
      PROVE  /\ UNCHANGED <<hostLock, linker, reported, runs>> /\ parent' \in ParentBody /\ claim' \in [Kids -> {0} \cup Number]
             /\ \A j \in Kids : \/ reported[j] = 0 /\ claim'[j] = 0
                                \/ /\ claim'[j] = claim[j]
                                   /\ \A n : <<j, n>> \in parent.reserved => <<j, n>> \in parent'.reserved
  <2>1. PICK rest : rest = parent.reserved \ ({k} \X Number)
    OBVIOUS
  <2>2. /\ UNCHANGED <<hostLock, linker, reported, runs>> /\ claim' = [claim EXCEPT ![k] = 0] /\ reported[k] = 0
        /\ parent' = [parent EXCEPT !.reserved = rest]
    BY <1>3, <2>1 DEF RepairClaim
  <2>3. rest \subseteq Kids \X Number /\ \A j \in Kids \ {k} : \A n : <<j, n>> \in parent.reserved => <<j, n>> \in rest
    BY <1>1, <2>1
  <2>4. parent' \in ParentBody /\ parent'.reserved = rest
    BY <1>1, <2>2, <2>3 DEF ParentBody
  <2>5. claim'[k] = 0 /\ \A j \in Kids \ {k} : claim'[j] = claim[j]
    BY <1>1, <2>2
  <2>6. claim' \in [Kids -> {0} \cup Number]
    BY <1>1, <2>2
  <2> QED
    BY <2>2, <2>3, <2>4, <2>5, <2>6
<1> QED
  BY <1>2, <1>3

LEMMA IdentityTypesStay ==
    ASSUME IdentityTypeOK, [IdentityNext]_identityVars
    PROVE  IdentityTypeOK'
<1>1. CASE UNCHANGED identityVars
  BY <1>1 DEF IdentityTypeOK, identityVars
<1>2. CASE EditParent \/ \E k \in Kids : RepairClaim(k)
  BY <1>2, PeopleMove DEF IdentityTypeOK
<1>3. ASSUME NEW l \in Linkers, LinkerStep(l) PROVE IdentityTypeOK'
  <2>1. linker' \in [Linkers -> LinkerRecord]
    BY <1>3, LinkerMoves
  <2>2. /\ parent \in ParentBody /\ parent.list \subseteq Kids /\ parent.reserved \subseteq Kids \X Number
        /\ claim \in [Kids -> {0} \cup Number] /\ linker[l].kid \in Kids /\ linker[l].number \in {0} \cup Number
        /\ linker[l].seen \in ParentBody /\ linker[l].claims \in [Kids -> {0} \cup Number]
        /\ linker[l].seen.list \subseteq Kids /\ linker[l].seen.edits \in 0..MaxEdits
    BY <1>3, RunFacts, BodyFacts DEF IdentityTypeOK
  <2>3. NewParent(l) \in ParentBody
    <3>1. PICK list, reserved : list = linker[l].seen.list \cup {linker[l].kid} /\ reserved = Assigned(linker[l].seen, linker[l].claims)
      OBVIOUS
    <3>2. list \subseteq Kids /\ reserved \subseteq Kids \X Number
      BY <2>2, <3>1, AssignedFacts
    <3>3. NewParent(l) = [linker[l].seen EXCEPT !.list = list, !.reserved = reserved]
      BY <3>1 DEF NewParent
    <3> QED
      BY <2>2, <3>2, <3>3, ZenonT(40) DEF ParentBody
  <2>4. parent' \in ParentBody
    BY <1>3, <2>2, <2>3 DEF LinkerStep, LockHost, ReadParent, ReadClaims, Allocate, CheckChild, ClaimNumber, CheckParent,
       WriteParent, ReadParentBack, Linked, GiveUp, LinkerReads
  <2>5. claim' \in [Kids -> {0} \cup Number]
    <3>1. claim' = claim \/ claim' = [claim EXCEPT ![linker[l].kid] = linker[l].number]
      BY <1>3, LinkerMoves DEF Moves, Starts, Looks, GetsNumber, LooksAtChild, Claims, LooksAtParent, Reserves, LooksBack, Ends, OnlyLinkers
    <3> QED
      BY <2>2, <3>1
  <2>6. reported' \in [Kids -> {0} \cup Number]
    <3>1. reported' = reported \/ reported' = [reported EXCEPT ![linker[l].kid] = linker[l].number]
      BY <1>3, LinkerMoves DEF Moves, Starts, Looks, GetsNumber, LooksAtChild, Claims, LooksAtParent, Reserves, LooksBack, Ends, OnlyLinkers, Reports
    <3> QED
      BY <2>2, <3>1 DEF IdentityTypeOK
  <2>7. hostLock' \in [Hosts -> Linkers \cup {NoLinker}]
    <3>1. \/ hostLock' = hostLock \/ hostLock' = [hostLock EXCEPT ![HostOf[l]] = l]
          \/ hostLock' = [h \in Hosts |-> IF hostLock[h] = l THEN NoLinker ELSE hostLock[h]]
      BY <1>3, LinkerMoves DEF Moves, Starts, Looks, GetsNumber, LooksAtChild, Claims, LooksAtParent, Reserves, LooksBack, Ends, OnlyLinkers
    <3>2. hostLock \in [Hosts -> Linkers \cup {NoLinker}]
      BY DEF IdentityTypeOK
    <3> QED
      BY <3>1, <3>2
  <2>8. runs' \in 0..MaxRuns
    <3>1. runs' = runs \/ (runs < MaxRuns /\ runs' = runs + 1)
      BY <1>3 DEF LinkerStep, LockHost, ReadParent, ReadClaims, Allocate, CheckChild, ClaimNumber, CheckParent,
         WriteParent, ReadParentBack, Linked, GiveUp, LinkerReads
    <3> QED
      BY <3>1, IdentityAssumption DEF IdentityTypeOK
  <2> QED
    BY <2>1, <2>4, <2>5, <2>6, <2>7, <2>8 DEF IdentityTypeOK, LinkerRecord
<1> QED
  BY <1>1, <1>2, <1>3 DEF IdentityNext

-----------------------------------------------------------------------------
(* The numbers of the children: hosts and numbers. *)

LEMMA HostedStays ==
    ASSUME IdentityTypeOK, Hosted, NEW l \in Linkers, LinkerStep(l)
    PROVE  Hosted'
<1>1. /\ \A m \in Linkers \ {l} : linker'[m] = linker[m]
      /\ Moves(l)
  BY LinkerMoves
<1>2. /\ HostOf[l] \in Hosts /\ \A m \in Linkers : HostOf[m] \in Hosts /\ m # NoLinker
      /\ hostLock \in [Hosts -> Linkers \cup {NoLinker}]
  BY IdentityAssumption DEF IdentityTypeOK
<1> SUFFICES ASSUME NEW m \in Linkers, linker'[m].at # "idle"
             PROVE  hostLock'[HostOf[m]] = m
  BY DEF Hosted
<1>3. CASE Starts(l)
  <2>1. CASE m = l
    BY <1>2, <1>3, <2>1 DEF Starts
  <2>2. CASE m # l
    <3>1. hostLock[HostOf[m]] = m
      BY <1>1, <2>2 DEF Hosted
    <3>2. HostOf[m] # HostOf[l]
      BY <1>2, <1>3, <3>1 DEF Starts
    <3> QED
      BY <1>2, <1>3, <3>1, <3>2 DEF Starts
  <2> QED
    BY <2>1, <2>2
<1>4. CASE Ends(l)
  <2>1. m # l /\ hostLock[HostOf[m]] = m
    BY <1>1, <1>4 DEF Ends, Hosted
  <2> QED
    BY <1>2, <1>4, <2>1 DEF Ends
<1>5. CASE Looks(l) \/ GetsNumber(l) \/ LooksAtChild(l) \/ Claims(l) \/ LooksAtParent(l) \/ Reserves(l) \/ LooksBack(l)
  <2>1. hostLock' = hostLock /\ linker[l].at # "idle"
    BY <1>5 DEF Looks, GetsNumber, LooksAtChild, Claims, LooksAtParent, Reserves, LooksBack, GoesTo, OnlyLinkers
  <2>2. linker[m].at # "idle"
    BY <1>1, <2>1
  <2> QED
    BY <2>1, <2>2 DEF Hosted
<1> QED
  BY <1>1, <1>3, <1>4, <1>5 DEF Moves

TwoMachines == \E a, b : Hosts \subseteq {a, b}

\* On two machines there are at most two runs at a time.
LEMMA AtMostTwo ==
    ASSUME Hosted, TwoMachines, NEW l \in Linkers, NEW m \in Linkers, NEW k \in Linkers,
           linker[l].at # "idle", linker[m].at # "idle", linker[k].at # "idle", l # m
    PROVE  k = l \/ k = m
<1>1. PICK a, b : Hosts \subseteq {a, b}
  BY DEF TwoMachines
<1>2. HostOf[l] \in {a, b} /\ HostOf[m] \in {a, b} /\ HostOf[k] \in {a, b}
  BY <1>1, IdentityAssumption
<1>3. hostLock[HostOf[l]] = l /\ hostLock[HostOf[m]] = m /\ hostLock[HostOf[k]] = k
  BY DEF Hosted
<1> QED
  BY <1>2, <1>3

\* The next number is above every number there is.
LEMMA NextFacts ==
    ASSUME NEW pairs, pairs \subseteq Kids \X Number
    PROVE  \A p \in pairs : p[2] # NextNumber(pairs)
<1>1. PICK S : S = {p[2] : p \in pairs} \cup {0}
  OBVIOUS
<1>2. S \subseteq Nat /\ 0 \in S /\ MaxNumber \in Nat /\ \A n \in S : n <= MaxNumber
  BY <1>1, IdentityAssumption DEF Number
<1>3. PICK m \in S : \A n \in S : m >= n
  BY <1>2, GreatestNatural
<1>4. Max(S) \in S /\ \A n \in S : Max(S) >= n
  BY <1>3 DEF Max
<1>5. PICK x : x = Max(S)
  OBVIOUS
<1>6. x \in Nat /\ \A p \in pairs : p[2] \in Nat /\ x >= p[2]
  BY <1>1, <1>2, <1>4, <1>5
<1>7. \A p \in pairs : p[2] # x + 1
  BY <1>6
<1> QED
  BY <1>1, <1>5, <1>7 DEF NextNumber

LEMMA NumberForFacts ==
    ASSUME NEW pairs, pairs \subseteq Kids \X Number, Consistent(pairs), NEW k
    PROVE  \A p \in pairs : p[1] = k <=> p[2] = NumberFor(k, pairs)
<1>1. CASE \E p \in pairs : p[1] = k
  <2>1. PICK q : q = CHOOSE p \in pairs : p[1] = k
    OBVIOUS
  <2>2. q \in pairs /\ q[1] = k
    BY <1>1, <2>1
  <2>3. NumberFor(k, pairs) = q[2]
    BY <1>1, <2>1 DEF NumberFor
  <2> QED
    BY <2>2, <2>3 DEF Consistent
<1>2. CASE ~\E p \in pairs : p[1] = k
  <2>1. NumberFor(k, pairs) = NextNumber(pairs)
    BY <1>2 DEF NumberFor
  <2> QED
    BY <1>2, <2>1, NextFacts
<1> QED
  BY <1>1, <1>2

LEMMA AllocatedStays ==
    ASSUME IdentityTypeOK, Allocated, NEW l \in Linkers, LinkerStep(l)
    PROVE  Allocated'
<1>1. /\ \A m \in Linkers \ {l} : linker'[m] = linker[m]
      /\ Moves(l)
  BY LinkerMoves
<1>2. /\ linker[l].kid \in Kids /\ linker[l].seen \in ParentBody /\ linker[l].claims \in [Kids -> {0} \cup Number]
      /\ linker[l].number \in {0} \cup Number
  BY RunFacts
<1>3. /\ linker'[l].at \in Writing => linker'[l].number # 0 /\ \A p \in View(l)' : p[1] = linker'[l].kid <=> p[2] = linker'[l].number
      /\ linker'[l].at \in ClaimDone => linker'[l].claims[linker'[l].kid] = linker'[l].number
  <2>1. CASE Starts(l) \/ Looks(l) \/ Ends(l)
    BY <2>1 DEF Starts, Looks, Ends, GoesTo, Writing, ClaimDone
  <2>2. CASE GetsNumber(l)
    <3>1. View(l)' = View(l) /\ View(l) \subseteq Kids \X Number
      BY <1>2, <2>2, AssignedFacts DEF GetsNumber, View, Assigned
    <3>2. linker'[l].number # 0 /\ linker'[l].at \notin ClaimDone
      BY <2>2, NumberFacts DEF GetsNumber, GoesTo, ClaimDone, Writing
    <3> QED
      BY <2>2, <3>1, <3>2, NumberForFacts DEF GetsNumber
  <2>3. CASE LooksAtChild(l)
    <3>1. linker[l].number # 0 /\ \A p \in View(l) : p[1] = linker[l].kid <=> p[2] = linker[l].number
      BY <2>3 DEF LooksAtChild, GoesTo, Allocated, Writing
    <3>2. linker'[l].claims[linker[l].kid] = linker[l].number /\ \A k \in Kids \ {linker[l].kid} : linker'[l].claims[k] = linker[l].claims[k]
      BY <1>2, <2>3 DEF LooksAtChild
    <3>3. linker'[l].kid = linker[l].kid /\ linker'[l].number = linker[l].number /\ linker'[l].seen = linker[l].seen
      BY <2>3 DEF LooksAtChild
    <3>4. ASSUME NEW p \in View(l)' PROVE p[1] = linker[l].kid <=> p[2] = linker[l].number
      <4>1. \/ p \in linker[l].seen.reserved
            \/ \E k \in Kids : linker'[l].claims[k] # 0 /\ p = <<k, linker'[l].claims[k]>>
        BY <3>3 DEF View, Assigned
      <4>2. CASE p \in linker[l].seen.reserved
        BY <3>1, <4>2 DEF View, Assigned
      <4>3. ASSUME NEW k \in Kids, linker'[l].claims[k] # 0, p = <<k, linker'[l].claims[k]>>
            PROVE  p[1] = linker[l].kid <=> p[2] = linker[l].number
        <5>1. CASE k = linker[l].kid
          BY <3>2, <4>3, <5>1
        <5>2. CASE k # linker[l].kid
          <6>1. p \in View(l)
            BY <1>2, <3>2, <4>3, <5>2, AssignedFacts DEF View
          <6> QED
            BY <3>1, <6>1
        <5> QED
          BY <5>1, <5>2
      <4> QED
        BY <4>1, <4>2, <4>3
    <3> QED
      BY <3>1, <3>2, <3>3, <3>4
  <2>4. CASE Claims(l) \/ LooksAtParent(l) \/ Reserves(l) \/ LooksBack(l)
    <3>1. Same(l) /\ linker[l].at \in ClaimDone /\ linker[l].at \in Writing
      BY <2>4 DEF Claims, LooksAtParent, Reserves, LooksBack, GoesTo, ClaimDone, Writing
    <3>2. View(l)' = View(l)
      BY <3>1 DEF Same, View, Assigned
    <3> QED
      BY <3>1, <3>2 DEF Same, Allocated
  <2> QED
    BY <1>1, <2>1, <2>2, <2>3, <2>4 DEF Moves
<1>4. ASSUME NEW m \in Linkers \ {l}
      PROVE  /\ linker'[m].at \in Writing => linker'[m].number # 0 /\ \A p \in View(m)' : p[1] = linker'[m].kid <=> p[2] = linker'[m].number
             /\ linker'[m].at \in ClaimDone => linker'[m].claims[linker'[m].kid] = linker'[m].number
  <2>1. linker'[m] = linker[m] /\ View(m)' = View(m)
    BY <1>1 DEF View, Assigned
  <2> QED
    BY <2>1 DEF Allocated
<1> QED
  BY <1>3, <1>4 DEF Allocated

-----------------------------------------------------------------------------
(* The numbers of the children: what is settled stays settled. *)

LEMMA ClaimStaysOn ==
    ASSUME IdentityTypeOK, Allocated, NEW l \in Linkers, LinkerStep(l), NEW j \in Kids, NEW n, n # 0, ClaimStays(j, n)
    PROVE  ClaimStays(j, n)'
<1>1. /\ \A m \in Linkers \ {l} : linker'[m] = linker[m]
      /\ Moves(l)
  BY LinkerMoves
<1>2. /\ linker[l].kid \in Kids /\ linker[l].seen \in ParentBody /\ linker[l].claims \in [Kids -> {0} \cup Number]
      /\ claim \in [Kids -> {0} \cup Number]
  BY RunFacts DEF IdentityTypeOK
<1>3. claim[j] = n /\ \A m \in Linkers : linker[m].at = "childChecked" /\ linker[m].kid = j => linker[m].number = n
  BY DEF ClaimStays
<1>4. claim'[j] = n
  <2>1. CASE Claims(l)
    <3>1. claim' = [claim EXCEPT ![linker[l].kid] = linker[l].number] /\ linker[l].at = "childChecked"
      BY <2>1 DEF Claims, GoesTo
    <3>2. CASE linker[l].kid = j
      BY <1>2, <1>3, <3>1, <3>2
    <3>3. CASE linker[l].kid # j
      BY <1>2, <1>3, <3>1, <3>3
    <3> QED
      BY <3>2, <3>3
  <2>2. CASE ~Claims(l)
    <3>1. claim' = claim
      BY <1>1, <2>2 DEF Moves, Starts, Looks, GetsNumber, LooksAtChild, LooksAtParent, Reserves, LooksBack, Ends, OnlyLinkers
    <3> QED
      BY <1>3, <3>1
  <2> QED
    BY <2>1, <2>2
<1>5. ASSUME linker'[l].at = "childChecked", linker'[l].kid = j PROVE linker'[l].number = n
  <2>1. LooksAtChild(l)
    BY <1>1, <1>5 DEF Moves, Starts, Looks, GetsNumber, Claims, LooksAtParent, Reserves, LooksBack, Ends, GoesTo
  <2>2. /\ linker[l].at = "claiming" /\ linker[l].kid = j /\ linker'[l].number = linker[l].number
        /\ linker[l].claims[j] = n
    BY <1>3, <1>5, <2>1 DEF LooksAtChild, GoesTo
  <2>3. <<j, n>> \in View(l)
    BY <1>2, <2>2, AssignedFacts DEF View
  <2>4. \A p \in View(l) : p[1] = linker[l].kid <=> p[2] = linker[l].number
    BY <2>2 DEF Allocated, Writing
  <2> QED
    BY <2>2, <2>3, <2>4
<1> QED
  BY <1>1, <1>3, <1>4, <1>5 DEF ClaimStays

LEMMA ReservationStaysOn ==
    ASSUME IdentityTypeOK, NEW l \in Linkers, LinkerStep(l), NEW j \in Kids, NEW n, ReservationStays(j, n)
    PROVE  ReservationStays(j, n)'
<1>1. /\ \A m \in Linkers \ {l} : linker'[m] = linker[m]
      /\ Moves(l)
  BY LinkerMoves
<1>2. linker[l].seen \in ParentBody /\ linker[l].claims \in [Kids -> {0} \cup Number]
  BY RunFacts
<1>3. <<j, n>> \in parent.reserved /\ \A m \in Linkers : linker[m].at = "checked" => <<j, n>> \in View(m)
  BY DEF ReservationStays
<1>4. <<j, n>> \in parent'.reserved
  <2>1. CASE Reserves(l)
    BY <1>3, <2>1 DEF Reserves, GoesTo
  <2>2. CASE ~Reserves(l)
    BY <1>1, <1>3, <2>2 DEF Moves, Starts, Looks, GetsNumber, LooksAtChild, Claims, LooksAtParent, LooksBack, Ends, OnlyLinkers
  <2> QED
    BY <2>1, <2>2
<1>5. ASSUME linker'[l].at = "checked" PROVE <<j, n>> \in View(l)'
  <2>1. LooksAtParent(l)
    BY <1>1, <1>5 DEF Moves, Starts, Looks, GetsNumber, LooksAtChild, Claims, Reserves, LooksBack, Ends, GoesTo
  <2>2. View(l)' = View(l) /\ parent = linker[l].seen
    BY <2>1 DEF LooksAtParent, Same, View, Assigned
  <2> QED
    BY <1>2, <1>3, <2>2, AssignedFacts DEF View
<1>6. ASSUME NEW m \in Linkers \ {l}, linker'[m].at = "checked" PROVE <<j, n>> \in View(m)'
  <2>1. linker'[m] = linker[m]
    BY <1>1
  <2>2. View(m)' = View(m)
    BY <2>1 DEF View, Assigned
  <2> QED
    BY <1>3, <1>6, <2>1, <2>2
<1> QED
  BY <1>4, <1>5, <1>6 DEF ReservationStays

LEMMA SettledOn ==
    ASSUME IdentityTypeOK, Allocated, NEW l \in Linkers, LinkerStep(l), NEW j \in Kids, NEW n, n # 0, Settled(j, n)
    PROVE  Settled(j, n)'
  BY ClaimStaysOn, ReservationStaysOn DEF Settled

\* A person unsettles only a claim that was not reported, and it is gone then.
LEMMA PeopleUnsettle ==
    ASSUME IdentityTypeOK, EditParent \/ \E k \in Kids : RepairClaim(k), NEW j \in Kids, NEW n
    PROVE  \/ reported[j] = 0 /\ claim'[j] = 0
           \/ /\ claim'[j] = claim[j]
              /\ ClaimStays(j, n) => ClaimStays(j, n)'
              /\ Settled(j, n) => Settled(j, n)'
<1>1. /\ linker' = linker
      /\ \/ reported[j] = 0 /\ claim'[j] = 0
         \/ /\ claim'[j] = claim[j]
            /\ <<j, n>> \in parent.reserved => <<j, n>> \in parent'.reserved
  BY PeopleMove
<1>2. \A m \in Linkers : View(m)' = View(m)
  BY <1>1 DEF View, Assigned
<1>3. claim'[j] = claim[j] => (ClaimStays(j, n) => ClaimStays(j, n)')
  BY <1>1 DEF ClaimStays
<1>4. (<<j, n>> \in parent.reserved => <<j, n>> \in parent'.reserved) => (ReservationStays(j, n) => ReservationStays(j, n)')
  BY <1>1, <1>2 DEF ReservationStays
<1> QED
  BY <1>1, <1>3, <1>4 DEF Settled

\* A run that has written the parent, and what reading back shows of the claims.
LEMMA WrittenFacts ==
    ASSUME IdentityTypeOK, Allocated, NEW l \in Linkers, linker[l].at \in {"checked", "written", "parentReadBack"}
    PROVE  /\ linker[l].kid \in Kids /\ linker[l].number # 0 /\ <<linker[l].kid, linker[l].number>> \in View(l)
           /\ \A p \in View(l) : p[1] = linker[l].kid <=> p[2] = linker[l].number
<1>1. /\ linker[l].kid \in Kids /\ linker[l].seen \in ParentBody /\ linker[l].claims \in [Kids -> {0} \cup Number]
  BY RunFacts
<1>2. linker[l].at \in Writing /\ linker[l].at \in ClaimDone
  BY DEF Writing, ClaimDone
<1>3. /\ linker[l].number # 0 /\ \A p \in View(l) : p[1] = linker[l].kid <=> p[2] = linker[l].number
      /\ linker[l].claims[linker[l].kid] = linker[l].number
  BY <1>2 DEF Allocated
<1>4. <<linker[l].kid, linker[l].number>> \in View(l)
  BY <1>1, <1>3, AssignedFacts DEF View
<1> QED
  BY <1>1, <1>3, <1>4

LEMMA ReadBackFacts ==
    ASSUME IdentityTypeOK, Allocated, NEW l \in Linkers, Reports(l)
    PROVE  /\ claim[linker[l].kid] = linker[l].number
           /\ \A j \in Kids \ {linker[l].kid} : claim[j] # linker[l].number
<1>1. linker[l].at = "parentReadBack" /\ ReadBackOK(l)
  BY DEF Reports
<1>2. /\ linker[l].kid \in Kids /\ linker[l].number # 0 /\ <<linker[l].kid, linker[l].number>> \in View(l)
      /\ linker[l].seen \in ParentBody /\ claim \in [Kids -> {0} \cup Number]
  BY <1>1, WrittenFacts, RunFacts DEF IdentityTypeOK
<1>3. NewParent(l).reserved = View(l)
  BY <1>2 DEF NewParent, ParentBody, View
<1>4. claim[linker[l].kid] = linker[l].number
  BY <1>1, <1>2, <1>3 DEF ReadBackOK, ReservationsClaimed
<1>5. ASSUME NEW j \in Kids \ {linker[l].kid}, claim[j] = linker[l].number PROVE FALSE
  <2>1. <<j, linker[l].number>> \in Assigned(NewParent(l), claim) /\ <<linker[l].kid, linker[l].number>> \in Assigned(NewParent(l), claim)
    BY <1>2, <1>4, <1>5 DEF Assigned
  <2>2. Consistent(Assigned(NewParent(l), claim))
    BY <1>1 DEF ReadBackOK
  <2> QED
    BY <1>5, <2>1, <2>2 DEF Consistent
<1> QED
  BY <1>4, <1>5

-----------------------------------------------------------------------------
(* The numbers of the children: the steps. *)

LEMMA ReportedSettledStays ==
    ASSUME IdentityTypeOK, Allocated, NumbersInv, NEW l \in Linkers, LinkerStep(l), NEW j \in Kids, reported'[j] # 0
    PROVE  Settled(j, reported[j])'
<1>1. Moves(l) /\ linker[l].kid \in Kids /\ reported \in [Kids -> {0} \cup Number]
  BY LinkerMoves, RunFacts DEF IdentityTypeOK
<1>2. PICK n : n = reported'[j]
  OBVIOUS
<1>3. Settled(j, n)
  <2>1. CASE reported'[j] = reported[j]
    BY <1>2, <2>1 DEF NumbersInv
  <2>2. CASE reported'[j] # reported[j]
    <3>1. Reports(l)
      BY <1>1, <2>2 DEF Moves, Starts, Looks, GetsNumber, LooksAtChild, Claims, LooksAtParent, Reserves, LooksBack, Ends, OnlyLinkers
    <3>2. linker[l].at = "parentReadBack" /\ j = linker[l].kid /\ n = linker[l].number
      BY <1>1, <1>2, <2>2, <3>1 DEF Reports
    <3> QED
      BY <3>1, <3>2, ReadBackFacts DEF NumbersInv
  <2> QED
    BY <2>1, <2>2
<1>4. Settled(j, n)'
  BY <1>2, <1>3, SettledOn
<1> QED
  BY <1>2, <1>4 DEF Settled, ClaimStays, ReservationStays

LEMMA WrittenSettledStays ==
    ASSUME IdentityTypeOK, TwoMachines, Hosted, Allocated, NumbersInv, NEW l \in Linkers, LinkerStep(l),
           NEW m \in Linkers, linker'[m].at \in {"written", "parentReadBack"}, claim'[linker'[m].kid] = linker'[m].number
    PROVE  Settled(linker[m].kid, linker[m].number)'
<1>1. /\ \A q \in Linkers \ {l} : linker'[q] = linker[q]
      /\ Moves(l)
  BY LinkerMoves
<1>2. /\ linker[m].at \in {"checked", "written", "parentReadBack"}
      /\ linker'[m].kid = linker[m].kid /\ linker'[m].number = linker[m].number
      /\ m # l => linker[m].at \in {"written", "parentReadBack"}
  BY <1>1 DEF Moves, Starts, Looks, GetsNumber, LooksAtChild, Claims, LooksAtParent, Reserves, LooksBack, Ends, GoesTo, Same
<1>3. PICK k, n : k = linker[m].kid /\ n = linker[m].number
  OBVIOUS
<1>4. k \in Kids /\ n # 0 /\ <<k, n>> \in View(m) /\ claim'[k] = n
  BY <1>2, <1>3, WrittenFacts
<1>5. Settled(k, n)'
  <2>1. CASE linker[m].at \in {"written", "parentReadBack"} /\ claim[k] = n
    <3>1. Settled(k, n)
      BY <1>3, <2>1 DEF NumbersInv
    <3> QED
      BY <1>4, <3>1, SettledOn
  \* Another run claims the number for the same child: nobody else is about to claim.
  <2>2. CASE linker[m].at \in {"written", "parentReadBack"} /\ claim[k] # n
    <3>1. Claims(l)
      BY <1>1, <1>4, <2>2 DEF Moves, Starts, Looks, GetsNumber, LooksAtChild, LooksAtParent, Reserves, LooksBack, Ends, OnlyLinkers
    <3>2. linker[l].at = "childChecked" /\ linker'[l].at = "claimed" /\ m # l
      BY <2>2, <3>1 DEF Claims, GoesTo
    <3>3. ASSUME NEW q \in Linkers, linker'[q].at = "childChecked" PROVE FALSE
      <4>1. q # l /\ linker[q].at = "childChecked"
        BY <1>1, <3>2, <3>3
      <4>2. q = m
        BY <2>2, <3>2, <4>1, AtMostTwo
      <4> QED
        BY <2>2, <4>1, <4>2
    <3> QED
      BY <1>4, <3>3 DEF Settled, ClaimStays
  \* The run writes the parent: its claim is safe, or a run that is about to
  \* claim another number is the only other one, and the reservation is.
  <2>3. CASE linker[m].at = "checked"
    <3>1. m = l /\ Reserves(l)
      BY <1>1, <1>2, <2>3 DEF Moves, Starts, Looks, GetsNumber, LooksAtChild, Claims, LooksAtParent, LooksBack, Ends, GoesTo
    <3>2. linker'[l].at = "written" /\ parent'.reserved = View(l)
      BY <3>1 DEF Reserves, GoesTo
    <3>3. CASE \A q \in Linkers : linker'[q].at = "childChecked" /\ linker'[q].kid = k => linker'[q].number = n
      BY <1>4, <3>3 DEF Settled, ClaimStays
    <3>4. ASSUME NEW q \in Linkers, linker'[q].at = "childChecked" PROVE Settled(k, n)'
      <4>1. q # l /\ linker[q].at = "childChecked"
        BY <1>1, <3>2, <3>4
      <4>2. ASSUME NEW r \in Linkers, linker'[r].at = "checked" PROVE FALSE
        <5>1. r # l /\ linker[r].at = "checked"
          BY <1>1, <3>2, <4>2
        <5>2. r = q
          BY <2>3, <3>1, <4>1, <5>1, AtMostTwo
        <5> QED
          BY <4>1, <5>1, <5>2
      <4>3. <<k, n>> \in parent'.reserved
        BY <1>4, <3>1, <3>2
      <4> QED
        BY <4>2, <4>3 DEF Settled, ReservationStays
    <3> QED
      BY <3>3, <3>4
  <2> QED
    BY <1>2, <2>1, <2>2, <2>3
<1> QED
  BY <1>2, <1>3, <1>5 DEF Settled, ClaimStays, ReservationStays

LEMMA WrittenApartStays ==
    ASSUME IdentityTypeOK, TwoMachines, Hosted, Allocated, NumbersInv, NEW l \in Linkers, LinkerStep(l),
           NEW m \in Linkers, linker'[m].at \in {"written", "parentReadBack"},
           NEW j \in Kids, j # linker'[m].kid, reported'[j] = linker'[m].number
    PROVE  ClaimStays(j, reported[j])'
<1>1. /\ \A q \in Linkers \ {l} : linker'[q] = linker[q]
      /\ Moves(l)
  BY LinkerMoves
<1>2. /\ linker[m].at \in {"checked", "written", "parentReadBack"}
      /\ linker'[m].kid = linker[m].kid /\ linker'[m].number = linker[m].number
      /\ linker[m].at = "checked" => m = l
      /\ m = l => reported' = reported
  BY <1>1 DEF Moves, Starts, Looks, GetsNumber, LooksAtChild, Claims, LooksAtParent, Reserves, LooksBack, Ends, GoesTo, Same, OnlyLinkers
<1>3. PICK n : n = linker[m].number
  OBVIOUS
<1>4. n # 0 /\ j # linker[m].kid /\ reported'[j] = n /\ \A p \in View(m) : p[1] = linker[m].kid <=> p[2] = n
  BY <1>2, <1>3, WrittenFacts
<1>5. ClaimStays(j, n)'
  <2>1. CASE linker[m].at \in {"written", "parentReadBack"} /\ reported[j] = n
    <3>1. ClaimStays(j, n)
      BY <1>3, <1>4, <2>1 DEF NumbersInv
    <3> QED
      BY <1>4, <3>1, ClaimStaysOn
  \* Another run reports the number for the other child: its claim was just
  \* read, and nobody else is about to claim.
  <2>2. CASE linker[m].at \in {"written", "parentReadBack"} /\ reported[j] # n
    <3>1. Ends(l) /\ Reports(l) /\ m # l
      BY <1>1, <1>2, <1>4, <2>2 DEF Moves, Starts, Looks, GetsNumber, LooksAtChild, Claims, LooksAtParent, Reserves, LooksBack, Ends, OnlyLinkers
    <3>2. j = linker[l].kid /\ n = linker[l].number
      <4>1. reported' = [reported EXCEPT ![linker[l].kid] = linker[l].number] /\ reported \in [Kids -> {0} \cup Number]
        BY <3>1 DEF Reports, IdentityTypeOK
      <4> QED
        BY <1>4, <2>2, <4>1
    <3>3. claim'[j] = n
      BY <3>1, <3>2, ReadBackFacts DEF Ends
    <3>4. ASSUME NEW q \in Linkers, linker'[q].at = "childChecked" PROVE FALSE
      <4>1. q # l /\ linker[q].at = "childChecked" /\ linker[l].at # "idle"
        BY <1>1, <3>1, <3>4 DEF Ends
      <4>2. q = m
        BY <2>2, <3>1, <4>1, AtMostTwo
      <4> QED
        BY <2>2, <4>1, <4>2
    <3> QED
      BY <3>3, <3>4 DEF ClaimStays
  <2>3. CASE linker[m].at = "checked"
    <3>1. reported[j] = n
      BY <1>2, <1>4, <2>3
    <3>2. ~ReservationStays(j, n)
      BY <1>4, <2>3 DEF ReservationStays
    <3>3. ClaimStays(j, n)
      BY <1>4, <3>1, <3>2 DEF NumbersInv, Settled
    <3> QED
      BY <1>4, <3>3, ClaimStaysOn
  <2> QED
    BY <1>2, <2>1, <2>2, <2>3
<1> QED
  BY <1>4, <1>5 DEF ClaimStays

LEMMA NumbersDifferStays ==
    ASSUME IdentityTypeOK, Allocated, NumbersInv, NumbersDiffer, NEW l \in Linkers, LinkerStep(l)
    PROVE  NumbersDiffer'
<1>1. Moves(l) /\ linker[l].kid \in Kids /\ reported \in [Kids -> {0} \cup Number]
  BY LinkerMoves, RunFacts DEF IdentityTypeOK
<1>2. CASE reported' = reported
  BY <1>2 DEF NumbersDiffer
<1>3. CASE Reports(l)
  <2>1. /\ \A j \in Kids \ {linker[l].kid} : reported'[j] = reported[j]
        /\ reported'[linker[l].kid] = linker[l].number
    BY <1>1, <1>3 DEF Reports
  <2>2. ASSUME NEW j \in Kids \ {linker[l].kid} PROVE reported[j] # linker[l].number
    <3> SUFFICES ASSUME reported[j] = linker[l].number PROVE FALSE
      OBVIOUS
    <3>1. ClaimStays(j, linker[l].number)
      BY <1>3 DEF Reports, NumbersInv
    <3> QED
      BY <1>3, <3>1, ReadBackFacts DEF ClaimStays
  <2> QED
    BY <2>1, <2>2 DEF NumbersDiffer
<1> QED
  BY <1>1, <1>2, <1>3 DEF Moves, Starts, Looks, GetsNumber, LooksAtChild, Claims, LooksAtParent, Reserves, LooksBack, Ends, OnlyLinkers

LEMMA IdentityInvByLinker ==
    ASSUME IdentityTypeOK, TwoMachines, IdentityInv, NEW l \in Linkers, LinkerStep(l)
    PROVE  IdentityInv'
<1>1. Hosted /\ Allocated /\ NumbersInv /\ NumbersDiffer
  BY DEF IdentityInv
<1>2. Hosted' /\ Allocated' /\ NumbersDiffer'
  BY <1>1, HostedStays, AllocatedStays, NumbersDifferStays
<1>3. NumbersInv'
  <2>1. \A j \in Kids : reported'[j] # 0 => Settled(j, reported[j])'
    BY <1>1, ReportedSettledStays
  <2>2. \A m \in Linkers : linker'[m].at \in {"written", "parentReadBack"} =>
            (claim'[linker'[m].kid] = linker'[m].number => Settled(linker[m].kid, linker[m].number)')
    BY <1>1, WrittenSettledStays
  <2>3. \A m \in Linkers : linker'[m].at \in {"written", "parentReadBack"} =>
            \A j \in Kids \ {linker'[m].kid} : reported'[j] = linker'[m].number => ClaimStays(j, reported[j])'
    BY <1>1, WrittenApartStays
  <2> QED
    BY <2>1, <2>2, <2>3 DEF NumbersInv, Settled, ClaimStays, ReservationStays
<1> QED
  BY <1>2, <1>3 DEF IdentityInv

LEMMA IdentityInvByPeople ==
    ASSUME IdentityTypeOK, IdentityInv, EditParent \/ \E k \in Kids : RepairClaim(k)
    PROVE  IdentityInv'
<1>1. UNCHANGED <<hostLock, linker, reported>>
  BY PeopleMove
<1>2. Hosted /\ Allocated /\ NumbersInv /\ NumbersDiffer
  BY DEF IdentityInv
<1>3. \A l \in Linkers : View(l)' = View(l)
  BY <1>1 DEF View, Assigned
<1>4. Hosted' /\ Allocated' /\ NumbersDiffer'
  BY <1>1, <1>2, <1>3 DEF Hosted, Allocated, NumbersDiffer
<1>5. ASSUME NEW j \in Kids, reported[j] # 0 PROVE Settled(j, reported[j])'
  <2>1. Settled(j, reported[j])
    BY <1>2, <1>5 DEF NumbersInv
  <2>2. PICK n : n = reported[j]
    OBVIOUS
  <2>3. Settled(j, n)'
    BY <1>5, <2>1, <2>2, PeopleUnsettle
  <2> QED
    BY <1>1, <2>2, <2>3 DEF Settled, ClaimStays, ReservationStays
<1>6. ASSUME NEW l \in Linkers, linker[l].at \in {"written", "parentReadBack"}, claim'[linker[l].kid] = linker[l].number
      PROVE  Settled(linker[l].kid, linker[l].number)'
  <2>1. PICK k, n : k = linker[l].kid /\ n = linker[l].number
    OBVIOUS
  <2>2. k \in Kids /\ n # 0
    BY <1>2, <1>6, <2>1, WrittenFacts
  <2>3. \/ reported[k] = 0 /\ claim'[k] = 0
        \/ claim'[k] = claim[k] /\ (Settled(k, n) => Settled(k, n)')
    BY <2>2, PeopleUnsettle
  <2>4. claim[k] = n /\ (Settled(k, n) => Settled(k, n)')
    BY <1>6, <2>1, <2>2, <2>3
  <2>5. Settled(k, n)
    BY <1>2, <1>6, <2>1, <2>4 DEF NumbersInv
  <2>6. Settled(k, n)'
    BY <2>4, <2>5
  <2> QED
    BY <1>1, <2>1, <2>6 DEF Settled, ClaimStays, ReservationStays
<1>7. ASSUME NEW l \in Linkers, linker[l].at \in {"written", "parentReadBack"}, NEW j \in Kids \ {linker[l].kid},
             reported[j] = linker[l].number
      PROVE  ClaimStays(j, reported[j])'
  <2>1. PICK n : n = reported[j]
    OBVIOUS
  <2>2. n # 0 /\ ClaimStays(j, n)
    BY <1>2, <1>7, <2>1, WrittenFacts DEF NumbersInv
  <2>3. ClaimStays(j, n)'
    BY <2>1, <2>2, PeopleUnsettle
  <2> QED
    BY <1>1, <2>1, <2>3 DEF ClaimStays
<1>8. NumbersInv'
  BY <1>1, <1>5, <1>6, <1>7 DEF NumbersInv, Settled, ClaimStays, ReservationStays
<1> QED
  BY <1>4, <1>8 DEF IdentityInv

LEMMA IdentityInvStays ==
    ASSUME IdentityTypeOK, TwoMachines, IdentityInv, [IdentityNext]_identityVars
    PROVE  IdentityInv'
<1>1. CASE UNCHANGED identityVars
  <2>1. UNCHANGED <<parent, claim, hostLock, linker, reported>>
    BY <1>1 DEF identityVars
  <2>2. Hosted' = Hosted /\ Allocated' = Allocated /\ NumbersDiffer' = NumbersDiffer
    BY <2>1 DEF Hosted, Allocated, NumbersDiffer, View, Assigned
  <2>3. NumbersInv' = NumbersInv
    BY <2>1 DEF NumbersInv, Settled, ClaimStays, ReservationStays, View, Assigned
  <2> QED
    BY <2>2, <2>3 DEF IdentityInv
<1>2. CASE EditParent \/ \E k \in Kids : RepairClaim(k)
  BY <1>2, IdentityInvByPeople
<1>3. CASE \E l \in Linkers : LinkerStep(l)
  BY <1>3, IdentityInvByLinker
<1> QED
  BY <1>1, <1>2, <1>3 DEF IdentityNext

LEMMA IdentityInitially ==
    ASSUME IdentityInit
    PROVE  IdentityTypeOK /\ IdentityInv
<1>1. \A l \in Linkers : linker[l].at = "idle" /\ linker[l].number = 0
  BY IdleFacts DEF IdentityInit
<1>2. \A j \in Kids : reported[j] = 0
  BY DEF IdentityInit, NoClaims
<1>3. IdentityTypeOK
  BY IdleFacts, IdentityAssumption DEF IdentityInit, IdentityTypeOK, LinkerRecord
<1>4. Hosted /\ Allocated /\ NumbersInv /\ NumbersDiffer
  BY <1>1, <1>2 DEF Hosted, Allocated, NumbersInv, NumbersDiffer, Writing, ClaimDone
<1> QED
  BY <1>3, <1>4 DEF IdentityInv

\* The records of the runs, the bodies of the Issues and the claims in them
\* stay of their types, whatever the machines and people do.
THEOREM IdentityTypeCorrect == IdentitySpec => []IdentityTypeOK
<1>1. IdentityInit => IdentityTypeOK
  BY IdentityInitially
<1>2. IdentityTypeOK /\ [IdentityNext]_identityVars => IdentityTypeOK'
  BY IdentityTypesStay
<1> QED
  BY <1>1, <1>2, PTL DEF IdentitySpec

\* On two machines, however many runs, repairs and edits there are, two children
\* that were reported linked never have the same number.
THEOREM NumbersDifferOnTwoMachines ==
    ASSUME TwoMachines
    PROVE  IdentitySpec => []NumbersDiffer
<1>1. IdentityInit => IdentityInv
  BY IdentityInitially
<1>2. TwoMachines /\ IdentityTypeOK /\ IdentityInv /\ [IdentityNext]_identityVars => IdentityInv'
  BY IdentityInvStays
<1>3. IdentityInv => NumbersDiffer
  BY DEF IdentityInv
<1>4. IdentityTypeOK /\ IdentityInv /\ [IdentityNext]_identityVars => IdentityInv'
  BY <1>2
<1> QED
  BY <1>1, <1>3, <1>4, IdentityTypeCorrect, PTL DEF IdentitySpec

=============================================================================

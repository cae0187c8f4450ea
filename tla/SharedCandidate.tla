------------------------ MODULE SharedCandidate ------------------------
(***************************************************************************)
(* The shared delivery of a Requirement (requirement_integration.py with   *)
(* the rounds of execute_requirement.py and the shared part of             *)
(* project_publish.py).  A round collects a receipt for the head of every  *)
(* ready child, binds them in order to a base, composes them on a          *)
(* candidate branch of their own, checks the candidate when it is          *)
(* complete, and publishes it: a draft as long as children are missing,    *)
(* ready and armed for the merge when all are there.  A round may be       *)
(* killed anywhere; meanwhile children commit, main moves, and people      *)
(* merge.  What a merge was of decides whether the children become Done.   *)
(***************************************************************************)
EXTENDS Naturals, Sequences, SequencesExt

CONSTANTS
    Change,    \* the changes of the children, in the order of their handoffs
    MaxHead,   \* bound: commits of a child
    MaxMain    \* bound: commits others bring to main

ASSUME CandidateAssumption ==
    /\ Len(Change) \in Nat \ {0, 1}
    /\ MaxHead \in Nat \ {0}
    /\ MaxMain \in Nat \ {0}

VARIABLES
    tip, bornAt,      \* of a child: its head (0: nothing archived) and the main it started at
    receipt,          \* the head in its receipt (0: none)
    moved,            \* history: a receipt was superseded
    main, localMain, others,
    candidate,        \* the candidate branch of a generation with its worktree
    pr,               \* the open pull request of a generation
    landed,           \* the heads that were merged
    checked,          \* the heads that passed the full checks
    done,             \* the children are Done on the board
    run               \* the round

childVars == <<tip, bornAt>>
mainVars == <<main, localMain, others>>
remoteVars == <<pr, landed>>
candidateVars == <<childVars, receipt, moved, mainVars, candidate, remoteVars, checked, done, run>>

Child == 1..Len(Change)
\* Every merge of the candidate is one commit on main.
Mains == 1..(MaxMain + 3)
\* The generation is the base, or 0 when no child was replayed.
Generation == {0} \cup Mains
Heads == UNION {[1..n -> 1..MaxHead] : n \in 0..Len(Change)}

NoCandidate == [base |-> 0, built |-> <<>>, bound |-> 0, dirty |-> FALSE]
NoRequest == [head |-> <<>>, draft |-> FALSE, armed |-> FALSE]
NoRun == [at |-> "idle", heads |-> <<>>, base |-> 0, gen |-> 0]

CandidateTypeOK ==
    /\ tip \in [Child -> 0..MaxHead] /\ bornAt \in [Child -> {0} \cup Mains]
    /\ receipt \in [Child -> 0..MaxHead] /\ moved \in BOOLEAN
    /\ main \in Mains /\ localMain \in Mains /\ others \in 1..MaxMain
    /\ candidate \in [Generation -> [base : {0} \cup Mains, built : Heads,
                                     bound : 0..Len(Change), dirty : BOOLEAN]]
    /\ pr \in [Generation -> [head : Heads, draft : BOOLEAN, armed : BOOLEAN]]
    /\ landed \subseteq Generation \X Heads /\ checked \subseteq Generation \X Heads
    /\ done \in BOOLEAN
    /\ run \in [at : {"idle", "collecting", "binding", "composing", "building", "publishing",
                      "checking", "rechecking", "pushing", "opening", "waiting", "merged"},
                heads : Heads, base : {0} \cup Mains, gen : Generation]

CandidateInit ==
    /\ tip = [c \in Child |-> 0] /\ bornAt = [c \in Child |-> 0]
    /\ receipt = [c \in Child |-> 0] /\ moved = FALSE
    /\ main = 1 /\ localMain = 1 /\ others = 1
    /\ candidate = [g \in Generation |-> NoCandidate]
    /\ pr = [g \in Generation |-> NoRequest]
    /\ landed = {} /\ checked = {}
    /\ done = FALSE /\ run = NoRun

RoundAt(step) == run.at = step
RoundGoes(step) == run' = [run EXCEPT !.at = step]
Stop == run' = NoRun
OnlyTheRun == UNCHANGED <<childVars, receipt, moved, mainVars, candidate, remoteVars, checked, done>>

Complete(heads) == Len(heads) = Len(Change)
SomeOf(heads) == Len(heads) > 0
Mine == candidate[run.gen]

-----------------------------------------------------------------------------
(* A round of execute_requirement.py. *)

BeginRound == RoundAt("idle") /\ ~done /\ run' = [NoRun EXCEPT !.at = "collecting"] /\ OnlyTheRun

Ready(c) == c \in Child /\ tip[c] > 0

\* The receipt of the next ready child; an older one of an ancestor head gives
\* way.
Collect ==
    /\ RoundAt("collecting") /\ Ready(Len(run.heads) + 1)
    /\ LET c == Len(run.heads) + 1 IN
       /\ receipt' = [receipt EXCEPT ![c] = tip[c]]
       /\ moved' = (moved \/ receipt[c] \notin {0, tip[c]})
       /\ run' = [run EXCEPT !.heads = Append(@, tip[c])]
    /\ UNCHANGED <<childVars, mainVars, candidate, remoteVars, checked, done>>

Collected ==
    /\ RoundAt("collecting") /\ run.heads # <<>> /\ ~Ready(Len(run.heads) + 1)
    /\ RoundGoes("binding") /\ OnlyTheRun

\* The first child that is not ready is started; that ends the round, after
\* the draft of the children before it.
StartNext(c) ==
    /\ bornAt[c] = 0
    /\ bornAt' = [bornAt EXCEPT ![c] = localMain]
    /\ UNCHANGED <<tip, receipt, moved, mainVars, candidate, remoteVars, checked, done>>

StartFirst == RoundAt("collecting") /\ run.heads = <<>> /\ tip[1] = 0 /\ StartNext(1) /\ Stop
NothingToDo == RoundAt("collecting") /\ run.heads = <<>> /\ tip[1] = 0 /\ bornAt[1] # 0 /\ Stop /\ OnlyTheRun

-----------------------------------------------------------------------------
(* Assembly: the base and the generation. *)

\* The candidates whose committed manifest is a prefix of the ready chain.
NoneExisting == {}
Existing ==
    {g \in Generation : candidate[g].bound > 0
        /\ IsPrefix(SubSeq(candidate[g].built, 1, candidate[g].bound), run.heads)}

UnmovedSince(heads) == \A c \in 1..Len(heads) : tip[c] = heads[c] /\ receipt[c] = heads[c]

\* A child that started before the base is replayed on it, in a generation of
\* that base.
GenerationOf(base) == IF \E c \in 1..Len(run.heads) : bornAt[c] < base THEN base ELSE 0

Bind ==
    /\ RoundAt("binding")
    /\ UnmovedSince(run.heads)
    /\ \/ /\ Existing = {}
          /\ run' = [run EXCEPT !.at = "composing", !.base = localMain, !.gen = GenerationOf(localMain)]
       \/ \E g \in Existing :
          /\ Existing = {g}
          /\ run' = [run EXCEPT !.at = "composing", !.base = candidate[g].base,
                                !.gen = GenerationOf(candidate[g].base)]
    /\ OnlyTheRun

-----------------------------------------------------------------------------
(* compose_candidate. *)

\* A new candidate starts from current main, one that exists may lag behind.
BaseHolds == main = run.base \/ (Mine.base # 0 /\ run.base <= main)

\* The branch holds a prefix of the children in order, on its base.
History == IsPrefix(Mine.built, run.heads) /\ (Mine.built = <<>> \/ Mine.base = run.base)
Composable == BaseHolds /\ UnmovedSince(run.heads) /\ ~Mine.dirty /\ History
Composed == Mine.built = run.heads /\ Mine.bound = Len(run.heads)

SetCandidate(record) ==
    /\ candidate' = [candidate EXCEPT ![run.gen] = record]
    /\ UNCHANGED <<childVars, receipt, moved, mainVars, remoteVars, checked, done>>

Compose ==
    /\ RoundAt("composing") /\ Composable
    /\ SetCandidate(IF Mine.base = 0 THEN [NoCandidate EXCEPT !.base = run.base] ELSE Mine)
    /\ RoundGoes(IF Composed THEN "publishing" ELSE "building")

\* The source branch is looked at again for every child.
Apply ==
    /\ RoundAt("building") /\ ~Mine.dirty /\ Len(Mine.built) < Len(run.heads)
    /\ tip[Len(Mine.built) + 1] = run.heads[Len(Mine.built) + 1]
    /\ SetCandidate([Mine EXCEPT !.dirty = TRUE]) /\ UNCHANGED run

CommitChild ==
    /\ RoundAt("building") /\ Mine.dirty
    /\ SetCandidate([Mine EXCEPT !.dirty = FALSE, !.built = Append(@, run.heads[Len(@) + 1])])
    /\ UNCHANGED run

BindManifest ==
    /\ RoundAt("building") /\ Mine.built = run.heads
    /\ SetCandidate([Mine EXCEPT !.bound = Len(run.heads)])
    /\ RoundGoes("publishing")

-----------------------------------------------------------------------------
(* publish_candidate. *)

\* A head that was merged already is only reconciled; otherwise the candidate
\* has to be composed as it stands, and a complete one is checked.
Resume ==
    /\ RoundAt("publishing")
    /\ \/ <<run.gen, run.heads>> \in landed /\ RoundGoes("merged")
       \/ /\ <<run.gen, run.heads>> \notin landed /\ Composable /\ Composed
          /\ RoundGoes(IF Complete(run.heads) THEN "checking" ELSE "rechecking")
    /\ OnlyTheRun

RunFullChecks ==
    /\ RoundAt("checking")
    /\ checked' = checked \cup {<<run.gen, run.heads>>}
    /\ RoundGoes("rechecking")
    /\ UNCHANGED <<childVars, receipt, moved, mainVars, candidate, remoteVars, done>>

\* The checks take long: every input is looked at again before the push.
Recheck == RoundAt("rechecking") /\ Composable /\ Composed /\ RoundGoes("pushing") /\ OnlyTheRun

\* A first publication has to be up to date with main; a pull request that is
\* open grows by a fast-forward.
Push ==
    /\ RoundAt("pushing")
    /\ <<run.gen, run.heads>> \notin landed
    /\ pr[run.gen] # NoRequest \/ main = run.base
    /\ pr' = [pr EXCEPT ![run.gen] =
                 IF @ = NoRequest THEN [head |-> run.heads, draft |-> ~Complete(run.heads), armed |-> FALSE]
                 ELSE [@ EXCEPT !.head = run.heads]]
    /\ RoundGoes("opening")
    /\ UNCHANGED <<childVars, receipt, moved, mainVars, candidate, landed, checked, done>>

Deliverable(heads) == Complete(heads)

\* Only a complete candidate is made ready, and armed for the merge.
Open ==
    /\ RoundAt("opening") /\ pr[run.gen].head = run.heads
    /\ pr' = [pr EXCEPT ![run.gen] = [head |-> run.heads, draft |-> ~Deliverable(run.heads),
                                      armed |-> Deliverable(run.heads)]]
    /\ IF Deliverable(run.heads)
       THEN RoundGoes("waiting") /\ UNCHANGED bornAt
       ELSE Stop /\ bornAt' = [bornAt EXCEPT ![Len(run.heads) + 1] = IF @ = 0 THEN localMain ELSE @]
    /\ UNCHANGED <<tip, receipt, moved, mainVars, candidate, landed, checked, done>>

SeeMerge == RoundAt("waiting") /\ <<run.gen, run.heads>> \in landed /\ RoundGoes("merged") /\ OnlyTheRun

\* The children of the merged head are Done; a merge of an incomplete one
\* changes no status.
Reconcilable(heads) == Complete(heads)
Reconcile ==
    /\ RoundAt("merged")
    /\ done' = (done \/ Reconcilable(run.heads))
    /\ localMain' = IF Reconcilable(run.heads) THEN main ELSE localMain
    /\ Stop
    /\ UNCHANGED <<childVars, receipt, moved, main, others, candidate, remoteVars, checked>>

\* Any refusal, failed command, timeout or kill ends the round where it is.
EndRound == ~RoundAt("idle") /\ Stop /\ OnlyTheRun

-----------------------------------------------------------------------------
(* The world around. *)

\* A child may be started by hand as well, in any order.
StartByHand(c) == StartNext(c) /\ UNCHANGED run

\* Its agent archives the contract and commits; later commits keep it.
Commit(c) ==
    /\ bornAt[c] # 0 /\ tip[c] < MaxHead /\ ~done
    /\ tip' = [tip EXCEPT ![c] = @ + 1]
    /\ UNCHANGED <<bornAt, receipt, moved, mainVars, candidate, remoteVars, checked, done, run>>

MoveMain ==
    /\ others < MaxMain /\ main + 1 \in Mains
    /\ others' = others + 1 /\ main' = main + 1
    /\ UNCHANGED <<childVars, receipt, moved, localMain, candidate, remoteVars, checked, done, run>>

SyncMain ==
    /\ localMain < main /\ localMain' = main
    /\ UNCHANGED <<childVars, receipt, moved, main, others, candidate, remoteVars, checked, done, run>>

\* GitHub merges an armed pull request, and a person any; a draft has to be
\* made ready for it by hand.
MergeRequest(g) ==
    /\ pr[g] # NoRequest /\ main + 1 \in Mains
    /\ main' = main + 1
    /\ landed' = landed \cup {<<g, pr[g].head>>}
    /\ pr' = [pr EXCEPT ![g] = NoRequest]
    /\ UNCHANGED <<childVars, receipt, moved, localMain, others, candidate, checked, done, run>>

RoundStep ==
    \/ BeginRound \/ Collect \/ Collected \/ StartFirst \/ NothingToDo \/ Bind \/ Compose
    \/ Apply \/ CommitChild \/ BindManifest \/ Resume \/ RunFullChecks \/ Recheck \/ Push
    \/ Open \/ SeeMerge \/ Reconcile \/ EndRound

CandidateNext ==
    \/ RoundStep
    \/ \E c \in Child : StartByHand(c) \/ Commit(c)
    \/ MoveMain \/ SyncMain
    \/ \E g \in Generation : MergeRequest(g)

CandidateSpec == CandidateInit /\ [][CandidateNext]_candidateVars

-----------------------------------------------------------------------------
(* Properties. *)

\* A pull request that GitHub merges by itself has every child and passed the
\* full checks at the very head it has now, whatever was pushed to it since.
ArmedIsVerified ==
    \A g \in Generation : pr[g].armed =>
        Complete(pr[g].head) /\ ~pr[g].draft /\ <<g, pr[g].head>> \in checked

\* The children are Done only after a merge of all of them, at heads their
\* receipts were for; and the whole is merged once, unless a child has moved
\* after its receipt: a round that starts over finds the earlier candidate.
DoneIsDelivered ==
    /\ done => \E g \in Generation, heads \in Heads :
           <<g, heads>> \in landed /\ Complete(heads) /\ \A c \in Child : heads[c] <= receipt[c]
    /\ \A one, other \in landed :
           one # other /\ Complete(one[2]) /\ Complete(other[2]) => moved

\* What the specification of the shared delivery says: a later child is added
\* to the same branch and pull request instead of creating another delivery
\* (openspec/specs/agent-workflow, The shared PR opens before all finish).
OneRequest ==
    ~moved /\ landed = {} =>
        \A g, h \in Generation : pr[g] # NoRequest /\ pr[h] # NoRequest => g = h

=============================================================================

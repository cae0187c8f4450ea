-------------------------- MODULE MCRequirements --------------------------
(* Small instances of the delivery of a Requirement: the numbers of its        *)
(* children, the shared candidate, its recovery by a merge, and the closing of *)
(* the parent.  The parts share no state in these models; `part` says which of *)
(* them a behaviour is about, and the others stay where they are.              *)
EXTENDS RequirementClosing, ChildIdentity, SharedCandidate, MergeRecovery

VARIABLE part

MCClosers == Permutations(Closers)
MCHostOf == ("one" :> "here") @@ ("two" :> "there")
MCChange == <<"c", "d">>

OneBody == linked = Children /\ items = {}

DeliveryInit ==
    /\ part \in {"children", "items", "identity", "candidate", "recovery"}
    /\ ClosingInit /\ IdentityInit /\ CandidateInit /\ RecoveryInit
    /\ part \in {"children", "items"} \/ OneBody

\* The body of the parent gains children, or an item to accept, not both.
MCOneKindOfEdit ==
    /\ part = "children" => items = {}
    /\ part = "items" => linked = Children

DeliveryNext ==
    \/ part \in {"children", "items"} /\ ClosingNext /\ UNCHANGED <<identityVars, candidateVars, recoveryVars, part>>
    \/ part = "identity" /\ IdentityNext /\ UNCHANGED <<closingVars, candidateVars, recoveryVars, part>>
    \/ part = "candidate" /\ CandidateNext /\ UNCHANGED <<closingVars, identityVars, recoveryVars, part>>
    \/ part = "recovery" /\ RecoveryNext /\ UNCHANGED <<closingVars, identityVars, candidateVars, part>>

DeliverySpec ==
    DeliveryInit /\ [][DeliveryNext]_<<closingVars, identityVars, candidateVars, recoveryVars, part>>

====

------------------------------- MODULE TokenPool -------------------------------
(***************************************************************************)
(* What the machine pool of template/scripts/machine_pool.py promises: a   *)
(* run gets all the tokens of its lease in one step or none of them, no    *)
(* token has two owners, and an owner keeps its tokens until it gives all  *)
(* of them back.                                                           *)
(***************************************************************************)
CONSTANTS
    Runs,
    NoRun,          \* the owner of a free token
    Slots,          \* the tokens
    Leases(_)       \* the sets of tokens that make up the lease of a run

VARIABLE owner      \* the run each token is leased to

Free == {s \in Slots : owner[s] = NoRun}
Owned(r) == {s \in Slots : owner[s] = r}

Init == owner = [s \in Slots |-> NoRun]

Acquire(r) ==
    /\ Owned(r) = {}
    /\ \E S \in Leases(r) :
          /\ S \subseteq Free
          /\ owner' = [s \in Slots |-> IF s \in S THEN r ELSE owner[s]]

Release(r) ==
    /\ Owned(r) # {}
    /\ owner' = [s \in Slots |-> IF owner[s] = r THEN NoRun ELSE owner[s]]

Next == \E r \in Runs : Acquire(r) \/ Release(r)

Spec == Init /\ [][Next]_owner

=============================================================================

----------------------------- MODULE MCMachinePool -----------------------------
(* Small instances of MachinePool: a finalize run among development runs. *)
EXTENDS MachinePool

CONSTANTS d1, d2, f1

\* d1 asks for more tokens than there are and is capped, f1 goes first.
MCWeight  == [r \in Runs |-> IF r = d1 THEN 3 ELSE 1]
MCBounded == {d1}
MCRank    == [r \in Runs |-> IF r = f1 THEN 0 ELSE 1]

=============================================================================

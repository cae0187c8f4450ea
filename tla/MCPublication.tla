----------------------------- MODULE MCPublication -----------------------------
(* Small instances of Publication. *)
EXTENDS Publication

CONSTANTS t1, t2, s1, s2

\* One task and its agent, or two tasks that share the integration copy.
MCOne == [s \in Sessions |-> t1]
MCTwo == [s \in Sessions |-> IF s = s1 THEN t1 ELSE t2]

=============================================================================

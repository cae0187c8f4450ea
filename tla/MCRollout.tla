----------------------------- MODULE MCRollout -----------------------------
(* A small instance of Rollout: one job takes a project to one version. *)
EXTENDS Rollout

MCOneUpdate ==
    {[paths |-> {"o", "c", "r"}, jobs |-> {"x"}, parallel |-> 1, versions |-> 1,
      dispatches |-> 1, edits |-> 0, faults |-> 0]}

====

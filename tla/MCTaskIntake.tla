---------------------------- MODULE MCTaskIntake ----------------------------
(* A small instance of TaskIntake: one author runs three commands. *)
EXTENDS TaskIntake

MCOneAuthor ==
    {[authors |-> {"a"}, refs |-> {"e"}, runs |-> 3, edits |-> 1, moves |-> 1,
      imports |-> 1, closes |-> 0]}

====

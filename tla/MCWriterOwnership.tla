---- MODULE MCWriterOwnership ----
(* Small instances of WriterOwnership for TLC. *)
EXTENDS WriterOwnership, TLC

CONSTANTS l1, l2, l3

MCLaunchers == Permutations({l1, l2, l3})

====

--------------------------- MODULE MCWorkspaces ---------------------------
(* Small instances of the parts that own a checkout: the launches of delegated *)
(* writers in a task worktree, its start and its removal, and local main in    *)
(* the integration copy.  The parts share no state in these models; `part`     *)
(* says which of them a behaviour is about, and the others stay where they     *)
(* are.                                                                        *)
EXTENDS WriterOwnership, ManagedStart, WorktreeCleanup, MainAdvances, TLC

CONSTANTS l1, l2, l3, r1, r2, t1, t2

VARIABLE part

MCSymmetry == Permutations({l1, l2, l3})
\* One branch that grows, or two that share the record file.
MCCleanupBounds == {[tasks |-> {t1}, heads |-> 3], [tasks |-> {t1, t2}, heads |-> 1]}

OneExtent == extent = CHOOSE e \in CleanupBounds : TRUE
OneRevision == revision = [s \in Starts |-> r1]

WorkspacesInit ==
    /\ part \in {"writer", "start", "cleanup", "main"}
    /\ Init /\ StartInit /\ CleanupInit /\ AdvanceInit
    /\ part = "start" \/ OneRevision
    /\ part = "cleanup" \/ OneExtent

WorkspacesNext ==
    \/ part = "writer" /\ Next /\ UNCHANGED <<startVars, cleanupVars, advanceVars, part>>
    \/ part = "start" /\ StartNext /\ UNCHANGED <<vars, cleanupVars, advanceVars, part>>
    \/ part = "cleanup" /\ CleanupNext /\ UNCHANGED <<vars, startVars, advanceVars, part>>
    \/ part = "main" /\ AdvanceNext /\ UNCHANGED <<vars, startVars, cleanupVars, part>>

WorkspacesSpec ==
    WorkspacesInit /\ [][WorkspacesNext]_<<vars, startVars, cleanupVars, advanceVars, part>>

====

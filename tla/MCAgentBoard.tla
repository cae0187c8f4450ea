---- MODULE MCAgentBoard ----
(* Small instances of AgentBoard for TLC. *)
EXTENDS AgentBoard, TLC

CONSTANTS t1, t2, a, b

MCScopes == {{a}}
MCTasks == Permutations({t1, t2})

MCNames(e) == b \in e.claims \/ \E ack \in e.acks : ack[2] = b

\* The second file is changed while there is one entry per task, and none has lapsed.
MCSecondFile ==
    \/ ids <= 2 /\ lapsed = {}
    \/ \A t \in Tasks : /\ b \notin edits[t] /\ b \notin mine[t] /\ ~MCNames(board[t])
                        /\ \A h \in hits[t] : h[2] # b
                        /\ \A p \in Procs : ~MCNames(data[p][t])

====

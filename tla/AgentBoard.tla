------------------------------- MODULE AgentBoard -------------------------------
(***************************************************************************)
(* The board on which the tasks of one machine claim the files they change *)
(* (agent_board.py), the lock of its file (_platform_common.locked_json)   *)
(* and the gate that finish_task.py and the preflight pass before          *)
(* publication.                                                            *)
(*                                                                         *)
(* Every command locks the file, reads it whole and writes it whole; what  *)
(* it asks the other worktrees and GitHub meanwhile is not under the lock. *)
(* The gate reads the file without the lock.  A task is a worktree with    *)
(* its branch, and its agent runs one command at a time; Doctor is the     *)
(* doctor --fix that every start runs.  A sibling whose worktree is on     *)
(* another branch is degraded in the same way as one whose heartbeat is    *)
(* stale, and has no state of its own here.                                *)
(***************************************************************************)
EXTENDS Naturals, FiniteSets

CONSTANTS
    Tasks,
    Doctor,
    Nobody,         \* nobody holds the lock of the board file
    Paths,          \* concrete files
    Generated,      \* the ones main declares generated
    Scopes,         \* the scopes an agent may declare
    MaxIds,         \* registrations, a bound of the model
    MaxLapses       \* expired, merged and removed entries, a bound of the model

ASSUME BoardAssumption ==
    /\ Doctor \notin Tasks
    /\ Nobody \notin Tasks \cup {Doctor}
    /\ Generated \subseteq Paths
    /\ Scopes \subseteq SUBSET Paths
    /\ MaxIds \in Nat /\ MaxLapses \in Nat

VARIABLES
    pc,         \* where each command is
    lock,       \* the holder of the board file
    board,      \* the entry of every task, as it is in the file
    data,       \* ... and as a command has read it
    mine,       \* the paths a command asks for
    todo,       \* the entries it has still to look at
    hits,       \* the conflicts it has found: <<id, path>>
    doomed,     \* the tasks whose entries the doctor is about to remove
    tree,       \* a worktree: "absent", "work" or "merged" (its head is a merged PR)
    edits,      \* the paths that its branch changes
    ids,        \* how many entries there have been
    lapsed      \* the ids that were once not valid-active (history)

commandVars == <<pc, lock, data, mine, todo, hits, doomed>>
worldVars   == <<tree, edits>>
vars == <<commandVars, board, worldVars, ids, lapsed>>

Procs == Tasks \cup {Doctor}

Entry == [id : Nat, scope : SUBSET Paths, claims : SUBSET Paths,
          acks : SUBSET (Nat \X Paths), fresh : BOOLEAN]
NoEntry == [id |-> 0, scope |-> {}, claims |-> {}, acks |-> {}, fresh |-> FALSE]
NoBoard == [t \in Tasks |-> NoEntry]

TypeOK ==
    /\ pc \in [Procs -> {"idle", "admit", "gate", "publish", "fix"}]
    /\ lock \in Procs \cup {Nobody}
    /\ board \in [Tasks -> Entry]
    /\ data \in [Procs -> [Tasks -> Entry]]
    /\ mine \in [Tasks -> SUBSET Paths]
    /\ todo \in [Tasks -> SUBSET Tasks]
    /\ hits \in [Tasks -> SUBSET (Nat \X Paths)]
    /\ doomed \subseteq Tasks
    /\ tree \in [Tasks -> {"absent", "work", "merged"}]
    /\ edits \in [Tasks -> SUBSET Paths]
    /\ ids \in 0 .. MaxIds
    /\ lapsed \subseteq Nat

Init ==
    /\ pc = [p \in Procs |-> "idle"]
    /\ lock = Nobody
    /\ board = NoBoard
    /\ data = [p \in Procs |-> NoBoard]
    /\ mine = [t \in Tasks |-> {}]
    /\ todo = [t \in Tasks |-> {}]
    /\ hits = [t \in Tasks |-> {}]
    /\ doomed = {}
    /\ tree = [t \in Tasks |-> "absent"]
    /\ edits = [t \in Tasks |-> {}]
    /\ ids = 0
    /\ lapsed = {}

-----------------------------------------------------------------------------
(* What a command reads. *)

NoLock == TRUE
LockFree == lock = Nobody

Registered(b) == {t \in Tasks : b[t].id # 0}

\* claim_eligibility: what a look at an entry may say.  A merge counts when GitHub proves
\* it, and an unreadable GitHub proves nothing.
Looks(b, u) ==
    IF tree[u] = "absent" \/ ~b[u].fresh THEN {FALSE}
    ELSE IF tree[u] = "merged" THEN BOOLEAN ELSE {TRUE}

\* _claim_candidates: what the task declares and what it has changed already.
Candidates(b, t) == b[t].scope \cup edits[t]

\* _owned_claim_paths: what an admitted task claimed and what it has changed since.
ClaimsOnly(b, u) == b[u].claims
Owned(b, u) == b[u].claims \cup edits[u]

\* An acknowledgment is for one entry and one path.
AnyPath(entry, id, path) == \E ack \in entry.acks : ack[1] = id
AnyEntry(entry, id, path) == \E ack \in entry.acks : ack[2] = path
Acknowledged(entry, id, path) == <<id, path>> \in entry.acks

\* _admission_conflicts, against one entry.
Conflicts(b, t, u, asked) ==
    {<<b[u].id, path>> : path \in {q \in (asked \ Generated) \cap Owned(b, u) :
                                    ~Acknowledged(b[t], b[u].id, q)}}

\* The evidence an acknowledgment adds.
PathFirst(id, path) == <<path, id>>
Evidence(id, path) == <<id, path>>

\* _admit_item computes the claims of a RUN anew.
ClaimsOf(b, t) == Candidates(b, t)

Goto(p, place) == pc' = [pc EXCEPT ![p] = place]

\* The file is read once its lock is taken, and kept by the command that works on it.
Open(p, b) ==
    /\ LockFree
    /\ lock' = p
    /\ data' = [data EXCEPT ![p] = b]

\* A command that writes the file lets it go.
Leave(p) ==
    /\ Goto(p, "idle")
    /\ lock' = IF lock = p THEN Nobody ELSE lock
    /\ data' = [data EXCEPT ![p] = NoBoard]

Forget(t) ==
    /\ mine' = [mine EXCEPT ![t] = {}]
    /\ todo' = [todo EXCEPT ![t] = {}]
    /\ hits' = [hits EXCEPT ![t] = {}]

-----------------------------------------------------------------------------
(* Commands of an agent.  One that asks the siblings nothing, or one thing, is one step. *)

\* start: one entry per worktree.
Register(t) ==
    /\ pc[t] = "idle" /\ LockFree /\ tree[t] # "absent"
    /\ board[t].id = 0 /\ ids < MaxIds
    /\ ids' = ids + 1
    /\ \E scope \in Scopes :
          board' = [board EXCEPT ![t] = [NoEntry EXCEPT !.id = ids + 1, !.scope = scope, !.fresh = TRUE]]
    /\ lapsed' = IF tree[t] = "work" THEN lapsed ELSE lapsed \cup {ids + 1}
    /\ UNCHANGED <<commandVars, worldVars>>

\* update: a new scope claims nothing by itself.
Update(t) ==
    /\ pc[t] = "idle" /\ LockFree /\ board[t].id # 0
    /\ \E scope \in Scopes \cup {board[t].scope} :
          board' = [board EXCEPT ![t].scope = scope, ![t].fresh = TRUE]
    /\ UNCHANGED <<commandVars, worldVars, ids, lapsed>>

\* acknowledge: only a path that both tasks are seen to claim, of a task that is active.
Acknowledge(t) ==
    /\ pc[t] = "idle" /\ LockFree /\ tree[t] # "absent" /\ board[t].id # 0
    /\ \E u \in Registered(board) \ {t} :
          /\ TRUE \in Looks(board, u)
          /\ \E path \in Candidates(board, t) \cap Owned(board, u) :
                board' = [board EXCEPT ![t].acks = @ \cup {Evidence(board[u].id, path)}]
    /\ UNCHANGED <<commandVars, worldVars, ids, lapsed>>

\* finish, by the id of the entry.
Release(t) ==
    /\ pc[t] = "idle" /\ LockFree /\ board[t].id # 0
    /\ board' = [board EXCEPT ![t] = NoEntry]
    /\ UNCHANGED <<commandVars, worldVars, ids, lapsed>>

\* admit: the scope and the heartbeat are renewed whatever the decision will be.
AskAdmission(t) ==
    /\ pc[t] = "idle" /\ tree[t] # "absent" /\ board[t].id # 0
    /\ \E scope \in Scopes \cup {board[t].scope} :
          /\ Open(t, [board EXCEPT ![t].scope = scope, ![t].fresh = TRUE])
          /\ mine' = [mine EXCEPT ![t] = scope \cup edits[t]]
    /\ todo' = [todo EXCEPT ![t] = Registered(board) \ {t}]
    /\ Goto(t, "admit")
    /\ UNCHANGED <<board, hits, doomed, worldVars, ids, lapsed>>

\* One sibling at a time: its worktree and GitHub are asked now, the board was read before.
LookAt(t, u) ==
    /\ pc[t] \in {"admit", "gate"} /\ u \in todo[t]
    /\ todo' = [todo EXCEPT ![t] = @ \ {u}]
    /\ \E active \in Looks(data[t], u) :
          hits' = IF active THEN [hits EXCEPT ![t] = @ \cup Conflicts(data[t], t, u, mine[t])] ELSE hits
    /\ UNCHANGED <<pc, lock, data, mine, doomed, board, worldVars, ids, lapsed>>

\* RUN: the claim is recorded under the lock under which the siblings were looked at.
Admit(t) ==
    /\ pc[t] = "admit" /\ todo[t] = {} /\ hits[t] = {}
    /\ board' = [data[t] EXCEPT ![t].claims = ClaimsOf(data[t], t)]
    /\ Leave(t)
    /\ Forget(t)
    /\ UNCHANGED <<doomed, worldVars, ids, lapsed>>

\* WAIT: the claims of an earlier RUN stay.
Wait(t) ==
    /\ pc[t] = "admit" /\ todo[t] = {} /\ hits[t] # {}
    /\ board' = data[t]
    /\ Leave(t)
    /\ Forget(t)
    /\ UNCHANGED <<doomed, worldVars, ids, lapsed>>

\* enforce_scope_gate: no lock, and no entry of its own means no passage.
StartGate(t) ==
    /\ pc[t] = "idle" /\ tree[t] = "work" /\ board[t].id # 0
    /\ data' = [data EXCEPT ![t] = board]
    /\ mine' = [mine EXCEPT ![t] = Candidates(board, t)]
    /\ todo' = [todo EXCEPT ![t] = Registered(board) \ {t}]
    /\ Goto(t, "gate")
    /\ UNCHANGED <<lock, hits, doomed, board, worldVars, ids, lapsed>>

LeaveGate(t) ==
    /\ pc[t] = "gate" /\ todo[t] = {}
    /\ Goto(t, IF hits[t] = {} THEN "publish" ELSE "idle")
    /\ data' = [data EXCEPT ![t] = NoBoard]
    /\ Forget(t)
    /\ UNCHANGED <<lock, doomed, board, worldVars, ids, lapsed>>

-----------------------------------------------------------------------------
(* doctor --fix. *)

\* _safe_to_remove: the worktree is gone, or clean with its PR proven merged.
Diagnose ==
    /\ pc[Doctor] = "idle"
    /\ Open(Doctor, board)
    /\ \E merged \in SUBSET {u \in Registered(board) : tree[u] = "merged"} :
          doomed' = {u \in Registered(board) : tree[u] = "absent"} \cup merged
    /\ Goto(Doctor, "fix")
    /\ UNCHANGED <<mine, todo, hits, board, worldVars, ids, lapsed>>

Fix ==
    /\ pc[Doctor] = "fix"
    /\ board' = [t \in Tasks |-> IF t \in doomed THEN NoEntry ELSE data[Doctor][t]]
    /\ doomed' = {}
    /\ Leave(Doctor)
    /\ UNCHANGED <<mine, todo, hits, worldVars, ids, lapsed>>

-----------------------------------------------------------------------------
(* The worktrees, GitHub and the clock. *)

\* start_worktree: a new branch and a new worktree.
CreateWorktree(t) ==
    /\ pc[t] = "idle" /\ tree[t] = "absent"
    /\ tree' = [tree EXCEPT ![t] = "work"]
    /\ UNCHANGED <<commandVars, board, edits, ids, lapsed>>

Lapse(t) ==
    /\ lapsed' = IF board[t].id = 0 THEN lapsed ELSE lapsed \cup {board[t].id}
    /\ Cardinality(lapsed') <= MaxLapses

RemoveWorktree(t) ==
    /\ pc[t] = "idle" /\ tree[t] # "absent"
    /\ tree' = [tree EXCEPT ![t] = "absent"]
    /\ edits' = [edits EXCEPT ![t] = {}]
    /\ Lapse(t)
    /\ UNCHANGED <<commandVars, board, ids>>

\* A commit changes one more path of the branch, or takes a change back; the head of a
\* merged PR is left behind by it.
Commit(t) ==
    /\ pc[t] = "idle" /\ tree[t] # "absent"
    /\ \E path \in Paths :
          \/ edits' = [edits EXCEPT ![t] = @ \cup {path}]
          \/ edits' = [edits EXCEPT ![t] = @ \ {path}]
    /\ tree' = [tree EXCEPT ![t] = "work"]
    /\ UNCHANGED <<commandVars, board, ids, lapsed>>

\* The publication behind the gate: GitHub merges the head, or finish stops.
Publish(t) ==
    /\ pc[t] = "publish"
    /\ Goto(t, "idle")
    /\ \/ tree' = [tree EXCEPT ![t] = "merged"] /\ Lapse(t)
       \/ UNCHANGED <<tree, lapsed>>
    /\ UNCHANGED <<lock, data, mine, todo, hits, doomed, board, edits, ids>>

\* Three days without update or admit: for every reader of that heartbeat.
Expire(t) ==
    /\ board[t].fresh /\ lock # t
    /\ board' = [board EXCEPT ![t].fresh = FALSE]
    /\ data' = [p \in Procs |-> [data[p] EXCEPT ![t].fresh = FALSE]]
    /\ Lapse(t)
    /\ UNCHANGED <<pc, lock, mine, todo, hits, doomed, worldVars, ids>>

\* A command is refused, or killed: nothing is written, and the kernel drops the lock.
Refuse(p) ==
    /\ pc[p] \in {"admit", "gate", "fix"}
    /\ Leave(p)
    /\ IF p = Doctor THEN doomed' = {} /\ UNCHANGED <<mine, todo, hits>>
                     ELSE Forget(p) /\ UNCHANGED doomed
    /\ UNCHANGED <<board, worldVars, ids, lapsed>>

-----------------------------------------------------------------------------

Command(t) ==
    \/ Register(t) \/ Update(t) \/ Acknowledge(t) \/ Release(t) \/ AskAdmission(t)
    \/ \E u \in Tasks : LookAt(t, u)
    \/ Admit(t) \/ Wait(t) \/ StartGate(t) \/ LeaveGate(t)

World(t) ==
    \/ CreateWorktree(t) \/ RemoveWorktree(t) \/ Commit(t) \/ Publish(t) \/ Expire(t)

Next ==
    \/ \E p \in Procs : Refuse(p)
    \/ \E t \in Tasks : Command(t) \/ World(t)
    \/ Diagnose \/ Fix

Spec == Init /\ [][Next]_vars

-----------------------------------------------------------------------------
(* Properties. *)

Excused(t, u, path) ==
    \/ path \in Generated
    \/ <<board[u].id, path>> \in board[t].acks \/ <<board[t].id, path>> \in board[u].acks
    \/ {board[t].id, board[u].id} \cap (lapsed \cup {0}) # {}

\* Two admitted tasks never claim the same file, unless one has acknowledged this very
\* overlap with the present entry of the other, or one has once ceased to be an active
\* owner (_admission_conflicts: "race-safe on one machine").
ClaimsAreExclusive ==
    \A t, u \in Registered(board) : t # u =>
        \A path \in board[t].claims \cap board[u].claims : Excused(t, u, path)

\* Behind the gate, two tasks never carry changes of the same file at the same time, with
\* the same excuses: also for files that they came to change after their admission, and
\* although the gate reads the board without its lock (enforce_scope_gate).
PublicationsAreExclusive ==
    \A t, u \in Tasks : t # u /\ pc[t] = "publish" /\ pc[u] = "publish" =>
        \A path \in edits[t] \cap edits[u] : Excused(t, u, path)

\* Nobody writes back an old entry of another task: an entry changes by a command of its
\* own task, by the clock, or it is removed by a doctor who saw its owner gone or merged
\* (locked_json).
NoLostUpdate ==
    [][\A t \in Tasks : board'[t] # board[t] =>
          \/ pc[t] # pc'[t] \/ UNCHANGED commandVars
          \/ board'[t] = [board[t] EXCEPT !.fresh = FALSE]
          \/ board'[t] = NoEntry /\ pc[Doctor] = "fix" /\ board[t].id \in lapsed]_vars

=============================================================================

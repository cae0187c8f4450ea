-------------------------- MODULE MainAdvances --------------------------
(***************************************************************************)
(* How local main advances in the integration copy, and who is told apart  *)
(* from whom (finish_task.py in direct mode, project_sync.py,              *)
(* delegation_containment.py).  A direct finish fast-forwards main to its  *)
(* branch, pushes, and only then writes a receipt; a synchronization       *)
(* fast-forwards to origin and writes one.  Main's reflog has to prove     *)
(* that the own merge moved it.  When a delegated child with a shell has   *)
(* returned, its supervisor accepts a main that moved meanwhile only along *)
(* an unbroken chain of receipts of other worktrees.                       *)
(*                                                                         *)
(* A history is the sequence of its commits, so that an ancestor is a      *)
(* prefix.  The content of the integration copy that is not committed is   *)
(* one flag.  Files and tools other than these are left out.               *)
(***************************************************************************)
EXTENDS Naturals, Sequences, SequencesExt

CONSTANTS
    Finishers,        \* the tasks with a worktree
    DelegatedTask,    \* the one of them whose work a child does
    NoTask,
    MaxCommits, MaxRaw, MaxStops   \* bounds: commits, moves without a tool of the platform, kills and failed pushes

\* No task is called like an entry of the reflog that is not its own merge.
ASSUME AdvanceAssumption ==
    /\ DelegatedTask \in Finishers /\ NoTask \notin Finishers
    /\ {"start", "origin", "pull", "commit", "raw"} \cap Finishers = {}

VARIABLES
    local,      \* main in the integration copy
    originMain, \* origin/main as the checkouts know it
    remote,     \* main on the server
    reflog,     \* of local main: where it came to, and by which command
    unclean,    \* something uncommitted in the integration copy
    branch,     \* of a task: its branch
    receipts,   \* the log of integration advances
    lockedBy,   \* the integration lock
    finish,     \* of a task: its command
    window,     \* the delegation: what its supervisor has recorded
    spent,      \* counters of the bounds
    moves,      \* history: the moves of local main
    raced,      \* history: the same Git command as a synchronization's ran inside it
    deliveredHeads   \* history: the heads that a direct finish has reported

advanceVars == <<local, originMain, remote, reflog, unclean, branch, receipts, lockedBy, finish, window, spent, moves, raced, deliveredHeads>>

AtRest == [does |-> "nothing", at |-> "none", from |-> <<>>, to |-> <<>>]
NotOpen == [state |-> "none", head |-> <<>>, dirty |-> FALSE, receipts |-> 0, after |-> <<>>]

AdvanceInit ==
    /\ local = <<>> /\ originMain = <<>> /\ remote = <<>>
    /\ reflog = <<[to |-> <<>>, how |-> "start"]>>
    /\ unclean = FALSE
    /\ branch = [t \in Finishers |-> <<>>]
    /\ receipts = <<>> /\ lockedBy = NoTask
    /\ finish = [t \in Finishers |-> AtRest]
    /\ window = NotOpen
    /\ spent = [commits |-> 0, raw |-> 0, stops |-> 0]
    /\ moves = <<>> /\ raced = FALSE /\ deliveredHeads = {}

Before(a, b) == IsPrefix(a, b) /\ a # b
FinishAt(t, what, step) == finish[t].does = what /\ finish[t].at = step
Proceeds(t, step) == finish' = [finish EXCEPT ![t].at = step]
Leaves(t) == finish' = [finish EXCEPT ![t] = AtRest] /\ lockedBy' = NoTask
Spend(what, limit) == spent[what] < limit /\ spent' = [spent EXCEPT ![what] = @ + 1]
NewCommit == spent.commits + 1

\* Local main moves, and its reflog says how.
MoveTo(tipped, how, who) ==
    /\ local' = tipped
    /\ reflog' = Append(reflog, [to |-> tipped, how |-> how])
    /\ moves' = Append(moves, [before |-> local, after |-> tipped, by |-> who])
Stays == UNCHANGED <<local, reflog, moves>>
Apart == UNCHANGED <<unclean, window, raced>>

-----------------------------------------------------------------------------
(* Both commands hold the integration lock from their checks on. *)

TakeIntegration(t, what) ==
    /\ finish[t] = AtRest /\ lockedBy = NoTask
    /\ what = "direct" => branch[t] # <<>>
    /\ lockedBy' = t /\ finish' = [finish EXCEPT ![t] = [AtRest EXCEPT !.does = what, !.at = "check"]]
    /\ Stays /\ Apart /\ UNCHANGED <<originMain, remote, branch, receipts, spent, deliveredHeads>>

\* Main has to contain origin's, and the branch main; the head is read.
CheckDirect(t) ==
    /\ FinishAt(t, "direct", "check")
    /\ originMain' = remote
    /\ IF ~unclean /\ IsPrefix(remote, local) /\ IsPrefix(local, branch[t])
       THEN /\ finish' = [finish EXCEPT ![t].at = "merge", ![t].from = local]
            /\ UNCHANGED lockedBy
       ELSE Leaves(t)
    /\ Stays /\ Apart /\ UNCHANGED <<remote, branch, receipts, spent, deliveredHeads>>

CheckSync(t) ==
    /\ FinishAt(t, "sync", "check")
    /\ originMain' = remote
    /\ IF ~unclean /\ Before(local, remote)
       THEN /\ finish' = [finish EXCEPT ![t].at = "merge", ![t].from = local]
            /\ UNCHANGED lockedBy
       ELSE Leaves(t)
    /\ Stays /\ Apart /\ UNCHANGED <<remote, branch, receipts, spent, deliveredHeads>>

\* A merge that is up to date moves nothing and writes no reflog entry.
FastForward(t, target, how, step) ==
    \/ Before(local, target) /\ MoveTo(target, how, t) /\ Proceeds(t, step) /\ UNCHANGED lockedBy
    \/ IsPrefix(target, local) /\ Stays /\ Proceeds(t, step) /\ UNCHANGED lockedBy
    \/ ~IsPrefix(local, target) /\ ~IsPrefix(target, local) /\ Stays /\ Leaves(t)

MergeDirect(t) ==
    /\ FinishAt(t, "direct", "merge") /\ FastForward(t, branch[t], t, "publish")
    /\ Apart /\ UNCHANGED <<originMain, remote, branch, receipts, spent, deliveredHeads>>

MergeSync(t) ==
    /\ FinishAt(t, "sync", "merge") /\ FastForward(t, originMain, "origin", "conclude")
    /\ Apart /\ UNCHANGED <<originMain, remote, branch, receipts, spent, deliveredHeads>>

\* The publication fetches again; what is already there needs no push.
PublishDirect(t) ==
    /\ FinishAt(t, "direct", "publish")
    /\ \/ ~unclean /\ IsPrefix(remote, local) /\ remote' = local /\ originMain' = local
          /\ Proceeds(t, "conclude") /\ UNCHANGED <<lockedBy, spent>>
       \/ (unclean \/ ~IsPrefix(remote, local)) /\ originMain' = remote /\ Leaves(t) /\ UNCHANGED <<remote, spent>>
       \/ originMain' = remote /\ Spend("stops", MaxStops) /\ Leaves(t) /\ UNCHANGED remote
    /\ Stays /\ Apart /\ UNCHANGED <<branch, receipts, deliveredHeads>>

\* A retry finds main where an earlier run of the task has left it.
NeverUnrecorded(t) == {}
UnrecordedAdvance(t) ==
    IF \E i \in DOMAIN receipts : receipts[i].after = local
    THEN {}
    ELSE {reflog[i - 1].to : i \in {k \in 2..Len(reflog) : reflog[k].to = local /\ reflog[k].how = t}}

Conclude(t) ==
    /\ finish[t].at = "conclude"
    /\ LET from == IF finish[t].from # local THEN {finish[t].from}
                   ELSE IF finish[t].does = "direct" THEN UnrecordedAdvance(t) ELSE {local}
       IN IF from = {}
          THEN Leaves(t) /\ deliveredHeads' = deliveredHeads \cup {[task |-> t, head |-> local]}
          ELSE /\ \E tipped \in from : finish' = [finish EXCEPT ![t].at = "prove", ![t].from = tipped, ![t].to = local]
               /\ UNCHANGED <<lockedBy, deliveredHeads>>
    /\ Stays /\ Apart /\ UNCHANGED <<originMain, remote, branch, receipts, spent>>

\* The newest entry of the reflog is the own merge, from the head that was read.
AnyAdvance(t) == TRUE
OwnFastForward(t) ==
    /\ Len(reflog) > 1
    /\ reflog[Len(reflog)] = [to |-> finish[t].to, how |-> IF finish[t].does = "direct" THEN t ELSE "origin"]
    /\ reflog[Len(reflog) - 1].to = finish[t].from

Prove(t) ==
    /\ finish[t].at = "prove"
    /\ IF OwnFastForward(t) THEN Proceeds(t, "record") /\ UNCHANGED lockedBy ELSE Leaves(t)
    /\ Stays /\ Apart /\ UNCHANGED <<originMain, remote, branch, receipts, spent, deliveredHeads>>

Record(t) ==
    /\ finish[t].at = "record"
    /\ finish[t].from # finish[t].to
    /\ receipts' = Append(receipts, [before |-> finish[t].from, after |-> finish[t].to, main |-> originMain, actor |-> t])
    /\ deliveredHeads' = IF finish[t].does = "direct" THEN deliveredHeads \cup {[task |-> t, head |-> finish[t].to]} ELSE deliveredHeads
    /\ Leaves(t)
    /\ Stays /\ Apart /\ UNCHANGED <<originMain, remote, branch, spent>>

KillFinish(t) ==
    /\ finish[t] # AtRest /\ Spend("stops", MaxStops) /\ Leaves(t)
    /\ Stays /\ Apart /\ UNCHANGED <<originMain, remote, branch, receipts, deliveredHeads>>

-----------------------------------------------------------------------------
(* The work of tasks and people. *)

\* A task commits, on top of the main it rebases to.
Rebase(t) ==
    /\ finish[t] = AtRest /\ Spend("commits", MaxCommits)
    /\ branch' = [branch EXCEPT ![t] = Append(local, NewCommit)]
    /\ Stays /\ Apart /\ UNCHANGED <<originMain, remote, receipts, lockedBy, finish, deliveredHeads>>

RemoteMerge ==
    /\ Spend("commits", MaxCommits) /\ remote' = Append(remote, NewCommit)
    /\ Stays /\ Apart /\ UNCHANGED <<originMain, branch, receipts, lockedBy, finish, deliveredHeads>>

Fetch ==
    /\ originMain # remote /\ originMain' = remote
    /\ Stays /\ Apart /\ UNCHANGED <<remote, branch, receipts, lockedBy, finish, spent, deliveredHeads>>

\* The child, or a person, in the integration copy: a pull, the same merge that
\* a synchronization makes, a commit, an edit.
RawFastForward(how) ==
    /\ Before(local, originMain) /\ Spend("raw", MaxRaw)
    /\ MoveTo(originMain, how, "raw")
    /\ raced' = (raced \/ (how = "origin" /\ \E t \in Finishers : FinishAt(t, "sync", "merge")))
    /\ UNCHANGED <<originMain, remote, unclean, branch, receipts, lockedBy, finish, window, deliveredHeads>>

RawCommit ==
    /\ spent.raw < MaxRaw /\ spent.commits < MaxCommits
    /\ spent' = [spent EXCEPT !.raw = @ + 1, !.commits = @ + 1]
    /\ MoveTo(Append(local, NewCommit), "commit", "raw")
    /\ Apart /\ UNCHANGED <<originMain, remote, branch, receipts, lockedBy, finish, deliveredHeads>>

RawEdit ==
    /\ Spend("raw", MaxRaw) /\ unclean' = ~unclean
    /\ Stays /\ UNCHANGED <<originMain, remote, branch, receipts, lockedBy, finish, window, raced, deliveredHeads>>

-----------------------------------------------------------------------------
(* The delegation. *)

Aside == Stays /\ UNCHANGED <<originMain, remote, unclean, branch, receipts, lockedBy, finish, spent, raced, deliveredHeads>>

\* The route remembers the integration copy.
PrepareWindow ==
    /\ window.state = "none"
    /\ window' = [NotOpen EXCEPT !.state = "prepared", !.head = local, !.dirty = unclean]
    /\ Aside

OpenWindow ==
    /\ window.state = "prepared"
    /\ window' = [window EXCEPT !.state = "open", !.receipts = Len(receipts)]
    /\ Aside

\* When the child has returned, the integration copy is compared with it.
LookAfter ==
    /\ window.state = "open"
    /\ window' = IF unclean # window.dirty THEN [window EXCEPT !.state = "violation"]
                 ELSE IF local = window.head THEN [window EXCEPT !.state = "clean"]
                 ELSE [window EXCEPT !.state = "seen", !.after = local]
    /\ Aside

\* From the first receipt at the old head on, every one continues the last.
Anybody(advance) == TRUE
NotByTheChild(advance) == advance.actor # DelegatedTask

ChainHolds ==
    \E first \in window.receipts + 1 .. Len(receipts) :
        LET chain == SubSeq(receipts, first, Len(receipts)) IN
        /\ chain[1].before = window.head
        /\ \A i \in window.receipts + 1 .. first - 1 : receipts[i].before # window.head
        /\ \A i \in 2..Len(chain) : chain[i].before = chain[i - 1].after
        /\ \A i \in DOMAIN chain : chain[i].after = chain[i].main /\ NotByTheChild(chain[i])
        /\ chain[Len(chain)].after = window.after

AssessMove ==
    /\ window.state = "seen"
    /\ window' = IF Before(window.head, window.after) /\ originMain = window.after /\ ChainHolds
                 THEN [window EXCEPT !.state = "verified"]
                 ELSE [window EXCEPT !.state = "violation"]
    /\ Aside

AdvanceNext ==
    \/ \E t \in Finishers, what \in {"direct", "sync"} : TakeIntegration(t, what)
    \/ \E t \in Finishers :
        \/ CheckDirect(t) \/ MergeDirect(t) \/ PublishDirect(t) \/ CheckSync(t) \/ MergeSync(t)
        \/ Conclude(t) \/ Prove(t) \/ Record(t) \/ KillFinish(t) \/ Rebase(t)
    \/ \E how \in {"origin", "pull"} : RawFastForward(how)
    \/ RemoteMerge \/ Fetch \/ RawCommit \/ RawEdit
    \/ PrepareWindow \/ OpenWindow \/ LookAfter \/ AssessMove

AdvanceSpec == AdvanceInit /\ [][AdvanceNext]_advanceVars

-----------------------------------------------------------------------------
(* Properties. *)

TrueReceipt(advance) ==
    \E i \in DOMAIN moves :
        moves[i] = [before |-> advance.before, after |-> advance.after, by |-> advance.actor]

\* A receipt names a move of main that its actor made, from exactly that head;
\* excused is the same Git command run by somebody else in the middle of a
\* synchronization.  And a direct finish that reports its end has a receipt of
\* its own for the head it delivered, in whichever run main was advanced or
\* pushed.
ReceiptsAreTrue ==
    /\ ~raced => \A i \in DOMAIN receipts : TrueReceipt(receipts[i])
    /\ \A d \in deliveredHeads : \E i \in DOMAIN receipts : receipts[i].after = d.head /\ receipts[i].actor = d.task

\* The comment of require_own_fast_forward, without that excuse.
NeverMisattributed == \A i \in DOMAIN receipts : TrueReceipt(receipts[i])

\* An advance that the supervisor accepts was made by commands of other tasks
\* alone: neither by the child's own finish nor around the platform.
VerifiedIsForeign ==
    window.state = "verified" /\ ~raced =>
        \A i \in DOMAIN moves :
            IsPrefix(window.head, moves[i].before) /\ IsPrefix(moves[i].after, window.after)
                => moves[i].by \in Finishers \ {DelegatedTask}
====

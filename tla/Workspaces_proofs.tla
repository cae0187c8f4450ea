------------------------- MODULE Workspaces_proofs -------------------------
(***************************************************************************)
(* Proofs about the parts that own a checkout: that the cleanup of task    *)
(* worktrees deletes a branch only at a head that is proven; that a        *)
(* receipt of an advance of main names a move that its actor made; and     *)
(* that a supervisor accepts only moves that other tasks made; for any     *)
(* number of tasks, commands and commits.                                  *)
(***************************************************************************)
EXTENDS WorktreeCleanup, MainAdvances, WellFoundedInduction, TLAPS

-----------------------------------------------------------------------------
(* Types. *)

JobStep == {"idle", "following", "confirmed", "identified", "deferring", "own", "cleaned",
            "chosen", "working", "removing", "unbranching", "proven", "abandoning", "scanned", "over"}
JobRecord == [at : JobStep, task : Tasks, head : Nat]
Heads == [Tasks -> Nat]
NoHeads == [t \in Tasks |-> 0]

\* What the proofs use of the types.
LEMMA CleanupTypes ==
    ASSUME CleanupTypeOK
    PROVE  /\ job \in [Cleaners -> JobRecord] /\ head \in Heads /\ delivered \in Heads /\ records \in Heads
           /\ seen \in [Cleaners -> Heads] /\ kept \in [Cleaners -> Heads]
           /\ left \in [Cleaners -> SUBSET Tasks] /\ selected \in [Cleaners -> SUBSET Tasks]
           /\ tree \in [Tasks -> BOOLEAN] /\ dirty \in [Tasks -> BOOLEAN] /\ busy \in [Tasks -> BOOLEAN]
           /\ overlooked \subseteq Tasks \X Nat /\ NoHeads \in Heads /\ NoJob.task \in Tasks
           /\ request \in [Tasks -> [state : {"none", "open", "closed"}, head : Nat]]
  BY CleanupAssumption DEF CleanupTypeOK, JobRecord, JobStep, Heads, NoHeads, NoJob

\* A command that turns to another step, or stays where it is.
LEMMA JobTypes ==
    ASSUME CleanupTypeOK, NEW c \in Cleaners, CleanerStep(c)
    PROVE  /\ job' \in [Cleaners -> JobRecord]
           /\ \A d \in Cleaners \ {c} : job'[d] = job[d]
<1>1. job \in [Cleaners -> JobRecord] /\ job[c].task \in Tasks /\ job[c].head \in Nat /\ NoJob.task \in Tasks
      /\ \A t \in Tasks : head[t] \in Nat
  BY CleanupTypes DEF JobRecord, Heads
<1>2. job' = job \/ \E step \in JobStep, t \in Tasks, h \in Nat : Hold(c, step, t, h)
  BY <1>1 DEF CleanerStep, FollowRequest, FindMerged, ConfirmMerge, IdentifyOwn, ReadToDefer,
         WriteDeferred, RemoveOwn, DeleteOwnBranch, WarnOwn, SelectDeferred, ReadDeferred, KeepDeferred,
         TakeDeferred, RemoveDeferred, DeleteDeferredBranch, WriteKept, ScanOrdinary, RemoveOrdinary,
         ProveAbandoned, RemoveAbandoned, DeleteAbandonedBranch, Become, Turn, JobStep
<1> QED
  BY <1>1, <1>2 DEF Hold, JobRecord

\* The step of a command leaves the agents' and GitHub's part of the world alone.
LEMMA CleanerLeaves ==
    ASSUME NEW c \in Cleaners, CleanerStep(c)
    PROVE  UNCHANGED <<dirty, delivered, request, extent, overlooked>>
  BY DEF CleanerStep, FollowRequest, FindMerged, ConfirmMerge, IdentifyOwn, ReadToDefer,
         WriteDeferred, RemoveOwn, DeleteOwnBranch, WarnOwn, SelectDeferred, ReadDeferred, KeepDeferred,
         TakeDeferred, RemoveDeferred, DeleteDeferredBranch, WriteKept, ScanOrdinary, RemoveOrdinary,
         ProveAbandoned, RemoveAbandoned, DeleteAbandonedBranch, Looking, taskVars

\* What a command reads and writes of the record file.
LEMMA RecordSteps ==
    ASSUME NEW c \in Cleaners, CleanerStep(c)
    PROVE  /\ seen' = seen \/ seen' = [seen EXCEPT ![c] = records] \/ seen' = [seen EXCEPT ![c] = NoHeads]
           /\ \/ records' = records \/ records' = kept[c]
              \/ job[c].at = "deferring" /\ records' = [seen[c] EXCEPT ![job[c].task] = job[c].head]
           /\ \/ kept' = kept \/ kept' = [kept EXCEPT ![c] = NoHeads]
              \/ \E t \in Tasks : Keep(c, t)
              \/ job[c].at \in {"removing", "unbranching"} /\ Keep(c, job[c].task)
<1>1. seen' = seen \/ seen' = [seen EXCEPT ![c] = records] \/ seen' = [seen EXCEPT ![c] = NoHeads]
  BY DEF CleanerStep, FollowRequest, FindMerged, ConfirmMerge, IdentifyOwn, ReadToDefer,
         WriteDeferred, RemoveOwn, DeleteOwnBranch, WarnOwn, SelectDeferred, ReadDeferred, KeepDeferred,
         TakeDeferred, RemoveDeferred, DeleteDeferredBranch, WriteKept, ScanOrdinary, RemoveOrdinary,
         ProveAbandoned, RemoveAbandoned, DeleteAbandonedBranch, Looking, Forget, NoHeads
<1>2. \/ records' = records \/ records' = kept[c]
      \/ job[c].at = "deferring" /\ records' = [seen[c] EXCEPT ![job[c].task] = job[c].head]
  BY DEF CleanerStep, FollowRequest, FindMerged, ConfirmMerge, IdentifyOwn, ReadToDefer,
         WriteDeferred, RemoveOwn, DeleteOwnBranch, WarnOwn, SelectDeferred, ReadDeferred, KeepDeferred,
         TakeDeferred, RemoveDeferred, DeleteDeferredBranch, WriteKept, ScanOrdinary, RemoveOrdinary,
         ProveAbandoned, RemoveAbandoned, DeleteAbandonedBranch, Looking, At
<1>3. \/ kept' = kept \/ kept' = [kept EXCEPT ![c] = NoHeads]
      \/ \E t \in Tasks : Keep(c, t)
      \/ job[c].at \in {"removing", "unbranching"} /\ Keep(c, job[c].task)
  BY DEF CleanerStep, FollowRequest, FindMerged, ConfirmMerge, IdentifyOwn, ReadToDefer,
         WriteDeferred, RemoveOwn, DeleteOwnBranch, WarnOwn, SelectDeferred, ReadDeferred, KeepDeferred,
         TakeDeferred, RemoveDeferred, DeleteDeferredBranch, WriteKept, ScanOrdinary, RemoveOrdinary,
         ProveAbandoned, RemoveAbandoned, DeleteAbandonedBranch, Looking, Forget, NoHeads, At
<1> QED
  BY <1>1, <1>2, <1>3

\* What a command reads, keeps and writes of the record file are heads by task.
LEMMA RecordTypes ==
    ASSUME CleanupTypeOK, NEW c \in Cleaners, CleanerStep(c)
    PROVE  records' \in Heads /\ seen' \in [Cleaners -> Heads] /\ kept' \in [Cleaners -> Heads]
<1>1. /\ job[c].task \in Tasks /\ job[c].head \in Nat /\ records \in Heads /\ seen \in [Cleaners -> Heads]
      /\ kept \in [Cleaners -> Heads] /\ NoHeads \in Heads
  BY CleanupTypes DEF JobRecord
<1>2. records' \in Heads
  <2>1. CASE records' = records \/ records' = kept[c]
    BY <1>1, <2>1
  <2>2. CASE records' = [seen[c] EXCEPT ![job[c].task] = job[c].head]
    BY <1>1, <2>2 DEF Heads
  <2> QED
    BY <2>1, <2>2, RecordSteps
<1>3. seen' \in [Cleaners -> Heads]
  BY <1>1, RecordSteps
<1>4. ASSUME NEW t \in Tasks, Keep(c, t) PROVE kept' \in [Cleaners -> Heads]
  <2>1. [kept[c] EXCEPT ![t] = seen[c][t]] \in Heads
    BY <1>1 DEF Heads
  <2>2. kept' = [kept EXCEPT ![c] = [kept[c] EXCEPT ![t] = seen[c][t]]]
    BY <1>4 DEF Keep
  <2> QED
    BY <1>1, <2>1, <2>2
<1>5. kept' \in [Cleaners -> Heads]
  BY <1>1, <1>4, RecordSteps
<1> QED
  BY <1>2, <1>3, <1>5

\* A command deletes branches and worktrees, and nothing comes back.
LEMMA Removals ==
    ASSUME CleanupTypeOK, NEW c \in Cleaners, CleanerStep(c)
    PROVE  /\ \/ head' = head
              \/ /\ DeleteDeferredBranch(c) \/ DeleteOwnBranch(c) \/ DeleteAbandonedBranch(c)
                 /\ tree' = tree
                 /\ \/ ~tree[job[c].task] \/ head[job[c].task] = 0
                 /\ head' = [head EXCEPT ![job[c].task] = 0]
           /\ tree' = tree \/ \E t \in Tasks : tree' = [tree EXCEPT ![t] = FALSE]
           /\ busy' = busy \/ \E t \in Tasks : busy' = [busy EXCEPT ![t] = FALSE]
<1>1. job[c].task \in Tasks /\ head \in Heads
  BY CleanupTypes DEF JobRecord
<1>2. ASSUME DeleteDeferredBranch(c) \/ DeleteOwnBranch(c) \/ DeleteAbandonedBranch(c)
      PROVE  /\ tree' = tree /\ busy' = busy
             /\ \/ head' = head
                \/ /\ ~tree[job[c].task] \/ head[job[c].task] = 0
                   /\ head' = [head EXCEPT ![job[c].task] = 0]
  <2>1. CASE DeleteDeferredBranch(c)
    BY <2>1 DEF DeleteDeferredBranch
  <2>2. CASE DeleteOwnBranch(c)
    BY <1>1, <2>2 DEF DeleteOwnBranch, Heads
  <2>3. CASE DeleteAbandonedBranch(c)
    BY <1>1, <2>3 DEF DeleteAbandonedBranch, Heads
  <2> QED
    BY <1>2, <2>1, <2>2, <2>3
<1>3. ASSUME ~DeleteDeferredBranch(c), ~DeleteOwnBranch(c), ~DeleteAbandonedBranch(c)
      PROVE  /\ head' = head
             /\ tree' = tree \/ \E t \in Tasks : tree' = [tree EXCEPT ![t] = FALSE]
             /\ busy' = busy \/ \E t \in Tasks : busy' = [busy EXCEPT ![t] = FALSE]
  BY <1>1, <1>3 DEF CleanerStep, FollowRequest, FindMerged, ConfirmMerge, IdentifyOwn, ReadToDefer,
         WriteDeferred, RemoveOwn, WarnOwn, SelectDeferred, ReadDeferred, KeepDeferred, TakeDeferred,
         RemoveDeferred, WriteKept, ScanOrdinary, RemoveOrdinary, ProveAbandoned, RemoveAbandoned, Looking,
         taskVars
<1> QED
  BY <1>2, <1>3

\* The sets of tasks a command works on.
LEMMA ChoiceTypes ==
    ASSUME CleanupTypeOK, NEW c \in Cleaners, CleanerStep(c)
    PROVE  selected' \in [Cleaners -> SUBSET Tasks] /\ left' \in [Cleaners -> SUBSET Tasks]
<1>1. job[c].task \in Tasks /\ selected \in [Cleaners -> SUBSET Tasks] /\ left \in [Cleaners -> SUBSET Tasks]
  BY CleanupTypes DEF JobRecord
<1>2. selected' = selected \/ \E S \in SUBSET Tasks : selected' = [selected EXCEPT ![c] = S]
  <2>1. ASSUME ReadDeferred(c) PROVE \E S \in SUBSET Tasks : selected' = [selected EXCEPT ![c] = S]
    BY <1>1, <2>1 DEF ReadDeferred
  <2>2. ASSUME SelectDeferred(c) PROVE \E S \in SUBSET Tasks : selected' = [selected EXCEPT ![c] = S]
    <3> DEFINE Unused == {t \in Recorded(records) : ~busy[t]}
    <3>1. Unused \subseteq Tasks
      BY DEF Recorded
    <3>2. \E S \in SUBSET Unused : selected' = [selected EXCEPT ![c] = S]
      BY <2>2 DEF SelectDeferred
    <3> QED
      BY <3>1, <3>2
  <2>3. ASSUME ~ReadDeferred(c), ~SelectDeferred(c)
        PROVE  selected' = selected \/ selected' = [selected EXCEPT ![c] = {}]
    BY <2>3 DEF CleanerStep, FollowRequest, FindMerged, ConfirmMerge, IdentifyOwn, ReadToDefer,
           WriteDeferred, RemoveOwn, DeleteOwnBranch, WarnOwn, KeepDeferred, TakeDeferred, RemoveDeferred,
           DeleteDeferredBranch, WriteKept, ScanOrdinary, RemoveOrdinary, ProveAbandoned, RemoveAbandoned,
           DeleteAbandonedBranch, Looking, Forget
  <2> QED
    BY <2>1, <2>2, <2>3
<1>3. \/ left' = left
      \/ \E S \in SUBSET Tasks : left' = [left EXCEPT ![c] = S]
      \/ \E t \in Tasks : left' = [left EXCEPT ![c] = @ \ {t}]
  BY <1>1 DEF CleanerStep, FollowRequest, FindMerged, ConfirmMerge, IdentifyOwn, ReadToDefer,
         WriteDeferred, RemoveOwn, DeleteOwnBranch, WarnOwn, SelectDeferred, ReadDeferred, KeepDeferred,
         TakeDeferred, RemoveDeferred, DeleteDeferredBranch, WriteKept, ScanOrdinary, RemoveOrdinary,
         ProveAbandoned, RemoveAbandoned, DeleteAbandonedBranch, Looking, Forget, Recorded, Keep
<1> QED
  BY <1>1, <1>2, <1>3

\* The step of a command keeps the types of everything.
LEMMA CleanerTypes ==
    ASSUME CleanupTypeOK, NEW c \in Cleaners, CleanerStep(c)
    PROVE  CleanupTypeOK'
<1>1. job' \in [Cleaners -> JobRecord] /\ job[c].task \in Tasks
  BY JobTypes, CleanupTypes DEF JobRecord
<1>2. head' \in Heads
  BY <1>1, Removals, CleanupTypes DEF Heads
<1>3. tree' \in [Tasks -> BOOLEAN] /\ busy' \in [Tasks -> BOOLEAN]
  BY Removals, CleanupTypes
<1> QED
  BY <1>1, <1>2, <1>3, CleanerLeaves, RecordTypes, ChoiceTypes DEF CleanupTypeOK, JobRecord, JobStep, Heads

\* So does what agents and GitHub do.
LEMMA AgentTypes ==
    ASSUME CleanupTypeOK, NEW t \in Tasks, Agent(t) \/ GitHub(t)
    PROVE  CleanupTypeOK'
<1>1. head \in Heads /\ overlooked \subseteq Tasks \X Nat
  BY CleanupTypes
<1>2. CASE Agent(t)
  <2>1. head' = head \/ head' = [head EXCEPT ![t] = @ + 1]
    BY <1>2 DEF Agent
  <2>2. head' \in Heads
    BY <1>1, <2>1 DEF Heads
  <2>3. overlooked' \in SUBSET (Tasks \X Nat)
    BY <1>1, <1>2 DEF Agent, Heads
  <2>4. /\ dirty' \in [Tasks -> BOOLEAN] /\ busy' \in [Tasks -> BOOLEAN]
        /\ UNCHANGED <<tree, delivered, request, records, jobVars, extent>>
    BY <1>2 DEF Agent, CleanupTypeOK
  <2> QED
    BY <2>2, <2>3, <2>4 DEF CleanupTypeOK, Heads, jobVars
<1>3. CASE GitHub(t)
  <2>1. /\ head[t] \in Nat /\ request[t].head \in Nat
        /\ request \in [Tasks -> [state : {"none", "open", "closed"}, head : Nat]]
    BY CleanupTypes DEF Heads
  <2>2. request' \in [Tasks -> [state : {"none", "open", "closed"}, head : Nat]]
    BY <1>3, <2>1 DEF GitHub
  <2>3. delivered' \in [Tasks -> Nat]
    BY <1>3, <2>1 DEF GitHub, CleanupTypeOK
  <2>4. overlooked' \in SUBSET (Tasks \X Nat)
    BY <1>1, <1>3, <2>1 DEF GitHub
  <2> QED
    BY <1>3, <2>2, <2>3, <2>4 DEF GitHub, CleanupTypeOK, jobVars
<1> QED
  BY <1>2, <1>3

\* The types hold before the first command.
LEMMA CleanupInitTypes == CleanupInit => CleanupTypeOK
<1> SUFFICES ASSUME CleanupInit PROVE CleanupTypeOK
  OBVIOUS
<1>1. NoJob \in JobRecord
  BY CleanupAssumption DEF NoJob, JobRecord, JobStep
<1>2. tree \in [Tasks -> BOOLEAN] /\ head \in [Tasks -> Nat]
  BY DEF CleanupInit
<1> QED
  BY <1>1, <1>2 DEF CleanupInit, CleanupTypeOK, JobRecord, JobStep

\* The variables have their types, however many tasks and commands there are.
THEOREM CleanupTypeCorrect == CleanupSpec => []CleanupTypeOK
<1>1. CleanupTypeOK /\ [CleanupNext]_cleanupVars => CleanupTypeOK'
  <2> SUFFICES ASSUME CleanupTypeOK, [CleanupNext]_cleanupVars PROVE CleanupTypeOK'
    OBVIOUS
  <2>1. CASE UNCHANGED cleanupVars
    BY <2>1 DEF CleanupTypeOK, cleanupVars, taskVars, jobVars
  <2> QED
    BY <2>1, CleanerTypes, AgentTypes DEF CleanupNext
<1> QED
  BY <1>1, CleanupInitTypes, PTL DEF CleanupSpec

-----------------------------------------------------------------------------
(* What is known of a branch that may be deleted.  A recorded head is one  *)
(* that main contains, or that was overlooked when its finish recorded it, *)
(* wherever the record travels; so is the head that a finish has confirmed *)
(* or looked up; what was proven abandoned keeps its closed request; and a *)
(* branch that is gone has no worktree in which it could come back.        *)

Excused(t, h) == h <= delivered[t] \/ <<t, h>> \in overlooked
Abandoned(t) == request[t] = [state |-> "closed", head |-> head[t]] \/ <<t, head[t]>> \in overlooked

RecordsAreDelivered ==
    \A t \in Tasks :
        /\ delivered[t] <= request[t].head
        /\ Excused(t, records[t])
        /\ \A c \in Cleaners : Excused(t, seen[c][t]) /\ Excused(t, kept[c][t])

\* What a command has found out about the task it works on.
Found(c, t) ==
    /\ job[c].at = "following" => head[t] \in {0, job[c].head} \/ <<t, head[t]>> \in overlooked
    /\ job[c].at \in {"confirmed", "own"} => Excused(t, head[t])
    /\ job[c].at \in {"identified", "deferring"} => Excused(t, job[c].head) /\ job[c].head # 0
    /\ job[c].at \in {"proven", "abandoning"} => head[t] = 0 \/ Abandoned(t)

FoundStays == \A c \in Cleaners, t \in Tasks : job[c].task = t => Found(c, t)

GoneStaysGone ==
    /\ \A t \in Tasks : head[t] = 0 => ~tree[t]
    /\ \A c \in Cleaners : job[c].at \in {"own", "abandoning"} => ~tree[job[c].task]

\* An entry that a command has read is still to be looked at, will be written
\* back, or has no branch any more.
Rewriting == {"working", "removing", "unbranching"}
KeptOrGone ==
    \A c \in Cleaners :
        /\ job[c].at \in Rewriting =>
               \A t \in Tasks : seen[c][t] # 0 => t \in left[c] \/ kept[c][t] = seen[c][t] \/ head[t] = 0
        /\ job[c].at \in {"removing", "unbranching"} => job[c].task \in left[c]

CleanupInv == CleanupTypeOK /\ RecordsAreDelivered /\ FoundStays /\ GoneStaysGone /\ KeptOrGone

\* What main contains, and the heads that were overlooked, only grow.
LEMMA ExcusesGrow ==
    ASSUME CleanupInv, CleanupNext, NEW t \in Tasks
    PROVE  /\ delivered'[t] \in Nat /\ delivered[t] \in Nat /\ delivered[t] <= delivered'[t]
           /\ delivered'[t] <= request'[t].head
           /\ overlooked \subseteq overlooked'
           /\ \A h \in Nat : Excused(t, h) => Excused(t, h)'
<1>1. /\ delivered[t] \in Nat /\ head[t] \in Nat /\ request[t].head \in Nat /\ delivered[t] <= request[t].head
      /\ delivered \in Heads /\ request \in [Tasks -> [state : {"none", "open", "closed"}, head : Nat]]
  BY CleanupTypes DEF CleanupInv, RecordsAreDelivered, Heads
<1> DEFINE Grows == /\ delivered'[t] \in Nat /\ delivered[t] <= delivered'[t] /\ delivered'[t] <= request'[t].head
                    /\ overlooked \subseteq overlooked'
<1>2. ASSUME NEW u \in Tasks, Agent(u) PROVE Grows
  BY <1>1, <1>2 DEF Agent
<1>3. ASSUME NEW u \in Tasks, GitHub(u) PROVE Grows
  <2>1. overlooked \subseteq overlooked'
    BY <1>3 DEF GitHub
  <2>2. CASE u # t
    <3>1. delivered'[t] = delivered[t] /\ request'[t] = request[t]
      BY <1>1, <1>3, <2>2 DEF GitHub, Heads
    <3> QED
      BY <1>1, <2>1, <3>1
  <2>3. CASE u = t
    <3>1. CASE head[t] > request[t].head /\ request' = [request EXCEPT ![t] = [state |-> "open", head |-> head[t]]]
               /\ delivered' = delivered
      BY <1>1, <2>1, <3>1
    <3>2. CASE /\ \/ request' = [request EXCEPT ![t] = [state |-> "closed", head |-> request[t].head]]
                  \/ request' = [request EXCEPT ![t] = [state |-> "open", head |-> request[t].head]]
               /\ delivered' = delivered \/ delivered' = [delivered EXCEPT ![t] = request[t].head]
      BY <1>1, <2>1, <3>2 DEF Heads
    <3> QED
      BY <1>3, <2>3, <3>1, <3>2 DEF GitHub
  <2> QED
    BY <2>2, <2>3
<1>4. ASSUME NEW c \in Cleaners, CleanerStep(c) PROVE Grows
  BY <1>1, <1>4, CleanerLeaves
<1>5. Grows
  BY <1>2, <1>3, <1>4 DEF CleanupNext
<1> QED
  BY <1>1, <1>5 DEF Excused

\* A head changes by a commit of its agent, which is remembered if a command
\* relied on the head before; or the branch goes, and its worktree is gone.
LEMMA HeadMoves ==
    ASSUME CleanupInv, CleanupNext, NEW t \in Tasks
    PROVE  /\ \/ head'[t] = head[t]
              \/ head'[t] = 0 /\ ~tree[t]
              \/ /\ tree[t] /\ head'[t] = head[t] + 1 /\ job' = job
                 /\ Relied(t, {"following", "confirmed", "proven"}) => <<t, head'[t]>> \in overlooked'
           /\ tree'[t] => tree[t]
<1>1. head \in Heads /\ tree \in [Tasks -> BOOLEAN] /\ job \in [Cleaners -> JobRecord]
  BY CleanupTypes DEF CleanupInv
<1>2. ASSUME NEW u \in Tasks, Agent(u)
      PROVE  /\ \/ head'[t] = head[t]
                \/ /\ tree[t] /\ head'[t] = head[t] + 1 /\ job' = job
                   /\ Relied(t, {"following", "confirmed", "proven"}) => <<t, head'[t]>> \in overlooked'
             /\ tree' = tree
  <2>1. tree' = tree /\ job' = job
    BY <1>2 DEF Agent, jobVars
  <2>2. CASE head' = head
    BY <2>1, <2>2
  <2>3. CASE /\ tree[u] /\ head' = [head EXCEPT ![u] = @ + 1]
             /\ overlooked' = IF Relied(u, {"following", "confirmed", "proven"})
                              THEN overlooked \cup {<<u, head[u] + 1>>} ELSE overlooked
    <3>1. CASE u = t
      <4>1. head'[t] = head[t] + 1
        BY <1>1, <2>3, <3>1 DEF Heads
      <4> QED
        BY <2>1, <2>3, <3>1, <4>1
    <3>2. CASE u # t
      BY <1>1, <2>1, <2>3, <3>2 DEF Heads
    <3> QED
      BY <3>1, <3>2
  <2> QED
    BY <1>2, <2>1, <2>2, <2>3 DEF Agent
<1>3. ASSUME NEW u \in Tasks, GitHub(u) PROVE head' = head /\ tree' = tree
  BY <1>3 DEF GitHub
<1>4. ASSUME NEW c \in Cleaners, CleanerStep(c)
      PROVE  (head'[t] = head[t] \/ (head'[t] = 0 /\ ~tree[t])) /\ (tree'[t] => tree[t])
  <2>1. job[c].task \in Tasks
    BY <1>1 DEF JobRecord
  <2>2. head'[t] = head[t] \/ (head'[t] = 0 /\ ~tree[t])
    BY <1>1, <1>4, <2>1, Removals DEF Heads, CleanupInv, GoneStaysGone
  <2>3. tree'[t] => tree[t]
    BY <1>1, <1>4, Removals DEF CleanupInv
  <2> QED
    BY <2>2, <2>3
<1> QED
  BY <1>2, <1>3, <1>4 DEF CleanupNext

\* A branch goes with its worktree, and neither comes back.
LEMMA GoneStays ==
    ASSUME CleanupInv, CleanupNext, CleanupTypeOK'
    PROVE  GoneStaysGone'
<1>1. /\ tree \in [Tasks -> BOOLEAN] /\ job \in [Cleaners -> JobRecord]
      /\ \A t \in Tasks : head[t] \in Nat /\ (head[t] = 0 => ~tree[t])
  BY CleanupTypes DEF CleanupInv, GoneStaysGone, Heads
<1>2. ASSUME NEW t \in Tasks, head'[t] = 0 PROVE ~tree'[t]
  <2>1. /\ head'[t] = head[t] \/ ~tree[t] \/ head'[t] = head[t] + 1
        /\ tree'[t] => tree[t]
    BY HeadMoves
  <2>2. head[t] \in Nat /\ (head[t] = 0 => ~tree[t])
    BY <1>1
  <2> QED
    BY <1>2, <2>1, <2>2
<1>3. ASSUME NEW c \in Cleaners, job'[c].at \in {"own", "abandoning"} PROVE ~tree'[job'[c].task]
  <2>1. CASE job'[c] = job[c]
    <3>1. ~tree[job[c].task] /\ job[c].task \in Tasks
      BY <1>1, <1>3, <2>1 DEF CleanupInv, GoneStaysGone, JobRecord
    <3> QED
      BY <2>1, <3>1, HeadMoves
  <2>2. CASE job'[c] # job[c]
    <3>1. PICK d \in Cleaners : CleanerStep(d)
      BY <2>2 DEF CleanupNext, Agent, GitHub, jobVars
    <3>2. d = c
      BY <2>2, <3>1, JobTypes DEF CleanupInv
    <3>3. job[c].task \in Tasks
      BY <1>1 DEF JobRecord
    <3>4. RemoveOwn(c) \/ RemoveAbandoned(c)
      <4>1. ASSUME ~RemoveOwn(c), ~RemoveAbandoned(c)
            PROVE  \/ job' = job
                   \/ \E step \in JobStep \ {"own", "abandoning"}, t \in Tasks, h \in Nat : Hold(c, step, t, h)
        <5>1. NoJob.task \in Tasks /\ job[c].head \in Nat /\ \A t \in Tasks : head[t] \in Nat
          BY <1>1, CleanupTypes DEF CleanupInv, JobRecord
        <5>2. CleanerStep(c)
          BY <3>1, <3>2
        <5> QED
          BY <3>3, <4>1, <5>1, <5>2 DEF CleanerStep, FollowRequest, FindMerged, ConfirmMerge, IdentifyOwn, ReadToDefer,
                 WriteDeferred, DeleteOwnBranch, WarnOwn, SelectDeferred, ReadDeferred, KeepDeferred,
                 TakeDeferred, RemoveDeferred, DeleteDeferredBranch, WriteKept, ScanOrdinary, RemoveOrdinary,
                 ProveAbandoned, DeleteAbandonedBranch, Become, Turn, JobStep
      <4> QED
        BY <1>1, <1>3, <2>2, <4>1 DEF Hold
    <3>5. tree' = [tree EXCEPT ![job[c].task] = FALSE] /\ job'[c].task = job[c].task
      BY <1>1, <1>3, <3>4 DEF RemoveOwn, RemoveAbandoned, Hold, Become, Turn
    <3> QED
      BY <1>1, <3>3, <3>5
  <2> QED
    BY <2>1, <2>2
<1> QED
  BY <1>2, <1>3 DEF GoneStaysGone

\* Every record that is written was delivered, or overlooked, when it was made.
LEMMA RecordsStayDelivered ==
    ASSUME CleanupInv, CleanupNext, CleanupTypeOK'
    PROVE  RecordsAreDelivered'
<1> SUFFICES ASSUME NEW t \in Tasks
             PROVE  /\ delivered'[t] <= request'[t].head
                    /\ Excused(t, records[t])'
                    /\ \A c \in Cleaners : Excused(t, seen[c][t])' /\ Excused(t, kept[c][t])'
  BY DEF RecordsAreDelivered
<1>1. /\ job \in [Cleaners -> JobRecord] /\ records \in Heads /\ records[t] \in Nat
      /\ seen \in [Cleaners -> Heads] /\ kept \in [Cleaners -> Heads]
      /\ \A c \in Cleaners : seen[c][t] \in Nat /\ kept[c][t] \in Nat
  BY CleanupTypes DEF CleanupInv, Heads
<1>2. /\ delivered'[t] <= request'[t].head /\ Excused(t, 0)
      /\ \A h \in Nat : Excused(t, h) => Excused(t, h)'
  BY ExcusesGrow DEF Excused
<1>3. Excused(t, records[t]) /\ \A c \in Cleaners : Excused(t, seen[c][t]) /\ Excused(t, kept[c][t])
  BY DEF CleanupInv, RecordsAreDelivered
<1> DEFINE Good == /\ records'[t] \in Nat /\ Excused(t, records'[t])
                   /\ \A c \in Cleaners : /\ seen'[c][t] \in Nat /\ kept'[c][t] \in Nat
                                          /\ Excused(t, seen'[c][t]) /\ Excused(t, kept'[c][t])
<1>4. ASSUME NEW u \in Tasks, Agent(u) \/ GitHub(u) PROVE Good
  <2>1. UNCHANGED <<records, seen, kept>>
    BY <1>4 DEF Agent, GitHub, jobVars
  <2> QED
    BY <1>1, <1>3, <2>1
<1>5. ASSUME NEW c \in Cleaners, CleanerStep(c) PROVE Good
  <2>1. NoHeads[t] = 0 /\ NoHeads \in Heads
    BY DEF NoHeads, Heads
  <2>2. \A d \in Cleaners : seen'[d][t] \in Nat /\ Excused(t, seen'[d][t])
    BY <1>1, <1>2, <1>3, <1>5, <2>1, RecordSteps
  <2>3. ASSUME NEW d \in Cleaners PROVE kept'[d][t] \in Nat /\ Excused(t, kept'[d][t])
    <3>1. kept'[d] = kept[d] \/ kept'[d] = NoHeads \/ \E u \in Tasks : kept'[d] = [kept[d] EXCEPT ![u] = seen[d][u]]
      <4>1. job[c].task \in Tasks
        BY <1>1 DEF JobRecord
      <4>2. kept' = kept \/ kept' = [kept EXCEPT ![c] = NoHeads] \/ \E u \in Tasks : Keep(c, u)
        BY <1>5, <4>1, RecordSteps
      <4>3. ASSUME NEW u \in Tasks, Keep(c, u)
            PROVE  kept' = [kept EXCEPT ![c] = [kept[c] EXCEPT ![u] = seen[c][u]]]
        BY <4>3 DEF Keep
      <4>4. CASE kept' = kept \/ kept' = [kept EXCEPT ![c] = NoHeads]
        BY <1>1, <4>4
      <4>5. ASSUME NEW u \in Tasks, Keep(c, u)
            PROVE  kept'[d] = kept[d] \/ kept'[d] = [kept[d] EXCEPT ![u] = seen[d][u]]
        BY <1>1, <4>3, <4>5
      <4> QED
        BY <4>2, <4>4, <4>5
    <3>2. kept[d] \in [Tasks -> Nat]
      BY <1>1 DEF Heads
    <3>3. kept'[d][t] \in {kept[d][t], 0, seen[d][t]}
      BY <2>1, <3>1, <3>2
    <3> QED
      BY <1>1, <1>2, <1>3, <3>3
  <2>4. records'[t] \in Nat /\ Excused(t, records'[t])
    <3>1. CASE records' = records \/ records' = kept[c]
      BY <1>1, <1>3, <3>1
    <3>2. CASE job[c].at = "deferring" /\ records' = [seen[c] EXCEPT ![job[c].task] = job[c].head]
      <4>1. Excused(job[c].task, job[c].head) /\ job[c].head \in Nat
        BY <1>1, <3>2 DEF CleanupInv, FoundStays, Found, JobRecord
      <4>2. records'[t] = IF t = job[c].task THEN job[c].head ELSE seen[c][t]
        BY <1>1, <3>2 DEF Heads
      <4> QED
        BY <1>1, <1>3, <4>1, <4>2
    <3> QED
      BY <1>5, <3>1, <3>2, RecordSteps
  <2> QED
    BY <2>2, <2>3, <2>4
<1>6. Good
  BY <1>4, <1>5 DEF CleanupNext
<1>7. ASSUME NEW h \in Nat, Excused(t, h) PROVE h <= delivered'[t] \/ <<t, h>> \in overlooked'
  BY <1>2, <1>7 DEF Excused
<1> QED
  BY <1>2, <1>6, <1>7 DEF Excused

\* A closed request of a task whose removal has begun stays closed, or its
\* head is overlooked.
LEMMA AbandonedStays ==
    ASSUME CleanupInv, CleanupNext, NEW t \in Tasks, Abandoned(t), head'[t] = head[t],
           Relied(t, {"proven", "abandoning"})
    PROVE  Abandoned(t)'
<1>1. /\ head[t] \in Nat /\ request[t].head \in Nat
      /\ request \in [Tasks -> [state : {"none", "open", "closed"}, head : Nat]]
  BY CleanupTypes DEF CleanupInv, Heads
<1>2. overlooked \subseteq overlooked'
  BY ExcusesGrow
<1>3. CASE <<t, head[t]>> \in overlooked
  BY <1>2, <1>3 DEF Abandoned
<1>4. CASE request[t] = [state |-> "closed", head |-> head[t]]
  <2>1. ASSUME NEW u \in Tasks, GitHub(u) PROVE request'[t] = request[t] \/ <<t, head[t]>> \in overlooked'
    <3>1. CASE u # t
      BY <1>1, <2>1, <3>1 DEF GitHub
    <3>2. CASE u = t
      <4>1. ~(head[t] > request[t].head) /\ request[t].state # "open"
        BY <1>1, <1>4
      <4>2. overlooked' = overlooked \cup {<<t, head[t]>>}
        BY <2>1, <3>2, <4>1 DEF GitHub
      <4> QED
        BY <4>2
    <3> QED
      BY <3>1, <3>2
  <2>2. ASSUME NEW u \in Tasks, Agent(u) PROVE request'[t] = request[t]
    BY <2>2 DEF Agent
  <2>3. ASSUME NEW c \in Cleaners, CleanerStep(c) PROVE request'[t] = request[t]
    BY <2>3, CleanerLeaves
  <2> QED
    BY <1>4, <2>1, <2>2, <2>3 DEF CleanupNext, Abandoned
<1> QED
  BY <1>3, <1>4 DEF Abandoned

\* While a command is at a step, what it has found stays true or is excused.
LEMMA FoundStaysThere ==
    ASSUME CleanupInv, CleanupNext, CleanupTypeOK', NEW c \in Cleaners, job'[c] = job[c]
    PROVE  Found(c, job[c].task)'
<1> DEFINE t == job[c].task
<1>1. t \in Tasks /\ job[c].head \in Nat /\ head[t] \in Nat /\ head'[t] \in Nat /\ Found(c, t)
  BY CleanupTypes DEF CleanupInv, JobRecord, Heads, FoundStays, CleanupTypeOK
<1>2. /\ overlooked \subseteq overlooked' /\ delivered'[t] \in Nat
      /\ \A h \in Nat : Excused(t, h) => Excused(t, h)'
  BY <1>1, ExcusesGrow
<1>3. /\ \/ head'[t] = head[t]
         \/ head'[t] = 0 /\ ~tree[t]
         \/ /\ tree[t] /\ head'[t] = head[t] + 1
            /\ job[c].at \in {"following", "confirmed", "proven"} => <<t, head'[t]>> \in overlooked'
  BY <1>1, HeadMoves DEF Relied
<1>4. (head[t] = 0 => ~tree[t]) /\ (job[c].at \in {"own", "abandoning"} => ~tree[t])
  BY <1>1 DEF CleanupInv, GoneStaysGone
<1>5. ASSUME job[c].at = "following" PROVE head'[t] \in {0, job[c].head} \/ <<t, head'[t]>> \in overlooked'
  BY <1>1, <1>2, <1>3, <1>5 DEF Found
<1>6. ASSUME job[c].at \in {"confirmed", "own"} PROVE Excused(t, head[t])'
  <2>1. CASE head'[t] = head[t]
    BY <1>1, <1>2, <1>6, <2>1 DEF Found
  <2>2. CASE head'[t] = 0
    BY <1>2, <2>2 DEF Excused
  <2>3. CASE <<t, head'[t]>> \in overlooked'
    BY <2>3 DEF Excused
  <2> QED
    BY <1>3, <1>4, <1>6, <2>1, <2>2, <2>3
<1>7. ASSUME job[c].at \in {"identified", "deferring"} PROVE Excused(t, job[c].head)' /\ job[c].head # 0
  BY <1>1, <1>2, <1>7 DEF Found
<1>8. ASSUME job[c].at \in {"proven", "abandoning"} PROVE head'[t] = 0 \/ Abandoned(t)'
  <2>1. Relied(t, {"proven", "abandoning"}) /\ (head[t] = 0 \/ Abandoned(t))
    BY <1>1, <1>8 DEF Relied, Found
  <2>2. CASE head'[t] = head[t]
    BY <1>1, <2>1, <2>2, AbandonedStays
  <2>3. CASE <<t, head'[t]>> \in overlooked'
    BY <2>3 DEF Abandoned
  <2> QED
    BY <1>3, <1>4, <1>8, <2>2, <2>3
<1> QED
  BY <1>5, <1>6, <1>7, <1>8 DEF Found

\* A command that goes on to a step has found what the step relies on.
LEMMA FoundBefore ==
    ASSUME CleanupInv, CleanupTypeOK', NEW c \in Cleaners, CleanerStep(c), job'[c] # job[c],
           NEW t \in Tasks, job'[c].task = t
    PROVE  Found(c, t)'
<1>1. /\ job \in [Cleaners -> JobRecord] /\ job[c].task \in Tasks /\ Found(c, job[c].task) /\ job[c].head \in Nat
      /\ \A u \in Tasks : head[u] \in Nat /\ delivered[u] \in Nat
      /\ request \in [Tasks -> [state : {"none", "open", "closed"}, head : Nat]]
  BY CleanupTypes DEF CleanupInv, JobRecord, FoundStays, Heads
<1>2. UNCHANGED <<delivered, request, overlooked>>
  BY CleanerLeaves
<1>3. ASSUME NEW u \in Tasks, FollowRequest(c, u) PROVE Found(c, t)'
  BY <1>1, <1>3 DEF FollowRequest, Hold, Found, Looking, taskVars
<1>4. ASSUME NEW u \in Tasks, FindMerged(c, u) PROVE Found(c, t)'
  BY <1>1, <1>4 DEF FindMerged, Hold, Become, Found, Looking, taskVars, Excused
<1>5. CASE ConfirmMerge(c)
  <2>1. job'[c] = [at |-> "confirmed", task |-> job[c].task, head |-> 0] /\ head' = head
    BY <1>1, <1>5 DEF ConfirmMerge, Hold, Become, Looking, taskVars
  <2>2. Excused(job[c].task, head[job[c].task])
    BY <1>1, <1>5 DEF ConfirmMerge, At, Found, Excused
  <2> QED
    BY <1>2, <2>1, <2>2 DEF Found, Excused
<1>6. CASE IdentifyOwn(c)
  <2>1. head[job[c].task] # 0
    BY <1>1, <1>6 DEF IdentifyOwn, CleanupInv, GoneStaysGone
  <2> QED
    BY <1>1, <1>2, <2>1, <1>6 DEF IdentifyOwn, Hold, At, Found, Looking, taskVars, Excused
<1>7. CASE ReadToDefer(c)
  BY <1>1, <1>2, <1>7 DEF ReadToDefer, Hold, At, Found, Looking, taskVars, Excused
<1>8. CASE RemoveOwn(c)
  BY <1>1, <1>2, <1>8 DEF RemoveOwn, Hold, Become, At, Found, Excused
<1>9. ASSUME NEW u \in Tasks, ProveAbandoned(c, u) PROVE Found(c, t)'
  <2>1. job'[c] = [at |-> "proven", task |-> u, head |-> 0] /\ head' = head
    BY <1>1, <1>9 DEF ProveAbandoned, Hold, Become, taskVars
  <2>2. request[u] = [state |-> "closed", head |-> head[u]]
    <3>1. request[u] \in [state : {"none", "open", "closed"}, head : Nat]
      BY <1>1
    <3>2. request[u].state = "closed" /\ request[u].head = head[u]
      BY <1>9 DEF ProveAbandoned, ClosedUnmerged
    <3> QED
      BY <3>1, <3>2
  <2> QED
    BY <1>2, <2>1, <2>2 DEF Found, Abandoned
<1>10. CASE RemoveAbandoned(c)
  <2>1. /\ job'[c].at \in {"abandoning", "over"} /\ (job'[c].at = "abandoning" => job'[c].task = job[c].task)
        /\ head' = head /\ job[c].at = "proven"
    BY <1>1, <1>10 DEF RemoveAbandoned, Hold, Become, Turn, At
  <2> QED
    BY <1>1, <1>2, <2>1 DEF Found, Abandoned
<1>11. ASSUME ~ConfirmMerge(c), ~IdentifyOwn(c), ~ReadToDefer(c), ~RemoveOwn(c), ~RemoveAbandoned(c),
              \A u \in Tasks : ~FollowRequest(c, u) /\ ~FindMerged(c, u) /\ ~ProveAbandoned(c, u)
       PROVE  Found(c, t)'
  <2>1. \/ job' = job
        \/ \E step \in {"cleaned", "chosen", "working", "removing", "unbranching", "scanned", "over"}, u \in Tasks :
               Become(c, step, u)
    <3>1. NoJob.task \in Tasks
      BY CleanupTypes DEF CleanupInv
    <3> QED
      BY <1>1, <1>11, <3>1
         DEF CleanerStep, WriteDeferred, DeleteOwnBranch, WarnOwn, SelectDeferred, ReadDeferred,
             KeepDeferred, TakeDeferred, RemoveDeferred, DeleteDeferredBranch, WriteKept, ScanOrdinary,
             RemoveOrdinary, DeleteAbandonedBranch, Turn
  <2>2. job'[c].at \in {"cleaned", "chosen", "working", "removing", "unbranching", "scanned", "over"}
    BY <1>1, <2>1 DEF Become, Hold
  <2> QED
    BY <2>2 DEF Found
<1> QED
  BY <1>3, <1>4, <1>5, <1>6, <1>7, <1>8, <1>9, <1>10, <1>11

\* What any command has found stays true or is excused, whoever takes a step.
LEMMA FindingsStay ==
    ASSUME CleanupInv, CleanupNext, CleanupTypeOK'
    PROVE  FoundStays'
<1> SUFFICES ASSUME NEW c \in Cleaners, NEW t \in Tasks, job'[c].task = t PROVE Found(c, t)'
  BY DEF FoundStays
<1>1. CASE job'[c] = job[c]
  BY <1>1, FoundStaysThere DEF Found, Excused, Abandoned
<1>2. CASE job'[c] # job[c]
  <2>1. PICK d \in Cleaners : CleanerStep(d)
    BY <1>2 DEF CleanupNext, Agent, GitHub, jobVars
  <2>2. d = c
    BY <1>2, <2>1, JobTypes DEF CleanupInv
  <2> QED
    BY <1>2, <2>1, <2>2, FoundBefore
<1> QED
  BY <1>1, <1>2

\* An entry that was read is not forgotten: it is kept, or its branch is gone.
LEMMA EntriesStay ==
    ASSUME CleanupInv, CleanupNext, CleanupTypeOK', NEW c \in Cleaners
    PROVE  /\ job'[c].at \in Rewriting =>
                  \A t \in Tasks : seen'[c][t] # 0 => t \in left'[c] \/ kept'[c][t] = seen'[c][t] \/ head'[t] = 0
           /\ job'[c].at \in {"removing", "unbranching"} => job'[c].task \in left'[c]
<1> DEFINE Good ==
        /\ job'[c].at \in Rewriting =>
               \A t \in Tasks : seen'[c][t] # 0 => t \in left'[c] \/ kept'[c][t] = seen'[c][t] \/ head'[t] = 0
        /\ job'[c].at \in {"removing", "unbranching"} => job'[c].task \in left'[c]
<1>1. /\ job \in [Cleaners -> JobRecord] /\ head \in Heads /\ records \in Heads /\ left \in [Cleaners -> SUBSET Tasks]
      /\ seen \in [Cleaners -> Heads] /\ kept \in [Cleaners -> Heads] /\ job[c].task \in Tasks
  BY CleanupTypes DEF CleanupInv, JobRecord
<1>2. \A t \in Tasks : head[t] = 0 => head'[t] = 0
  BY HeadMoves DEF CleanupInv, GoneStaysGone
<1>3. /\ job[c].at \in Rewriting =>
             \A t \in Tasks : seen[c][t] # 0 => t \in left[c] \/ kept[c][t] = seen[c][t] \/ head[t] = 0
      /\ job[c].at \in {"removing", "unbranching"} => job[c].task \in left[c]
  BY DEF CleanupInv, KeptOrGone
<1>4. ASSUME job'[c] = job[c], seen'[c] = seen[c], kept'[c] = kept[c], left'[c] = left[c] PROVE Good
  BY <1>2, <1>3, <1>4
<1>5. ASSUME NEW u \in Tasks, Agent(u) \/ GitHub(u) PROVE Good
  BY <1>4, <1>5 DEF Agent, GitHub, jobVars
<1>6. ASSUME NEW d \in Cleaners \ {c}, CleanerStep(d) PROVE Good
  <2>1. job'[c] = job[c]
    BY <1>6, JobTypes DEF CleanupInv
  <2>2. seen'[c] = seen[c]
    BY <1>1, <1>6, RecordSteps
  <2>3. left'[c] = left[c]
    BY <1>1, <1>6 DEF CleanerStep, FollowRequest, FindMerged, ConfirmMerge, IdentifyOwn, ReadToDefer,
           WriteDeferred, RemoveOwn, DeleteOwnBranch, WarnOwn, SelectDeferred, ReadDeferred, KeepDeferred,
           TakeDeferred, RemoveDeferred, DeleteDeferredBranch, WriteKept, ScanOrdinary, RemoveOrdinary,
           ProveAbandoned, RemoveAbandoned, DeleteAbandonedBranch, Looking, Forget, Keep
  <2>4. kept'[c] = kept[c]
    BY <1>1, <1>6, RecordSteps DEF Keep
  <2> QED
    BY <1>4, <2>1, <2>2, <2>3, <2>4
<1>7. ASSUME NEW t \in Tasks, job[c].at \in Rewriting, Keep(c, t), UNCHANGED seen, job' = job \/ Turn(c, "working"),
             job[c].at \in {"removing", "unbranching"} => job' # job
      PROVE  Good
  <2>1. /\ kept'[c] = [kept[c] EXCEPT ![t] = seen[c][t]] /\ left'[c] = left[c] \ {t}
        /\ job'[c].at = "working"
    BY <1>1, <1>7 DEF Keep, Turn, Become, Hold, Rewriting
  <2>2. \A u \in Tasks : kept'[c][u] = IF u = t THEN seen[c][u] ELSE kept[c][u]
    BY <1>1, <2>1 DEF Heads
  <2>3. seen' = seen
    BY <1>7
  <2> QED
    BY <1>2, <1>3, <1>7, <2>1, <2>2, <2>3
<1>8. ASSUME CleanerStep(c), job[c].at \notin Rewriting, ~ReadDeferred(c) PROVE Good
  <2>1. \/ job' = job
        \/ \E step \in JobStep \ Rewriting, t \in Tasks, h \in Nat : Hold(c, step, t, h)
    <3>1. NoJob.task \in Tasks /\ job[c].head \in Nat /\ \A t \in Tasks : head[t] \in Nat
      BY <1>1, CleanupTypes DEF CleanupInv, JobRecord, Heads
    <3> QED
      BY <1>1, <1>8, <3>1 DEF CleanerStep, FollowRequest, FindMerged, ConfirmMerge, IdentifyOwn, ReadToDefer,
             WriteDeferred, RemoveOwn, DeleteOwnBranch, WarnOwn, SelectDeferred, KeepDeferred, TakeDeferred,
             RemoveDeferred, DeleteDeferredBranch, WriteKept, ScanOrdinary, RemoveOrdinary, ProveAbandoned,
             RemoveAbandoned, DeleteAbandonedBranch, Become, Turn, At, JobStep, Rewriting
  <2>2. job'[c].at \notin Rewriting
    BY <1>1, <1>8, <2>1 DEF Hold
  <2> QED
    BY <2>2 DEF Rewriting
<1>9. CASE ReadDeferred(c)
  <2>1. seen'[c] = records /\ left'[c] = Recorded(records) /\ job'[c].at = "working"
    BY <1>1, <1>9 DEF ReadDeferred, Turn, Become, Hold
  <2> QED
    BY <1>1, <2>1 DEF Recorded
<1>10. ASSUME NEW t \in Tasks, KeepDeferred(c, t) PROVE Good
  BY <1>7, <1>10 DEF KeepDeferred, At, Rewriting
<1>11. ASSUME NEW t \in Tasks, TakeDeferred(c, t) PROVE Good
  <2>1. /\ seen' = seen /\ left' = left /\ kept' = kept /\ t \in left[c] /\ job'[c].task = t /\ job[c].at = "working"
    BY <1>1, <1>11 DEF TakeDeferred, Become, Hold, At
  <2> QED
    BY <1>2, <1>3, <2>1 DEF Rewriting
<1>12. CASE RemoveDeferred(c)
  <2>1. job[c].at = "removing" /\ seen' = seen
    BY <1>12 DEF RemoveDeferred, At
  <2>2. CASE Become(c, "unbranching", job[c].task) /\ UNCHANGED <<left, kept>>
    <3>1. job'[c].at = "unbranching" /\ job'[c].task = job[c].task
      BY <1>1, <2>2 DEF Become, Hold
    <3> QED
      BY <1>2, <1>3, <2>1, <2>2, <3>1 DEF Rewriting
  <2>3. CASE Keep(c, job[c].task) /\ Turn(c, "working")
    <3>1. job' # job
      BY <1>1, <2>1, <2>3 DEF Turn, Become, Hold
    <3> QED
      BY <1>1, <1>7, <2>1, <2>3, <3>1 DEF Rewriting
  <2> QED
    BY <1>12, <2>2, <2>3 DEF RemoveDeferred
<1>13. CASE DeleteDeferredBranch(c)
  <2>1. job[c].at = "unbranching" /\ seen' = seen /\ Turn(c, "working")
    BY <1>13 DEF DeleteDeferredBranch, At
  <2>2. job' # job /\ job'[c].at = "working"
    BY <1>1, <2>1 DEF Turn, Become, Hold
  <2>3. CASE head' = [head EXCEPT ![job[c].task] = 0] /\ left' = [left EXCEPT ![c] = @ \ {job[c].task}] /\ UNCHANGED kept
    <3>1. head'[job[c].task] = 0 /\ left'[c] = left[c] \ {job[c].task}
      BY <1>1, <2>3 DEF Heads
    <3> QED
      BY <1>2, <1>3, <2>1, <2>2, <2>3, <3>1 DEF Rewriting
  <2>4. CASE Keep(c, job[c].task)
    BY <1>1, <1>7, <2>1, <2>2, <2>4 DEF Rewriting
  <2> QED
    BY <1>13, <2>3, <2>4 DEF DeleteDeferredBranch
<1>14. CASE WriteKept(c)
  <2>1. job'[c].at = "over"
    BY <1>1, <1>14 DEF WriteKept, Turn, Become, Hold
  <2> QED
    BY <2>1 DEF Rewriting
<1>15. ASSUME CleanerStep(c), job[c].at \in Rewriting, ~RemoveDeferred(c), ~DeleteDeferredBranch(c), ~WriteKept(c)
       PROVE  \E t \in Tasks : KeepDeferred(c, t) \/ TakeDeferred(c, t)
  BY <1>15 DEF CleanerStep, FollowRequest, FindMerged, ConfirmMerge, IdentifyOwn, ReadToDefer,
         WriteDeferred, RemoveOwn, DeleteOwnBranch, WarnOwn, SelectDeferred, ReadDeferred, ScanOrdinary,
         RemoveOrdinary, ProveAbandoned, RemoveAbandoned, DeleteAbandonedBranch, At, Rewriting
<1> QED
  BY <1>5, <1>6, <1>8, <1>9, <1>10, <1>11, <1>12, <1>13, <1>14, <1>15 DEF CleanupNext

\* What is known of branches and records holds always.
LEMMA CleanupInvariant == CleanupSpec => []CleanupInv
<1>1. CleanupInit => CleanupInv
  <2> SUFFICES ASSUME CleanupInit PROVE CleanupInv
    OBVIOUS
  <2>1. CleanupTypeOK
    BY CleanupInitTypes
  <2>2. \A c \in Cleaners : job[c].at = "idle"
    BY DEF CleanupInit, NoJob
  <2>3. RecordsAreDelivered
    BY DEF CleanupInit, RecordsAreDelivered, Excused
  <2>4. FoundStays /\ GoneStaysGone /\ KeptOrGone
    BY <2>2 DEF CleanupInit, FoundStays, Found, GoneStaysGone, KeptOrGone, Rewriting
  <2> QED
    BY <2>1, <2>3, <2>4 DEF CleanupInv
<1>2. CleanupInv /\ [CleanupNext]_cleanupVars => CleanupInv'
  <2> SUFFICES ASSUME CleanupInv, [CleanupNext]_cleanupVars PROVE CleanupInv'
    OBVIOUS
  <2>1. CASE UNCHANGED cleanupVars
    BY <2>1 DEF CleanupInv, CleanupTypeOK, RecordsAreDelivered, Excused, FoundStays, Found, Abandoned,
                GoneStaysGone, KeptOrGone, cleanupVars, taskVars, jobVars
  <2>2. CASE CleanupNext
    <3>1. CleanupTypeOK'
      BY <2>2, CleanerTypes, AgentTypes DEF CleanupInv, CleanupNext
    <3>2. RecordsAreDelivered' /\ GoneStaysGone' /\ FoundStays'
      BY <2>2, <3>1, RecordsStayDelivered, GoneStays, FindingsStay
    <3>3. KeptOrGone'
      BY <2>2, <3>1, EntriesStay DEF KeptOrGone
    <3> QED
      BY <3>1, <3>2, <3>3 DEF CleanupInv
  <2> QED
    BY <2>1, <2>2
<1> QED
  BY <1>1, <1>2, PTL DEF CleanupSpec

\* A branch is deleted only at a head that main contains or that a closed pull
\* request has, unless that head was overlooked.
LEMMA DeletionIsProven ==
    ASSUME CleanupInv, CleanupNext, NEW t \in Tasks, <<t, head[t]>> \notin overlooked, head[t] # 0, head'[t] = 0
    PROVE  head[t] <= delivered[t] \/ request[t] = [state |-> "closed", head |-> head[t]]
<1>1. /\ job \in [Cleaners -> JobRecord] /\ head \in Heads /\ head[t] \in Nat
  BY CleanupTypes DEF CleanupInv, Heads
<1>2. PICK c \in Cleaners : CleanerStep(c)
  BY <1>1 DEF CleanupNext, Agent, GitHub, Heads
<1>3. /\ DeleteDeferredBranch(c) \/ DeleteOwnBranch(c) \/ DeleteAbandonedBranch(c)
      /\ head' = [head EXCEPT ![job[c].task] = 0]
  BY <1>2, Removals DEF CleanupInv
<1>4. t = job[c].task
  BY <1>1, <1>3 DEF Heads
<1>5. Found(c, t)
  BY <1>4 DEF CleanupInv, FoundStays
<1>6. CASE DeleteDeferredBranch(c)
  <2>1. head[t] = seen[c][t]
    BY <1>4, <1>6 DEF DeleteDeferredBranch, StillRecorded
  <2> QED
    BY <2>1 DEF CleanupInv, RecordsAreDelivered, Excused
<1>7. CASE DeleteOwnBranch(c)
  BY <1>5, <1>7 DEF DeleteOwnBranch, At, Found, Excused
<1>8. CASE DeleteAbandonedBranch(c)
  BY <1>5, <1>8 DEF DeleteAbandonedBranch, At, Found, Abandoned
<1> QED
  BY <1>3, <1>6, <1>7, <1>8

\* A deferred record that goes has lost its branch, or was not there when the
\* command that writes the file back had read it.
LEMMA RecordGoesWithBranch ==
    ASSUME CleanupInv, CleanupNext, NEW t \in Tasks, records[t] # 0, records'[t] = 0, head[t] # 0
    PROVE  \E c \in Cleaners : job'[c] # job[c] /\ seen[c][t] # records[t]
<1>1. /\ job \in [Cleaners -> JobRecord] /\ seen \in [Cleaners -> Heads] /\ kept \in [Cleaners -> Heads]
  BY CleanupTypes DEF CleanupInv
<1>2. PICK c \in Cleaners : CleanerStep(c)
  BY DEF CleanupNext, Agent, GitHub
<1>3. WriteDeferred(c) \/ WriteKept(c)
  BY <1>2 DEF CleanerStep, FollowRequest, FindMerged, ConfirmMerge, IdentifyOwn, ReadToDefer,
         RemoveOwn, DeleteOwnBranch, WarnOwn, SelectDeferred, ReadDeferred, KeepDeferred, TakeDeferred,
         RemoveDeferred, DeleteDeferredBranch, ScanOrdinary, RemoveOrdinary, ProveAbandoned, RemoveAbandoned,
         DeleteAbandonedBranch, Looking
<1>4. job'[c] # job[c]
  BY <1>1, <1>3 DEF WriteDeferred, WriteKept, At, Turn, Become, Hold
<1>5. CASE WriteDeferred(c)
  <2>1. records'[t] = IF t = job[c].task THEN job[c].head ELSE seen[c][t]
    BY <1>1, <1>5 DEF WriteDeferred, Heads
  <2>2. CASE t # job[c].task
    BY <1>4, <2>1, <2>2
  <2>3. CASE t = job[c].task
    <3>1. job[c].head = 0 /\ job[c].at = "deferring"
      BY <1>5, <2>1, <2>3 DEF WriteDeferred, At
    <3> QED
      BY <2>3, <3>1 DEF CleanupInv, FoundStays, Found
  <2> QED
    BY <2>2, <2>3
<1>6. CASE WriteKept(c)
  <2>1. job[c].at = "working" /\ left[c] = {} /\ kept[c][t] = 0
    BY <1>6 DEF WriteKept, At
  <2>2. seen[c][t] = 0
    BY <2>1 DEF CleanupInv, KeptOrGone, Rewriting
  <2> QED
    BY <1>4, <2>2
<1> QED
  BY <1>3, <1>5, <1>6

\* A finish and a cleanup delete a branch only at a head that main contains or that a closed
\* pull request has, but for heads that were overlooked; and lose no deferred record that they
\* have read: for any number of tasks, commands and commits (worktree_cleanup.py).
THEOREM ProvenHeadsGo == CleanupSpec => OnlyProvenHeadsGo
<1> DEFINE Step ==
        \A t \in Tasks :
            /\ head[t] # 0 /\ head'[t] = 0 /\ <<t, head[t]>> \notin overlooked =>
                  head[t] <= delivered[t] \/ request[t] = [state |-> "closed", head |-> head[t]]
            /\ records[t] # 0 /\ records'[t] = 0 =>
                  head[t] = 0 \/ \E c \in Cleaners : job'[c] # job[c] /\ seen[c][t] # records[t]
<1>1. CleanupInv /\ [CleanupNext]_cleanupVars => [Step]_cleanupVars
  BY DeletionIsProven, RecordGoesWithBranch
<1> QED
  BY <1>1, CleanupInvariant, PTL DEF CleanupSpec, OnlyProvenHeadsGo

-----------------------------------------------------------------------------
(* Histories: sequences of numbered commits, ordered by the prefixes.      *)

History == Seq(Nat)
Upto(h, n) == \A i \in 1..Len(h) : h[i] <= n

\* A prefix, element by element.
LEMMA PrefixByElement ==
    ASSUME NEW s \in History, NEW t \in History
    PROVE  IsPrefix(s, t) <=> Len(s) <= Len(t) /\ \A i \in 1..Len(s) : s[i] = t[i]
<1>1. SubSeq(s, 1, Len(s)) = s
  BY DEF History
<1>2. CASE Len(s) <= Len(t)
  <2>1. /\ SubSeq(t, 1, Len(s)) \in History /\ Len(SubSeq(t, 1, Len(s))) = Len(s)
        /\ \A i \in 1..Len(s) : SubSeq(t, 1, Len(s))[i] = t[i]
    BY <1>2 DEF History
  <2>2. SubSeq(t, 1, Len(s)) = s <=> \A i \in 1..Len(s) : s[i] = t[i]
    BY <2>1 DEF History
  <2> QED
    BY <1>1, <2>2 DEF IsPrefix
<1>3. CASE ~(Len(s) <= Len(t))
  BY <1>3 DEF IsPrefix
<1> QED
  BY <1>2, <1>3

\* The prefixes are a partial order.
LEMMA PrefixOrder ==
    /\ \A s \in History : IsPrefix(s, s) /\ IsPrefix(<<>>, s) /\ (IsPrefix(s, <<>>) => s = <<>>)
    /\ \A s, t \in History : IsPrefix(s, t) /\ IsPrefix(t, s) => s = t
    /\ \A s, t, u \in History : IsPrefix(s, t) /\ IsPrefix(t, u) => IsPrefix(s, u)
<1>1. \A s \in History : IsPrefix(s, s) /\ IsPrefix(<<>>, s) /\ (IsPrefix(s, <<>>) => s = <<>>)
  <2> TAKE s \in History
  <2>1. <<>> \in History /\ Len(<<>>) = 0 /\ Len(s) \in Nat /\ (Len(s) = 0 => s = <<>>)
    BY DEF History
  <2> QED
    BY <2>1, PrefixByElement
<1>2. \A s, t \in History : IsPrefix(s, t) /\ IsPrefix(t, s) => s = t
  BY PrefixByElement DEF History
<1>3. \A s, t, u \in History : IsPrefix(s, t) /\ IsPrefix(t, u) => IsPrefix(s, u)
  <2> TAKE s, t, u \in History
  <2>1. Len(s) \in Nat /\ Len(t) \in Nat /\ Len(u) \in Nat
    BY DEF History
  <2> QED
    BY <2>1, PrefixByElement
<1> QED
  BY <1>1, <1>2, <1>3

\* A new commit makes a history longer, and is in no history of older commits.
LEMMA NewHistory ==
    ASSUME NEW s \in History, NEW n \in Nat
    PROVE  /\ Append(s, n) \in History /\ Append(s, n) # <<>>
           /\ Before(s, Append(s, n))
           /\ \A t \in History : IsPrefix(t, Append(s, n)) => IsPrefix(t, s) \/ t = Append(s, n)
           /\ \A t \in History, m \in Nat : Upto(t, m) /\ m < n => ~IsPrefix(Append(s, n), t)
           /\ \A m \in Nat : Upto(s, m) /\ m <= n => Upto(Append(s, n), n)
<1>1. /\ Append(s, n) \in History /\ Len(Append(s, n)) = Len(s) + 1 /\ Len(s) \in Nat
      /\ \A i \in 1..Len(s) : Append(s, n)[i] = s[i] /\ s[i] \in Nat
      /\ Append(s, n)[Len(s) + 1] = n
  <2>1. s \in Seq(Nat)
    BY DEF History
  <2>2. /\ Append(s, n) \in Seq(Nat) /\ Len(Append(s, n)) = Len(s) + 1 /\ Len(s) \in Nat
        /\ Append(s, n)[Len(s) + 1] = n
    BY <2>1
  <2>3. \A i \in 1..Len(s) : Append(s, n)[i] = s[i] /\ s[i] \in Nat
    BY <2>1
  <2> QED
    BY <2>2, <2>3 DEF History
<1>2. PICK x \in History :
        /\ x = Append(s, n) /\ Len(x) = Len(s) + 1 /\ Len(s) \in Nat
        /\ (\A i \in 1..Len(s) : x[i] = s[i] /\ s[i] \in Nat) /\ x[Len(s) + 1] = n
  BY <1>1
<1>3. x # <<>> /\ s # x
  <2>1. Len(<<>>) = 0
    OBVIOUS
  <2> QED
    BY <1>2, <2>1
<1>4. Before(s, x)
  <2>1. Len(s) <= Len(x) /\ \A i \in 1..Len(s) : s[i] = x[i]
    BY <1>2
  <2>2. IsPrefix(s, x)
    BY <2>1, PrefixByElement
  <2> QED
    BY <1>3, <2>2 DEF Before
<1>5. ASSUME NEW t \in History, IsPrefix(t, x) PROVE IsPrefix(t, s) \/ t = x
  <2>1. Len(t) \in Nat /\ Len(t) <= Len(x) /\ \A i \in 1..Len(t) : t[i] = x[i]
    BY <1>5, PrefixByElement DEF History
  <2>2. CASE Len(t) <= Len(s)
    BY <1>2, <2>1, <2>2, PrefixByElement
  <2>3. CASE Len(t) = Len(x)
    <3>1. IsPrefix(x, t)
      BY <2>1, <2>3, PrefixByElement
    <3> QED
      BY <1>5, <3>1, PrefixOrder
  <2> QED
    BY <1>2, <2>1, <2>2, <2>3
<1>6. ASSUME NEW t \in History, NEW m \in Nat, Upto(t, m), m < n PROVE ~IsPrefix(x, t)
  <2>1. SUFFICES ASSUME IsPrefix(x, t) PROVE FALSE
    OBVIOUS
  <2>2. Len(x) <= Len(t) /\ t[Len(x)] = n /\ Len(t) \in Nat
    <3>1. Len(x) <= Len(t) /\ \A i \in 1..Len(x) : x[i] = t[i]
      BY <2>1, PrefixByElement
    <3>2. Len(x) \in 1..Len(x) /\ x[Len(x)] = n /\ Len(t) \in Nat
      BY <1>2 DEF History
    <3> QED
      BY <3>1, <3>2
  <2>3. t[Len(x)] <= m
    BY <1>2, <1>6, <2>2 DEF Upto
  <2> QED
    BY <1>6, <2>2, <2>3
<1>7. ASSUME NEW m \in Nat, Upto(s, m), m <= n PROVE Upto(x, n)
  BY <1>2, <1>7 DEF Upto
<1> QED
  BY <1>2, <1>3, <1>4, <1>5, <1>6, <1>7

\* Older histories stay old, and so do their prefixes.
LEMMA UptoGrows ==
    ASSUME NEW s \in History, NEW m \in Nat, NEW n \in Nat, m <= n, Upto(s, m)
    PROVE  Upto(s, n)
<1>1. \A i \in 1..Len(s) : s[i] \in Nat
  BY DEF History
<1> QED
  BY <1>1 DEF Upto

-----------------------------------------------------------------------------
(* Types. *)

How == Finishers \cup {"start", "origin", "pull", "commit"}
Movement == [before : History, after : History, by : Finishers \cup {"raw"}]
FinishRecord ==
    [does : {"nothing", "direct", "sync"},
     at : {"none", "check", "merge", "publish", "conclude", "prove", "record"},
     from : History, to : History]
Entry == [to : History, how : How]
Receipt == [before : History, after : History, main : History, actor : Finishers]

AdvanceTypes ==
    /\ local \in History /\ originMain \in History /\ remote \in History
    /\ reflog \in Seq(Entry) /\ moves \in Seq(Movement) /\ receipts \in Seq(Receipt)
    /\ branch \in [Finishers -> History] /\ finish \in [Finishers -> FinishRecord]
    /\ spent \in [commits : Nat, raw : Nat, stops : Nat]
    /\ deliveredHeads \subseteq [task : Finishers, head : History]

\* A command that has begun holds the integration lock.
LockHeld == \A t \in Finishers : finish[t] # AtRest => lockedBy = t

\* What a step does to the histories: it makes a commit somewhere, moves local
\* main forward, publishes it, or leaves them as they are.
CommitsLocally ==
    /\ MoveTo(Append(local, NewCommit), "commit", "raw") /\ spent'.commits = NewCommit
    /\ UNCHANGED <<remote, originMain, branch>>
CommitsRemotely ==
    /\ remote' = Append(remote, NewCommit) /\ spent'.commits = NewCommit
    /\ Stays /\ UNCHANGED <<originMain, branch>>
CommitsToBranch ==
    /\ \E t \in Finishers : finish[t] = AtRest /\ branch' = [branch EXCEPT ![t] = Append(local, NewCommit)]
    /\ spent'.commits = NewCommit
    /\ Stays /\ UNCHANGED <<originMain, remote, finish>>
Forwards ==
    /\ \/ \E t \in Finishers :
              Before(local, branch[t]) /\ MoveTo(branch[t], t, t) /\ FinishAt(t, "direct", "merge")
       \/ \E t \in Finishers :
              Before(local, originMain) /\ MoveTo(originMain, "origin", t) /\ FinishAt(t, "sync", "merge")
       \/ /\ Before(local, originMain) /\ MoveTo(originMain, "pull", "raw")
       \/ /\ Before(local, originMain) /\ MoveTo(originMain, "origin", "raw")
          /\ (\E t \in Finishers : FinishAt(t, "sync", "merge")) => raced'
    /\ spent'.commits = spent.commits /\ UNCHANGED <<remote, originMain, branch>>
Publishes ==
    /\ IsPrefix(remote, local) /\ remote' = local /\ originMain' = local
    /\ spent' = spent /\ Stays /\ UNCHANGED branch
OnlyFetches ==
    /\ originMain' \in {originMain, remote} /\ spent'.commits = spent.commits
    /\ Stays /\ UNCHANGED <<remote, branch>>

LEMMA StepKinds ==
    ASSUME AdvanceTypes, AdvanceNext
    PROVE  CommitsLocally \/ CommitsRemotely \/ CommitsToBranch \/ Forwards \/ Publishes \/ OnlyFetches
<1>1. spent \in [commits : Nat, raw : Nat, stops : Nat]
  BY DEF AdvanceTypes
<1>2. ASSUME NEW t \in Finishers, MergeDirect(t) PROVE Forwards \/ OnlyFetches
  BY <1>2 DEF MergeDirect, FastForward, Forwards, OnlyFetches
<1>3. ASSUME NEW t \in Finishers, MergeSync(t) PROVE Forwards \/ OnlyFetches
  BY <1>3 DEF MergeSync, FastForward, Forwards, OnlyFetches
<1>4. ASSUME NEW t \in Finishers, PublishDirect(t) PROVE Publishes \/ OnlyFetches
  BY <1>1, <1>4 DEF PublishDirect, Spend, Publishes, OnlyFetches
<1>5. ASSUME NEW t \in Finishers, Rebase(t) PROVE CommitsToBranch
  BY <1>1, <1>5 DEF Rebase, Spend, NewCommit, CommitsToBranch
<1>6. CASE RemoteMerge
  BY <1>1, <1>6 DEF RemoteMerge, Spend, NewCommit, CommitsRemotely
<1>7. CASE RawCommit
  BY <1>1, <1>7 DEF RawCommit, NewCommit, CommitsLocally
<1>8. ASSUME NEW how \in {"origin", "pull"}, RawFastForward(how) PROVE Forwards
  BY <1>1, <1>8 DEF RawFastForward, Spend, Forwards
<1>9. CASE RawEdit \/ Fetch \/ PrepareWindow \/ OpenWindow \/ LookAfter \/ AssessMove
  BY <1>1, <1>9 DEF RawEdit, Spend, Fetch, PrepareWindow, OpenWindow, LookAfter, AssessMove, Aside, OnlyFetches
<1>10. ASSUME NEW t \in Finishers,
              \/ \E what \in {"direct", "sync"} : TakeIntegration(t, what)
              \/ CheckDirect(t) \/ CheckSync(t) \/ Conclude(t) \/ Prove(t) \/ Record(t) \/ KillFinish(t)
       PROVE  OnlyFetches
  BY <1>1, <1>10 DEF TakeIntegration, CheckDirect, CheckSync, Conclude, Prove, Record, KillFinish, Spend, OnlyFetches
<1> QED
  BY <1>2, <1>3, <1>4, <1>5, <1>6, <1>7, <1>8, <1>9, <1>10 DEF AdvanceNext

\* The histories, the reflog and the moves keep their types.
LEMMA HistoryTypes ==
    ASSUME AdvanceTypes, AdvanceNext
    PROVE  /\ local' \in History /\ originMain' \in History /\ remote' \in History
           /\ branch' \in [Finishers -> History] /\ reflog' \in Seq(Entry) /\ moves' \in Seq(Movement)
           /\ NewCommit \in Nat
<1>1. NewCommit \in Nat
  BY DEF AdvanceTypes, NewCommit
<1>2. Append(local, NewCommit) \in History /\ Append(remote, NewCommit) \in History
  BY <1>1, NewHistory DEF AdvanceTypes
<1>3. /\ local' \in History /\ originMain' \in History /\ remote' \in History
      /\ branch' \in [Finishers -> History]
  BY <1>2, StepKinds DEF AdvanceTypes, CommitsLocally, CommitsRemotely, CommitsToBranch, Forwards, Publishes,
     OnlyFetches, MoveTo, Stays
<1>4. \/ reflog' = reflog /\ moves' = moves
      \/ \E target \in History, how \in How, who \in Finishers \cup {"raw"} : MoveTo(target, how, who)
  BY <1>2, StepKinds DEF AdvanceTypes, CommitsLocally, CommitsRemotely, CommitsToBranch, Forwards, Publishes,
     OnlyFetches, Stays, How
<1>5. ASSUME NEW target \in History, NEW how \in How, NEW who \in Finishers \cup {"raw"}, MoveTo(target, how, who)
      PROVE  reflog' \in Seq(Entry) /\ moves' \in Seq(Movement)
  <2>1. [to |-> target, how |-> how] \in Entry /\ [before |-> local, after |-> target, by |-> who] \in Movement
    BY DEF AdvanceTypes, Entry, Movement
  <2> QED
    BY <1>5, <2>1 DEF AdvanceTypes, MoveTo
<1> QED
  BY <1>1, <1>3, <1>4, <1>5 DEF AdvanceTypes

\* A command at rest has the type of a command.
LEMMA RestType == AtRest \in FinishRecord
<1>1. <<>> \in History
  BY DEF History
<1> QED
  BY <1>1 DEF AtRest, FinishRecord

LEMMA FinishTypes ==
    ASSUME AdvanceTypes, AdvanceNext
    PROVE  finish' \in [Finishers -> FinishRecord]
<1>1. /\ finish \in [Finishers -> FinishRecord] /\ local \in History /\ reflog \in Seq(Entry)
      /\ AtRest \in FinishRecord
  BY RestType DEF AdvanceTypes
<1>2. ASSUME NEW t \in Finishers, TakeIntegration(t, "direct") \/ TakeIntegration(t, "sync")
      PROVE  finish' \in [Finishers -> FinishRecord]
  <2>1. \E what \in {"direct", "sync"} :
          finish' = [finish EXCEPT ![t] = [AtRest EXCEPT !.does = what, !.at = "check"]]
    BY <1>2 DEF TakeIntegration
  <2>2. \A what \in {"direct", "sync"} : [AtRest EXCEPT !.does = what, !.at = "check"] \in FinishRecord
    BY <1>1 DEF FinishRecord
  <2> QED
    BY <1>1, <2>1, <2>2
<1>3. ASSUME NEW t \in Finishers, CheckDirect(t) \/ CheckSync(t)
      PROVE  finish' \in [Finishers -> FinishRecord]
  <2>1. \/ finish' = [finish EXCEPT ![t] = AtRest]
        \/ finish' = [finish EXCEPT ![t] = [finish[t] EXCEPT !.at = "merge", !.from = local]]
    BY <1>1, <1>3 DEF CheckDirect, CheckSync, Leaves
  <2> QED
    BY ZenonT(40), <1>1, <2>1 DEF FinishRecord
<1>4. ASSUME NEW t \in Finishers,
             MergeDirect(t) \/ MergeSync(t) \/ PublishDirect(t) \/ Prove(t) \/ Record(t) \/ KillFinish(t)
      PROVE  finish' \in [Finishers -> FinishRecord]
  <2>1. \/ finish' = [finish EXCEPT ![t] = AtRest]
        \/ \E step \in {"publish", "conclude", "record"} : finish' = [finish EXCEPT ![t].at = step]
    BY <1>4 DEF MergeDirect, MergeSync, PublishDirect, Prove, Record, KillFinish, FastForward, Proceeds, Leaves
  <2> QED
    BY <1>1, <2>1 DEF FinishRecord
<1>5. ASSUME NEW t \in Finishers, Conclude(t) PROVE finish' \in [Finishers -> FinishRecord]
  <2>1. UnrecordedAdvance(t) \subseteq History
    <3>1. \A i \in 2..Len(reflog) : reflog[i - 1].to \in History
      <4> TAKE i \in 2..Len(reflog)
      <4>1. reflog[i - 1] \in Entry
        BY <1>1
      <4> QED
        BY <4>1 DEF Entry
    <3> QED
      BY <3>1 DEF UnrecordedAdvance
  <2> DEFINE from == IF finish[t].from # local THEN {finish[t].from}
                     ELSE IF finish[t].does = "direct" THEN UnrecordedAdvance(t) ELSE {local}
  <2>2. finish[t] \in FinishRecord /\ from \subseteq History
    BY <1>1, <2>1 DEF FinishRecord
  <2>3. \/ finish' = [finish EXCEPT ![t] = AtRest]
        \/ \E tipped \in from :
               finish' = [finish EXCEPT ![t].at = "prove", ![t].from = tipped, ![t].to = local]
    BY <1>5 DEF Conclude, Leaves
  <2>4. ASSUME NEW tipped \in from,
               finish' = [finish EXCEPT ![t].at = "prove", ![t].from = tipped, ![t].to = local]
        PROVE  finish' \in [Finishers -> FinishRecord]
    <3>1. finish' = [finish EXCEPT ![t] = [finish[t] EXCEPT !.at = "prove", !.from = tipped, !.to = local]]
      BY <1>1, <2>4
    <3>2. [finish[t] EXCEPT !.at = "prove", !.from = tipped, !.to = local] \in FinishRecord
      BY <1>1, <2>2 DEF FinishRecord
    <3> QED
      BY <1>1, <3>1, <3>2
  <2> QED
    BY <1>1, <2>3, <2>4
<1>6. \/ UNCHANGED finish
      \/ \E t \in Finishers :
            \/ TakeIntegration(t, "direct") \/ TakeIntegration(t, "sync")
            \/ CheckDirect(t) \/ CheckSync(t)
            \/ MergeDirect(t) \/ MergeSync(t) \/ PublishDirect(t) \/ Prove(t) \/ Record(t) \/ KillFinish(t)
            \/ Conclude(t)
  BY DEF AdvanceNext, Rebase, RemoteMerge, Fetch, RawFastForward, RawCommit, RawEdit,
         PrepareWindow, OpenWindow, LookAfter, AssessMove, Aside
<1> QED
  BY <1>1, <1>2, <1>3, <1>4, <1>5, <1>6

\* Receipts, reports and counters keep their types as well.
LEMMA ReceiptTypes ==
    ASSUME AdvanceTypes, AdvanceNext
    PROVE  /\ receipts' \in Seq(Receipt) /\ deliveredHeads' \subseteq [task : Finishers, head : History]
           /\ spent' \in [commits : Nat, raw : Nat, stops : Nat]
<1>1. spent' \in [commits : Nat, raw : Nat, stops : Nat]
  <2>1. \/ spent' = spent
        \/ Spend("commits", MaxCommits) \/ Spend("raw", MaxRaw) \/ Spend("stops", MaxStops)
        \/ RawCommit
    BY DEF AdvanceNext, TakeIntegration, CheckDirect, CheckSync, MergeDirect, MergeSync, PublishDirect,
         Conclude, Prove, Record, KillFinish, Rebase, RemoteMerge, Fetch, RawFastForward, RawEdit,
         PrepareWindow, OpenWindow, LookAfter, AssessMove, Aside
  <2>2. Spend("commits", MaxCommits) \/ Spend("raw", MaxRaw) \/ Spend("stops", MaxStops)
        => spent' \in [commits : Nat, raw : Nat, stops : Nat]
    <3>1. spent \in [commits : Nat, raw : Nat, stops : Nat]
      BY DEF AdvanceTypes
    <3>2. Spend("commits", MaxCommits) => spent' \in [commits : Nat, raw : Nat, stops : Nat]
      BY <3>1 DEF Spend
    <3>3. Spend("raw", MaxRaw) => spent' \in [commits : Nat, raw : Nat, stops : Nat]
      BY <3>1 DEF Spend
    <3>4. Spend("stops", MaxStops) => spent' \in [commits : Nat, raw : Nat, stops : Nat]
      BY <3>1 DEF Spend
    <3> QED
      BY <3>2, <3>3, <3>4
  <2>3. RawCommit => spent' \in [commits : Nat, raw : Nat, stops : Nat]
    <3>1. RawCommit => spent' = [spent EXCEPT !.raw = @ + 1, !.commits = @ + 1]
      BY DEF RawCommit
    <3>2. /\ spent.raw + 1 \in Nat /\ spent.commits + 1 \in Nat
          /\ spent \in [commits : Nat, raw : Nat, stops : Nat]
      BY DEF AdvanceTypes
    <3>3. [spent EXCEPT !.raw = @ + 1] \in [commits : Nat, raw : Nat, stops : Nat]
      BY <3>2
    <3>4. [spent EXCEPT !.raw = @ + 1].commits = spent.commits
      BY <3>2
    <3> QED
      BY <3>1, <3>2, <3>3, <3>4
  <2> QED
    BY <2>1, <2>2, <2>3 DEF AdvanceTypes
<1>2. ASSUME NEW t \in Finishers, Record(t)
      PROVE  receipts' \in Seq(Receipt) /\ deliveredHeads' \subseteq [task : Finishers, head : History]
  <2>1. finish[t].from \in History /\ finish[t].to \in History
    BY DEF AdvanceTypes, FinishRecord
  <2>2. [before |-> finish[t].from, after |-> finish[t].to, main |-> originMain, actor |-> t] \in Receipt
    BY <2>1 DEF AdvanceTypes, Receipt
  <2> QED
    BY <1>2, <2>1, <2>2 DEF AdvanceTypes, Record
<1>3. ASSUME NEW t \in Finishers, Conclude(t)
      PROVE  receipts' \in Seq(Receipt) /\ deliveredHeads' \subseteq [task : Finishers, head : History]
  <2>1. [task |-> t, head |-> local] \in [task : Finishers, head : History]
    BY DEF AdvanceTypes
  <2>2. \/ UNCHANGED <<receipts, deliveredHeads>>
        \/ UNCHANGED receipts /\ deliveredHeads' = deliveredHeads \cup {[task |-> t, head |-> local]}
    BY <1>3 DEF Conclude
  <2> QED
    BY <2>1, <2>2 DEF AdvanceTypes
<1>4. \/ UNCHANGED <<receipts, deliveredHeads>> \/ \E t \in Finishers : Record(t) \/ Conclude(t)
  BY DEF AdvanceNext, TakeIntegration, CheckDirect, CheckSync, MergeDirect, MergeSync, PublishDirect,
         Prove, KillFinish, Rebase, RemoteMerge, Fetch, RawFastForward, RawCommit, RawEdit,
         PrepareWindow, OpenWindow, LookAfter, AssessMove, Aside
<1> QED
  BY <1>1, <1>2, <1>3, <1>4 DEF AdvanceTypes

LEMMA TypesStay == AdvanceTypes /\ AdvanceNext => AdvanceTypes'
  BY HistoryTypes, FinishTypes, ReceiptTypes DEF AdvanceTypes

-----------------------------------------------------------------------------
(* Histories: commits are numbered as they come, origin/main is a history  *)
(* that the server had, and local main has only ever moved forward.        *)

Numbered ==
    /\ Upto(local, spent.commits) /\ Upto(remote, spent.commits)
    /\ \A t \in Finishers : Upto(branch[t], spent.commits)
    /\ \A i \in 1..Len(reflog) : IsPrefix(reflog[i].to, local)
    /\ IsPrefix(originMain, remote)

\* A history in the reflog is old.
LEMMA PrefixUpto ==
    ASSUME NEW s \in History, NEW t \in History, NEW n \in Nat, IsPrefix(s, t), Upto(t, n)
    PROVE  Upto(s, n)
<1>1. Len(s) <= Len(t) /\ Len(s) \in Nat /\ Len(t) \in Nat /\ \A i \in 1..Len(s) : s[i] = t[i]
  BY PrefixByElement DEF History
<1>2. \A i \in 1..Len(s) : i \in 1..Len(t)
  BY <1>1
<1> QED
  BY <1>1, <1>2 DEF Upto

\* What a reflog names are histories.
LEMMA ReflogHistories == AdvanceTypes => \A i \in 1..Len(reflog) : reflog[i].to \in History
<1> SUFFICES ASSUME AdvanceTypes, NEW i \in 1..Len(reflog) PROVE reflog[i].to \in History
  OBVIOUS
<1>1. reflog[i] \in Entry
  BY DEF AdvanceTypes
<1> QED
  BY <1>1 DEF Entry

\* The reflog and the moves tell the same story.
ReflogTells ==
    /\ Len(reflog) = Len(moves) + 1
    /\ reflog[1].to = <<>> /\ reflog[Len(reflog)].to = local
    /\ \A i \in 1..Len(moves) :
        /\ moves[i].before = reflog[i].to /\ moves[i].after = reflog[i + 1].to
        /\ Before(moves[i].before, moves[i].after)
        /\ reflog[i + 1].how \in Finishers => moves[i].by = reflog[i + 1].how

\* What is on the branch of a task came to local main by its own finish, and
\* to origin only from there.
OwnBranches ==
    \A t \in Finishers : branch[t] # <<>> =>
        /\ \A i \in 1..Len(reflog) : reflog[i].to = branch[t] => reflog[i].how = t
        /\ IsPrefix(branch[t], remote) => IsPrefix(branch[t], local)
        /\ \A u \in Finishers \ {t} : branch[u] # branch[t]

\* Where local main comes to in a step, it comes forward.
LEMMA MainMoves ==
    ASSUME AdvanceTypes, Numbered, AdvanceNext
    PROVE  \/ Stays
           \/ \E target \in History, how \in How, who \in Finishers \cup {"raw"} :
                 /\ MoveTo(target, how, who) /\ Before(local, target)
                 /\ how \in Finishers => how = who
<1>1. NewCommit \in Nat /\ Append(local, NewCommit) \in History /\ Before(local, Append(local, NewCommit))
  BY NewHistory, HistoryTypes DEF AdvanceTypes
<1>2. {"origin", "pull", "commit"} \cap Finishers = {}
  BY AdvanceAssumption
<1> QED
  BY <1>1, <1>2, StepKinds DEF AdvanceTypes, CommitsLocally, CommitsRemotely, CommitsToBranch, Forwards, Publishes,
     OnlyFetches, How

LEMMA LocalGrows ==
    ASSUME AdvanceTypes, Numbered, AdvanceNext
    PROVE  IsPrefix(local, local') /\ (local' = local \/ Before(local, local'))
  BY MainMoves, PrefixOrder DEF AdvanceTypes, Stays, MoveTo, Before

LEMMA ReflogStep ==
    ASSUME AdvanceTypes, Numbered, ReflogTells, AdvanceNext
    PROVE  ReflogTells' /\ \A i \in 1..Len(reflog') : IsPrefix(reflog'[i].to, local')
<1>1. CASE Stays
  BY <1>1 DEF Stays, ReflogTells, Numbered
<1>2. ASSUME NEW target \in History, NEW how \in How, NEW who \in Finishers \cup {"raw"},
             MoveTo(target, how, who), Before(local, target), how \in Finishers => how = who
      PROVE  ReflogTells' /\ \A i \in 1..Len(reflog') : IsPrefix(reflog'[i].to, local')
  <2> DEFINE e == [to |-> target, how |-> how]
  <2> DEFINE m == [before |-> local, after |-> target, by |-> who]
  <2>1. /\ Len(reflog) \in Nat /\ Len(moves) \in Nat
        /\ Len(reflog') = Len(reflog) + 1 /\ Len(moves') = Len(moves) + 1
        /\ \A i \in 1..Len(reflog) : reflog'[i] = reflog[i]
        /\ \A i \in 1..Len(moves) : moves'[i] = moves[i]
        /\ reflog'[Len(reflog) + 1] = e /\ moves'[Len(moves) + 1] = m /\ local' = target
    <3>1. reflog' = Append(reflog, e) /\ moves' = Append(moves, m) /\ local' = target
      BY <1>2 DEF MoveTo
    <3> QED
      BY <3>1 DEF AdvanceTypes
  <2>2. \A i \in 1..Len(reflog) : reflog[i].to \in History
    BY ReflogHistories
  <2>3. \A i \in 1..Len(reflog') : IsPrefix(reflog'[i].to, local')
    <3> TAKE i \in 1..Len(reflog')
    <3>1. CASE i \in 1..Len(reflog)
      <4>1. IsPrefix(reflog[i].to, local) /\ IsPrefix(local, target) /\ reflog[i].to \in History /\ local \in History
        BY <1>2, <2>2, <3>1 DEF Numbered, Before, AdvanceTypes
      <4> QED
        BY <2>1, <3>1, <4>1, PrefixOrder
    <3>2. CASE i = Len(reflog) + 1
      BY <2>1, <3>2, PrefixOrder
    <3> QED
      BY <2>1, <3>1, <3>2
  <2>4. /\ Len(reflog') = Len(moves') + 1 /\ reflog'[1].to = <<>> /\ reflog'[Len(reflog')].to = local'
    BY <2>1 DEF ReflogTells
  <2>5. \A i \in 1..Len(moves') :
          /\ moves'[i].before = reflog'[i].to /\ moves'[i].after = reflog'[i + 1].to
          /\ Before(moves'[i].before, moves'[i].after)
          /\ reflog'[i + 1].how \in Finishers => moves'[i].by = reflog'[i + 1].how
    <3> TAKE i \in 1..Len(moves')
    <3>1. CASE i \in 1..Len(moves)
      BY <2>1, <3>1 DEF ReflogTells
    <3>2. CASE i = Len(moves) + 1
      BY <1>2, <2>1, <3>2 DEF ReflogTells
    <3> QED
      BY <2>1, <3>1, <3>2
  <2> QED
    BY <2>3, <2>4, <2>5 DEF ReflogTells
<1> QED
  BY <1>1, <1>2, MainMoves

LEMMA NumberedStep ==
    ASSUME AdvanceTypes, Numbered, ReflogTells, AdvanceNext
    PROVE  Numbered'
<1> DEFINE n == spent.commits
<1>1. n \in Nat /\ NewCommit \in Nat /\ n < NewCommit /\ n <= NewCommit
  BY DEF AdvanceTypes, NewCommit
<1>2. \A s \in History : Upto(s, n) => Upto(s, NewCommit) /\ Upto(Append(s, NewCommit), NewCommit)
  BY <1>1, UptoGrows, NewHistory
<1>3. /\ Upto(local, n) /\ Upto(remote, n) /\ Upto(originMain, n)
      /\ \A t \in Finishers : Upto(branch[t], n)
  BY <1>1, PrefixUpto DEF AdvanceTypes, Numbered
<1>4. /\ local \in History /\ remote \in History /\ originMain \in History
      /\ \A t \in Finishers : branch[t] \in History
  BY DEF AdvanceTypes
<1>5. /\ Upto(local', spent'.commits) /\ Upto(remote', spent'.commits)
      /\ \A t \in Finishers : Upto(branch'[t], spent'.commits)
  <2>1. CASE CommitsLocally \/ CommitsRemotely
    BY <1>2, <1>3, <1>4, <2>1 DEF CommitsLocally, CommitsRemotely, MoveTo, Stays
  <2>2. CASE CommitsToBranch
    <3>1. PICK t \in Finishers : branch' = [branch EXCEPT ![t] = Append(local, NewCommit)]
      BY <2>2 DEF CommitsToBranch
    <3>2. \A u \in Finishers : branch'[u] = branch[u] \/ branch'[u] = Append(local, NewCommit)
      BY <3>1 DEF AdvanceTypes
    <3> QED
      BY <1>2, <1>3, <1>4, <2>2, <3>2 DEF CommitsToBranch, Stays
  <2>3. CASE Forwards \/ Publishes \/ OnlyFetches
    BY <1>3, <2>3 DEF Forwards, Publishes, OnlyFetches, MoveTo, Stays
  <2> QED
    BY <2>1, <2>2, <2>3, StepKinds
<1>6. IsPrefix(originMain', remote')
  <2>1. IsPrefix(remote, Append(remote, NewCommit)) /\ Append(remote, NewCommit) \in History
    BY <1>1, <1>4, NewHistory DEF Before
  <2>2. IsPrefix(originMain, Append(remote, NewCommit)) /\ IsPrefix(remote, remote) /\ IsPrefix(local, local)
    BY <1>4, <2>1, PrefixOrder DEF Numbered
  <2>3. \/ originMain' = originMain /\ remote' \in {remote, Append(remote, NewCommit)}
        \/ originMain' = remote /\ remote' = remote
        \/ originMain' = local /\ remote' = local
    BY StepKinds DEF CommitsLocally, CommitsRemotely, CommitsToBranch, Forwards, Publishes, OnlyFetches
  <2> QED
    BY <2>2, <2>3 DEF Numbered
<1> QED
  BY <1>5, <1>6, ReflogStep DEF Numbered

LEMMA OwnBranchesStep ==
    ASSUME AdvanceTypes, Numbered, ReflogTells, OwnBranches, AdvanceNext
    PROVE  OwnBranches'
<1> DEFINE n == spent.commits
<1>1. n \in Nat /\ NewCommit \in Nat /\ n < NewCommit /\ n <= NewCommit
  BY DEF AdvanceTypes, NewCommit
<1>2. /\ local \in History /\ remote \in History /\ originMain \in History
      /\ \A t \in Finishers : branch[t] \in History
      /\ \A i \in 1..Len(reflog) : reflog[i].to \in History
  BY ReflogHistories DEF AdvanceTypes
<1>3. /\ Upto(local, n) /\ Upto(remote, n) /\ \A t \in Finishers : Upto(branch[t], n)
      /\ \A i \in 1..Len(reflog) : Upto(reflog[i].to, n)
  <2>1. \A i \in 1..Len(reflog) : Upto(reflog[i].to, n)
    BY <1>1, <1>2, PrefixUpto DEF Numbered
  <2> QED
    BY <2>1 DEF Numbered
<1>4. \A s, h \in History : Upto(h, n) => ~IsPrefix(Append(s, NewCommit), h) /\ h # Append(s, NewCommit)
  <2> SUFFICES ASSUME NEW s \in History, NEW h \in History, Upto(h, n)
              PROVE  ~IsPrefix(Append(s, NewCommit), h) /\ h # Append(s, NewCommit)
    OBVIOUS
  <2>1. ~IsPrefix(Append(s, NewCommit), h)
    BY <1>1, NewHistory
  <2> QED
    BY <2>1, PrefixOrder
<1>5. /\ \A s \in History : Append(s, NewCommit) \in History /\ Append(s, NewCommit) # <<>>
      /\ \A s, h \in History : IsPrefix(h, Append(s, NewCommit)) => IsPrefix(h, s) \/ h = Append(s, NewCommit)
  BY <1>1, NewHistory
<1>6. IsPrefix(local, local')
  BY LocalGrows
<1>7. CASE CommitsToBranch
  <2>1. PICK t \in Finishers : branch' = [branch EXCEPT ![t] = Append(local, NewCommit)]
    BY <1>7 DEF CommitsToBranch
  <2>2. branch'[t] = Append(local, NewCommit) /\ \A u \in Finishers \ {t} : branch'[u] = branch[u]
    BY <2>1 DEF AdvanceTypes
  <2>3. UNCHANGED <<local, reflog, remote>>
    BY <1>7 DEF CommitsToBranch, Stays
  <2>4. \A u \in Finishers \ {t} : branch[u] # Append(local, NewCommit)
    BY <1>2, <1>3, <1>4
  <2>5. /\ \A i \in 1..Len(reflog) : reflog[i].to # Append(local, NewCommit)
        /\ ~IsPrefix(Append(local, NewCommit), remote)
    BY <1>2, <1>3, <1>4
  <2> QED
    BY ZenonT(40), <2>2, <2>3, <2>4, <2>5 DEF OwnBranches
<1>8. CASE Publishes \/ OnlyFetches
  BY <1>2, <1>8, PrefixOrder DEF OwnBranches, Publishes, OnlyFetches, Stays
<1>9. CASE CommitsRemotely
  <2>1. /\ remote' = Append(remote, NewCommit) /\ UNCHANGED <<local, reflog, branch>>
    BY <1>9 DEF CommitsRemotely, Stays
  <2>2. \A t \in Finishers : IsPrefix(branch[t], remote') => IsPrefix(branch[t], remote)
    BY <1>2, <1>3, <1>4, <1>5, <2>1
  <2> QED
    BY <2>1, <2>2 DEF OwnBranches
<1>10. ASSUME NEW target \in History, NEW how \in How, NEW who \in Finishers \cup {"raw"},
              MoveTo(target, how, who), UNCHANGED <<remote, branch>>,
              \A t \in Finishers : branch[t] # <<>> /\ target = branch[t] => how = t
       PROVE  OwnBranches'
  <2>1. /\ Len(reflog) \in Nat /\ Len(reflog') = Len(reflog) + 1
        /\ \A i \in 1..Len(reflog) : reflog'[i] = reflog[i]
        /\ reflog'[Len(reflog) + 1] = [to |-> target, how |-> how]
    BY <1>10 DEF MoveTo, AdvanceTypes
  <2>2. ASSUME NEW t \in Finishers, branch[t] # <<>>
        PROVE  /\ \A i \in 1..Len(reflog') : reflog'[i].to = branch[t] => reflog'[i].how = t
               /\ IsPrefix(branch[t], remote) => IsPrefix(branch[t], local')
    <3>1. \A i \in 1..Len(reflog') : reflog'[i].to = branch[t] => reflog'[i].how = t
      <4> TAKE i \in 1..Len(reflog')
      <4>1. CASE i \in 1..Len(reflog)
        BY <2>1, <2>2, <4>1 DEF OwnBranches
      <4>2. CASE i = Len(reflog) + 1
        BY <1>10, <2>1, <2>2, <4>2
      <4> QED
        BY <2>1, <4>1, <4>2
    <3>2. IsPrefix(branch[t], remote) => IsPrefix(branch[t], local)
      BY <2>2 DEF OwnBranches
    <3>3. local' \in History
      BY HistoryTypes
    <3> QED
      BY <1>2, <1>6, <3>1, <3>2, <3>3, PrefixOrder
  <2> QED
    BY <1>10, <2>2 DEF OwnBranches
<1>11. CASE CommitsLocally
  <2>1. MoveTo(Append(local, NewCommit), "commit", "raw") /\ UNCHANGED <<remote, branch>>
    BY <1>11 DEF CommitsLocally
  <2>2. \A t \in Finishers : branch[t] # Append(local, NewCommit)
    BY <1>2, <1>3, <1>4
  <2> QED
    BY <1>2, <1>5, <1>10, <2>1, <2>2 DEF How
<1>12. ASSUME NEW t \in Finishers, Before(local, branch[t]), MoveTo(branch[t], t, t), UNCHANGED <<remote, branch>>
       PROVE  OwnBranches'
  <2>1. branch[t] \in History /\ t \in How /\ \A u \in Finishers : branch[u] # <<>> /\ branch[t] = branch[u] => t = u
    BY <1>2 DEF OwnBranches, How
  <2> QED
    BY <1>10, <1>12, <2>1
<1>13. ASSUME NEW how \in {"origin", "pull"}, NEW who \in Finishers \cup {"raw"}, Before(local, originMain),
              MoveTo(originMain, how, who), UNCHANGED <<remote, branch>>
       PROVE  OwnBranches'
  <2>1. \A t \in Finishers : branch[t] # <<>> => originMain # branch[t]
    <3> SUFFICES ASSUME NEW t \in Finishers, branch[t] # <<>>, originMain = branch[t] PROVE FALSE
      OBVIOUS
    <3>1. IsPrefix(originMain, local)
      BY DEF Numbered, OwnBranches
    <3> QED
      BY <1>2, <1>13, <3>1, PrefixOrder DEF Before
  <2> QED
    BY <1>2, <1>10, <1>13, <2>1 DEF How
<1>14. CASE Forwards
  BY <1>12, <1>13, <1>14 DEF Forwards
<1> QED
  BY <1>7, <1>8, <1>9, <1>11, <1>14, StepKinds

-----------------------------------------------------------------------------
(* Commands: what a finish or a synchronization relies on at its step.     *)

CommandStep(t) ==
    \/ finish[t] = AtRest
    \/ finish[t].does = "direct" /\ finish[t].at \in {"check", "merge", "publish", "conclude", "prove", "record"}
    \/ finish[t].does = "sync" /\ finish[t].at \in {"check", "merge", "conclude", "prove", "record"}

DirectKnows(t) ==
    finish[t].does = "direct" =>
        /\ branch[t] # <<>>
        /\ finish[t].at = "merge" => IsPrefix(finish[t].from, local) /\ IsPrefix(finish[t].from, branch[t])
        /\ finish[t].at \in {"publish", "conclude"} =>
               IsPrefix(finish[t].from, local) /\ (finish[t].from = local => branch[t] = local)

\* The moves from a head that Git calls a merge of origin were made by a task.
OriginMoves(from, t) ==
    \A i \in 1..Len(moves) : moves[i].before = from /\ reflog[i + 1].how = "origin" => moves[i].by = t

SyncKnows(t) ==
    finish[t].does = "sync" =>
        /\ finish[t].at = "merge" => IsPrefix(finish[t].from, local) /\ Before(finish[t].from, originMain)
        /\ finish[t].at \in {"conclude", "prove"} => Before(finish[t].from, local)
        /\ ~raced /\ finish[t].at \in {"merge", "conclude", "prove"} => OriginMoves(finish[t].from, t)

MoveOf(from, to, t) == \E i \in 1..Len(moves) : moves[i] = [before |-> from, after |-> to, by |-> t]
Logged(to, t) == \E i \in 1..Len(reflog) : reflog[i].to = to /\ reflog[i].how \in {t, "origin"}

RecordKnows(t) ==
    finish[t].at = "record" => Logged(finish[t].to, t) /\ (~raced => MoveOf(finish[t].from, finish[t].to, t))

FinishKnows(t) == CommandStep(t) /\ DirectKnows(t) /\ SyncKnows(t) /\ RecordKnows(t)

CommandInv ==
    /\ AdvanceTypes /\ LockHeld /\ Numbered /\ ReflogTells /\ OwnBranches
    /\ \A t \in Finishers : FinishKnows(t)

LEMMA RestKnows ==
    ASSUME NEW t \in Finishers, finish'[t] = AtRest
    PROVE  FinishKnows(t)'
  BY DEF AtRest, FinishKnows, CommandStep, DirectKnows, SyncKnows, RecordKnows

\* Local main was never before where it is.
LEMMA MainIsNew ==
    ASSUME AdvanceTypes, Numbered, ReflogTells, NEW i \in 1..Len(moves)
    PROVE  moves[i].before # local
<1>1. i + 1 \in 1..Len(reflog) /\ i \in 1..Len(reflog)
  BY DEF AdvanceTypes, ReflogTells
<1>2. /\ moves[i].before \in History /\ moves[i].after \in History /\ local \in History
      /\ IsPrefix(moves[i].after, local) /\ Before(moves[i].before, moves[i].after)
  BY <1>1, ReflogHistories DEF AdvanceTypes, ReflogTells, Numbered
<1> QED
  BY <1>2, PrefixOrder DEF Before

\* The reflog and the moves only grow, each by the same step.
LEMMA LogsGrow ==
    ASSUME AdvanceTypes, Numbered, ReflogTells, AdvanceNext
    PROVE  /\ Len(moves) \in Nat /\ Len(moves') \in Nat /\ Len(moves) <= Len(moves') /\ Len(reflog) <= Len(reflog')
           /\ Len(moves') <= Len(moves) + 1
           /\ \A i \in 1..Len(moves) : moves'[i] = moves[i]
           /\ \A i \in 1..Len(reflog) : reflog'[i] = reflog[i]
           /\ ~raced' => ~raced
           /\ Len(moves') # Len(moves) => moves'[Len(moves) + 1].before = local
<1>1. ~raced' => ~raced
  BY DEF AdvanceNext, TakeIntegration, CheckDirect, CheckSync, MergeDirect, MergeSync, PublishDirect,
         Conclude, Prove, Record, KillFinish, Rebase, RemoteMerge, Fetch, RawFastForward, RawCommit, RawEdit,
         PrepareWindow, OpenWindow, LookAfter, AssessMove, Aside, Apart
<1>2. CASE Stays
  BY <1>1, <1>2 DEF Stays, AdvanceTypes
<1>3. ASSUME NEW target \in History, NEW how \in How, NEW who \in Finishers \cup {"raw"}, MoveTo(target, how, who)
      PROVE  /\ Len(moves) \in Nat /\ Len(moves') = Len(moves) + 1 /\ Len(reflog) <= Len(reflog')
             /\ \A i \in 1..Len(moves) : moves'[i] = moves[i]
             /\ \A i \in 1..Len(reflog) : reflog'[i] = reflog[i]
             /\ moves'[Len(moves) + 1].before = local
  BY <1>3 DEF MoveTo, AdvanceTypes
<1> QED
  BY <1>1, <1>2, <1>3, MainMoves

\* Only the synchronization that is at its merge can move main by a merge of
\* origin without a race.
LEMMA OriginStep ==
    ASSUME CommandInv, AdvanceNext, ~raced', NEW t \in Finishers,
           FinishAt(t, "sync", "merge"), OriginMoves(finish[t].from, t)
    PROVE  OriginMoves(finish[t].from, t)'  \/ finish'[t].from # finish[t].from
<1> SUFFICES ASSUME finish'[t].from = finish[t].from,
                    NEW i \in 1..Len(moves'), moves'[i].before = finish[t].from, reflog'[i + 1].how = "origin"
             PROVE  moves'[i].by = t
  BY DEF OriginMoves
<1>1. AdvanceTypes /\ Numbered /\ ReflogTells
  BY DEF CommandInv
<1>2. CASE i \in 1..Len(moves)
  BY <1>1, <1>2, LogsGrow DEF OriginMoves, ReflogTells
<1>3. CASE i = Len(moves) + 1
  <2>1. ~Stays
    BY <1>1, <1>3, LogsGrow DEF Stays
  <2>2. /\ Len(moves) \in Nat /\ Len(reflog) = Len(moves) + 1
    BY <1>1 DEF AdvanceTypes, ReflogTells
  <2>3. \A target \in History, how \in How, who \in Finishers \cup {"raw"} :
           MoveTo(target, how, who) => reflog'[i + 1].how = how /\ moves'[i].by = who
    BY <1>1, <1>3, <2>2 DEF MoveTo, AdvanceTypes
  <2>4. \A u \in Finishers : FinishAt(u, "sync", "merge") => u = t
    BY DEF CommandInv, LockHeld, FinishAt, AtRest
  <2>5. {"origin", "pull", "commit"} \subseteq How /\ Finishers \subseteq How /\ "origin" \notin Finishers
    BY AdvanceAssumption DEF How
  <2>6. /\ Append(local, NewCommit) \in History /\ originMain \in History
        /\ \A u \in Finishers : branch[u] \in History
    BY <1>1, HistoryTypes, NewHistory DEF AdvanceTypes
  <2>7. CASE CommitsLocally
    BY <2>3, <2>5, <2>6, <2>7 DEF CommitsLocally
  <2>8. CASE Forwards
    BY <2>3, <2>4, <2>5, <2>6, <2>8 DEF Forwards
  <2> QED
    BY <1>1, <2>1, <2>7, <2>8, StepKinds DEF CommitsRemotely, CommitsToBranch, Publishes, OnlyFetches
<1> QED
  BY <1>1, <1>2, <1>3, LogsGrow

\* A command that does not take the step still knows what it knew.
LEMMA BystanderKnows ==
    ASSUME CommandInv, AdvanceNext, NEW t \in Finishers, finish'[t] = finish[t]
    PROVE  FinishKnows(t)'
<1>1. AdvanceTypes /\ Numbered /\ ReflogTells /\ FinishKnows(t)
  BY DEF CommandInv
<1>2. CASE finish[t] = AtRest
  BY <1>2, RestKnows
<1>3. CASE finish[t] # AtRest
  <2>1. branch'[t] = branch[t]
    BY <1>1, <1>3, StepKinds DEF AdvanceTypes, CommitsLocally, CommitsRemotely, CommitsToBranch, Forwards, Publishes, OnlyFetches
  <2>2. /\ local \in History /\ local' \in History /\ branch[t] \in History /\ finish[t].from \in History
        /\ originMain \in History /\ originMain' \in History /\ remote \in History
    BY <1>1, HistoryTypes DEF AdvanceTypes, FinishRecord
  <2>3. IsPrefix(local, local') /\ IsPrefix(originMain, originMain')
    <3>1. IsPrefix(originMain, remote) /\ IsPrefix(originMain, originMain) /\ (IsPrefix(remote, local) => IsPrefix(originMain, local))
      BY <1>1, <2>2, PrefixOrder DEF Numbered
    <3> QED
      BY <1>1, <3>1, LocalGrows, StepKinds DEF CommitsLocally, CommitsRemotely, CommitsToBranch, Forwards, Publishes, OnlyFetches
  <2>4. /\ IsPrefix(finish[t].from, local) => IsPrefix(finish[t].from, local')
        /\ IsPrefix(finish[t].from, local) /\ finish[t].from = local' => local' = local
        /\ Before(finish[t].from, local) => Before(finish[t].from, local')
        /\ Before(finish[t].from, originMain) => Before(finish[t].from, originMain')
    BY <2>2, <2>3, PrefixOrder DEF Before
  <2>5. DirectKnows(t)'
    BY <1>1, <2>1, <2>4 DEF FinishKnows, DirectKnows
  <2>6. ASSUME ~raced', finish[t].does = "sync", finish[t].at \in {"merge", "conclude", "prove"}
        PROVE  OriginMoves(finish[t].from, t)'
    <3>1. ~raced /\ OriginMoves(finish[t].from, t)
      BY <1>1, <2>6, LogsGrow DEF FinishKnows, SyncKnows
    <3>2. CASE finish[t].at = "merge"
      BY <2>6, <3>1, <3>2, OriginStep DEF FinishAt
    <3>3. CASE finish[t].at # "merge"
      <4>1. finish[t].from # local
        BY <1>1, <2>6, <3>3 DEF FinishKnows, SyncKnows, Before
      <4>2. \A i \in 1..Len(moves') : i \in 1..Len(moves) \/ moves'[i].before # finish[t].from
        BY <1>1, <4>1, LogsGrow
      <4>3. \A i \in 1..Len(moves) : i + 1 \in 1..Len(reflog)
        BY <1>1 DEF ReflogTells, AdvanceTypes
      <4> QED
        BY <1>1, <3>1, <4>2, <4>3, LogsGrow DEF OriginMoves
    <3> QED
      BY <3>2, <3>3
  <2>7. SyncKnows(t)'
    BY <1>1, <2>4, <2>6 DEF FinishKnows, SyncKnows
  <2>8. RecordKnows(t)'
    <3>1. \A to \in History : Logged(to, t) => Logged(to, t)'
      BY SMTT(20), <1>1, LogsGrow DEF Logged, AdvanceTypes
    <3>2. MoveOf(finish[t].from, finish[t].to, t) => MoveOf(finish[t].from, finish[t].to, t)'
      BY <1>1, LogsGrow DEF MoveOf
    <3>3. finish[t].to \in History
      BY <1>1 DEF AdvanceTypes, FinishRecord
    <3> QED
      BY <1>1, <3>1, <3>2, <3>3, LogsGrow DEF FinishKnows, RecordKnows
  <2> QED
    BY <1>1, <2>5, <2>7, <2>8 DEF FinishKnows, CommandStep
<1> QED
  BY <1>2, <1>3

\* The step of a command itself.
ActsOf(t) ==
    \/ TakeIntegration(t, "direct") \/ TakeIntegration(t, "sync")
    \/ CheckDirect(t) \/ MergeDirect(t) \/ PublishDirect(t) \/ CheckSync(t) \/ MergeSync(t)
    \/ Conclude(t) \/ Prove(t) \/ Record(t) \/ KillFinish(t)

\* It leaves the other commands where they are.
LEMMA OthersWait ==
    ASSUME AdvanceTypes, NEW t \in Finishers, ActsOf(t)
    PROVE  \A u \in Finishers \ {t} : finish'[u] = finish[u]
BY DEF AdvanceTypes, ActsOf, TakeIntegration, CheckDirect, MergeDirect, PublishDirect, CheckSync, MergeSync, Conclude,
       Prove, Record, KillFinish, FastForward, Proceeds, Leaves

\* The lock is with the command as long as it runs.
LEMMA LockStep ==
    ASSUME CommandInv, AdvanceNext
    PROVE  LockHeld'
<1>1. AdvanceTypes /\ LockHeld /\ \A t \in Finishers : CommandStep(t)
  BY DEF CommandInv, FinishKnows
<1>2. ASSUME NEW t \in Finishers, ActsOf(t) PROVE LockHeld'
  <2>1. \/ finish'[t] = AtRest /\ lockedBy' = NoTask /\ finish[t] # AtRest
        \/ lockedBy' = lockedBy /\ finish[t] # AtRest
        \/ lockedBy = NoTask /\ lockedBy' = t
    <3>1. CASE TakeIntegration(t, "direct") \/ TakeIntegration(t, "sync")
      BY <3>1 DEF TakeIntegration
    <3>2. CASE ~(TakeIntegration(t, "direct") \/ TakeIntegration(t, "sync"))
      <4>1. finish[t] # AtRest
        <5>1. KillFinish(t) \/ finish[t].at # "none"
          BY <1>2, <3>2 DEF ActsOf, CheckDirect, MergeDirect, PublishDirect, CheckSync, MergeSync, Conclude, Prove,
             Record, FinishAt
        <5> QED
          BY <5>1 DEF KillFinish, AtRest
      <4>2. lockedBy' = lockedBy \/ (finish' = [finish EXCEPT ![t] = AtRest] /\ lockedBy' = NoTask)
        BY <1>2, <3>2 DEF ActsOf, CheckDirect, MergeDirect, PublishDirect, CheckSync, MergeSync, Conclude, Prove, Record,
           KillFinish, FastForward, Leaves
      <4> QED
        BY <1>1, <4>1, <4>2 DEF AdvanceTypes
    <3> QED
      BY <3>1, <3>2
  <2> QED
    BY <1>1, <1>2, <2>1, OthersWait, AdvanceAssumption DEF LockHeld
<1>3. CASE UNCHANGED <<finish, lockedBy>>
  BY <1>1, <1>3 DEF LockHeld
<1> QED
  BY <1>2, <1>3 DEF AdvanceNext, ActsOf, Rebase, RemoteMerge, Fetch, RawFastForward, RawCommit, RawEdit,
     PrepareWindow, OpenWindow, LookAfter, AssessMove, Aside

\* A command that has looked at main knows it, until it merges.
LEMMA CheckKnows ==
    ASSUME CommandInv, NEW t \in Finishers, TakeIntegration(t, "direct") \/ TakeIntegration(t, "sync")
                                            \/ CheckDirect(t) \/ CheckSync(t)
    PROVE  FinishKnows(t)'
<1>1. AdvanceTypes /\ Numbered /\ ReflogTells /\ FinishKnows(t) /\ local \in History /\ finish[t] \in FinishRecord
  BY DEF CommandInv, AdvanceTypes
<1>2. ASSUME NEW what \in {"direct", "sync"}, TakeIntegration(t, what) PROVE FinishKnows(t)'
  <2>1. /\ finish'[t] = [AtRest EXCEPT !.does = what, !.at = "check"] /\ branch' = branch
        /\ what = "direct" => branch[t] # <<>>
    BY <1>1, <1>2 DEF TakeIntegration, AdvanceTypes
  <2>2. finish'[t].does = what /\ finish'[t].at = "check"
    BY <2>1 DEF AtRest
  <2> QED
    BY <2>1, <2>2 DEF FinishKnows, CommandStep, DirectKnows, SyncKnows, RecordKnows
<1>3. CASE CheckDirect(t)
  <2>1. CASE finish'[t] = AtRest
    BY <2>1, RestKnows
  <2>2. CASE ~unclean /\ IsPrefix(remote, local) /\ IsPrefix(local, branch[t])
    <3>1. /\ finish'[t] = [finish[t] EXCEPT !.at = "merge", !.from = local]
          /\ UNCHANGED <<local, branch>> /\ finish[t].does = "direct"
      BY <1>1, <1>3, <2>2 DEF CheckDirect, FinishAt, Stays, AdvanceTypes
    <3>2. finish'[t].does = "direct" /\ finish'[t].at = "merge" /\ finish'[t].from = local
      BY <1>1, <3>1 DEF FinishRecord
    <3> QED
      BY <1>1, <2>2, <3>1, <3>2, PrefixOrder DEF FinishKnows, CommandStep, DirectKnows, SyncKnows, RecordKnows
  <2> QED
    BY <1>1, <1>3, <2>1, <2>2 DEF CheckDirect, Leaves, AdvanceTypes
<1>4. CASE CheckSync(t)
  <2>1. CASE finish'[t] = AtRest
    BY <2>1, RestKnows
  <2>2. CASE ~unclean /\ Before(local, remote)
    <3>1. /\ finish'[t] = [finish[t] EXCEPT !.at = "merge", !.from = local]
          /\ UNCHANGED <<local, moves, reflog>> /\ originMain' = remote /\ finish[t].does = "sync"
      BY <1>1, <1>4, <2>2 DEF CheckSync, FinishAt, Stays, AdvanceTypes
    <3>2. finish'[t].does = "sync" /\ finish'[t].at = "merge" /\ finish'[t].from = local
      BY <1>1, <3>1 DEF FinishRecord
    <3>3. OriginMoves(finish[t].from, t)'
      BY <1>1, <3>1, <3>2, MainIsNew DEF OriginMoves
    <3> QED
      BY <1>1, <2>2, <3>1, <3>2, <3>3, PrefixOrder DEF FinishKnows, CommandStep, DirectKnows, SyncKnows, RecordKnows
  <2> QED
    BY <1>1, <1>4, <2>1, <2>2 DEF CheckSync, Leaves, AdvanceTypes
<1> QED
  BY <1>2, <1>3, <1>4

\* The merge of a finish: main is then at the branch, or has moved since the check.
LEMMA MergeKnows ==
    ASSUME CommandInv, NEW t \in Finishers, MergeDirect(t) \/ MergeSync(t)
    PROVE  FinishKnows(t)'
<1>1. AdvanceTypes /\ Numbered /\ ReflogTells /\ FinishKnows(t) /\ AdvanceNext
  BY DEF CommandInv, AdvanceNext
<1>2. /\ finish[t] \in FinishRecord /\ local \in History /\ branch[t] \in History /\ originMain \in History
      /\ finish[t].from \in History
  BY <1>1 DEF AdvanceTypes, FinishRecord
<1>3. CASE finish'[t] = AtRest
  BY <1>3, RestKnows
<1>4. CASE MergeDirect(t) /\ finish'[t] # AtRest
  <2>1. /\ finish'[t] = [finish[t] EXCEPT !.at = "publish"] /\ branch' = branch
        /\ (Before(local, branch[t]) /\ local' = branch[t]) \/ (IsPrefix(branch[t], local) /\ local' = local)
    BY <1>1, <1>4 DEF MergeDirect, FastForward, Proceeds, Leaves, MoveTo, Stays, AdvanceTypes
  <2>2. /\ finish[t].does = "direct" /\ finish[t].at = "merge" /\ branch[t] # <<>>
        /\ IsPrefix(finish[t].from, local) /\ IsPrefix(finish[t].from, branch[t])
    BY <1>1, <1>4 DEF MergeDirect, FinishAt, FinishKnows, DirectKnows
  <2>3. finish'[t].does = "direct" /\ finish'[t].at = "publish" /\ finish'[t].from = finish[t].from
    BY <1>2, <2>1, <2>2 DEF FinishRecord
  <2>4. IsPrefix(finish[t].from, local') /\ (finish[t].from = local' => branch[t] = local')
    BY <1>2, <2>1, <2>2, PrefixOrder DEF Before
  <2> QED
    BY <2>1, <2>2, <2>3, <2>4 DEF FinishKnows, CommandStep, DirectKnows, SyncKnows, RecordKnows
<1>5. CASE MergeSync(t) /\ finish'[t] # AtRest
  <2>1. /\ finish'[t] = [finish[t] EXCEPT !.at = "conclude"]
        /\ (Before(local, originMain) /\ local' = originMain) \/ (IsPrefix(originMain, local) /\ local' = local)
    BY <1>1, <1>5 DEF MergeSync, FastForward, Proceeds, Leaves, MoveTo, Stays, AdvanceTypes
  <2>2. /\ finish[t].does = "sync" /\ finish[t].at = "merge" /\ Before(finish[t].from, originMain)
        /\ ~raced => OriginMoves(finish[t].from, t)
    BY <1>1, <1>5 DEF MergeSync, FinishAt, FinishKnows, SyncKnows
  <2>3. finish'[t].does = "sync" /\ finish'[t].at = "conclude" /\ finish'[t].from = finish[t].from
    BY <1>2, <2>1, <2>2 DEF FinishRecord
  <2>4. Before(finish[t].from, local')
    BY <1>2, <2>1, <2>2, PrefixOrder DEF Before
  <2>5. ~raced' => OriginMoves(finish[t].from, t)'
    BY <1>1, <2>2, <2>3, OriginStep, LogsGrow DEF FinishAt
  <2> QED
    BY <2>3, <2>4, <2>5 DEF FinishKnows, CommandStep, DirectKnows, SyncKnows, RecordKnows
<1> QED
  BY <1>3, <1>4, <1>5

LEMMA ConcludeKnows ==
    ASSUME CommandInv, NEW t \in Finishers, PublishDirect(t) \/ Conclude(t)
    PROVE  FinishKnows(t)'
<1>1. AdvanceTypes /\ FinishKnows(t) /\ finish[t] \in FinishRecord
  BY DEF CommandInv, AdvanceTypes
<1>2. CASE finish'[t] = AtRest
  BY <1>2, RestKnows
<1>3. CASE PublishDirect(t) /\ finish'[t] # AtRest
  <2>1. finish'[t] = [finish[t] EXCEPT !.at = "conclude"] /\ UNCHANGED <<branch, local>>
    BY <1>1, <1>3 DEF PublishDirect, Proceeds, Leaves, Stays, AdvanceTypes
  <2>2. finish[t].does = "direct" /\ finish[t].at = "publish"
    BY <1>3 DEF PublishDirect, FinishAt
  <2>3. finish'[t].does = "direct" /\ finish'[t].at = "conclude" /\ finish'[t].from = finish[t].from
    BY <1>1, <2>1, <2>2 DEF FinishRecord
  <2> QED
    BY <1>1, <2>1, <2>2, <2>3 DEF FinishKnows, CommandStep, DirectKnows, SyncKnows, RecordKnows
<1>4. CASE Conclude(t) /\ finish'[t] # AtRest
  <2>1. PICK tipped : /\ finish' = [finish EXCEPT ![t].at = "prove", ![t].from = tipped, ![t].to = local]
                      /\ finish[t].from # local => tipped = finish[t].from
    BY <1>1, <1>4 DEF Conclude, Leaves, AdvanceTypes
  <2>2. finish'[t] = [finish[t] EXCEPT !.at = "prove", !.from = tipped, !.to = local]
    BY <1>1, <2>1 DEF AdvanceTypes
  <2>3. finish'[t].does = finish[t].does /\ finish'[t].at = "prove" /\ finish'[t].from = tipped
    BY <1>1, <2>2 DEF FinishRecord
  <2>4. UNCHANGED <<branch, local, moves, reflog, raced>> /\ finish[t].at = "conclude"
    BY <1>4 DEF Conclude, Stays, Apart
  <2>5. finish[t].does \in {"direct", "sync"}
    BY <1>1, <2>4 DEF FinishKnows, CommandStep, AtRest
  <2>6. DirectKnows(t)' /\ RecordKnows(t)' /\ CommandStep(t)'
    BY <1>1, <2>3, <2>4, <2>5 DEF FinishKnows, CommandStep, DirectKnows, RecordKnows
  <2>7. SyncKnows(t)'
    <3>1. CASE finish[t].does = "sync"
      <4>1. Before(finish[t].from, local) /\ (~raced => OriginMoves(finish[t].from, t))
        BY <1>1, <2>4, <3>1 DEF FinishKnows, SyncKnows
      <4>2. tipped = finish[t].from
        BY <2>1, <4>1 DEF Before
      <4> QED
        BY <2>3, <2>4, <4>1, <4>2 DEF SyncKnows, OriginMoves
    <3> QED
      BY <2>3, <3>1 DEF SyncKnows
  <2> QED
    BY <2>6, <2>7 DEF FinishKnows
<1> QED
  BY <1>2, <1>3, <1>4

\* The reflog proves the own merge.
LEMMA ProveKnows ==
    ASSUME CommandInv, NEW t \in Finishers, Prove(t)
    PROVE  FinishKnows(t)'
<1>1. /\ AdvanceTypes /\ ReflogTells /\ FinishKnows(t) /\ finish[t] \in FinishRecord
      /\ Len(reflog) \in Nat /\ Len(moves) \in Nat /\ Len(reflog) = Len(moves) + 1
  BY DEF CommandInv, AdvanceTypes, ReflogTells
<1>2. CASE finish'[t] = AtRest
  BY <1>2, RestKnows
<1>3. CASE finish'[t] # AtRest
  <2>1. finish'[t] = [finish[t] EXCEPT !.at = "record"] /\ OwnFastForward(t) /\ finish[t].at = "prove"
    BY <1>1, <1>3 DEF Prove, Proceeds, Leaves, AdvanceTypes
  <2>2. /\ finish'[t].does = finish[t].does /\ finish'[t].at = "record" /\ finish'[t].from = finish[t].from
        /\ finish'[t].to = finish[t].to /\ finish[t].does \in {"direct", "sync"}
    BY <1>1, <2>1 DEF FinishRecord, FinishKnows, CommandStep, AtRest
  <2>3. UNCHANGED <<branch, moves, reflog, raced>>
    BY DEF Prove, Stays, Apart
  <2> DEFINE last == Len(moves)
  <2>4. /\ last \in 1..Len(moves) /\ reflog[last].to = finish[t].from /\ reflog[last + 1].to = finish[t].to
        /\ reflog[last + 1].how = IF finish[t].does = "direct" THEN t ELSE "origin"
    BY <1>1, <2>1 DEF OwnFastForward
  <2>5. Logged(finish[t].to, t)
    BY <1>1, <2>4 DEF Logged
  <2>6. /\ moves[last].before = finish[t].from /\ moves[last].after = finish[t].to /\ moves[last] \in Movement
        /\ reflog[last + 1].how \in Finishers => moves[last].by = reflog[last + 1].how
    BY <1>1, <2>4 DEF ReflogTells, AdvanceTypes
  <2>7. ~raced => moves[last].by = t
    BY <1>1, <2>1, <2>2, <2>4, <2>6 DEF FinishKnows, SyncKnows, OriginMoves
  <2>8. ~raced => MoveOf(finish[t].from, finish[t].to, t)
    BY <2>4, <2>6, <2>7 DEF MoveOf, Movement
  <2>9. RecordKnows(t)'
    BY <2>2, <2>3, <2>5, <2>8 DEF RecordKnows, Logged, MoveOf
  <2> QED
    BY <1>1, <2>1, <2>2, <2>3, <2>9 DEF FinishKnows, CommandStep, DirectKnows, SyncKnows
<1> QED
  BY <1>2, <1>3

LEMMA CommandsStep ==
    ASSUME CommandInv, AdvanceNext
    PROVE  CommandInv'
<1>1. AdvanceTypes /\ Numbered /\ ReflogTells /\ OwnBranches
  BY DEF CommandInv
<1>2. AdvanceTypes' /\ LockHeld' /\ Numbered' /\ ReflogTells' /\ OwnBranches'
  BY <1>1, TypesStay, LockStep, NumberedStep, ReflogStep, OwnBranchesStep
<1>3. ASSUME NEW t \in Finishers, ActsOf(t) PROVE \A u \in Finishers : FinishKnows(u)'
  <2>1. ASSUME Record(t) \/ KillFinish(t) PROVE finish'[t] = AtRest
    BY <1>1, <2>1 DEF Record, KillFinish, Leaves, AdvanceTypes
  <2>2. FinishKnows(t)'
    BY <1>3, <2>1, RestKnows, CheckKnows, MergeKnows, ConcludeKnows, ProveKnows DEF ActsOf
  <2> TAKE u \in Finishers
  <2>3. CASE u # t
    <3>1. finish'[u] = finish[u]
      BY <1>1, <1>3, <2>3, OthersWait
    <3> QED
      BY <3>1, BystanderKnows
  <2> QED
    BY <2>2, <2>3
<1>4. ASSUME UNCHANGED finish PROVE \A t \in Finishers : FinishKnows(t)'
  <2> TAKE t \in Finishers
  <2>1. finish'[t] = finish[t]
    BY <1>4
  <2> QED
    BY <2>1, BystanderKnows
<1>5. \A t \in Finishers : FinishKnows(t)'
  BY <1>3, <1>4 DEF AdvanceNext, ActsOf, Rebase, RemoteMerge, Fetch, RawFastForward, RawCommit, RawEdit,
     PrepareWindow, OpenWindow, LookAfter, AssessMove, Aside
<1> QED
  BY <1>2, <1>5 DEF CommandInv

-----------------------------------------------------------------------------
(* Receipts: each names an entry of the reflog, and unless there was a     *)
(* race the move of its actor.                                             *)

ReceiptsLogged == \A i \in 1..Len(receipts) : Logged(receipts[i].after, receipts[i].actor)
ReceiptInv == CommandInv /\ ReceiptsLogged /\ ReceiptsAreTrue

LEMMA ReceiptsStep ==
    ASSUME ReceiptInv, AdvanceNext
    PROVE  ReceiptInv'
<1>1. AdvanceTypes /\ Numbered /\ ReflogTells /\ CommandInv /\ CommandInv' /\ AdvanceTypes'
  BY CommandsStep DEF ReceiptInv, CommandInv
<1>2. /\ DOMAIN moves = 1..Len(moves) /\ DOMAIN moves' = 1..Len(moves')
      /\ DOMAIN receipts = 1..Len(receipts) /\ DOMAIN receipts' = 1..Len(receipts') /\ Len(receipts) \in Nat
  BY <1>1 DEF AdvanceTypes
<1> DEFINE LoggedNow(to, t) == \E i \in 1..Len(reflog') : reflog'[i].to = to /\ reflog'[i].how \in {t, "origin"}
           MovedNow(from, to, t) == \E i \in 1..Len(moves') : moves'[i] = [before |-> from, after |-> to, by |-> t]
<1>3. /\ \A to, t : Logged(to, t) => LoggedNow(to, t)
      /\ \A from, to, t : MoveOf(from, to, t) => MovedNow(from, to, t)
      /\ ~raced' => ~raced
  <2>1. ASSUME NEW to, NEW t, Logged(to, t) PROVE LoggedNow(to, t)
    <3>1. PICK i \in 1..Len(reflog) : reflog[i].to = to /\ reflog[i].how \in {t, "origin"}
      BY <2>1 DEF Logged
    <3>2. reflog'[i] = reflog[i] /\ Len(reflog) \in Nat /\ Len(reflog') \in Nat /\ Len(reflog) <= Len(reflog')
      <4>1. reflog'[i] = reflog[i] /\ Len(reflog) <= Len(reflog')
        BY <1>1, LogsGrow
      <4>2. reflog \in Seq(Entry) /\ (reflog \in Seq(Entry))'
        BY <1>1 DEF AdvanceTypes
      <4>3. Len(reflog) \in Nat /\ Len(reflog') \in Nat
        BY <4>2
      <4> QED
        BY <4>1, <4>3
    <3>3. i \in 1..Len(reflog')
      BY <3>2
    <3> QED
      BY <3>1, <3>2, <3>3 DEF Logged
  <2>2. \A from, to, t : MoveOf(from, to, t) => MovedNow(from, to, t)
    BY <1>1, LogsGrow DEF MoveOf
  <2> QED
    BY <1>1, <2>1, <2>2, LogsGrow
<1>4. ASSUME NEW r \in Receipt PROVE /\ TrueReceipt(r) <=> MoveOf(r.before, r.after, r.actor)
                                     /\ TrueReceipt(r)' <=> MovedNow(r.before, r.after, r.actor)
  BY <1>2 DEF TrueReceipt, MoveOf
<1>5. \A i \in 1..Len(receipts) : receipts[i] \in Receipt
  BY <1>1 DEF AdvanceTypes
<1>6. /\ \A i \in 1..Len(receipts) : LoggedNow(receipts[i].after, receipts[i].actor)
      /\ ~raced' => \A i \in 1..Len(receipts) : MovedNow(receipts[i].before, receipts[i].after, receipts[i].actor)
      /\ \A d \in deliveredHeads : \E i \in 1..Len(receipts) : receipts[i].after = d.head /\ receipts[i].actor = d.task
  <2>1. \A i \in 1..Len(receipts) : Logged(receipts[i].after, receipts[i].actor)
    BY DEF ReceiptInv, ReceiptsLogged
  <2>2. ASSUME ~raced', NEW i \in 1..Len(receipts)
        PROVE  MovedNow(receipts[i].before, receipts[i].after, receipts[i].actor)
    <3>1. TrueReceipt(receipts[i])
      BY <1>2, <1>3, <2>2 DEF ReceiptInv, ReceiptsAreTrue
    <3> QED
      BY <1>3, <1>4, <1>5, <3>1
  <2>3. \A d \in deliveredHeads : \E i \in 1..Len(receipts) : receipts[i].after = d.head /\ receipts[i].actor = d.task
    BY <1>2 DEF ReceiptInv, ReceiptsAreTrue
  <2> QED
    BY ZenonT(40), <1>3, <2>1, <2>2, <2>3
<1>7. ASSUME receipts' = receipts,
             \A d \in deliveredHeads' \ deliveredHeads :
                 \E i \in 1..Len(receipts) : receipts[i].after = d.head /\ receipts[i].actor = d.task
      PROVE  ReceiptInv'
  <2>1. ReceiptsLogged'
    BY <1>6, <1>7 DEF ReceiptsLogged, Logged
  <2>2. (~raced => \A i \in DOMAIN receipts : TrueReceipt(receipts[i]))'
    BY <1>2, <1>6, <1>7 DEF TrueReceipt
  <2>3. \A d \in deliveredHeads' :
           \E i \in DOMAIN receipts' : receipts'[i].after = d.head /\ receipts'[i].actor = d.task
    BY <1>2, <1>6, <1>7
  <2> QED
    BY <1>1, <2>1, <2>2, <2>3 DEF ReceiptInv, ReceiptsAreTrue
<1>8. ASSUME NEW t \in Finishers, Record(t) PROVE ReceiptInv'
  <2> DEFINE r == [before |-> finish[t].from, after |-> finish[t].to, main |-> originMain, actor |-> t]
  <2>1. /\ r \in Receipt /\ receipts' = Append(receipts, r)
        /\ deliveredHeads' \subseteq deliveredHeads \cup {[task |-> t, head |-> finish[t].to]}
    BY <1>1, <1>8 DEF Record, AdvanceTypes, FinishRecord, Receipt
  <2>2. /\ Len(receipts') = Len(receipts) + 1 /\ receipts'[Len(receipts) + 1] = r
        /\ \A i \in 1..Len(receipts) : receipts'[i] = receipts[i]
    BY <1>1, <2>1 DEF AdvanceTypes
  <2>3. Logged(finish[t].to, t) /\ (~raced => MoveOf(finish[t].from, finish[t].to, t))
    BY <1>1, <1>8 DEF Record, CommandInv, FinishKnows, RecordKnows
  <2>4. ReceiptsLogged'
    <3> SUFFICES ASSUME NEW i \in 1..Len(receipts') PROVE LoggedNow(receipts'[i].after, receipts'[i].actor)
      BY DEF ReceiptsLogged, Logged
    <3>1. CASE i \in 1..Len(receipts)
      BY <1>6, <2>2, <3>1
    <3>2. CASE i = Len(receipts) + 1
      BY <1>3, <2>2, <2>3, <3>2
    <3> QED
      BY <1>2, <2>2, <3>1, <3>2
  <2>5. ~raced' => \A i \in 1..Len(receipts') : MovedNow(receipts'[i].before, receipts'[i].after, receipts'[i].actor)
    <3> SUFFICES ASSUME ~raced', NEW i \in 1..Len(receipts')
                 PROVE  MovedNow(receipts'[i].before, receipts'[i].after, receipts'[i].actor)
      OBVIOUS
    <3>1. CASE i \in 1..Len(receipts)
      BY <1>6, <2>2, <3>1
    <3>2. CASE i = Len(receipts) + 1
      <4>1. MoveOf(finish[t].from, finish[t].to, t)
        BY <1>3, <2>3
      <4> QED
        BY <1>3, <2>2, <3>2, <4>1
    <3> QED
      BY <1>2, <2>2, <3>1, <3>2
  <2>6. \A d \in deliveredHeads' :
           \E i \in DOMAIN receipts' : receipts'[i].after = d.head /\ receipts'[i].actor = d.task
    <3> SUFFICES ASSUME NEW d \in deliveredHeads'
                 PROVE  \E i \in 1..Len(receipts') : receipts'[i].after = d.head /\ receipts'[i].actor = d.task
      BY <1>2
    <3>1. CASE d \in deliveredHeads
      BY SMTT(20), <1>2, <1>6, <2>2, <3>1
    <3>2. CASE d = [task |-> t, head |-> finish[t].to]
      <4>1. Len(receipts) + 1 \in 1..Len(receipts')
        BY <1>2, <2>2
      <4>2. r.after = d.head /\ r.actor = d.task
        BY <3>2
      <4>3. receipts'[Len(receipts) + 1] = r
        BY <2>2
      <4> HIDE DEF r
      <4> QED
        BY <4>1, <4>2, <4>3
    <3> QED
      BY <2>1, <3>1, <3>2
  <2>7. (~raced => \A i \in DOMAIN receipts : TrueReceipt(receipts[i]))'
    BY <1>1, <1>2, <2>5 DEF TrueReceipt, AdvanceTypes, Receipt
  <2> QED
    BY <1>1, <2>4, <2>6, <2>7 DEF ReceiptInv, ReceiptsAreTrue
<1>9. ASSUME NEW t \in Finishers, Conclude(t) PROVE ReceiptInv'
  <2>1. receipts' = receipts /\ finish[t].at = "conclude"
    BY <1>9 DEF Conclude
  <2>2. ASSUME deliveredHeads' # deliveredHeads
        PROVE  /\ deliveredHeads' = deliveredHeads \cup {[task |-> t, head |-> local]}
               /\ finish[t].from = local /\ finish[t].does = "direct" /\ UnrecordedAdvance(t) = {}
    BY <1>9, <2>2 DEF Conclude
  <2>3. ASSUME deliveredHeads' # deliveredHeads
        PROVE  \E i \in 1..Len(receipts) : receipts[i].after = local /\ receipts[i].actor = t
    <3>1. branch[t] # <<>> /\ branch[t] = local
      BY <1>1, <2>1, <2>2, <2>3 DEF CommandInv, FinishKnows, DirectKnows
    <3>2. /\ Len(reflog) \in Nat /\ reflog[Len(reflog)].to = local /\ Len(reflog) # 1 /\ Len(reflog) # 0
          /\ \A i \in 1..Len(reflog) : reflog[i].to = local => reflog[i].how = t
      BY SMTT(20), <1>1, <3>1 DEF AdvanceTypes, ReflogTells, CommandInv, OwnBranches
    <3>3. Len(reflog) \in {k \in 2..Len(reflog) : reflog[k].to = local /\ reflog[k].how = t}
      <4>1. Len(reflog) \in Nat /\ Len(reflog) # 1 /\ Len(reflog) # 0
        BY <3>2
      <4>2. Len(reflog) \in 2..Len(reflog) /\ Len(reflog) \in 1..Len(reflog)
        BY <4>1
      <4> QED
        BY <3>2, <4>2
    <3>4. PICK i \in 1..Len(receipts) : receipts[i].after = local
      <4>1. {reflog[k - 1].to : k \in {k \in 2..Len(reflog) : reflog[k].to = local /\ reflog[k].how = t}} # {}
        BY <3>3
      <4>2. UnrecordedAdvance(t) = {}
        BY <2>2, <2>3
      <4>3. \E k \in DOMAIN receipts : receipts[k].after = local
        BY <4>1, <4>2, Zenon DEF UnrecordedAdvance
      <4> QED
        BY <1>2, <4>3
    <3>5. receipts[i].actor = t
      <4>1. Logged(local, receipts[i].actor) /\ receipts[i].actor \in Finishers
        BY <1>5, <3>4 DEF ReceiptInv, ReceiptsLogged, Receipt
      <4> QED
        BY <3>2, <4>1, AdvanceAssumption DEF Logged
    <3> QED
      BY <3>4, <3>5
  <2> QED
    BY <1>7, <2>1, <2>2, <2>3
<1>10. CASE UNCHANGED <<receipts, deliveredHeads>>
  BY <1>7, <1>10
<1> QED
  BY <1>8, <1>9, <1>10 DEF AdvanceNext, TakeIntegration, CheckDirect, CheckSync, MergeDirect, MergeSync, PublishDirect,
     Prove, KillFinish, Rebase, RemoteMerge, Fetch, RawFastForward, RawCommit, RawEdit,
     PrepareWindow, OpenWindow, LookAfter, AssessMove, Aside

LEMMA AdvanceStarts == AdvanceInit => ReceiptInv
<1> SUFFICES ASSUME AdvanceInit PROVE ReceiptInv
  OBVIOUS
<1>1. <<>> \in History /\ Len(<<>>) = 0
  BY DEF History
<1>2. AdvanceTypes
  <2>1. [to |-> <<>>, how |-> "start"] \in Entry
    BY <1>1 DEF Entry, How
  <2> QED
    BY <1>1, <2>1, RestType DEF AdvanceInit, AdvanceTypes
<1>3. /\ Len(reflog) = 1 /\ reflog[1].to = <<>> /\ reflog[1].how = "start" /\ Len(moves) = 0 /\ Len(receipts) = 0
      /\ \A t \in Finishers : finish[t] = AtRest /\ branch[t] = <<>>
      /\ local = <<>> /\ remote = <<>> /\ originMain = <<>> /\ deliveredHeads = {}
  BY DEF AdvanceInit
<1>4. LockHeld /\ OwnBranches
  BY <1>3 DEF LockHeld, OwnBranches
<1>5. Numbered /\ ReflogTells
  BY <1>1, <1>3, PrefixOrder DEF Numbered, ReflogTells, Upto
<1>6. \A t \in Finishers : FinishKnows(t)
  BY <1>3 DEF AtRest, FinishKnows, CommandStep, DirectKnows, SyncKnows, RecordKnows
<1>7. ReceiptsLogged /\ ReceiptsAreTrue
  BY <1>2, <1>3 DEF ReceiptsLogged, ReceiptsAreTrue, AdvanceTypes
<1> QED
  BY <1>2, <1>4, <1>5, <1>6, <1>7 DEF ReceiptInv, CommandInv

LEMMA ReceiptsStutter == ReceiptInv /\ UNCHANGED advanceVars => ReceiptInv'
<1> SUFFICES ASSUME ReceiptInv, UNCHANGED advanceVars PROVE ReceiptInv'
  OBVIOUS
<1>1. /\ AdvanceTypes' /\ LockHeld' /\ Numbered' /\ ReflogTells' /\ OwnBranches'
  BY DEF advanceVars, ReceiptInv, CommandInv, AdvanceTypes, LockHeld, Numbered, ReflogTells, OwnBranches
<1>2. \A t \in Finishers : FinishKnows(t)'
  BY DEF advanceVars, ReceiptInv, CommandInv, FinishKnows, CommandStep, DirectKnows, SyncKnows, RecordKnows,
     OriginMoves, MoveOf, Logged
<1>3. ReceiptsLogged' /\ ReceiptsAreTrue'
  BY DEF advanceVars, ReceiptInv, ReceiptsLogged, ReceiptsAreTrue, TrueReceipt, Logged
<1> QED
  BY <1>1, <1>2, <1>3 DEF ReceiptInv, CommandInv

LEMMA ReceiptInvariant == AdvanceSpec => []ReceiptInv
<1>1. ReceiptInv /\ [AdvanceNext]_advanceVars => ReceiptInv'
  BY ReceiptsStep, ReceiptsStutter
<1> QED
  BY <1>1, AdvanceStarts, PTL DEF AdvanceSpec

\* A receipt names a move of main that its actor made from exactly that head,
\* and a direct finish that reports its end has one for the head it delivered.
THEOREM ReceiptsTellTheTruth == AdvanceSpec => []ReceiptsAreTrue
<1>1. ReceiptInv => ReceiptsAreTrue
  BY DEF ReceiptInv
<1> QED
  BY <1>1, ReceiptInvariant, PTL

-----------------------------------------------------------------------------
(* The delegation: what main went through between two of its heads is      *)
(* exactly what the chain of receipts says.                                *)

\* Main never came back to where it was.
Increasing ==
    \A i, j \in 1..Len(reflog) : i < j => Before(reflog[i].to, reflog[j].to)

WindowRecord ==
    [state : {"none", "prepared", "open", "clean", "seen", "violation", "verified"},
     head : History, dirty : BOOLEAN, receipts : Nat, after : History]

WindowKnows ==
    /\ unclean \in BOOLEAN /\ window \in WindowRecord
    /\ window.state \in {"seen", "verified"} => IsPrefix(window.after, local)

DelegationInv == ReceiptInv /\ Increasing /\ WindowKnows /\ VerifiedIsForeign

\* A set of numbers has a smallest one.
LEMMA LeastNatural ==
    ASSUME NEW S, S \subseteq Nat, S # {}
    PROVE  \E n \in S : \A m \in S : ~(m < n)
<1>1. PICK n \in S : \A m \in S : <<m, n>> \notin OpToRel(<, Nat)
  BY WFMin, NatLessThanWellFounded, Zenon
<1>2. \A m \in S : ~(m < n)
  BY <1>1, Zenon DEF OpToRel
<1> QED
  BY <1>2

\* A move that ends where another one ends, or earlier, is that one or ends
\* where it begins.
LEMMA MovesAreOrdered ==
    ASSUME AdvanceTypes, ReflogTells, Increasing, NEW i \in 1..Len(moves), NEW k \in 1..Len(moves),
           IsPrefix(moves[i].after, moves[k].after)
    PROVE  i = k \/ IsPrefix(moves[i].after, moves[k].before)
<1>1. /\ Len(moves) \in Nat /\ Len(reflog) = Len(moves) + 1
      /\ moves[i].after = reflog[i + 1].to /\ moves[k].after = reflog[k + 1].to /\ moves[k].before = reflog[k].to
  BY DEF AdvanceTypes, ReflogTells
<1>2. /\ i \in Nat /\ k \in Nat
      /\ i + 1 \in 1..Len(reflog) /\ k + 1 \in 1..Len(reflog) /\ k \in 1..Len(reflog)
  BY <1>1
<1>3. \A j \in 1..Len(reflog) : reflog[j].to \in History
  BY ReflogHistories
<1>4. CASE k < i
  <2>1. k + 1 < i + 1
    BY <1>2, <1>4
  <2>2. Before(reflog[k + 1].to, reflog[i + 1].to)
    BY <1>2, <2>1 DEF Increasing
  <2> QED
    BY <1>1, <1>2, <1>3, <2>2, PrefixOrder DEF Before
<1>5. CASE i < k
  <2>1. i + 1 < k \/ i + 1 = k
    BY <1>2, <1>5
  <2>2. Before(reflog[i + 1].to, reflog[k].to) \/ reflog[i + 1].to = reflog[k].to
    BY <1>2, <2>1 DEF Increasing
  <2> QED
    BY <1>1, <1>2, <1>3, <2>2, PrefixOrder DEF Before
<1> QED
  BY <1>2, <1>4, <1>5

\* Along an unbroken chain of true receipts there is no other move.
LEMMA ChainIsForeign ==
    ASSUME ReceiptInv, Increasing, WindowKnows, ~raced, ChainHolds,
           NEW i \in 1..Len(moves),
           IsPrefix(window.head, moves[i].before), IsPrefix(moves[i].after, window.after)
    PROVE  moves[i].by \in Finishers \ {DelegatedTask}
<1>1. AdvanceTypes /\ ReflogTells /\ Numbered
  BY DEF ReceiptInv, CommandInv
<1>2. /\ Len(receipts) \in Nat /\ window.receipts \in Nat /\ window.head \in History /\ window.after \in History
      /\ receipts \in Seq(Receipt) /\ DOMAIN receipts = 1..Len(receipts) /\ DOMAIN moves = 1..Len(moves)
  BY <1>1 DEF AdvanceTypes, WindowKnows, WindowRecord
<1>3. PICK first \in window.receipts + 1 .. Len(receipts) :
        LET chain == SubSeq(receipts, first, Len(receipts)) IN
        /\ chain[1].before = window.head
        /\ \A j \in 2..Len(chain) : chain[j].before = chain[j - 1].after
        /\ \A j \in DOMAIN chain : NotByTheChild(chain[j])
        /\ chain[Len(chain)].after = window.after
  BY DEF ChainHolds
<1> DEFINE n == Len(receipts) - first + 1
<1>4. PICK chain \in Seq(Receipt) :
        /\ Len(chain) = n /\ n \in Nat /\ n # 0
        /\ \A j \in 1..n : chain[j] = receipts[first + j - 1] /\ first + j - 1 \in 1..Len(receipts)
        /\ chain[1].before = window.head
        /\ \A j \in 2..n : chain[j].before = chain[j - 1].after
        /\ \A j \in 1..n : chain[j].actor # DelegatedTask
        /\ chain[n].after = window.after
  <2> DEFINE c == SubSeq(receipts, first, Len(receipts))
  <2>1. first \in 1..Len(receipts) /\ n \in Nat /\ n # 0
    BY <1>2
  <2>2. c \in Seq(Receipt) /\ Len(c) = n /\ DOMAIN c = 1..n
    BY <1>2, <2>1
  <2>3. \A j \in 1..n : c[j] = receipts[first + j - 1] /\ first + j - 1 \in 1..Len(receipts)
    BY <1>2, <2>1
  <2>4. /\ c[1].before = window.head /\ c[n].after = window.after
        /\ \A j \in 2..n : c[j].before = c[j - 1].after
        /\ \A j \in 1..n : c[j].actor # DelegatedTask
    BY <1>3, <2>2 DEF NotByTheChild
  <2> HIDE DEF n, c
  <2> QED
    BY <2>1, <2>2, <2>3, <2>4
<1> HIDE DEF n
<1> DEFINE S == {j \in 1..n : IsPrefix(moves[i].after, chain[j].after)}
<1>5. PICK j \in S : \A m \in S : ~(m < j)
  <2>1. S \subseteq Nat /\ n \in S
    BY <1>4
  <2> HIDE DEF S
  <2> QED
    BY <2>1, LeastNatural
<1>6. j \in 1..n /\ IsPrefix(moves[i].after, chain[j].after)
  BY <1>5
<1>7. PICK k \in 1..Len(moves) :
        moves[k].before = chain[j].before /\ moves[k].after = chain[j].after /\ moves[k].by = chain[j].actor
  <2>1. TrueReceipt(receipts[first + j - 1])
    BY <1>2, <1>4, <1>6 DEF ReceiptInv, ReceiptsAreTrue
  <2>2. TrueReceipt(chain[j])
    BY <1>4, <1>6, <2>1
  <2> QED
    BY <1>2, <2>2 DEF TrueReceipt
<1>8. chain[j].actor \in Finishers \ {DelegatedTask}
  <2>1. chain[j] \in Receipt /\ chain[j].actor # DelegatedTask
    BY <1>4, <1>6
  <2> QED
    BY <2>1 DEF Receipt
<1>9. i = k \/ IsPrefix(moves[i].after, chain[j].before)
  BY <1>1, <1>6, <1>7, MovesAreOrdered
<1>10. ASSUME IsPrefix(moves[i].after, chain[j].before) PROVE FALSE
  <2>1. moves[i].before \in History /\ moves[i].after \in History /\ Before(moves[i].before, moves[i].after)
    <3>1. moves[i] \in Movement
      BY <1>1 DEF AdvanceTypes
    <3> QED
      BY <1>1, <3>1 DEF Movement, ReflogTells
  <2>2. CASE j = 1
    BY <1>2, <1>4, <1>10, <2>1, <2>2, PrefixOrder DEF Before
  <2>3. CASE j # 1
    <3>1. j \in 2..n /\ j - 1 \in 1..n /\ j - 1 < j
      BY <1>4, <1>6, <2>3
    <3>2. j - 1 \in S
      BY <1>4, <1>10, <3>1
    <3> QED
      BY <1>5, <3>1, <3>2
  <2> QED
    BY <2>2, <2>3
<1> QED
  BY <1>7, <1>8, <1>9, <1>10

LEMMA IncreasingStep ==
    ASSUME AdvanceTypes, Numbered, ReflogTells, Increasing, AdvanceNext
    PROVE  Increasing'
<1>1. CASE Stays
  BY <1>1 DEF Stays, Increasing
<1>2. ASSUME NEW target \in History, NEW how \in How, NEW who \in Finishers \cup {"raw"},
             MoveTo(target, how, who), Before(local, target)
      PROVE  Increasing'
  <2>1. /\ Len(reflog) \in Nat /\ Len(reflog') = Len(reflog) + 1 /\ reflog'[Len(reflog) + 1].to = target
        /\ \A i \in 1..Len(reflog) : reflog'[i] = reflog[i]
    BY <1>2 DEF MoveTo, AdvanceTypes
  <2>2. \A i \in 1..Len(reflog) : Before(reflog[i].to, target)
    <3> TAKE i \in 1..Len(reflog)
    <3>1. reflog[i].to \in History /\ local \in History /\ IsPrefix(reflog[i].to, local)
      BY ReflogHistories DEF AdvanceTypes, Numbered
    <3> QED
      BY <1>2, <3>1, PrefixOrder DEF Before
  <2> SUFFICES ASSUME NEW i \in 1..Len(reflog'), NEW j \in 1..Len(reflog'), i < j
               PROVE  Before(reflog'[i].to, reflog'[j].to)
    BY DEF Increasing, Before
  <2>3. i \in 1..Len(reflog) /\ (j \in 1..Len(reflog) \/ j = Len(reflog) + 1)
    BY <2>1
  <2>4. CASE j \in 1..Len(reflog)
    BY <2>1, <2>3, <2>4 DEF Increasing
  <2>5. CASE j = Len(reflog) + 1
    BY <2>1, <2>2, <2>3, <2>5
  <2> QED
    BY <2>3, <2>4, <2>5
<1> QED
  BY <1>1, <1>2, MainMoves

LEMMA WindowStep ==
    ASSUME AdvanceTypes, AdvanceTypes', Numbered, WindowKnows, AdvanceNext
    PROVE  WindowKnows'
<1>1. local \in History /\ local' \in History /\ IsPrefix(local, local') /\ Len(receipts) \in Nat
  BY LocalGrows DEF AdvanceTypes
<1>2. unclean' \in BOOLEAN
  <2>1. unclean' = unclean \/ unclean' = ~unclean
    BY DEF AdvanceNext, TakeIntegration, CheckDirect, CheckSync, MergeDirect, MergeSync, PublishDirect,
         Conclude, Prove, Record, KillFinish, Rebase, RemoteMerge, Fetch, RawFastForward, RawCommit, RawEdit,
         PrepareWindow, OpenWindow, LookAfter, AssessMove, Aside, Apart
  <2> QED
    BY <2>1, Zenon DEF WindowKnows
<1>3. CASE window' = window
  <2>1. window.after \in History
    BY DEF WindowKnows, WindowRecord
  <2> QED
    BY <1>1, <1>2, <1>3, <2>1, PrefixOrder DEF WindowKnows
<1>4. CASE PrepareWindow
  <2>1. window' = [state |-> "prepared", head |-> local, dirty |-> unclean, receipts |-> 0, after |-> <<>>]
    BY <1>4 DEF PrepareWindow, NotOpen
  <2>2. <<>> \in History
    BY DEF History
  <2> QED
    BY <1>1, <1>2, <2>1, <2>2 DEF WindowKnows, WindowRecord
<1>5. CASE OpenWindow
  <2>1. /\ window' = [window EXCEPT !.state = "open", !.receipts = Len(receipts)]
        /\ window \in WindowRecord
    BY <1>5 DEF OpenWindow, WindowKnows
  <2>2. window' \in WindowRecord /\ window'.state = "open"
    <3>1. /\ [window EXCEPT !.state = "open"] \in WindowRecord
          /\ [window EXCEPT !.state = "open"].state = "open"
      BY <2>1 DEF WindowRecord
    <3> QED
      BY <1>1, <2>1, <3>1 DEF WindowRecord
  <2> QED
    BY <1>2, <2>2 DEF WindowKnows
<1>6. CASE LookAfter
  <2>1. /\ \/ window' = [window EXCEPT !.state = "violation"]
           \/ window' = [window EXCEPT !.state = "clean"]
           \/ window' = [window EXCEPT !.state = "seen", !.after = local]
        /\ window \in WindowRecord /\ local' = local
    BY <1>6 DEF LookAfter, WindowKnows, Aside, Stays
  <2>2. CASE window' = [window EXCEPT !.state = "violation"] \/ window' = [window EXCEPT !.state = "clean"]
    BY <1>2, <2>1, <2>2 DEF WindowKnows, WindowRecord
  <2>3. CASE window' = [window EXCEPT !.state = "seen", !.after = local]
    <3>1. [window EXCEPT !.state = "seen"] \in WindowRecord
      BY <2>1 DEF WindowRecord
    <3>2. window' \in WindowRecord /\ window'.after = local
      BY <1>1, <2>3, <3>1 DEF WindowRecord
    <3> QED
      BY <1>1, <1>2, <2>1, <3>2, PrefixOrder DEF WindowKnows
  <2> QED
    BY <2>1, <2>2, <2>3
<1>7. CASE AssessMove
  <2>1. /\ window.state = "seen" /\ local' = local /\ window \in WindowRecord
        /\ \/ window' = [window EXCEPT !.state = "violation"] \/ window' = [window EXCEPT !.state = "verified"]
    BY <1>7 DEF AssessMove, WindowKnows, Aside, Stays
  <2> QED
    BY <1>2, <2>1 DEF WindowKnows, WindowRecord
<1> QED
  BY <1>3, <1>4, <1>5, <1>6, <1>7 DEF AdvanceNext, TakeIntegration, CheckDirect, CheckSync, MergeDirect, MergeSync,
     PublishDirect, Conclude, Prove, Record, KillFinish, Rebase, RemoteMerge, Fetch, RawFastForward, RawCommit, RawEdit, Apart

\* What has been accepted stays accepted rightly: main moves only on from it.
LEMMA ForeignStep ==
    ASSUME DelegationInv, AdvanceNext
    PROVE  VerifiedIsForeign'
<1>1. AdvanceTypes /\ Numbered /\ ReflogTells /\ ReceiptInv /\ WindowKnows /\ Increasing
  BY DEF DelegationInv, ReceiptInv, CommandInv
<1>2. ReceiptInv' /\ AdvanceTypes' /\ WindowKnows' /\ Numbered' /\ ReflogTells'
  BY <1>1, ReceiptsStep, WindowStep DEF ReceiptInv, CommandInv
<1>0. (DOMAIN moves)' = 1..Len(moves')
  BY <1>2 DEF AdvanceTypes
<1> SUFFICES ASSUME window'.state = "verified", ~raced', NEW i \in 1..Len(moves'),
                    IsPrefix(window'.head, moves'[i].before), IsPrefix(moves'[i].after, window'.after)
             PROVE  moves'[i].by \in Finishers \ {DelegatedTask}
  BY <1>0 DEF VerifiedIsForeign
<1>3. ~raced /\ DOMAIN moves = 1..Len(moves)
  BY <1>1, LogsGrow DEF AdvanceTypes
<1>4. CASE AssessMove
  <2>1. /\ ChainHolds /\ moves' = moves
        /\ window' = [window EXCEPT !.state = "verified"] /\ window \in WindowRecord
    BY <1>1, <1>4 DEF AssessMove, Aside, Stays, WindowKnows, WindowRecord
  <2>2. window'.head = window.head /\ window'.after = window.after
    BY <2>1 DEF WindowRecord
  <2> QED
    BY <1>1, <1>3, <2>1, <2>2, ChainIsForeign
<1>5. CASE window' = window
  <2>1. CASE i \in 1..Len(moves)
    <3>1. moves'[i] = moves[i]
      BY <1>1, <2>1, LogsGrow
    <3> QED
      BY <1>1, <1>3, <1>5, <2>1, <3>1 DEF DelegationInv, VerifiedIsForeign
  <2>2. CASE i \notin 1..Len(moves)
    <3>1. i = Len(moves) + 1 /\ moves'[i].before = local
      <4>1. /\ Len(moves) \in Nat /\ Len(moves') \in Nat /\ Len(moves') <= Len(moves) + 1
            /\ Len(moves') # Len(moves) => moves'[Len(moves) + 1].before = local
        BY <1>1, LogsGrow
      <4> QED
        BY <2>2, <4>1
    <3>2. /\ moves'[i].after \in History /\ Before(local, moves'[i].after)
      <4>1. moves'[i] \in Movement
        BY <1>2 DEF AdvanceTypes
      <4>2. Before(moves'[i].before, moves'[i].after)
        BY <1>2 DEF ReflogTells, Before
      <4> QED
        BY <3>1, <4>1, <4>2 DEF Movement
    <3>3. IsPrefix(window.after, local) /\ window.after \in History /\ local \in History
      BY <1>1, <1>5 DEF WindowKnows, WindowRecord, AdvanceTypes
    <3> QED
      BY <1>5, <3>2, <3>3, PrefixOrder DEF Before
  <2> QED
    BY <2>1, <2>2
<1>6. CASE PrepareWindow \/ OpenWindow \/ LookAfter
  <2>1. window'.state # "verified"
    BY <1>1, <1>6 DEF PrepareWindow, OpenWindow, LookAfter, NotOpen, WindowKnows, WindowRecord
  <2> QED
    BY <2>1
<1> QED
  BY <1>4, <1>5, <1>6 DEF AdvanceNext, TakeIntegration, CheckDirect, CheckSync, MergeDirect, MergeSync,
     PublishDirect, Conclude, Prove, Record, KillFinish, Rebase, RemoteMerge, Fetch, RawFastForward, RawCommit, RawEdit, Apart

\* A move of main that the supervisor accepts after a delegation was made by
\* commands of other tasks alone: neither by the finish of the child's own task
\* nor around the platform.
THEOREM AcceptedIsForeign == AdvanceSpec => []VerifiedIsForeign
<1>1. AdvanceInit => DelegationInv
  <2> SUFFICES ASSUME AdvanceInit PROVE DelegationInv
    OBVIOUS
  <2>1. ReceiptInv
    BY AdvanceStarts
  <2>2. Len(reflog) = 1 /\ window = NotOpen /\ unclean = FALSE /\ <<>> \in History
    BY DEF AdvanceInit, History
  <2>3. Increasing
    BY <2>2 DEF Increasing
  <2>4. WindowKnows /\ VerifiedIsForeign
    <3>1. window = [state |-> "none", head |-> <<>>, dirty |-> FALSE, receipts |-> 0, after |-> <<>>]
      BY <2>2 DEF NotOpen
    <3>2. window \in WindowRecord
      BY <2>2, <3>1 DEF WindowRecord
    <3>3. window.state = "none"
      BY <3>1
    <3> QED
      BY <2>2, <3>2, <3>3 DEF WindowKnows, VerifiedIsForeign
  <2> QED
    BY <2>1, <2>3, <2>4 DEF DelegationInv
<1>2. DelegationInv /\ [AdvanceNext]_advanceVars => DelegationInv'
  <2>1. ASSUME DelegationInv, AdvanceNext PROVE DelegationInv'
    <3>1. AdvanceTypes /\ Numbered /\ ReflogTells /\ ReceiptInv /\ WindowKnows /\ Increasing
      BY <2>1 DEF DelegationInv, ReceiptInv, CommandInv
    <3>2. ReceiptInv' /\ AdvanceTypes'
      BY <2>1, <3>1, ReceiptsStep DEF ReceiptInv, CommandInv
    <3> QED
      BY <2>1, <3>1, <3>2, WindowStep, IncreasingStep, ForeignStep DEF DelegationInv
  <2>2. ASSUME DelegationInv, UNCHANGED advanceVars PROVE DelegationInv'
    <3>1. ReceiptInv'
      BY <2>2, ReceiptsStutter DEF DelegationInv
    <3>2. Increasing' /\ WindowKnows' /\ VerifiedIsForeign'
      BY <2>2 DEF advanceVars, DelegationInv, Increasing, Before, WindowKnows, VerifiedIsForeign
    <3> QED
      BY <3>1, <3>2 DEF DelegationInv
  <2> QED
    BY <2>1, <2>2
<1>3. DelegationInv => VerifiedIsForeign
  BY DEF DelegationInv
<1> QED
  BY <1>1, <1>2, <1>3, PTL DEF AdvanceSpec
====

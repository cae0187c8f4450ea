------------------------- MODULE MergeRecovery -------------------------
(***************************************************************************)
(* The exceptional delivery of a Requirement whose children cannot be      *)
(* replayed on a newer main (requirement_merge_recovery.py with            *)
(* validate_shared_manifest of project_publish.py).  A generation, the     *)
(* pair of a main and the head of the last child, gets a worktree with a   *)
(* merge that somebody resolves by hand; finalize commits the merge and    *)
(* its manifest; publish validates, runs the full checks, validates again, *)
(* publishes, and makes the children Done when GitHub has merged.          *)
(*                                                                         *)
(* A head of a child is the sequence of its commits; each child but the    *)
(* first builds on the one before.  Of the content of a candidate the      *)
(* model keeps how often its resolution was changed, whether a path        *)
(* outside the children's is in it, and whether it has a third commit.     *)
(***************************************************************************)
EXTENDS Naturals, Sequences, SequencesExt

CONSTANTS
    ChainLength,                            \* the children, in their order: 1..ChainLength
    MaxChildCommits, MaxMainline, MaxHandEdits, MaxRecoveryKills   \* bounds

ASSUME RecoveryAssumption == ChainLength \in Nat \ {0}

VARIABLES
    childHead,    \* the branches of the children
    readyHead,    \* the heads in their receipts
    mainline,     \* origin's main: how many merges it has seen
    manifests,    \* the manifest files: of a generation, the heads of the children
    merging,      \* the worktrees: of a generation, the state of its candidate
    request,      \* what was pushed, of a generation
    landing,      \* what GitHub has merged
    passed,       \* the candidates that the full checks have passed
    settled,      \* the candidates for which the children were made Done
    recovery,     \* the command that runs
    recoverySpent \* counters of the bounds

recoveryVars == <<childHead, readyHead, mainline, manifests, merging, request, landing, passed, settled, recovery, recoverySpent>>

Chain == 1..ChainLength
NoCommand == [at |-> "none", gen |-> <<>>, head |-> <<>>, late |-> FALSE]

RecoveryInit ==
    /\ childHead = [k \in Chain |-> [i \in 1..k |-> i]]
    /\ readyHead = childHead
    /\ mainline = 1
    /\ manifests = <<>> /\ merging = <<>> /\ request = <<>>
    /\ landing = {} /\ passed = {} /\ settled = {}
    /\ recovery = NoCommand
    /\ recoverySpent = [commits |-> ChainLength, edits |-> 0, kills |-> 0]

SpendOn(what, limit) ==
    recoverySpent[what] < limit /\ recoverySpent' = [recoverySpent EXCEPT ![what] = @ + 1]
GoesOn(step) == recovery' = [recovery EXCEPT !.at = step]
EndCommand == recovery' = NoCommand
InCommand(step) == recovery.at = step
GenIn == recovery.gen
SourceOf(gen) == gen[2]
With(f, gen, entry) == [g \in DOMAIN f \cup {gen} |-> IF g = gen THEN entry ELSE f[g]]
ChildrenStay == UNCHANGED <<childHead, readyHead, recoverySpent>>
ServerStays == UNCHANGED <<mainline, request, landing, passed, settled>>

-----------------------------------------------------------------------------
(* prepare *)

\* The receipts are of the heads of the branches, and form one chain.
ExactChain ==
    /\ readyHead = childHead
    /\ \A k \in Chain \ {1} : IsPrefix(readyHead[k - 1], readyHead[k])

AddRecoveryWorktree ==
    /\ InCommand("none") /\ ExactChain
    /\ LET gen == <<mainline, readyHead[ChainLength]>> IN
       /\ gen \notin DOMAIN merging
       /\ merging' = With(merging, gen, [stage |-> "added", source |-> <<>>, resolved |-> FALSE,
                                         edits |-> 0, stray |-> FALSE, extra |-> FALSE])
       /\ recovery' = [NoCommand EXCEPT !.at = "prepare", !.gen = gen, !.head = readyHead]
    /\ UNCHANGED manifests /\ ChildrenStay /\ ServerStays

WriteManifest ==
    /\ InCommand("prepare") /\ GoesOn("merge")
    /\ manifests' = With(manifests, GenIn, recovery.head)
    /\ UNCHANGED merging /\ ChildrenStay /\ ServerStays

StartMerge ==
    /\ InCommand("merge") /\ EndCommand
    /\ \E clean \in BOOLEAN :
           merging' = [merging EXCEPT ![GenIn].stage = "merging", ![GenIn].source = SourceOf(GenIn),
                                      ![GenIn].resolved = clean]
    /\ UNCHANGED manifests /\ ChildrenStay /\ ServerStays

-----------------------------------------------------------------------------
(* finalize *)

\* No child has changed since the manifest was written.
ChildrenHold(gen) == readyHead = manifests[gen] /\ childHead = manifests[gen]

\* The manifest sits beside a merge of exactly its heads.
CommitMerge(gen) ==
    /\ InCommand("none") /\ gen \in DOMAIN manifests
    /\ merging[gen].stage = "merging" /\ merging[gen].source = SourceOf(gen)
    /\ merging[gen].resolved /\ ~merging[gen].stray
    /\ ChildrenHold(gen)
    /\ merging' = [merging EXCEPT ![gen].stage = "merged"]
    /\ recovery' = [NoCommand EXCEPT !.at = "bind", !.gen = gen]
    /\ UNCHANGED manifests /\ ChildrenStay /\ ServerStays

CommitManifest ==
    /\ InCommand("bind") /\ EndCommand
    /\ merging' = [merging EXCEPT ![GenIn].stage = "bound"]
    /\ UNCHANGED manifests /\ ChildrenStay /\ ServerStays

-----------------------------------------------------------------------------
(* publish *)

\* Two commits: a merge of the two exact parents inside the paths of the
\* children, and the manifest.
HistoryOnly(gen) == merging[gen].stage = "bound" /\ ~merging[gen].extra
ExactCandidate(gen) ==
    /\ merging[gen].stage = "bound" /\ merging[gen].source = SourceOf(gen)
    /\ ~merging[gen].stray /\ ~merging[gen].extra

Validated(gen) == ExactCandidate(gen) /\ ChildrenHold(gen)
MergedExactly(gen, head) == \E l \in landing : l.gen = gen /\ l.head = head
OnItsBase(gen) == mainline = gen[1]

BeginPublish(gen) ==
    /\ InCommand("none") /\ gen \in DOMAIN manifests /\ Validated(gen)
    /\ recovery' = [NoCommand EXCEPT !.at = IF MergedExactly(gen, merging[gen]) THEN "settle" ELSE "check",
                                     !.gen = gen, !.head = merging[gen]]
    /\ MergedExactly(gen, merging[gen]) \/ OnItsBase(gen)
    /\ UNCHANGED <<manifests, merging>> /\ ChildrenStay /\ ServerStays

\* The checks run on what the worktree holds.
RunRecoveryChecks ==
    /\ InCommand("check")
    /\ \/ GoesOn("recheck") /\ passed' = passed \cup {[gen |-> GenIn, head |-> merging[GenIn]]}
       \/ EndCommand /\ UNCHANGED passed
    /\ UNCHANGED <<manifests, merging, mainline, request, landing, settled>> /\ ChildrenStay

\* The head that this validation finds is not compared with the first.
RecheckCandidate ==
    /\ InCommand("recheck")
    /\ IF Validated(GenIn) /\ OnItsBase(GenIn) THEN GoesOn("publish") ELSE EndCommand
    /\ UNCHANGED <<manifests, merging>> /\ ChildrenStay /\ ServerStays

\* A pull request that is open grows by what continues its head; a first
\* publication has to be up to date with main.
Continues(old, new) == new = old \/ new = [old EXCEPT !.extra = TRUE, !.stray = TRUE]
OpenRequest(gen) == gen \in DOMAIN request /\ ~MergedExactly(gen, request[gen].head)
Pushable(gen) ==
    IF OpenRequest(gen) THEN Continues(request[gen].head, merging[gen]) ELSE OnItsBase(gen)

\* project_publish.py binds the manifest at HEAD and pushes what HEAD is then.
PublishCandidate ==
    /\ InCommand("publish")
    /\ \/ MergedExactly(GenIn, merging[GenIn]) /\ GoesOn("await") /\ UNCHANGED request
       \/ /\ ~MergedExactly(GenIn, merging[GenIn]) /\ Pushable(GenIn)
          /\ request' = With(request, GenIn, [head |-> merging[GenIn], late |-> recovery.late])
          /\ GoesOn("await")
       \/ /\ ~MergedExactly(GenIn, merging[GenIn]) /\ ~Pushable(GenIn)
          /\ EndCommand /\ UNCHANGED request
    /\ UNCHANGED <<manifests, merging, mainline, landing, passed, settled>> /\ ChildrenStay

\* The publisher waits; only the head of the first validation counts.
SeeLanding ==
    /\ InCommand("await")
    /\ \/ MergedExactly(GenIn, recovery.head) /\ GoesOn("settle")
       \/ ~MergedExactly(GenIn, recovery.head) /\ EndCommand
    /\ UNCHANGED <<manifests, merging>> /\ ChildrenStay /\ ServerStays

SettleChildren ==
    /\ InCommand("settle") /\ EndCommand
    /\ settled' = settled \cup {[gen |-> GenIn, head |-> recovery.head]}
    /\ UNCHANGED <<manifests, merging, mainline, request, landing, passed>> /\ ChildrenStay

KillRecovery ==
    /\ ~InCommand("none") /\ EndCommand /\ SpendOn("kills", MaxRecoveryKills)
    /\ UNCHANGED <<childHead, readyHead, manifests, merging>> /\ ServerStays

-----------------------------------------------------------------------------
(* The world. *)

CommitChildHead(k, head) ==
    /\ SpendOn("commits", ChainLength + MaxChildCommits)
    /\ childHead' = [childHead EXCEPT ![k] = Append(head, recoverySpent.commits + 1)]
    /\ UNCHANGED <<readyHead, manifests, merging, recovery>> /\ ServerStays

WorkOnChild(k) == \E j \in {k, k - 1} \cap Chain : CommitChildHead(k, childHead[j])

WriteReady(k) ==
    /\ readyHead[k] # childHead[k] /\ readyHead' = [readyHead EXCEPT ![k] = childHead[k]]
    /\ UNCHANGED <<childHead, recoverySpent, manifests, merging, recovery>> /\ ServerStays

\* Somebody resolves the merge, redoes it with another source, amends the
\* candidate or commits on top of it.
EditByHand(gen) ==
    /\ SpendOn("edits", MaxHandEdits)
    /\ \/ /\ merging[gen].stage = "merging"
          /\ \E s \in {SourceOf(gen), childHead[ChainLength]}, outside \in BOOLEAN :
                 merging' = [merging EXCEPT ![gen].resolved = TRUE, ![gen].source = s, ![gen].stray = outside]
       \/ /\ merging[gen].stage = "bound"
          /\ \E outside \in BOOLEAN :
                 merging' = [merging EXCEPT ![gen].edits = @ + 1, ![gen].stray = outside]
       \/ /\ merging[gen].stage = "bound" /\ ~merging[gen].extra
          /\ merging' = [merging EXCEPT ![gen].extra = TRUE, ![gen].stray = TRUE]
    /\ recovery' = [recovery EXCEPT !.late = @ \/ (recovery.at = "publish" /\ gen = GenIn)]
    /\ UNCHANGED <<childHead, readyHead, manifests>> /\ ServerStays

MergeMainline ==
    /\ mainline < MaxMainline /\ mainline' = mainline + 1
    /\ UNCHANGED <<manifests, merging, request, landing, passed, settled, recovery>> /\ ChildrenStay

MergeRecovered(gen) ==
    /\ mainline < MaxMainline /\ mainline' = mainline + 1
    /\ ~MergedExactly(gen, request[gen].head)
    /\ landing' = landing \cup {[gen |-> gen, head |-> request[gen].head, late |-> request[gen].late]}
    /\ UNCHANGED <<manifests, merging, request, passed, settled, recovery>> /\ ChildrenStay

RecoveryNext ==
    \/ AddRecoveryWorktree \/ WriteManifest \/ StartMerge
    \/ \E gen \in DOMAIN merging : CommitMerge(gen) \/ BeginPublish(gen) \/ EditByHand(gen)
    \/ CommitManifest \/ RunRecoveryChecks \/ RecheckCandidate \/ PublishCandidate \/ SeeLanding
    \/ SettleChildren \/ KillRecovery
    \/ \E k \in Chain : WorkOnChild(k) \/ WriteReady(k)
    \/ MergeMainline \/ \E gen \in DOMAIN request : MergeRecovered(gen)

RecoverySpec == RecoveryInit /\ [][RecoveryNext]_recoveryVars

-----------------------------------------------------------------------------
(* Properties. *)

\* What GitHub merges through the recovery is the merge of exactly the last
\* head that the manifest records, inside the children's paths and with the
\* manifest on top, whatever was edited by hand; excused is an edit after the
\* last look of the publisher.
LandedIsExact ==
    \A l \in landing :
        ~l.late => /\ l.head.source = manifests[l.gen][ChainLength]
                   /\ ~l.head.stray /\ ~l.head.extra

\* "full checks and protected publication precede Done".
DoneIsChecked ==
    \A s \in settled :
        [gen |-> s.gen, head |-> s.head] \in passed
        \/ \E l \in landing : l.gen = s.gen /\ l.head = s.head /\ l.late
====

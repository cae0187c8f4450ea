---- MODULE TaskWork_proofs ----
(* Proofs about the work on one task: its intake from GitHub (TaskIntake), the  *)
(* routing of its parts to delegated writers (ModelRouting) and the evidence   *)
(* that it is published on (CompletionEvidence).                               *)
EXTENDS TaskIntake, ModelRouting, CompletionEvidence, FiniteSetTheorems, TLAPS

-----------------------------------------------------------------------------
(* The intake of a task: types. *)

PackageRecord == [issue : Nat, content : Nat, base : Nat, body : Nat, prior : Nat, refs : SUBSET Evidence]
IssueRecord == [edits : Nat, labelled : BOOLEAN]
CommentRecord == [of : PackageRecord, active : BOOLEAN]
AuthorRecord ==
    [command : {"none", "create", "supersede"},
     stage : {"idle", "list", "new", "labels", "fetch", "publish", "post", "verify", "link", "predecessor", "patch"},
     issue : Nat, content : Nat, base : Nat, body : Nat, prior : Nat, refs : SUBSET Evidence]
LinkRecord ==
    [state : {"open", "closed", "gone"}, managed : BOOLEAN, backlink : BOOLEAN, note : BOOLEAN, ours : BOOLEAN,
     disposed : BOOLEAN]
LocalRecord == [directory : {"none", "bare", "complete"}, of : PackageRecord, state : BOOLEAN]
ImporterRecord == [stage : {"idle", "drift", "resume", "create", "provenance", "state"}, of : PackageRecord]
ResolverRecord == [stage : {"idle", "stopped", "done", "next", "note", "close"}, left : SUBSET Evidence, at : SUBSET Evidence]

IntakeTypes ==
    /\ target \in Nat /\ issues \in Seq(IssueRecord) /\ packages \in Seq(CommentRecord)
    /\ author \in [Authors -> AuthorRecord]
    /\ \A a \in Authors : author[a].stage \notin {"idle", "list", "new"} => author[a].issue \in Numbers
    /\ local \in LocalRecord /\ importer \in ImporterRecord
    /\ linked \in [Evidence -> LinkRecord] /\ resolver \in ResolverRecord
    /\ limits \in IntakeBounds

LEMMA NothingYet ==
    /\ NoPackage \in PackageRecord /\ NoWork \in AuthorRecord /\ NoImport \in ImporterRecord /\ NoTask \in LocalRecord
    /\ NoResolution \in ResolverRecord /\ Unlinked \in LinkRecord /\ NoWork.stage = "idle"
  BY DEF NoPackage, PackageRecord, NoWork, AuthorRecord, NoImport, ImporterRecord, NoTask, LocalRecord, NoResolution,
         ResolverRecord, Unlinked, LinkRecord

LEMMA IntakeStarts == IntakeInit => IntakeTypes
  BY NothingYet DEF IntakeInit, IntakeTypes, Numbers

\* What a reader takes from the comments is a package.
LEMMA ParsedIsPackage == ASSUME IntakeTypes, NEW n PROVE Parsed(n) \in PackageRecord /\ Inherited(n) \subseteq Evidence
<1>1. \A i \in Active(n) : packages[i] \in CommentRecord /\ packages[i].of \in PackageRecord
  <2>1. \A i \in 1..Len(packages) : packages[i] \in CommentRecord
    BY DEF IntakeTypes
  <2> QED
    BY <2>1 DEF Active, CommentRecord
<1>2. Cardinality(Active(n)) = 1 => Active(n) # {}
  BY FS_EmptySet
<1>3. Parsed(n) \in PackageRecord
  BY <1>1, <1>2, NothingYet DEF Parsed
<1> QED
  BY <1>3 DEF Inherited, PackageRecord

AuthorCommands(a) ==
    \/ BeginCreate(a) \/ ListIssues(a) \/ RepairLabels(a) \/ FetchIssue(a) \/ ReadPackages(a)
    \/ PostPackage(a) \/ VerifyPublished(a) \/ EndCreate(a) \/ ReadPredecessor(a)
    \/ PatchPredecessor(a) \/ AuthorStops(a)

Stages == {"idle", "list", "new", "labels", "fetch", "publish", "post", "verify", "link", "predecessor", "patch"}
Placed(w) == w \in AuthorRecord /\ (w.stage \notin {"idle", "list", "new"} => w.issue \in Numbers)

\* An author that goes on has the Issue that it had.
LEMMA GoesOn ==
    ASSUME NEW w, Placed(w), NEW st \in Stages, w.stage \notin {"idle", "list", "new"} \/ st \in {"idle", "list", "new"}
    PROVE  Placed([w EXCEPT !.stage = st])
<1>1. PICK v : v = [w EXCEPT !.stage = st]
  OBVIOUS
<1>2. v \in AuthorRecord /\ v.stage = st /\ v.issue = w.issue
  BY <1>1 DEF Placed, AuthorRecord, Stages
<1> QED
  BY <1>1, <1>2 DEF Placed

\* Every step keeps the types.
LEMMA AuthorStepTypes ==
    ASSUME IntakeTypes, NEW a \in Authors, AuthorCommands(a)
    PROVE  IntakeTypes'
<1> DEFINE w == author[a]
<1>1. /\ Placed(w) /\ w \in AuthorRecord /\ w.issue \in Nat /\ w.stage \in Stages
      /\ Len(issues) \in Nat /\ Numbers \subseteq Nat /\ (w.stage \notin {"idle", "list", "new"} => w.issue \in Numbers)
  BY DEF IntakeTypes, Numbers, Placed, AuthorRecord, Stages
<1>2. \A n \in Numbers : issues[n] \in IssueRecord /\ issues[n].edits \in Nat
  <2>1. \A n \in Numbers : issues[n] \in IssueRecord
    BY DEF IntakeTypes, Numbers
  <2> QED
    BY <2>1 DEF IssueRecord
<1>3. Placed(NoWork)
  BY NothingYet DEF Placed
<1>4. ASSUME NEW v, Placed(v), Work(a, v), UNCHANGED <<target, issues, packages, local, importer, linked, resolver, limits>>
      PROVE  IntakeTypes'
  <2>1. /\ author' \in [Authors -> AuthorRecord] /\ issues' = issues /\ Numbers' = Numbers
        /\ \A b \in Authors : author'[b] = IF b = a THEN v ELSE author[b]
    BY <1>4 DEF Work, IntakeTypes, Numbers, Placed
  <2> QED
    BY <1>4, <2>1 DEF IntakeTypes, Placed
<1>5. \A st \in {"fetch", "publish", "post", "verify", "link"} :
         w.stage \notin {"idle", "list", "new"} => Placed([w EXCEPT !.stage = st])
  BY <1>1, GoesOn DEF Stages
<1>6. Placed(After(a)) \/ w.stage \in {"idle", "list", "new"}
  BY <1>3, <1>5 DEF After
<1>7. CASE BeginCreate(a)
  <2> DEFINE v == [NoWork EXCEPT !.command = "create", !.stage = "list", !.base = target, !.content = 1, !.refs = limits.refs]
  <2>1. limits.refs \subseteq Evidence
    BY IntakeAssumption DEF IntakeTypes
  <2>2. v \in AuthorRecord /\ v.stage = "list"
    BY <1>1, <2>1 DEF IntakeTypes, NoWork, AuthorRecord
  <2>3. Placed(v)
    BY <2>2 DEF Placed
  <2>4. Work(a, v) /\ UNCHANGED <<target, issues, packages, local, importer, linked, resolver, limits>>
    BY <1>7 DEF BeginCreate, remote, worktree, delivery
  <2> HIDE DEF v
  <2> QED
    BY <1>4, <2>3, <2>4
<1>8. CASE ListIssues(a)
  <2> DEFINE v == IF issues = <<>> THEN [w EXCEPT !.stage = "new"]
                  ELSE IF Len(issues) = 1 THEN [w EXCEPT !.stage = "labels", !.issue = 1, !.body = issues[1].edits]
                  ELSE NoWork
  <2>1. issues = <<>> => Placed(v)
    <3>1. w.stage = "list"
      BY <1>8 DEF ListIssues, At
    <3>2. Placed([w EXCEPT !.stage = "new"])
      BY <1>1, <3>1, GoesOn DEF Stages
    <3> QED
      BY <3>2
  <2>2. ASSUME issues # <<>>, Len(issues) = 1 PROVE Placed(v)
    <3>1. 1 \in Numbers
      BY <2>2 DEF Numbers
    <3>2. issues[1].edits \in Nat
      BY <1>2, <3>1
    <3>3. PICK n : n = issues[1].edits
      OBVIOUS
    <3>4. PICK z : z = [w EXCEPT !.stage = "labels", !.issue = 1, !.body = n]
      OBVIOUS
    <3>5. z \in AuthorRecord /\ z.issue = 1
      BY <1>1, <3>2, <3>3, <3>4 DEF AuthorRecord
    <3>6. v = z
      BY <2>2, <3>3, <3>4
    <3> QED
      BY <3>1, <3>5, <3>6 DEF Placed
  <2>3. issues # <<>> /\ Len(issues) # 1 => Placed(v)
    BY <1>3
  <2>4. Placed(v)
    BY <2>1, <2>2, <2>3
  <2>5. Work(a, v) /\ UNCHANGED <<target, issues, packages, local, importer, linked, resolver, limits>>
    BY <1>8 DEF ListIssues, remote, worktree, delivery, counters
  <2> HIDE DEF v
  <2> QED
    BY <1>4, <2>4, <2>5
<1>9. CASE RepairLabels(a)
  <2> DEFINE v == [w EXCEPT !.stage = IF issues[w.issue].labelled THEN "publish" ELSE "fetch"]
  <2>1. w.stage = "labels" /\ w.issue \in Numbers
    BY <1>1, <1>9 DEF RepairLabels, At
  <2>2. Placed(v)
    BY <1>5, <2>1
  <2>3. /\ Work(a, v) /\ UNCHANGED <<target, packages, local, importer, linked, resolver, limits>>
        /\ issues' = [issues EXCEPT ![w.issue].labelled = TRUE]
    BY <1>9 DEF RepairLabels, Continue, worktree, delivery, counters
  <2>4. issues' \in Seq(IssueRecord) /\ Len(issues') = Len(issues)
    <3>1. PICK z : z = [issues[w.issue] EXCEPT !.labelled = TRUE]
      OBVIOUS
    <3>2. z \in IssueRecord
      BY <1>2, <2>1, <3>1 DEF IssueRecord
    <3>3. issues' = [issues EXCEPT ![w.issue] = z]
      BY <2>3, <3>1
    <3> QED
      BY <2>1, <3>2, <3>3 DEF IntakeTypes, Numbers
  <2>5. /\ author' \in [Authors -> AuthorRecord] /\ Numbers' = Numbers
        /\ \A b \in Authors : author'[b] = IF b = a THEN v ELSE author[b]
    BY <2>2, <2>3, <2>4 DEF Work, IntakeTypes, Numbers, Placed
  <2> HIDE DEF v
  <2> QED
    BY <2>2, <2>3, <2>4, <2>5 DEF IntakeTypes, Placed
<1>10. CASE FetchIssue(a)
  <2> DEFINE st == IF w.command = "create" THEN "publish" ELSE "predecessor"
             v == [w EXCEPT !.stage = st, !.body = issues[w.issue].edits]
  <2>1. w.stage = "fetch" /\ w.issue \in Numbers /\ issues[w.issue].edits \in Nat
    BY <1>1, <1>2, <1>10 DEF FetchIssue
  <2>2. v \in AuthorRecord /\ v.issue = w.issue
    BY <1>1, <2>1 DEF AuthorRecord
  <2>3. Work(a, v) /\ UNCHANGED <<target, issues, packages, local, importer, linked, resolver, limits>>
    BY <1>10 DEF FetchIssue, remote, worktree, delivery, counters
  <2> HIDE DEF v
  <2> QED
    BY <1>4, <2>1, <2>2, <2>3 DEF Placed
<1>11. CASE ReadPackages(a)
  <2> DEFINE n == w.issue
             v == IF ~Marked(n) THEN [w EXCEPT !.stage = "post"]
                  ELSE IF Parsed(n) # NoPackage /\ Revision(Parsed(n)) = Revision(PackageFor(a)) THEN After(a)
                  ELSE NoWork
  <2>1. w.stage = "publish"
    BY <1>11 DEF ReadPackages
  <2>2. Placed(v)
    BY <1>3, <1>5, <1>6, <2>1
  <2>3. Work(a, v) /\ UNCHANGED <<target, issues, packages, local, importer, linked, resolver, limits>>
    BY <1>11 DEF ReadPackages, remote, worktree, delivery, counters
  <2> HIDE DEF v
  <2> QED
    BY <1>4, <2>2, <2>3
<1>12. CASE PostPackage(a)
  <2> DEFINE p == PackageFor(a)
  <2>1. p \in PackageRecord
    BY <1>1 DEF PackageFor, PackageRecord, AuthorRecord
  <2>2. w.stage = "post" /\ Placed(After(a))
    BY <1>6, <1>12 DEF PostPackage
  <2>3. /\ Work(a, After(a)) /\ UNCHANGED <<target, issues, local, importer, linked, resolver, limits>>
        /\ packages' = Append(packages, [of |-> p, active |-> TRUE])
    BY <1>12 DEF PostPackage, worktree, delivery, counters
  <2>4. packages' \in Seq(CommentRecord)
    BY <2>1, <2>3 DEF IntakeTypes, CommentRecord
  <2> DEFINE v == After(a)
  <2>5. Work(a, v) /\ Placed(v)
    BY <2>2, <2>3
  <2> HIDE DEF v, p
  <2>6. /\ author' \in [Authors -> AuthorRecord] /\ Numbers' = Numbers
        /\ \A b \in Authors : author'[b] = IF b = a THEN v ELSE author[b]
    BY <2>3, <2>5 DEF Work, IntakeTypes, Numbers, Placed
  <2> QED
    BY <2>3, <2>4, <2>5, <2>6 DEF IntakeTypes, Placed
<1>13. CASE VerifyPublished(a)
  <2> DEFINE n == w.issue
             v == IF issues[n].labelled /\ Parsed(n) = PackageFor(a) /\ Agrees(PackageFor(a))
                  THEN [w EXCEPT !.stage = "link"] ELSE NoWork
  <2>1. Placed(v)
    BY <1>3, <1>5, <1>13 DEF VerifyPublished, At
  <2>2. Work(a, v) /\ UNCHANGED <<target, issues, packages, local, importer, linked, resolver, limits>>
    BY <1>13 DEF VerifyPublished, remote, worktree, delivery, counters
  <2> HIDE DEF v
  <2> QED
    BY <1>4, <2>1, <2>2
<1>14. CASE EndCreate(a) \/ AuthorStops(a)
  BY <1>3, <1>4, <1>14 DEF EndCreate, AuthorStops, remote, worktree, delivery, counters
<1>15. CASE ReadPredecessor(a)
  <2> DEFINE n == w.issue
             found == [w EXCEPT !.refs = Inherited(n)]
             q == [PackageFor(a) EXCEPT !.refs = Inherited(n)]
             Refused == \/ Cardinality(Active(n)) > 1
                        \/ \E e \in Inherited(n) : linked[e].state # "open"
                        \/ resolver.stage # "idle"
                        \/ Marked(n) /\ Content(Parsed(n)) = Content(q)
             v == IF Refused THEN NoWork
                  ELSE IF Marked(n) THEN [found EXCEPT !.stage = "patch", !.prior = CHOOSE i \in Active(n) : TRUE]
                  ELSE [found EXCEPT !.stage = "publish"]
  <2>1. w.stage = "predecessor" /\ n \in Numbers /\ Inherited(n) \subseteq Evidence
    BY <1>1, <1>15, ParsedIsPackage DEF ReadPredecessor, At
  <2>2. Marked(n) => (CHOOSE i \in Active(n) : TRUE) \in Nat
    BY DEF Marked, Active
  <2>3. Placed([found EXCEPT !.stage = "publish"])
    BY <1>1, <2>1 DEF Placed, AuthorRecord
  <2>4. Marked(n) => Placed([found EXCEPT !.stage = "patch", !.prior = CHOOSE i \in Active(n) : TRUE])
    <3> DEFINE i == CHOOSE i \in Active(n) : TRUE
    <3> HIDE DEF i
    <3>1. Marked(n) => i \in Nat
      BY <2>2 DEF i
    <3>2. i \in Nat => Placed([found EXCEPT !.stage = "patch", !.prior = i])
      BY <1>1, <2>1 DEF Placed, AuthorRecord
    <3> QED
      BY <3>1, <3>2 DEF i
  <2>5. Work(a, v) /\ UNCHANGED <<target, issues, packages, local, importer, linked, resolver, limits>>
    BY <1>15 DEF ReadPredecessor, remote, worktree, delivery, counters
  <2> HIDE DEF Refused
  <2>6. Placed(v)
    BY <1>3, <2>3, <2>4
  <2> HIDE DEF v
  <2> QED
    BY <1>4, <2>5, <2>6
<1>16. CASE PatchPredecessor(a)
  <2> DEFINE v == [w EXCEPT !.stage = "publish"]
  <2>1. w.stage = "patch" /\ Placed(v)
    BY <1>5, <1>16 DEF PatchPredecessor, At
  <2>2. /\ Work(a, v) /\ UNCHANGED <<target, issues, local, importer, linked, resolver, limits>>
        /\ packages' = [packages EXCEPT ![w.prior].active = FALSE]
    BY <1>16 DEF PatchPredecessor, Continue, worktree, delivery, counters
  <2>3. packages' \in Seq(CommentRecord)
    <3>1. CASE w.prior \in 1..Len(packages)
      <4>1. PICK z : z = [packages[w.prior] EXCEPT !.active = FALSE]
        OBVIOUS
      <4>2. packages[w.prior] \in CommentRecord
        BY <3>1 DEF IntakeTypes
      <4>3. z \in CommentRecord
        BY <4>1, <4>2 DEF CommentRecord
      <4>4. packages' = [packages EXCEPT ![w.prior] = z]
        BY <2>2, <4>1
      <4> QED
        BY <3>1, <4>3, <4>4 DEF IntakeTypes
    <3>2. CASE w.prior \notin 1..Len(packages)
      <4>1. packages \in [1..Len(packages) -> CommentRecord]
        BY DEF IntakeTypes
      <4>2. packages' = packages
        BY <2>2, <3>2, <4>1
      <4> QED
        BY <4>2 DEF IntakeTypes
    <3> QED
      BY <3>1, <3>2
  <2> HIDE DEF v
  <2>4. /\ author' \in [Authors -> AuthorRecord] /\ Numbers' = Numbers
        /\ \A b \in Authors : author'[b] = IF b = a THEN v ELSE author[b]
    BY <2>1, <2>2 DEF Work, IntakeTypes, Numbers, Placed
  <2> QED
    BY <2>1, <2>2, <2>3, <2>4 DEF IntakeTypes, Placed
<1> QED
  BY <1>7, <1>8, <1>9, <1>10, <1>11, <1>12, <1>13, <1>14, <1>15, <1>16 DEF AuthorCommands

LEMMA CreateTypes ==
    ASSUME IntakeTypes, NEW a \in Authors, NEW labelled \in BOOLEAN, CreateIssue(a, labelled)
    PROVE  IntakeTypes'
<1>1. PICK v : v = IF labelled THEN [author[a] EXCEPT !.stage = "fetch", !.issue = Len(issues) + 1] ELSE NoWork
  OBVIOUS
<1>2. /\ author' = [author EXCEPT ![a] = v] /\ issues' = Append(issues, [edits |-> 0, labelled |-> labelled])
      /\ UNCHANGED <<target, packages, local, importer, linked, resolver, limits>>
  BY <1>1 DEF CreateIssue, Work, worktree, delivery, counters
<1>3. issues' \in Seq(IssueRecord) /\ Len(issues) \in Nat /\ Len(issues') = Len(issues) + 1
  BY <1>2 DEF IntakeTypes, IssueRecord
<1>4. v \in AuthorRecord /\ (v.stage \notin {"idle", "list", "new"} => v.issue = Len(issues) + 1)
  <2>1. PICK n \in Nat : n = Len(issues) + 1
    BY <1>3
  <2>2. author[a] \in AuthorRecord
    BY DEF IntakeTypes
  <2>3. labelled => v = [author[a] EXCEPT !.stage = "fetch", !.issue = n]
    BY <1>1, <2>1
  <2>4. ASSUME labelled PROVE v \in AuthorRecord /\ v.issue = n
    BY <2>2, <2>3, <2>4 DEF AuthorRecord
  <2> QED
    BY <1>1, <2>1, <2>4, NothingYet
<1>5. /\ author' \in [Authors -> AuthorRecord] /\ Numbers \subseteq Numbers' /\ Len(issues) + 1 \in Numbers'
      /\ \A b \in Authors : author'[b] = IF b = a THEN v ELSE author[b]
  BY <1>2, <1>3, <1>4 DEF IntakeTypes, Numbers
<1> QED
  BY <1>2, <1>3, <1>4, <1>5 DEF IntakeTypes

LEMMA SupersedeTypes ==
    ASSUME IntakeTypes, NEW a \in Authors, NEW n \in Numbers, BeginSupersede(a, n)
    PROVE  IntakeTypes'
<1>1. PICK v : v = [NoWork EXCEPT !.command = "supersede", !.stage = "fetch", !.base = target, !.content = 2, !.issue = n]
  OBVIOUS
<1>2. author' = [author EXCEPT ![a] = v] /\ UNCHANGED <<target, issues, packages, local, importer, linked, resolver, limits>>
  BY <1>1 DEF BeginSupersede, Work, remote, worktree, delivery
<1>3. n \in Nat /\ target \in Nat
  BY DEF IntakeTypes, Numbers
<1>4. v \in AuthorRecord /\ v.issue = n
  BY <1>1, <1>3 DEF NoWork, AuthorRecord
<1>5. /\ author' \in [Authors -> AuthorRecord] /\ Numbers' = Numbers
      /\ \A b \in Authors : author'[b] = IF b = a THEN v ELSE author[b]
  BY <1>2, <1>4 DEF IntakeTypes, Numbers
<1> QED
  BY <1>2, <1>4, <1>5 DEF IntakeTypes

ImportStep ==
    \/ \E n \in Numbers : Discover(n)
    \/ \E acknowledged \in BOOLEAN : CheckDrift(acknowledged)
    \/ ResumeImport \/ CreateDirectory \/ WriteProvenance \/ WriteTaskState \/ ImportFails \/ ImporterDies

\* An import works on the worktree alone, and a task state stands for a complete contract.
LEMMA ImportTypes ==
    ASSUME IntakeTypes, ImportStep
    PROVE  /\ local' \in LocalRecord /\ importer' \in ImporterRecord
           /\ UNCHANGED <<target, issues, packages, author, linked, resolver, limits, raced>>
<1> USE DEF LocalRecord, ImporterRecord
<1>0. /\ local \in LocalRecord /\ importer \in ImporterRecord /\ NoImport \in ImporterRecord /\ NoTask \in LocalRecord
      /\ importer.of \in PackageRecord
  BY NothingYet DEF IntakeTypes
<1>1. CASE \E n \in Numbers : Discover(n)
  <2>1. PICK n \in Numbers : Discover(n)
    BY <1>1
  <2>2. Parsed(n) \in PackageRecord
    BY ParsedIsPackage
  <2> QED
    BY <1>0, <2>1, <2>2 DEF Discover, remote, delivery, counters
<1>2. CASE \E acknowledged \in BOOLEAN : CheckDrift(acknowledged)
  BY <1>0, <1>2 DEF CheckDrift, remote, delivery, counters
<1>3. CASE ResumeImport
  <2>1. local' = [local EXCEPT !.state = @ \/ Resumable(importer.of)] /\ Resumable(importer.of) \in BOOLEAN
    BY <1>3 DEF ResumeImport, Resumable
  <2>2. PICK b \in BOOLEAN : local' = [local EXCEPT !.state = b]
    BY <1>0, <2>1
  <2> QED
    BY <1>0, <1>3, <2>2 DEF ResumeImport, remote, delivery, counters
<1>4. CASE CreateDirectory \/ WriteProvenance \/ WriteTaskState
  <2>1. CASE CreateDirectory
    BY <1>0, <2>1 DEF CreateDirectory, remote, delivery, counters
  <2>2. CASE WriteProvenance
    BY <1>0, <2>2 DEF WriteProvenance, remote, delivery, counters
  <2>3. CASE WriteTaskState
    BY <1>0, <2>3 DEF WriteTaskState, remote, delivery, counters
  <2> QED
    BY <1>4, <2>1, <2>2, <2>3
<1>5. CASE ImportFails \/ ImporterDies
  BY <1>0, <1>5 DEF ImportFails, ImporterDies, remote, delivery, counters
<1> QED
  BY <1>1, <1>2, <1>3, <1>4, <1>5 DEF ImportStep

ResolveStep ==
    \/ BeginResolution \/ EndResolution \/ ResolverStops
    \/ \E e \in Evidence : ReadEvidence(e) \/ NoteResolution(e) \/ CloseEvidence(e) \/ Dispose(e)
    \/ \E a \in Authors, e \in Evidence : LinkEvidence(a, e)
    \/ \E e \in Evidence, state \in {"closed", "gone"} : EvidenceEnds(e, state)

ExplainedSoFar ==
    /\ resolver.stage = "close" => \A e \in resolver.at : linked[e].note
    /\ \A e \in Evidence : linked[e].ours => linked[e].note

\* Where the resolver is after one piece of evidence was read, noted or closed.
LEMMA ProceedFacts ==
    ASSUME resolver \in ResolverRecord, NEW e \in Evidence, resolver.stage \in {"next", "note", "close"}
    PROVE  /\ Proceed(e) \in ResolverRecord
           /\ resolver.stage = "close" => Proceed(e).stage = "next" /\ Proceed(e).at = {}
           /\ resolver.stage = "note" => Proceed(e).stage = "close" /\ Proceed(e).at = {e}
           /\ resolver.stage = "next" => Proceed(e).stage = "note" /\ Proceed(e).at = {e}
<1>1. /\ StepAfter["next"] = "note" /\ StepAfter["note"] = "close" /\ StepAfter["close"] = "next"
      /\ resolver = [stage |-> resolver.stage, left |-> resolver.left, at |-> resolver.at]
      /\ resolver.left \subseteq Evidence
  BY DEF StepAfter, ResolverRecord
<1>2. CASE resolver.stage = "close"
  <2>1. Proceed(e) = [stage |-> "next", left |-> resolver.left \ {e}, at |-> {}]
    BY <1>1, <1>2 DEF Proceed
  <2> QED
    BY <1>1, <1>2, <2>1 DEF ResolverRecord
<1>3. CASE resolver.stage \in {"next", "note"}
  <2>1. PICK st : st = StepAfter[resolver.stage]
    OBVIOUS
  <2>2. Proceed(e) = [resolver EXCEPT !.stage = st, !.at = {e}] /\ st \in {"note", "close"}
    BY <1>1, <1>3, <2>1 DEF Proceed
  <2>3. Proceed(e) = [stage |-> st, left |-> resolver.left, at |-> {e}]
    BY <1>1, <2>2
  <2>4. Proceed(e) \in ResolverRecord /\ Proceed(e).stage = st /\ Proceed(e).at = {e}
    BY <1>1, <2>2, <2>3 DEF ResolverRecord
  <2>5. /\ resolver.stage = "next" => st = "note"
        /\ resolver.stage = "note" => st = "close"
    BY <1>1, <2>1
  <2> QED
    BY <1>3, <2>4, <2>5
<1> QED
  BY <1>2, <1>3

\* A resolution keeps the types, and what it closes is explained.
LEMMA ResolveTypes ==
    ASSUME IntakeTypes, ResolveStep
    PROVE  /\ linked' \in [Evidence -> LinkRecord] /\ resolver' \in ResolverRecord
           /\ UNCHANGED <<target, issues, packages, author, local, importer, limits, raced>>
           /\ ExplainedSoFar => ExplainedSoFar'
<1> USE DEF ExplainedSoFar
<1>0. /\ linked \in [Evidence -> LinkRecord] /\ resolver \in ResolverRecord
      /\ \A e \in Evidence : linked[e] \in LinkRecord
  BY DEF IntakeTypes
<1>1. CASE BeginResolution \/ EndResolution \/ ResolverStops
  <2>1. local.of.refs \subseteq Evidence
    BY DEF IntakeTypes, LocalRecord, PackageRecord
  <2> QED
    BY <1>0, <1>1, <2>1 DEF BeginResolution, EndResolution, ResolverStops, NoResolution, ResolverRecord, remote, worktree, counters
<1>2. ASSUME NEW e \in Evidence, ReadEvidence(e)
      PROVE  /\ linked' \in [Evidence -> LinkRecord] /\ resolver' \in ResolverRecord
             /\ UNCHANGED <<target, issues, packages, author, local, importer, limits, raced>>
             /\ ExplainedSoFar => ExplainedSoFar'
  <2>1. resolver.stage = "next" /\ linked' = linked /\ UNCHANGED <<target, issues, packages, author, local, importer, limits, raced>>
    BY <1>2 DEF ReadEvidence, remote, worktree, counters
  <2>2. resolver' \in ResolverRecord /\ resolver'.stage # "close"
    BY <1>0, <1>2, <2>1, ProceedFacts DEF ReadEvidence, ResolverRecord
  <2> QED
    BY <1>0, <2>1, <2>2
<1>3. ASSUME NEW e \in Evidence, NoteResolution(e)
      PROVE  /\ linked' \in [Evidence -> LinkRecord] /\ resolver' \in ResolverRecord
             /\ UNCHANGED <<target, issues, packages, author, local, importer, limits, raced>>
             /\ ExplainedSoFar => ExplainedSoFar'
  <2>1. /\ resolver.stage = "note" /\ linked' = [linked EXCEPT ![e].note = TRUE] /\ resolver' = Proceed(e)
        /\ UNCHANGED <<target, issues, packages, author, local, importer, limits, raced>>
    BY <1>3 DEF NoteResolution, remote, worktree, counters
  <2>2. resolver' \in ResolverRecord /\ resolver'.at = {e}
    BY <1>0, <2>1, ProceedFacts
  <2>3. PICK z : z = [linked[e] EXCEPT !.note = TRUE]
    OBVIOUS
  <2>4. z \in LinkRecord /\ z.note /\ linked' = [linked EXCEPT ![e] = z]
    BY <1>0, <2>1, <2>3 DEF LinkRecord
  <2> QED
    BY <1>0, <2>1, <2>2, <2>4
<1>4. ASSUME NEW e \in Evidence, CloseEvidence(e)
      PROVE  /\ linked' \in [Evidence -> LinkRecord] /\ resolver' \in ResolverRecord
             /\ UNCHANGED <<target, issues, packages, author, local, importer, limits, raced>>
             /\ ExplainedSoFar => ExplainedSoFar'
  <2>1. /\ resolver.stage = "close" /\ linked' = [linked EXCEPT ![e].state = "closed", ![e].ours = TRUE]
        /\ resolver' = Proceed(e) /\ resolver.at = {e}
        /\ UNCHANGED <<target, issues, packages, author, local, importer, limits, raced>>
    BY <1>4 DEF CloseEvidence, remote, worktree, counters
  <2>2. resolver' \in ResolverRecord /\ resolver'.at = {}
    BY <1>0, <2>1, ProceedFacts
  <2>3. PICK z : z = [linked[e] EXCEPT !.state = "closed", !.ours = TRUE]
    OBVIOUS
  <2>4. z \in LinkRecord /\ z.note = linked[e].note /\ linked' = [linked EXCEPT ![e] = z]
    BY <1>0, <2>1, <2>3 DEF LinkRecord
  <2> QED
    BY <1>0, <2>1, <2>2, <2>4
<1>5. ASSUME NEW e \in Evidence, NEW z, linked' = [linked EXCEPT ![e] = z], z \in LinkRecord,
             z.note = linked[e].note, z.ours = linked[e].ours, resolver' = resolver
      PROVE  /\ linked' \in [Evidence -> LinkRecord] /\ resolver' \in ResolverRecord
             /\ ExplainedSoFar => ExplainedSoFar'
  <2>1. \A f \in Evidence : linked'[f].note = linked[f].note /\ linked'[f].ours = linked[f].ours
    BY <1>0, <1>5
  <2>2. resolver.at \subseteq Evidence
    BY <1>0 DEF ResolverRecord
  <2> QED
    BY <1>0, <1>5, <2>1, <2>2
<1>6. ASSUME NEW e \in Evidence, Dispose(e)
      PROVE  /\ linked' \in [Evidence -> LinkRecord] /\ resolver' \in ResolverRecord
             /\ UNCHANGED <<target, issues, packages, author, local, importer, limits, raced>>
             /\ ExplainedSoFar => ExplainedSoFar'
  <2>1. PICK z : z = [linked[e] EXCEPT !.disposed = TRUE]
    OBVIOUS
  <2>2. /\ z \in LinkRecord /\ z.note = linked[e].note /\ z.ours = linked[e].ours
        /\ linked' = [linked EXCEPT ![e] = z] /\ resolver' = resolver
        /\ UNCHANGED <<target, issues, packages, author, local, importer, limits, raced>>
    BY <1>0, <1>6, <2>1 DEF Dispose, LinkRecord, remote, worktree, counters
  <2> QED
    BY <1>5, <2>2
<1>7. ASSUME NEW a \in Authors, NEW e \in Evidence, LinkEvidence(a, e)
      PROVE  /\ linked' \in [Evidence -> LinkRecord] /\ resolver' \in ResolverRecord
             /\ UNCHANGED <<target, issues, packages, author, local, importer, limits, raced>>
             /\ ExplainedSoFar => ExplainedSoFar'
  <2>1. PICK z : z = [linked[e] EXCEPT !.managed = TRUE, !.backlink = linked[e].managed]
    OBVIOUS
  <2>2. z \in LinkRecord /\ z.note = linked[e].note /\ z.ours = linked[e].ours
    BY <1>0, <2>1 DEF LinkRecord
  <2>3. /\ linked' = [linked EXCEPT ![e] = z] /\ resolver' = resolver
        /\ UNCHANGED <<target, issues, packages, author, local, importer, limits, raced>>
    BY <1>7, <2>1 DEF LinkEvidence, remote, worktree, counters
  <2> QED
    BY <1>5, <2>2, <2>3
<1>8. ASSUME NEW e \in Evidence, NEW state \in {"closed", "gone"}, EvidenceEnds(e, state)
      PROVE  /\ linked' \in [Evidence -> LinkRecord] /\ resolver' \in ResolverRecord
             /\ UNCHANGED <<target, issues, packages, author, local, importer, limits, raced>>
             /\ ExplainedSoFar => ExplainedSoFar'
  <2>1. PICK z : z = [linked[e] EXCEPT !.state = state]
    OBVIOUS
  <2>2. /\ z \in LinkRecord /\ z.note = linked[e].note /\ z.ours = linked[e].ours
        /\ linked' = [linked EXCEPT ![e] = z] /\ resolver' = resolver
        /\ UNCHANGED <<target, issues, packages, author, local, importer, limits, raced>>
    BY <1>0, <1>8, <2>1 DEF EvidenceEnds, LinkRecord, remote, worktree, counters
  <2> QED
    BY <1>5, <2>2
<1> QED
  BY <1>1, <1>2, <1>3, <1>4, <1>6, <1>7, <1>8 DEF ResolveStep

\* Users, and the target.
LEMMA OutsideTypes ==
    ASSUME IntakeTypes, TargetMoves \/ \E n \in Numbers : UserEdits(n)
    PROVE  IntakeTypes' /\ Len(issues') = Len(issues) /\ UNCHANGED <<packages, author, worktree, delivery, raced>>
<1>1. CASE TargetMoves
  BY <1>1 DEF TargetMoves, IntakeTypes, Numbers, worktree, delivery, counters
<1>2. ASSUME NEW n \in Numbers, UserEdits(n)
      PROVE  IntakeTypes' /\ Len(issues') = Len(issues) /\ UNCHANGED <<packages, author, worktree, delivery, raced>>
  <2>1. PICK k : k = issues[n].edits + 1
    OBVIOUS
  <2>2. PICK z : z = [issues[n] EXCEPT !.edits = k]
    OBVIOUS
  <2>a. issues[n] \in IssueRecord
    BY DEF IntakeTypes, Numbers
  <2>3. issues[n] \in IssueRecord /\ issues[n].edits \in Nat
    BY <2>a DEF IssueRecord
  <2>4. k \in Nat /\ z \in IssueRecord
    BY <2>1, <2>2, <2>3 DEF IssueRecord
  <2>5. /\ issues' = [issues EXCEPT ![n] = z]
        /\ UNCHANGED <<target, packages, author, local, importer, linked, resolver, raced, limits>>
    BY <1>2, <2>1, <2>2 DEF UserEdits, worktree, delivery, counters
  <2>6. issues' \in Seq(IssueRecord) /\ Len(issues') = Len(issues)
    BY <2>4, <2>5 DEF IntakeTypes, Numbers
  <2> QED
    BY <2>5, <2>6 DEF IntakeTypes, Numbers, worktree, delivery
<1> QED
  BY <1>1, <1>2

LEMMA IntakeStepTypes == IntakeTypes /\ [IntakeNext]_intakeVars => IntakeTypes'
<1> SUFFICES ASSUME IntakeTypes, [IntakeNext]_intakeVars PROVE IntakeTypes'
  OBVIOUS
<1>1. CASE \E a \in Authors : AuthorCommands(a)
  BY <1>1, AuthorStepTypes
<1>2. CASE \E a \in Authors, labelled \in BOOLEAN : CreateIssue(a, labelled)
  BY <1>2, CreateTypes
<1>3. CASE \E a \in Authors, n \in Numbers : BeginSupersede(a, n)
  BY <1>3, SupersedeTypes
<1>4. CASE ImportStep
  BY <1>4, ImportTypes DEF IntakeTypes, Numbers
<1>5. CASE ResolveStep
  BY <1>5, ResolveTypes DEF IntakeTypes, Numbers
<1>6. CASE TargetMoves \/ \E n \in Numbers : UserEdits(n)
  BY <1>6, OutsideTypes
<1>7. CASE UNCHANGED intakeVars
  BY <1>7 DEF intakeVars, remote, worktree, delivery, counters, IntakeTypes, Numbers
<1> QED
  BY <1>1, <1>2, <1>3, <1>4, <1>5, <1>6, <1>7 DEF IntakeNext, AuthorCommands, ImportStep, ResolveStep

\* Types of the intake of a task, for any number of authors and pieces of evidence.
THEOREM IntakeTypeCorrect == IntakeSpec => []IntakeTypes
  BY IntakeStarts, IntakeStepTypes, PTL DEF IntakeSpec

-----------------------------------------------------------------------------
(* The intake of a task: one Issue, one package, one contract. *)

\* The active packages of an Issue among some comments.
ActiveIn(comments, n) == {i \in 1..Len(comments) : comments[i].of.issue = n /\ comments[i].active}

Sole ==
    /\ Len(issues) <= 1
    /\ \A a \in Authors : author[a].stage = "new" => Len(issues) = 0
    /\ \A a \in Authors : author[a].stage = "post" => ActiveIn(packages, author[a].issue) = {}
    /\ \A n : \A i, j \in ActiveIn(packages, n) : i = j

IntakeInv ==
    /\ \A a \in Authors : author[a].stage \in {"list", "new"} => author[a].issue = 0
    /\ ~raced => Sole
    /\ local.state => local.directory = "complete"
    /\ importer.stage = "state" => local.directory = "complete"

\* Two authors that wait to write the same race, once one of them has written.
LEMMA ObservedOnce ==
    ASSUME NEW a \in Authors, NEW b \in Authors, a # b, author[b].stage = author[a].stage,
           author[b].issue = author[a].issue
    PROVE  SameObservation(a)
  BY DEF SameObservation

\* A step of one author that writes neither Issues nor packages.
LEMMA AuthorReads ==
    ASSUME IntakeTypes, IntakeInv, NEW a \in Authors, NEW v, Work(a, v), UNCHANGED <<issues, packages, worktree, raced>>,
           v.stage \in {"list", "new"} => v.issue = 0,
           v.stage = "new" => Len(issues) = 0,
           v.stage = "post" => ActiveIn(packages, v.issue) = {}
    PROVE  IntakeInv'
<1>1. \A b \in Authors : author'[b] = IF b = a THEN v ELSE author[b]
  BY DEF Work, IntakeTypes
<1>2. issues' = issues /\ raced' = raced /\ local' = local /\ importer' = importer
  BY DEF worktree
<1>3. \A n : ActiveIn(packages', n) = ActiveIn(packages, n)
  BY DEF ActiveIn
<1>4. \A b \in Authors : author'[b].stage \in {"list", "new"} => author'[b].issue = 0
  BY <1>1 DEF IntakeInv
<1>5. ASSUME ~raced, Sole PROVE Sole'
  <2>1. \A b \in Authors : author'[b].stage = "new" => Len(issues') = 0
    BY <1>1, <1>2, <1>5 DEF Sole
  <2>2. ASSUME NEW b \in Authors, author'[b].stage = "post" PROVE ActiveIn(packages', author'[b].issue) = {}
    BY <1>1, <1>3, <1>5, <2>2 DEF Sole
  <2> QED
    BY <1>2, <1>3, <1>5, <2>1, <2>2 DEF Sole
<1> QED
  BY <1>2, <1>4, <1>5 DEF IntakeInv

LEMMA IntakeStartsSole == IntakeInit => IntakeInv
<1> SUFFICES ASSUME IntakeInit PROVE IntakeInv
  OBVIOUS
<1>1. \A a \in Authors : author[a].stage = "idle"
  BY DEF IntakeInit, NoWork
<1>2. \A n : ActiveIn(packages, n) = {}
  BY DEF IntakeInit, ActiveIn
<1> QED
  BY <1>1, <1>2 DEF IntakeInit, IntakeInv, Sole, NoTask, NoImport

LEMMA AuthorsStaySole == ASSUME IntakeTypes, IntakeInv, NEW a \in Authors, AuthorCommands(a) PROVE IntakeInv'
<1> DEFINE w == author[a]
<1>1. w \in AuthorRecord /\ NoWork.stage = "idle"
  BY DEF IntakeTypes, NoWork
<1>2. \A st : [w EXCEPT !.stage = st].stage = st /\ [w EXCEPT !.stage = st].issue = w.issue
  BY <1>1 DEF AuthorRecord
<1>3. After(a).stage \in {"verify", "idle"}
  BY <1>1, <1>2 DEF After
<1>4. CASE BeginCreate(a)
  <2>1. PICK v : v = [NoWork EXCEPT !.command = "create", !.stage = "list", !.base = target, !.content = 1, !.refs = limits.refs]
    OBVIOUS
  <2>2. v.stage = "list" /\ v.issue = 0
    BY <2>1 DEF NoWork
  <2>3. Work(a, v) /\ UNCHANGED <<issues, packages, worktree, raced>>
    BY <1>4, <2>1 DEF BeginCreate, remote
  <2> QED
    BY <2>2, <2>3, AuthorReads
<1>5. CASE ListIssues(a)
  <2>1. PICK v : v = IF issues = <<>> THEN [w EXCEPT !.stage = "new"]
                     ELSE IF Len(issues) = 1 THEN [w EXCEPT !.stage = "labels", !.issue = 1, !.body = issues[1].edits]
                     ELSE NoWork
    OBVIOUS
  <2>2. w.stage = "list" /\ w.issue = 0 /\ Work(a, v) /\ UNCHANGED <<issues, packages, worktree, raced>>
    BY <1>5, <2>1 DEF ListIssues, At, remote, IntakeInv
  <2>3. issues = <<>> => v.stage = "new" /\ v.issue = 0 /\ Len(issues) = 0
    BY <1>2, <2>1, <2>2
  <2>4. issues # <<>> => v.stage \in {"labels", "idle"}
    BY <1>1, <2>1 DEF AuthorRecord
  <2>5. /\ v.stage \in {"list", "new"} => v.issue = 0
        /\ v.stage = "new" => Len(issues) = 0
        /\ v.stage = "post" => ActiveIn(packages, v.issue) = {}
    BY <2>3, <2>4
  <2> QED
    BY <2>2, <2>5, AuthorReads
<1>6. CASE RepairLabels(a)
  <2>1. PICK v : v = [w EXCEPT !.stage = IF issues[w.issue].labelled THEN "publish" ELSE "fetch"]
    OBVIOUS
  <2>2. v.stage \in {"publish", "fetch"}
    BY <1>2, <2>1
  <2>3. /\ author' = [author EXCEPT ![a] = v] /\ issues' = [issues EXCEPT ![w.issue].labelled = TRUE]
        /\ UNCHANGED <<packages, local, importer, raced>>
    BY <1>6, <2>1 DEF RepairLabels, Continue, Work, worktree
  <2>4. Len(issues') = Len(issues)
    BY <2>3 DEF IntakeTypes
  <2>5. \A b \in Authors : author'[b] = IF b = a THEN v ELSE author[b]
    BY <2>3 DEF IntakeTypes
  <2>6. \A n : ActiveIn(packages', n) = ActiveIn(packages, n)
    BY <2>3 DEF ActiveIn
  <2>7. \A b \in Authors : author'[b].stage \in {"list", "new", "post"} => author'[b] = author[b]
    BY <2>2, <2>5
  <2>8. Sole => Sole'
    <3>1. ASSUME Sole, NEW b \in Authors, author'[b].stage = "post" PROVE ActiveIn(packages', author'[b].issue) = {}
      BY <2>6, <2>7, <3>1 DEF Sole
    <3> QED
      BY <2>4, <2>6, <2>7, <3>1 DEF Sole
  <2> QED
    BY <2>3, <2>7, <2>8 DEF IntakeInv
<1>7. CASE FetchIssue(a)
  <2>1. PICK v : v = [w EXCEPT !.stage = IF w.command = "create" THEN "publish" ELSE "predecessor",
                              !.body = issues[w.issue].edits]
    OBVIOUS
  <2>2. v.stage \in {"publish", "predecessor"}
    BY <1>1, <2>1 DEF AuthorRecord
  <2>3. Work(a, v) /\ UNCHANGED <<issues, packages, worktree, raced>>
    BY <1>7, <2>1 DEF FetchIssue, remote
  <2> QED
    BY <2>2, <2>3, AuthorReads
<1>8. CASE ReadPackages(a)
  <2> DEFINE n == w.issue
  <2>1. PICK v : v = IF ~Marked(n) THEN [w EXCEPT !.stage = "post"]
                     ELSE IF Parsed(n) # NoPackage /\ Revision(Parsed(n)) = Revision(PackageFor(a)) THEN After(a)
                     ELSE NoWork
    OBVIOUS
  <2>2. Work(a, v) /\ UNCHANGED <<issues, packages, worktree, raced>>
    BY <1>8, <2>1 DEF ReadPackages, remote
  <2>3. ~Marked(n) => v.stage = "post" /\ v.issue = n
    BY <1>2, <2>1
  <2>4. Marked(n) => v.stage \in {"verify", "idle"}
    BY <1>1, <1>3, <2>1
  <2>5. ~Marked(n) => ActiveIn(packages, n) = {}
    BY DEF Marked, Active, ActiveIn
  <2>6. /\ v.stage \notin {"list", "new"}
        /\ v.stage = "post" => ActiveIn(packages, v.issue) = {}
    BY <2>3, <2>4, <2>5
  <2> QED
    BY <2>2, <2>6, AuthorReads
<1>9. CASE PostPackage(a)
  <2> DEFINE p == PackageFor(a)
  <2>1. PICK v : v = After(a)
    OBVIOUS
  <2>2. /\ w.stage = "post" /\ author' = [author EXCEPT ![a] = v]
        /\ packages' = Append(packages, [of |-> p, active |-> TRUE])
        /\ raced' = (raced \/ SameObservation(a)) /\ UNCHANGED <<issues, local, importer>>
    BY <1>9, <2>1 DEF PostPackage, Work, worktree
  <2>3. \A b \in Authors : author'[b] = IF b = a THEN v ELSE author[b]
    BY <2>2 DEF IntakeTypes
  <2>4. p.issue = w.issue
    BY DEF PackageFor
  <2> HIDE DEF p
  <2>5. v.stage \in {"verify", "idle"}
    BY <1>3, <2>1
  <2>6. \A b \in Authors : author'[b].stage \in {"list", "new", "post"} => b # a /\ author'[b] = author[b]
    BY <2>3, <2>5
  <2>7. \A n : ActiveIn(packages', n) = ActiveIn(packages, n) \cup (IF n = w.issue THEN {Len(packages) + 1} ELSE {})
    <3>1. Len(packages') = Len(packages) + 1 /\ Len(packages) \in Nat
      BY <2>2 DEF IntakeTypes
    <3>2. \A i \in 1..Len(packages) : packages'[i] = packages[i]
      BY <2>2 DEF IntakeTypes
    <3>3. packages'[Len(packages) + 1].of.issue = w.issue /\ packages'[Len(packages) + 1].active
      BY <2>2, <2>4 DEF IntakeTypes
    <3>4. 1..Len(packages') = 1..Len(packages) \cup {Len(packages) + 1} /\ Len(packages) + 1 \notin 1..Len(packages)
      BY <3>1
    <3> QED
      BY <3>2, <3>3, <3>4 DEF ActiveIn
  <2>8. ASSUME ~raced' PROVE Sole'
    <3>1. ~raced /\ ~SameObservation(a)
      BY <2>2, <2>8
    <3>2. Sole
      BY <3>1 DEF IntakeInv
    <3>3. \A b \in Authors : author'[b].stage = "post" => author'[b].issue # w.issue
      BY <2>2, <2>6, <3>1, ObservedOnce
    <3>4. ActiveIn(packages, w.issue) = {}
      BY <2>2, <3>2 DEF Sole
    <3>5. \A n : \A i, j \in ActiveIn(packages', n) : i = j
      BY <2>7, <3>2, <3>4 DEF Sole
    <3>6. ASSUME NEW b \in Authors, author'[b].stage = "post" PROVE ActiveIn(packages', author'[b].issue) = {}
      BY <2>6, <2>7, <3>2, <3>3, <3>6 DEF Sole
    <3> QED
      BY <2>2, <2>6, <3>2, <3>5, <3>6 DEF Sole
  <2> QED
    BY <2>2, <2>6, <2>8 DEF IntakeInv
<1>10. CASE VerifyPublished(a) \/ EndCreate(a) \/ AuthorStops(a)
  <2>1. PICK v : Work(a, v) /\ UNCHANGED <<issues, packages, worktree, raced>> /\ v.stage \in {"link", "idle"}
    BY <1>1, <1>2, <1>10 DEF VerifyPublished, EndCreate, AuthorStops, remote
  <2> QED
    BY <2>1, AuthorReads
<1>11. CASE ReadPredecessor(a)
  <2> DEFINE n == w.issue
             found == [w EXCEPT !.refs = Inherited(n)]
             q == [PackageFor(a) EXCEPT !.refs = Inherited(n)]
             Refused == \/ Cardinality(Active(n)) > 1
                        \/ \E e \in Inherited(n) : linked[e].state # "open"
                        \/ resolver.stage # "idle"
                        \/ Marked(n) /\ Content(Parsed(n)) = Content(q)
             v == IF Refused THEN NoWork
                  ELSE IF Marked(n) THEN [found EXCEPT !.stage = "patch", !.prior = CHOOSE i \in Active(n) : TRUE]
                  ELSE [found EXCEPT !.stage = "publish"]
  <2>1. Work(a, v) /\ UNCHANGED <<issues, packages, worktree, raced>>
    BY <1>11 DEF ReadPredecessor, remote
  <2> HIDE DEF Refused
  <2>2. v.stage \in {"idle", "patch", "publish"}
    BY <1>1 DEF AuthorRecord
  <2> HIDE DEF v
  <2> QED
    BY <2>1, <2>2, AuthorReads
<1>12. CASE PatchPredecessor(a)
  <2>1. PICK v : v = [w EXCEPT !.stage = "publish"]
    OBVIOUS
  <2>2. /\ v.stage = "publish" /\ author' = [author EXCEPT ![a] = v]
        /\ packages' = [packages EXCEPT ![w.prior].active = FALSE]
        /\ UNCHANGED <<issues, local, importer, raced>>
    BY <1>2, <1>12, <2>1 DEF PatchPredecessor, Continue, Work, worktree
  <2>3. \A b \in Authors : author'[b] = IF b = a THEN v ELSE author[b]
    BY <2>2 DEF IntakeTypes
  <2>4. \A b \in Authors : author'[b].stage \in {"list", "new", "post"} => author'[b] = author[b]
    BY <2>2, <2>3
  <2>5. \A n : ActiveIn(packages', n) \subseteq ActiveIn(packages, n)
    <3>1. packages \in [1..Len(packages) -> CommentRecord]
      BY DEF IntakeTypes
    <3>2. PICK z : z = [packages[w.prior] EXCEPT !.active = FALSE]
      OBVIOUS
    <3>3. packages' = [packages EXCEPT ![w.prior] = z]
      BY <2>2, <3>2
    <3>4. w.prior \in 1..Len(packages) => z.active = FALSE
      BY <3>1, <3>2 DEF CommentRecord
    <3>5. \A i \in 1..Len(packages) : packages'[i] = IF i = w.prior THEN z ELSE packages[i]
      BY <3>1, <3>3
    <3>6. Len(packages') = Len(packages)
      BY <3>3 DEF IntakeTypes
    <3> QED
      BY <3>4, <3>5, <3>6 DEF ActiveIn
  <2>6. Sole => Sole'
    <3>1. ASSUME Sole, NEW b \in Authors, author'[b].stage = "post" PROVE ActiveIn(packages', author'[b].issue) = {}
      <4>1. ActiveIn(packages, author[b].issue) = {} /\ author'[b] = author[b]
        BY <2>4, <3>1 DEF Sole
      <4> QED
        BY <2>5, <4>1
    <3>2. ASSUME Sole PROVE \A n : \A i, j \in ActiveIn(packages', n) : i = j
      BY <2>5, <3>2 DEF Sole
    <3> QED
      BY <2>2, <2>4, <3>1, <3>2 DEF Sole
  <2> QED
    BY <2>2, <2>4, <2>6 DEF IntakeInv
<1> QED
  BY <1>4, <1>5, <1>6, <1>7, <1>8, <1>9, <1>10, <1>11, <1>12 DEF AuthorCommands

LEMMA CreatesStaySole ==
    ASSUME IntakeTypes, IntakeInv, NEW a \in Authors, NEW labelled \in BOOLEAN, CreateIssue(a, labelled)
    PROVE  IntakeInv'
<1>1. PICK v : v = IF labelled THEN [author[a] EXCEPT !.stage = "fetch", !.issue = Len(issues) + 1] ELSE NoWork
  OBVIOUS
<1>2. /\ author[a].stage = "new" /\ author' = [author EXCEPT ![a] = v]
      /\ issues' = Append(issues, [edits |-> 0, labelled |-> labelled])
      /\ raced' = (raced \/ SameObservation(a)) /\ UNCHANGED <<packages, local, importer>>
  BY <1>1 DEF CreateIssue, Work, At, worktree
<1>3. v.stage \in {"fetch", "idle"}
  BY <1>1 DEF IntakeTypes, AuthorRecord, NoWork
<1>4. Len(issues) \in Nat /\ Len(issues') = Len(issues) + 1
  BY <1>2 DEF IntakeTypes, IssueRecord
<1>5. \A b \in Authors : author'[b] = IF b = a THEN v ELSE author[b]
  BY <1>2 DEF IntakeTypes
<1>6. \A b \in Authors : author'[b].stage \in {"list", "new", "post"} => b # a /\ author'[b] = author[b]
  BY <1>3, <1>5
<1>7. ASSUME ~raced' PROVE Sole'
  <2>1. Sole /\ ~SameObservation(a)
    BY <1>2, <1>7 DEF IntakeInv
  <2>2. \A b \in Authors : author'[b].stage # "new"
    <3>1. SUFFICES ASSUME NEW b \in Authors, author'[b].stage = "new" PROVE FALSE
      OBVIOUS
    <3>2. b # a /\ author[b].stage = "new" /\ author[b].issue = 0 /\ author[a].issue = 0
      BY <1>2, <1>6, <3>1 DEF IntakeInv
    <3> QED
      BY <1>2, <2>1, <3>2, ObservedOnce
  <2>3. Len(issues) = 0
    BY <1>2, <2>1 DEF Sole
  <2>4. \A b \in Authors : author'[b].stage = "post" => ActiveIn(packages', author'[b].issue) = {}
    BY <1>2, <1>6, <2>1 DEF Sole
  <2> QED
    BY <1>2, <1>4, <2>1, <2>2, <2>3, <2>4 DEF Sole
<1> QED
  BY <1>2, <1>6, <1>7 DEF IntakeInv

LEMMA SupersedesStaySole ==
    ASSUME IntakeTypes, IntakeInv, NEW a \in Authors, NEW n \in Numbers, BeginSupersede(a, n)
    PROVE  IntakeInv'
<1>1. PICK v : v = [NoWork EXCEPT !.command = "supersede", !.stage = "fetch", !.base = target, !.content = 2, !.issue = n]
  OBVIOUS
<1>2. Work(a, v) /\ UNCHANGED <<issues, packages, worktree, raced>> /\ v.stage = "fetch"
  BY <1>1 DEF BeginSupersede, remote, NoWork
<1> QED
  BY <1>2, AuthorReads

\* What leaves the authors, and the number of Issues, alone.
LEMMA OthersStaySole ==
    ASSUME IntakeInv, UNCHANGED <<packages, author, raced>>, Len(issues') = Len(issues),
           (local'.state \/ importer'.stage = "state") => local'.directory = "complete"
    PROVE  IntakeInv'
  BY DEF IntakeInv, Sole

\* A task state stands for a complete contract, also when an import was killed half way.
LEMMA ImportsStayWhole ==
    ASSUME IntakeTypes, IntakeInv, ImportStep
    PROVE  (local'.state \/ importer'.stage = "state") => local'.directory = "complete"
<1>0. local \in LocalRecord /\ importer \in ImporterRecord /\ ~NoTask.state /\ NoImport.stage = "idle"
  BY DEF IntakeTypes, NoTask, NoImport
<1>1. CASE \E n \in Numbers : Discover(n)
  BY <1>0, <1>1 DEF Discover, IntakeInv
<1>2. CASE \E acknowledged \in BOOLEAN : CheckDrift(acknowledged)
  <2>1. local' = local /\ importer'.stage \in {"create", "idle"}
    BY <1>0, <1>2 DEF CheckDrift, ImporterRecord
  <2> QED
    BY <2>1 DEF IntakeInv
<1>3. CASE ResumeImport
  <2>1. PICK b \in BOOLEAN : local' = [local EXCEPT !.state = b] /\ (b => local.state \/ Resumable(importer.of))
    BY <1>0, <1>3 DEF ResumeImport, Resumable, LocalRecord
  <2>2. local'.state = b /\ local'.directory = local.directory /\ importer'.stage = "idle"
    BY <1>0, <1>3, <2>1 DEF ResumeImport, LocalRecord
  <2> QED
    BY <2>1, <2>2 DEF IntakeInv, Resumable
<1>4. CASE CreateDirectory
  BY <1>0, <1>4 DEF CreateDirectory, ImporterRecord
<1>5. CASE WriteProvenance
  BY <1>0, <1>5 DEF WriteProvenance, LocalRecord
<1>6. CASE WriteTaskState
  BY <1>0, <1>6 DEF WriteTaskState, LocalRecord, IntakeInv
<1>7. CASE ImportFails \/ ImporterDies
  BY <1>0, <1>7 DEF ImportFails, ImporterDies, IntakeInv
<1> QED
  BY <1>1, <1>2, <1>3, <1>4, <1>5, <1>6, <1>7 DEF ImportStep

LEMMA IntakeStepStaysSole == IntakeTypes /\ IntakeInv /\ [IntakeNext]_intakeVars => IntakeInv'
<1> SUFFICES ASSUME IntakeTypes, IntakeInv, [IntakeNext]_intakeVars PROVE IntakeInv'
  OBVIOUS
<1>1. CASE \E a \in Authors : AuthorCommands(a)
  BY <1>1, AuthorsStaySole
<1>2. CASE \E a \in Authors, labelled \in BOOLEAN : CreateIssue(a, labelled)
  BY <1>2, CreatesStaySole
<1>3. CASE \E a \in Authors, n \in Numbers : BeginSupersede(a, n)
  BY <1>3, SupersedesStaySole
<1>4. CASE ImportStep
  BY <1>4, ImportTypes, ImportsStayWhole, OthersStaySole
<1>5. CASE ResolveStep
  BY <1>5, ResolveTypes, OthersStaySole DEF IntakeInv
<1>6. CASE TargetMoves \/ \E n \in Numbers : UserEdits(n)
  BY <1>6, OutsideTypes, OthersStaySole DEF IntakeInv, worktree
<1>7. CASE UNCHANGED intakeVars
  BY <1>7, OthersStaySole DEF intakeVars, remote, worktree, IntakeInv
<1> QED
  BY <1>1, <1>2, <1>3, <1>4, <1>5, <1>6, <1>7 DEF IntakeNext, AuthorCommands, ImportStep, ResolveStep

LEMMA SoleIsOne == IntakeInv => OneTask
<1> SUFFICES ASSUME IntakeInv, ~raced PROVE Len(issues) <= 1 /\ \A n \in Numbers : Cardinality(Active(n)) <= 1
  BY DEF OneTask, IntakeInv
<1>1. Len(issues) <= 1
  BY DEF IntakeInv, Sole
<1>2. ASSUME NEW n \in Numbers PROVE Cardinality(Active(n)) <= 1
  <2>1. \A i, j \in Active(n) : i = j
    BY DEF IntakeInv, Sole, Active, ActiveIn
  <2>2. CASE Active(n) = {}
    <3>1. Cardinality(Active(n)) = 0
      BY <2>2, FS_EmptySet, Zenon
    <3> QED
      BY <3>1
  <2>3. CASE Active(n) # {}
    <3>1. PICK i : i \in Active(n)
      BY <2>3
    <3>2. Active(n) = {i}
      BY <2>1, <3>1
    <3>3. Cardinality(Active(n)) = 1
      BY <3>2, FS_Singleton, Zenon
    <3> QED
      BY <3>3
  <2> QED
    BY <2>2, <2>3
<1> QED
  BY <1>1, <1>2

\* OneTask, for any number of authors: one Issue and one active package per Issue unless two
\* authors raced, and a task state that stands for a complete contract.
THEOREM TasksAreSingle == IntakeSpec => []OneTask
<1>1. IntakeSpec => [](IntakeTypes /\ IntakeInv)
  BY IntakeStarts, IntakeStartsSole, IntakeStepTypes, IntakeStepStaysSole, PTL DEF IntakeSpec
<1> QED
  BY <1>1, SoleIsOne, PTL

\* A note is there before the Issue is closed, whatever is killed and who closes or deletes Issues.
LEMMA ExplainedStep == IntakeTypes /\ ExplainedSoFar /\ [IntakeNext]_intakeVars => ExplainedSoFar'
<1> SUFFICES ASSUME IntakeTypes, ExplainedSoFar, [IntakeNext]_intakeVars PROVE ExplainedSoFar'
  OBVIOUS
<1>1. ASSUME UNCHANGED <<linked, resolver>> PROVE ExplainedSoFar'
  BY <1>1 DEF ExplainedSoFar
<1>2. CASE \E a \in Authors : AuthorCommands(a)
  <2>1. UNCHANGED <<linked, resolver>>
    BY <1>2 DEF AuthorCommands, BeginCreate, ListIssues, RepairLabels, FetchIssue, ReadPackages, PostPackage,
                VerifyPublished, EndCreate, ReadPredecessor, PatchPredecessor, AuthorStops, delivery
  <2> QED
    BY <1>1, <2>1
<1>3. CASE \/ \E a \in Authors, labelled \in BOOLEAN : CreateIssue(a, labelled)
           \/ \E a \in Authors, n \in Numbers : BeginSupersede(a, n)
           \/ TargetMoves \/ \E n \in Numbers : UserEdits(n)
  BY <1>1, <1>3 DEF CreateIssue, BeginSupersede, TargetMoves, UserEdits, delivery
<1>4. CASE ImportStep
  BY <1>1, <1>4, ImportTypes
<1>5. CASE ResolveStep
  BY <1>5, ResolveTypes
<1>6. CASE UNCHANGED intakeVars
  BY <1>1, <1>6 DEF intakeVars, delivery
<1> QED
  BY <1>2, <1>3, <1>4, <1>5, <1>6 DEF IntakeNext, AuthorCommands, ImportStep, ResolveStep

\* ClosedIsExplained, for any evidence: the note is there before the platform closes.
THEOREM ClosingsAreExplained == IntakeSpec => []ClosedIsExplained
<1>1. IntakeInit => ExplainedSoFar
  BY DEF IntakeInit, ExplainedSoFar, NoResolution, Unlinked
<1>2. IntakeSpec => [](IntakeTypes /\ ExplainedSoFar)
  BY <1>1, IntakeStarts, IntakeStepTypes, ExplainedStep, PTL DEF IntakeSpec
<1>3. ExplainedSoFar => ClosedIsExplained
  BY DEF ExplainedSoFar, ClosedIsExplained
<1> QED
  BY <1>2, <1>3, PTL

-----------------------------------------------------------------------------
(* The routing record: types. *)

Edited == [n : Nat, by : {"codex", "claude", "supervisor", "unplanned", "late"}]
DelegationRecord ==
    [state : {"none", "open", "closed"}, by : {"none", "codex", "native", "sandbox"},
     outcome : {"none", "not-launched", "completed", "failed", "abnormal", "rejected", "no-change", "abandoned"},
     post : SUBSET Edited, at : Nat, recovered : Nat]
ExecutionRecord ==
    [outcome : {"none", "completed", "failed", "abnormal", "rejected", "no-change", "claimed", "retained"},
     launched : BOOLEAN, released : BOOLEAN, violation : BOOLEAN, recovered : Nat]
RoutingRecord ==
    [provider : {"none", "codex", "claude"}, profile : {"none", "standard", "complex"},
     mode : {"none", "delegated", "retained"},
     policy : {"none", "complex-parent", "balanced-parent", "owner-approved"},
     pre : SUBSET Edited, head : Nat, dirt : Nat,
     delegation : DelegationRecord, execution : ExecutionRecord, escalated : BOOLEAN, retry : BOOLEAN]
DispatchRecord ==
    [by : {"none", "codex", "sandbox"}, stage : {"none", "checked", "spawned", "open"}, plan : RoutingRecord,
     head : Nat, dirt : Nat, patch : BOOLEAN]

RoutingTypes ==
    /\ route \in RoutingRecord /\ reader \in RoutingRecord
    /\ content \in SUBSET Edited /\ edits \in Nat
    /\ moves \in Seq({"receipted", "bare", "commit", "child"}) /\ dirt \in Nat
    /\ run \in DispatchRecord /\ child \in {"none", "codex", "native", "sandbox"}

LEMMA NoRoutes ==
    /\ NoDelegation \in DelegationRecord /\ NoExecution \in ExecutionRecord
    /\ NoRoute \in RoutingRecord /\ Idle \in DispatchRecord
<1>1. NoDelegation \in DelegationRecord /\ NoExecution \in ExecutionRecord
  BY DEF NoDelegation, DelegationRecord, NoExecution, ExecutionRecord
<1>2. NoRoute \in RoutingRecord
  BY <1>1 DEF NoRoute, RoutingRecord
<1> QED
  BY <1>1, <1>2 DEF Idle, DispatchRecord

\* A record with another delegation and another execution.
Amended(r, d, x) == [r EXCEPT !.delegation = d, !.execution = x]

LEMMA AmendedFacts ==
    ASSUME NEW r \in RoutingRecord, NEW d \in DelegationRecord, NEW x \in ExecutionRecord, NEW q, q = Amended(r, d, x)
    PROVE  /\ q \in RoutingRecord /\ q.delegation = d /\ q.execution = x
           /\ q.provider = r.provider /\ q.mode = r.mode /\ q.policy = r.policy /\ q.pre = r.pre /\ q.retry = r.retry
  BY DEF Amended, RoutingRecord

\* Every write of a delegation or an execution, as an amendment.
LEMMA ClosedFacts ==
    ASSUME RoutingTypes, NEW outcome \in {"not-launched", "completed", "failed", "abnormal", "rejected", "no-change"},
           NEW c \in SUBSET Edited
    PROVE  /\ Closed(outcome, c) \in DelegationRecord
           /\ Closed(outcome, c).state = "closed" /\ Closed(outcome, c).by = run.by
           /\ Closed(outcome, c).outcome = outcome /\ Closed(outcome, c).post = c
<1>1. run.plan.delegation \in DelegationRecord /\ run.by \in {"none", "codex", "sandbox"}
  BY DEF RoutingTypes, DispatchRecord, RoutingRecord
<1> QED
  BY <1>1 DEF Closed, DelegationRecord

LEMMA OpenedFacts ==
    ASSUME RoutingTypes
    PROVE  /\ Opened \in DelegationRecord /\ Opened.state = "open" /\ Opened.by = run.by /\ Opened.outcome = "none"
           /\ Opened.post = {}
<1>1. run.by \in {"none", "codex", "sandbox"} /\ MainHead \in Nat
  BY DEF RoutingTypes, DispatchRecord, MainHead
<1> QED
  BY <1>1 DEF Opened, NoDelegation, DelegationRecord

-----------------------------------------------------------------------------
(* The routing record: the invariant. *)

FreeOf(c) == \A e \in c : e.by # "unplanned"
Codex(c) == \E e \in c : e.by = "codex"

Sound(r) ==
    /\ FreeOf(r.pre) /\ FreeOf(r.delegation.post)
    /\ r.delegation.state = "open" => r.delegation.outcome = "none"
    /\ r.policy = "owner-approved" => r.mode = "retained" /\ r.execution.outcome = "retained"
    /\ r # NoRoute => r.mode \in {"delegated", "retained"}

\* A record that may stand beside unplanned content.
Bare(r) == r.policy = "owner-approved" \/ (r.mode # "retained" /\ ~HasRealDelegation(r) /\ ~Abandoned(r))

CodexOpen(r) ==
    /\ r.provider = "codex" /\ r.mode = "delegated" /\ r.execution = NoExecution
    /\ r.delegation.state = "open" /\ r.delegation.by = "codex" /\ r.delegation.outcome = "none"
CodexStarts == run.stage = "spawned" /\ run.by = "codex"
Attributed(r) == r.retry \/ r.delegation.by = "codex" \/ CodexStarts

DispatchInv ==
    /\ run # Idle =>
          /\ run.by \in {"codex", "sandbox"} /\ run.stage \in {"checked", "spawned", "open"}
          /\ run.by = "codex" => run.plan.provider = "codex"
          /\ run.plan.mode = "delegated" /\ run.plan.execution = NoExecution
          /\ child = "codex" => run.by = "codex" /\ run.stage \in {"spawned", "open"}
    /\ archived => run = Idle

PlanInv ==
    ~stale => /\ Sound(route) /\ Sound(run.plan)
              /\ run # Idle => FreeOf(content)
              /\ ~FreeOf(content) => Bare(route)

CodexInv ==
    ~stale /\ ~lost => /\ child = "codex" => CodexStarts \/ CodexOpen(route)
                       /\ Codex(content) => Attributed(route)
                       /\ run # Idle /\ Codex(content) => run.plan.retry \/ run.by = "codex"

RoutingInv == DispatchInv /\ PlanInv /\ CodexInv

LEMMA RoutingStarts == RoutingInit => RoutingTypes /\ RoutingInv
<1> SUFFICES ASSUME RoutingInit PROVE RoutingTypes /\ RoutingInv
  OBVIOUS
<1>1. RoutingTypes
  BY NoRoutes DEF RoutingInit, RoutingTypes
<1>2. NoRoute.pre = {} /\ NoRoute.delegation.post = {} /\ NoRoute.policy = "none" /\ NoRoute.delegation.state = "none"
  BY DEF NoRoute, NoDelegation
<1>3. Idle.plan = NoRoute /\ content = {} /\ route = NoRoute /\ run = Idle /\ child = "none" /\ ~archived
  BY DEF RoutingInit, Idle
<1>4. Sound(NoRoute) /\ FreeOf(content) /\ ~Codex(content)
  BY <1>2, <1>3 DEF Sound, FreeOf, Codex
<1> QED
  BY <1>1, <1>3, <1>4 DEF RoutingInv, DispatchInv, PlanInv, CodexInv

\* A command of the supervisor that replaces the record.
LEMMA Rerouted ==
    ASSUME RoutingTypes, RoutingInv, NEW q \in RoutingRecord, route' = q, ~archived,
           UNCHANGED <<reader, stale, content, moves, dirt, run, child, archived, edits, lost>>,
           ~stale => Sound(q) /\ (~FreeOf(content) => Bare(q)),
           ~stale /\ ~lost => /\ child = "codex" => CodexStarts \/ CodexOpen(q)
                              /\ Codex(content) => Attributed(q)
    PROVE  RoutingTypes' /\ RoutingInv'
<1>1. RoutingTypes'
  BY DEF RoutingTypes
<1>2. DispatchInv'
  BY DEF RoutingInv, DispatchInv
<1>3. PlanInv'
  BY DEF RoutingInv, PlanInv
<1>4. CodexInv'
  BY DEF RoutingInv, CodexInv, CodexStarts, Attributed
<1> QED
  BY <1>1, <1>2, <1>3, <1>4 DEF RoutingInv

\* A dispatch that ends and closes its delegation over content that keeps its kind.
LEMMA Ended ==
    ASSUME RoutingTypes, RoutingInv, run # Idle, run' = Idle, child # "codex", child' = child,
           NEW c \in SUBSET Edited, content' = c, NEW n \in Nat, edits' = n,
           NEW d \in DelegationRecord, d.state = "closed", d.by = run.by, d.post = c,
           NEW x \in ExecutionRecord, route' = Amended(run.plan, d, x),
           UNCHANGED <<reader, stale, moves, dirt, archived, lost>>,
           FreeOf(content) => FreeOf(c), Codex(c) => Codex(content)
    PROVE  RoutingTypes' /\ RoutingInv'
<1> DEFINE q == Amended(run.plan, d, x)
<1>1. run.plan \in RoutingRecord
  BY DEF RoutingTypes, DispatchRecord
<1>2. PICK z : z = q
  OBVIOUS
<1>3. /\ z \in RoutingRecord /\ z.delegation = d /\ z.execution = x /\ z.mode = run.plan.mode
      /\ z.policy = run.plan.policy /\ z.pre = run.plan.pre /\ z.retry = run.plan.retry
  BY <1>1, <1>2, AmendedFacts
<1>4. run.plan.mode = "delegated" /\ ~archived
  BY DEF RoutingInv, DispatchInv
<1>5. RoutingTypes'
  BY <1>2, <1>3, NoRoutes DEF RoutingTypes
<1>6. DispatchInv'
  BY <1>4 DEF DispatchInv
<1>7. Idle.plan = NoRoute /\ Idle.stage = "none"
  BY DEF Idle
<1>8. PlanInv'
  <2>1. ASSUME ~stale PROVE Sound(z) /\ FreeOf(c)
    <3>1. Sound(run.plan) /\ FreeOf(content)
      BY <2>1 DEF RoutingInv, PlanInv
    <3> QED
      BY <1>3, <1>4, <3>1 DEF Sound
  <2>2. Sound(NoRoute)
    BY DEF Sound, NoRoute, NoDelegation, FreeOf
  <2> QED
    BY <1>2, <1>4, <1>7, <2>1, <2>2 DEF PlanInv
<1>9. CodexInv'
  <2>1. ASSUME ~stale, ~lost, Codex(c) PROVE z.retry \/ z.delegation.by = "codex"
    <3>1. run.plan.retry \/ run.by = "codex"
      BY <2>1 DEF RoutingInv, CodexInv
    <3> QED
      BY <1>3, <3>1
  <2> QED
    BY <1>2, <2>1 DEF CodexInv, Attributed
<1> QED
  BY <1>5, <1>6, <1>8, <1>9 DEF RoutingInv

-----------------------------------------------------------------------------
(* The routing record: the commands of the supervisor. *)

LEMMA PrepareStays ==
    ASSUME RoutingTypes, RoutingInv, NEW p \in {"codex", "claude"}, NEW profile \in {"standard", "complex"},
           NEW delegate \in BOOLEAN, Prepare(p, profile, delegate)
    PROVE  RoutingTypes' /\ RoutingInv'
<1> DEFINE retry == route # NoRoute /\ Attributable(route, content)
           policy == Policy(profile, delegate)
           mode == IF policy = "none" THEN "delegated" ELSE "retained"
<1>1. PICK q : q = NewRoute(p, profile, delegate, retry)
  OBVIOUS
<1>2. /\ ~archived /\ (content # {} => retry) /\ (route # NoRoute => RecoverySafe(route)) /\ route' = q
      /\ UNCHANGED <<reader, stale, content, moves, dirt, run, child, archived, edits, lost>>
  BY <1>1 DEF Prepare, Write, mainVars, archiveVars
<1>3. policy \in {"none", "complex-parent", "balanced-parent"} /\ retry \in BOOLEAN /\ mode \in {"delegated", "retained"}
  BY DEF Policy
<1>4. /\ content \in SUBSET Edited /\ MainHead \in Nat /\ dirt \in Nat
  BY DEF RoutingTypes, MainHead
<1>5. q = [provider |-> p, profile |-> profile, mode |-> mode, policy |-> policy, pre |-> content, head |-> MainHead,
           dirt |-> dirt, delegation |-> NoDelegation, execution |-> NoExecution, escalated |-> FALSE, retry |-> retry]
  BY <1>1 DEF NewRoute, NoRoute
<1> HIDE DEF retry, policy, mode
<1>6. /\ q \in RoutingRecord /\ q.delegation = NoDelegation /\ q.pre = content /\ q.policy = policy /\ q.mode = mode
      /\ q.retry = retry
  BY <1>3, <1>4, <1>5, NoRoutes DEF RoutingRecord
<1>7. ASSUME ~stale PROVE FreeOf(content)
  <2>1. content # {} => route.delegation.post = content
    BY <1>2 DEF Attributable, retry
  <2>2. FreeOf(route.delegation.post)
    BY <1>7 DEF RoutingInv, PlanInv, Sound
  <2> QED
    BY <2>1, <2>2 DEF FreeOf
<1>8. ~stale => Sound(q)
  BY <1>3, <1>6, <1>7 DEF Sound, NoDelegation, FreeOf
<1>9. ASSUME ~stale, ~lost, child = "codex" PROVE CodexStarts
  <2>1. CodexStarts \/ CodexOpen(route)
    BY <1>9 DEF RoutingInv, CodexInv
  <2>2. route # NoRoute => ~CodexOpen(route)
    BY <1>2 DEF RecoverySafe, CodexOpen, OpenCodex
  <2>3. ~CodexOpen(NoRoute)
    BY DEF CodexOpen, NoRoute
  <2> QED
    BY <2>1, <2>2, <2>3
<1>10. Codex(content) => q.retry
  BY <1>2, <1>6 DEF Codex
<1> QED
  BY <1>2, <1>6, <1>7, <1>8, <1>9, <1>10, Rerouted DEF Attributed

\* What the commands that amend an open or a closed record have in common.
LEMMA AmendStays ==
    ASSUME RoutingTypes, RoutingInv, ~archived, NEW d \in DelegationRecord, NEW x \in ExecutionRecord,
           route' = Amended(route, d, x), route.delegation.by = "codex" => d.by = "codex",
           UNCHANGED <<reader, stale, content, moves, dirt, run, child, archived, edits, lost>>,
           d.post = route.delegation.post \/ (~stale => FreeOf(d.post)),
           d.state = "open" => d.outcome = "none",
           route # NoRoute,
           ~stale /\ route.policy = "owner-approved" => x.outcome = "retained",
           ~stale /\ ~FreeOf(content) => route.policy = "owner-approved" \/ Bare(Amended(route, d, x)),
           ~stale /\ ~lost /\ child = "codex" => CodexStarts \/ CodexOpen(Amended(route, d, x))
    PROVE  RoutingTypes' /\ RoutingInv'
<1>1. PICK q : q = Amended(route, d, x)
  OBVIOUS
<1>2. /\ q \in RoutingRecord /\ q.delegation = d /\ q.execution = x /\ q.mode = route.mode
      /\ q.policy = route.policy /\ q.pre = route.pre /\ q.retry = route.retry
  BY <1>1, AmendedFacts DEF RoutingTypes
<1>3. ASSUME ~stale PROVE Sound(q) /\ (~FreeOf(content) => Bare(q))
  <2>1. Sound(route)
    BY <1>3 DEF RoutingInv, PlanInv
  <2>2. Sound(q)
    BY <1>2, <1>3, <2>1 DEF Sound
  <2> QED
    BY <1>1, <1>2, <1>3, <2>2 DEF Bare
<1>4. ASSUME ~stale, ~lost PROVE Codex(content) => Attributed(q)
  BY <1>2, <1>4 DEF RoutingInv, CodexInv, Attributed
<1> QED
  BY <1>1, <1>2, <1>3, <1>4, Rerouted

LEMMA HalfAmended ==
    ASSUME NEW r \in RoutingRecord, NEW d, NEW x
    PROVE  /\ [r EXCEPT !.delegation = d] = Amended(r, d, r.execution)
           /\ [r EXCEPT !.execution = x] = Amended(r, r.delegation, x)
  BY DEF Amended, RoutingRecord

LEMMA ClaudeStays ==
    ASSUME RoutingTypes, RoutingInv, BeginClaude \/ RecordClaude \/ RecoverClaude
    PROVE  RoutingTypes' /\ RoutingInv'
<1> DEFINE old == route.delegation
           done == route.execution
<1>1. /\ route \in RoutingRecord /\ old \in DelegationRecord /\ done \in ExecutionRecord /\ MainHead \in Nat
      /\ content \in SUBSET Edited /\ NoExecution \in ExecutionRecord
  BY NoRoutes DEF RoutingTypes, RoutingRecord, MainHead
<1>2. route.provider = "claude" => ~CodexOpen(route) /\ route # NoRoute
  BY DEF CodexOpen, NoRoute
<1>3. ~stale /\ ~lost /\ route.provider = "claude" /\ child = "codex" => CodexStarts
  BY <1>2 DEF RoutingInv, CodexInv
<1>4. ~stale => Sound(route) /\ (~FreeOf(content) => Bare(route))
  BY DEF RoutingInv, PlanInv
<1>5. CASE BeginClaude
  <2>1. PICK d : d = [NoDelegation EXCEPT !.state = "open", !.by = "native", !.at = MainHead]
    OBVIOUS
  <2>2. d \in DelegationRecord /\ d.post = {} /\ d.outcome = "none"
    BY <1>1, <2>1 DEF NoDelegation, DelegationRecord
  <2>3. /\ ~archived /\ route.provider = "claude" /\ old = NoDelegation /\ ~Diverged(route) /\ route.mode = "delegated"
        /\ route' = Amended(route, d, done)
        /\ UNCHANGED <<reader, stale, content, moves, dirt, run, child, archived, edits, lost>>
    BY <1>1, <1>5, <2>1, HalfAmended DEF BeginClaude, Write, mainVars, archiveVars, ghostVars
  <2>4. ~stale => FreeOf(content)
    BY <1>4, <2>3 DEF Sound, Diverged
  <2>5. old.by # "codex" /\ (~stale => route.policy # "owner-approved")
    BY <1>4, <2>3 DEF NoDelegation, Sound
  <2> QED
    BY <1>1, <1>2, <1>3, <2>2, <2>3, <2>4, <2>5, AmendStays DEF FreeOf
<1>6. CASE RecordClaude
  <2>1. PICK d : d = [old EXCEPT !.state = "closed", !.post = content]
    OBVIOUS
  <2>2. PICK x : x = [NoExecution EXCEPT !.outcome = "claimed"]
    OBVIOUS
  <2>3. d \in DelegationRecord /\ d.post = content /\ d.state = "closed" /\ d.by = old.by
    BY <1>1, <2>1 DEF DelegationRecord
  <2>4. x \in ExecutionRecord
    BY <2>2 DEF NoExecution, ExecutionRecord
  <2>5. /\ ~archived /\ Recording /\ route' = Amended(route, d, x)
        /\ UNCHANGED <<reader, stale, content, moves, dirt, run, child, archived, edits, lost>>
    BY <1>1, <1>6, <2>1, <2>2 DEF RecordClaude, Persist, Write, mainVars, archiveVars, ghostVars, Amended
  <2>6. route.mode = "delegated" /\ route.provider = "claude" /\ old.state = "open"
    BY <2>5 DEF Recording
  <2>7. ASSUME ~stale PROVE FreeOf(content) /\ route.policy # "owner-approved"
    <3>1. Sound(route) /\ (~FreeOf(content) => Bare(route))
      BY <1>4, <2>7
    <3>2. route.policy # "owner-approved" /\ old.outcome = "none"
      BY <2>6, <3>1 DEF Sound
    <3>3. HasRealDelegation(route)
      BY <2>6, <3>2 DEF HasRealDelegation
    <3> QED
      BY <3>1, <3>2, <3>3 DEF Bare
  <2> QED
    BY <1>1, <1>2, <1>3, <2>3, <2>4, <2>5, <2>6, <2>7, AmendStays
<1>7. CASE RecoverClaude
  <2>1. PICK d : d = [old EXCEPT !.recovered = MainHead]
    OBVIOUS
  <2>2. d \in DelegationRecord /\ d.post = old.post /\ d.state = old.state /\ d.by = old.by /\ d.outcome = old.outcome
    BY <1>1, <2>1 DEF DelegationRecord
  <2>3. /\ ~archived /\ Recording /\ route' = [route EXCEPT !.delegation = d]
        /\ UNCHANGED <<reader, stale, content, moves, dirt, run, child, archived, edits, lost>>
    BY <1>1, <1>7, <2>1 DEF RecoverClaude, Write, mainVars, archiveVars, ghostVars
  <2>4. route.mode = "delegated" /\ route.provider = "claude" /\ old.state = "open" /\ route' = Amended(route, d, done)
    BY <1>1, <2>3, HalfAmended DEF Recording
  <2>5. ASSUME ~stale PROVE FreeOf(content) /\ route.policy # "owner-approved" /\ old.outcome = "none"
    <3>1. Sound(route) /\ (~FreeOf(content) => Bare(route))
      BY <1>4, <2>5
    <3>2. route.policy # "owner-approved" /\ old.outcome = "none"
      BY <2>4, <3>1 DEF Sound
    <3>3. HasRealDelegation(route)
      BY <2>4, <3>2 DEF HasRealDelegation
    <3> QED
      BY <3>1, <3>2, <3>3 DEF Bare
  <2>6. CASE ~stale
    BY <1>1, <1>2, <1>3, <2>2, <2>3, <2>4, <2>5, <2>6, AmendStays
  <2>7. CASE stale
    <3>1. PICK q : q = Amended(route, d, done)
      OBVIOUS
    <3>2. q \in RoutingRecord
      BY <1>1, <2>2, <3>1, AmendedFacts
    <3> QED
      BY <2>3, <2>4, <2>7, <3>1, <3>2, Rerouted
  <2> QED
    BY <2>6, <2>7
<1> QED
  BY <1>5, <1>6, <1>7

LEMMA RecoverCodexStays == ASSUME RoutingTypes, RoutingInv, RecoverCodex PROVE RoutingTypes' /\ RoutingInv'
<1> DEFINE old == route.delegation
           done == route.execution
<1>1. /\ route \in RoutingRecord /\ old \in DelegationRecord /\ done \in ExecutionRecord /\ MainHead \in Nat
  BY DEF RoutingTypes, RoutingRecord, MainHead
<1>2. PICK x : x = [done EXCEPT !.recovered = MainHead]
  OBVIOUS
<1>3. x \in ExecutionRecord /\ x.outcome = done.outcome /\ x.launched = done.launched
  BY <1>1, <1>2 DEF ExecutionRecord
<1>4. /\ ~archived /\ route.provider = "codex" /\ done.launched /\ route' = [route EXCEPT !.execution = x]
      /\ UNCHANGED <<reader, stale, content, moves, dirt, run, child, archived, edits, lost>>
  BY <1>1, <1>2 DEF RecoverCodex, Persist, Write, mainVars, archiveVars, ghostVars
<1>5. PICK q : q = Amended(route, old, x)
  OBVIOUS
<1>6. route' = q
  BY <1>1, <1>4, <1>5, HalfAmended
<1>7. /\ q \in RoutingRecord /\ q.delegation = old /\ q.execution = x /\ q.mode = route.mode /\ q.pre = route.pre
      /\ q.policy = route.policy /\ q.retry = route.retry /\ q.provider = route.provider
  BY <1>1, <1>3, <1>5, AmendedFacts
<1>8. route # NoRoute /\ done # NoExecution
  BY <1>4 DEF NoRoute, NoExecution
<1>9. ASSUME ~stale PROVE Sound(q) /\ (~FreeOf(content) => Bare(q))
  <2>1. Sound(route) /\ (~FreeOf(content) => Bare(route))
    BY <1>9 DEF RoutingInv, PlanInv
  <2>2. Sound(q)
    BY <1>3, <1>7, <1>8, <2>1 DEF Sound
  <2>3. HasRealDelegation(q) <=> HasRealDelegation(route)
    BY <1>3, <1>7 DEF HasRealDelegation, LaunchConfirmed
  <2> QED
    BY <1>7, <2>1, <2>2, <2>3 DEF Bare, Abandoned
<1>10. ASSUME ~stale, ~lost
       PROVE  (child = "codex" => CodexStarts) /\ (Codex(content) => Attributed(q))
  BY <1>7, <1>8, <1>10 DEF RoutingInv, CodexInv, CodexOpen, Attributed
<1> QED
  BY <1>4, <1>6, <1>7, <1>9, <1>10, Rerouted

LEMMA EscalateStays == ASSUME RoutingTypes, RoutingInv, Escalate PROVE RoutingTypes' /\ RoutingInv'
<1>1. route \in RoutingRecord /\ route.mode \in {"none", "delegated", "retained"}
  BY DEF RoutingTypes, RoutingRecord
<1>2. PICK esc \in BOOLEAN : esc = (route.mode = "delegated")
  OBVIOUS
<1>3. PICK q : q = [route EXCEPT !.profile = "complex", !.mode = "retained", !.policy = "complex-parent",
                                 !.escalated = esc]
  OBVIOUS
<1>4. /\ q \in RoutingRecord /\ q.mode = "retained" /\ q.policy = "complex-parent" /\ q.pre = route.pre
      /\ q.delegation = route.delegation /\ q.retry = route.retry
  BY <1>1, <1>3 DEF RoutingRecord
<1>5. /\ ~archived /\ route # NoRoute /\ route.policy # "owner-approved" /\ RecoverySafe(route) /\ route' = q
      /\ route.mode = "delegated" /\ ~HasRealDelegation(route) /\ ~Abandoned(route) => ~Diverged(route)
      /\ UNCHANGED <<reader, stale, content, moves, dirt, run, child, archived, edits, lost>>
  BY <1>2, <1>3 DEF Escalate, Write, mainVars, archiveVars, ghostVars
<1>6. ~CodexOpen(route)
  BY <1>5 DEF RecoverySafe, CodexOpen, OpenCodex
<1>7. ASSUME ~stale PROVE FreeOf(content) /\ Sound(q)
  <2>1. Sound(route) /\ (~FreeOf(content) => Bare(route))
    BY <1>7 DEF RoutingInv, PlanInv
  <2>2. FreeOf(content)
    BY <1>5, <2>1 DEF Sound, Bare, Diverged
  <2> QED
    BY <1>4, <2>1, <2>2 DEF Sound
<1>8. ASSUME ~stale, ~lost PROVE (child = "codex" => CodexStarts) /\ (Codex(content) => Attributed(q))
  BY <1>4, <1>6, <1>8 DEF RoutingInv, CodexInv, Attributed
<1> QED
  BY <1>4, <1>5, <1>7, <1>8, Rerouted

LEMMA CloseAbandonedStays == ASSUME RoutingTypes, RoutingInv, CloseAbandoned PROVE RoutingTypes' /\ RoutingInv'
<1> DEFINE old == route.delegation
           done == route.execution
<1>1. /\ route \in RoutingRecord /\ old \in DelegationRecord /\ done \in ExecutionRecord /\ content \in SUBSET Edited
  BY DEF RoutingTypes, RoutingRecord
<1>2. PICK d : d = [old EXCEPT !.state = "closed", !.outcome = "abandoned", !.post = content]
  OBVIOUS
<1>3. d \in DelegationRecord /\ d.state = "closed" /\ d.by = old.by /\ d.post = content
  BY <1>1, <1>2 DEF DelegationRecord
<1>4. /\ ~archived /\ OpenCodex(route) /\ done = NoExecution /\ child # "codex" /\ route' = [route EXCEPT !.delegation = d]
      /\ UNCHANGED <<reader, stale, content, moves, dirt, run, child, archived, edits, lost>>
  BY <1>1, <1>2 DEF CloseAbandoned, Write, mainVars, archiveVars, ghostVars
<1>a. route # NoRoute /\ old.state = "open"
  BY <1>4 DEF OpenCodex, NoRoute
<1>b. [route EXCEPT !.delegation = d] = Amended(route, d, done)
  BY <1>1, HalfAmended
<1>5. route' = Amended(route, d, done) /\ route # NoRoute /\ old.state = "open"
  BY <1>4, <1>a, <1>b
<1>6. ASSUME ~stale PROVE FreeOf(content) /\ route.policy # "owner-approved"
  <2>1. Sound(route) /\ (~FreeOf(content) => Bare(route))
    BY <1>6 DEF RoutingInv, PlanInv
  <2>2. route.policy # "owner-approved" /\ old.outcome = "none"
    BY <1>4, <1>5, <2>1 DEF Sound, NoExecution
  <2>3. HasRealDelegation(route)
    BY <1>5, <2>2 DEF HasRealDelegation
  <2> QED
    BY <2>1, <2>2, <2>3 DEF Bare
<1> QED
  BY <1>1, <1>3, <1>4, <1>5, <1>6, AmendStays

\* The supervisor takes the content over: with the owner's approval, or by a retained plan.
LEMMA RetainStays == ASSUME RoutingTypes, RoutingInv, ApproveDiff \/ RecordRetained PROVE RoutingTypes' /\ RoutingInv'
<1>1. route \in RoutingRecord /\ NoExecution \in ExecutionRecord
  BY NoRoutes DEF RoutingTypes
<1>2. PICK x : x = [NoExecution EXCEPT !.outcome = "retained"]
  OBVIOUS
<1>3. x \in ExecutionRecord /\ x.outcome = "retained"
  BY <1>2 DEF NoExecution, ExecutionRecord
<1>4. CASE ApproveDiff
  <2>1. PICK q : q = [route EXCEPT !.mode = "retained", !.policy = "owner-approved", !.execution = x]
    OBVIOUS
  <2>2. /\ q \in RoutingRecord /\ q.mode = "retained" /\ q.policy = "owner-approved" /\ q.pre = route.pre
        /\ q.delegation = route.delegation /\ q.retry = route.retry /\ q.execution = x
    BY <1>1, <1>3, <2>1 DEF RoutingRecord
  <2>3. /\ ~archived /\ route.mode = "delegated" /\ ~HasRealDelegation(route) /\ route' = q
        /\ UNCHANGED <<reader, stale, content, moves, dirt, run, child, archived, edits, lost>>
    BY <1>2, <1>4, <2>1 DEF ApproveDiff, Persist, Write, mainVars, archiveVars, ghostVars, Retained
  <2>4. ~CodexOpen(route)
    BY <2>3 DEF CodexOpen, HasRealDelegation
  <2>5. ~stale => Sound(q) /\ Bare(q)
    BY <1>3, <2>2, <2>3 DEF RoutingInv, PlanInv, Sound, Bare
  <2>6. ASSUME ~stale, ~lost PROVE (child = "codex" => CodexStarts) /\ (Codex(content) => Attributed(q))
    BY <2>2, <2>4, <2>6 DEF RoutingInv, CodexInv, Attributed
  <2> QED
    BY <2>2, <2>3, <2>5, <2>6, Rerouted
<1>5. CASE RecordRetained
  <2>1. PICK q : q = [route EXCEPT !.execution = x]
    OBVIOUS
  <2>2. /\ q \in RoutingRecord /\ q.mode = route.mode /\ q.policy = route.policy /\ q.pre = route.pre
        /\ q.delegation = route.delegation /\ q.retry = route.retry /\ q.execution = x
    BY <1>1, <1>3, <2>1 DEF RoutingRecord
  <2>3. /\ ~archived /\ route.mode = "retained" /\ route' = q
        /\ UNCHANGED <<reader, stale, content, moves, dirt, run, child, archived, edits, lost>>
    BY <1>2, <1>5, <2>1 DEF RecordRetained, Persist, Write, mainVars, archiveVars, ghostVars, Retained
  <2>4. ~CodexOpen(route) /\ route # NoRoute
    BY <2>3 DEF CodexOpen, NoRoute
  <2>5. ~stale => Sound(q) /\ (~FreeOf(content) => Bare(q))
    BY <1>3, <2>2, <2>3, <2>4 DEF RoutingInv, PlanInv, Sound, Bare
  <2>6. ASSUME ~stale, ~lost PROVE (child = "codex" => CodexStarts) /\ (Codex(content) => Attributed(q))
    BY <2>2, <2>4, <2>6 DEF RoutingInv, CodexInv, Attributed
  <2> QED
    BY <2>2, <2>3, <2>5, <2>6, Rerouted
<1> QED
  BY <1>4, <1>5

-----------------------------------------------------------------------------
(* The routing record: dispatches. *)

LEMMA DispatchStays ==
    ASSUME RoutingTypes, RoutingInv, NEW by \in {"codex", "sandbox"}, Dispatch(by)
    PROVE  RoutingTypes' /\ RoutingInv'
<1>1. PICK r : r = [Idle EXCEPT !.by = by, !.stage = "checked", !.plan = route, !.head = MainHead, !.dirt = dirt]
  OBVIOUS
<1>2. r = [by |-> by, stage |-> "checked", plan |-> route, head |-> MainHead, dirt |-> dirt, patch |-> FALSE]
  BY <1>1 DEF Idle
<1>3. r \in DispatchRecord
  BY <1>2 DEF RoutingTypes, DispatchRecord, MainHead
<1>4. /\ ~archived /\ run = Idle /\ child = "none" /\ route.mode = "delegated" /\ route.execution = NoExecution
      /\ (by = "codex" => route.provider = "codex") /\ route.delegation = NoDelegation /\ content = route.pre
      /\ run' = r /\ UNCHANGED <<route, reader, stale, content, moves, dirt, child, archived, edits, lost>>
  BY <1>1 DEF Dispatch, routeVars, mainVars, archiveVars, ghostVars, Diverged
<1>5. r.by = by /\ r.stage = "checked" /\ r.plan = route
  BY <1>2
<1>6. RoutingTypes'
  BY <1>3, <1>4 DEF RoutingTypes
<1>7. DispatchInv'
  BY <1>4, <1>5 DEF DispatchInv
<1>8. PlanInv'
  BY <1>4, <1>5 DEF RoutingInv, PlanInv, Sound
<1>9. CodexInv'
  <2>1. ~CodexStarts /\ NoDelegation.by = "none"
    BY <1>4 DEF CodexStarts, Idle, NoDelegation
  <2> QED
    BY <1>4, <1>5, <2>1 DEF RoutingInv, CodexInv, Attributed
<1> QED
  BY <1>6, <1>7, <1>8, <1>9 DEF RoutingInv

LEMMA SpawnStays == ASSUME RoutingTypes, RoutingInv, Spawn PROVE RoutingTypes' /\ RoutingInv'
<1>1. PICK r : r = [run EXCEPT !.stage = "spawned"]
  OBVIOUS
<1>2. run.stage = "checked" /\ run # Idle
  BY DEF Spawn, Idle
<1>3. r \in DispatchRecord /\ r.stage = "spawned" /\ r.by = run.by /\ r.plan = run.plan /\ run.by \in {"codex", "sandbox"}
  BY <1>1, <1>2 DEF RoutingTypes, DispatchRecord, RoutingInv, DispatchInv
<1>4. /\ run' = r /\ child' = run.by
      /\ UNCHANGED <<route, reader, stale, content, moves, dirt, archived, edits, lost>>
  BY <1>1 DEF Spawn, routeVars, mainVars, archiveVars, ghostVars
<1>5. RoutingTypes'
  BY <1>3, <1>4 DEF RoutingTypes
<1>6. DispatchInv'
  BY <1>2, <1>3, <1>4 DEF RoutingInv, DispatchInv
<1>7. PlanInv'
  BY <1>2, <1>3, <1>4 DEF RoutingInv, PlanInv
<1>8. CodexInv'
  BY <1>2, <1>3, <1>4 DEF RoutingInv, CodexInv, Attributed, CodexStarts
<1> QED
  BY <1>5, <1>6, <1>7, <1>8 DEF RoutingInv

LEMMA ConfirmStays == ASSUME RoutingTypes, RoutingInv, ConfirmLaunch PROVE RoutingTypes' /\ RoutingInv'
<1>1. run.stage = "spawned" /\ run # Idle /\ run.plan \in RoutingRecord /\ run \in DispatchRecord
  BY DEF ConfirmLaunch, Idle, RoutingTypes, DispatchRecord
<1>2. PICK d : d = Opened
  OBVIOUS
<1>3. d \in DelegationRecord /\ d.state = "open" /\ d.by = run.by /\ d.outcome = "none" /\ d.post = {}
  BY <1>2, OpenedFacts
<1>4. PICK q : q = [run.plan EXCEPT !.delegation = d]
  OBVIOUS
<1>5. q = Amended(run.plan, d, run.plan.execution) /\ run.plan.execution \in ExecutionRecord
  BY <1>1, <1>4, HalfAmended DEF RoutingRecord
<1>6. /\ q \in RoutingRecord /\ q.delegation = d /\ q.execution = run.plan.execution /\ q.mode = run.plan.mode
      /\ q.policy = run.plan.policy /\ q.pre = run.plan.pre /\ q.retry = run.plan.retry /\ q.provider = run.plan.provider
  BY <1>1, <1>3, <1>5, AmendedFacts
<1>7. PICK r : r = [run EXCEPT !.stage = "open", !.plan = q]
  OBVIOUS
<1>8. r \in DispatchRecord /\ r.stage = "open" /\ r.by = run.by /\ r.plan = q
  BY <1>1, <1>6, <1>7 DEF DispatchRecord
<1>9. /\ route' = q /\ run' = r
      /\ UNCHANGED <<reader, stale, content, moves, dirt, child, archived, edits, lost>>
  BY <1>1, <1>2, <1>4, <1>7 DEF ConfirmLaunch, Write, mainVars, archiveVars, ghostVars
<1>10. /\ run.by \in {"codex", "sandbox"} /\ (run.by = "codex" => run.plan.provider = "codex") /\ ~archived
       /\ run.plan.mode = "delegated" /\ run.plan.execution = NoExecution /\ (child = "codex" => run.by = "codex")
  BY <1>1 DEF RoutingInv, DispatchInv
<1>11. RoutingTypes'
  BY <1>6, <1>8, <1>9 DEF RoutingTypes
<1>12. DispatchInv'
  BY <1>6, <1>8, <1>9, <1>10 DEF DispatchInv
<1>13. PlanInv'
  <2>1. ASSUME ~stale PROVE Sound(q) /\ FreeOf(content)
    <3>1. Sound(run.plan) /\ FreeOf(content)
      BY <1>1, <2>1 DEF RoutingInv, PlanInv
    <3> QED
      BY <1>3, <1>6, <1>10, <3>1 DEF Sound, FreeOf
  <2> QED
    BY <1>8, <1>9, <1>10, <2>1 DEF PlanInv
<1>14. CodexInv'
  <2>1. child = "codex" => CodexOpen(q)
    BY <1>3, <1>6, <1>10 DEF CodexOpen
  <2>2. ASSUME ~stale, ~lost, Codex(content) PROVE q.retry \/ q.delegation.by = "codex"
    BY <1>1, <1>3, <1>6, <2>2 DEF RoutingInv, CodexInv
  <2> QED
    BY <1>3, <1>6, <1>8, <1>9, <2>1, <2>2 DEF CodexInv, Attributed
<1> QED
  BY <1>11, <1>12, <1>13, <1>14 DEF RoutingInv

\* The ways a dispatch ends.
LEMMA EndsStay ==
    ASSUME RoutingTypes, RoutingInv,
           \/ \E tried \in BOOLEAN : NotLaunched(tried)
           \/ \E outcome \in {"completed", "failed", "abnormal"}, released \in BOOLEAN : CodexEnds(outcome, released)
           \/ \E failed \in BOOLEAN : SandboxEnds(failed)
           \/ AbortDispatch
    PROVE  RoutingTypes' /\ RoutingInv'
<1>1. /\ run.plan \in RoutingRecord /\ run.plan.execution \in ExecutionRecord /\ content \in SUBSET Edited /\ edits \in Nat
  BY DEF RoutingTypes, DispatchRecord, RoutingRecord
<1>2. run.stage = "checked" => child # "codex"
  <2>1. Idle.stage = "none"
    BY DEF Idle
  <2> QED
    BY <2>1 DEF RoutingInv, DispatchInv
<1>3. run.stage \in {"checked", "open"} => run # Idle
  BY DEF Idle
<1>4. ASSUME NEW tried \in BOOLEAN, NotLaunched(tried)
      PROVE  RoutingTypes' /\ RoutingInv'
  <2>1. PICK d : d = Closed("not-launched", content)
    OBVIOUS
  <2>2. d \in DelegationRecord /\ d.state = "closed" /\ d.by = run.by /\ d.post = content
    BY <1>1, <2>1, ClosedFacts
  <2>3. PICK y : y = [NoExecution EXCEPT !.outcome = "abnormal", !.released = FALSE, !.violation = TRUE]
    OBVIOUS
  <2>4. y \in ExecutionRecord
    BY <2>3 DEF NoExecution, ExecutionRecord
  <2>5. /\ run.stage = "checked" /\ run' = Idle /\ child' = child /\ content' = content /\ edits' = edits
        /\ UNCHANGED <<reader, stale, moves, dirt, archived, lost>>
    BY <1>4 DEF NotLaunched, Persist, Write, mainVars, archiveVars, ghostVars
  <2>6. PICK x \in ExecutionRecord : route' = Amended(run.plan, d, x)
    <3>1. CASE tried
      <4>1. route' = [[run.plan EXCEPT !.delegation = d] EXCEPT !.execution = y]
        BY <1>4, <2>1, <2>3, <3>1 DEF NotLaunched, Persist, Write
      <4>2. route' = Amended(run.plan, d, y)
        BY <1>1, <4>1 DEF Amended, RoutingRecord
      <4> QED
        BY <2>4, <4>2
    <3>2. CASE ~tried
      <4>1. route' = [run.plan EXCEPT !.delegation = d]
        BY <1>4, <2>1, <3>2 DEF NotLaunched, Write
      <4>2. route' = Amended(run.plan, d, run.plan.execution)
        BY <1>1, <4>1, HalfAmended
      <4> QED
        BY <1>1, <4>2
    <3> QED
      BY <3>1, <3>2
  <2> QED
    BY <1>1, <1>2, <1>3, <2>2, <2>5, <2>6, Ended
<1>5. ASSUME NEW outcome \in {"completed", "failed", "abnormal"}, NEW released \in BOOLEAN, CodexEnds(outcome, released)
      PROVE  RoutingTypes' /\ RoutingInv'
  <2>1. PICK d : d = Closed(outcome, content)
    OBVIOUS
  <2>2. d \in DelegationRecord /\ d.state = "closed" /\ d.by = run.by /\ d.post = content
    BY <1>1, <2>1, ClosedFacts
  <2>3. PICK v \in BOOLEAN : v = Violated
    BY DEF Violated
  <2>4. PICK x : x = [NoExecution EXCEPT !.outcome = outcome, !.launched = TRUE, !.released = released, !.violation = v]
    OBVIOUS
  <2>5. x \in ExecutionRecord
    BY <2>4 DEF NoExecution, ExecutionRecord
  <2>6. /\ run.stage = "open" /\ run' = Idle /\ child = "none" /\ child' = child /\ content' = content /\ edits' = edits
        /\ route' = Amended(run.plan, d, x)
        /\ UNCHANGED <<reader, stale, moves, dirt, archived, lost>>
    BY <1>5, <2>1, <2>3, <2>4 DEF CodexEnds, Persist, Write, mainVars, archiveVars, ghostVars, Amended
  <2> QED
    BY <1>1, <1>3, <2>2, <2>5, <2>6, Ended
<1>6. ASSUME NEW failed \in BOOLEAN, SandboxEnds(failed)
      PROVE  RoutingTypes' /\ RoutingInv'
  <2> DEFINE lands == ~failed /\ run.patch /\ ~Diverged(run.plan)
  <2>1. PICK c : c = IF lands THEN content \cup {[n |-> edits + 1, by |-> "claude"]} ELSE content
    OBVIOUS
  <2>2. c \in SUBSET Edited /\ (FreeOf(content) => FreeOf(c)) /\ (Codex(c) => Codex(content))
    BY <1>1, <2>1 DEF Edited, FreeOf, Codex
  <2>3. PICK outcome : outcome = IF failed THEN "failed" ELSE IF lands THEN "completed" ELSE IF run.patch THEN "rejected"
                                 ELSE "no-change"
    OBVIOUS
  <2>4. outcome \in {"completed", "failed", "rejected", "no-change"}
    BY <2>3
  <2>5. PICK d : d = Closed(outcome, c)
    OBVIOUS
  <2>6. d \in DelegationRecord /\ d.state = "closed" /\ d.by = run.by /\ d.post = c
    BY <2>2, <2>4, <2>5, ClosedFacts
  <2>7. PICK x : x = [NoExecution EXCEPT !.outcome = outcome, !.launched = TRUE]
    OBVIOUS
  <2>8. x \in ExecutionRecord
    BY <2>4, <2>7 DEF NoExecution, ExecutionRecord
  <2>a. edits' = IF lands THEN edits + 1 ELSE edits
    BY <1>6 DEF SandboxEnds
  <2>b. edits' \in Nat
    <3> HIDE DEF lands
    <3> QED
      BY <1>1, <2>a
  <2>9. PICK n \in Nat : edits' = n
    BY <2>b
  <2>10. /\ run.stage = "open" /\ run' = Idle /\ child = "none" /\ child' = child /\ content' = c
         /\ route' = Amended(run.plan, d, x)
         /\ UNCHANGED <<reader, stale, moves, dirt, archived, lost>>
    BY <1>6, <2>1, <2>3, <2>5, <2>7 DEF SandboxEnds, Persist, Write, mainVars, archiveVars, Amended
  <2> QED
    BY <1>3, <2>2, <2>6, <2>8, <2>9, <2>10, Ended
<1>7. CASE AbortDispatch
  <2>1. PICK outcome : outcome = IF run.stage = "open" THEN "abnormal" ELSE "not-launched"
    OBVIOUS
  <2>2. PICK d : d = Closed(outcome, content)
    OBVIOUS
  <2>3. outcome \in {"abnormal", "not-launched"}
    BY <2>1
  <2>4. d \in DelegationRecord /\ d.state = "closed" /\ d.by = run.by /\ d.post = content
    BY <1>1, <2>2, <2>3, ClosedFacts
  <2>5. /\ run.stage \in {"checked", "open"} /\ run' = Idle /\ child = "none" /\ child' = child
        /\ content' = content /\ edits' = edits /\ route' = [run.plan EXCEPT !.delegation = d]
        /\ UNCHANGED <<reader, stale, moves, dirt, archived, lost>>
    BY <1>7, <2>1, <2>2 DEF AbortDispatch, Write, mainVars, archiveVars, ghostVars
  <2>6. route' = Amended(run.plan, d, run.plan.execution)
    BY <1>1, <2>5, HalfAmended
  <2> QED
    BY <1>1, <1>3, <2>4, <2>5, <2>6, Ended
<1> QED
  BY <1>4, <1>5, <1>6, <1>7

LEMMA KillStays ==
    ASSUME RoutingTypes, RoutingInv, NEW spare \in BOOLEAN, KillDispatch(spare)
    PROVE  RoutingTypes' /\ RoutingInv'
<1>1. /\ run # Idle /\ run' = Idle /\ child' \in {child, "none"} /\ lost' = (lost \/ run.stage = "spawned")
      /\ UNCHANGED <<route, reader, stale, content, moves, dirt, archived, edits>>
  BY DEF KillDispatch, routeVars, mainVars, archiveVars
<1>2. Idle.plan = NoRoute /\ Sound(NoRoute) /\ ~archived
  BY <1>1 DEF Idle, Sound, NoRoute, NoDelegation, FreeOf, RoutingInv, DispatchInv
<1>3. RoutingTypes'
  BY <1>1, NoRoutes DEF RoutingTypes
<1>4. DispatchInv' /\ PlanInv'
  BY <1>1, <1>2 DEF RoutingInv, DispatchInv, PlanInv
<1>5. CodexInv'
  BY <1>1 DEF RoutingInv, CodexInv, Attributed, CodexStarts
<1> QED
  BY <1>3, <1>4, <1>5 DEF RoutingInv

-----------------------------------------------------------------------------
(* The routing record: writers, workers, and everyone else. *)

LEMMA EditsStay == ASSUME RoutingTypes, RoutingInv, SupervisorEdits \/ ChildEdits PROVE RoutingTypes' /\ RoutingInv'
<1> DEFINE by == IF child = "codex" THEN "codex" ELSE "claude"
           mine == IF WriteAllowed THEN "supervisor" ELSE IF Abandoned(route) THEN "late" ELSE "unplanned"
<1>1. PICK who : IF ChildEdits THEN who = by ELSE who = mine
  <2> HIDE DEF by, mine
  <2> QED
    OBVIOUS
<1>2. /\ AddEdit(who)
      /\ UNCHANGED <<route, reader, stale, moves, dirt, run, child, archived, lost>>
  BY <1>1 DEF SupervisorEdits, ChildEdits, routeVars, mainVars, archiveVars
<1>3. who \in {"codex", "claude", "supervisor", "late", "unplanned"}
  BY <1>1
<1>4. /\ content' = content \cup {[n |-> edits + 1, by |-> who]} /\ edits' = edits + 1 /\ edits \in Nat
      /\ content \in SUBSET Edited /\ content' \in SUBSET Edited
  BY <1>2, <1>3 DEF AddEdit, RoutingTypes, Edited
<1>b. PICK z : z.by = who /\ content' = content \cup {z}
  BY <1>4
<1>c. /\ FreeOf(content') <=> (FreeOf(content) /\ who # "unplanned")
      /\ Codex(content') <=> (Codex(content) \/ who = "codex")
  BY <1>b DEF FreeOf, Codex
<1>5. /\ FreeOf(content') <=> (FreeOf(content) /\ who # "unplanned")
      /\ Codex(content') <=> (Codex(content) \/ who = "codex")
  BY <1>c
<1>6. RoutingTypes'
  BY <1>2, <1>4 DEF RoutingTypes
<1>7. who = "unplanned" => run = Idle /\ ~archived /\ Bare(route)
  <2>1. who = "unplanned" => SupervisorEdits /\ ~WriteAllowed /\ ~Abandoned(route)
    BY <1>1 DEF SupervisorEdits, ChildEdits
  <2>2. NoRoute.mode = "none" /\ NoRoute.delegation.state = "none"
    BY DEF NoRoute, NoDelegation
  <2>3. ~HasRealDelegation(NoRoute)
    BY <2>2 DEF HasRealDelegation
  <2> QED
    BY <2>1, <2>2, <2>3 DEF SupervisorEdits, WriteAllowed, Bare
<1>8. who = "codex" => child = "codex"
  BY <1>1 DEF SupervisorEdits, ChildEdits
<1>9. DispatchInv'
  BY <1>2 DEF RoutingInv, DispatchInv
<1>10. PlanInv'
  BY <1>2, <1>5, <1>7 DEF RoutingInv, PlanInv
<1>11. CodexInv'
  <2>1. ASSUME ~stale, ~lost, child = "codex" PROVE Attributed(route) /\ (run # Idle => run.by = "codex")
    BY <2>1 DEF RoutingInv, CodexInv, Attributed, CodexOpen, DispatchInv
  <2> QED
    BY <1>2, <1>5, <1>8, <2>1 DEF RoutingInv, CodexInv, Attributed, CodexStarts
<1> QED
  BY <1>6, <1>9, <1>10, <1>11 DEF RoutingInv

\* What leaves the record, the content and the dispatch alone.
LEMMA AsideStays ==
    ASSUME RoutingTypes, RoutingInv, RoutingTypes', UNCHANGED <<route, content, run, stale, lost>>,
           child' = "codex" => child = "codex", archived' => archived
    PROVE  RoutingInv'
  BY DEF RoutingInv, DispatchInv, PlanInv, CodexInv, Attributed, CodexStarts

LEMMA OthersStayPlanned ==
    ASSUME RoutingTypes, RoutingInv,
           \/ CallAgent \/ RefuseClaude \/ AddObservation \/ ContextReads \/ SandboxWrites \/ ChildEnds \/ Fetch
           \/ \E kind \in {"receipted", "bare"} : MainMoves(kind)
           \/ \E kind \in {"dirt", "commit", "pull"} : ChildEscapes(kind)
    PROVE  RoutingTypes' /\ RoutingInv'
<1>1. CASE CallAgent \/ RefuseClaude \/ AddObservation \/ ContextReads \/ ChildEnds \/ Fetch
  <2>1. UNCHANGED <<route, content, run, stale, lost, moves, dirt, edits, archived>> /\ reader' \in {reader, route}
    BY <1>1 DEF CallAgent, RefuseClaude, AddObservation, ContextReads, ChildEnds, Fetch, routeVars, mainVars, archiveVars, ghostVars
  <2>2. child' \in {"none", "native", child}
    BY <1>1 DEF CallAgent, RefuseClaude, AddObservation, ContextReads, ChildEnds, Fetch
  <2>3. RoutingTypes'
    BY <2>1, <2>2 DEF RoutingTypes
  <2> QED
    BY <2>1, <2>2, <2>3, AsideStays
<1>2. CASE SandboxWrites
  <2>1. PICK r : r = [run EXCEPT !.patch = TRUE]
    OBVIOUS
  <2>2. r \in DispatchRecord /\ r.by = run.by /\ r.stage = run.stage /\ r.plan = run.plan
    BY <2>1 DEF RoutingTypes, DispatchRecord
  <2>3. run' = r /\ run # Idle /\ UNCHANGED <<route, reader, content, child, stale, lost, moves, dirt, edits, archived>>
    BY <1>2, <2>1 DEF SandboxWrites, Idle, routeVars, mainVars, archiveVars, ghostVars
  <2>4. RoutingTypes'
    BY <2>2, <2>3 DEF RoutingTypes
  <2> QED
    BY <2>2, <2>3, <2>4 DEF RoutingInv, DispatchInv, PlanInv, CodexInv, Attributed, CodexStarts
<1>3. CASE \/ \E kind \in {"receipted", "bare"} : MainMoves(kind)
           \/ \E kind \in {"dirt", "commit", "pull"} : ChildEscapes(kind)
  <2>1. UNCHANGED <<route, reader, content, run, child, stale, lost, edits, archived>>
    BY <1>3 DEF MainMoves, ChildEscapes, routeVars, archiveVars, ghostVars
  <2>2. moves' \in Seq({"receipted", "bare", "commit", "child"}) /\ dirt' \in Nat
    BY <1>3 DEF MainMoves, ChildEscapes, RoutingTypes
  <2> QED
    BY <2>1, <2>2, AsideStays DEF RoutingTypes
<1> QED
  BY <1>1, <1>2, <1>3

\* A worker that writes back what it has read changes nothing, or the plan is stale from then on.
LEMMA RecordsStay == ASSUME RoutingTypes, RoutingInv, ContextRecords PROVE RoutingTypes' /\ RoutingInv'
<1>1. /\ ~archived /\ route' = reader /\ reader' = NoRoute /\ stale' = (stale \/ reader # route)
      /\ UNCHANGED <<content, moves, dirt, run, child, archived, edits, lost>>
  BY DEF ContextRecords, mainVars, archiveVars, ghostVars
<1>2. RoutingTypes'
  BY <1>1, NoRoutes DEF RoutingTypes
<1>3. ~stale' => route' = route /\ ~stale
  BY <1>1
<1> QED
  BY <1>1, <1>2, <1>3 DEF RoutingInv, DispatchInv, PlanInv, CodexInv, Attributed, CodexStarts

\* The checks and the archive read the record, the content and the dispatch.
LEMMA ArchiveStays ==
    ASSUME RoutingTypes, RoutingInv,
           \/ \E tests \in bound.selections : StartSelected(tests)
           \/ PassSelected \/ StopSelected \/ OpenArchive \/ StopArchive \/ Archive
    PROVE  RoutingTypes' /\ RoutingInv'
<1>1. UNCHANGED <<route, reader, stale, content, moves, dirt, run, child, edits, lost>>
  BY DEF StartSelected, PassSelected, StopSelected, OpenArchive, StopArchive, Archive, routeVars, mainVars, ghostVars
<1>2. archived' => archived \/ run = Idle
  BY DEF StartSelected, PassSelected, StopSelected, OpenArchive, StopArchive, Archive
<1>3. RoutingTypes'
  BY <1>1 DEF RoutingTypes
<1> QED
  BY <1>1, <1>2, <1>3 DEF RoutingInv, DispatchInv, PlanInv, CodexInv, Attributed, CodexStarts

LEMMA RoutingStep == RoutingTypes /\ RoutingInv /\ [RoutingNext]_routingVars => RoutingTypes' /\ RoutingInv'
<1> SUFFICES ASSUME RoutingTypes, RoutingInv, [RoutingNext]_routingVars PROVE RoutingTypes' /\ RoutingInv'
  OBVIOUS
<1>1. CASE UNCHANGED routingVars
  <2>1. UNCHANGED <<route, reader, stale, content, moves, dirt, run, child, archived, edits, lost>>
    BY <1>1 DEF routingVars, routeVars, mainVars, archiveVars, ghostVars
  <2> QED
    BY <2>1, AsideStays DEF RoutingTypes
<1> QED
  BY <1>1, PrepareStays, ClaudeStays, RecoverCodexStays, EscalateStays, CloseAbandonedStays, RetainStays, DispatchStays,
     SpawnStays, ConfirmStays, EndsStay, KillStays, EditsStay, OthersStayPlanned, RecordsStay, ArchiveStays
     DEF RoutingNext

LEMMA RoutingInvariant == RoutingSpec => [](RoutingTypes /\ RoutingInv)
  BY RoutingStarts, RoutingStep, PTL DEF RoutingSpec

-----------------------------------------------------------------------------
(* The routing record: what the early gate has seen stays approved until it is archived. *)

OwnerApproved == route.policy = "owner-approved"

GateInv ==
    /\ checks.seen \subseteq content /\ checked.of \subseteq content
    /\ archived /\ ~FreeOf(content) => ~FreeOf(checked.of)
    /\ ~stale => /\ checks.on /\ checks.tests /\ ~FreeOf(checks.seen) => OwnerApproved
                 /\ checked.gated /\ ~FreeOf(checked.of) => OwnerApproved

\* No command of the supervisor and no end of a dispatch takes the owner's approval of unplanned content back.
LEMMA ApprovalStays ==
    ASSUME RoutingTypes, RoutingInv, ~stale, ~FreeOf(content), OwnerApproved, RoutingNext, ~stale'
    PROVE  OwnerApproved'
<1>1. /\ route.mode = "retained" /\ route.execution.outcome = "retained" /\ run = Idle /\ content # {}
  BY DEF OwnerApproved, RoutingInv, PlanInv, Sound, FreeOf
<1>2. run.stage = "none" /\ route.execution # NoExecution
  BY <1>1 DEF Idle, NoExecution
<1>3. CASE \E p \in {"codex", "claude"}, profile \in {"standard", "complex"}, delegate \in BOOLEAN :
              Prepare(p, profile, delegate)
  BY <1>1, <1>2, <1>3 DEF Prepare, Attributable
<1>4. CASE ConfirmLaunch \/ AbortDispatch \/ (\E tried \in BOOLEAN : NotLaunched(tried))
           \/ (\E outcome \in {"completed", "failed", "abnormal"}, released \in BOOLEAN : CodexEnds(outcome, released))
           \/ (\E failed \in BOOLEAN : SandboxEnds(failed))
  BY <1>2, <1>4 DEF ConfirmLaunch, AbortDispatch, NotLaunched, CodexEnds, SandboxEnds
<1>5. CASE BeginClaude \/ RecordClaude \/ RecoverClaude \/ RecoverCodex \/ ApproveDiff
  BY <1>1, <1>2, <1>5 DEF BeginClaude, RecordClaude, RecoverClaude, RecoverCodex, ApproveDiff, Recording
<1>6. CASE Escalate \/ CloseAbandoned \/ RecordRetained
  BY <1>1, <1>2, <1>6 DEF Escalate, CloseAbandoned, RecordRetained, OwnerApproved
<1>7. CASE ContextRecords
  BY <1>7 DEF ContextRecords, OwnerApproved
<1>8. CASE Spawn \/ BeginClaude \/ CallAgent \/ RefuseClaude \/ AddObservation \/ ContextReads \/ SupervisorEdits
           \/ ChildEdits \/ SandboxWrites \/ ChildEnds \/ Fetch
           \/ (\E by \in {"codex", "sandbox"} : Dispatch(by)) \/ (\E spare \in BOOLEAN : KillDispatch(spare))
           \/ (\E kind \in {"receipted", "bare"} : MainMoves(kind))
           \/ (\E kind \in {"dirt", "commit", "pull"} : ChildEscapes(kind))
  <2>1. CASE BeginClaude
    BY <1>5, <2>1
  <2>2. ASSUME ~BeginClaude PROVE route' = route
    BY <1>8, <2>2 DEF Spawn, CallAgent, RefuseClaude, AddObservation, ContextReads, SupervisorEdits, ChildEdits,
                      SandboxWrites, ChildEnds, Fetch, Dispatch, KillDispatch, MainMoves, ChildEscapes, routeVars
  <2> QED
    BY <2>1, <2>2 DEF OwnerApproved
<1>9. CASE \/ \E tests \in bound.selections : StartSelected(tests)
           \/ PassSelected \/ StopSelected \/ OpenArchive \/ StopArchive \/ Archive
  BY <1>9 DEF StartSelected, PassSelected, StopSelected, OpenArchive, StopArchive, Archive, routeVars, OwnerApproved
<1> QED
  BY <1>3, <1>4, <1>5, <1>6, <1>7, <1>8, <1>9 DEF RoutingNext

\* Content only grows, and once it is archived nobody adds to it without a plan.
LEMMA ContentGrows ==
    ASSUME RoutingTypes, RoutingInv, RoutingNext
    PROVE  content \subseteq content' /\ (archived /\ FreeOf(content) => FreeOf(content'))
<1>1. CASE SupervisorEdits \/ ChildEdits \/ \E failed \in BOOLEAN : SandboxEnds(failed)
  <2>1. CASE SupervisorEdits
    BY <2>1 DEF SupervisorEdits, AddEdit
  <2>2. CASE ChildEdits
    <3>1. PICK who \in {"codex", "claude"} : AddEdit(who)
      BY <2>2 DEF ChildEdits
    <3>2. PICK z : z.by = who /\ content' = content \cup {z}
      BY <3>1 DEF AddEdit
    <3> QED
      BY <3>1, <3>2 DEF FreeOf
  <2>3. CASE \E failed \in BOOLEAN : SandboxEnds(failed)
    <3>1. PICK z : z = [n |-> edits + 1, by |-> "claude"]
      OBVIOUS
    <3>2. z.by = "claude" /\ content' \in {content, content \cup {z}}
      BY <2>3, <3>1 DEF SandboxEnds
    <3> QED
      BY <3>2 DEF FreeOf
  <2> QED
    BY <1>1, <2>1, <2>2, <2>3
<1>2. CASE ~(SupervisorEdits \/ ChildEdits \/ \E failed \in BOOLEAN : SandboxEnds(failed))
  <2>1. content' = content
    BY <1>2 DEF RoutingNext, Prepare, Dispatch, Spawn, ConfirmLaunch, NotLaunched, CodexEnds, KillDispatch, AbortDispatch,
         BeginClaude, CallAgent, RecordClaude, RefuseClaude, RecoverClaude, RecoverCodex, Escalate, CloseAbandoned,
         ApproveDiff, RecordRetained, StartSelected, PassSelected, StopSelected, OpenArchive, StopArchive, Archive,
         AddObservation, ContextReads, ContextRecords, SandboxWrites, ChildEnds, Fetch, MainMoves, ChildEscapes
  <2> QED
    BY <2>1
<1> QED
  BY <1>1, <1>2

\* Everything but the checks and the archive leaves their evidence alone.
LEMMA EvidenceKept ==
    ASSUME RoutingNext, ~ \E tests \in bound.selections : StartSelected(tests),
           ~(PassSelected \/ StopSelected \/ OpenArchive \/ StopArchive \/ Archive)
    PROVE  UNCHANGED <<checks, checked, archived>>
  BY DEF RoutingNext, Prepare, Dispatch, Spawn, ConfirmLaunch, NotLaunched, CodexEnds, SandboxEnds, KillDispatch, AbortDispatch,
         BeginClaude, CallAgent, RecordClaude, RefuseClaude, RecoverClaude, RecoverCodex, Escalate, CloseAbandoned,
         ApproveDiff, RecordRetained, AddObservation, ContextReads, ContextRecords, SupervisorEdits, ChildEdits,
         SandboxWrites, ChildEnds, Fetch, MainMoves, ChildEscapes, archiveVars

\* A record a context worker has put back stays suspect.
LEMMA StaleStays == ASSUME RoutingNext PROVE stale => stale'
  BY DEF RoutingNext, Prepare, Dispatch, Spawn, ConfirmLaunch, NotLaunched, CodexEnds, SandboxEnds, KillDispatch, AbortDispatch,
         BeginClaude, CallAgent, RecordClaude, RefuseClaude, RecoverClaude, RecoverCodex, Escalate, CloseAbandoned,
         ApproveDiff, RecordRetained, StartSelected, PassSelected, StopSelected, OpenArchive, StopArchive, Archive,
         AddObservation, ContextReads, ContextRecords, SupervisorEdits, ChildEdits, SandboxWrites, ChildEnds, Fetch,
         MainMoves, ChildEscapes, Write, Persist, routeVars

LEMMA GateStep == RoutingTypes /\ RoutingInv /\ GateInv /\ [RoutingNext]_routingVars => GateInv'
<1> SUFFICES ASSUME RoutingTypes, RoutingInv, GateInv, [RoutingNext]_routingVars PROVE GateInv'
  OBVIOUS
<1>1. CASE UNCHANGED routingVars
  BY <1>1 DEF routingVars, routeVars, archiveVars, GateInv, OwnerApproved
<1>2. CASE RoutingNext
  <2>1. content \subseteq content' /\ (archived /\ FreeOf(content) => FreeOf(content'))
    BY <1>2, ContentGrows
  <2>2. ASSUME ~stale', NEW c \in SUBSET content, ~FreeOf(c), OwnerApproved PROVE OwnerApproved'
    BY <1>2, <2>2, ApprovalStays, StaleStays DEF FreeOf
  <2>3. ~stale' => ~stale
    BY <1>2, StaleStays
  <2>4. CASE \E tests \in bound.selections : StartSelected(tests)
    <3>1. PICK tests \in bound.selections : StartSelected(tests)
      BY <2>4
    <3>2. /\ checks' = [on |-> TRUE, tests |-> tests, seen |-> content] /\ (tests => EarlyGate)
          /\ UNCHANGED <<route, stale, content, checked, archived>>
      BY <3>1 DEF StartSelected, routeVars
    <3>3. ASSUME tests, ~stale, ~FreeOf(content) PROVE OwnerApproved
      <4>1. Bare(route) /\ FreeOf(route.pre)
        BY <3>3 DEF RoutingInv, PlanInv, Sound
      <4>2. route # NoRoute => route.mode = "retained" \/ HasRealDelegation(route) \/ route.pre = content
        BY <3>2, <3>3 DEF EarlyGate, Diverged
      <4>3. route # NoRoute
        BY <3>2, <3>3 DEF EarlyGate, FreeOf
      <4> QED
        BY <3>3, <4>1, <4>2, <4>3 DEF Bare, OwnerApproved
    <3> QED
      BY <3>2, <3>3 DEF GateInv, OwnerApproved
  <2>5. CASE PassSelected
    <3>1. /\ checks.on /\ ~archived /\ checks' = NoRun
          /\ checked' = [of |-> content, gated |-> checks.tests /\ checks.seen = content]
          /\ UNCHANGED <<route, stale, content, archived>>
      BY <2>5 DEF PassSelected, routeVars
    <3> QED
      BY <3>1 DEF GateInv, OwnerApproved, NoRun
  <2>6. CASE StopSelected
    <3>1. /\ ~archived /\ checks' = NoRun /\ checked' \in {checked, NothingChecked}
          /\ UNCHANGED <<route, stale, content, archived>>
      BY <2>6 DEF StopSelected, routeVars
    <3> QED
      BY <3>1 DEF GateInv, OwnerApproved, NoRun, NothingChecked
  <2>7. CASE OpenArchive \/ StopArchive \/ Archive
    <3>1. UNCHANGED <<route, stale, content, checks, checked>> /\ (archived' => archived \/ checked.of = content)
      BY <2>7 DEF OpenArchive, StopArchive, Archive, routeVars
    <3> QED
      BY <3>1 DEF GateInv, OwnerApproved
  <2>8. CASE UNCHANGED <<checks, checked, archived>>
    BY <2>1, <2>2, <2>3, <2>8 DEF GateInv
  <2> QED
    BY <1>2, <2>4, <2>5, <2>6, <2>7, <2>8, EvidenceKept
<1> QED
  BY <1>1, <1>2

\* UnplannedIsApproved, for any number of edits, moves, routes, context workers and runs of the checks: what
\* is archived after the early gate has seen it was written as a plan allowed, or the owner has accepted it.
THEOREM UnplannedWorkIsApproved == RoutingSpec => []UnplannedIsApproved
<1>1. RoutingInit => GateInv
  BY DEF RoutingInit, GateInv, NoRun, NothingChecked, FreeOf
<1>2. GateInv => UnplannedIsApproved
  BY DEF GateInv, OwnerApproved, FreeOf, UnplannedIsApproved
<1> QED
  BY <1>1, <1>2, RoutingInvariant, GateStep, PTL DEF RoutingSpec

\* CodexWorkIsAttributed, for any number of edits, moves, routes and kills: the record of the task
\* attributes content of a Codex child to a child, through retries and escalations.
THEOREM CodexWorkHasItsRecord == RoutingSpec => []CodexWorkIsAttributed
<1>1. RoutingInv => CodexWorkIsAttributed
  BY DEF RoutingInv, CodexInv, Codex, Attributed, CodexStarts, CodexWorkIsAttributed
<1> QED
  BY <1>1, RoutingInvariant, PTL

-----------------------------------------------------------------------------
(* Completion evidence: types, and what stands for what. *)

Commands == UNION {Selected[v] : v \in Contents} \cup {Added}
HeadRecord == [content : Contents \cup {0}, base : Nat]
ReportRecord == [request : Nat, launch : Nat, observed : BOOLEAN, available : BOOLEAN, material : BOOLEAN, on : HeadRecord]
EvidenceRecord == [of : HeadRecord, success : BOOLEAN, ran : SUBSET Commands, at : HeadRecord]
SelectorRecord == [by : {"none", "agent", "archive", "validate"}, at : HeadRecord, done : SUBSET Commands]
ReviewerRecord ==
    [by : {"none", "agent", "finish"}, stage : {"none", "next", "launched", "writing"}, ready : BOOLEAN, on : HeadRecord,
     seen : HeadRecord, clean : BOOLEAN, got : Seq(ReportRecord)]

EvidenceTypes ==
    /\ mainLog \in Seq({"task", "checks", "other"}) /\ serial \in Nat /\ dirty \in BOOLEAN
    /\ tree \in HeadRecord /\ published \in HeadRecord
    /\ evidence \in EvidenceRecord
    /\ selector \in SelectorRecord
    /\ validated \in SUBSET [at : HeadRecord, ran : SUBSET Commands]
    /\ request \in [id : Nat, of : HeadRecord]
    /\ report \in [Perspectives -> ReportRecord]
    /\ answer \in [Perspectives -> [launch : Nat, rejected : BOOLEAN]]
    /\ reviewer \in ReviewerRecord

\* The definitions of the module over a log that is given.
Moved(log, from, to, what) == \E i \in from + 1..to : log[i] = what
Like(log, old, new) ==
    old.content = new.content /\ old.base <= new.base /\ ~Moved(log, old.base, new.base, "task")
Need(log, h) == Selected[h.content] \cup IF Moved(log, 0, h.base, "checks") THEN {Added} ELSE {}

\* Nothing stands on commits that main does not have.
Grounded ==
    LET len == Len(mainLog)
    IN  /\ tree.base <= len /\ evidence.of.base <= len /\ selector.at.base <= len
        /\ request.of.base <= len /\ reviewer.on.base <= len /\ published.base <= len
        /\ \A v \in validated : v.at.base <= len
        /\ \A p \in Perspectives : report[p].on.base <= len
        /\ \A i \in 1..Len(reviewer.got) : reviewer.got[i].on.base <= len

StageInv ==
    /\ selector # NoSelector => \/ selector.by = "agent" /\ finishing = "idle"
                                \/ selector.by \in {"archive", "validate"} /\ finishing = "checking"
    /\ selector.by = "archive" => Managed
    /\ reviewer.by = "finish" => finishing = "reviewing"
    /\ finishing \notin {"idle", "reviewing"} => reviewer = NoReviewer
    /\ finishing \in {"review", "reviewed", "finalize", "archive"} => Managed
    /\ published # NoHead => finishing = "done"

\* What a reviewer brings back is about the request that it works on, and so is what was written of it.
Reviews ==
    /\ request.id <= serial /\ \A p \in Perspectives : report[p].request <= serial
    /\ \A p \in Perspectives :
          report[p].observed /\ report[p].available /\ report[p].request = request.id =>
              Like(mainLog, request.of, report[p].on)
    /\ reviewer.stage # "none" =>
          /\ Like(mainLog, request.of, reviewer.on)
          /\ \A i \in 1..Len(reviewer.got) :
                /\ reviewer.got[i].request = request.id
                /\ reviewer.got[i].available => reviewer.got[i].on = reviewer.on

Validating == finishing = "validate" \/ (finishing = "checking" /\ selector.by = "validate")

ReviewHolds ==
    /\ Managed /\ Validating => ReviewEvidence
    /\ finishing = "publish" => ReviewEvidence
    /\ PublishedIsReviewed

\* A run of the checks that stands for a head and covers what it needs.
Covered(log, passed, h) == \E v \in passed : Like(log, v.at, h) /\ Need(log, h) \subseteq v.ran

Validation ==
    ~scope.overlap =>
        /\ selector # NoSelector => selector.at = tree
        /\ evidence.success => \E v \in validated : Like(mainLog, v.at, evidence.of) /\ evidence.ran = v.ran
        /\ finishing \in {"publish", "quickReview", "quickReviewed"} \/ (finishing = "reviewing" /\ ~Managed) =>
              Covered(mainLog, validated, tree)
        /\ published # NoHead => Covered(mainLog, validated, published)

EvidenceInv == Grounded /\ StageInv /\ Reviews /\ ReviewHolds /\ Validation

-----------------------------------------------------------------------------
(* Completion evidence: proofs of content. *)

LEMMA ProofsAreLike ==
    /\ \A a, b : EquivalentProofs(a, b) <=> Like(mainLog, a, b)
    /\ \A a, b : Like(mainLog, a, b) => StandsFor(a, b)
    /\ \A h : Required(h) = Need(mainLog, h)
  BY DEF EquivalentProofs, TouchedBetween, MainMoved, Like, Moved, Required, Need, StandsFor

LEMMA LikeItself == ASSUME NEW log, NEW h, h.base \in Nat PROVE Like(log, h, h)
  BY DEF Like, Moved

LEMMA LikeOnwards ==
    ASSUME NEW log, NEW a, NEW b, NEW c, a.base \in Nat, b.base \in Nat, c.base \in Nat, Like(log, a, b), Like(log, b, c)
    PROVE  Like(log, a, c)
<1>1. \A i \in a.base + 1..c.base : i \in a.base + 1..b.base \/ i \in b.base + 1..c.base
  OBVIOUS
<1> QED
  BY <1>1 DEF Like, Moved

\* What main gets afterwards changes nothing of that.
LEMMA LogGrows ==
    ASSUME NEW kinds, NEW log \in Seq(kinds), NEW what \in kinds, NEW a, NEW b, a.base \in Nat, b.base \in Nat,
           b.base <= Len(log)
    PROVE  /\ Like(Append(log, what), a, b) <=> Like(log, a, b)
           /\ Need(Append(log, what), b) = Need(log, b)
<1>1. \A i \in 1..Len(log) : Append(log, what)[i] = log[i]
  OBVIOUS
<1>2. \A n \in Nat : \A k : Moved(Append(log, what), n, b.base, k) <=> Moved(log, n, b.base, k)
  BY <1>1 DEF Moved
<1> QED
  BY <1>2 DEF Like, Need

LEMMA HeadFacts ==
    ASSUME EvidenceTypes
    PROVE  /\ tree.base \in Nat /\ evidence.of.base \in Nat /\ selector.at.base \in Nat /\ request.of.base \in Nat
           /\ reviewer.on.base \in Nat /\ published.base \in Nat /\ Len(mainLog) \in Nat
           /\ \A v \in validated : v.at.base \in Nat
           /\ \A p \in Perspectives : report[p] \in ReportRecord /\ report[p].on.base \in Nat
           /\ \A i \in 1..Len(reviewer.got) : reviewer.got[i] \in ReportRecord /\ reviewer.got[i].on.base \in Nat
<1>1. \A h \in HeadRecord : h.base \in Nat
  BY DEF HeadRecord
<1>2. /\ tree \in HeadRecord /\ published \in HeadRecord /\ evidence.of \in HeadRecord /\ selector.at \in HeadRecord
      /\ request.of \in HeadRecord /\ reviewer.on \in HeadRecord /\ Len(mainLog) \in Nat
      /\ reviewer.got \in Seq(ReportRecord)
  BY DEF EvidenceTypes, EvidenceRecord, SelectorRecord, ReviewerRecord
<1>3. \A v \in validated : v.at \in HeadRecord
  BY DEF EvidenceTypes
<1>4. \A r \in ReportRecord : r.on \in HeadRecord
  BY DEF ReportRecord
<1>5. \A p \in Perspectives : report[p] \in ReportRecord
  BY DEF EvidenceTypes
<1>6. \A i \in 1..Len(reviewer.got) : reviewer.got[i] \in ReportRecord
  BY <1>2
<1> QED
  BY <1>1, <1>2, <1>3, <1>4, <1>5, <1>6

\* A review that is ready, without the order in which its files are looked at.
Ready ==
    /\ request # NoReviewRequest /\ EquivalentProofs(request.of, tree)
    /\ \A p \in Perspectives :
          report[p] # NoReport /\ Bound(p) /\ report[p].available /\ (report[p].material => Rejected(p))

LEMMA ReadyIsReady == ReviewEvidence <=> (tree.content \in scope.risky => Ready)
<1>1. ReviewState = "ready" <=> Ready
  BY DEF ReviewState, Ready
<1> QED
  BY <1>1 DEF ReviewEvidence, ReviewRequired

LEMMA ReviewFrame ==
    ASSUME UNCHANGED <<mainLog, tree, request, report, answer, scope>>
    PROVE  ReviewEvidence' <=> ReviewEvidence
  BY ReadyIsReady, ProofsAreLike DEF ReviewEvidence, ReviewRequired, ReviewState, Bound, Rejected, EquivalentProofs,
     TouchedBetween, MainMoved

LEMMA NothingProven ==
    /\ NoHead \in HeadRecord /\ NoEvidence \in EvidenceRecord
    /\ NoSelector \in SelectorRecord
    /\ NoReviewRequest \in [id : Nat, of : HeadRecord] /\ NoReport \in ReportRecord
    /\ NoAnswer \in [launch : Nat, rejected : BOOLEAN] /\ NoReviewer \in ReviewerRecord
    /\ NoReviewer.stage = "none" /\ NoReviewer.by = "none" /\ NoReviewer.got = <<>> /\ NoReviewer.on.base = 0
    /\ NoHead.base = 0 /\ NoReviewRequest.of.base = 0 /\ NoSelector.at.base = 0 /\ NoSelector.by = "none"
<1>1. NoHead \in HeadRecord /\ NoHead.base = 0
  BY DEF NoHead, HeadRecord
<1> QED
  BY <1>1 DEF NoEvidence, NoSelector, NoReviewRequest, NoReport, NoAnswer, NoReviewer, ReportRecord, EvidenceRecord, SelectorRecord, ReviewerRecord

\* Decisions: everything but the stage, the package and what is not committed stays.
LEMMA Decides ==
    ASSUME EvidenceTypes, EvidenceInv, dirty' \in BOOLEAN, Managed' <=> Managed,
           UNCHANGED <<tree, mainLog, evidence, selector, validated, published, request, report, answer, reviewer, serial, scope>>,
           StageInv',
           Managed /\ Validating' => ReviewEvidence,
           finishing' = "publish" => ReviewEvidence,
           ~scope.overlap /\ (finishing' \in {"publish", "quickReview", "quickReviewed"}
                              \/ (finishing' = "reviewing" /\ ~Managed)) => Covered(mainLog, validated, tree)
    PROVE  EvidenceTypes' /\ EvidenceInv'
<1>1. EvidenceTypes' /\ Grounded' /\ Reviews'
  BY DEF EvidenceTypes, EvidenceInv, Grounded, Reviews
<1>2. ReviewHolds'
  BY ReviewFrame DEF EvidenceInv, ReviewHolds, PublishedIsReviewed, StandsFor, MainMoved
<1>3. Validation'
  BY DEF EvidenceInv, Validation
<1> QED
  BY <1>1, <1>2, <1>3 DEF EvidenceInv

LEMMA EvidenceStarts == EvidenceInit => EvidenceTypes /\ EvidenceInv
<1> SUFFICES ASSUME EvidenceInit PROVE EvidenceTypes /\ EvidenceInv
  OBVIOUS
<1>1. tree \in HeadRecord /\ tree.base = 0
  BY DEF EvidenceInit, HeadRecord
<1>a. report \in [Perspectives -> ReportRecord] /\ answer \in [Perspectives -> [launch : Nat, rejected : BOOLEAN]]
  BY NothingProven DEF EvidenceInit
<1>b. /\ published \in HeadRecord /\ reviewer \in ReviewerRecord /\ request \in [id : Nat, of : HeadRecord]
      /\ evidence \in EvidenceRecord
      /\ selector \in SelectorRecord
  BY NothingProven DEF EvidenceInit
<1>c. mainLog = <<>> /\ serial = 0
  BY DEF EvidenceInit
<1>e. dirty \in BOOLEAN
  BY Zenon DEF EvidenceInit
<1>f. mainLog \in Seq({"task", "checks", "other"}) /\ serial \in Nat
  BY <1>c
<1>d. validated \in SUBSET [at : HeadRecord, ran : SUBSET Commands]
  BY DEF EvidenceInit
<1>2. EvidenceTypes
  BY <1>1, <1>a, <1>b, <1>d, <1>e, <1>f DEF EvidenceTypes
<1>3. /\ mainLog = <<>> /\ evidence = NoEvidence /\ selector = NoSelector /\ request = NoReviewRequest
      /\ reviewer = NoReviewer /\ published = NoHead /\ validated = {} /\ finishing = "idle" /\ serial = 0
      /\ \A p \in Perspectives : report[p] = NoReport
  BY DEF EvidenceInit
<1>4. /\ NoEvidence.of.base = 0 /\ ~NoEvidence.success /\ NoReport.on.base = 0 /\ ~NoReport.observed
      /\ NoReport.request = 0 /\ NoReviewRequest.id = 0
  BY DEF NoEvidence, NoHead, NoReport, NoReviewRequest
<1>5. Grounded
  BY <1>1, <1>3, <1>4, NothingProven DEF Grounded
<1>6. StageInv /\ Reviews
  BY <1>3, <1>4, NothingProven DEF StageInv, Reviews
<1>7. ReviewHolds /\ Validation
  BY <1>3, <1>4 DEF ReviewHolds, Validation, Validating, PublishedIsReviewed
<1> QED
  BY <1>2, <1>5, <1>6, <1>7 DEF EvidenceInv

LEMMA ReusedIsCovered ==
    ASSUME EvidenceTypes, EvidenceInv, ~scope.overlap, Reusable
    PROVE  Covered(mainLog, validated, tree)
<1>1. evidence.success /\ Like(mainLog, evidence.of, tree) /\ Need(mainLog, tree) \subseteq evidence.ran
  BY ProofsAreLike DEF Reusable, Covers
<1>2. PICK v \in validated : Like(mainLog, v.at, evidence.of) /\ evidence.ran = v.ran
  BY <1>1 DEF EvidenceInv, Validation
<1>3. Like(mainLog, v.at, tree)
  BY <1>1, <1>2, HeadFacts, LikeOnwards
<1> QED
  BY <1>1, <1>2, <1>3 DEF Covered

LEMMA GatesStay ==
    ASSUME EvidenceTypes, EvidenceInv,
           \/ EditTask \/ Verify \/ BeginFinish \/ ReviewStands \/ FinalizeReuses \/ ArchiveChange \/ PassGates
           \/ ValidationReused
    PROVE  EvidenceTypes' /\ EvidenceInv'
<1>1. /\ dirty' \in BOOLEAN
      /\ UNCHANGED <<tree, mainLog, evidence, selector, validated, published, request, report, answer, reviewer, serial, scope>>
  BY DEF EditTask, Verify, BeginFinish, ReviewStands, FinalizeReuses, ArchiveChange, PassGates, ValidationReused, GoOn,
         workVars, reviewVars, boundVars, EvidenceTypes
<1>2. StageInv /\ ReviewHolds /\ Validation
  BY DEF EvidenceInv
<1>3. finishing \notin {"idle", "checking", "reviewing", "done"} =>
          selector = NoSelector /\ reviewer = NoReviewer /\ published = NoHead
  BY <1>2 DEF StageInv
<1>4. NoReviewer.by # "finish" /\ NoSelector.by # "archive"
  BY DEF NoReviewer, NoSelector
<1>5. CASE EditTask \/ Verify
  <2>1. finishing' = finishing /\ (Managed' <=> Managed) /\ (Validating' <=> Validating)
    BY <1>1, <1>5 DEF EditTask, Verify, Managed, Validating
  <2>2. StageInv'
    BY <1>1, <1>2, <2>1 DEF StageInv
  <2> QED
    BY <1>1, <1>2, <2>1, <2>2, Decides DEF ReviewHolds, Validation
<1>6. CASE BeginFinish
  <2>1. /\ selector = NoSelector /\ reviewer = NoReviewer /\ published = NoHead /\ lifecycle' = lifecycle
        /\ finishing' = IF lifecycle = "active" THEN "review" ELSE "gates"
    BY <1>6 DEF BeginFinish, GoOn, AgentActs, workVars
  <2>2. (Managed' <=> Managed) /\ ~Validating' /\ StageInv'
    BY <1>1, <1>4, <2>1 DEF Managed, Validating, StageInv
  <2> QED
    BY <1>1, <2>1, <2>2, Decides
<1>7. CASE ReviewStands
  <2>1. /\ finishing \in {"review", "quickReview", "reviewed", "quickReviewed"} /\ ReviewEvidence
        /\ lifecycle' = lifecycle /\ finishing' = IF Managed THEN "finalize" ELSE "publish"
    BY <1>7 DEF ReviewStands, GoOn, workVars
  <2>2. Managed' <=> Managed
    BY <2>1 DEF Managed
  <2>3. ~Validating' /\ StageInv'
    BY <1>1, <1>3, <1>4, <2>1, <2>2 DEF Validating, StageInv
  <2>4. ~Managed => finishing \in {"quickReview", "quickReviewed"}
    BY <1>2, <2>1 DEF StageInv
  <2> QED
    BY <1>1, <1>2, <2>1, <2>2, <2>3, <2>4, Decides DEF Validation
<1>8. CASE FinalizeReuses \/ ArchiveChange
  <2>1. /\ finishing \in {"finalize", "archive"} /\ finishing' \in {"archive", "gates"}
        /\ lifecycle' \in {lifecycle, "archived"}
    BY <1>8 DEF FinalizeReuses, ArchiveChange, GoOn, workVars
  <2>2. Managed' <=> Managed
    BY <1>2, <2>1 DEF Managed, StageInv
  <2>3. ~Validating' /\ StageInv'
    BY <1>1, <1>2, <1>3, <1>4, <2>1, <2>2 DEF Validating, StageInv
  <2> QED
    BY <1>1, <2>1, <2>2, <2>3, Decides
<1>9. CASE PassGates
  <2>1. /\ finishing = "gates" /\ finishing' = "validate" /\ lifecycle' = lifecycle /\ (Managed => ReviewEvidence)
    BY <1>9 DEF PassGates, GoOn, workVars
  <2>2. (Managed' <=> Managed) /\ StageInv'
    BY <1>1, <1>3, <1>4, <2>1 DEF Managed, StageInv
  <2> QED
    BY <1>1, <2>1, <2>2, Decides
<1>10. CASE ValidationReused
  <2>1. /\ finishing = "validate" /\ Reusable /\ lifecycle' = lifecycle
        /\ finishing' = IF Managed THEN "publish" ELSE "quickReview"
    BY <1>10 DEF ValidationReused, GoOn, workVars
  <2>2. Managed' <=> Managed
    BY <2>1 DEF Managed
  <2>3. ~Validating' /\ StageInv' /\ (Managed => ReviewEvidence)
    BY <1>1, <1>2, <1>3, <1>4, <2>1 DEF Validating, StageInv, ReviewHolds
  <2> QED
    BY <1>1, <2>1, <2>2, <2>3, Decides, ReusedIsCovered
<1> QED
  BY <1>5, <1>6, <1>7, <1>8, <1>9, <1>10

\* Main moves on.
LEMMA MainStays ==
    ASSUME EvidenceTypes, EvidenceInv, NEW what \in {"task", "checks", "other"}, MainMovesOn(what)
    PROVE  EvidenceTypes' /\ EvidenceInv'
<1>1. /\ published = NoHead /\ mainLog' = Append(mainLog, what)
      /\ UNCHANGED <<lifecycle, tree, dirty, evidence, selector, validated, published, request, report, answer, reviewer,
                     serial, scope, finishing>>
  BY DEF MainMovesOn, reviewVars, boundVars
<1>2. mainLog \in Seq({"task", "checks", "other"}) /\ Len(mainLog') = Len(mainLog) + 1
  BY <1>1 DEF EvidenceTypes
<1>3. EvidenceTypes'
  BY <1>1 DEF EvidenceTypes
<1>4. Grounded'
  <2>1. \A n \in Nat : n <= Len(mainLog) => n <= Len(mainLog')
    BY <1>2, HeadFacts
  <2>2. Grounded
    BY DEF EvidenceInv
  <2> QED
    BY <1>1, <2>1, <2>2, HeadFacts DEF Grounded
<1>5. StageInv'
  BY <1>1 DEF EvidenceInv, StageInv, Managed
<1>6. \A a, b : a.base \in Nat /\ b.base \in Nat /\ b.base <= Len(mainLog) =>
          (Like(mainLog', a, b) <=> Like(mainLog, a, b)) /\ Need(mainLog', b) = Need(mainLog, b)
  BY <1>1, <1>2, LogGrows
<1>7. Grounded
  BY DEF EvidenceInv
<1>8. Reviews'
  <2>1. \A p \in Perspectives : Like(mainLog', request.of, report[p].on) <=> Like(mainLog, request.of, report[p].on)
    BY <1>6, <1>7, HeadFacts DEF Grounded
  <2>2. Like(mainLog', request.of, reviewer.on) <=> Like(mainLog, request.of, reviewer.on)
    BY <1>6, <1>7, HeadFacts DEF Grounded
  <2> QED
    BY <1>1, <2>1, <2>2 DEF EvidenceInv, Reviews
<1>9. ReviewHolds'
  <2>1. Like(mainLog', request.of, tree) <=> Like(mainLog, request.of, tree)
    BY <1>6, <1>7, HeadFacts DEF Grounded
  <2>2. EquivalentProofs(request.of, tree)' <=> EquivalentProofs(request.of, tree)
    BY <1>1, <2>1 DEF Like, Moved, EquivalentProofs, TouchedBetween, MainMoved
  <2>3. Ready' <=> Ready
    BY <1>1, <2>2 DEF Ready, Bound, Rejected
  <2>4. ReviewEvidence' <=> (tree'.content \in scope'.risky => Ready')
    BY DEF ReviewEvidence, ReviewRequired, ReviewState, Ready
  <2>5. ReviewEvidence' <=> ReviewEvidence
    BY <1>1, <2>3, <2>4, ReadyIsReady
  <2> QED
    BY <1>1, <2>5 DEF EvidenceInv, ReviewHolds, PublishedIsReviewed, Validating, Managed
<1>10. Validation'
  <2>1. \A v \in validated : /\ Like(mainLog', v.at, tree) <=> Like(mainLog, v.at, tree)
                             /\ Like(mainLog', v.at, evidence.of) <=> Like(mainLog, v.at, evidence.of)
    BY <1>6, <1>7, HeadFacts DEF Grounded
  <2>2. Need(mainLog', tree) = Need(mainLog, tree)
    BY <1>6, <1>7, HeadFacts DEF Grounded
  <2>3. Covered(mainLog', validated, tree) <=> Covered(mainLog, validated, tree)
    BY <2>1, <2>2 DEF Covered
  <2> QED
    BY <1>1, <2>1, <2>3 DEF EvidenceInv, Validation, Managed
<1> QED
  BY <1>3, <1>4, <1>5, <1>8, <1>9, <1>10 DEF EvidenceInv

\* Stages in which nothing rests on evidence yet.
LEMMA NothingRests ==
    ASSUME EvidenceInv, finishing \in {"idle", "reviewing"}
    PROVE  published = NoHead /\ ~Validating /\ finishing # "publish"
  BY DEF EvidenceInv, StageInv, Validating

\* The agent commits, or merges main.
LEMMA CommitsStay ==
    ASSUME EvidenceTypes, EvidenceInv, NEW c \in Contents, Commit(c) \/ Reconcile(c)
    PROVE  EvidenceTypes' /\ EvidenceInv'
<1>1. PICK t : t = IF Commit(c) THEN [tree EXCEPT !.content = c] ELSE [content |-> c, base |-> Len(mainLog)]
  OBVIOUS
<1>2. t \in HeadRecord /\ t.base <= Len(mainLog)
  <2>1. tree \in HeadRecord /\ tree.base <= Len(mainLog) /\ Len(mainLog) \in Nat
    BY HeadFacts DEF EvidenceTypes, EvidenceInv, Grounded
  <2>2. Commit(c) => t = [content |-> c, base |-> tree.base]
    BY <1>1, <2>1 DEF HeadRecord
  <2> QED
    BY <1>1, <2>1, <2>2 DEF HeadRecord
<1>3. /\ tree' = t /\ dirty' \in BOOLEAN /\ finishing = "idle" /\ (selector = NoSelector \/ scope.overlap)
      /\ UNCHANGED <<lifecycle, mainLog, evidence, selector, validated, published, request, report, answer, reviewer,
                     serial, scope, finishing>>
  BY <1>1 DEF Commit, Reconcile, AgentActs, reviewVars, boundVars, EvidenceTypes
<1>4. published = NoHead
  BY <1>3, NothingRests
<1>5. EvidenceTypes'
  BY <1>2, <1>3 DEF EvidenceTypes
<1>6. Grounded' /\ StageInv' /\ Reviews'
  BY <1>2, <1>3 DEF EvidenceInv, Grounded, StageInv, Reviews, Managed
<1>7. ReviewHolds'
  BY <1>3, <1>4 DEF ReviewHolds, Validating, PublishedIsReviewed
<1>8. Validation'
  BY <1>3, <1>4 DEF EvidenceInv, Validation
<1> QED
  BY <1>5, <1>6, <1>7, <1>8 DEF EvidenceInv

\* Checks start: of the agent, of finalization or of the validation.
LEMMA StartsStay ==
    ASSUME EvidenceTypes, EvidenceInv, AgentChecks \/ FinalizeChecks \/ ValidationRuns
    PROVE  EvidenceTypes' /\ EvidenceInv'
<1>1. PICK by \in {"agent", "archive", "validate"} :
          /\ StartChecks(by)
          /\ by = "agent" => finishing = "idle" /\ finishing' = "idle"
          /\ by = "archive" => finishing = "finalize" /\ finishing' = "checking"
          /\ by = "validate" => finishing = "validate" /\ finishing' = "checking"
  BY DEF AgentChecks, FinalizeChecks, ValidationRuns, AgentActs
<1>2. UNCHANGED <<lifecycle, tree, dirty, mainLog, evidence, validated, published, request, report, answer, reviewer, serial, scope>>
  BY DEF AgentChecks, FinalizeChecks, ValidationRuns, workVars, reviewVars, boundVars
<1>3. PICK r : r = [by |-> by, at |-> tree, done |-> {}]
  OBVIOUS
<1>4. selector = NoSelector /\ selector' = r /\ r.by = by /\ r.at = tree
  BY <1>1, <1>3 DEF StartChecks
<1>5. EvidenceTypes'
  <2>1. r \in SelectorRecord
    BY <1>3 DEF EvidenceTypes, SelectorRecord
  <2> QED
    BY <1>2, <1>4, <2>1 DEF EvidenceTypes
<1>6. Grounded' /\ Reviews'
  BY <1>2, <1>4 DEF EvidenceInv, Grounded, Reviews
<1>7. StageInv'
  <2>1. by # "agent" => reviewer = NoReviewer /\ published = NoHead
    BY <1>1 DEF EvidenceInv, StageInv
  <2>2. by = "archive" => Managed
    BY <1>1 DEF EvidenceInv, StageInv
  <2>3. published = NoHead
    BY <1>1, <2>1, NothingRests
  <2>4. NoReviewer.by # "finish"
    BY DEF NoReviewer
  <2>5. reviewer.by # "finish"
    BY <1>1, <2>1, <2>4 DEF EvidenceInv, StageInv
  <2>6. Managed' <=> Managed
    BY <1>2 DEF Managed
  <2>7. CASE by = "agent"
    BY <1>1, <1>2, <1>4, <2>3, <2>5, <2>7 DEF StageInv
  <2>8. CASE by # "agent"
    BY <1>1, <1>2, <1>4, <2>1, <2>2, <2>5, <2>6, <2>8 DEF StageInv
  <2> QED
    BY <2>7, <2>8
<1>8. ReviewHolds'
  <2>1. ReviewEvidence' <=> ReviewEvidence
    BY <1>2, ReviewFrame
  <2>2. by = "validate" => Validating
    BY <1>1 DEF Validating
  <2>3. PublishedIsReviewed'
    BY <1>2 DEF EvidenceInv, ReviewHolds, PublishedIsReviewed, StandsFor, MainMoved
  <2>4. Managed' <=> Managed
    BY <1>2 DEF Managed
  <2>5. Validating' => by = "validate"
    BY <1>1, <1>4 DEF Validating
  <2>6. finishing' # "publish"
    BY <1>1
  <2> QED
    BY <2>1, <2>2, <2>3, <2>4, <2>5, <2>6 DEF EvidenceInv, ReviewHolds
<1>9. Validation'
  BY <1>1, <1>2, <1>4 DEF EvidenceInv, Validation
<1> QED
  BY <1>5, <1>6, <1>7, <1>8, <1>9 DEF EvidenceInv

LEMMA CommandsStay ==
    ASSUME EvidenceTypes, EvidenceInv, NEW c \in Commands, CommandSucceeds(c)
    PROVE  EvidenceTypes' /\ EvidenceInv'
<1>1. PICK r : r = [selector EXCEPT !.done = @ \cup {c}]
  OBVIOUS
<1>2. /\ r \in SelectorRecord
      /\ r.by = selector.by /\ r.at = selector.at
  BY <1>1 DEF EvidenceTypes, SelectorRecord
<1>3. /\ selector # NoSelector /\ selector' = r
      /\ UNCHANGED <<lifecycle, tree, dirty, mainLog, evidence, validated, published, request, report, answer, reviewer,
                     serial, scope, finishing>>
  BY <1>1 DEF CommandSucceeds, workVars, reviewVars, boundVars
<1>4. EvidenceTypes'
  BY <1>2, <1>3 DEF EvidenceTypes
<1>5. Grounded' /\ StageInv' /\ Reviews'
  BY <1>2, <1>3 DEF EvidenceInv, Grounded, StageInv, Reviews, Managed
<1>6. ReviewHolds'
  <2>1. ReviewEvidence' <=> ReviewEvidence
    BY <1>3, ReviewFrame
  <2> QED
    BY <1>2, <1>3, <2>1 DEF EvidenceInv, ReviewHolds, Validating, Managed, PublishedIsReviewed, StandsFor, MainMoved
<1>7. Validation'
  BY <1>2, <1>3 DEF EvidenceInv, Validation, Managed
<1> QED
  BY <1>4, <1>5, <1>6, <1>7 DEF EvidenceInv

\* What a run of the checks writes.
LEMMA WrittenFacts ==
    ASSUME EvidenceTypes
    PROVE  /\ WriteEvidence(TRUE) =>
                  /\ evidence' \in EvidenceRecord
                  /\ evidence' = evidence \/ (evidence'.ran = selector.done /\ evidence'.of \in {tree, selector.at})
           /\ WriteEvidence(FALSE) =>
                  /\ evidence' \in EvidenceRecord
                  /\ evidence' = evidence \/ (~evidence'.success /\ evidence'.of \in {tree, selector.at})
<1>1. ProofOf \in {tree, selector.at}
  BY DEF ProofOf
<1>2. selector.at \in HeadRecord /\ selector.done \in SUBSET Commands /\ tree \in HeadRecord /\ evidence \in EvidenceRecord
  BY DEF EvidenceTypes, SelectorRecord, EvidenceRecord
<1>3. PICK y : y = [of |-> ProofOf, success |-> TRUE, ran |-> selector.done, at |-> selector.at]
  OBVIOUS
<1>4. PICK n : n = [of |-> ProofOf, success |-> FALSE, ran |-> selector.done, at |-> selector.at]
  OBVIOUS
<1>5. y \in EvidenceRecord /\ y.ran = selector.done /\ y.of \in {tree, selector.at}
  BY <1>1, <1>2, <1>3 DEF EvidenceRecord
<1>6. n \in EvidenceRecord /\ ~n.success /\ n.of \in {tree, selector.at}
  BY <1>1, <1>2, <1>4 DEF EvidenceRecord
<1>7. (WriteEvidence(TRUE) => evidence' \in {y, evidence}) /\ (WriteEvidence(FALSE) => evidence' \in {n, evidence})
  BY <1>3, <1>4 DEF WriteEvidence
<1> QED
  BY <1>2, <1>5, <1>6, <1>7

\* A review that stands, when what it looks at stays.
LEMMA PublishedStays ==
    ASSUME EvidenceInv, published = NoHead, UNCHANGED published
    PROVE  PublishedIsReviewed'
  BY DEF PublishedIsReviewed

\* A run of the checks is over; only a successful one goes on.
LEMMA PassesStay ==
    ASSUME EvidenceTypes, EvidenceInv, ChecksPass
    PROVE  EvidenceTypes' /\ EvidenceInv'
<1>1. PICK v : v = [at |-> selector.at, ran |-> selector.done]
  OBVIOUS
<1>2. v \in [at : HeadRecord, ran : SUBSET Commands] /\ v.at = selector.at /\ v.ran = selector.done
  BY <1>1 DEF EvidenceTypes, SelectorRecord
<1>3. /\ selector # NoSelector /\ selector.done = Required(selector.at) /\ WriteEvidence(TRUE)
      /\ validated' = validated \cup {v} /\ finishing' = StageAfter[selector.by] /\ selector' = NoSelector
      /\ UNCHANGED <<lifecycle, tree, dirty, mainLog, request, report, answer, reviewer, published, serial, scope>>
  BY <1>1 DEF ChecksPass, workVars, reviewVars, boundVars
<1>4. /\ evidence' \in EvidenceRecord
      /\ evidence' = evidence \/ (evidence'.ran = selector.done /\ evidence'.of \in {tree, selector.at})
  BY <1>3, WrittenFacts
<1>5. \/ selector.by = "agent" /\ finishing = "idle" /\ finishing' = "idle"
      \/ selector.by = "archive" /\ finishing = "checking" /\ finishing' = "archive" /\ Managed
      \/ selector.by = "validate" /\ finishing = "checking" /\ finishing' = IF Managed THEN "publish" ELSE "quickReview"
  <2>1. StageInv
    BY DEF EvidenceInv
  <2>2. /\ StageAfter["agent"] = finishing /\ StageAfter["archive"] = "archive"
        /\ StageAfter["validate"] = IF Managed THEN "publish" ELSE "quickReview"
    BY DEF StageAfter
  <2> QED
    BY <1>3, <2>1, <2>2 DEF StageInv
<1>6. published = NoHead
  BY <1>5 DEF EvidenceInv, StageInv
<1>7. EvidenceTypes'
  BY <1>2, <1>3, <1>4, NothingProven DEF EvidenceTypes
<1>8. Grounded'
  <2>1. evidence'.of.base <= Len(mainLog)
    BY <1>4 DEF EvidenceInv, Grounded
  <2>2. \A w \in validated' : w.at.base <= Len(mainLog)
    BY <1>2, <1>3 DEF EvidenceInv, Grounded
  <2>3. NoSelector.at.base <= Len(mainLog)
    BY NothingProven, HeadFacts
  <2> QED
    BY <1>3, <2>1, <2>2, <2>3 DEF EvidenceInv, Grounded
<1>9. StageInv'
  <2>1. Managed' <=> Managed
    BY <1>3 DEF Managed
  <2>2. finishing' \notin {"idle", "reviewing"} => reviewer' = NoReviewer
    BY <1>3, <1>5 DEF EvidenceInv, StageInv
  <2>3. reviewer.by # "finish"
    BY <1>5, NothingProven DEF EvidenceInv, StageInv
  <2> QED
    BY <1>3, <1>5, <1>6, <2>1, <2>2, <2>3, NothingProven DEF StageInv
<1>10. Reviews'
  BY <1>3 DEF EvidenceInv, Reviews
<1>11. ReviewHolds'
  <2>1. ReviewEvidence' <=> ReviewEvidence
    BY <1>3, ReviewFrame
  <2>2. ~Validating'
    BY <1>5 DEF Validating
  <2>3. finishing' = "publish" => ReviewEvidence
    BY <1>5 DEF EvidenceInv, ReviewHolds, Validating
  <2> QED
    BY <1>3, <1>6, <2>1, <2>2, <2>3, PublishedStays DEF ReviewHolds
<1>12. Validation'
  <2> SUFFICES ASSUME ~scope.overlap PROVE Validation'
    BY <1>3 DEF Validation
  <2>1. selector.at = tree
    BY <1>3 DEF EvidenceInv, Validation
  <2>2. Like(mainLog, tree, tree)
    BY HeadFacts, LikeItself
  <2>3. Covered(mainLog, validated', tree)
    BY <1>2, <1>3, <2>1, <2>2, ProofsAreLike DEF Covered
  <2>4. evidence'.success => \E w \in validated' : Like(mainLog, w.at, evidence'.of) /\ evidence'.ran = w.ran
    <3>1. CASE evidence' = evidence
      BY <1>3, <3>1 DEF EvidenceInv, Validation
    <3>2. CASE evidence' # evidence
      BY <1>2, <1>3, <1>4, <2>1, <2>2, <3>2
    <3> QED
      BY <3>1, <3>2
  <2> QED
    BY <1>3, <1>6, <2>3, <2>4 DEF Validation
<1> QED
  BY <1>7, <1>8, <1>9, <1>10, <1>11, <1>12 DEF EvidenceInv

\* What ends a stage, a run or a review without a result: nothing rests on anything then.
LEMMA Relapses ==
    ASSUME EvidenceTypes, EvidenceInv, finishing' = "idle", selector' \in {selector, NoSelector},
           reviewer' \in {reviewer, NoReviewer}, selector' # NoSelector => selector.by = "agent", reviewer'.by # "finish",
           published = NoHead,
           evidence' \in EvidenceRecord,
           evidence' = evidence \/ (~evidence'.success /\ evidence'.of \in {tree, selector.at}),
           UNCHANGED <<lifecycle, tree, dirty, mainLog, request, report, answer, validated, published, serial, scope>>
    PROVE  EvidenceTypes' /\ EvidenceInv'
<1>1. EvidenceTypes'
  BY NothingProven DEF EvidenceTypes
<1>2. Grounded'
  <2>1. evidence'.of.base <= Len(mainLog)
    BY DEF EvidenceInv, Grounded
  <2>2. selector'.at.base <= Len(mainLog) /\ reviewer'.on.base <= Len(mainLog)
    BY NothingProven, HeadFacts DEF EvidenceInv, Grounded
  <2>3. \A i \in 1..Len(reviewer'.got) : reviewer'.got[i].on.base <= Len(mainLog)
    BY NothingProven, HeadFacts DEF EvidenceInv, Grounded
  <2> QED
    BY <2>1, <2>2, <2>3 DEF EvidenceInv, Grounded
<1>3. StageInv'
  BY NothingProven DEF StageInv, Managed
<1>4. Reviews'
  BY NothingProven DEF EvidenceInv, Reviews
<1>5. ReviewHolds'
  BY PublishedStays DEF ReviewHolds, Validating
<1>6. Validation'
  BY DEF EvidenceInv, Validation
<1> QED
  BY <1>1, <1>2, <1>3, <1>4, <1>5, <1>6 DEF EvidenceInv

LEMMA StopsStay ==
    ASSUME EvidenceTypes, EvidenceInv, ChecksFail \/ FinishStops \/ RunDies
    PROVE  EvidenceTypes' /\ EvidenceInv'
<1>1. CASE ChecksFail
  <2>1. /\ selector # NoSelector /\ WriteEvidence(FALSE) /\ finishing' = "idle" /\ selector' = NoSelector
        /\ UNCHANGED <<lifecycle, tree, dirty, mainLog, request, report, answer, reviewer, validated, published, serial, scope>>
    BY <1>1 DEF ChecksFail, workVars, reviewVars, boundVars
  <2>2. finishing \in {"idle", "checking"}
    BY <2>1 DEF EvidenceInv, StageInv
  <2>3. published = NoHead /\ reviewer.by # "finish"
    BY <2>2, NothingProven DEF EvidenceInv, StageInv
  <2>4. /\ evidence' \in EvidenceRecord
        /\ evidence' = evidence \/ (~evidence'.success /\ evidence'.of \in {tree, selector.at})
    BY <2>1, WrittenFacts
  <2> QED
    BY <2>1, <2>3, <2>4, Relapses
<1>2. CASE FinishStops
  <2>1. /\ finishing # "done" /\ finishing' = "idle" /\ selector' = NoSelector /\ reviewer' = NoReviewer
        /\ UNCHANGED <<lifecycle, tree, dirty, mainLog, evidence, request, report, answer, validated, published, serial, scope>>
    BY <1>2 DEF FinishStops, workVars, reviewVars, boundVars
  <2>2. published = NoHead /\ reviewer'.by # "finish" /\ ~(selector' # NoSelector)
    BY <2>1, NothingProven DEF EvidenceInv, StageInv
  <2>3. evidence' = evidence /\ evidence' \in EvidenceRecord
    BY <2>1 DEF EvidenceTypes
  <2> QED
    BY <2>1, <2>2, <2>3, Relapses
<1>3. CASE RunDies
  <2>1. /\ finishing = "idle" /\ finishing' = "idle" /\ selector' \in {selector, NoSelector} /\ reviewer' \in {reviewer, NoReviewer}
        /\ UNCHANGED <<lifecycle, tree, dirty, mainLog, evidence, request, report, answer, validated, published, serial, scope>>
    BY <1>3 DEF RunDies, workVars, reviewVars, boundVars
  <2>2. published = NoHead /\ reviewer'.by # "finish" /\ (selector' # NoSelector => selector.by = "agent")
    BY <2>1, NothingProven DEF EvidenceInv, StageInv
  <2>3. evidence' = evidence /\ evidence' \in EvidenceRecord
    BY <2>1 DEF EvidenceTypes
  <2> QED
    BY <2>1, <2>2, <2>3, Relapses
<1> QED
  BY <1>1, <1>2, <1>3

\* A request is prepared, and perhaps a review begun for it.
LEMMA RequestsStay ==
    ASSUME EvidenceTypes, EvidenceInv,
           (RequestCurrent /\ request' = request) \/ request' = NewRequest,
           serial' = serial + 1,
           UNCHANGED <<lifecycle, tree, dirty, mainLog, evidence, selector, report, answer, published, validated, scope>>,
           reviewer' \in ReviewerRecord, reviewer'.stage # "none" => reviewer'.on = tree, reviewer'.got = <<>>,
           reviewer'.on.base <= Len(mainLog),
           \/ finishing = "idle" /\ finishing' = "idle" /\ reviewer'.by # "finish"
           \/ finishing \in {"review", "quickReview"} /\ finishing' = "reviewing"
    PROVE  EvidenceTypes' /\ EvidenceInv'
<1>1. published = NoHead /\ StageInv
  BY DEF EvidenceInv, StageInv
<1>2. PICK z : z = NewRequest
  OBVIOUS
<1>3. tree \in HeadRecord /\ serial \in Nat /\ tree.base <= Len(mainLog)
  BY DEF EvidenceTypes, EvidenceInv, Grounded
<1>4. z \in [id : Nat, of : HeadRecord] /\ z.id = serial + 1 /\ z.of = tree
  BY <1>2, <1>3 DEF NewRequest
<1>5. EvidenceTypes'
  BY <1>2, <1>3, <1>4 DEF EvidenceTypes
<1>6. Grounded'
  BY <1>2, <1>3, <1>4 DEF EvidenceInv, Grounded
<1>7. StageInv'
  BY <1>1 DEF StageInv, Managed
<1>8. Reviews'
  <2>1. Like(mainLog, tree, tree)
    BY HeadFacts, LikeItself
  <2>2. Like(mainLog, request'.of, tree) \/ ~(reviewer'.stage # "none")
    BY <1>2, <1>4, <2>1, ProofsAreLike DEF RequestCurrent
  <2>3. request'.id <= serial' /\ \A p \in Perspectives : report[p].request <= serial
    BY <1>2, <1>3, <1>4, HeadFacts DEF EvidenceInv, Reviews, EvidenceTypes
  <2>4. \A p \in Perspectives : report[p].request \in Nat
    BY HeadFacts DEF ReportRecord
  <2>5. \A p \in Perspectives : report[p].request <= serial'
    BY <1>3, <2>3, <2>4
  <2>6. \A p \in Perspectives : report[p].request = request'.id => request' = request
    BY <1>2, <1>3, <1>4, <2>3, <2>4
  <2>7. \A p \in Perspectives :
           report[p].observed /\ report[p].available /\ report[p].request = request'.id =>
               Like(mainLog, request'.of, report[p].on)
    BY <2>6 DEF EvidenceInv, Reviews
  <2> QED
    BY <2>2, <2>3, <2>5, <2>7 DEF Reviews
<1>9. ReviewHolds'
  BY <1>1, PublishedStays DEF ReviewHolds, Validating
<1>10. Validation'
  <2>1. finishing' = "reviewing" /\ ~Managed => finishing = "quickReview"
    BY <1>1 DEF StageInv
  <2> QED
    BY <1>1, <2>1 DEF EvidenceInv, Validation, Managed
<1> QED
  BY <1>5, <1>6, <1>7, <1>8, <1>9, <1>10 DEF EvidenceInv

LEMMA PreparesStay ==
    ASSUME EvidenceTypes, EvidenceInv,
           PrepareRequest \/ \E ready \in BOOLEAN : AgentReviews(ready) \/ FinishReviews(ready)
    PROVE  EvidenceTypes' /\ EvidenceInv'
<1>1. CASE PrepareRequest
  <2>1. /\ request' = NewRequest /\ serial' = serial + 1 /\ finishing = "idle" /\ finishing' = "idle"
        /\ reviewer = NoReviewer /\ reviewer' = reviewer
        /\ UNCHANGED <<lifecycle, tree, dirty, mainLog, evidence, selector, report, answer, published, validated, scope>>
    BY <1>1 DEF PrepareRequest, AgentActs, workVars
  <2>2. /\ reviewer' \in ReviewerRecord /\ reviewer'.stage = "none" /\ reviewer'.got = <<>> /\ reviewer'.by # "finish"
        /\ reviewer'.on.base <= Len(mainLog)
    BY <2>1, NothingProven, HeadFacts
  <2> QED
    BY <2>1, <2>2, RequestsStay
<1>2. CASE \E ready \in BOOLEAN : AgentReviews(ready) \/ FinishReviews(ready)
  <2>1. PICK ready \in BOOLEAN : AgentReviews(ready) \/ FinishReviews(ready)
    BY <1>2
  <2>2. PICK by \in {"agent", "finish"} :
            /\ BeginReview(by, ready)
            /\ \/ by = "agent" /\ finishing = "idle" /\ finishing' = "idle"
               \/ finishing \in {"review", "quickReview"} /\ finishing' = "reviewing"
    BY <2>1 DEF AgentReviews, FinishReviews, AgentActs
  <2>3. UNCHANGED <<lifecycle, tree, dirty, mainLog, evidence, selector, report, answer, published, validated, scope>>
    BY <2>1 DEF AgentReviews, FinishReviews, workVars
  <2>4. PICK r : r = [NoReviewer EXCEPT !.by = by, !.stage = "next", !.ready = ready, !.on = tree]
    OBVIOUS
  <2>6. /\ (RequestCurrent /\ request' = request) \/ request' = NewRequest
        /\ serial' = serial + 1 /\ reviewer' = r
    BY <2>2, <2>4 DEF BeginReview
  <2>7. tree \in HeadRecord /\ NoHead \in HeadRecord /\ <<>> \in Seq(ReportRecord) /\ tree.base <= Len(mainLog)
    BY NothingProven DEF EvidenceTypes, EvidenceInv, Grounded
  <2>8. r \in ReviewerRecord /\ r.on = tree /\ r.got = <<>> /\ r.by = by
    BY <2>4, <2>7, NothingProven DEF ReviewerRecord
  <2> QED
    BY <2>2, <2>3, <2>6, <2>7, <2>8, RequestsStay
<1> QED
  BY <1>1, <1>2

\* What a reviewer may bring back, or be written of it.
Brought(r) == r.request = request.id /\ (r.available => r.on = reviewer.on) /\ r.on.base <= Len(mainLog)

LEMMA ReviewersStay ==
    ASSUME EvidenceTypes, EvidenceInv, reviewer.stage # "none", serial' \in Nat, serial <= serial',
           reviewer' \in ReviewerRecord, reviewer'.by = reviewer.by, reviewer'.on = reviewer.on,
           \A i \in 1..Len(reviewer'.got) : Brought(reviewer'.got[i]),
           report' \in [Perspectives -> ReportRecord],
           \A p \in Perspectives : report'[p] = report[p] \/ Brought(report'[p]),
           UNCHANGED <<lifecycle, tree, dirty, mainLog, evidence, selector, request, answer, published, validated, scope,
                       finishing>>
    PROVE  EvidenceTypes' /\ EvidenceInv'
<1>1. reviewer # NoReviewer /\ finishing \in {"idle", "reviewing"} /\ StageInv
  BY NothingProven DEF EvidenceInv, StageInv
<1>2. published = NoHead
  BY <1>1, NothingRests
<1>3. EvidenceTypes'
  BY DEF EvidenceTypes
<1>4. Grounded'
  <2>1. \A p \in Perspectives : report'[p].on.base <= Len(mainLog)
    BY DEF Brought, EvidenceInv, Grounded
  <2>2. \A i \in 1..Len(reviewer'.got) : reviewer'.got[i].on.base <= Len(mainLog)
    BY DEF Brought
  <2> QED
    BY <2>1, <2>2 DEF EvidenceInv, Grounded
<1>5. StageInv'
  BY <1>1, <1>2 DEF StageInv, Managed
<1>6. Reviews'
  <2>1. Like(mainLog, request.of, reviewer.on)
    BY DEF EvidenceInv, Reviews
  <2>2. request.id \in Nat /\ request.id <= serial /\ serial \in Nat
    BY DEF EvidenceInv, Reviews, EvidenceTypes
  <2>3. \A p \in Perspectives : report[p].request \in Nat /\ report[p].request <= serial
    BY HeadFacts DEF EvidenceInv, Reviews, ReportRecord
  <2>4. \A p \in Perspectives : report'[p].request <= serial'
    BY <2>2, <2>3 DEF Brought
  <2>5. \A p \in Perspectives :
           report'[p].observed /\ report'[p].available /\ report'[p].request = request.id =>
               Like(mainLog, request.of, report'[p].on)
    BY <2>1 DEF Brought, EvidenceInv, Reviews
  <2> QED
    BY <2>1, <2>2, <2>4, <2>5 DEF Reviews, Brought
<1>7. ReviewHolds'
  BY <1>1, <1>2, PublishedStays DEF ReviewHolds, Validating
<1>8. Validation'
  BY DEF EvidenceInv, Validation, Managed
<1> QED
  BY <1>3, <1>4, <1>5, <1>6, <1>7, <1>8 DEF EvidenceInv

\* What came back so far is what a reviewer may bring back.
LEMMA GotIsBrought ==
    ASSUME EvidenceTypes, EvidenceInv, reviewer.stage # "none"
    PROVE  \A i \in 1..Len(reviewer.got) : Brought(reviewer.got[i])
  BY DEF EvidenceInv, Reviews, Grounded, Brought

LEMMA LaunchStays ==
    ASSUME EvidenceTypes, EvidenceInv, LaunchPerspective
    PROVE  EvidenceTypes' /\ EvidenceInv'
<1>1. PICK r : r = [reviewer EXCEPT !.stage = "launched", !.seen = tree, !.clean = ~dirty]
  OBVIOUS
<1>2. r \in ReviewerRecord /\ r.by = reviewer.by /\ r.on = reviewer.on /\ r.got = reviewer.got
  BY <1>1 DEF EvidenceTypes, ReviewerRecord
<1>3. /\ reviewer.stage # "none" /\ reviewer' = r
      /\ UNCHANGED <<lifecycle, tree, dirty, mainLog, evidence, selector, request, report, answer, published, validated, scope,
                     serial, finishing>>
  BY <1>1 DEF LaunchPerspective, workVars, reviewVars, boundVars
<1>4. serial \in Nat /\ serial <= serial /\ report \in [Perspectives -> ReportRecord]
  BY DEF EvidenceTypes
<1> QED
  BY <1>2, <1>3, <1>4, GotIsBrought, ReviewersStay

LEMMA ReceivesStay ==
    ASSUME EvidenceTypes, EvidenceInv, reviewer.stage # "none", NEW outcome \in ReportRecord, Receive(outcome), Brought(outcome)
    PROVE  EvidenceTypes' /\ EvidenceInv'
<1>1. PICK r : r = [reviewer EXCEPT !.stage = "next", !.seen = NoHead, !.clean = TRUE, !.got = Append(@, outcome)]
  OBVIOUS
<1>2. reviewer.got \in Seq(ReportRecord)
  BY DEF EvidenceTypes, ReviewerRecord
<1>3. Append(reviewer.got, outcome) \in Seq(ReportRecord)
  BY <1>2
<1>4. r \in ReviewerRecord /\ r.by = reviewer.by /\ r.on = reviewer.on /\ r.got = Append(reviewer.got, outcome)
  BY <1>1, <1>3, NothingProven DEF EvidenceTypes, ReviewerRecord
<1>5. /\ reviewer' = r /\ serial' = serial + 1
      /\ UNCHANGED <<lifecycle, tree, dirty, mainLog, evidence, selector, request, report, answer, published, validated, scope,
                     finishing>>
  BY <1>1 DEF Receive, workVars, reviewVars
<1>6. serial' \in Nat /\ serial <= serial' /\ report \in [Perspectives -> ReportRecord]
  BY <1>5 DEF EvidenceTypes
<1>7. \A i \in 1..Len(r.got) : r.got[i] = outcome \/ (i \in 1..Len(reviewer.got) /\ r.got[i] = reviewer.got[i])
  BY <1>2, <1>4
<1>8. \A i \in 1..Len(r.got) : Brought(r.got[i])
  BY <1>7, GotIsBrought
<1> QED
  BY <1>4, <1>5, <1>6, <1>8, ReviewersStay

LEMMA OutcomesStay ==
    ASSUME EvidenceTypes, EvidenceInv, NotReady \/ \E answers, material \in BOOLEAN : EndPerspective(answers, material)
    PROVE  EvidenceTypes' /\ EvidenceInv'
<1>1. serial + 1 \in Nat /\ request.id \in Nat /\ NoHead \in HeadRecord /\ NoHead.base <= Len(mainLog) /\ reviewer.on \in HeadRecord
      /\ reviewer.on.base <= Len(mainLog)
  BY HeadFacts, NothingProven DEF EvidenceTypes, ReviewerRecord, EvidenceInv, Grounded
<1>2. PICK u : u = Unavailable(serial + 1)
  OBVIOUS
<1>3. u \in ReportRecord /\ Brought(u)
  BY <1>1, <1>2 DEF Unavailable, ReportRecord, Brought
<1>4. CASE NotReady
  BY <1>2, <1>3, <1>4, ReceivesStay DEF NotReady
<1>5. ASSUME NEW answers \in BOOLEAN, NEW material \in BOOLEAN, EndPerspective(answers, material)
      PROVE  EvidenceTypes' /\ EvidenceInv'
  <2>1. PICK a : a = Answered(serial + 1, material)
    OBVIOUS
  <2>2. a \in ReportRecord /\ Brought(a)
    BY <1>1, <2>1 DEF Answered, Unavailable, ReportRecord, Brought
  <2>3. reviewer.stage # "none" /\ (Receive(a) \/ Receive(u))
    BY <1>2, <1>5, <2>1 DEF EndPerspective
  <2> QED
    BY <1>3, <2>2, <2>3, ReceivesStay
<1> QED
  BY <1>4, <1>5

LEMMA ReportsStay ==
    ASSUME EvidenceTypes, EvidenceInv, NEW p \in Perspectives, WriteReport(p)
    PROVE  EvidenceTypes' /\ EvidenceInv'
<1>1. PICK r : r = [reviewer EXCEPT !.stage = "writing", !.got = Tail(@)]
  OBVIOUS
<1>2. /\ reviewer.stage # "none" /\ reviewer' = r /\ report' = [report EXCEPT ![p] = reviewer.got[1]]
      /\ UNCHANGED <<lifecycle, tree, dirty, mainLog, evidence, selector, request, answer, published, validated, scope, serial,
                     finishing>>
  BY <1>1 DEF WriteReport, workVars, boundVars
<1>3. reviewer.got \in Seq(ReportRecord)
  BY DEF EvidenceTypes, ReviewerRecord
<1>4. Len(reviewer.got) # 0
  <2>1. Cardinality(Perspectives) = 2
    <3>1. 1 \in Int /\ 2 \in Int
      OBVIOUS
    <3>2. Cardinality(1..2) = IF 1 > 2 THEN 0 ELSE 2 - 1 + 1
      BY <3>1, FS_Interval
    <3> QED
      BY <3>2 DEF Perspectives
  <2>2. p \in 1..2 /\ Len(reviewer.got) \in Nat
    BY <1>3 DEF Perspectives
  <2> QED
    BY <2>1, <2>2 DEF WriteReport, Remaining
<1>5. reviewer.got # <<>>
  BY <1>3, <1>4
<1>6. /\ Tail(reviewer.got) \in Seq(ReportRecord) /\ reviewer.got[1] \in ReportRecord /\ 1 \in 1..Len(reviewer.got)
      /\ \A i \in 1..Len(Tail(reviewer.got)) : i + 1 \in 1..Len(reviewer.got) /\ Tail(reviewer.got)[i] = reviewer.got[i + 1]
  BY <1>3, <1>4, <1>5
<1>7. r \in ReviewerRecord /\ r.by = reviewer.by /\ r.on = reviewer.on /\ r.got = Tail(reviewer.got)
  BY <1>1, <1>6 DEF EvidenceTypes, ReviewerRecord
<1>8. Brought(reviewer.got[1]) /\ \A i \in 1..Len(r.got) : Brought(r.got[i])
  BY <1>2, <1>6, <1>7, GotIsBrought
<1>9. report \in [Perspectives -> ReportRecord] /\ serial \in Nat /\ serial <= serial
  BY DEF EvidenceTypes
<1>10. /\ report' \in [Perspectives -> ReportRecord]
       /\ \A q \in Perspectives : report'[q] = report[q] \/ report'[q] = reviewer.got[1]
  BY <1>2, <1>6, <1>9
<1>11. \A q \in Perspectives : report'[q] = report[q] \/ Brought(report'[q])
  BY <1>8, <1>10
<1> QED
  BY <1>2, <1>7, <1>8, <1>9, <1>10, <1>11, ReviewersStay

LEMMA ReviewEndsStay ==
    ASSUME EvidenceTypes, EvidenceInv, EndReview
    PROVE  EvidenceTypes' /\ EvidenceInv'
<1>1. /\ reviewer.stage # "none" /\ reviewer' = NoReviewer
      /\ finishing' = IF reviewer.by = "finish" THEN IF Managed THEN "reviewed" ELSE "quickReviewed" ELSE finishing
      /\ UNCHANGED <<lifecycle, tree, dirty, mainLog, evidence, selector, request, report, answer, published, validated, scope,
                     serial>>
  BY DEF EndReview, workVars, reviewVars, boundVars
<1>2. reviewer # NoReviewer /\ finishing \in {"idle", "reviewing"} /\ StageInv
  BY <1>1, NothingProven DEF EvidenceInv, StageInv
<1>3. published = NoHead
  BY <1>2, NothingRests
<1>4. EvidenceTypes'
  BY <1>1, NothingProven DEF EvidenceTypes
<1>5. Grounded'
  <2>1. reviewer'.on.base <= Len(mainLog) /\ Len(reviewer'.got) = 0
    BY <1>1, NothingProven, HeadFacts
  <2> QED
    BY <1>1, <2>1 DEF EvidenceInv, Grounded
<1>6. reviewer.by = "finish" => finishing = "reviewing"
  BY <1>2 DEF StageInv
<1>7. StageInv'
  <2>1. Managed' <=> Managed
    BY <1>1 DEF Managed
  <2>2. selector # NoSelector => selector.by = "agent" /\ finishing = "idle" /\ finishing' = "idle"
    BY <1>1, <1>2, <1>6 DEF StageInv
  <2>3. finishing' \in {"review", "reviewed", "finalize", "archive"} => Managed
    BY <1>1, <1>2
  <2>4. selector.by = "archive" => Managed
    BY <1>2 DEF StageInv
  <2> QED
    BY <1>1, <1>3, <2>1, <2>2, <2>3, <2>4, NothingProven DEF StageInv
<1>8. Reviews'
  BY <1>1, NothingProven DEF EvidenceInv, Reviews
<1>9. ReviewHolds'
  <2>1. ~Validating' /\ finishing' # "publish"
    BY <1>1, <1>2 DEF Validating
  <2> QED
    BY <1>1, <1>3, <2>1, PublishedStays DEF ReviewHolds
<1>10. Validation'
  <2>1. finishing' = "quickReviewed" => finishing = "reviewing" /\ ~Managed
    BY <1>1, <1>2, <1>6
  <2>2. finishing' \in {"idle", "reviewing", "reviewed", "quickReviewed"} /\ (finishing' = "reviewing" => finishing = "reviewing")
    BY <1>1, <1>2
  <2>3. Managed' <=> Managed
    BY <1>1 DEF Managed
  <2> QED
    BY <1>1, <2>1, <2>2, <2>3 DEF EvidenceInv, Validation
<1> QED
  BY <1>4, <1>5, <1>7, <1>8, <1>9, <1>10 DEF EvidenceInv

\* A disposition, or a report of the agent's own making.
LEMMA DispositionsStay ==
    ASSUME EvidenceTypes, EvidenceInv, NEW p \in Perspectives,
           RecordReport(p) \/ \E rejected \in BOOLEAN : DisposeFinding(p, rejected)
    PROVE  EvidenceTypes' /\ EvidenceInv'
<1>1. /\ finishing = "idle" /\ serial' \in {serial, serial + 1}
      /\ UNCHANGED <<lifecycle, tree, dirty, mainLog, evidence, selector, request, reviewer, published, validated, scope, finishing>>
  BY DEF RecordReport, DisposeFinding, AgentActs, workVars, boundVars
<1>2. PICK u, r : u = Unavailable(serial + 1) /\ r = [u EXCEPT !.observed = FALSE, !.available = TRUE]
  OBVIOUS
<1>3. request.id \in Nat /\ serial \in Nat /\ NoHead \in HeadRecord
  BY NothingProven DEF EvidenceTypes
<1>4. r \in ReportRecord /\ ~r.observed /\ r.request = request.id /\ r.on = NoHead
  <2>1. u \in ReportRecord /\ u.request = request.id /\ u.on = NoHead
    BY <1>2, <1>3 DEF Unavailable, ReportRecord
  <2> QED
    BY <1>2, <2>1 DEF ReportRecord
<1>5. report' = report \/ report' = [report EXCEPT ![p] = r]
  BY <1>2 DEF RecordReport, DisposeFinding
<1>6. report' \in [Perspectives -> ReportRecord] /\ \A q \in Perspectives : report'[q] = report[q] \/ report'[q] = r
  BY <1>4, <1>5 DEF EvidenceTypes
<1>7. answer' \in [Perspectives -> [launch : Nat, rejected : BOOLEAN]]
  <2>1. \A q \in Perspectives : report[q].launch \in Nat
    BY HeadFacts DEF ReportRecord
  <2>2. CASE RecordReport(p)
    BY <2>2 DEF RecordReport, EvidenceTypes
  <2>3. ASSUME NEW rejected \in BOOLEAN, DisposeFinding(p, rejected)
        PROVE  answer' \in [Perspectives -> [launch : Nat, rejected : BOOLEAN]]
    <3>1. PICK a : a = [launch |-> report[p].launch, rejected |-> rejected]
      OBVIOUS
    <3>2. a \in [launch : Nat, rejected : BOOLEAN] /\ answer' = [answer EXCEPT ![p] = a]
      BY <2>1, <2>3, <3>1 DEF DisposeFinding
    <3> QED
      BY <3>2 DEF EvidenceTypes
  <2> QED
    BY <2>2, <2>3
<1>8. EvidenceTypes'
  BY <1>1, <1>3, <1>6, <1>7 DEF EvidenceTypes
<1>9. published = NoHead
  BY <1>1, NothingRests
<1>10. Grounded' /\ StageInv'
  <2>1. \A q \in Perspectives : report'[q].on.base <= Len(mainLog)
    BY <1>4, <1>6, NothingProven, HeadFacts DEF EvidenceInv, Grounded
  <2> QED
    BY <1>1, <2>1 DEF EvidenceInv, Grounded, StageInv, Managed
<1>11. Reviews'
  <2>1. request.id <= serial
    BY DEF EvidenceInv, Reviews
  <2>2. request.id <= serial' /\ \A n \in Nat : n <= serial => n <= serial'
    BY <1>1, <1>3, <2>1
  <2>3. \A q \in Perspectives : report'[q].request <= serial'
    BY <1>4, <1>6, <2>2, HeadFacts DEF EvidenceInv, Reviews, ReportRecord
  <2>4. \A q \in Perspectives :
           report'[q].observed /\ report'[q].available /\ report'[q].request = request.id =>
               Like(mainLog, request.of, report'[q].on)
    BY <1>4, <1>6 DEF EvidenceInv, Reviews
  <2> QED
    BY <1>1, <2>2, <2>3, <2>4 DEF EvidenceInv, Reviews
<1>12. ReviewHolds'
  BY <1>1, <1>9, PublishedStays DEF ReviewHolds, Validating
<1>13. Validation'
  BY <1>1 DEF EvidenceInv, Validation, Managed
<1> QED
  BY <1>8, <1>10, <1>11, <1>12, <1>13 DEF EvidenceInv

\* Publication: a review that is ready is one of the head itself, for main has not moved on.
LEMMA ReadyIsReviewed ==
    ASSUME EvidenceTypes, EvidenceInv, ReviewEvidence, FreshBase, tree.content \in scope.risky, NEW p \in Perspectives
    PROVE  /\ report[p].observed /\ report[p].available /\ StandsFor(report[p].on, tree)
           /\ report[p].material => answer[p] = [launch |-> report[p].launch, rejected |-> TRUE]
<1>1. Ready
  BY ReadyIsReady
<1>2. /\ report[p].request = request.id /\ report[p].observed /\ report[p].available
      /\ report[p].material => Rejected(p)
  BY <1>1 DEF Ready, Bound
<1>3. Like(mainLog, request.of, report[p].on) /\ Like(mainLog, request.of, tree)
  BY <1>1, <1>2, ProofsAreLike DEF Ready, EvidenceInv, Reviews
<1>4. StandsFor(report[p].on, tree)
  <2>1. \A i \in report[p].on.base + 1..tree.base : i \in request.of.base + 1..tree.base
    BY <1>3, HeadFacts DEF Like
  <2> QED
    BY <1>3, <2>1 DEF Like, Moved, StandsFor, MainMoved
<1>5. answer[p] \in [launch : Nat, rejected : BOOLEAN]
  BY DEF EvidenceTypes
<1>6. Rejected(p) => answer[p] = [launch |-> report[p].launch, rejected |-> TRUE]
  BY <1>5 DEF Rejected
<1> QED
  BY <1>2, <1>4, <1>6

LEMMA PublishStays ==
    ASSUME EvidenceTypes, EvidenceInv, Publish
    PROVE  EvidenceTypes' /\ EvidenceInv'
<1>1. /\ finishing = "publish" /\ FreshBase /\ published' = tree /\ finishing' = "done"
      /\ UNCHANGED <<lifecycle, tree, dirty, mainLog, evidence, selector, request, report, answer, reviewer, validated, scope, serial>>
  BY DEF Publish, workVars, reviewVars, boundVars
<1>2. selector = NoSelector /\ reviewer = NoReviewer /\ ReviewEvidence /\ StageInv
  BY <1>1 DEF EvidenceInv, StageInv, ReviewHolds
<1>3. EvidenceTypes' /\ Grounded' /\ Reviews'
  BY <1>1 DEF EvidenceTypes, EvidenceInv, Grounded, Reviews
<1>4. StageInv'
  BY <1>1, <1>2, NothingProven DEF StageInv, Managed
<1>5. PublishedIsReviewed'
  <2>1. \A p \in Perspectives : tree.content \in scope.risky =>
            /\ report[p].observed /\ report[p].available /\ StandsFor(report[p].on, tree)
            /\ report[p].material => answer[p] = [launch |-> report[p].launch, rejected |-> TRUE]
    BY <1>1, <1>2, ReadyIsReviewed
  <2>2. \A p \in Perspectives : StandsFor(report[p].on, tree)' <=> StandsFor(report[p].on, tree)
    BY <1>1 DEF StandsFor, MainMoved
  <2> QED
    BY <1>1, <2>1, <2>2 DEF PublishedIsReviewed, StandsFor, MainMoved
<1>6. ReviewHolds'
  BY <1>1, <1>5 DEF ReviewHolds, Validating
<1>7. Validation'
  BY <1>1 DEF EvidenceInv, Validation
<1> QED
  BY <1>3, <1>4, <1>6, <1>7 DEF EvidenceInv

LEMMA EvidenceStep == EvidenceTypes /\ EvidenceInv /\ [EvidenceNext]_evidenceVars => EvidenceTypes' /\ EvidenceInv'
<1> SUFFICES ASSUME EvidenceTypes, EvidenceInv, [EvidenceNext]_evidenceVars PROVE EvidenceTypes' /\ EvidenceInv'
  OBVIOUS
<1>1. CASE AgentStep
  <2>1. CASE EditTask \/ Verify
    BY <2>1, GatesStay
  <2>2. CASE \E c \in Contents : Commit(c) \/ Reconcile(c)
    BY <2>2, CommitsStay
  <2>3. CASE AgentChecks
    BY <2>3, StartsStay
  <2>4. CASE PrepareRequest \/ \E ready \in BOOLEAN : AgentReviews(ready)
    BY <2>4, PreparesStay
  <2>5. CASE (\E p \in Perspectives, rejected \in BOOLEAN : DisposeFinding(p, rejected))
             \/ (\E p \in Perspectives : RecordReport(p))
    BY <2>5, DispositionsStay
  <2>6. CASE RunDies
    BY <2>6, StopsStay
  <2> QED
    BY <1>1, <2>1, <2>2, <2>3, <2>4, <2>5, <2>6 DEF AgentStep
<1>2. CASE \E what \in {"task", "checks", "other"} : MainMovesOn(what)
  BY <1>2, MainStays
<1>3. CASE \E c \in UNION {Selected[v] : v \in Contents} \cup {Added} : CommandSucceeds(c)
  BY <1>3, CommandsStay DEF Commands
<1>4. CASE ChecksPass \/ ChecksFail
  BY <1>4, PassesStay, StopsStay
<1>5. CASE ReviewStep
  BY <1>5, LaunchStays, OutcomesStay, ReportsStay, ReviewEndsStay DEF ReviewStep
<1>6. CASE FinishStep
  BY <1>6, GatesStay, StartsStay, PreparesStay, PublishStays, StopsStay DEF FinishStep
<1>7. CASE UNCHANGED evidenceVars
  <2>1. /\ dirty' \in BOOLEAN /\ UNCHANGED <<lifecycle, finishing>>
        /\ UNCHANGED <<tree, mainLog, evidence, selector, validated, published, request, report, answer, reviewer, serial, scope>>
    BY <1>7 DEF evidenceVars, workVars, reviewVars, boundVars, EvidenceTypes
  <2>2. (Managed' <=> Managed) /\ (Validating' <=> Validating)
    BY <2>1 DEF Managed, Validating
  <2>3. StageInv'
    BY <2>1, <2>2 DEF EvidenceInv, StageInv
  <2> QED
    BY <2>1, <2>2, <2>3, Decides DEF EvidenceInv, ReviewHolds, Validation
<1> QED
  BY <1>1, <1>2, <1>3, <1>4, <1>5, <1>6, <1>7 DEF EvidenceNext

LEMMA ScopeStays == [EvidenceNext]_evidenceVars => scope' = scope
<1> SUFFICES ASSUME [EvidenceNext]_evidenceVars PROVE scope' = scope
  OBVIOUS
<1>1. CASE AgentStep
  BY <1>1 DEF AgentStep, EditTask, Verify, Commit, Reconcile, AgentChecks, PrepareRequest, AgentReviews, DisposeFinding,
     RecordReport, RunDies, boundVars
<1>2. CASE ReviewStep
  BY <1>2 DEF ReviewStep, LaunchPerspective, EndPerspective, NotReady, Receive, WriteReport, EndReview, boundVars
<1>3. CASE FinishStep
  BY <1>3 DEF FinishStep, BeginFinish, FinishReviews, ReviewStands, FinalizeReuses, FinalizeChecks, ArchiveChange, PassGates,
     ValidationReused, ValidationRuns, Publish, FinishStops, GoOn, boundVars
<1> QED
  BY <1>1, <1>2, <1>3 DEF EvidenceNext, MainMovesOn, CommandSucceeds, ChecksPass, ChecksFail, boundVars, evidenceVars

LEMMA EvidenceIsSound == EvidenceSpec => [](EvidenceTypes /\ EvidenceInv)
  BY EvidenceStarts, EvidenceStep, PTL DEF EvidenceSpec

\* PublishedIsReviewed: whatever checks, commits, merges of main, archives and interrupted reviews lie between, content that changes a
\* protected path is published only after both perspectives have read exactly it and none has a material finding that
\* stands (independent_review.py: evaluate).
THEOREM RiskyWorkIsReviewed == EvidenceSpec => []PublishedIsReviewed
<1>1. EvidenceInv => PublishedIsReviewed
  BY DEF EvidenceInv, ReviewHolds
<1> QED
  BY EvidenceIsSound, <1>1, PTL

\* PublishedIsValidated: as long as the agent commits nothing while one of its own check runs is under way, what is
\* published has passed every command of its selection in one run on that content, for any contents, selections and
\* moves of main (openspec_lifecycle.py: check_evidence_reuse).  A behaviour keeps its bounds, so the condition is one on
\* its first state; without it there is evidence for a content that did not run (EvidenceIsOfWhatRan).
THEOREM PublishedWorkHasPassed == EvidenceSpec /\ ~scope.overlap => []PublishedIsValidated
<1>1. EvidenceInv /\ ~scope.overlap => PublishedIsValidated
  <2> SUFFICES ASSUME EvidenceInv, ~scope.overlap, published # NoHead
               PROVE  \E v \in validated : StandsFor(v.at, published) /\ Required(published) \subseteq v.ran
    BY DEF PublishedIsValidated
  <2>1. Covered(mainLog, validated, published)
    BY DEF EvidenceInv, Validation
  <2> QED
    BY <2>1, ProofsAreLike DEF Covered
<1>2. ~scope.overlap /\ [EvidenceNext]_evidenceVars => (~scope.overlap)'
  BY ScopeStays
<1> QED
  BY EvidenceIsSound, <1>1, <1>2, PTL DEF EvidenceSpec

====

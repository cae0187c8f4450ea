---- MODULE TaskIntake ----
(* The life of one managed task outside of its implementation (managed_task.py):  *)
(* authors create its Issue and publish the package in a comment, supersede the   *)
(* package, an importer materializes it in a worktree, and delivery resolves the  *)
(* process evidence it is linked to.                                             *)
(*                                                                            *)
(* Every command is a sequence of reads and writes on GitHub or on local files;  *)
(* it can fail or be killed between any two of them, and is run again.  The body *)
(* of an Issue is the number of its edits, a package is what it was made from.   *)
EXTENDS Naturals, Sequences, FiniteSets

CONSTANTS
    Authors,        \* sessions that author packages of the change
    Evidence,       \* process Issues that the package may be linked to
    IntakeBounds    \* how far a behaviour goes

ASSUME IntakeAssumption ==
    IntakeBounds \subseteq [authors: SUBSET Authors, refs: SUBSET Evidence, runs: Nat, edits: Nat,
                            moves: Nat, imports: Nat, closes: Nat]

VARIABLES
    target,      \* the revision of the target's main branch
    issues,      \* the Issues of the change: the edits of each, and whether it is labelled
    packages,    \* the package comments in the order they were posted, with their markers
    author,      \* what each author is doing, with what it has read
    local,       \* the task worktree: change directory, the package in it, task state file
    importer,    \* the import under way
    linked,      \* of each process Issue: is it there, open, labelled, noted; who closed it
    resolver,    \* the terminal resolution under way
    raced,       \* history: two authors wrote on the strength of the same observation
    limits, runs, imports    \* bounds of this behaviour, and its counters

remote == <<target, issues, packages>>
delivery == <<linked, resolver>>
worktree == <<local, importer>>
counters == <<limits, runs, imports>>
intakeVars == <<remote, author, worktree, delivery, raced, counters>>

NoPackage == [issue |-> 0, content |-> 0, base |-> 0, body |-> 0, prior |-> 0, refs |-> {}]
NoWork == [command |-> "none", stage |-> "idle", issue |-> 0, content |-> 0, base |-> 0, body |-> 0,
           prior |-> 0, refs |-> {}]
NoImport == [stage |-> "idle", of |-> NoPackage]
NoTask == [directory |-> "none", of |-> NoPackage, state |-> FALSE]
NoResolution == [stage |-> "idle", left |-> {}, at |-> {}]
Unlinked == [state |-> "open", managed |-> FALSE, backlink |-> FALSE, note |-> FALSE, ours |-> FALSE, disposed |-> FALSE]

IntakeInit ==
    /\ target = 0 /\ issues = <<>> /\ packages = <<>>
    /\ author = [a \in Authors |-> NoWork]
    /\ local = NoTask /\ importer = NoImport
    /\ linked = [e \in Evidence |-> Unlinked] /\ resolver = NoResolution
    /\ raced = FALSE
    /\ limits \in IntakeBounds /\ runs = 0 /\ imports = 0

----
(* What a reader of GitHub sees. *)

Active(n) == {i \in 1..Len(packages) : packages[i].of.issue = n /\ packages[i].active}

\* The package that an import finds: none and several are refused.
Parsed(n) == IF Cardinality(Active(n)) = 1 THEN packages[CHOOSE i \in Active(n) : TRUE].of ELSE NoPackage

Unmarked(n) == FALSE
Marked(n) == Active(n) # {}

\* The revision of a package leaves the evidence of its Issue out.
Revision(p) == [p EXCEPT !.body = 0]

\* The content of a package, without the link to its predecessor.
Content(p) == [p EXCEPT !.body = 0, !.prior = 0]

Agrees(p) == p.body = issues[p.issue].edits

----
(* Authoring: create *)

At(a, command, stage) == author[a].command = command /\ author[a].stage = stage
Work(a, w) == author' = [author EXCEPT ![a] = w]
Continue(a, stage) == Work(a, [author[a] EXCEPT !.stage = stage])

\* The bundle, the labels of the backlog and the linked evidence are checked first.
BeginCreate(a) ==
    /\ a \in limits.authors /\ author[a] = NoWork /\ runs < limits.runs
    /\ \A e \in limits.refs : linked[e].state = "open"
    /\ Work(a, [NoWork EXCEPT !.command = "create", !.stage = "list", !.base = target, !.content = 1, !.refs = limits.refs])
    /\ runs' = runs + 1
    /\ UNCHANGED <<remote, worktree, delivery, raced, limits, imports>>

\* The one Issue of the change with an authoring receipt is resumed, several are refused.
ListIssues(a) ==
    /\ At(a, "create", "list")
    /\ Work(a, IF issues = <<>> THEN [author[a] EXCEPT !.stage = "new"]
               ELSE IF Len(issues) = 1 THEN [author[a] EXCEPT !.stage = "labels", !.issue = 1, !.body = issues[1].edits]
               ELSE NoWork)
    /\ UNCHANGED <<remote, worktree, delivery, raced, counters>>

SameObservation(a) == \E b \in Authors \ {a} : author[b].stage = author[a].stage /\ author[b].issue = author[a].issue

\* The Issue may be there and its labels, or the answer, be lost.
CreateIssue(a, labelled) ==
    /\ At(a, "create", "new")
    /\ issues' = Append(issues, [edits |-> 0, labelled |-> labelled])
    /\ raced' = (raced \/ SameObservation(a))
    /\ Work(a, IF labelled THEN [author[a] EXCEPT !.stage = "fetch", !.issue = Len(issues) + 1] ELSE NoWork)
    /\ UNCHANGED <<target, packages, worktree, delivery, counters>>

\* Only missing labels are written, and then the Issue is read again.
RepairLabels(a) ==
    /\ At(a, "create", "labels")
    /\ issues' = [issues EXCEPT ![author[a].issue].labelled = TRUE]
    /\ Continue(a, IF issues[author[a].issue].labelled THEN "publish" ELSE "fetch")
    /\ UNCHANGED <<target, packages, worktree, delivery, raced, counters>>

FetchIssue(a) ==
    /\ author[a].stage = "fetch"
    /\ Work(a, [author[a] EXCEPT !.stage = IF author[a].command = "create" THEN "publish" ELSE "predecessor",
                                 !.body = issues[author[a].issue].edits])
    /\ UNCHANGED <<remote, worktree, delivery, raced, counters>>

PackageFor(a) ==
    [issue |-> author[a].issue, content |-> author[a].content, base |-> author[a].base, body |-> author[a].body,
     prior |-> author[a].prior, refs |-> author[a].refs]

After(a) == IF author[a].command = "create" THEN [author[a] EXCEPT !.stage = "verify"] ELSE NoWork

\* publish_package: a package that is there has to be the same, and is not posted again.
ReadPackages(a) ==
    /\ author[a].stage = "publish"
    /\ LET n == author[a].issue
       IN Work(a, IF ~Marked(n) THEN [author[a] EXCEPT !.stage = "post"]
                  ELSE IF Parsed(n) # NoPackage /\ Revision(Parsed(n)) = Revision(PackageFor(a)) THEN After(a)
                  ELSE NoWork)
    /\ UNCHANGED <<remote, worktree, delivery, raced, counters>>

PostPackage(a) ==
    /\ author[a].stage = "post"
    /\ packages' = Append(packages, [of |-> PackageFor(a), active |-> TRUE])
    /\ raced' = (raced \/ SameObservation(a))
    /\ Work(a, After(a))
    /\ UNCHANGED <<target, issues, worktree, delivery, counters>>

\* The pair is read back: labels, package and the evidence of the Issue.
VerifyPublished(a) ==
    /\ At(a, "create", "verify")
    /\ LET n == author[a].issue
       IN Work(a, IF issues[n].labelled /\ Parsed(n) = PackageFor(a) /\ Agrees(PackageFor(a))
                  THEN [author[a] EXCEPT !.stage = "link"] ELSE NoWork)
    /\ UNCHANGED <<remote, worktree, delivery, raced, counters>>

\* Each process Issue gets the label and the backlink it misses; one that is closed is refused.
LinkEvidence(a, e) ==
    /\ At(a, "create", "link") /\ e \in author[a].refs
    /\ linked[e].state = "open" /\ ~(linked[e].managed /\ linked[e].backlink)
    /\ linked' = [linked EXCEPT ![e].managed = TRUE, ![e].backlink = linked[e].managed]
    /\ UNCHANGED <<remote, author, worktree, resolver, raced, counters>>

EndCreate(a) ==
    /\ At(a, "create", "link")
    /\ \A e \in author[a].refs : linked[e].managed /\ linked[e].backlink
    /\ Work(a, NoWork)
    /\ UNCHANGED <<remote, worktree, delivery, raced, counters>>

\* A check or a call fails, or the command is killed.
AuthorStops(a) ==
    /\ author[a] # NoWork /\ Work(a, NoWork)
    /\ UNCHANGED <<remote, worktree, delivery, raced, counters>>

----
(* Authoring: supersede *)

BeginSupersede(a, n) ==
    /\ a \in limits.authors /\ author[a] = NoWork /\ runs < limits.runs
    /\ Work(a, [NoWork EXCEPT !.command = "supersede", !.stage = "fetch", !.base = target, !.content = 2, !.issue = n])
    /\ runs' = runs + 1
    /\ UNCHANGED <<remote, worktree, delivery, raced, limits, imports>>

\* Without a predecessor there is nothing to take the linked evidence from.
Inherited(n) == IF Marked(n) THEN Parsed(n).refs ELSE {}

\* Once the task is in review nothing is replaced, and equal content is not published twice.
ReadPredecessor(a) ==
    /\ At(a, "supersede", "predecessor")
    /\ LET n == author[a].issue
           found == [author[a] EXCEPT !.refs = Inherited(n)]
           p == [PackageFor(a) EXCEPT !.refs = Inherited(n)]
       IN Work(a, IF \/ Cardinality(Active(n)) > 1
                     \/ \E e \in Inherited(n) : linked[e].state # "open"
                     \/ resolver.stage # "idle"
                     \/ Marked(n) /\ Content(Parsed(n)) = Content(p) THEN NoWork
                  ELSE IF Marked(n) THEN [found EXCEPT !.stage = "patch", !.prior = CHOOSE i \in Active(n) : TRUE]
                  ELSE [found EXCEPT !.stage = "publish"])
    /\ UNCHANGED <<remote, worktree, delivery, raced, counters>>

\* The comment is rewritten to a marker that no reader takes for a package.
PatchPredecessor(a) ==
    /\ At(a, "supersede", "patch")
    /\ packages' = [packages EXCEPT ![author[a].prior].active = FALSE]
    /\ Continue(a, "publish")
    /\ UNCHANGED <<target, issues, worktree, delivery, raced, counters>>

----
(* Import: one command of the task's worktree *)

\* discover_task; a managed start gives the revision it found before as well.
Discover(n) ==
    /\ importer = NoImport /\ imports < limits.imports
    /\ Parsed(n) # NoPackage
    /\ local.state => local.of.issue = n
    /\ importer' = [stage |-> IF local.directory = "none" THEN "drift" ELSE "resume", of |-> Parsed(n)]
    /\ imports' = imports + 1
    /\ UNCHANGED <<remote, author, local, delivery, raced, limits, runs>>

\* A directory that is there needs the provenance of this Issue.
DirectoryThere(p) == local.directory # "none"
Resumable(p) == local.directory = "complete" /\ local.of.issue = p.issue

ResumeImport ==
    /\ importer.stage = "resume"
    /\ local' = [local EXCEPT !.state = @ \/ Resumable(importer.of)]
    /\ importer' = NoImport
    /\ UNCHANGED <<remote, author, delivery, raced, counters>>

\* An edit of the Issue since the package was made has to be acknowledged.
CheckDrift(acknowledged) ==
    /\ importer.stage = "drift"
    /\ importer' = IF Agrees(importer.of) \/ acknowledged THEN [importer EXCEPT !.stage = "create"] ELSE NoImport
    /\ UNCHANGED <<remote, author, local, delivery, raced, counters>>

CreateDirectory ==
    /\ importer.stage = "create"
    /\ local' = [directory |-> "bare", of |-> importer.of, state |-> FALSE]
    /\ importer' = [importer EXCEPT !.stage = "provenance"]
    /\ UNCHANGED <<remote, author, delivery, raced, counters>>

\* The artifacts are validated and the provenance is written with them.
WriteProvenance ==
    /\ importer.stage = "provenance"
    /\ local' = [local EXCEPT !.directory = "complete"]
    /\ importer' = [importer EXCEPT !.stage = "state"]
    /\ UNCHANGED <<remote, author, delivery, raced, counters>>

WriteTaskState ==
    /\ importer.stage = "state"
    /\ local' = [local EXCEPT !.state = TRUE]
    /\ importer' = NoImport
    /\ UNCHANGED <<remote, author, delivery, raced, counters>>

\* An exception takes the directory away again.
ImportFails ==
    /\ importer.stage \in {"provenance", "state"}
    /\ local' = NoTask /\ importer' = NoImport
    /\ UNCHANGED <<remote, author, delivery, raced, counters>>

ImporterDies ==
    /\ importer # NoImport /\ importer' = NoImport
    /\ UNCHANGED <<remote, author, local, delivery, raced, counters>>

----
(* Terminal resolution of the linked evidence, once the task is delivered *)

\* delivery_identity: the task state and the provenance name the same task.
BeginResolution ==
    /\ resolver.stage \in {"idle", "stopped", "done"}
    /\ local.state /\ local.directory = "complete"
    /\ resolver' = [stage |-> "next", left |-> local.of.refs, at |-> {}]
    /\ UNCHANGED <<remote, author, worktree, linked, raced, counters>>

NoteLast == [next |-> "close", close |-> "note", note |-> "next"]
StepAfter == [next |-> "note", note |-> "close", close |-> "next"]

Proceed(e) ==
    IF StepAfter[resolver.stage] = "next" THEN [stage |-> "next", left |-> resolver.left \ {e}, at |-> {}]
    ELSE [resolver EXCEPT !.stage = StepAfter[resolver.stage], !.at = {e}]

\* Closed evidence is left as it is; what cannot be read needs a disposition.
ReadEvidence(e) ==
    /\ resolver.stage = "next" /\ e \in resolver.left
    /\ resolver' = IF linked[e].state = "open" THEN Proceed(e)
                   ELSE IF linked[e].state = "closed" \/ linked[e].disposed THEN [resolver EXCEPT !.left = @ \ {e}]
                   ELSE [resolver EXCEPT !.stage = "stopped"]
    /\ UNCHANGED <<remote, author, worktree, linked, raced, counters>>

\* The note is written unless it is there from an earlier attempt.
NoteResolution(e) ==
    /\ resolver.at = {e} /\ linked[e].state # "gone"
    /\ resolver.stage = "note" /\ resolver' = Proceed(e)
    /\ linked' = [linked EXCEPT ![e].note = TRUE]
    /\ UNCHANGED <<remote, author, worktree, raced, counters>>

CloseEvidence(e) ==
    /\ resolver.at = {e} /\ linked[e].state # "gone"
    /\ resolver.stage = "close" /\ resolver' = Proceed(e)
    /\ linked' = [linked EXCEPT ![e].state = "closed", ![e].ours = TRUE]
    /\ UNCHANGED <<remote, author, worktree, raced, counters>>

EndResolution ==
    /\ resolver.stage = "next" /\ resolver.left = {}
    /\ resolver' = [NoResolution EXCEPT !.stage = "done"]
    /\ UNCHANGED <<remote, author, worktree, linked, raced, counters>>

\* A call fails, or the finish is killed; it is run again.
ResolverStops ==
    /\ resolver.stage \in {"next", "note", "close"}
    /\ resolver' = [NoResolution EXCEPT !.stage = "stopped"]
    /\ UNCHANGED <<remote, author, worktree, linked, raced, counters>>

\* dispose-process-evidence: for a definite absence alone.
Dispose(e) ==
    /\ local.state /\ e \in local.of.refs
    /\ linked[e].state = "gone" /\ ~linked[e].disposed
    /\ linked' = [linked EXCEPT ![e].disposed = TRUE]
    /\ UNCHANGED <<remote, author, worktree, resolver, raced, counters>>

----
(* Others *)

TargetMoves ==
    /\ target < limits.moves /\ target' = target + 1
    /\ UNCHANGED <<issues, packages, author, worktree, delivery, raced, counters>>

UserEdits(n) ==
    /\ issues[n].edits < limits.edits
    /\ issues' = [issues EXCEPT ![n].edits = @ + 1]
    /\ UNCHANGED <<target, packages, author, worktree, delivery, raced, counters>>

EvidenceEnds(e, state) ==
    /\ linked[e].state = "open"
    /\ Cardinality({f \in Evidence : linked[f].state # "open" /\ ~linked[f].ours}) < limits.closes
    /\ linked' = [linked EXCEPT ![e].state = state]
    /\ UNCHANGED <<remote, author, worktree, resolver, raced, counters>>

Numbers == 1..Len(issues)

IntakeNext ==
    \/ \E a \in Authors : \/ BeginCreate(a) \/ ListIssues(a) \/ RepairLabels(a) \/ FetchIssue(a) \/ ReadPackages(a)
                          \/ PostPackage(a) \/ VerifyPublished(a) \/ EndCreate(a) \/ ReadPredecessor(a)
                          \/ PatchPredecessor(a) \/ AuthorStops(a)
    \/ \E a \in Authors, labelled \in BOOLEAN : CreateIssue(a, labelled)
    \/ \E a \in Authors, e \in Evidence : LinkEvidence(a, e)
    \/ \E a \in Authors, n \in Numbers : BeginSupersede(a, n)
    \/ \E n \in Numbers : Discover(n) \/ UserEdits(n)
    \/ \E acknowledged \in BOOLEAN : CheckDrift(acknowledged)
    \/ ResumeImport \/ CreateDirectory \/ WriteProvenance \/ WriteTaskState \/ ImportFails \/ ImporterDies
    \/ BeginResolution \/ EndResolution \/ ResolverStops
    \/ \E e \in Evidence : ReadEvidence(e) \/ NoteResolution(e) \/ CloseEvidence(e) \/ Dispose(e)
    \/ \E e \in Evidence, state \in {"closed", "gone"} : EvidenceEnds(e, state)
    \/ TargetMoves

IntakeSpec == IntakeInit /\ [][IntakeNext]_intakeVars

----
(* Properties *)

\* Whatever is killed and retried, with whatever revision of main: there is one Issue for the
\* change with one active package at most, unless two authors posted on the same observation
\* (candidate_summary, publish_package).  And a task state in the worktree stands for a complete
\* contract, also when an import was killed half way: delivery relies on its provenance (import_task).
OneTask ==
    /\ raced \/ (Len(issues) <= 1 /\ \A n \in Numbers : Cardinality(Active(n)) <= 1)
    /\ local.state => local.directory = "complete"

\* Evidence that the platform closed says which delivery resolved it: what is closed is never
\* looked at again (resolve_process_evidence_after_delivery).
ClosedIsExplained == \A e \in Evidence : linked[e].ours => linked[e].note

\* "preserve bounded predecessor revision evidence": an active package that replaces one of its
\* Issue has the link to it and the linked evidence.  A supersede that was killed after the patch
\* finds no predecessor when it is run again (supersede_task).
SupersedeKeepsLinks ==
    raced \/ \A i \in 1..Len(packages), j \in 1..Len(packages) :
        packages[i].active /\ j < i /\ packages[j].of.issue = packages[i].of.issue =>
            packages[i].of.refs = packages[j].of.refs

====

---- MODULE CompletionEvidence ----
(* What a task must prove before it is published: the checks that ran on its   *)
(* content (select_checks.py, openspec_lifecycle.py) and the independent       *)
(* review of it (independent_review.py, independent_review_runner.py).         *)
(*                                                                            *)
(* Evidence is bound to content, not to a commit: the blobs of the task's own  *)
(* paths, without its receipts, and the main it stands on                      *)
(* (task_content_identity.py).  A head is such a content and the number of     *)
(* main's commits it contains.  The agent edits and commits, main moves, a     *)
(* run of the checks and a reviewer take their time, and finish decides stage  *)
(* by stage which evidence still stands.                                      *)
EXTENDS Naturals, Sequences, FiniteSets

CONSTANTS
    Contents,         \* the contents the task can have
    Selected,         \* the commands the selection asks for, by content
    Added,            \* a command that main's check configuration may add to each of them
    Full,             \* the command of the full validation set
    EvidenceBounds    \* how far a behaviour goes: whether the agent checks and reviews by itself, whether it
                      \* commits during its own check runs, and which contents change a protected path

ASSUME EvidenceAssumption ==
    /\ DOMAIN Selected = Contents
    /\ EvidenceBounds \subseteq [moves: Nat, commits: Nat, serials: Nat, alone: SUBSET {"checks", "reviews"},
                           overlap: BOOLEAN, risky: SUBSET Contents]

VARIABLES
    lifecycle,    \* "quick", or of a managed change "active" or "archived"
    packageReady,     \* the package is complete and its PASS receipt cites the evidence
    tree,         \* the task's head
    dirty,        \* task content that is not committed
    mainLog,      \* what main's commits changed: "task" paths, "checks" configuration, "other"
    evidence,     \* automated-checks.json, of a quick task check-evidence.json
    selector,     \* the run of select_checks.py under way
    request, report, answer,   \* the review request, its reports, their dispositions
    reviewer,     \* the review under way
    finishing,    \* the stage of the finish under way
    published,    \* the head that was handed to publication
    validated,    \* history: heads and the commands that succeeded on them
    commits, serial, scope     \* counters, and the bounds of this behaviour

reviewVars == <<request, report, answer>>
boundVars == <<commits, serial, scope>>
workVars == <<lifecycle, packageReady, tree, dirty, mainLog>>
evidenceVars == <<workVars, evidence, selector, reviewVars, reviewer, finishing, published, validated, boundVars>>

\* Contract fidelity and engineering quality, in this order.
Perspectives == 1..2

NoHead == [content |-> 0, base |-> 0]
NoEvidence == [of |-> NoHead, success |-> FALSE, ran |-> {}, at |-> NoHead]
NoSelector == [by |-> "none", at |-> NoHead, done |-> {}]
NoReviewRequest == [id |-> 0, of |-> NoHead]
NoReport == [request |-> 0, launch |-> 0, observed |-> FALSE, available |-> FALSE, material |-> FALSE, on |-> NoHead]
NoAnswer == [launch |-> 0, rejected |-> FALSE]
NoReviewer == [by |-> "none", stage |-> "none", ready |-> FALSE, on |-> NoHead, seen |-> NoHead, clean |-> TRUE,
               got |-> <<>>]

EvidenceInit ==
    /\ lifecycle \in {"quick", "active"}
    /\ packageReady = FALSE
    /\ tree \in [content: Contents, base: {0}]
    /\ dirty = FALSE /\ mainLog = <<>>
    /\ evidence = NoEvidence /\ selector = NoSelector
    /\ request = NoReviewRequest
    /\ report = [p \in Perspectives |-> NoReport]
    /\ answer = [p \in Perspectives |-> NoAnswer]
    /\ reviewer = NoReviewer /\ finishing = "idle" /\ published = NoHead /\ validated = {}
    /\ commits = 0 /\ serial = 0 /\ scope \in EvidenceBounds

----
(* Proofs of content and what they decide. *)

MainMoved(from, to, what) == \E i \in from + 1..to : mainLog[i] = what

NeverTouched(old, new) == FALSE
TouchedBetween(old, new) == MainMoved(old.base, new.base, "task")

\* Equal task content across a base move with no task-path overlap.
EquivalentProofs(recorded, current) ==
    /\ recorded.content = current.content
    /\ recorded.base <= current.base
    /\ ~TouchedBetween(recorded, current)

\* The selection select_checks.py would execute at a head.
Required(h) == Selected[h.content] \cup IF MainMoved(0, h.base, "checks") THEN {Added} ELSE {}

AnyRun(ran, h) == ran # {}
Covers(ran, h) == Required(h) \subseteq ran

\* The one rule by which check evidence stands for a new run.
Reusable == evidence.success /\ EquivalentProofs(evidence.of, tree) /\ Covers(evidence.ran, tree)

\* What archive and publication ask of a managed change's evidence.
MatchesCheckout == EquivalentProofs(evidence.of, tree)
AutomatedEvidence == evidence.success /\ MatchesCheckout

ReviewRequired == tree.content \in scope.risky

Bound(p) == report[p].request = request.id /\ report[p].observed

SomeRejection(p) == answer[p].rejected
Rejected(p) == answer[p].launch = report[p].launch /\ answer[p].rejected

RequestCurrent == request # NoReviewRequest /\ EquivalentProofs(request.of, tree)

\* The state of the review derived from its files.
ReviewState ==
    IF request = NoReviewRequest THEN "missing"
    ELSE IF ~EquivalentProofs(request.of, tree) THEN "stale"
    ELSE IF \E p \in Perspectives : report[p] # NoReport /\ ~Bound(p) THEN "stale"
    ELSE IF \E p \in Perspectives : report[p] = NoReport THEN "missing"
    ELSE IF \E p \in Perspectives : report[p].material /\ ~Rejected(p) THEN "blocked"
    ELSE IF \E p \in Perspectives : ~report[p].available THEN "unavailable"
    ELSE "ready"

ReviewEvidence == ReviewRequired => ReviewState = "ready"

FreshBase == tree.base = Len(mainLog)

Managed == lifecycle # "quick"

----
(* The agent and the main branch. *)

\* finish is in the foreground, a check run only as far as the bounds say so.
AgentActs == finishing = "idle" /\ published = NoHead /\ (selector = NoSelector \/ scope.overlap)

EditTask ==
    /\ AgentActs /\ ~dirty /\ commits < scope.commits
    /\ dirty' = TRUE
    /\ UNCHANGED <<lifecycle, packageReady, tree, mainLog, evidence, selector, reviewVars, reviewer, finishing, published,
                   validated, boundVars>>

Commit(c) ==
    /\ AgentActs /\ dirty
    /\ dirty' = FALSE /\ tree' = [tree EXCEPT !.content = c] /\ commits' = commits + 1
    /\ UNCHANGED <<lifecycle, packageReady, mainLog, evidence, selector, reviewVars, reviewer, finishing, published,
                   validated, serial, scope>>

\* Tasks ticked, purposes written, /opsx:verify passed and its receipt committed.
Verify ==
    /\ AgentActs /\ lifecycle = "active" /\ ~packageReady
    /\ packageReady' = TRUE
    /\ UNCHANGED <<lifecycle, tree, dirty, mainLog, evidence, selector, reviewVars, reviewer, finishing, published,
                   validated, boundVars>>

MainMovesOn(what) ==
    /\ published = NoHead /\ Len(mainLog) < scope.moves
    /\ mainLog' = Append(mainLog, what)
    /\ UNCHANGED <<lifecycle, packageReady, tree, dirty, evidence, selector, reviewVars, reviewer, finishing, published,
                   validated, boundVars>>

\* A merge of main; where main touched the task's paths it changes them, or is settled in the task's favour.
Reconcile(c) ==
    /\ AgentActs /\ ~dirty /\ ~FreshBase
    /\ c # tree.content => MainMoved(tree.base, Len(mainLog), "task")
    /\ tree' = [content |-> c, base |-> Len(mainLog)]
    /\ UNCHANGED <<lifecycle, packageReady, dirty, mainLog, evidence, selector, reviewVars, reviewer, finishing, published,
                   validated, boundVars>>

----
(* select_checks.py --execute *)

\* Uncommitted content, an incomplete package, a repeated run and a stale base are refused first.
StartChecks(by) ==
    /\ selector = NoSelector
    /\ by = "agent" => ~dirty /\ ~Reusable /\ (lifecycle = "active" => packageReady)
    /\ Full \in Required(tree) => FreshBase
    /\ selector' = [by |-> by, at |-> tree, done |-> {}]

AgentChecks ==
    /\ AgentActs /\ "checks" \in scope.alone /\ StartChecks("agent")
    /\ UNCHANGED <<workVars, evidence, reviewVars, reviewer, finishing, published, validated, boundVars>>

CommandSucceeds(c) ==
    /\ selector # NoSelector /\ c \in Required(selector.at) \ selector.done
    /\ selector' = [selector EXCEPT !.done = @ \cup {c}]
    /\ UNCHANGED <<workVars, evidence, reviewVars, reviewer, finishing, published, validated, boundVars>>

\* The proof of a managed task's evidence is that of the head at the end of the run, a quick task's is taken before.
ProofOf == IF Managed THEN tree ELSE selector.at

\* finish's own run over an archived change records nothing.
Records == selector.by # "validate" \/ ~Managed

WriteEvidence(success) ==
    evidence' = IF Records THEN [of |-> ProofOf, success |-> success, ran |-> selector.done, at |-> selector.at]
                ELSE evidence

StageAfter == [agent |-> finishing, archive |-> "archive", validate |-> IF Managed THEN "publish" ELSE "quickReview"]

ChecksPass ==
    /\ selector # NoSelector /\ selector.done = Required(selector.at)
    /\ WriteEvidence(TRUE)
    /\ validated' = validated \cup {[at |-> selector.at, ran |-> selector.done]}
    /\ finishing' = StageAfter[selector.by]
    /\ selector' = NoSelector
    /\ UNCHANGED <<workVars, reviewVars, reviewer, published, boundVars>>

\* A command or the affected-test precheck before them fails.
ChecksFail ==
    /\ selector # NoSelector /\ selector.done # Required(selector.at)
    /\ WriteEvidence(FALSE)
    /\ finishing' = "idle" /\ selector' = NoSelector
    /\ UNCHANGED <<workVars, reviewVars, reviewer, published, validated, boundVars>>

----
(* The platform-launched review *)

NewRequest == [id |-> serial + 1, of |-> tree]

\* independent_review.py prepare
PrepareRequest ==
    /\ AgentActs /\ "reviews" \in scope.alone /\ reviewer = NoReviewer /\ serial < scope.serials
    /\ request' = NewRequest /\ serial' = serial + 1
    /\ UNCHANGED <<workVars, evidence, selector, report, answer, reviewer, finishing, published, validated, commits, scope>>

\* A current request is reused; the probe of the reviewer runtime comes before any perspective.
BeginReview(by, ready) ==
    /\ reviewer = NoReviewer /\ ~dirty /\ serial < scope.serials
    /\ request' = IF RequestCurrent THEN request ELSE NewRequest
    /\ serial' = serial + 1
    /\ reviewer' = [NoReviewer EXCEPT !.by = by, !.stage = "next", !.ready = ready, !.on = tree]

AgentReviews(ready) ==
    /\ AgentActs /\ "reviews" \in scope.alone /\ BeginReview("agent", ready)
    /\ UNCHANGED <<workVars, evidence, selector, report, answer, finishing, published, validated, commits, scope>>

Unavailable(launch) ==
    [request |-> request.id, launch |-> launch, observed |-> TRUE, available |-> FALSE, material |-> FALSE, on |-> NoHead]

Answered(launch, material) ==
    [Unavailable(launch) EXCEPT !.available = TRUE, !.material = material, !.on = reviewer.on]

Remaining == Len(reviewer.got) < Cardinality(Perspectives)

\* A perspective is launched between two snapshots of the workspace.
LaunchPerspective ==
    /\ reviewer.stage = "next" /\ reviewer.ready /\ Remaining
    /\ reviewer' = [reviewer EXCEPT !.stage = "launched", !.seen = tree, !.clean = ~dirty]
    /\ UNCHANGED <<workVars, evidence, selector, reviewVars, finishing, published, validated, boundVars>>

Receive(outcome) ==
    /\ serial < scope.serials /\ serial' = serial + 1
    /\ reviewer' = [reviewer EXCEPT !.stage = "next", !.seen = NoHead, !.clean = TRUE, !.got = Append(@, outcome)]
    /\ UNCHANGED <<workVars, evidence, selector, reviewVars, finishing, published, validated, commits, scope>>

Unmoved == reviewer.seen = tree /\ reviewer.clean = ~dirty

\* It answers, or the launch failed, timed out or was malformed, or something moved while it ran.
EndPerspective(answers, material) ==
    /\ reviewer.stage = "launched"
    /\ answers => Unmoved
    /\ material => answers
    /\ Receive(IF answers THEN Answered(serial + 1, material) ELSE Unavailable(serial + 1))

\* Without a ready runtime no perspective is launched.
NotReady == reviewer.stage = "next" /\ ~reviewer.ready /\ Remaining /\ Receive(Unavailable(serial + 1))

\* The reports are written one after the other, once every perspective has come back.
WriteReport(p) ==
    /\ IF reviewer.stage = "writing" THEN p = Cardinality(Perspectives) - Len(reviewer.got) + 1
       ELSE reviewer.stage = "next" /\ ~Remaining /\ p = 1
    /\ report' = [report EXCEPT ![p] = reviewer.got[1]]
    /\ reviewer' = [reviewer EXCEPT !.stage = "writing", !.got = Tail(@)]
    /\ UNCHANGED <<workVars, evidence, selector, request, answer, finishing, published, validated, boundVars>>

EndReview ==
    /\ reviewer.stage = "writing" /\ reviewer.got = <<>>
    /\ finishing' = IF reviewer.by = "finish" THEN IF Managed THEN "reviewed" ELSE "quickReviewed" ELSE finishing
    /\ reviewer' = NoReviewer
    /\ UNCHANGED <<workVars, evidence, selector, reviewVars, published, validated, boundVars>>

\* A disposition is bound to the digest of one report; the one before it for this finding goes.
DisposeFinding(p, rejected) ==
    /\ AgentActs /\ report[p].material
    /\ answer' = [answer EXCEPT ![p] = [launch |-> report[p].launch, rejected |-> rejected]]
    /\ UNCHANGED <<workVars, evidence, selector, request, report, reviewer, finishing, published, validated, boundVars>>

\* A report of the agent's own making can be imported, but not as one the platform observed.
RecordReport(p) ==
    /\ AgentActs /\ "reviews" \in scope.alone /\ reviewer = NoReviewer /\ RequestCurrent /\ serial < scope.serials
    /\ report' = [report EXCEPT ![p] = [Unavailable(serial + 1) EXCEPT !.observed = FALSE, !.available = TRUE]]
    /\ serial' = serial + 1
    /\ UNCHANGED <<workVars, evidence, selector, request, answer, reviewer, finishing, published, validated, commits, scope>>

----
(* finish *)

GoOn(stage) ==
    /\ finishing' = stage
    /\ UNCHANGED <<workVars, evidence, selector, reviewVars, reviewer, published, validated, boundVars>>

\* An active change is first archived; an archived one and a quick task go to the gates.
BeginFinish ==
    /\ AgentActs /\ selector = NoSelector /\ reviewer = NoReviewer /\ ~dirty
    /\ lifecycle = "active" => packageReady
    /\ GoOn(IF lifecycle = "active" THEN "review" ELSE "gates")

\* Missing and stale evidence is run, and evidence blocked by nothing but an unavailable reviewer.
ReviewRuns == ReviewRequired /\ ReviewState \in {"missing", "stale", "unavailable"}

FinishReviews(ready) ==
    /\ finishing \in {"review", "quickReview"} /\ ReviewRuns
    /\ BeginReview("finish", ready)
    /\ finishing' = "reviewing"
    /\ UNCHANGED <<workVars, evidence, selector, report, answer, published, validated, commits, scope>>

ReviewStands ==
    /\ \/ finishing \in {"review", "quickReview"} /\ ~ReviewRuns
       \/ finishing \in {"reviewed", "quickReviewed"}
    /\ ReviewEvidence
    /\ GoOn(IF Managed THEN "finalize" ELSE "publish")

\* Finalization runs the checks only where their evidence does not stand for them.
FinalizeReuses == finishing = "finalize" /\ Reusable /\ GoOn("archive")

FinalizeChecks ==
    /\ finishing = "finalize" /\ ~Reusable /\ StartChecks("archive")
    /\ finishing' = "checking"
    /\ UNCHANGED <<workVars, evidence, reviewVars, reviewer, published, validated, boundVars>>

\* The archive moves the package and its specifications, which are none of the content, and commits.
ArchiveChange ==
    /\ finishing = "archive" /\ packageReady /\ ReviewEvidence /\ AutomatedEvidence
    /\ lifecycle' = "archived" /\ finishing' = "gates"
    /\ UNCHANGED <<packageReady, tree, dirty, mainLog, evidence, selector, reviewVars, reviewer, published, validated, boundVars>>

PassGates ==
    /\ finishing = "gates" /\ FreshBase
    /\ Managed => AutomatedEvidence /\ ReviewEvidence
    /\ GoOn("validate")

ValidationReused ==
    /\ finishing = "validate" /\ Reusable
    /\ GoOn(IF Managed THEN "publish" ELSE "quickReview")

ValidationRuns ==
    /\ finishing = "validate" /\ ~Reusable /\ StartChecks("validate")
    /\ finishing' = "checking"
    /\ UNCHANGED <<workVars, evidence, reviewVars, reviewer, published, validated, boundVars>>

\* Main may have moved during the validation.
Publish ==
    /\ finishing = "publish" /\ FreshBase
    /\ published' = tree /\ finishing' = "done"
    /\ UNCHANGED <<workVars, evidence, selector, reviewVars, reviewer, validated, boundVars>>

\* A stage whose condition does not hold ends finish, and so does its death; its runs die with it.
FinishStops ==
    /\ finishing \notin {"idle", "done"}
    /\ finishing' = "idle" /\ selector' = NoSelector /\ reviewer' = NoReviewer
    /\ UNCHANGED <<workVars, evidence, reviewVars, published, validated, boundVars>>

\* A run of the agent's own is killed: what it has written so far stays.
RunDies ==
    /\ finishing = "idle"
    /\ \/ selector # NoSelector /\ selector' = NoSelector /\ UNCHANGED reviewer
       \/ reviewer # NoReviewer /\ reviewer' = NoReviewer /\ UNCHANGED selector
    /\ UNCHANGED <<workVars, evidence, reviewVars, finishing, published, validated, boundVars>>

ReviewStep ==
    \/ LaunchPerspective
    \/ \E answers, material \in BOOLEAN : EndPerspective(answers, material)
    \/ NotReady
    \/ \E p \in Perspectives : WriteReport(p)
    \/ EndReview

FinishStep ==
    \/ BeginFinish
    \/ \E ready \in BOOLEAN : FinishReviews(ready)
    \/ ReviewStands
    \/ FinalizeReuses \/ FinalizeChecks \/ ArchiveChange
    \/ PassGates \/ ValidationReused \/ ValidationRuns
    \/ Publish
    \/ FinishStops

AgentStep ==
    \/ EditTask \/ Verify
    \/ \E c \in Contents : Commit(c) \/ Reconcile(c)
    \/ AgentChecks
    \/ PrepareRequest
    \/ \E ready \in BOOLEAN : AgentReviews(ready)
    \/ \E p \in Perspectives, rejected \in BOOLEAN : DisposeFinding(p, rejected)
    \/ \E p \in Perspectives : RecordReport(p)
    \/ RunDies

EvidenceNext ==
    \/ AgentStep
    \/ \E what \in {"task", "checks", "other"} : MainMovesOn(what)
    \/ \E c \in UNION {Selected[v] : v \in Contents} \cup {Added} : CommandSucceeds(c)
    \/ ChecksPass \/ ChecksFail
    \/ ReviewStep
    \/ FinishStep

EvidenceSpec == EvidenceInit /\ [][EvidenceNext]_evidenceVars

----
EvidenceTypeOK ==
    /\ lifecycle \in {"quick", "active", "archived"} /\ packageReady \in BOOLEAN
    /\ tree \in [content: Contents, base: 0..Len(mainLog)] /\ dirty \in BOOLEAN
    /\ mainLog \in Seq({"task", "checks", "other"})
    /\ Len(reviewer.got) <= Cardinality(Perspectives)
    /\ finishing \in {"idle", "review", "reviewing", "reviewed", "quickReview", "quickReviewed", "finalize", "checking",
                      "archive", "gates", "validate", "publish", "done"}
    /\ serial <= scope.serials /\ commits <= scope.commits

\* The head has the content another one was shown to have, and main brought nothing to the task's paths in between.
StandsFor(old, new) == old.content = new.content /\ ~MainMoved(old.base, new.base, "task")

\* Content that changes a protected path is published only after both perspectives of a reviewer the platform
\* launched have read exactly that content, and whatever they found material was rejected in those very reports.
\* Evidence outlives commits, archives, merges of main and interrupted reviews (independent_review.py: evaluate,
\* task_content_identity.py: equivalent_proofs).
PublishedIsReviewed ==
    published # NoHead /\ published.content \in scope.risky =>
        \A p \in Perspectives :
            /\ report[p].observed /\ report[p].available /\ StandsFor(report[p].on, published)
            /\ report[p].material => answer[p] = [launch |-> report[p].launch, rejected |-> TRUE]

\* What is published has passed, in one run on that content, every command its selection asks for, however
\* often evidence was carried over instead of run again (openspec_lifecycle.py: check_evidence_reuse).
PublishedIsValidated ==
    published # NoHead =>
        \E v \in validated : StandsFor(v.at, published) /\ Required(published) \subseteq v.ran

\* "Required-check, selected-check and review evidence SHALL be bound to the task-content identity it verified"
\* (openspec/specs/completion-lifecycle/spec.md).
EvidenceIsOfWhatRan == evidence.success => StandsFor(evidence.at, evidence.of)

====

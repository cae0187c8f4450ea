------------------------ MODULE PreAuthoring ------------------------
(***************************************************************************)
(* From a Requirement to its linked children (orchestrate_pre_authoring.py *)
(* with add_intents.py and project_evidence.py), and the sequential        *)
(* delivery of those children by execute_requirement.py.  Everything lies  *)
(* in files of the integration checkout: the bound text, the chosen depth, *)
(* a snapshot of the sources, the design with its approval, the intents,   *)
(* and per child a handoff and the bundle authored from it.  Nothing is    *)
(* trusted because it was written: every look recomputes the stage from    *)
(* what the files bind.                                                    *)
(*                                                                         *)
(* A digest is the content it stands for.  A source has as identity the    *)
(* last commit of main that changed it, each concern reads one source, and *)
(* each child has one intent.  main moves under everything that runs here, *)
(* for the checkout is synchronized by whoever finishes.                   *)
(***************************************************************************)
EXTENDS Naturals, Sequences, FiniteSets, FiniteSetsExt

CONSTANTS
    Sources,         \* the accepted specs that a snapshot is made of
    Plan,            \* the children in the declared order of their delivery
    Direct,          \* the child of a Requirement that needs no design
    Touches,         \* of a child: the specs its bundle changes
    Outsider,        \* the author of the commits that are no child's
    AuthoringBounds  \* bounds: a set of slices, see AuthoringInit

Planned == {Plan[i] : i \in DOMAIN Plan}
PlannedChildren == Planned \cup {Direct}
Depths == {"deterministic", "bounded-evidence", "material-design"}

ASSUME AuthoringAssumption ==
    /\ Touches \in [PlannedChildren -> SUBSET Sources]
    /\ Direct \notin Planned /\ Outsider \notin PlannedChildren
    /\ Plan \in Seq(Planned) /\ \A i, j \in DOMAIN Plan : Plan[i] = Plan[j] => i = j
    /\ AuthoringBounds \subseteq [depths: SUBSET Depths, texts: Nat, drafts: Nat, edits: Nat, others: Nat,
                                  strays: SUBSET SUBSET Sources, doubts: SUBSET BOOLEAN, hands: BOOLEAN]

VARIABLES
    specLog,        \* the commits of main
    text, binding,  \* version of requirement.json, and the one in state.json
    depth,          \* selection.json
    snapshot, add, approval, intents, handoffs,
    bundles,        \* of a child: the design its bundle was authored for
    linkedAs,       \* of a child: the design and the handoff of its Issue
    startedKid,     \* the child that advance started, and whether without a plan
    projectDone,    \* the children whose Project item says Done
    rebind,         \* the rebind that runs
    vouched,        \* history: the designs a person approved
    slice           \* the bounds of this behaviour

wishVars == <<text, binding, depth>>
designVars == <<add, approval, intents, handoffs>>
kidVars == <<bundles, linkedAs, startedKid, projectDone>>
authoringVars == <<specLog, wishVars, snapshot, designVars, kidVars, rebind, vouched, slice>>

NoSnapshot == [rev |-> 0, seen |-> <<>>]
NoAdd == [text |-> 0, draft |-> 0, open |-> FALSE, prepared |-> 0, cited |-> NoSnapshot]
NoApproval == [of |-> NoAdd, seen |-> <<>>, known |-> {}, blind |-> FALSE]
NoIntents == [of |-> NoAdd, edit |-> 0]
NoHandoff == [of |-> NoAdd, intents |-> NoIntents]
NoDesign == [text |-> 0, draft |-> 0]
NoKidIssue == [design |-> NoDesign, marker |-> NoHandoff]
NotRebinding == [at |-> "none"]

\* The design of an ADD, without what it was prepared against.
Design(document) == [text |-> document.text, draft |-> document.draft]

\* A slice bounds the depths, the texts, the drafts, the edits of the intents,
\* the commits of others and the depths of a behaviour.
AuthoringInit ==
    /\ slice \in AuthoringBounds
    /\ specLog = <<>> /\ text = 1 /\ binding = 1 /\ depth = "none"
    /\ snapshot = NoSnapshot /\ add = NoAdd /\ approval = NoApproval
    /\ intents = NoIntents /\ handoffs = [k \in Planned |-> NoHandoff]
    /\ bundles = [k \in PlannedChildren |-> NoDesign] /\ linkedAs = [k \in PlannedChildren |-> NoKidIssue]
    /\ startedKid = [kid |-> Outsider, alone |-> FALSE] /\ projectDone = {}
    /\ rebind = NotRebinding /\ vouched = {}

LogEnd == Len(specLog)
\* The commits after one revision and up to another that change a source.
Changing(s, after, upto) == {i \in (after + 1)..upto : s \in specLog[i].paths}
Identity(s) == Max({0} \cup Changing(s, 0, LogEnd))
MergedKid(kid) == \E i \in DOMAIN specLog : specLog[i].by = kid

-----------------------------------------------------------------------------
(* The stages. *)

SelectionReady == depth # "none" /\ binding = text

HaveSnapshot == snapshot # NoSnapshot
Extracted == \A s \in Sources : snapshot.seen[s].status = "fresh"
Unchanged(shot) == \A s \in Sources : shot.seen[s].identity = Identity(s)
SnapshotReady == HaveSnapshot /\ Extracted /\ Unchanged(snapshot)

\* The approval binds the content as it is, and nothing is open in it.
AnyApproval == TRUE
ApprovalCurrent == approval.of = add
Approved == approval # NoApproval /\ ApprovalCurrent /\ ~add.open

\* A design with a snapshot as evidence is as fresh as that snapshot; without
\* one it needs the very revision it was prepared for.
Cites == add.cited # NoSnapshot
EvidenceHolds ==
    IF Cites THEN snapshot = add.cited /\ SnapshotReady ELSE add.prepared = LogEnd
AddReady == add # NoAdd /\ Approved /\ EvidenceHolds

\* The intents are bound to the very content that was approved.
IntentsValid == AddReady /\ intents.of = add
IntentsReady == intents.edit > 0 /\ IntentsValid

HandoffFits(kid) == handoffs[kid] = [of |-> add, intents |-> intents]
HandoffsReady == \A kid \in Planned : HandoffFits(kid)
NoneMissing == \A kid \in Planned : handoffs[kid] # NoHandoff

\* The first stage that does not hold.  Only a material design has the later
\* ones.
Stage ==
    IF ~SelectionReady THEN "selection"
    ELSE IF depth = "deterministic" THEN "complete"
    ELSE IF ~SnapshotReady THEN "snapshot"
    ELSE IF depth = "bounded-evidence" THEN "complete"
    ELSE IF ~AddReady THEN "add"
    ELSE IF ~IntentsReady THEN "intents"
    ELSE IF ~HandoffsReady THEN "handoff"
    ELSE "complete"

\* The chain only went stale: nothing in it is missing, open or invalid.
StaleChain ==
    \/ Stage = "snapshot" /\ HaveSnapshot /\ Extracted
    \/ Stage = "add" /\ add # NoAdd /\ Approved
    \/ Stage = "handoff" /\ NoneMissing

-----------------------------------------------------------------------------
(* The text of the Requirement and the depth. *)

Quiet == rebind = NotRebinding
ExceptWish == UNCHANGED <<specLog, snapshot, kidVars, rebind, vouched, slice>>

\* The files that rest on the meaning, in the order of their removal; a kill
\* leaves the rest of them.
All == 4
Cut(cut) ==
    /\ depth' = IF cut > 0 THEN "none" ELSE depth
    /\ add' = IF cut > 1 THEN NoAdd ELSE add
    /\ approval' = IF cut > 1 THEN NoApproval ELSE approval
    /\ intents' = IF cut > 2 THEN NoIntents ELSE intents
    /\ handoffs' = IF cut > 3 THEN [k \in Planned |-> NoHandoff] ELSE handoffs
CutDepth(cut) == depth' = "none" /\ UNCHANGED designVars
InvalidateFromSelection(cut) == Cut(cut)

\* `start` writes the text of the Issue anew and then binds it; a kill in
\* between leaves the old binding.
WriteText ==
    /\ Quiet /\ text < slice.texts
    /\ text' = text + 1
    /\ UNCHANGED <<binding, depth, designVars>> /\ ExceptWish

BindText ==
    /\ Quiet /\ binding # text
    /\ \E cut \in 1..All :
        /\ InvalidateFromSelection(cut)
        /\ binding' = IF cut = All THEN text ELSE binding
    /\ UNCHANGED text /\ ExceptWish

NewAdd == [NoAdd EXCEPT !.text = text, !.prepared = LogEnd]
Scaffold == add' = NewAdd /\ approval' = NoApproval /\ UNCHANGED <<intents, handoffs>>

\* Another decision discards what the former one led to.  The scaffold of a
\* design comes after its decision, in the same run or in the next one.
SelectDepth(chosen) ==
    /\ Quiet /\ binding = text /\ chosen \in slice.depths
    /\ \/ /\ depth = "none" /\ depth' = chosen
          /\ \/ chosen = "material-design" /\ Scaffold
             \/ UNCHANGED designVars
       \/ depth \notin {"none", chosen} /\ \E cut \in 1..All : InvalidateFromSelection(cut)
       \/ depth = "material-design" /\ chosen = depth /\ add = NoAdd /\ Scaffold /\ UNCHANGED depth
    /\ UNCHANGED <<text, binding>> /\ ExceptWish

-----------------------------------------------------------------------------
(* The snapshot. *)

\* A projection of the former snapshot stays while its source has the same
\* identity.  A supplied result is bound to the source as it is found now; a
\* doubtful one asks for escalation.
Projection(s, supplied, doubtful) ==
    IF s \in supplied
    THEN [identity |-> Identity(s), status |-> IF doubtful THEN "escalation-required" ELSE "fresh"]
    ELSE IF HaveSnapshot /\ snapshot.seen[s].identity = Identity(s) THEN snapshot.seen[s]
    ELSE [identity |-> Identity(s), status |-> "requires-extraction"]

BuildSnapshot(supplied) ==
    /\ Quiet /\ depth \in {"bounded-evidence", "material-design"}
    /\ \E doubtful \in slice.doubts :
        snapshot' = [rev |-> LogEnd, seen |-> [s \in Sources |-> Projection(s, supplied, doubtful)]]
    /\ UNCHANGED <<specLog, wishVars, designVars, kidVars, rebind, vouched, slice>>

-----------------------------------------------------------------------------
(* The design. *)

ExceptDesign == UNCHANGED <<specLog, wishVars, snapshot, kidVars, rebind, slice>>
OnlyAdd == UNCHANGED <<approval, intents, handoffs, vouched>> /\ ExceptDesign

\* The agent writes another draft, with or without the snapshot as evidence,
\* and with or without a choice that only a person can make.
WriteDraft ==
    /\ Quiet /\ add # NoAdd /\ add.draft < slice.drafts
    /\ \E open \in BOOLEAN, cited \in {NoSnapshot, snapshot} :
        add' = [add EXCEPT !.draft = @ + 1, !.open = open, !.cited = cited, !.prepared = LogEnd]
    /\ OnlyAdd

\* The same design cites the refreshed snapshot.
CiteAgain ==
    /\ Quiet /\ Cites /\ add.cited # snapshot
    /\ add' = [add EXCEPT !.cited = snapshot, !.prepared = LogEnd]
    /\ OnlyAdd

RecordDecision == Quiet /\ add.open /\ add' = [add EXCEPT !.open = FALSE] /\ OnlyAdd

\* A person who did not prepare it approves the present content; whether its
\* evidence is fresh is for the next look.
Approve ==
    /\ Quiet /\ add.draft > 0 /\ ~add.open
    /\ approval' = [of |-> add, seen |-> add.cited.seen, known |-> Planned, blind |-> FALSE]
    /\ vouched' = vouched \cup {Design(add)}
    /\ UNCHANGED <<add, intents, handoffs>> /\ ExceptDesign

Decompose ==
    /\ Quiet /\ AddReady /\ intents.edit < slice.edits
    /\ intents' = [of |-> add, edit |-> intents.edit + 1]
    /\ UNCHANGED <<add, approval, handoffs, vouched>> /\ ExceptDesign

PrepareHandoff(kid) ==
    /\ Quiet /\ IntentsReady
    /\ handoffs' = [handoffs EXCEPT ![kid] = [of |-> add, intents |-> intents]]
    /\ UNCHANGED <<add, approval, intents, vouched>> /\ ExceptDesign

-----------------------------------------------------------------------------
(* The rebind of a chain that went stale. *)

Authored == {k \in PlannedChildren : bundles[k] # NoDesign}
Affected == UNION {Touches[k] : k \in Authored \ projectDone}

\* A commit is explained by an own delivered child that it archives, and for
\* a spec only when that child has a delta of it.
SomeCommit(i, s) == TRUE
OwnCommit(i, s) == specLog[i].by \in projectDone /\ s \in specLog[i].deltas

\* Every changed source was changed by commits on main, and a used one only
\* by own children.
Explained(s) ==
    LET commits == Changing(s, snapshot.rev, LogEnd) IN
    /\ commits # {}
    /\ s \in Affected => \A i \in commits : OwnCommit(i, s)

\* Nothing is written unless the approved content is what the intents and the
\* handoffs rest on, and everything that moved is explained.
BeginRebind ==
    /\ Quiet /\ depth = "material-design" /\ intents.edit > 0 /\ StaleChain
    /\ Approved /\ intents.of = add
    /\ \A k \in Planned : handoffs[k] # NoHandoff => HandoffFits(k)
    /\ \A s \in Sources : snapshot.seen[s].identity # Identity(s) => Explained(s)
    /\ rebind' = [at |-> "checked", head |-> LogEnd, known |-> Authored,
                  kept |-> <<snapshot, add, approval, intents, handoffs>>]
    /\ UNCHANGED <<specLog, wishVars, snapshot, designVars, kidVars, vouched, slice>>

RebindAt(step) == rebind.at = step
RebindGoes(step) == rebind' = [rebind EXCEPT !.at = step]
Kept(i) == rebind.kept[i]
ExceptRebind == UNCHANGED <<specLog, wishVars, kidVars, vouched, slice>>

\* The old results are bound to the sources of this moment.
RebuildSnapshot ==
    /\ RebindAt("checked") /\ RebindGoes("snapshot")
    /\ snapshot' = [rev |-> LogEnd, seen |-> [s \in Sources |-> [identity |-> Identity(s), status |-> "fresh"]]]
    /\ UNCHANGED designVars /\ ExceptRebind

RewriteAdd ==
    /\ RebindAt("snapshot") /\ RebindGoes("add")
    /\ add' = [add EXCEPT !.prepared = rebind.head, !.cited = IF Cites THEN snapshot ELSE NoSnapshot]
    /\ approval' = NoApproval
    /\ UNCHANGED <<snapshot, intents, handoffs>> /\ ExceptRebind

\* The approval names the one it carries.  `blind` keeps that some commits were
\* looked at by nobody: those since the approval when the snapshot had been
\* rebuilt before the rebind, or those between the check and its own snapshot.
CarryApproval ==
    /\ RebindAt("add") /\ RebindGoes("carried")
    /\ approval' = [of |-> add, seen |-> Kept(3).seen, known |-> Kept(3).known \cap rebind.known,
                    blind |-> Kept(3).blind \/ Kept(2).cited # Kept(1) \/ snapshot.rev # rebind.head]
    /\ UNCHANGED <<snapshot, add, intents, handoffs>> /\ ExceptRebind

RewriteIntents ==
    /\ RebindAt("carried") /\ RebindGoes("handoffs")
    /\ intents' = [intents EXCEPT !.of = add]
    /\ UNCHANGED <<snapshot, add, approval, handoffs>> /\ ExceptRebind

RewriteHandoffs ==
    /\ RebindAt("handoffs") /\ IntentsReady /\ RebindGoes("written")
    /\ handoffs' = [k \in Planned |-> IF handoffs[k] = NoHandoff THEN NoHandoff
                                      ELSE [of |-> add, intents |-> intents]]
    /\ UNCHANGED <<snapshot, add, approval, intents>> /\ ExceptRebind

\* The last look, and the receipt.
ConfirmRebind ==
    /\ RebindAt("written") /\ Stage = "complete"
    /\ rebind' = NotRebinding
    /\ UNCHANGED <<snapshot, designVars>> /\ ExceptRebind

\* main moved again: every file is restored.
RollBackRebind ==
    /\ \/ RebindAt("handoffs") /\ ~IntentsReady
       \/ RebindAt("written") /\ Stage # "complete"
    /\ rebind' = NotRebinding
    /\ snapshot' = Kept(1) /\ add' = Kept(2) /\ approval' = Kept(3)
    /\ intents' = Kept(4) /\ handoffs' = Kept(5)
    /\ ExceptRebind

\* A kill or an interrupt restores nothing.
KillRebind ==
    /\ ~Quiet /\ rebind' = NotRebinding
    /\ UNCHANGED <<snapshot, designVars>> /\ ExceptRebind

-----------------------------------------------------------------------------
(* The children. *)

ExceptKids == UNCHANGED <<specLog, wishVars, snapshot, designVars, rebind, vouched, slice>>
KidLinked(kid) == linkedAs[kid] # NoKidIssue

\* The agent authors the bundle of a child from its handoff; the direct handoff
\* of a depth without a design holds the text alone.
AuthorBundle(kid) ==
    /\ Quiet
    /\ \/ kid \in Planned /\ handoffs[kid] # NoHandoff
          /\ bundles' = [bundles EXCEPT ![kid] = Design(handoffs[kid].of)]
       \/ kid = Direct /\ Stage = "complete" /\ depth # "material-design"
          /\ bundles' = [bundles EXCEPT ![kid] = [text |-> text, draft |-> 0]]
    /\ UNCHANGED <<linkedAs, startedKid, projectDone>> /\ ExceptKids

\* A child is done when main holds its archived contract, not when somebody
\* says so.
SaysDone(kid) == kid \in projectDone
KidDelivered(kid) == kid \in projectDone /\ MergedKid(kid)

\* A linked child goes with the handoff whose digest its Issue carries, and
\* with a refreshed one only while the bundle has its contract; one that no
\* handoff maps to is history, and has to be delivered.
SameContract(kid) ==
    KidLinked(kid) => linkedAs[kid].marker = handoffs[kid] \/ bundles[kid] = linkedAs[kid].design
Mapped == (\A k \in Planned : SameContract(k)) /\ (KidLinked(Direct) => KidDelivered(Direct))

Materialize(kid) ==
    /\ Quiet /\ Stage = "complete" /\ depth = "material-design"
    /\ ~KidLinked(kid) /\ Planned \subseteq Authored /\ Mapped
    /\ linkedAs' = [linkedAs EXCEPT ![kid] = [design |-> bundles[kid], marker |-> handoffs[kid]]]
    /\ UNCHANGED <<bundles, startedKid, projectDone>> /\ ExceptKids

\* With a fresh chain, or with recorded handoffs that all have their child.
RebindResumable ==
    /\ \A k \in Planned : KidLinked(k)
    /\ Mapped
    /\ \/ Stage = "complete" /\ depth = "material-design"
       \/ /\ Stage # "complete" /\ ~StaleChain /\ intents.edit > 0
          /\ \A k \in Planned : handoffs[k].intents = intents

StartInOrder(i) ==
    /\ Quiet /\ RebindResumable
    /\ Plan[i] \notin projectDone /\ \A j \in 1..(i - 1) : KidDelivered(Plan[j])
    /\ startedKid' = [kid |-> Plan[i], alone |-> FALSE]
    /\ UNCHANGED <<bundles, linkedAs, projectDone>> /\ ExceptKids

\* Without a design there is one child; a child that is linked is that one.
MaterializeDirect ==
    /\ Quiet /\ Stage = "complete" /\ depth # "material-design"
    /\ \A k \in PlannedChildren : ~KidLinked(k)
    /\ bundles[Direct] # NoDesign
    /\ linkedAs' = [linkedAs EXCEPT ![Direct] = [design |-> bundles[Direct], marker |-> NoHandoff]]
    /\ UNCHANGED <<bundles, startedKid, projectDone>> /\ ExceptKids

StartDirect(kid) ==
    /\ Quiet /\ Stage = "complete" /\ depth # "material-design"
    /\ KidLinked(kid) /\ \A k \in PlannedChildren \ {kid} : ~KidLinked(k)
    /\ kid \notin projectDone /\ startedKid' = [kid |-> kid, alone |-> TRUE]
    /\ UNCHANGED <<bundles, linkedAs, projectDone>> /\ ExceptKids

-----------------------------------------------------------------------------
(* What happens on main and on the Project. *)

Land(commit) ==
    /\ specLog' = Append(specLog, commit)
    /\ UNCHANGED <<wishVars, snapshot, designVars, kidVars, rebind, vouched, slice>>

\* The finish of a child brings the deltas of its bundle, and perhaps a spec
\* that it has no delta of.
MergeKid(kid) ==
    /\ startedKid.kid = kid /\ ~MergedKid(kid)
    /\ \E stray \in slice.strays :
        Land([by |-> kid, deltas |-> Touches[kid], paths |-> Touches[kid] \cup stray])

MergeOther(s) ==
    /\ Cardinality({i \in DOMAIN specLog : specLog[i].by = Outsider}) < slice.others
    /\ Land([by |-> Outsider, deltas |-> {s}, paths |-> {s}])

\* By the finish, or by hand.
ReportKid(kid) ==
    /\ MergedKid(kid) \/ slice.hands
    /\ kid \notin projectDone /\ KidLinked(kid)
    /\ projectDone' = projectDone \cup {kid}
    /\ UNCHANGED <<bundles, linkedAs, startedKid>> /\ ExceptKids

RebindStep ==
    \/ RebuildSnapshot \/ RewriteAdd \/ CarryApproval \/ RewriteIntents
    \/ RewriteHandoffs \/ ConfirmRebind \/ RollBackRebind \/ KillRebind

AuthoringNext ==
    \/ WriteText \/ BindText
    \/ \E chosen \in Depths : SelectDepth(chosen)
    \/ \E supplied \in SUBSET Sources : BuildSnapshot(supplied)
    \/ WriteDraft \/ CiteAgain \/ RecordDecision \/ Approve \/ Decompose
    \/ \E kid \in Planned : PrepareHandoff(kid) \/ Materialize(kid)
    \/ BeginRebind \/ RebindStep
    \/ MaterializeDirect \/ \E i \in DOMAIN Plan : StartInOrder(i)
    \/ \E kid \in PlannedChildren : AuthorBundle(kid) \/ StartDirect(kid) \/ MergeKid(kid) \/ ReportKid(kid)
    \/ \E s \in Sources : MergeOther(s)

AuthoringSpec == AuthoringInit /\ [][AuthoringNext]_authoringVars

-----------------------------------------------------------------------------
(* Properties. *)

\* A complete chain is about the text that is bound, and its design is one
\* that a person approved as it is: kills in the middle of a refresh or of a
\* new decision, later drafts, decisions and rebinds never leave another one.
\* And a child that was started in order was materialized from such a design,
\* and every one before it is on main, whatever the Project says.
CompleteIsVouched ==
    /\ Stage = "complete" /\ depth = "material-design" =>
           add.text = text /\ Design(add) \in vouched
    /\ \A i \in DOMAIN Plan : startedKid = [kid |-> Plan[i], alone |-> FALSE] =>
           /\ linkedAs[Plan[i]].design \in vouched
           /\ \A j \in 1..(i - 1) : MergedKid(Plan[j])

\* Since a person approved the design, only own children changed the specs
\* that these remaining children change.
OnlyOwnSince(kids) ==
    Stage = "complete" /\ depth = "material-design" /\ Cites =>
        \A kid \in kids \ projectDone : \A s \in Touches[kid] :
            \A i \in Changing(s, approval.seen[s].identity, snapshot.seen[s].identity) :
                specLog[i].by # Outsider /\ s \in Touches[specLog[i].by]

\* An approval that was carried stands for the specs the remaining children
\* change.  Excused are children whose bundle did not exist when it was carried,
\* and commits that no rebind looked at.
CarriedOverOwnOnly == ~approval.blind => OnlyOwnSince(approval.known)

\* "without re-approval when each changed source was changed only by its own
\* delivered children or outside the remaining children's sources"
\* (openspec/specs/agent-workflow/spec.md:1460), commits before a rebuilt
\* snapshot included.
CarriedWithoutReapproval == OnlyOwnSince(approval.known)

\* "it does not continue design or handoff from the stale business meaning"
\* (openspec/specs/agent-workflow/spec.md:376): an Issue is materialized from
\* a bundle that was authored for the text that is bound.
IssuesFollowTheText ==
    \A kid \in Planned : KidLinked(kid) /\ linkedAs[kid].marker = handoffs[kid]
        /\ handoffs[kid].of.text = text => linkedAs[kid].design.text = text
====

----------------------- MODULE RequirementClosing -----------------------
(***************************************************************************)
(* The end of a Requirement (requirement_terminal.py with the checkpoint   *)
(* of requirement_retrospective.py and the terminal part of finish_task.py *)
(* and requirement_integration.py).  Its children are merged one by one or *)
(* together; the finish of a child, the coordinator, the owner's           *)
(* acceptance and the shared delivery all end in reconcile_parent, which   *)
(* reads the body, the decisions, the checkpoint and origin main, then     *)
(* each child, and closes the parent.  Nothing locks GitHub: the body, the *)
(* board and the Issues change between any two reads.                      *)
(***************************************************************************)
CONSTANTS Children, Items, Closers

VARIABLES
    linked,      \* children in the body of the parent
    items,       \* operator acceptance items in the body
    merged,      \* children whose archived, verified contract is on origin main
    boardDone,   \* children with the Project status Done
    issueClosed, \* children whose Issue is closed
    decided,     \* items with an owner's decision
    checkpoint,  \* what the current retrospective receipt was recorded for
    parentDone, parentClosed,
    told,        \* how the finish of a child ended
    closer       \* the runs that may close the parent

bodyVars == <<linked, items>>
deliveryVars == <<merged, boardDone, issueClosed>>
reviewVars == <<decided, checkpoint>>
closingVars == <<bodyVars, deliveryVars, reviewVars, parentDone, parentClosed, told, closer>>

Body == [children : SUBSET Children, items : SUBSET Items]
NoBody == [children |-> {}, items |-> {}]
Step == {"idle", "reporting", "looking", "asking", "opening", "deciding", "reviewing",
         "fetching", "verifying", "parentDone", "closing"}
Idle == [at |-> "idle", finishes |-> {}, delivered |-> {},
         body |-> NoBody, review |-> NoBody, left |-> {}, lineage |-> {}]

ClosingTypeOK ==
    /\ linked \subseteq Children /\ items \subseteq Items
    /\ merged \subseteq Children /\ boardDone \subseteq Children /\ issueClosed \subseteq Children
    /\ decided \subseteq Items /\ checkpoint \in Body
    /\ parentDone \in BOOLEAN /\ parentClosed \in BOOLEAN
    /\ told \in [Children -> {"nothing", "waiting", "closed"}]
    /\ closer \in [Closers -> [at : Step, finishes : SUBSET Children, delivered : SUBSET Children,
                               body : Body, review : Body, left : SUBSET Children, lineage : SUBSET Children]]

ClosingInit ==
    /\ linked \in SUBSET Children /\ items \in SUBSET Items
    /\ merged = {} /\ boardDone = {} /\ issueClosed = {}
    /\ decided = {} /\ checkpoint = NoBody
    /\ parentDone = FALSE /\ parentClosed = FALSE
    /\ told = [c \in Children |-> "nothing"]
    /\ closer = [k \in Closers |-> Idle]

At(k, step) == closer[k].at = step

\* A step of one closer that writes nothing outside.
Turn(k, record) ==
    /\ closer' = [closer EXCEPT ![k] = record]
    /\ UNCHANGED <<bodyVars, deliveryVars, reviewVars, parentDone, parentClosed, told>>

Goto(k, step) == Turn(k, [closer[k] EXCEPT !.at = step])

\* The run is over; the finish of a child says how.
End(k, how) ==
    /\ closer' = [closer EXCEPT ![k] = Idle]
    /\ told' = [c \in Children |-> IF c \in closer[k].finishes THEN how ELSE told[c]]

CurrentBody == [children |-> linked, items |-> items]
OnlyReads == UNCHANGED <<bodyVars, deliveryVars, reviewVars, parentDone, parentClosed>>

-----------------------------------------------------------------------------
(* The ways to reconcile_parent. *)

\* finish has confirmed the merge; it runs again when an earlier one stopped.
StartFinish(k, c) ==
    /\ At(k, "idle") /\ c \in merged \cap linked
    /\ \A other \in Closers : c \notin closer[other].finishes
    /\ Turn(k, [Idle EXCEPT !.at = "reporting", !.finishes = {c}, !.delivered = {c}])

ReportDone(k) ==
    /\ At(k, "reporting")
    /\ boardDone' = boardDone \cup closer[k].delivered
    /\ closer' = [closer EXCEPT ![k].at = IF closer[k].finishes = {} THEN "opening" ELSE "looking"]
    /\ UNCHANGED <<bodyVars, merged, issueClosed, reviewVars, parentDone, parentClosed, told>>

\* parent_closure: a closed parent is only reported.
LookAtParent(k) ==
    /\ At(k, "looking")
    /\ \/ parentClosed /\ End(k, "closed") /\ OnlyReads
       \/ /\ ~parentClosed
          /\ Turn(k, [closer[k] EXCEPT !.at = "asking", !.left = linked \ closer[k].finishes])

\* The other children are read one by one; one that is not Done ends the run,
\* for its own finish is to come.  What is missing besides is only reported.
IssueOpen(c) == c \notin issueClosed
Awaited(c) == c \notin boardDone

LookAtOther(k, c) ==
    /\ At(k, "asking") /\ c \in closer[k].left
    /\ \/ Awaited(c) /\ End(k, "waiting") /\ OnlyReads
       \/ ~Awaited(c) /\ Turn(k, [closer[k] EXCEPT !.left = @ \ {c}])

LookedAtAll(k) == At(k, "asking") /\ closer[k].left = {} /\ Goto(k, "opening")

\* The coordinator's recovery names no merged child.
StartReconcile(k) == At(k, "idle") /\ Turn(k, [Idle EXCEPT !.at = "opening"])

\* The shared delivery has merged all children at once.
StartShared(k) ==
    /\ At(k, "idle") /\ linked \subseteq merged
    /\ Turn(k, [Idle EXCEPT !.at = "reporting", !.delivered = linked])

\* accept writes the decision, and the last one closes: it counts every child
\* of the body it has read as merged.
Accept(k, i) ==
    /\ At(k, "idle") /\ ~parentClosed /\ i \in items
    /\ decided' = decided \cup {i}
    /\ closer' = [closer EXCEPT ![k] = IF items \subseteq decided'
           THEN [Idle EXCEPT !.at = "opening", !.delivered = linked] ELSE Idle]
    /\ UNCHANGED <<bodyVars, deliveryVars, checkpoint, parentDone, parentClosed, told>>

-----------------------------------------------------------------------------
(* reconcile_parent. *)

\* The body is read anew; one without children cannot be closed.
ReadBody(k) ==
    /\ At(k, "opening") /\ linked # {}
    /\ Turn(k, [closer[k] EXCEPT !.at = "deciding", !.body = CurrentBody])

ReadDecisions(k) ==
    At(k, "deciding") /\ closer[k].body.items \subseteq decided /\ Goto(k, "reviewing")

\* The receipt has to be of this body.
Reviewed(k) == checkpoint = closer[k].body

ReadCheckpoint(k) ==
    /\ At(k, "reviewing") /\ Reviewed(k)
    /\ Turn(k, [closer[k] EXCEPT !.at = "fetching", !.review = checkpoint])

FetchMain(k) ==
    /\ At(k, "fetching")
    /\ Turn(k, [closer[k] EXCEPT !.at = "verifying", !.lineage = merged, !.left = closer[k].body.children])

\* The status alone, which a person may set, delivers nothing.
StatusOf(k, c) == c \in boardDone
Delivered(k, c) == c \in boardDone /\ c \in closer[k].lineage

\* An open Issue is closed here only for a child the run has merged itself.
Verify(k, c) ==
    /\ At(k, "verifying") /\ c \in closer[k].left
    /\ Delivered(k, c)
    /\ c \in issueClosed \cup closer[k].delivered
    /\ issueClosed' = issueClosed \cup {c}
    /\ closer' = [closer EXCEPT ![k].left = @ \ {c}]
    /\ UNCHANGED <<bodyVars, merged, boardDone, reviewVars, parentDone, parentClosed, told>>

VerifiedAll(k) == At(k, "verifying") /\ closer[k].left = {} /\ Goto(k, "parentDone")

ReportParent(k) ==
    /\ At(k, "parentDone")
    /\ parentDone' = TRUE
    /\ closer' = [closer EXCEPT ![k].at = "closing"]
    /\ UNCHANGED <<bodyVars, deliveryVars, reviewVars, parentClosed, told>>

CloseParent(k) ==
    /\ At(k, "closing")
    /\ parentClosed' = TRUE
    /\ End(k, "closed")
    /\ UNCHANGED <<bodyVars, deliveryVars, reviewVars, parentDone>>

\* Refused where a check fails; and every call of GitHub may fail.
Refused(k) ==
    \/ At(k, "opening") /\ linked = {}
    \/ At(k, "deciding") /\ ~(closer[k].body.items \subseteq decided)
    \/ At(k, "reviewing") /\ ~Reviewed(k)
    \/ At(k, "verifying") /\ \E c \in closer[k].left :
           ~Delivered(k, c) \/ c \notin issueClosed \cup closer[k].delivered

Refuse(k) == Refused(k) /\ End(k, "nothing") /\ OnlyReads
LoseGitHub(k) == ~At(k, "idle") /\ End(k, "nothing") /\ OnlyReads

-----------------------------------------------------------------------------
(* The world around: merges, the owner, the coordinator, people. *)

Outside == UNCHANGED <<parentDone, parentClosed, told, closer>>

Merge(c) ==
    /\ c \in linked \ merged
    /\ merged' = merged \cup {c}
    /\ UNCHANGED <<bodyVars, boardDone, issueClosed, reviewVars>> /\ Outside

\* link_child does not ask whether the parent is still open.
LinkChild(c) ==
    /\ linked' = linked \cup {c} /\ c \notin linked
    /\ UNCHANGED <<items, deliveryVars, reviewVars>> /\ Outside

AddItem(i) ==
    /\ ~parentClosed /\ i \notin items /\ items' = items \cup {i}
    /\ UNCHANGED <<linked, deliveryVars, reviewVars>> /\ Outside

\* checkpoint: every signal there is has been linked or classified; a signal
\* that comes later makes the receipt stale, as another body does.
Checkpoint ==
    /\ linked # {} /\ checkpoint' = CurrentBody
    /\ UNCHANGED <<bodyVars, deliveryVars, decided>> /\ Outside

Signal ==
    /\ checkpoint' = NoBody
    /\ UNCHANGED <<bodyVars, deliveryVars, decided>> /\ Outside

\* People move a card to Done, or close an Issue.
SetByHand(c) ==
    /\ \/ c \notin boardDone /\ boardDone' = boardDone \cup {c} /\ UNCHANGED issueClosed
       \/ c \notin issueClosed /\ issueClosed' = issueClosed \cup {c} /\ UNCHANGED boardDone
    /\ UNCHANGED <<bodyVars, merged, reviewVars>> /\ Outside

CloserStep(k) ==
    \/ \E c \in Children : StartFinish(k, c) \/ LookAtOther(k, c) \/ Verify(k, c)
    \/ \E i \in Items : Accept(k, i)
    \/ StartReconcile(k) \/ StartShared(k) \/ ReportDone(k) \/ LookAtParent(k) \/ LookedAtAll(k)
    \/ ReadBody(k) \/ ReadDecisions(k) \/ ReadCheckpoint(k) \/ FetchMain(k)
    \/ VerifiedAll(k) \/ ReportParent(k) \/ CloseParent(k) \/ Refuse(k) \/ LoseGitHub(k)

World ==
    \/ \E c \in Children : Merge(c) \/ LinkChild(c) \/ SetByHand(c)
    \/ \E i \in Items : AddItem(i)
    \/ Checkpoint \/ Signal

ClosingNext == (\E k \in Closers : CloserStep(k)) \/ World

ClosingSpec == ClosingInit /\ [][ClosingNext]_closingVars

-----------------------------------------------------------------------------
(* Properties. *)

\* A run closes the parent for a body whose children are all merged, Done and
\* closed, whose items are all decided, and which was reviewed, whatever
\* people set by hand, whoever else runs and whatever changes meanwhile.
ClosedIsProven ==
    \A k \in Closers : At(k, "closing") =>
        LET body == closer[k].body IN
        /\ body.children # {}
        /\ body.children \subseteq merged \cap boardDone \cap issueClosed
        /\ body.items \subseteq decided
        /\ closer[k].review = body

\* Never do all children leave the closing to another one: the status is
\* written before the others are read.
SomeoneCloses == linked # {} => \E c \in linked : told[c] # "waiting"

=============================================================================

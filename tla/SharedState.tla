-------------------------- MODULE SharedState --------------------------
(***************************************************************************)
(* The shared POSIX workspace (shared_workspace.py, and the admission of   *)
(* the local sources in local_workspace.py).  Several accounts work in one *)
(* checkout; every platform path has to be usable for their group.  An     *)
(* account audits the paths one by one while the others write, replace and *)
(* drop them, repairs what it owns, and admits or refuses its own next     *)
(* step by what it saw.                                                    *)
(*                                                                         *)
(* A file fits when its group and its mode are what the contract asks for. *)
(* Directories are left out.                                               *)
(***************************************************************************)
EXTENDS Naturals, Sequences, FiniteSets

CONSTANTS
    Accounts, NoAccount,
    StatePlaces,     \* registered paths that are published atomically
    ReportPlaces,    \* registered paths that are created once
    GitPlaces,       \* files of the Git trees that come and go
    SourcePlaces,    \* the source roots under local admission
    ScratchOf,       \* of an account: where its unpublished file is
    SharedBounds     \* the bounds a behaviour may have

ASSUME SharedAssumption ==
    /\ NoAccount \notin Accounts
    /\ \A p \in ReportPlaces : p \notin StatePlaces \cup GitPlaces \cup SourcePlaces /\ \A a \in Accounts : p # ScratchOf[a]
    /\ SharedBounds \subseteq [files : Nat, runs : Nat, unsets : Nat, audits : SUBSET Accounts,
                              places : SUBSET (StatePlaces \cup ReportPlaces \cup GitPlaces \cup SourcePlaces)]

VARIABLES
    files,     \* of a place: the file there
    grants,    \* core.sharedRepository gives the group access
    heldBy,    \* the integration lock
    act,       \* of an account: its operation
    bound,     \* the bounds of this behaviour and its counters
    keptReports,      \* history: the reports that were published
    unfit,     \* history: what has not fitted since an operation began
    ungranted  \* history: and since when the group had no access

sharedVars == <<files, grants, heldBy, act, bound, keptReports, unfit, ungranted>>

Registered == StatePlaces \cup ReportPlaces \cup GitPlaces \cup {ScratchOf[a] : a \in Accounts}
Places == Registered \cup SourcePlaces

NoFile == [id |-> 0, owner |-> NoAccount, fits |-> TRUE]
Idle == [does |-> "nothing", at |-> "none", stages |-> <<>>, todo |-> {}, found |-> {}, tries |-> 0, id |-> 0, place |-> "none"]

SharedInit ==
    /\ bound \in SharedBounds
    /\ files = [p \in Places |-> NoFile]
    /\ grants \in BOOLEAN /\ heldBy = NoAccount
    /\ act = [a \in Accounts |-> Idle]
    /\ keptReports = {}
    /\ unfit = [a \in Accounts |-> {}] /\ ungranted = [a \in Accounts |-> FALSE]

There(p) == files[p] # NoFile
Foreign(a, p) == files[p].owner # a
Is(a, what, step) == act[a].does = what /\ act[a].at = step
Becomes(a, state) == act' = [act EXCEPT ![a] = state]
Steps(a, step) == Becomes(a, [act[a] EXCEPT !.at = step])
Put(p, file) == files' = [files EXCEPT ![p] = file]
Gives(a) == heldBy' = IF heldBy = a THEN NoAccount ELSE heldBy

\* The operation ends without a result, or admits what follows it.
Refuses(a) == Becomes(a, Idle) /\ Gives(a)
Admits(a) == Becomes(a, [Idle EXCEPT !.does = act[a].does, !.at = "admitted"]) /\ Gives(a)

\* Every new file is counted, and its number is its inode.
Create(p, owner, fits) ==
    /\ bound.files > 0 /\ p \in bound.places \cup {ScratchOf[a] : a \in Accounts}
    /\ bound' = [bound EXCEPT !.files = @ - 1]
    /\ Put(p, [id |-> bound.files, owner |-> owner, fits |-> fits])

-----------------------------------------------------------------------------
(* The stages of an operation: "look" and "fix" audit the registered paths, *)
(* "admit" and "mend" the sources.                                          *)

Plan == [intake |-> <<"admit", "probe", "look">>,
         preflight |-> <<"look", "mend", "admit", "fix", "config">>,
         fixcommand |-> <<"fix", "config">>]

Ready(a) == act[a].at \in {"none", "admitted"}
AuditStage(a) == Head(act[a].stages)
InStage(a, stages, step) == act[a].stages # <<>> /\ AuditStage(a) \in stages /\ act[a].at = step

BeginShared(a, what) ==
    /\ Ready(a) /\ bound.runs > 0 /\ a \in bound.audits
    /\ bound' = [bound EXCEPT !.runs = @ - 1]
    /\ Becomes(a, [Idle EXCEPT !.does = what, !.at = "scan", !.stages = Plan[what]])
    /\ UNCHANGED <<files, grants, heldBy, keptReports>>

NextStage(a) ==
    IF Tail(act[a].stages) = <<>>
    THEN Admits(a)
    ELSE /\ Becomes(a, [Idle EXCEPT !.does = act[a].does, !.at = "scan", !.stages = Tail(act[a].stages)])
         /\ UNCHANGED heldBy

\* The live session shows what it can create, below a directory of its own.
Probe(a) ==
    /\ InStage(a, {"probe"}, "scan")
    /\ NextStage(a) \/ Refuses(a)
    /\ UNCHANGED <<files, grants, bound, keptReports>>

Scope(auditStage) == IF auditStage \in {"look", "fix"} THEN Registered ELSE SourcePlaces

Scan(a) ==
    /\ InStage(a, {"look", "fix", "admit", "mend"}, "scan")
    /\ Becomes(a, [act[a] EXCEPT !.at = "audit", !.todo = {p \in Scope(AuditStage(a)) : There(p)}, !.found = {}])
    /\ UNCHANGED <<files, grants, heldBy, bound, keptReports>>

\* A path that vanished sends an audit of the registered paths back to its scan,
\* a bounded number of times.
RescanAttempts == 3
DropsTheRest(a, p) == [act[a] EXCEPT !.todo = {}]
Vanished(a, p) ==
    IF AuditStage(a) \in {"look", "fix"} /\ act[a].tries < RescanAttempts - 1
    THEN [act[a] EXCEPT !.at = "scan", !.tries = @ + 1]
    ELSE [act[a] EXCEPT !.todo = @ \ {p}]

Seen(a, p) == [act[a] EXCEPT !.todo = @ \ {p}]
Reported(a, p) == [act[a] EXCEPT !.todo = @ \ {p}, !.found = @ \cup {p}]
Repairs(a, p) == AuditStage(a) = "fix" \/ (AuditStage(a) = "mend" /\ ~Foreign(a, p))

Inspect(a, p) ==
    /\ InStage(a, {"look", "fix", "admit", "mend"}, "audit") /\ p \in act[a].todo
    /\ \/ ~There(p) /\ Becomes(a, Vanished(a, p))
       \/ There(p) /\ files[p].fits /\ Becomes(a, Seen(a, p))
       \/ ~files[p].fits /\ ~Repairs(a, p) /\ Becomes(a, Reported(a, p))
       \/ ~files[p].fits /\ Repairs(a, p)
          /\ Becomes(a, [act[a] EXCEPT !.at = "repair", !.place = p, !.id = files[p].id])
    /\ UNCHANGED <<files, grants, heldBy, bound, keptReports>>

\* The platform repairs whatever is at the path by then, and is refused by a
\* foreign file; the local audit repairs the file it opened, if it still is there.
Repair(a) ==
    /\ InStage(a, {"fix", "mend"}, "repair")
    /\ LET p == act[a].place
           back(state) == [state EXCEPT !.at = IF @ = "scan" THEN @ ELSE "audit", !.place = "none", !.id = 0]
       IN \/ ~There(p) /\ Becomes(a, back(Vanished(a, p))) /\ UNCHANGED <<files, heldBy>>
          \/ There(p) /\ AuditStage(a) = "fix" /\ Foreign(a, p) /\ ~files[p].fits /\ Refuses(a) /\ UNCHANGED files
          \/ There(p) /\ AuditStage(a) = "mend" /\ files[p].id # act[a].id
             /\ Becomes(a, back(Reported(a, p))) /\ UNCHANGED <<files, heldBy>>
          \/ /\ There(p)
             /\ IF AuditStage(a) = "fix" THEN ~Foreign(a, p) \/ files[p].fits ELSE files[p].id = act[a].id
             /\ Put(p, [files[p] EXCEPT !.fits = TRUE]) /\ Becomes(a, back(Seen(a, p))) /\ UNCHANGED heldBy
    /\ UNCHANGED <<grants, bound, keptReports>>

\* A first look goes on to the repairs when all it found is of its own account.
Tolerable(a) ==
    \/ act[a].found = {}
    \/ /\ act[a].does = "preflight" /\ AuditStage(a) = "look"
       /\ \A p \in act[a].found : There(p) /\ ~Foreign(a, p)

EndStage(a) ==
    /\ InStage(a, {"look", "fix", "admit", "mend"}, "audit") /\ act[a].todo = {}
    /\ IF Tolerable(a) THEN NextStage(a) ELSE Refuses(a)
    /\ UNCHANGED <<files, grants, bound, keptReports>>

\* The Git configuration is verified; an operator's command sets it right away,
\* a preflight under the integration lock after another look.
CheckConfig(a) ==
    /\ InStage(a, {"config"}, "scan")
    /\ \/ grants /\ Admits(a)
       \/ ~grants /\ Steps(a, IF act[a].does = "fixcommand" THEN "configure" ELSE "lock") /\ UNCHANGED heldBy
    /\ UNCHANGED <<files, grants, bound, keptReports>>

LockForRepair(a) ==
    /\ InStage(a, {"config"}, "lock")
    /\ \/ heldBy = NoAccount /\ heldBy' = a /\ Steps(a, "recheck")
       \/ heldBy # NoAccount /\ Refuses(a)
    /\ UNCHANGED <<files, grants, bound, keptReports>>

Recheck(a) ==
    /\ InStage(a, {"config"}, "recheck")
    /\ IF grants THEN Admits(a) ELSE Steps(a, "configure") /\ UNCHANGED heldBy
    /\ UNCHANGED <<files, grants, bound, keptReports>>

Configure(a) ==
    /\ InStage(a, {"config"}, "configure")
    /\ grants' = TRUE /\ Steps(a, "verify")
    /\ UNCHANGED <<files, heldBy, bound, keptReports>>

ConfigTook(a) ==
    /\ InStage(a, {"config"}, "verify")
    /\ IF grants THEN Admits(a) ELSE Refuses(a)
    /\ UNCHANGED <<files, grants, bound, keptReports>>

-----------------------------------------------------------------------------
(* Publications. *)

\* The unpublished file is private until it is made to fit.
WriteScratch(a, p) ==
    /\ Ready(a) /\ files[ScratchOf[a]] = NoFile /\ p \in bound.places
    /\ Create(ScratchOf[a], a, FALSE)
    /\ Becomes(a, [Idle EXCEPT !.does = "write", !.at = "fit", !.place = p, !.id = bound.files])
    /\ UNCHANGED <<grants, heldBy, keptReports>>

FitScratch(a) ==
    /\ Is(a, "write", "fit") /\ Steps(a, "replace")
    /\ Put(ScratchOf[a], [files[ScratchOf[a]] EXCEPT !.fits = TRUE])
    /\ UNCHANGED <<grants, heldBy, bound, keptReports>>

ReplaceState(a) ==
    /\ Is(a, "write", "replace") /\ Steps(a, "verify")
    /\ files' = [files EXCEPT ![act[a].place] = files[ScratchOf[a]], ![ScratchOf[a]] = NoFile]
    /\ UNCHANGED <<grants, heldBy, bound, keptReports>>

\* Whatever the verification says, the file is published.
VerifyWrite(a) ==
    /\ Is(a, "write", "verify") /\ Becomes(a, Idle)
    /\ UNCHANGED <<files, grants, heldBy, bound, keptReports>>

FailWrite(a) ==
    /\ act[a].does = "write" /\ act[a].at \in {"fit", "replace"}
    /\ Put(ScratchOf[a], NoFile) /\ Becomes(a, Idle)
    /\ UNCHANGED <<grants, heldBy, bound, keptReports>>

\* A report is created where no file is.
AnyReportPlace(p) == TRUE
Vacant(p) == files[p] = NoFile

CreateReport(a, p) ==
    /\ Ready(a) /\ Vacant(p)
    /\ \E fits \in BOOLEAN : Create(p, a, fits)
    /\ Becomes(a, [Idle EXCEPT !.does = "report", !.at = "fit", !.place = p, !.id = bound.files])
    /\ UNCHANGED <<grants, heldBy, keptReports>>

\* The open file is changed, wherever its path leads by now.
FitReport(a) ==
    /\ Is(a, "report", "fit")
    /\ \/ Steps(a, "verify")
          /\ IF files[act[a].place].id = act[a].id
             THEN Put(act[a].place, [files[act[a].place] EXCEPT !.fits = TRUE])
             ELSE UNCHANGED files
       \/ Steps(a, "undo") /\ UNCHANGED files
    /\ UNCHANGED <<grants, heldBy, bound, keptReports>>

VerifyReport(a) ==
    /\ Is(a, "report", "verify")
    /\ LET p == act[a].place IN
        \/ files[p].id = act[a].id /\ files[p].fits /\ Becomes(a, Idle) /\ keptReports' = keptReports \cup {[place |-> p, id |-> act[a].id]}
        \/ ~(files[p].id = act[a].id /\ files[p].fits) /\ Steps(a, "undo") /\ UNCHANGED keptReports
    /\ UNCHANGED <<files, grants, heldBy, bound>>

\* Only the own file is taken away again; it is looked at first.
UndoReport(a) ==
    /\ Is(a, "report", "undo")
    /\ IF files[act[a].place].id = act[a].id THEN Steps(a, "unlink") ELSE Becomes(a, Idle)
    /\ UNCHANGED <<files, grants, heldBy, bound, keptReports>>

UnlinkReport(a) ==
    /\ Is(a, "report", "unlink") /\ Becomes(a, Idle)
    /\ Put(act[a].place, NoFile)
    /\ UNCHANGED <<grants, heldBy, bound, keptReports>>

-----------------------------------------------------------------------------
(* Everything else that happens in the checkout. *)

\* A tool of an account replaces a file without the contract.
RawWrite(a, p) ==
    /\ Create(p, a, FALSE)
    /\ UNCHANGED <<grants, heldBy, act, keptReports>>

GitCreates(a, p) ==
    /\ ~There(p) /\ \E fits \in {TRUE, grants} : Create(p, a, fits)
    /\ UNCHANGED <<grants, heldBy, act, keptReports>>

GitDrops(p) ==
    /\ There(p) /\ Put(p, NoFile)
    /\ UNCHANGED <<grants, heldBy, act, bound, keptReports>>

UnsetConfig ==
    /\ grants /\ bound.unsets > 0
    /\ grants' = FALSE /\ bound' = [bound EXCEPT !.unsets = @ - 1]
    /\ UNCHANGED <<files, heldBy, act, keptReports>>

KillShared(a) ==
    /\ ~Ready(a) /\ Refuses(a)
    /\ UNCHANGED <<files, grants, bound, keptReports>>

\* History: where no fitting file and no gap was since an operation began.
Track ==
    LET bad == {p \in Places : files'[p] # NoFile /\ ~files'[p].fits}
        begun(a) == act[a].at \in {"none", "admitted"} /\ act'[a].at = "scan"
        gone(a) == act'[a] = Idle
    IN /\ unfit' = [a \in Accounts |-> IF gone(a) THEN {} ELSE IF begun(a) THEN bad ELSE unfit[a] \cap bad]
       /\ ungranted' = [a \in Accounts |-> ~gone(a) /\ ~grants' /\ (begun(a) \/ ungranted[a])]

SharedNext ==
    /\ \/ \E a \in Accounts, what \in DOMAIN Plan : BeginShared(a, what)
       \/ \E a \in Accounts :
            \/ Probe(a) \/ Scan(a) \/ Repair(a) \/ EndStage(a)
            \/ CheckConfig(a) \/ LockForRepair(a) \/ Recheck(a) \/ Configure(a) \/ ConfigTook(a)
            \/ FitScratch(a) \/ ReplaceState(a) \/ VerifyWrite(a) \/ FailWrite(a)
            \/ FitReport(a) \/ VerifyReport(a) \/ UndoReport(a) \/ UnlinkReport(a) \/ KillShared(a)
       \/ \E a \in Accounts, p \in Places : Inspect(a, p)
       \/ \E a \in Accounts, p \in StatePlaces : WriteScratch(a, p)
       \/ \E a \in Accounts, p \in ReportPlaces : CreateReport(a, p)
       \/ \E a \in Accounts, p \in StatePlaces \cup SourcePlaces : RawWrite(a, p)
       \/ \E a \in Accounts, p \in GitPlaces : GitCreates(a, p)
       \/ \E p \in GitPlaces : GitDrops(p)
       \/ UnsetConfig
    /\ Track

SharedSpec == SharedInit /\ [][SharedNext]_sharedVars

-----------------------------------------------------------------------------
(* Properties. *)

\* An operation is admitted only if no path it answers for was unusable for the
\* group from its beginning to its end, whatever vanished, was replaced or
\* repaired under its audits; and, for the two that check it, only if Git did
\* not deny the group access all the while.  And a report that was published
\* stays: no racing publication of its name replaces it, no cleanup removes it.
AdmittedIsFit ==
    /\ \A a \in Accounts : act[a].at = "admitted" =>
           /\ unfit[a] \cap (IF act[a].does = "fixcommand" THEN Registered ELSE Places) = {}
           /\ act[a].does \in {"preflight", "fixcommand"} => ~ungranted[a]
    /\ \A report \in keptReports : files[report.place].id = report.id
====

---------------------------- MODULE MCTaskWork ----------------------------
(* Small instances of the parts that work goes through until its publication:  *)
(* the design of a Requirement before it is authored, the intake of a task's   *)
(* package, the routing of the work to an executor, and the evidence of its    *)
(* completion.  The parts share no state in these models; `part` says which of *)
(* them a behaviour is about, and the others stay where they are.              *)
EXTENDS PreAuthoring, TaskIntake, ModelRouting, CompletionEvidence, TLC

VARIABLE part

MCPlan == <<"c", "d">>
MCTouches == [k \in {"c", "d", "e"} |-> {"s"}]

\* Each instance lets one way to a stale design meet the ways to carry it on.
AuthoringSlice(depthsIn, textsIn, draftsIn, editsIn, othersIn, straysIn, doubtsIn, handsIn) ==
    [depths |-> depthsIn, texts |-> textsIn, drafts |-> draftsIn, edits |-> editsIn,
     others |-> othersIn, strays |-> straysIn, doubts |-> doubtsIn, hands |-> handsIn]
MCAuthoringBounds ==
    {AuthoringSlice({"material-design"}, 1, 1, 1, 1, {{}}, {FALSE}, FALSE),
     AuthoringSlice({"material-design"}, 2, 1, 1, 0, {{}}, {FALSE}, FALSE),
     AuthoringSlice({"material-design"}, 1, 1, 1, 0, {{}, {"t"}}, {FALSE}, TRUE),
     AuthoringSlice({"material-design"}, 1, 2, 1, 0, {{}}, {FALSE}, FALSE),
     AuthoringSlice({"material-design"}, 1, 1, 1, 0, {{}}, {TRUE, FALSE}, FALSE),
     AuthoringSlice({"deterministic", "bounded-evidence"}, 2, 1, 1, 0, {{}}, {TRUE, FALSE}, FALSE)}

\* Two authors; one author with three commands, or two imports.
IntakeSlice(authorsIn, refsIn, runsIn, editsIn, movesIn, importsIn, closesIn) ==
    [authors |-> authorsIn, refs |-> refsIn, runs |-> runsIn, edits |-> editsIn,
     moves |-> movesIn, imports |-> importsIn, closes |-> closesIn]
MCIntakeBounds ==
    {IntakeSlice({"a", "b"}, {"e"}, 2, 0, 1, 1, 0), IntakeSlice({"a"}, {"e"}, 3, 1, 1, 1, 1),
     IntakeSlice({"a"}, {"e"}, 2, 1, 1, 2, 1)}

\* A route with a context worker beside it, not archived, or with a single edit; a second route likewise; and
\* selections of both kinds.
RoutingSlice(editsIn, movesIn, routesIn, workersIn, selectionsIn) ==
    [edits |-> editsIn, moves |-> movesIn, routes |-> routesIn, workers |-> workersIn, selections |-> selectionsIn]
MCRoutingBounds ==
    {RoutingSlice(2, 1, 1, 1, {}), RoutingSlice(1, 0, 1, 1, {TRUE}),
     RoutingSlice(2, 0, 2, 0, {}), RoutingSlice(1, 0, 2, 0, {TRUE}),
     RoutingSlice(2, 0, 1, 0, {TRUE, FALSE})}

\* Main moves while the agent checks by itself; reviews of protected content;
\* reviews that the agent runs by itself.
EvidenceSlice(movesIn, commitsIn, serialsIn, aloneIn, riskyIn) ==
    [moves |-> movesIn, commits |-> commitsIn, serials |-> serialsIn, alone |-> aloneIn,
     overlap |-> FALSE, risky |-> riskyIn]
MCEvidenceBounds ==
    {EvidenceSlice(2, 1, 0, {"checks"}, {}), EvidenceSlice(1, 1, 5, {}, {2}),
     EvidenceSlice(0, 1, 4, {"reviews"}, {2})}
MCSelected == (1 :> {"unit"}) @@ (2 :> {"unit", "full"})

OneAuthoring == slice = CHOOSE s \in AuthoringBounds : TRUE
OneIntake == limits = CHOOSE b \in IntakeBounds : TRUE
OneRoute == bound = CHOOSE b \in Bounds : TRUE
OneEvidence == /\ lifecycle = "quick" /\ tree.content = 1
               /\ scope = CHOOSE b \in EvidenceBounds : TRUE

WorkInit ==
    /\ part \in {"authoring", "intake", "routing", "evidence"}
    /\ AuthoringInit /\ IntakeInit /\ RoutingInit /\ EvidenceInit
    /\ part = "authoring" \/ OneAuthoring
    /\ part = "intake" \/ OneIntake
    /\ part = "routing" \/ OneRoute
    /\ part = "evidence" \/ OneEvidence

WorkNext ==
    \/ part = "authoring" /\ AuthoringNext /\ UNCHANGED <<intakeVars, routingVars, evidenceVars, part>>
    \/ part = "intake" /\ IntakeNext /\ UNCHANGED <<authoringVars, routingVars, evidenceVars, part>>
    \/ part = "routing" /\ RoutingNext /\ UNCHANGED <<authoringVars, intakeVars, evidenceVars, part>>
    \/ part = "evidence" /\ EvidenceNext /\ UNCHANGED <<authoringVars, intakeVars, routingVars, part>>

WorkSpec == WorkInit /\ [][WorkNext]_<<authoringVars, intakeVars, routingVars, evidenceVars, part>>

====

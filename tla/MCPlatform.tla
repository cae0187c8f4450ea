---------------------------- MODULE MCPlatform ----------------------------
(* Small instances of the parts that outlive a task: the rollout of a platform *)
(* version to a project, the friction log and its roots, the generated hooks,  *)
(* the files of a shared group, and the cache of GitHub's answers.  The parts  *)
(* share no state in these models; `part` says which of them a behaviour is    *)
(* about, and the others stay where they are.                                  *)
EXTENDS Rollout, FrictionLog, HookAttachment, SharedState, ReadCache, TLC

VARIABLE part

\* Whole trees for one job and one version; for the Issue and the requests,
\* which do not look at files, more jobs and versions, and more failures of one version.
RolloutSlice(pathsIn, jobsIn, parallelIn, versionsIn, dispatchesIn, editsIn, faultsIn) ==
    [paths |-> pathsIn, jobs |-> jobsIn, parallel |-> parallelIn, versions |-> versionsIn,
     dispatches |-> dispatchesIn, edits |-> editsIn, faults |-> faultsIn]
MCRequestsOnly == RolloutSlice({}, {"x", "y"}, 2, 2, 2, 1, 0)
MCRolloutBounds ==
    {MCRequestsOnly,
     RolloutSlice({}, {"x", "y"}, 2, 2, 3, 0, 0),
     RolloutSlice({}, {"x"}, 1, 2, 4, 1, 1),
     RolloutSlice({}, {"x"}, 1, 1, 4, 2, 2),
     RolloutSlice({}, {"x", "y"}, 2, 1, 3, 1, 1),
     RolloutSlice({}, {"x", "y"}, 2, 1, 4, 1, 0),
     RolloutSlice({"o", "c", "r"}, {"x"}, 1, 1, 1, 0, 1),
     RolloutSlice({"c", "o"}, {"x"}, 1, 1, 1, 1, 1)}

\* Events of one fingerprint, of a similar one, and of a task.
MCKind(printIn, taskIn, isMandatory, isComplete) ==
    [print |-> printIn, task |-> taskIn, mandatory |-> isMandatory, complete |-> isComplete]
MCKinds ==
    ("a" :> MCKind("p", "t", TRUE, TRUE)) @@ ("b" :> MCKind("q", "nobody", FALSE, TRUE))
    @@ ("c" :> MCKind("p", "nobody", FALSE, TRUE)) @@ ("d" :> MCKind("r", "unclear", TRUE, FALSE))
MCSimilar == {<<"q", "p">>}
FrictionSlice(sessionsIn, tasksIn, eventsIn, triesIn, curationsIn, marksIn, commitsIn) ==
    [sessions |-> sessionsIn, tasks |-> tasksIn, events |-> eventsIn, tries |-> triesIn,
     curations |-> curationsIn, marks |-> marksIn, commits |-> commitsIn]
MCFrictionBounds ==
    {FrictionSlice({"x", "y"}, {}, {"a", "b"}, 1, 1, 0, 0),
     FrictionSlice({"x"}, {}, {"a", "b", "c"}, 1, 2, 0, 0),
     FrictionSlice({"x"}, {"t"}, {"a", "d"}, 0, 0, 0, 1),
     FrictionSlice({"x"}, {"t"}, {"a"}, 0, 0, 1, 2),
     FrictionSlice({}, {"t"}, {}, 0, 0, 0, 4)}

\* Each instance lets one contract of the shared group meet what can undo it.
MCScratch == ("a" :> "ta") @@ ("b" :> "tb")
SharedSlice(some, runsIn, unsetsIn, placesIn, audits) ==
    [files |-> some, runs |-> runsIn, unsets |-> unsetsIn, places |-> placesIn, audits |-> audits]
MCSharedBounds ==
    {SharedSlice(4, 1, 0, {"g"}, {"a"}), SharedSlice(2, 1, 0, {"s", "g"}, {"a"}),
     SharedSlice(2, 1, 0, {"q", "g"}, {"b"}), SharedSlice(0, 2, 2, {}, {"a", "b"}),
     SharedSlice(2, 0, 0, {"r", "s"}, {}), SharedSlice(3, 1, 0, {"r"}, {"b"})}

OneRollout == limits = MCRequestsOnly
OneLog == caps = CHOOSE b \in FrictionBounds : TRUE
OnePath == hooksPath = "u"
OneMode == ~grants /\ bound = CHOOSE b \in SharedBounds : TRUE

PlatformInit ==
    /\ part \in {"rollout", "friction", "hooks", "shared", "cache"}
    /\ RolloutInit /\ FrictionInit /\ AttachmentInit /\ SharedInit /\ CacheInit
    /\ part = "rollout" \/ OneRollout
    /\ part = "friction" \/ OneLog
    /\ part = "hooks" \/ OnePath
    /\ part = "shared" \/ OneMode

PlatformNext ==
    \/ part = "rollout" /\ RolloutNext /\ UNCHANGED <<frictionVars, attachmentVars, sharedVars, cacheVars, part>>
    \/ part = "friction" /\ FrictionNext /\ UNCHANGED <<rolloutVars, attachmentVars, sharedVars, cacheVars, part>>
    \/ part = "hooks" /\ AttachmentNext /\ UNCHANGED <<rolloutVars, frictionVars, sharedVars, cacheVars, part>>
    \/ part = "shared" /\ SharedNext /\ UNCHANGED <<rolloutVars, frictionVars, attachmentVars, cacheVars, part>>
    \/ part = "cache" /\ CacheNext /\ UNCHANGED <<rolloutVars, frictionVars, attachmentVars, sharedVars, part>>

PlatformSpec == PlatformInit /\ [][PlatformNext]_<<rolloutVars, frictionVars, attachmentVars, sharedVars, cacheVars, part>>

====

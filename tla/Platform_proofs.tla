-------------------------- MODULE Platform_proofs --------------------------
(***************************************************************************)
(* Proofs about the parts that outlive a task, each for any number of the  *)
(* processes that share them:                                              *)
(*   - the attachment of the generated hooks keeps the hooks of the user   *)
(*     in every stage (HookAttachment);                                    *)
(*   - what a checkpoint of the friction gate was carried over, a review   *)
(*     saw, and a fingerprint has one open root (FrictionLog);             *)
(*   - a read through the cache during which the list stands still returns *)
(*     the list (ReadCache);                                               *)
(*   - an audit of the shared workspace admits nothing over a path that    *)
(*     was unusable all along, and no report is lost (SharedState);        *)
(*   - a managed rollout keeps the work of the project and a way to every  *)
(*     version, and counts its failures (Rollout).                         *)
(***************************************************************************)
EXTENDS HookAttachment, FrictionLog, ReadCache, SharedState, Rollout,
        FiniteSetTheorems, SequenceTheorems, WellFoundedInduction, TLAPS

-----------------------------------------------------------------------------
(* The types of an attachment. *)

HookPaths == UserPaths \cup {Dispatcher, NoPathReceipt}
WorkerRecord == [does : {"nothing", "attach", "detach"},
                 at : {"none", "check", "receipt", "hooks", "path", "key"}, path : HookPaths, todo : SUBSET Hooks]

AttachmentTypes ==
    /\ hooksPath \in HookPaths /\ pathReceipt \in HookPaths /\ policyKey \in BOOLEAN
    /\ generated \in [Hooks -> {"none", "ours", "edited"}]
    /\ worker \in [Users -> WorkerRecord]
    /\ wanted \in UserPaths

\* The steps that write settings, and those that only start, stop or look.
AttachStep(u) ==
    \/ AttachCheck(u) \/ AttachReceipt(u) \/ AttachKey(u) \/ AttachPath(u)
    \/ \E h \in Hooks : AttachHook(u, h)
DetachStep(u) == DetachCheck(u) \/ DetachPath(u) \/ DetachKey(u) \/ DetachHooks(u) \/ DetachReceipt(u)
AgentStep(u) == InstallAgent(u) \/ BootOut(u) \/ UnlinkPlist(u) \/ Login(u) \/ KillWorker(u)
HandStep == (\E path \in UserPaths : EditPath(path)) \/ \E h \in Hooks : EditHook(h)

\* The record of a process that rests.
LEMMA RestingType == Resting \in WorkerRecord /\ Resting.does = "nothing"
  BY DEF Resting, WorkerRecord, HookPaths

\* What a step of an attachment writes to the record of its process.
LEMMA AttachWrites ==
    ASSUME AttachmentTypes, NEW u \in Users, AttachStep(u)
    PROVE  /\ worker[u].does = "attach"
           /\ \E r \in WorkerRecord : worker' = [worker EXCEPT ![u] = r]
<1>1. worker[u] \in WorkerRecord /\ Resting \in WorkerRecord /\ hooksPath \in HookPaths
  BY RestingType DEF AttachmentTypes
<1>2. worker[u].does = "attach"
  BY DEF AttachStep, AttachCheck, AttachReceipt, AttachKey, AttachPath, AttachHook, Doing
<1>3. \/ worker' = [worker EXCEPT ![u] = Resting]
      \/ \E step \in {"hooks", "path"} : worker' = [worker EXCEPT ![u].at = step]
      \/ \E step \in {"hooks", "receipt"} : worker' = [worker EXCEPT ![u].at = step, ![u].path = hooksPath]
      \/ \E h \in Hooks : worker' = [worker EXCEPT ![u].todo = @ \ {h}]
  BY DEF AttachStep, AttachCheck, AttachReceipt, AttachKey, AttachPath, AttachHook, StepTo, Stops
<1>4. \/ worker' = [worker EXCEPT ![u] = Resting]
      \/ \E step \in {"hooks", "path"} : worker' = [worker EXCEPT ![u] = [worker[u] EXCEPT !.at = step]]
      \/ \E step \in {"hooks", "receipt"} :
             worker' = [worker EXCEPT ![u] = [worker[u] EXCEPT !.at = step, !.path = hooksPath]]
      \/ \E h \in Hooks : worker' = [worker EXCEPT ![u] = [worker[u] EXCEPT !.todo = @ \ {h}]]
  BY <1>3
<1>5. /\ \A step \in {"hooks", "path"} : [worker[u] EXCEPT !.at = step] \in WorkerRecord
      /\ \A step \in {"hooks", "receipt"} : [worker[u] EXCEPT !.at = step, !.path = hooksPath] \in WorkerRecord
      /\ \A h \in Hooks : [worker[u] EXCEPT !.todo = @ \ {h}] \in WorkerRecord
  BY <1>1 DEF WorkerRecord
<1> QED
  BY <1>1, <1>2, <1>4, <1>5

\* And a step of a removal.
LEMMA DetachWrites ==
    ASSUME AttachmentTypes, NEW u \in Users, DetachStep(u)
    PROVE  /\ worker[u].does = "detach"
           /\ \E r \in WorkerRecord : worker' = [worker EXCEPT ![u] = r]
<1>1. worker[u] \in WorkerRecord /\ Resting \in WorkerRecord /\ pathReceipt \in HookPaths
  BY RestingType DEF AttachmentTypes
<1>2. worker[u].does = "detach"
  BY DEF DetachStep, DetachCheck, DetachPath, DetachKey, DetachHooks, DetachReceipt, Doing
<1>3. \/ worker' = [worker EXCEPT ![u] = Resting]
      \/ \E step \in {"key", "hooks", "receipt"} : worker' = [worker EXCEPT ![u] = [worker[u] EXCEPT !.at = step]]
      \/ worker' = [worker EXCEPT ![u] = [worker[u] EXCEPT !.at = "path", !.path = pathReceipt]]
  BY DEF DetachStep, DetachCheck, DetachPath, DetachKey, DetachHooks, DetachReceipt, DetachOrder, StepTo, Stops
<1>4. /\ \A step \in {"key", "hooks", "receipt"} : [worker[u] EXCEPT !.at = step] \in WorkerRecord
      /\ [worker[u] EXCEPT !.at = "path", !.path = pathReceipt] \in WorkerRecord
  BY <1>1 DEF WorkerRecord
<1> QED
  BY <1>1, <1>2, <1>3, <1>4

\* The agents of launchd stop a sync, and write no settings.
LEMMA AgentWrites ==
    ASSUME AttachmentTypes, NEW u \in Users, AgentStep(u)
    PROVE  /\ UNCHANGED <<hooksPath, policyKey, pathReceipt, generated, wanted, crossed>>
           /\ worker' = worker \/ worker' = [worker EXCEPT ![u] = Resting]
  BY DEF AgentStep, InstallAgent, BootOut, UnlinkPlist, Login, KillWorker, Stops, ExceptAgent, ExceptWork, configVars

\* A process starts at its check.
LEMMA StartWrites ==
    ASSUME AttachmentTypes, NEW u \in Users, StartSync(u) \/ StartDetach(u)
    PROVE  /\ UNCHANGED <<hooksPath, policyKey, pathReceipt, generated, wanted, crossed>>
           /\ \E r \in WorkerRecord :
                  /\ r.at = "check" /\ r.does \in {"attach", "detach"}
                  /\ r.does = "attach" => r.todo = Hooks
                  /\ worker' = [worker EXCEPT ![u] = r]
<1>1. Resting \in WorkerRecord
  BY RestingType
<1> DEFINE sync == [Resting EXCEPT !.does = "attach", !.at = "check", !.todo = Hooks]
           removal == [Resting EXCEPT !.does = "detach", !.at = "check"]
<1>2. /\ sync \in WorkerRecord /\ sync.at = "check" /\ sync.does = "attach" /\ sync.todo = Hooks
      /\ removal \in WorkerRecord /\ removal.at = "check" /\ removal.does = "detach"
  BY <1>1 DEF WorkerRecord
<1>3. UNCHANGED <<hooksPath, policyKey, pathReceipt, generated, wanted, crossed>>
  BY DEF StartSync, StartDetach, ExceptWork, configVars
<1> QED
  BY <1>2, <1>3 DEF StartSync, StartDetach

\* Every step keeps the types.
LEMMA AttachmentTypesStay ==
    ASSUME AttachmentTypes, [AttachmentNext]_attachmentVars
    PROVE  AttachmentTypes'
<1>1. CASE UNCHANGED attachmentVars
  BY <1>1 DEF AttachmentTypes, attachmentVars, configVars
<1>2. ASSUME NEW u \in Users, AttachStep(u) PROVE AttachmentTypes'
  <2>1. worker' \in [Users -> WorkerRecord] /\ worker[u] \in WorkerRecord
    BY <1>2, AttachWrites DEF AttachmentTypes
  <2>2. worker[u].path \in HookPaths
    BY <2>1 DEF WorkerRecord
  <2>3. hooksPath' \in HookPaths /\ pathReceipt' \in HookPaths /\ policyKey' \in BOOLEAN /\ wanted' \in UserPaths
    BY <1>2, <2>2 DEF AttachmentTypes, HookPaths, AttachStep, AttachCheck, AttachReceipt, AttachKey, AttachPath, AttachHook,
                      ExceptWork, configVars
  <2>4. generated' \in [Hooks -> {"none", "ours", "edited"}]
    BY <1>2 DEF AttachmentTypes, AttachStep, AttachCheck, AttachReceipt, AttachKey, AttachPath, AttachHook, configVars
  <2> QED
    BY <2>1, <2>3, <2>4 DEF AttachmentTypes
<1>3. ASSUME NEW u \in Users, DetachStep(u) PROVE AttachmentTypes'
  <2>1. worker' \in [Users -> WorkerRecord] /\ worker[u] \in WorkerRecord
    BY <1>3, DetachWrites DEF AttachmentTypes
  <2>2. worker[u].path \in HookPaths
    BY <2>1 DEF WorkerRecord
  <2>3. hooksPath' \in HookPaths /\ pathReceipt' \in HookPaths /\ policyKey' \in BOOLEAN /\ wanted' \in UserPaths
    BY <1>3, <2>2 DEF AttachmentTypes, HookPaths, DetachStep, DetachCheck, DetachPath, DetachKey, DetachHooks, DetachReceipt,
                      ExceptWork, configVars
  <2>4. generated' \in [Hooks -> {"none", "ours", "edited"}]
    BY <1>3 DEF AttachmentTypes, DetachStep, DetachCheck, DetachPath, DetachKey, DetachHooks, DetachReceipt, configVars
  <2> QED
    BY <2>1, <2>3, <2>4 DEF AttachmentTypes
<1>4. ASSUME NEW u \in Users, AgentStep(u) \/ StartSync(u) \/ StartDetach(u) PROVE AttachmentTypes'
  BY <1>4, AgentWrites, StartWrites, RestingType DEF AttachmentTypes
<1>5. CASE HandStep
  BY <1>5 DEF HandStep, EditPath, EditHook, ByHand, AttachmentTypes, HookPaths
<1> QED
  BY <1>1, <1>2, <1>3, <1>4, <1>5 DEF AttachmentNext, AttachStep, DetachStep, AgentStep, HandStep

-----------------------------------------------------------------------------
(* What holds between the settings, and between them and the processes     *)
(* that change them.  A sync works alone; removals may work at once.  The  *)
(* receipt comes before the key and the dispatcher, and goes after them.   *)

Settings ==
    /\ hooksPath = Dispatcher => pathReceipt = wanted /\ \A h \in Hooks : generated[h] # "none"
    /\ hooksPath # Dispatcher => hooksPath = wanted
    /\ policyKey => pathReceipt # NoPathReceipt

Alone(u) == \A v \in Users \ {u} : worker[v].does = "nothing"

Attaching(u) ==
    worker[u].does = "attach" =>
        /\ Alone(u)
        /\ worker[u].at \in {"check", "receipt"} => worker[u].todo = Hooks
        /\ worker[u].at = "receipt" =>
               /\ pathReceipt = NoPathReceipt /\ ~policyKey
               /\ worker[u].path = hooksPath /\ hooksPath # Dispatcher
        /\ worker[u].at \in {"hooks", "path"} =>
               /\ pathReceipt # NoPathReceipt
               /\ worker[u].path = hooksPath /\ hooksPath \in {Dispatcher, pathReceipt}
               /\ \A h \in Hooks \ worker[u].todo : generated[h] # "none"
        /\ worker[u].at = "path" => worker[u].todo = {}

Detaching(u) ==
    worker[u].does = "detach" =>
        /\ worker[u].at = "path" => worker[u].path = wanted
        /\ worker[u].at \in {"key", "hooks", "receipt"} => hooksPath # Dispatcher
        /\ worker[u].at \in {"hooks", "receipt"} => ~policyKey

Uncrossed == Settings /\ \A u \in Users : Attaching(u) /\ Detaching(u)

AttachmentInv == AttachmentTypes /\ (~crossed => Uncrossed)

\* A sync keeps the settings and itself in order.
LEMMA AttachKeeps ==
    ASSUME AttachmentTypes, Uncrossed, NEW u \in Users, AttachStep(u)
    PROVE  Uncrossed'
<1>1. /\ worker \in [Users -> WorkerRecord] /\ worker[u] \in WorkerRecord /\ worker[u].does = "attach"
      /\ Resting.does = "nothing"
  BY AttachWrites, RestingType DEF AttachmentTypes
<1>2. Settings /\ Attaching(u) /\ Alone(u)
  BY <1>1 DEF Uncrossed, Attaching
<1>3. \A v \in Users \ {u} : worker'[v] = worker[v] /\ worker'[v].does = "nothing"
  BY <1>1, <1>2, AttachWrites DEF Alone
<1>4. \A v \in Users \ {u} : Attaching(v)' /\ Detaching(v)'
  BY <1>3 DEF Attaching, Detaching
<1>5. wanted \in UserPaths /\ wanted # Dispatcher /\ wanted # NoPathReceipt /\ wanted' = wanted
  BY AttachmentAssumption DEF AttachmentTypes, AttachStep, AttachCheck, AttachReceipt, AttachKey, AttachPath, AttachHook,
     ExceptWork
<1>6. ASSUME Settings', Attaching(u)', worker'[u].does \in {"nothing", "attach"} PROVE Uncrossed'
  BY <1>4, <1>6 DEF Uncrossed, Detaching
<1>7. CASE worker' = [worker EXCEPT ![u] = Resting] /\ UNCHANGED configVars
  <2>1. worker'[u] = Resting
    BY <1>1, <1>7
  <2> QED
    BY <1>1, <1>2, <1>5, <1>6, <1>7, <2>1 DEF Attaching, Settings, configVars
<1>8. CASE AttachCheck(u)
  <2>1. UNCHANGED configVars
    BY <1>8 DEF AttachCheck
  <2>2. CASE worker' = [worker EXCEPT ![u] = Resting]
    BY <1>7, <2>1, <2>2
  <2>3. CASE worker' = [worker EXCEPT ![u].at = "hooks", ![u].path = hooksPath] /\ pathReceipt # NoPathReceipt /\ PathIsKnown
    <3>1. worker'[u] = [worker[u] EXCEPT !.at = "hooks", !.path = hooksPath]
      BY <1>1, <2>3
    <3>2. /\ worker'[u].does = "attach" /\ worker'[u].at = "hooks" /\ worker'[u].path = hooksPath
          /\ worker'[u].todo = worker[u].todo
      BY <1>1, <3>1 DEF WorkerRecord
    <3>3. worker[u].todo = Hooks
      BY <1>1, <1>2, <1>8 DEF Attaching, AttachCheck, Doing
    <3> QED
      BY <1>2, <1>3, <1>5, <1>6, <2>1, <2>3, <3>2, <3>3 DEF Attaching, Alone, Settings, PathIsKnown, configVars
  <2>4. CASE worker' = [worker EXCEPT ![u].at = "receipt", ![u].path = hooksPath] /\ pathReceipt = NoPathReceipt /\ ~policyKey
    <3>1. worker'[u] = [worker[u] EXCEPT !.at = "receipt", !.path = hooksPath]
      BY <1>1, <2>4
    <3>2. /\ worker'[u].does = "attach" /\ worker'[u].at = "receipt" /\ worker'[u].path = hooksPath
          /\ worker'[u].todo = Hooks
      BY <1>1, <1>2, <1>8, <3>1 DEF WorkerRecord, Attaching, AttachCheck, Doing
    <3>3. hooksPath # Dispatcher
      BY <1>2, <1>5, <2>4 DEF Settings
    <3> QED
      BY <1>2, <1>3, <1>5, <1>6, <2>1, <2>4, <3>2, <3>3 DEF Attaching, Alone, Settings, configVars
  <2> QED
    BY <1>8, <2>2, <2>3, <2>4 DEF AttachCheck, Stops
<1>9. CASE AttachReceipt(u)
  <2>1. /\ worker[u].at = "receipt" /\ worker' = [worker EXCEPT ![u].at = "hooks"] /\ pathReceipt' = worker[u].path
        /\ UNCHANGED <<hooksPath, policyKey, generated>>
    BY <1>9 DEF AttachReceipt, Doing, StepTo
  <2>2. /\ worker'[u].does = "attach" /\ worker'[u].at = "hooks" /\ worker'[u].path = worker[u].path
        /\ worker'[u].todo = Hooks
    BY <1>1, <1>2, <2>1 DEF WorkerRecord, Attaching
  <2>3. hooksPath = wanted /\ worker[u].path = hooksPath /\ hooksPath # Dispatcher /\ ~policyKey
    BY <1>1, <1>2, <2>1 DEF Attaching, Settings
  <2> QED
    BY <1>2, <1>3, <1>5, <1>6, <2>1, <2>2, <2>3 DEF Attaching, Alone, Settings
<1>10. ASSUME NEW h \in Hooks, AttachHook(u, h) PROVE Uncrossed'
  <2>1. CASE worker' = [worker EXCEPT ![u] = Resting] /\ UNCHANGED generated
    BY <1>7, <1>10, <2>1 DEF AttachHook, configVars
  <2>2. CASE worker' = [worker EXCEPT ![u].todo = @ \ {h}] /\ generated' = [generated EXCEPT ![h] = "ours"]
    <3>1. worker[u].at = "hooks" /\ UNCHANGED <<hooksPath, policyKey, pathReceipt>>
      BY <1>10 DEF AttachHook, Doing
    <3>2. /\ worker'[u].does = "attach" /\ worker'[u].at = "hooks" /\ worker'[u].path = worker[u].path
          /\ worker'[u].todo = worker[u].todo \ {h}
      BY <1>1, <2>2, <3>1 DEF WorkerRecord
    <3>3. \A g \in Hooks : generated'[g] = IF g = h THEN "ours" ELSE generated[g]
      BY <2>2 DEF AttachmentTypes
    <3> QED
      BY <1>1, <1>2, <1>3, <1>5, <1>6, <3>1, <3>2, <3>3 DEF Attaching, Alone, Settings
  <2> QED
    BY <1>10, <2>1, <2>2 DEF AttachHook, Stops
<1>11. CASE AttachKey(u)
  <2>1. /\ worker[u].at = "hooks" /\ worker[u].todo = {} /\ worker' = [worker EXCEPT ![u].at = "path"]
        /\ policyKey' = TRUE /\ UNCHANGED <<hooksPath, pathReceipt, generated>>
    BY <1>11 DEF AttachKey, Doing, StepTo
  <2>2. /\ worker'[u].does = "attach" /\ worker'[u].at = "path" /\ worker'[u].path = worker[u].path
        /\ worker'[u].todo = {}
    BY <1>1, <2>1 DEF WorkerRecord
  <2> QED
    BY <1>1, <1>2, <1>3, <1>5, <1>6, <2>1, <2>2 DEF Attaching, Alone, Settings
<1>12. CASE AttachPath(u)
  <2>1. /\ worker[u].at = "path" /\ worker' = [worker EXCEPT ![u] = Resting]
        /\ hooksPath' = IF worker[u].path = Dispatcher THEN hooksPath ELSE Dispatcher
        /\ UNCHANGED <<policyKey, pathReceipt, generated>>
    BY <1>12 DEF AttachPath, Doing, Stops
  <2>2. worker'[u] = Resting
    BY <1>1, <2>1
  <2>3. hooksPath' = Dispatcher /\ pathReceipt = wanted /\ \A h \in Hooks : generated[h] # "none"
    BY <1>1, <1>2, <1>5, <2>1 DEF Attaching, Settings
  <2> QED
    BY <1>1, <1>2, <1>5, <1>6, <2>1, <2>2, <2>3 DEF Attaching, Settings
<1> QED
  BY <1>8, <1>9, <1>10, <1>11, <1>12 DEF AttachStep

\* So does a removal, also beside others.
LEMMA DetachKeeps ==
    ASSUME AttachmentTypes, Uncrossed, NEW u \in Users, DetachStep(u)
    PROVE  Uncrossed'
<1>1. /\ worker \in [Users -> WorkerRecord] /\ worker[u] \in WorkerRecord /\ worker[u].does = "detach"
      /\ Resting.does = "nothing"
  BY DetachWrites, RestingType DEF AttachmentTypes
<1>2. Settings /\ Detaching(u)
  BY DEF Uncrossed
<1>3. \A v \in Users \ {u} : worker'[v] = worker[v] /\ worker'[v].does # "attach"
  BY <1>1, DetachWrites DEF Uncrossed, Attaching, Alone
<1>4. wanted # Dispatcher /\ wanted # NoPathReceipt /\ wanted' = wanted
  BY AttachmentAssumption DEF AttachmentTypes, DetachStep, DetachCheck, DetachPath, DetachKey, DetachHooks, DetachReceipt,
     ExceptWork
<1>5. ASSUME Settings', Detaching(u)', worker'[u].does \in {"nothing", "detach"},
             hooksPath # Dispatcher => hooksPath' # Dispatcher, ~policyKey => ~policyKey'
      PROVE  Uncrossed'
  <2>1. \A v \in Users \ {u} : Attaching(v)' /\ Detaching(v)'
    BY <1>3, <1>4, <1>5 DEF Uncrossed, Attaching, Detaching
  <2> QED
    BY <1>5, <2>1 DEF Uncrossed, Attaching
<1>6. CASE worker' = [worker EXCEPT ![u] = Resting] /\ UNCHANGED configVars
  <2>1. worker'[u] = Resting
    BY <1>1, <1>6
  <2> QED
    BY <1>1, <1>2, <1>4, <1>5, <1>6, <2>1 DEF Detaching, Settings, configVars
<1>7. CASE DetachCheck(u)
  <2>1. UNCHANGED configVars
    BY <1>7 DEF DetachCheck
  <2>2. CASE worker' = [worker EXCEPT ![u].at = DetachOrder.check, ![u].path = pathReceipt] /\ hooksPath = Dispatcher
    <3>1. worker'[u].does = "detach" /\ worker'[u].at = "path" /\ worker'[u].path = pathReceipt
      BY <1>1, <2>2 DEF WorkerRecord, DetachOrder
    <3> QED
      BY <1>2, <1>4, <1>5, <2>1, <2>2, <3>1 DEF Detaching, Settings, configVars
  <2> QED
    BY <1>6, <1>7, <2>1, <2>2 DEF DetachCheck, Stops
<1>8. CASE DetachPath(u)
  <2>1. /\ worker[u].at = "path" /\ worker' = [worker EXCEPT ![u].at = DetachOrder.path] /\ hooksPath' = worker[u].path
        /\ UNCHANGED <<policyKey, pathReceipt, generated>>
    BY <1>8 DEF DetachPath, Doing, StepTo
  <2>2. worker'[u].does = "detach" /\ worker'[u].at = "key"
    BY <1>1, <2>1 DEF WorkerRecord, DetachOrder
  <2>3. hooksPath' = wanted
    BY <1>1, <1>2, <2>1 DEF Detaching
  <2> QED
    BY <1>2, <1>4, <1>5, <2>1, <2>2, <2>3 DEF Detaching, Settings
<1>9. CASE DetachKey(u)
  <2>1. /\ worker[u].at = "key" /\ policyKey' = FALSE /\ UNCHANGED <<hooksPath, pathReceipt, generated>>
    BY <1>9 DEF DetachKey, Doing
  <2>2. CASE worker' = [worker EXCEPT ![u].at = DetachOrder.key]
    <3>1. worker'[u].does = "detach" /\ worker'[u].at = "hooks"
      BY <1>1, <2>2 DEF WorkerRecord, DetachOrder
    <3> QED
      BY <1>1, <1>2, <1>4, <1>5, <2>1, <3>1 DEF Detaching, Settings
  <2>3. CASE worker' = [worker EXCEPT ![u] = Resting]
    <3>1. worker'[u] = Resting
      BY <1>1, <2>3
    <3> QED
      BY <1>1, <1>2, <1>4, <1>5, <2>1, <3>1 DEF Detaching, Settings
  <2> QED
    BY <1>9, <2>2, <2>3 DEF DetachKey, StepTo, Stops
<1>10. CASE DetachHooks(u)
  <2>1. /\ worker[u].at = "hooks" /\ worker' = [worker EXCEPT ![u].at = DetachOrder.hooks]
        /\ UNCHANGED <<hooksPath, policyKey, pathReceipt>>
    BY <1>10 DEF DetachHooks, Doing, StepTo
  <2>2. worker'[u].does = "detach" /\ worker'[u].at = "receipt"
    BY <1>1, <2>1 DEF WorkerRecord, DetachOrder
  <2>3. hooksPath # Dispatcher /\ ~policyKey
    BY <1>1, <1>2, <2>1 DEF Detaching
  <2> QED
    BY <1>2, <1>4, <1>5, <2>1, <2>2, <2>3 DEF Detaching, Settings
<1>11. CASE DetachReceipt(u)
  <2>1. /\ worker[u].at = "receipt" /\ worker' = [worker EXCEPT ![u] = Resting]
        /\ UNCHANGED <<hooksPath, policyKey, generated>>
    BY <1>11 DEF DetachReceipt, Doing, Stops
  <2>2. worker'[u] = Resting
    BY <1>1, <2>1
  <2>3. hooksPath # Dispatcher /\ ~policyKey
    BY <1>1, <1>2, <2>1 DEF Detaching
  <2> QED
    BY <1>1, <1>2, <1>4, <1>5, <2>1, <2>2, <2>3 DEF Detaching, Settings
<1> QED
  BY <1>7, <1>8, <1>9, <1>10, <1>11 DEF DetachStep

\* A process that starts or is stopped changes nothing that the others rely on.
LEMMA StartKeeps ==
    ASSUME AttachmentTypes, Uncrossed, NEW u \in Users, AgentStep(u) \/ StartSync(u) \/ StartDetach(u)
    PROVE  Uncrossed'
<1>1. worker \in [Users -> WorkerRecord] /\ Resting.does = "nothing"
  BY RestingType DEF AttachmentTypes
<1>2. UNCHANGED <<hooksPath, policyKey, pathReceipt, generated, wanted>>
  BY AgentWrites, StartWrites
<1>3. Settings'
  BY <1>2 DEF Uncrossed, Settings
<1>4. CASE worker' = worker
  BY <1>2, <1>3, <1>4 DEF Uncrossed, Attaching, Detaching, Alone
<1>5. CASE worker' = [worker EXCEPT ![u] = Resting]
  <2>1. worker'[u] = Resting /\ \A v \in Users \ {u} : worker'[v] = worker[v]
    BY <1>1, <1>5
  <2> QED
    BY <1>1, <1>2, <1>3, <2>1 DEF Uncrossed, Attaching, Detaching, Alone
<1>6. ASSUME StartSync(u) \/ StartDetach(u) PROVE Uncrossed'
  <2>1. PICK r \in WorkerRecord :
            /\ r.at = "check" /\ r.does \in {"attach", "detach"} /\ (r.does = "attach" => r.todo = Hooks)
            /\ worker' = [worker EXCEPT ![u] = r]
    BY <1>6, StartWrites
  <2>2. worker'[u] = r /\ \A v \in Users \ {u} : worker'[v] = worker[v]
    BY <1>1, <2>1
  <2>3. CASE StartSync(u)
    <3>1. \A v \in Users : worker[v] = Resting
      BY <2>3 DEF StartSync, Rests
    <3> QED
      BY <1>1, <1>3, <2>1, <2>2, <3>1 DEF Uncrossed, Attaching, Detaching, Alone
  <2>4. CASE StartDetach(u)
    <3>1. \A v \in Users : worker[v].does # "attach"
      BY <2>4 DEF StartDetach, Working
    <3>2. worker'[u].does = "detach"
      BY <1>1, <2>4 DEF StartDetach, Resting
    <3> QED
      BY <1>1, <1>2, <1>3, <2>1, <2>2, <3>1, <3>2 DEF Uncrossed, Attaching, Detaching
  <2> QED
    BY <1>6, <2>3, <2>4
<1> QED
  BY <1>4, <1>5, <1>6, AgentWrites

\* People who edit while all processes rest take nothing from them.
LEMMA HandKeeps ==
    ASSUME AttachmentTypes, ~crossed => Uncrossed, HandStep
    PROVE  ~crossed' => Uncrossed'
<1>1. SUFFICES ASSUME ~crossed' PROVE Uncrossed'
  OBVIOUS
<1>2. /\ ~crossed /\ \A u \in Users : worker'[u] = Resting
      /\ UNCHANGED <<policyKey, pathReceipt>>
  BY <1>1 DEF HandStep, EditPath, EditHook, ByHand, Rests
<1>3. \A u \in Users : Attaching(u)' /\ Detaching(u)'
  BY <1>2, RestingType DEF Attaching, Detaching
<1>4. Settings
  BY <1>2 DEF Uncrossed
<1>5. Settings'
  <2>1. ASSUME NEW path \in UserPaths, EditPath(path) PROVE Settings'
    BY <1>2, <1>4, <2>1, AttachmentAssumption DEF Settings, EditPath
  <2>2. ASSUME NEW h \in Hooks, EditHook(h) PROVE Settings'
    <3>1. /\ UNCHANGED <<hooksPath, wanted>>
          /\ \A g \in Hooks : generated[g] # "none" => generated'[g] # "none"
      BY <2>2 DEF EditHook, AttachmentTypes
    <3> QED
      BY <1>2, <1>4, <3>1 DEF Settings
  <2> QED
    BY <2>1, <2>2 DEF HandStep
<1> QED
  BY <1>3, <1>5 DEF Uncrossed

\* The settings are in order while nobody edits beside a process, always.
LEMMA AttachmentInvariant == AttachmentSpec => []AttachmentInv
<1>1. AttachmentInit => AttachmentInv
  <2> SUFFICES ASSUME AttachmentInit PROVE AttachmentInv
    OBVIOUS
  <2>1. AttachmentTypes
    BY RestingType DEF AttachmentInit, AttachmentTypes, HookPaths
  <2>2. \A u \in Users : worker[u] = Resting
    BY DEF AttachmentInit
  <2>3. Settings
    BY AttachmentAssumption DEF AttachmentInit, Settings
  <2> QED
    BY <2>1, <2>2, <2>3, RestingType DEF AttachmentInv, Uncrossed, Attaching, Detaching
<1>2. AttachmentInv /\ [AttachmentNext]_attachmentVars => AttachmentInv'
  <2> SUFFICES ASSUME AttachmentInv, [AttachmentNext]_attachmentVars PROVE AttachmentInv'
    OBVIOUS
  <2>1. AttachmentTypes /\ AttachmentTypes'
    BY AttachmentTypesStay DEF AttachmentInv
  <2>2. CASE UNCHANGED attachmentVars
    BY <2>1, <2>2 DEF AttachmentInv, Uncrossed, Settings, Attaching, Detaching, Alone, attachmentVars, configVars
  <2>3. ASSUME NEW u \in Users, AttachStep(u) \/ DetachStep(u) \/ AgentStep(u) \/ StartSync(u) \/ StartDetach(u)
        PROVE  AttachmentInv'
    <3>1. crossed' = crossed
      BY <2>1, <2>3, AgentWrites, StartWrites
         DEF AttachStep, AttachCheck, AttachReceipt, AttachKey, AttachPath, AttachHook,
             DetachStep, DetachCheck, DetachPath, DetachKey, DetachHooks, DetachReceipt, ExceptWork
    <3> QED
      BY <2>1, <2>3, <3>1, AttachKeeps, DetachKeeps, StartKeeps DEF AttachmentInv
  <2>4. CASE HandStep
    BY <2>1, <2>4, HandKeeps DEF AttachmentInv
  <2> QED
    BY <2>2, <2>3, <2>4 DEF AttachmentNext, AttachStep, DetachStep, AgentStep, HandStep
<1> QED
  BY <1>1, <1>2, PTL DEF AttachmentSpec

\* Git runs the hooks that people chose last, in every stage of an attachment or
\* a removal that was stopped or killed and taken up again, and the dispatcher
\* never is in charge without its hooks.
THEOREM OriginalHooksRun == AttachmentSpec => []OriginalIsKept
<1>1. AttachmentInv => OriginalIsKept
  BY DEF AttachmentInv, Uncrossed, Settings, OriginalIsKept, DelegatedHooks
<1> QED
  BY <1>1, AttachmentInvariant, PTL

-----------------------------------------------------------------------------
(* The checkpoints of the friction gate. *)

Checkpoint == [recorded : BOOLEAN, explained : SUBSET Events, content : Nat, reviewed : Nat]
Finish == [stage : {"idle", "head", "archive", "carry", "proof", "write"}, candidate : Nat, content : Nat]

CarryTypes ==
    /\ checkpoints \in [Tasks -> Checkpoint] /\ review \in [Tasks -> Checkpoint]
    /\ taskContent \in [Tasks -> Nat] /\ finishCommits \in [Tasks -> SUBSET Nat]
    /\ rodeAlong \in [Tasks -> SUBSET Nat]
    /\ finish \in [Tasks -> Finish] /\ log \in Seq(Events)

\* What lies between two versions of the content, the later one included.
Covered(from, to, t) == \A n \in Nat : from < n /\ n <= to => n \in finishCommits[t] \/ n \in rodeAlong[t]

\* What a finish holds for compared: at first, and while it computes the content, whatever is checked
\* out; from the reading of the candidate on, that; and at last the content that it has computed.
Vouched(t) ==
    IF finish[t].stage \in {"head", "proof"} THEN taskContent[t]
    ELSE IF finish[t].stage = "write" THEN finish[t].content ELSE finish[t].candidate

\* A checkpoint, and a review under way, is covered up to what it stands for, and would be if what
\* a finish holds for compared were carried.
CheckpointCovered(t) ==
    /\ checkpoints[t].content <= taskContent[t] /\ Covered(checkpoints[t].reviewed, checkpoints[t].content, t)
    /\ review[t].content = review[t].reviewed /\ review[t].content <= taskContent[t]
    /\ review[t].recorded => Covered(review[t].reviewed, checkpoints[t].content, t)
CandidateCovered(t) ==
    finish[t].stage # "idle" =>
        /\ Vouched(t) <= taskContent[t]
        /\ checkpoints[t].recorded => Covered(checkpoints[t].reviewed, Vouched(t), t)
        /\ review[t].recorded => Covered(review[t].reviewed, Vouched(t), t)
        /\ finish[t].stage = "carry" =>
               /\ finish[t].candidate < taskContent[t]
               /\ taskContent[t] = finish[t].candidate + 1
                     => taskContent[t] \in finishCommits[t] \/ taskContent[t] \in rodeAlong[t]
CarryInv == CarryTypes /\ \A t \in Tasks : CheckpointCovered(t) /\ CandidateCovered(t)

LEMMA CarryStart == FrictionInit => CarryInv
<1> SUFFICES ASSUME FrictionInit PROVE CarryInv
  OBVIOUS
<1>1. NoCheckpoint \in Checkpoint /\ NoCheckpoint.content = 0 /\ NoCheckpoint.reviewed = 0 /\ NoCheckpoint.recorded = FALSE
  BY DEF NoCheckpoint, Checkpoint
<1>2. NoFinish \in Finish /\ NoFinish.stage = "idle"
  BY DEF Finish, NoFinish
<1>3. CarryTypes
  BY <1>1, <1>2 DEF FrictionInit, CarryTypes
<1>4. ASSUME NEW t \in Tasks PROVE CheckpointCovered(t) /\ CandidateCovered(t)
  BY <1>1, <1>2 DEF FrictionInit, CheckpointCovered, CandidateCovered, Covered
<1> QED
  BY <1>3, <1>4 DEF CarryInv

\* A step that leaves a task's records alone keeps what is covered of it.
LEMMA CarryQuiet ==
    ASSUME CarryInv, NEW t \in Tasks, checkpoints'[t] = checkpoints[t], review'[t] = review[t], taskContent'[t] = taskContent[t],
           finish'[t] = finish[t], finishCommits'[t] = finishCommits[t], rodeAlong'[t] = rodeAlong[t]
    PROVE  CheckpointCovered(t)' /\ CandidateCovered(t)'
  BY DEF CarryInv, CheckpointCovered, CandidateCovered, Vouched, Covered

\* The steps that write no checkpoint, no review and no content.
SessionStep ==
    \/ \E s \in Sessions, e \in Events : RoutePending(s, e) \/ ResolveNewRoot(s, e)
    \/ \E s \in Sessions, e \in Events, route \in BOOLEAN : Record(s, e, route)
    \/ \E e \in Events, t \in Tasks \cup {NoOne} : Attribute(e, t)
    \/ \E s \in Sessions : \/ ListRoots(s) \/ CommentRoot(s) \/ SaveRoute(s) \/ RouteFails(s) \/ SessionDies(s)
                           \/ AppendMarkers(s) \/ NameTarget(s) \/ CloseDuplicate(s)
    \/ \E s \in Sessions, verified \in BOOLEAN : CreateRoot(s, verified)
    \/ \E s \in Sessions, e \in Events, n \in IssueNumbers : ResolveSameRoot(s, e, n)
    \/ \E s \in Sessions, n, d \in IssueNumbers : MergeRoots(s, n, d)
    \/ \E n \in IssueNumbers : CloseFixed(n)
    \/ \E s \in Sessions, count \in 1..Len(log) : BeginMark(s, count)

Apart == UNCHANGED <<checkpoints, completion>> /\ (log' = log \/ \E e \in Events : log' = Append(log, e))
LEMMA SessionStepsAreApart == SessionStep => Apart
<1> USE DEF Apart
<1>1. ASSUME NEW s \in Sessions, NEW e \in Events, RoutePending(s, e) \/ ResolveNewRoot(s, e) PROVE Apart
  BY <1>1 DEF RoutePending, ResolveNewRoot, StartCuration, localState
<1>2. ASSUME NEW s \in Sessions, NEW e \in Events, NEW route \in BOOLEAN, Record(s, e, route) PROVE Apart
  BY <1>2 DEF Record
<1>3. ASSUME NEW e \in Events, NEW t \in Tasks \cup {NoOne}, Attribute(e, t) PROVE Apart
  BY <1>3 DEF Attribute
<1>4. ASSUME NEW s \in Sessions, ListRoots(s) \/ CommentRoot(s) \/ SaveRoute(s) \/ RouteFails(s) \/ SessionDies(s)
      PROVE  Apart
  BY <1>4 DEF ListRoots, CommentRoot, SaveRoute, RouteFails, SessionDies, localState
<1>5. ASSUME NEW s \in Sessions, AppendMarkers(s) \/ NameTarget(s) \/ CloseDuplicate(s) PROVE Apart
  BY <1>5 DEF AppendMarkers, NameTarget, CloseDuplicate, localState
<1>6. ASSUME NEW s \in Sessions, NEW verified \in BOOLEAN, CreateRoot(s, verified) PROVE Apart
  BY <1>6 DEF CreateRoot, localState
<1>7. ASSUME NEW s \in Sessions, NEW e \in Events, NEW n \in IssueNumbers, ResolveSameRoot(s, e, n) PROVE Apart
  BY <1>7 DEF ResolveSameRoot, StartCuration, localState
<1>8. ASSUME NEW s \in Sessions, NEW n \in IssueNumbers, NEW d \in IssueNumbers, MergeRoots(s, n, d) PROVE Apart
  BY <1>8 DEF MergeRoots, StartCuration, localState
<1>9. ASSUME NEW n \in IssueNumbers, CloseFixed(n) PROVE Apart
  BY <1>9 DEF CloseFixed, localState
<1>10. ASSUME NEW s \in Sessions, NEW count \in 1..Len(log), BeginMark(s, count) PROVE Apart
  BY <1>10 DEF BeginMark, localState
<1> QED
  BY <1>1, <1>2, <1>3, <1>4, <1>5, <1>6, <1>7, <1>8, <1>9, <1>10 DEF SessionStep

\* Every step keeps the coverage.
LEMMA CarryStays == CarryInv /\ [FrictionNext]_frictionVars => CarryInv'
<1> SUFFICES ASSUME CarryInv, [FrictionNext]_frictionVars PROVE CarryInv'
  OBVIOUS
<1> USE DEF CarryInv
<1>1. NoCheckpoint \in Checkpoint /\ NoCheckpoint.content = 0 /\ NoCheckpoint.reviewed = 0 /\ ~NoCheckpoint.recorded
  BY DEF NoCheckpoint, Checkpoint
<1>2. ASSUME NEW t \in Tasks
      PROVE  /\ checkpoints[t] \in Checkpoint /\ review[t] \in Checkpoint /\ finish[t] \in Finish /\ taskContent[t] \in Nat
             /\ checkpoints[t].content \in Nat /\ checkpoints[t].reviewed \in Nat /\ review[t].content \in Nat
             /\ review[t].reviewed \in Nat /\ finish[t].candidate \in Nat /\ finishCommits[t] \in SUBSET Nat
             /\ finish[t].content \in Nat /\ rodeAlong[t] \in SUBSET Nat /\ Vouched(t) \in Nat
             /\ checkpoints[t].recorded \in BOOLEAN /\ review[t].recorded \in BOOLEAN
             /\ finish[t].stage \in {"idle", "head", "archive", "carry", "proof", "write"}
  <2>1. checkpoints[t] \in Checkpoint /\ review[t] \in Checkpoint /\ finish[t] \in Finish
    BY DEF CarryTypes
  <2> QED
    BY <2>1 DEF CarryTypes, Checkpoint, Finish, Vouched
<1>3. CASE UNCHANGED frictionVars \/ SessionStep
  <2>1. Apart
    BY <1>3, SessionStepsAreApart DEF frictionVars, localState, Apart
  <2>2. UNCHANGED <<checkpoints, review, taskContent, finish, finishCommits, rodeAlong>>
    BY <2>1 DEF Apart, completion
  <2>3. log' \in Seq(Events)
    <3>1. log \in Seq(Events)
      BY DEF CarryTypes
    <3>2. ASSUME NEW e \in Events, log' = Append(log, e) PROVE log' \in Seq(Events)
      BY <3>1, <3>2
    <3> QED
      BY <2>1, <3>1, <3>2 DEF Apart
  <2>4. ASSUME NEW t \in Tasks PROVE CheckpointCovered(t)' /\ CandidateCovered(t)'
    BY <2>2, CarryQuiet
  <2> QED
    BY <2>2, <2>3, <2>4 DEF CarryTypes
<1>4. ASSUME NEW s \in Sessions, WriteMark(s) PROVE CarryInv'
  <2>1. checkpoints' = [t \in Tasks |-> NoCheckpoint] /\ UNCHANGED <<completion, log>>
    BY <1>4 DEF WriteMark
  <2>2. ASSUME NEW t \in Tasks PROVE CheckpointCovered(t)' /\ CandidateCovered(t)'
    <3>1. checkpoints'[t] = NoCheckpoint /\ UNCHANGED <<review, taskContent, finish, finishCommits, rodeAlong>>
      BY <2>1 DEF completion
    <3>2. CheckpointCovered(t)'
      BY <1>1, <1>2, <3>1 DEF CheckpointCovered, Covered
    <3>3. CandidateCovered(t)'
      BY <1>1, <1>2, <3>1 DEF CandidateCovered, Vouched, Covered
    <3> QED
      BY <3>2, <3>3
  <2> QED
    BY <1>1, <2>1, <2>2 DEF CarryTypes, completion
<1>5. ASSUME NEW t \in Tasks, Review(t) PROVE CarryInv'
  <2> DEFINE r == [recorded |-> TRUE, explained |-> Mandatory(t), content |-> taskContent[t], reviewed |-> taskContent[t]]
  <2>1. UNCHANGED <<checkpoints, log, taskContent, finish, finishCommits, rodeAlong>> /\ review' = [review EXCEPT ![t] = r]
    BY <1>5 DEF Review, localState
  <2>2. r \in Checkpoint
    BY <1>2 DEF Mandatory, LoggedEvents, CarryTypes, Checkpoint
  <2>3. CheckpointCovered(t)'
    BY <1>2, <2>1 DEF CheckpointCovered, Covered, CarryTypes
  <2>4. CandidateCovered(t)'
    BY <1>2, <2>1 DEF CandidateCovered, Vouched, Covered, CarryTypes
  <2>5. ASSUME NEW x \in Tasks PROVE CheckpointCovered(x)' /\ CandidateCovered(x)'
    BY <2>1, <2>3, <2>4, CarryQuiet DEF CarryTypes
  <2> QED
    BY <2>1, <2>2, <2>5 DEF CarryTypes
<1>6. ASSUME NEW t \in Tasks, SaveCheckpoint(t) PROVE CarryInv'
  <2>1. /\ UNCHANGED <<log, taskContent, finish, finishCommits, rodeAlong>> /\ review[t].recorded
        /\ checkpoints' = [checkpoints EXCEPT ![t] = review[t]] /\ review' = [review EXCEPT ![t] = NoCheckpoint]
    BY <1>6 DEF SaveCheckpoint
  <2>2. checkpoints'[t] = review[t] /\ review'[t] = NoCheckpoint
    BY <2>1 DEF CarryTypes
  <2>3. CheckpointCovered(t)'
    BY <1>1, <1>2, <2>1, <2>2 DEF CheckpointCovered, Covered
  <2>4. CandidateCovered(t)'
    BY <1>1, <1>2, <2>1, <2>2 DEF CandidateCovered, Vouched, Covered
  <2>5. ASSUME NEW x \in Tasks PROVE CheckpointCovered(x)' /\ CandidateCovered(x)'
    BY <2>1, <2>3, <2>4, CarryQuiet DEF CarryTypes
  <2> QED
    BY <1>1, <1>2, <2>1, <2>5 DEF CarryTypes
<1>7. ASSUME NEW t \in Tasks, RequireCheckpoint(t) PROVE CarryInv'
  <2> DEFINE f == [finish[t] EXCEPT !.stage = "head"]
  <2>1. /\ UNCHANGED <<log, checkpoints, review, taskContent, finishCommits, rodeAlong>> /\ finish' = [finish EXCEPT ![t] = f]
        /\ checkpoints[t].content = taskContent[t]
    BY <1>7 DEF RequireCheckpoint, localState, CarryTypes, Satisfied
  <2>2. f \in Finish /\ f.stage = "head"
    BY <1>2, <2>1 DEF Finish
  <2>3. finish'[t] = f
    BY <2>1 DEF CarryTypes
  <2>4. CheckpointCovered(t)'
    BY <2>1 DEF CheckpointCovered, Covered
  <2>5. CandidateCovered(t)'
    BY <1>2, <2>1, <2>2, <2>3, SMTT(20) DEF CandidateCovered, CheckpointCovered, Vouched, Covered
  <2>6. ASSUME NEW x \in Tasks PROVE CheckpointCovered(x)' /\ CandidateCovered(x)'
    BY <2>1, <2>4, <2>5, CarryQuiet DEF CarryTypes
  <2> QED
    BY <2>1, <2>2, <2>6 DEF CarryTypes
<1>8. ASSUME NEW t \in Tasks, ReadCandidate(t) PROVE CarryInv'
  <2> DEFINE f == [finish[t] EXCEPT !.stage = "archive", !.candidate = taskContent[t]]
  <2>1. /\ UNCHANGED <<log, checkpoints, review, taskContent, finishCommits, rodeAlong>> /\ finish' = [finish EXCEPT ![t] = f]
        /\ finish[t].stage = "head"
    BY <1>8 DEF ReadCandidate, localState, CarryTypes
  <2>2. f \in Finish /\ f.stage = "archive" /\ f.candidate = taskContent[t]
    BY <1>2, <2>1 DEF Finish
  <2>3. finish'[t] = f
    BY <2>1 DEF CarryTypes
  <2>4. CheckpointCovered(t)'
    BY <2>1 DEF CheckpointCovered, Covered
  <2>5. CandidateCovered(t)'
    BY <1>2, <2>1, <2>2, <2>3, SMTT(20) DEF CandidateCovered, CheckpointCovered, Vouched, Covered
  <2>6. ASSUME NEW x \in Tasks PROVE CheckpointCovered(x)' /\ CandidateCovered(x)'
    BY <2>1, <2>4, <2>5, CarryQuiet DEF CarryTypes
  <2> QED
    BY <2>1, <2>2, <2>6 DEF CarryTypes
<1>9. ASSUME NEW t \in Tasks, NEW swept \in BOOLEAN, ArchiveCommit(t, swept) PROVE CarryInv'
  <2> DEFINE f == [finish[t] EXCEPT !.stage = "carry"]
  <2>1. /\ UNCHANGED <<log, checkpoints, review>> /\ finish[t].stage = "archive"
        /\ taskContent' = [taskContent EXCEPT ![t] = taskContent[t] + 1]
        /\ finishCommits' = IF swept THEN finishCommits ELSE [finishCommits EXCEPT ![t] = finishCommits[t] \cup {taskContent[t] + 1}]
        /\ rodeAlong' = IF swept THEN [rodeAlong EXCEPT ![t] = rodeAlong[t] \cup {taskContent[t] + 1}] ELSE rodeAlong
        /\ finish' = [finish EXCEPT ![t] = f]
    BY <1>9 DEF ArchiveCommit, localState
  <2>2. f \in Finish /\ f.stage = "carry" /\ f.candidate = finish[t].candidate
    BY <1>2 DEF Finish, CarryTypes
  <2>3. /\ taskContent'[t] = taskContent[t] + 1 /\ finish'[t] = f
        /\ finishCommits[t] \subseteq finishCommits'[t] /\ rodeAlong[t] \subseteq rodeAlong'[t]
        /\ taskContent[t] + 1 \in finishCommits'[t] \/ taskContent[t] + 1 \in rodeAlong'[t]
    BY <2>1 DEF CarryTypes
  <2>4. CheckpointCovered(t)'
    BY <1>2, <2>1, <2>3 DEF CheckpointCovered, Covered
  <2>5. CandidateCovered(t)'
    BY <1>2, <2>1, <2>2, <2>3 DEF CandidateCovered, Vouched, Covered
  <2>6. ASSUME NEW x \in Tasks PROVE CheckpointCovered(x)' /\ CandidateCovered(x)'
    BY <2>1, <2>4, <2>5, CarryQuiet DEF CarryTypes
  <2> QED
    BY <1>2, <2>1, <2>2, <2>6 DEF CarryTypes
<1>10. ASSUME NEW t \in Tasks, FindArchived(t) PROVE CarryInv'
  <2> DEFINE f == [finish[t] EXCEPT !.stage = "carry"]
             more == (finish[t].candidate + 1)..taskContent[t]
  <2>1. /\ UNCHANGED <<log, checkpoints, review, taskContent, finishCommits>> /\ finish[t].stage = "archive"
        /\ finish[t].candidate < taskContent[t]
        /\ rodeAlong' = [rodeAlong EXCEPT ![t] = rodeAlong[t] \cup more]
        /\ finish' = [finish EXCEPT ![t] = f]
    BY <1>2, <1>10 DEF FindArchived, localState
  <2>2. f \in Finish /\ f.stage = "carry" /\ f.candidate = finish[t].candidate
    BY <1>2 DEF Finish, CarryTypes
  <2>3. /\ finish'[t] = f /\ rodeAlong[t] \subseteq rodeAlong'[t] /\ taskContent[t] \in rodeAlong'[t]
        /\ rodeAlong' \in [Tasks -> SUBSET Nat]
    BY <1>2, <2>1 DEF CarryTypes
  <2>4. CheckpointCovered(t)'
    BY <1>2, <2>1, <2>3 DEF CheckpointCovered, Covered
  <2>5. CandidateCovered(t)'
    BY <1>2, <2>1, <2>2, <2>3 DEF CandidateCovered, Vouched, Covered
  <2>6. ASSUME NEW x \in Tasks PROVE CheckpointCovered(x)' /\ CandidateCovered(x)'
    BY <2>1, <2>4, <2>5, CarryQuiet DEF CarryTypes
  <2> QED
    BY <1>2, <2>1, <2>2, <2>3, <2>6 DEF CarryTypes
<1>11. ASSUME NEW t \in Tasks, CompareParent(t) PROVE CarryInv'
  <2> DEFINE f == [finish[t] EXCEPT !.stage = "proof"]
  <2>1. /\ UNCHANGED <<log, checkpoints, review, taskContent, finishCommits, rodeAlong>> /\ finish' = [finish EXCEPT ![t] = f]
        /\ finish[t].stage = "carry" /\ taskContent[t] = finish[t].candidate + 1
    BY <1>11 DEF CompareParent, localState, CarryTypes, ChildOfCandidate
  <2>2. f \in Finish /\ f.stage = "proof"
    BY <1>2, <2>1 DEF Finish
  <2>3. finish'[t] = f
    BY <2>1 DEF CarryTypes
  <2>4. CheckpointCovered(t)'
    BY <2>1 DEF CheckpointCovered, Covered
  <2>5. CandidateCovered(t)'
    BY <1>2, <2>1, <2>2, <2>3, SMTT(20) DEF CandidateCovered, CheckpointCovered, Vouched, Covered
  <2>6. ASSUME NEW x \in Tasks PROVE CheckpointCovered(x)' /\ CandidateCovered(x)'
    BY <2>1, <2>4, <2>5, CarryQuiet DEF CarryTypes
  <2> QED
    BY <2>1, <2>2, <2>6 DEF CarryTypes
<1>12. ASSUME NEW t \in Tasks, ReadProof(t) PROVE CarryInv'
  <2> DEFINE f == [finish[t] EXCEPT !.stage = "write", !.content = taskContent[t]]
  <2>1. /\ UNCHANGED <<log, checkpoints, review, taskContent, finishCommits, rodeAlong>> /\ finish' = [finish EXCEPT ![t] = f]
        /\ finish[t].stage = "proof"
    BY <1>12 DEF ReadProof, localState, CarryTypes
  <2>2. f \in Finish /\ f.stage = "write" /\ f.content = taskContent[t]
    BY <1>2, <2>1 DEF Finish
  <2>3. finish'[t] = f
    BY <2>1 DEF CarryTypes
  <2>4. CheckpointCovered(t)'
    BY <2>1 DEF CheckpointCovered, Covered
  <2>5. CandidateCovered(t)'
    BY <1>2, <2>1, <2>2, <2>3, SMTT(20) DEF CandidateCovered, CheckpointCovered, Vouched, Covered
  <2>6. ASSUME NEW x \in Tasks PROVE CheckpointCovered(x)' /\ CandidateCovered(x)'
    BY <2>1, <2>4, <2>5, CarryQuiet DEF CarryTypes
  <2> QED
    BY <2>1, <2>2, <2>6 DEF CarryTypes
<1>13. ASSUME NEW t \in Tasks, CarryCheckpoint(t) PROVE CarryInv'
  <2> DEFINE c == [checkpoints[t] EXCEPT !.content = finish[t].content]
  <2>1. /\ UNCHANGED <<log, review, taskContent, finishCommits, rodeAlong>> /\ finish[t].stage = "write" /\ checkpoints[t].recorded
        /\ checkpoints' = [checkpoints EXCEPT ![t] = c] /\ finish' = [finish EXCEPT ![t] = NoFinish]
    BY <1>13 DEF CarryCheckpoint
  <2>2. NoFinish \in Finish /\ NoFinish.stage = "idle"
    BY DEF Finish, NoFinish
  <2>3. c \in Checkpoint /\ c.content = finish[t].content /\ c.reviewed = checkpoints[t].reviewed /\ c.recorded = checkpoints[t].recorded
    BY <1>2 DEF Checkpoint
  <2>4. checkpoints'[t] = c /\ finish'[t] = NoFinish
    BY <2>1 DEF CarryTypes
  <2>5. CheckpointCovered(t)'
    BY <1>2, <2>1, <2>3, <2>4, SMTT(20) DEF CheckpointCovered, CandidateCovered, Vouched, Covered
  <2>6. CandidateCovered(t)'
    BY <2>2, <2>4 DEF CandidateCovered
  <2>7. ASSUME NEW x \in Tasks PROVE CheckpointCovered(x)' /\ CandidateCovered(x)'
    BY <2>1, <2>5, <2>6, CarryQuiet DEF CarryTypes
  <2> QED
    BY <2>1, <2>2, <2>3, <2>7 DEF CarryTypes
<1>14. ASSUME NEW t \in Tasks, FinishEnds(t) PROVE CarryInv'
  <2>1. UNCHANGED <<log, checkpoints, review, taskContent, finishCommits, rodeAlong>> /\ finish' = [finish EXCEPT ![t] = NoFinish]
    BY <1>14 DEF FinishEnds, localState
  <2>2. NoFinish \in Finish /\ NoFinish.stage = "idle" /\ finish'[t] = NoFinish
    BY <2>1 DEF Finish, NoFinish, CarryTypes
  <2>3. CheckpointCovered(t)' /\ CandidateCovered(t)'
    BY <1>2, <2>1, <2>2 DEF CheckpointCovered, CandidateCovered, Covered
  <2>4. ASSUME NEW x \in Tasks PROVE CheckpointCovered(x)' /\ CandidateCovered(x)'
    BY <2>1, <2>3, CarryQuiet DEF CarryTypes
  <2> QED
    BY <2>1, <2>2, <2>4 DEF CarryTypes
<1>15. ASSUME NEW t \in Tasks, AgentCommits(t) PROVE CarryInv'
  <2>1. /\ UNCHANGED <<log, checkpoints, review, finish, finishCommits>>
        /\ taskContent' = [taskContent EXCEPT ![t] = taskContent[t] + 1]
        /\ rodeAlong' = IF finish[t].stage \in {"head", "proof"} THEN [rodeAlong EXCEPT ![t] = rodeAlong[t] \cup {taskContent[t] + 1}]
                        ELSE rodeAlong
    BY <1>15 DEF AgentCommits, Unwatched, localState
  <2>2. /\ taskContent'[t] = taskContent[t] + 1 /\ rodeAlong[t] \subseteq rodeAlong'[t]
        /\ finish[t].stage \in {"head", "proof"} => taskContent[t] + 1 \in rodeAlong'[t]
    BY <2>1 DEF CarryTypes
  <2>3. CheckpointCovered(t)'
    BY <1>2, <2>1, <2>2 DEF CheckpointCovered, Covered
  <2>4. CandidateCovered(t)'
    BY <1>2, <2>1, <2>2, SMTT(20) DEF CandidateCovered, Vouched, Covered
  <2>5. ASSUME NEW x \in Tasks PROVE CheckpointCovered(x)' /\ CandidateCovered(x)'
    BY <2>1, <2>3, <2>4, CarryQuiet DEF CarryTypes
  <2> QED
    BY <1>2, <2>1, <2>5 DEF CarryTypes
<1> QED
  BY <1>3, <1>4, <1>5, <1>6, <1>7, <1>8, <1>9, <1>10, <1>11, <1>12, <1>13, <1>14, <1>15 DEF FrictionNext, SessionStep

\* A checkpoint never stands for work of the agent that nobody reviewed, but for what a finish took for its
\* own or for what it had compared, in the four places that the property names: for any number of tasks,
\* commits of the agent at any moment, and review marks that empty the state file.
THEOREM CheckpointsAreReviewed == FrictionSpec => []CarriedIsReviewed
<1>1. CarryInv => CarriedIsReviewed
  <2> SUFFICES ASSUME CarryInv, NEW t \in Tasks, NEW n \in (checkpoints[t].reviewed + 1)..checkpoints[t].content
               PROVE  n \in finishCommits[t] \/ n \in rodeAlong[t]
    BY DEF CarriedIsReviewed
  <2>1. checkpoints[t] \in Checkpoint
    BY DEF CarryInv, CarryTypes
  <2> QED
    BY <2>1 DEF CarryInv, CheckpointCovered, Covered, Checkpoint
<1> QED
  BY CarryStart, CarryStays, <1>1, PTL DEF FrictionSpec

-----------------------------------------------------------------------------
(* The roots of the friction log. *)

RootRecord == [first : Prints, markers : SUBSET Prints, open : BOOLEAN, into : Nat, fixed : BOOLEAN]
SessionRecord == [command : {"none", "route", "resolve", "merge", "mark"},
                  stage : {"idle", "list", "comment", "create", "save", "mark", "name", "close", "write"},
                  event : Events \cup {"none"}, root : Nat, seen : SUBSET Prints, duplicate : Nat, adds : SUBSET Prints,
                  outcome : {"none", "withheld", "candidate", "routed", "pending"}]
RootTypes ==
    /\ roots \in Seq(RootRecord) /\ session \in [Sessions -> SessionRecord] /\ half \subseteq Prints /\ curatorsMet \in BOOLEAN

Kept(n) == roots[n].open \/ roots[n].fixed
IsCurator(w) == w.command \in {"resolve", "merge"}

\* What a session is about to write: a router creates a root for a fingerprint that no open one
\* carries, unless it is contested.
SessionWell(w) ==
    /\ w.stage \in {"list", "create"} => w.event \in Events
    /\ w.stage = "mark" => IsCurator(w) /\ w.root \in IssueNumbers
    /\ w.stage \in {"name", "close"} => w.command = "merge"
    /\ w.command = "merge" => w.stage \in {"mark", "name", "close"}
    /\ w.stage = "create" =>
           /\ w.adds = {KindOf[w.event].print}
           /\ w.command # "resolve" => KindOf[w.event].print \in contested \/ MarkedRoots(KindOf[w.event].print) = {}

\* A curator alone writes back what is there still, to a root that is open or was fixed.
CuratorWell(w) ==
    IsCurator(w) /\ w.stage \in {"mark", "name", "close"} =>
        /\ w.root \in IssueNumbers /\ Kept(w.root)
        /\ w.stage = "mark" => w.seen = roots[w.root].markers
        /\ w.command = "merge" =>
               /\ w.duplicate \in IssueNumbers /\ w.root # w.duplicate /\ w.adds = roots[w.duplicate].markers
               /\ w.stage \in {"name", "close"} => w.adds \subseteq roots[w.root].markers

Single(p) == p \in contested \cup half \/ Cardinality(MarkedRoots(p)) <= 1
Remembered(n) == \A p \in roots[n].markers : \E m \in IssueNumbers : p \in roots[m].markers /\ Kept(m)
OneCurator == \A s, o \in Curating : s = o

RootInv ==
    /\ RootTypes
    /\ \A s \in Sessions : SessionWell(session[s])
    /\ \A p \in Prints : Single(p)
    /\ ~curatorsMet => /\ OneCurator /\ \A s \in Sessions : CuratorWell(session[s])
                       /\ \A n \in IssueNumbers : Remembered(n)

LEMMA RootsCounted == ASSUME RootTypes, NEW p PROVE IsFiniteSet(MarkedRoots(p)) /\ MarkedRoots(p) \subseteq IssueNumbers
<1>1. Len(roots) \in Nat /\ MarkedRoots(p) \subseteq 1..Len(roots)
  BY DEF RootTypes, MarkedRoots, OpenRoots, IssueNumbers
<1>2. IsFiniteSet(1..Len(roots))
  BY <1>1, FS_Interval
<1> QED
  BY <1>1, <1>2, FS_Subset DEF IssueNumbers

LEMMA FewerIsSingle ==
    ASSUME RootTypes, NEW p, Cardinality(MarkedRoots(p)) <= 1, MarkedRoots(p)' \subseteq MarkedRoots(p)
    PROVE  Cardinality(MarkedRoots(p)') <= 1
<1>1. IsFiniteSet(MarkedRoots(p))
  BY RootsCounted
<1>2. IsFiniteSet(MarkedRoots(p)') /\ Cardinality(MarkedRoots(p)') <= Cardinality(MarkedRoots(p))
  BY <1>1, FS_Subset
<1>3. Cardinality(MarkedRoots(p)') \in Nat /\ Cardinality(MarkedRoots(p)) \in Nat
  BY <1>1, <1>2, FS_CardinalityType
<1> QED
  BY <1>2, <1>3

\* A set of numbers has a smallest one.
LEMMA LeastNatural ==
    ASSUME NEW S, S \subseteq Nat, S # {}
    PROVE  \E n \in S : \A m \in S : n <= m
<1>1. PICK n \in S : \A m \in S : <<m, n>> \notin OpToRel(<, Nat)
  BY WFMin, NatLessThanWellFounded, Zenon
<1>2. \A m \in S : ~(m < n)
  BY <1>1, Zenon DEF OpToRel
<1> QED
  BY <1>2

LEMMA IdleSessionWell == IdleSession \in SessionRecord /\ SessionWell(IdleSession) /\ ~IsCurator(IdleSession)
  BY DEF IdleSession, SessionRecord, SessionWell, IsCurator

LEMMA RootStart == FrictionInit => RootInv
<1> SUFFICES ASSUME FrictionInit PROVE RootInv
  OBVIOUS
<1>1. /\ roots = <<>> /\ session = [s \in Sessions |-> IdleSession] /\ half = {} /\ curatorsMet = FALSE /\ contested = {}
  BY DEF FrictionInit
<1>2. Len(roots) = 0 /\ IssueNumbers = {}
  BY <1>1 DEF IssueNumbers
<1>3. RootTypes
  <2>1. roots \in Seq(RootRecord) /\ half \subseteq Prints
    BY <1>1
  <2>3. curatorsMet \in BOOLEAN
    BY <1>1, Zenon
  <2>2. session \in [Sessions -> SessionRecord]
    BY <1>1, IdleSessionWell
  <2> QED
    BY <2>1, <2>2, <2>3 DEF RootTypes
<1>4. ASSUME NEW p \in Prints PROVE Single(p)
  <2>1. MarkedRoots(p) = {}
    BY <1>2 DEF MarkedRoots, OpenRoots
  <2> QED
    BY <2>1, FS_EmptySet DEF Single
<1>5. \A s \in Sessions : SessionWell(session[s]) /\ CuratorWell(session[s]) /\ s \notin Curating
  BY <1>1, IdleSessionWell DEF CuratorWell, Curating, IsCurator
<1> QED
  BY <1>2, <1>3, <1>4, <1>5 DEF RootInv, OneCurator, Curating

\* A step of a session that writes nothing on GitHub.
LEMMA SessionMoves ==
    ASSUME RootInv, NEW s \in Sessions, NEW r \in SessionRecord, SessionWell(r), UNCHANGED <<roots, contested, half>>,
           session' = [session EXCEPT ![s] = r], curatorsMet' \in BOOLEAN,
           ~curatorsMet' => /\ ~curatorsMet /\ CuratorWell(r)
                            /\ IsCurator(r) => IsCurator(session[s]) \/ Curating = {}
    PROVE  RootInv'
<1>1. /\ \A n : Kept(n)' = Kept(n) /\ IssueNumbers' = IssueNumbers /\ \A p : MarkedRoots(p)' = MarkedRoots(p)
  BY DEF Kept, IssueNumbers, MarkedRoots, OpenRoots
<1>2. session'[s] = r /\ \A o \in Sessions \ {s} : session'[o] = session[o]
  BY DEF RootInv, RootTypes
<1>3. RootTypes'
  BY DEF RootInv, RootTypes
<1>4. ASSUME NEW o \in Sessions PROVE SessionWell(session[o])'
  <2>1. SessionWell(session'[o])
    BY <1>2 DEF RootInv
  <2> QED
    BY <1>1, <2>1 DEF SessionWell, IsCurator
<1>5. \A p \in Prints : Single(p)'
  BY <1>1 DEF RootInv, Single
<1>6. ASSUME ~curatorsMet' PROVE OneCurator' /\ (\A o \in Sessions : CuratorWell(session[o])') /\ (\A n \in IssueNumbers : Remembered(n))'
  <2>1. ~curatorsMet /\ OneCurator /\ CuratorWell(r) /\ (IsCurator(r) => IsCurator(session[s]) \/ Curating = {})
    BY <1>6 DEF RootInv
  <2>2. OneCurator'
    BY <1>2, <2>1 DEF OneCurator, Curating, IsCurator
  <2>3. ASSUME NEW o \in Sessions PROVE CuratorWell(session[o])'
    <3>1. CuratorWell(session'[o])
      BY <1>2, <2>1 DEF RootInv
    <3> QED
      BY <1>1, <3>1 DEF CuratorWell, IsCurator
  <2>4. \A n \in IssueNumbers : Remembered(n)'
    BY <1>1, <2>1 DEF RootInv, Remembered
  <2> QED
    BY <1>1, <2>2, <2>3, <2>4
<1> QED
  BY <1>3, <1>4, <1>5, <1>6 DEF RootInv

\* A session that routes, looks or ends is no curator after its step, unless it was.
LEMMA RoutingMoves ==
    ASSUME RootInv, NEW s \in Sessions, NEW r \in SessionRecord, SessionWell(r), UNCHANGED <<github, curatorsMet>>,
           session' = [session EXCEPT ![s] = r], r.stage \notin {"mark", "name", "close"},
           IsCurator(r) => IsCurator(session[s])
    PROVE  RootInv'
<1>1. CuratorWell(r) /\ curatorsMet \in BOOLEAN
  BY DEF CuratorWell, RootInv, RootTypes
<1> QED
  BY <1>1, SessionMoves DEF github

LEMMA RecordTypes ==
    ASSUME RootInv, NEW s \in Sessions
    PROVE  /\ session[s] \in SessionRecord /\ SessionWell(session[s])
           /\ session[s].event \in Events \cup {"none"} /\ session[s].root \in Nat /\ session[s].duplicate \in Nat
           /\ session[s].seen \in SUBSET Prints /\ session[s].adds \in SUBSET Prints
<1>1. session[s] \in SessionRecord /\ SessionWell(session[s])
  BY DEF RootInv, RootTypes
<1> QED
  BY <1>1 DEF SessionRecord

LEMMA RoutingSteps ==
    ASSUME RootInv, log \in Seq(Events), NEW s \in Sessions,
           \/ \E e \in Events : RoutePending(s, e) \/ \E route \in BOOLEAN : Record(s, e, route)
           \/ ListRoots(s) \/ CommentRoot(s) \/ SaveRoute(s) \/ RouteFails(s) \/ SessionDies(s) \/ WriteMark(s)
           \/ \E count \in 1..Len(log) : BeginMark(s, count)
    PROVE  RootInv'
<1> DEFINE w == session[s]
<1>1. w \in SessionRecord /\ SessionWell(w) /\ UNCHANGED <<github, curatorsMet>>
  BY RecordTypes DEF RoutePending, Record, ListRoots, CommentRoot, SaveRoute, RouteFails, SessionDies, WriteMark, BeginMark
<1>2. CASE session' = session
  <2>1. session' = [session EXCEPT ![s] = w]
    BY <1>2 DEF RootInv, RootTypes
  <2>2. CuratorWell(w) \/ curatorsMet
    BY DEF RootInv
  <2> QED
    BY <1>1, <2>1, <2>2, SessionMoves DEF github, RootInv, RootTypes
<1>3. ASSUME NEW e \in Events,
             session' = [session EXCEPT ![s] = [IdleSession EXCEPT !.command = "route", !.stage = "list", !.event = e]]
      PROVE  RootInv'
  <2> DEFINE r == [IdleSession EXCEPT !.command = "route", !.stage = "list", !.event = e]
  <2>1. r \in SessionRecord /\ SessionWell(r) /\ r.stage = "list" /\ ~IsCurator(r)
    BY DEF IdleSession, SessionRecord, SessionWell, IsCurator
  <2> HIDE DEF r
  <2> QED
    BY <1>1, <1>3, <2>1, RoutingMoves DEF r
<1>4. CASE Leave(s)
  BY <1>1, <1>4, IdleSessionWell, RoutingMoves DEF Leave, IdleSession
<1>5. ASSUME NEW count \in 1..Len(log), BeginMark(s, count) PROVE RootInv'
  <2> DEFINE r == [IdleSession EXCEPT !.command = "mark", !.stage = "write", !.root = count]
  <2>3. count \in Nat
    OBVIOUS
  <2>1. r \in SessionRecord /\ SessionWell(r) /\ r.stage = "write" /\ ~IsCurator(r)
    BY <2>3 DEF IdleSession, SessionRecord, SessionWell, IsCurator
  <2>2. session' = [session EXCEPT ![s] = r]
    BY <1>5 DEF BeginMark
  <2> HIDE DEF r
  <2> QED
    BY <1>1, <2>1, <2>2, RoutingMoves
<1>6. ASSUME NEW status \in {"withheld", "candidate", "routed", "pending"}, Outcome(s, status), w.command # "merge" PROVE RootInv'
  <2> DEFINE r == [w EXCEPT !.stage = "save", !.outcome = status]
  <2>1. r \in SessionRecord /\ r.stage = "save" /\ r.command = w.command
    BY <1>1 DEF SessionRecord
  <2>2. SessionWell(r)
    BY <1>6, <2>1 DEF SessionWell
  <2>3. session' = [session EXCEPT ![s] = r]
    BY <1>6 DEF Outcome
  <2>4. IsCurator(r) => IsCurator(w)
    BY <2>1 DEF IsCurator
  <2> HIDE DEF r
  <2> QED
    BY <1>1, <2>1, <2>2, <2>3, <2>4, RoutingMoves
<1>7. ASSUME ListRoots(s) PROVE RootInv'
  <2> DEFINE e == w.event
             p == KindOf[e].print
             n == CHOOSE m \in Matching(p) : \A k \in Matching(p) : m <= k
  <2>1. w.command = "route" /\ w.stage = "list" /\ e \in Events
    BY <1>1, <1>7 DEF ListRoots, SessionAt, SessionWell
  <2>2. p \in Prints /\ Matching(p) = MarkedRoots(p) /\ Matching(p) \subseteq Nat
    BY <2>1 DEF Prints, Matching, MarkedRoots, Carries, OpenRoots, IssueNumbers
  <2>3. \/ Outcome(s, "withheld") \/ Outcome(s, "candidate")
        \/ Matching(p) # {} /\ session' = [session EXCEPT ![s].stage = "comment", ![s].root = n]
        \/ Matching(p) = {} /\ session' = [session EXCEPT ![s].stage = "create", ![s].adds = {p}]
    BY <1>7 DEF ListRoots
  <2>4. CASE Outcome(s, "withheld") \/ Outcome(s, "candidate")
    BY <1>6, <2>1, <2>4
  <2>5. CASE Matching(p) # {} /\ session' = [session EXCEPT ![s].stage = "comment", ![s].root = n]
    <3>2. n \in Nat
      BY <2>2, <2>5, LeastNatural
    <3> HIDE DEF n
    <3> DEFINE r == [w EXCEPT !.stage = "comment", !.root = n]
    <3>1. session' = [session EXCEPT ![s] = r]
      BY <2>5
    <3>3. r \in SessionRecord /\ r.stage = "comment" /\ r.command = w.command
      BY <1>1, <3>2 DEF SessionRecord
    <3>4. SessionWell(r) /\ ~IsCurator(r)
      BY <2>1, <3>3 DEF SessionWell, IsCurator
    <3> HIDE DEF r
    <3> QED
      BY <1>1, <3>1, <3>3, <3>4, RoutingMoves
  <2>6. CASE Matching(p) = {} /\ session' = [session EXCEPT ![s].stage = "create", ![s].adds = {p}]
    <3> DEFINE r == [w EXCEPT !.stage = "create", !.adds = {p}]
    <3>1. session' = [session EXCEPT ![s] = r]
      BY <2>6
    <3>2. r \in SessionRecord /\ r.stage = "create" /\ r.command = w.command /\ r.event = e /\ r.adds = {p}
      BY <1>1, <2>2 DEF SessionRecord
    <3>3. SessionWell(r) /\ ~IsCurator(r)
      BY <2>1, <2>2, <2>6, <3>2 DEF SessionWell, IsCurator
    <3> HIDE DEF r
    <3> QED
      BY <1>1, <3>1, <3>2, <3>3, RoutingMoves
  <2> QED
    BY <2>3, <2>4, <2>5, <2>6
<1>8. CASE CommentRoot(s)
  <2>1. w.stage = "comment" /\ Outcome(s, "routed")
    BY <1>8 DEF CommentRoot
  <2>2. w.command # "merge"
    BY <1>1, <2>1 DEF SessionWell
  <2> QED
    BY <1>6, <2>1, <2>2
<1>9. CASE RouteFails(s)
  BY <1>6, <1>9 DEF RouteFails
<1> QED
  BY <1>2, <1>3, <1>4, <1>5, <1>7, <1>8, <1>9 DEF RoutePending, Record, SaveRoute, SessionDies, WriteMark

\* What a curator begins with.
LEMMA CurationBegins ==
    ASSUME RootInv, NEW s \in Sessions, NEW r \in SessionRecord, SessionWell(r), CuratorWell(r), StartCuration(s, r)
    PROVE  RootInv'
<1>1. /\ UNCHANGED <<roots, contested, half>> /\ session' = [session EXCEPT ![s] = r]
      /\ curatorsMet' = (curatorsMet \/ Curating # {})
  BY DEF StartCuration, github
<1>2. curatorsMet' \in BOOLEAN
  BY <1>1
<1> QED
  BY <1>1, <1>2, SessionMoves

LEMMA CurationStarts ==
    ASSUME RootInv, NEW s \in Sessions,
           \/ \E e \in Events : ResolveNewRoot(s, e) \/ \E n \in IssueNumbers : ResolveSameRoot(s, e, n)
           \/ \E n, d \in IssueNumbers : MergeRoots(s, n, d)
    PROVE  RootInv'
<1>1. ASSUME NEW n \in IssueNumbers PROVE n \in Nat /\ roots[n] \in RootRecord /\ roots[n].markers \in SUBSET Prints
  <2>1. n \in Nat /\ roots[n] \in RootRecord
    BY DEF RootInv, RootTypes, IssueNumbers
  <2> QED
    BY <2>1 DEF RootRecord
<1>2. ASSUME NEW e \in Events, ResolveNewRoot(s, e) PROVE RootInv'
  <2> DEFINE r == [IdleSession EXCEPT !.command = "resolve", !.stage = "create", !.event = e, !.adds = {KindOf[e].print}]
  <2>1. StartCuration(s, r)
    BY <1>2 DEF ResolveNewRoot
  <2>2. KindOf[e].print \in Prints
    BY DEF Prints
  <2>3. r \in SessionRecord
    BY <2>2 DEF IdleSession, SessionRecord
  <2>4. SessionWell(r) /\ CuratorWell(r)
    BY DEF IdleSession, SessionWell, CuratorWell, IsCurator
  <2> HIDE DEF r
  <2> QED
    BY <2>1, <2>3, <2>4, CurationBegins
<1>3. ASSUME NEW e \in Events, NEW n \in IssueNumbers, ResolveSameRoot(s, e, n) PROVE RootInv'
  <2> DEFINE r == [IdleSession EXCEPT !.command = "resolve", !.stage = "mark", !.event = e, !.root = n,
                                      !.seen = roots[n].markers, !.adds = {KindOf[e].print}]
  <2>1. StartCuration(s, r) /\ roots[n].open
    BY <1>3 DEF ResolveSameRoot, OpenRoots
  <2>2. KindOf[e].print \in Prints
    BY DEF Prints
  <2>3. r \in SessionRecord
    BY <1>1, <2>2 DEF IdleSession, SessionRecord
  <2>4. SessionWell(r) /\ CuratorWell(r)
    BY <2>1 DEF IdleSession, SessionWell, CuratorWell, IsCurator, Kept
  <2> HIDE DEF r
  <2> QED
    BY <2>1, <2>3, <2>4, CurationBegins
<1>4. ASSUME NEW n \in IssueNumbers, NEW d \in IssueNumbers, MergeRoots(s, n, d) PROVE RootInv'
  <2> DEFINE r == [IdleSession EXCEPT !.command = "merge", !.stage = "mark", !.root = n, !.duplicate = d,
                                      !.seen = roots[n].markers, !.adds = roots[d].markers]
  <2>1. StartCuration(s, r) /\ roots[n].open /\ n # d
    BY <1>4 DEF MergeRoots, OpenRoots, MergeStep
  <2>2. r \in SessionRecord
    BY <1>1 DEF IdleSession, SessionRecord
  <2>3. SessionWell(r) /\ CuratorWell(r)
    BY <2>1 DEF IdleSession, SessionWell, CuratorWell, IsCurator, Kept
  <2> HIDE DEF r
  <2> QED
    BY <2>1, <2>2, <2>3, CurationBegins
<1> QED
  BY <1>2, <1>3, <1>4

\* A root is created for a fingerprint that no open root carries, or that is contested.
LEMMA CreateRootKeeps ==
    ASSUME RootInv, NEW s \in Sessions, NEW verified \in BOOLEAN, CreateRoot(s, verified)
    PROVE  RootInv'
<1> DEFINE w == session[s]
<1>0. PICK p, k : p = KindOf[w.event].print /\ k = Len(roots) + 1
  OBVIOUS
<1> DEFINE new == [first |-> p, markers |-> {p}, open |-> TRUE, into |-> 0, fixed |-> FALSE]
<1>1. /\ w \in SessionRecord /\ SessionWell(w) /\ w.stage = "create" /\ w.command # "merge" /\ p \in Prints /\ w.adds = {p}
  <2>1. w \in SessionRecord /\ SessionWell(w) /\ w.stage = "create"
    BY RecordTypes DEF CreateRoot
  <2> QED
    BY <1>0, <2>1 DEF SessionWell, Prints
<1>2. /\ roots' = Append(roots, new) /\ UNCHANGED <<half, curatorsMet>>
      /\ contested' = contested \cup (IF w.command = "resolve" THEN {p} ELSE {p} \cap AlsoAdding(s))
  BY <1>0 DEF CreateRoot
<1>3. PICK r \in SessionRecord : /\ session' = [session EXCEPT ![s] = r] /\ r.stage \in {"idle", "save"}
                                 /\ IsCurator(r) => IsCurator(w) 
                                 /\ r.command # "merge"
  <2>1. CASE w.command = "resolve" /\ ~verified
    <3>1. session' = [session EXCEPT ![s] = IdleSession]
      BY <2>1 DEF CreateRoot, Leave
    <3> QED
      BY <3>1, IdleSessionWell DEF IdleSession
  <2>2. CASE ~(w.command = "resolve" /\ ~verified)
    <3> DEFINE status == IF verified THEN "routed" ELSE "pending"
               r == [w EXCEPT !.stage = "save", !.outcome = status]
    <3>1. session' = [session EXCEPT ![s] = r]
      BY <2>2 DEF CreateRoot, Outcome
    <3>2. r \in SessionRecord /\ r.stage = "save" /\ r.command = w.command
      BY <1>1 DEF SessionRecord
    <3> HIDE DEF r
    <3> QED
      BY <1>1, <3>1, <3>2 DEF IsCurator
  <2> QED
    BY <2>1, <2>2
<1>4. /\ k \in Nat /\ IssueNumbers' = IssueNumbers \cup {k} /\ k \notin IssueNumbers
      /\ roots'[k] = new /\ \A n \in IssueNumbers : roots'[n] = roots[n]
  BY <1>0, <1>2 DEF RootInv, RootTypes, IssueNumbers
<1>5. new \in RootRecord /\ new.open /\ new.markers = {p}
  BY <1>1 DEF RootRecord
<1> HIDE DEF new
<1>6. RootTypes'
  <2>1. roots' \in Seq(RootRecord)
    BY <1>2, <1>5 DEF RootInv, RootTypes
  <2> QED
    BY <1>2, <1>3, <2>1 DEF RootInv, RootTypes
<1>7. /\ \A q : q # p => MarkedRoots(q)' = MarkedRoots(q)
      /\ MarkedRoots(p)' = MarkedRoots(p) \cup {k}
  <2>1. ASSUME NEW q, NEW n
        PROVE  /\ n \in MarkedRoots(q) <=> n \in IssueNumbers /\ roots[n].open /\ q \in roots[n].markers
               /\ n \in MarkedRoots(q)' <=> n \in IssueNumbers' /\ roots'[n].open /\ q \in roots'[n].markers
    BY DEF MarkedRoots, OpenRoots
  <2>2. ASSUME NEW q, q # p PROVE MarkedRoots(q)' = MarkedRoots(q)
    <3>1. ASSUME NEW n PROVE n \in MarkedRoots(q)' <=> n \in MarkedRoots(q)
      BY <1>4, <1>5, <2>1, <2>2
    <3> QED
      BY <3>1
  <2>3. ASSUME NEW n PROVE n \in MarkedRoots(p)' <=> n \in MarkedRoots(p) \cup {k}
    BY <1>4, <1>5, <2>1
  <2> QED
    BY <2>2, <2>3
<1>8. session'[s] = r /\ \A o \in Sessions \ {s} : session'[o] = session[o]
  BY <1>3 DEF RootInv, RootTypes
<1>9. ASSUME NEW o \in Sessions PROVE SessionWell(session[o])'
  <2>1. CASE o = s
    BY <1>3, <1>8, <2>1 DEF SessionWell, IsCurator
  <2>2. CASE o # s
    <3>1. SessionWell(session[o]) /\ session'[o] = session[o]
      BY <1>8, <2>2 DEF RootInv
    <3>2. CASE session[o].stage = "create"
      <4>0. PICK q : q = KindOf[session[o].event].print
        OBVIOUS
      <4>1. session[o].adds = {q} /\ (session[o].command # "resolve" => q \in contested \/ MarkedRoots(q) = {})
        BY <3>1, <3>2, <4>0 DEF SessionWell
      <4>2. q = p => q \in AlsoAdding(s)
        BY <2>2, <3>2, <4>1 DEF AlsoAdding
      <4>3. session[o].command # "resolve" => q \in contested' \/ MarkedRoots(q)' = {}
        BY <1>2, <1>7, <4>1, <4>2
      <4> QED
        BY <3>1, <3>2, <4>0, <4>1, <4>3 DEF SessionWell
    <3>3. CASE session[o].stage # "create"
      BY <1>4, <3>1, <3>3 DEF SessionWell, IsCurator
    <3> QED
      BY <3>2, <3>3
  <2> QED
    BY <2>1, <2>2
<1>10. ASSUME NEW q \in Prints PROVE Single(q)'
  <2>1. CASE q # p
    BY <1>2, <1>7, <2>1 DEF RootInv, Single
  <2>2. CASE q = p /\ p \notin contested' \cup half'
    <3>1. MarkedRoots(p) = {}
      BY <1>0, <1>1, <1>2, <2>2 DEF SessionWell
    <3>2. MarkedRoots(p)' = {k}
      BY <1>7, <3>1
    <3>3. Cardinality(MarkedRoots(p)') = 1
      BY <3>2, FS_Singleton
    <3> QED
      BY <2>2, <3>3 DEF Single
  <2>3. CASE q = p /\ p \in contested' \cup half'
    BY <2>3 DEF Single
  <2> QED
    BY <2>1, <2>2, <2>3
<1>11. ASSUME ~curatorsMet' PROVE OneCurator' /\ (\A o \in Sessions : CuratorWell(session[o])') /\ (\A n \in IssueNumbers' : Remembered(n)')
  <2>1. ~curatorsMet /\ OneCurator /\ (\A o \in Sessions : CuratorWell(session[o])) /\ (\A n \in IssueNumbers : Remembered(n))
    BY <1>2, <1>11 DEF RootInv
  <2>2. OneCurator'
    BY <1>3, <1>8, <2>1 DEF OneCurator, Curating, IsCurator
  <2>3. \A n \in IssueNumbers : Kept(n)' = Kept(n)
    BY <1>4 DEF Kept
  <2>4. ASSUME NEW o \in Sessions PROVE CuratorWell(session[o])'
    <3>1. CASE o = s
      BY <1>3, <1>8, <3>1 DEF CuratorWell
    <3>2. CASE o # s
      BY <1>4, <1>8, <2>1, <2>3, <3>2 DEF CuratorWell, IsCurator
    <3> QED
      BY <3>1, <3>2
  <2>5. Kept(k)'
    BY <1>4, <1>5 DEF Kept
  <2>6. ASSUME NEW n \in IssueNumbers' PROVE Remembered(n)'
    <3>1. CASE n = k
      BY <1>4, <2>5, <3>1 DEF Remembered
    <3>2. CASE n \in IssueNumbers
      BY <1>4, <2>1, <2>3, <3>2 DEF Remembered
    <3> QED
      BY <1>4, <3>1, <3>2
  <2> QED
    BY <2>2, <2>4, <2>6
<1> QED
  BY <1>6, <1>9, <1>10, <1>11 DEF RootInv

\* A step that adds no marker and opens no root.
LEMMA RootsShrink ==
    ASSUME RootInv, UNCHANGED contested, IssueNumbers' = IssueNumbers,
           \A n \in IssueNumbers : roots'[n].markers = roots[n].markers /\ (roots'[n].open => roots[n].open)
    PROVE  /\ \A q : MarkedRoots(q)' \subseteq MarkedRoots(q)
           /\ \A o \in Sessions : session'[o] = session[o] => SessionWell(session[o])'
<1>1. ASSUME NEW q PROVE MarkedRoots(q)' \subseteq MarkedRoots(q)
  <2>1. ASSUME NEW n
        PROVE  /\ n \in MarkedRoots(q) <=> n \in IssueNumbers /\ roots[n].open /\ q \in roots[n].markers
               /\ n \in MarkedRoots(q)' <=> n \in IssueNumbers' /\ roots'[n].open /\ q \in roots'[n].markers
    BY DEF MarkedRoots, OpenRoots
  <2> QED
    BY <2>1
<1>2. ASSUME NEW o \in Sessions, session'[o] = session[o] PROVE SessionWell(session[o])'
  <2>1. SessionWell(session[o])
    BY DEF RootInv
  <2>2. PICK q : q = KindOf[session[o].event].print
    OBVIOUS
  <2>3. MarkedRoots(q) = {} => MarkedRoots(q)' = {}
    BY <1>1
  <2> QED
    BY <1>2, <2>1, <2>2, <2>3 DEF SessionWell, IsCurator
<1> QED
  BY <1>1, <1>2

\* A curator goes on: back to the comment of a candidate, or to the next stage of its merge.
LEMMA CuratorProceeds ==
    ASSUME RootInv, NEW s \in Sessions, session[s].stage \in {"mark", "name", "close"}, SessionProceeds(s)
    PROVE  \E r \in SessionRecord :
               /\ session' = [session EXCEPT ![s] = r] /\ session'[s] = r /\ IsCurator(session[s])
               /\ \/ r = IdleSession
                  \/ r = [session[s] EXCEPT !.stage = "comment"] /\ session[s].command = "resolve"
                  \/ r = [session[s] EXCEPT !.stage = MergeStep[session[s].stage]] /\ session[s].command = "merge"
                     /\ session[s].stage \in {"mark", "name"}
<1> DEFINE w == session[s]
<1>1. w \in SessionRecord /\ IsCurator(w) /\ session \in [Sessions -> SessionRecord]
  BY RecordTypes DEF SessionWell, IsCurator, RootInv, RootTypes
<1>2. MergeStep["mark"] = "name" /\ MergeStep["name"] = "close" /\ MergeStep["close"] = "save"
  BY DEF MergeStep
<1>3. CASE w.command = "resolve"
  <2> DEFINE r == [w EXCEPT !.stage = "comment"]
  <2>1. session' = [session EXCEPT ![s] = r]
    BY <1>3 DEF SessionProceeds, SessionGo
  <2>2. r \in SessionRecord
    BY <1>1 DEF SessionRecord
  <2> QED
    BY <1>1, <1>3, <2>1, <2>2
<1>4. CASE w.command = "merge" /\ w.stage = "close"
  <2>1. session' = [session EXCEPT ![s] = IdleSession]
    BY <1>2, <1>4 DEF SessionProceeds, Leave
  <2> QED
    BY <1>1, <2>1, IdleSessionWell
<1>5. CASE w.command = "merge" /\ w.stage \in {"mark", "name"}
  <2> DEFINE r == [w EXCEPT !.stage = MergeStep[w.stage]]
  <2>1. session' = [session EXCEPT ![s] = r]
    BY <1>2, <1>5 DEF SessionProceeds, SessionGo
  <2>2. MergeStep[w.stage] \in {"name", "close"}
    BY <1>2, <1>5
  <2>3. r \in SessionRecord
    BY <1>1, <2>2 DEF SessionRecord
  <2> QED
    BY <1>1, <1>5, <2>1, <2>3
<1> QED
  BY <1>1, <1>3, <1>4, <1>5 DEF IsCurator

\* A record that a curator goes on with is well, in whatever state of the roots.
LEMMA ProceedingIsWell ==
    ASSUME RootInv, NEW s \in Sessions, NEW r \in SessionRecord, session'[s] = r,
           \/ r = IdleSession
           \/ r = [session[s] EXCEPT !.stage = "comment"] /\ session[s].command = "resolve"
           \/ r = [session[s] EXCEPT !.stage = MergeStep[session[s].stage]] /\ session[s].command = "merge"
              /\ session[s].stage \in {"mark", "name"}
    PROVE  SessionWell(session[s])'
<1>1. session[s] \in SessionRecord
  BY RecordTypes
<1>2. CASE r = IdleSession
  BY <1>2 DEF SessionWell, IdleSession, IsCurator
<1>3. CASE r = [session[s] EXCEPT !.stage = "comment"] /\ session[s].command = "resolve"
  <2>1. r.stage = "comment" /\ r.command = "resolve"
    BY <1>1, <1>3 DEF SessionRecord
  <2> QED
    BY <2>1 DEF SessionWell, IsCurator
<1>4. CASE r = [session[s] EXCEPT !.stage = MergeStep[session[s].stage]] /\ session[s].command = "merge"
              /\ session[s].stage \in {"mark", "name"}
  <2>1. r.stage \in {"name", "close"} /\ r.command = "merge"
    BY <1>1, <1>4 DEF SessionRecord, MergeStep
  <2> QED
    BY <2>1 DEF SessionWell, IsCurator
<1> QED
  BY <1>2, <1>3, <1>4

\* The only curator is the one that steps; the others have nothing to be well about.
LEMMA OthersAreNoCurators ==
    ASSUME RootInv, ~curatorsMet, NEW s \in Sessions, IsCurator(session[s]), NEW r \in SessionRecord,
           session' = [session EXCEPT ![s] = r]
    PROVE  OneCurator' /\ \A o \in Sessions \ {s} : CuratorWell(session[o])'
<1>1. /\ OneCurator /\ s \in Curating /\ session'[s] = r
      /\ \A o \in Sessions \ {s} : session'[o] = session[o] /\ o \notin Curating
  BY DEF RootInv, RootTypes, OneCurator, Curating, IsCurator
<1>2. \A o \in Sessions \ {s} : ~IsCurator(session'[o])
  BY <1>1 DEF Curating, IsCurator
<1> QED
  BY <1>2 DEF OneCurator, Curating, IsCurator, CuratorWell

\* The target and its duplicate name each other.
LEMMA NameTargetKeeps ==
    ASSUME RootInv, NEW s \in Sessions, NameTarget(s)
    PROVE  RootInv'
<1> DEFINE w == session[s]
<1>1. PICK d, into : d = w.duplicate /\ into = IF roots[d].open THEN w.root ELSE roots[d].into
  OBVIOUS
<1>2. w \in SessionRecord /\ w.stage = "name" /\ w.command = "merge" /\ w.root \in Nat /\ IsCurator(w)
  BY RecordTypes DEF NameTarget, SessionWell, IsCurator
<1>3. PICK r \in SessionRecord :
          /\ session' = [session EXCEPT ![s] = r] /\ session'[s] = r /\ SessionWell(session[s])'
          /\ r = IdleSession \/ r = [w EXCEPT !.stage = "close"]
  <2>1. SessionProceeds(s)
    BY DEF NameTarget
  <2> QED
    BY <1>2, <2>1, CuratorProceeds, ProceedingIsWell DEF MergeStep
<1>4. roots' = [roots EXCEPT ![d].into = into] /\ UNCHANGED <<contested, half, curatorsMet>>
  BY <1>1 DEF NameTarget
<1>5. /\ \A n \in IssueNumbers : roots[n] \in RootRecord /\ roots'[n] \in RootRecord
      /\ \A n \in IssueNumbers : /\ roots'[n].markers = roots[n].markers /\ roots'[n].open = roots[n].open
                                 /\ roots'[n].fixed = roots[n].fixed
      /\ IssueNumbers' = IssueNumbers /\ roots' \in Seq(RootRecord)
  <2>1. roots \in Seq(RootRecord) /\ IssueNumbers = 1..Len(roots) /\ \A n \in IssueNumbers : roots[n] \in RootRecord
    BY DEF RootInv, RootTypes, IssueNumbers
  <2>2. CASE d \in IssueNumbers
    <3> DEFINE new == [roots[d] EXCEPT !.into = into]
    <3>1. roots' = [roots EXCEPT ![d] = new]
      BY <1>4
    <3>2. into \in Nat
      BY <1>1, <1>2, <2>1, <2>2 DEF RootRecord
    <3>3. new \in RootRecord /\ new.markers = roots[d].markers /\ new.open = roots[d].open /\ new.fixed = roots[d].fixed
      BY <2>1, <2>2, <3>2 DEF RootRecord
    <3> HIDE DEF new
    <3>4. roots' \in Seq(RootRecord) /\ Len(roots') = Len(roots) /\ \A n \in IssueNumbers : roots'[n] = IF n = d THEN new ELSE roots[n]
      BY <2>1, <2>2, <3>1, <3>3
    <3> QED
      BY <2>1, <3>3, <3>4 DEF IssueNumbers
  <2>3. CASE d \notin IssueNumbers
    <3>1. roots' = roots
      BY <1>4, <2>1, <2>3
    <3> QED
      BY <2>1, <3>1 DEF IssueNumbers
  <2> QED
    BY <2>2, <2>3
<1>6. RootTypes'
  BY <1>3, <1>4, <1>5 DEF RootInv, RootTypes
<1>7. \A q : MarkedRoots(q)' \subseteq MarkedRoots(q)
  BY <1>4, <1>5, RootsShrink
<1>8. ASSUME NEW o \in Sessions PROVE SessionWell(session[o])'
  <2>1. o # s => session'[o] = session[o]
    BY <1>3 DEF RootInv, RootTypes
  <2> QED
    BY <1>3, <1>4, <1>5, <2>1, RootsShrink
<1>9. ASSUME NEW q \in Prints PROVE Single(q)'
  BY <1>4, <1>7, FewerIsSingle DEF RootInv, Single
<1>10. ASSUME ~curatorsMet' PROVE OneCurator' /\ (\A o \in Sessions : CuratorWell(session[o])') /\ (\A n \in IssueNumbers' : Remembered(n)')
  <2>1. ~curatorsMet /\ CuratorWell(w) /\ \A n \in IssueNumbers : Remembered(n)
    BY <1>4, <1>10 DEF RootInv
  <2>2. OneCurator' /\ \A o \in Sessions \ {s} : CuratorWell(session[o])'
    BY <1>2, <1>3, <2>1, OthersAreNoCurators
  <2>3. \A n \in IssueNumbers : Kept(n)' = Kept(n)
    BY <1>5 DEF Kept
  <2>4. CuratorWell(session[s])'
    <3>1. CASE r = IdleSession
      BY <1>3, <3>1, IdleSessionWell DEF CuratorWell, IsCurator
    <3>2. CASE r = [w EXCEPT !.stage = "close"]
      <4>1. /\ r.stage = "close" /\ r.command = "merge" /\ r.root = w.root /\ r.duplicate = w.duplicate /\ r.adds = w.adds
        BY <1>2, <3>2 DEF SessionRecord
      <4> QED
        BY <1>2, <1>3, <1>5, <2>1, <2>3, <4>1 DEF CuratorWell, IsCurator
    <3> QED
      BY <1>3, <3>1, <3>2
  <2>5. \A n \in IssueNumbers' : Remembered(n)'
    BY <1>5, <2>1, <2>3 DEF Remembered
  <2> QED
    BY <2>2, <2>4, <2>5
<1> QED
  BY <1>6, <1>8, <1>9, <1>10 DEF RootInv

\* Roots that are all as they were but one, which keeps its record.
LEMMA OneRootChanges ==
    ASSUME RootInv, NEW n, NEW new, n \in IssueNumbers => new \in RootRecord, roots' = [roots EXCEPT ![n] = new]
    PROVE  /\ IssueNumbers' = IssueNumbers /\ roots' \in Seq(RootRecord)
           /\ \A m \in IssueNumbers : roots[m] \in RootRecord /\ roots'[m] = IF m = n THEN new ELSE roots[m]
<1>1. roots \in Seq(RootRecord) /\ IssueNumbers = 1..Len(roots) /\ \A m \in IssueNumbers : roots[m] \in RootRecord
  BY DEF RootInv, RootTypes, IssueNumbers
<1>2. CASE n \in IssueNumbers
  <2>1. roots' \in Seq(RootRecord) /\ Len(roots') = Len(roots)
        /\ \A m \in IssueNumbers : roots'[m] = IF m = n THEN new ELSE roots[m]
    BY <1>1, <1>2
  <2> QED
    BY <1>1, <2>1 DEF IssueNumbers
<1>3. CASE n \notin IssueNumbers
  <2>1. roots' = roots
    BY <1>1, <1>3
  <2> QED
    BY <1>1, <1>3, <2>1 DEF IssueNumbers
<1> QED
  BY <1>2, <1>3

\* Closing a duplicate forgets no marker, and its fingerprints are single again unless yet another root carries them.
LEMMA CloseDuplicateKeeps ==
    ASSUME RootInv, NEW s \in Sessions, CloseDuplicate(s)
    PROVE  RootInv'
<1> DEFINE w == session[s]
<1>1. PICK d, new : d = w.duplicate /\ new = [roots[d] EXCEPT !.open = FALSE]
  OBVIOUS
<1>2. w \in SessionRecord /\ w.stage = "close" /\ w.command = "merge" /\ IsCurator(w)
  BY RecordTypes DEF CloseDuplicate, SessionWell, IsCurator
<1>3. /\ session' = [session EXCEPT ![s] = IdleSession] /\ session'[s] = IdleSession
      /\ \A o \in Sessions \ {s} : session'[o] = session[o]
  BY <1>2 DEF CloseDuplicate, SessionProceeds, MergeStep, Leave, RootInv, RootTypes
<1>4. /\ roots' = [roots EXCEPT ![d] = new] /\ UNCHANGED <<contested, curatorsMet>>
      /\ half' = {p \in half : Cardinality(MarkedRoots(p) \ {d}) > 1}
  BY <1>1 DEF CloseDuplicate
<1>5. d \in IssueNumbers => /\ new \in RootRecord /\ new.markers = roots[d].markers /\ new.open = FALSE
                            /\ new.fixed = roots[d].fixed
  <2>1. d \in IssueNumbers => roots[d] \in RootRecord
    BY DEF RootInv, RootTypes, IssueNumbers
  <2> QED
    BY <1>1, <2>1 DEF RootRecord
<1>6. /\ IssueNumbers' = IssueNumbers /\ roots' \in Seq(RootRecord)
      /\ \A n \in IssueNumbers : roots'[n] = IF n = d THEN new ELSE roots[n]
  <2>1. d \in IssueNumbers => new \in RootRecord
    BY <1>5
  <2>2. roots' = [roots EXCEPT ![d] = new]
    BY <1>4
  <2>3. /\ IssueNumbers' = IssueNumbers /\ roots' \in Seq(RootRecord)
        /\ \A m \in IssueNumbers : roots[m] \in RootRecord /\ roots'[m] = IF m = d THEN new ELSE roots[m]
    BY <2>1, <2>2, OneRootChanges, Zenon
  <2> QED
    BY <2>3
<1>7. \A n \in IssueNumbers : /\ roots'[n].markers = roots[n].markers /\ (roots'[n].open => roots[n].open)
                              /\ n # d => Kept(n)' = Kept(n)
                              /\ n = d => ~roots'[n].open
  BY <1>5, <1>6 DEF Kept
<1>8. RootTypes'
  BY <1>3, <1>4, <1>6, IdleSessionWell DEF RootInv, RootTypes
<1>9. ASSUME NEW q PROVE MarkedRoots(q)' \subseteq MarkedRoots(q) \ {d}
  <2>1. MarkedRoots(q)' \subseteq MarkedRoots(q)
    BY <1>4, <1>6, <1>7, RootsShrink
  <2>2. d \notin MarkedRoots(q)'
    BY <1>6, <1>7 DEF MarkedRoots, OpenRoots
  <2> QED
    BY <2>1, <2>2
<1>10. ASSUME NEW o \in Sessions PROVE SessionWell(session[o])'
  <2>1. CASE o = s
    BY <1>3, <2>1 DEF SessionWell, IdleSession, IsCurator
  <2>2. CASE o # s
    BY <1>3, <1>4, <1>6, <1>7, <2>2, RootsShrink
  <2> QED
    BY <2>1, <2>2
<1>11. ASSUME NEW q \in Prints PROVE Single(q)'
  <2>1. CASE q \in half /\ q \notin half'
    <3>1. IsFiniteSet(MarkedRoots(q) \ {d}) /\ ~(Cardinality(MarkedRoots(q) \ {d}) > 1)
      BY <1>4, <2>1, RootsCounted, FS_Difference DEF RootInv
    <3>2. /\ IsFiniteSet(MarkedRoots(q)') /\ Cardinality(MarkedRoots(q)') <= Cardinality(MarkedRoots(q) \ {d})
      BY <1>9, <3>1, FS_Subset
    <3>3. Cardinality(MarkedRoots(q)') \in Nat /\ Cardinality(MarkedRoots(q) \ {d}) \in Nat
      BY <3>1, <3>2, FS_CardinalityType
    <3>4. Cardinality(MarkedRoots(q)') <= 1
      BY <3>1, <3>2, <3>3
    <3> QED
      BY <3>4 DEF Single
  <2>2. CASE q \in half'
    BY <2>2 DEF Single
  <2>3. CASE q \notin half
    <3>1. q \in contested \/ Cardinality(MarkedRoots(q)) <= 1
      BY <2>3 DEF RootInv, Single
    <3> QED
      BY <1>4, <1>9, <3>1, FewerIsSingle DEF RootInv, Single
  <2> QED
    BY <2>1, <2>2, <2>3
<1>12. ASSUME ~curatorsMet' PROVE OneCurator' /\ (\A o \in Sessions : CuratorWell(session[o])') /\ (\A n \in IssueNumbers' : Remembered(n)')
  <2>1. ~curatorsMet /\ CuratorWell(w) /\ \A n \in IssueNumbers : Remembered(n)
    BY <1>4, <1>12 DEF RootInv
  <2>2. OneCurator' /\ \A o \in Sessions \ {s} : CuratorWell(session[o])'
    BY <1>2, <1>3, <2>1, IdleSessionWell, OthersAreNoCurators
  <2>3. CuratorWell(session[s])'
    BY <1>3, IdleSessionWell DEF CuratorWell, IsCurator
  <2>4. PICK n : n = w.root /\ n \in IssueNumbers /\ Kept(n) /\ n # d /\ roots[d].markers \subseteq roots[n].markers
    BY <1>1, <1>2, <2>1 DEF CuratorWell
  <2>5. Kept(n)' /\ \A m \in IssueNumbers \ {d} : Kept(m)' = Kept(m)
    BY <1>7, <2>4
  <2>6. ASSUME NEW m \in IssueNumbers, NEW q \in roots'[m].markers PROVE \E x \in IssueNumbers' : q \in roots'[x].markers /\ Kept(x)'
    <3>1. PICK x \in IssueNumbers : q \in roots[x].markers /\ Kept(x)
      BY <1>7, <2>1, <2>6 DEF Remembered
    <3>2. CASE x = d
      BY <1>6, <1>7, <2>4, <2>5, <3>1, <3>2
    <3>3. CASE x # d
      BY <1>6, <1>7, <2>5, <3>1, <3>3
    <3> QED
      BY <3>2, <3>3
  <2>7. \A m \in IssueNumbers' : Remembered(m)'
    BY <1>6, <2>6 DEF Remembered
  <2> QED
    BY <2>2, <2>3, <2>7
<1> QED
  BY <1>8, <1>10, <1>11, <1>12 DEF RootInv

\* A root that was fixed is still one that its markers are on.
LEMMA CloseFixedKeeps ==
    ASSUME RootInv, NEW n \in IssueNumbers, CloseFixed(n)
    PROVE  RootInv'
<1>1. PICK new : new = [roots[n] EXCEPT !.open = FALSE, !.fixed = TRUE]
  OBVIOUS
<1>2. roots' = [roots EXCEPT ![n] = new] /\ UNCHANGED <<contested, half, session, curatorsMet>>
  <2>1. roots' = [roots EXCEPT ![n].open = FALSE, ![n].fixed = TRUE] /\ UNCHANGED <<contested, half, session, curatorsMet>>
    BY DEF CloseFixed
  <2>2. roots[n] \in RootRecord /\ n \in DOMAIN roots
    BY DEF RootInv, RootTypes, IssueNumbers
  <2> QED
    BY <1>1, <2>1, <2>2
<1>3. new \in RootRecord /\ new.markers = roots[n].markers /\ ~new.open /\ new.fixed
  <2>1. roots[n] \in RootRecord
    BY DEF RootInv, RootTypes, IssueNumbers
  <2> QED
    BY <1>1, <2>1 DEF RootRecord
<1>4. /\ IssueNumbers' = IssueNumbers /\ roots' \in Seq(RootRecord)
      /\ \A m \in IssueNumbers : roots'[m] = IF m = n THEN new ELSE roots[m]
  <2>1. n \in IssueNumbers => new \in RootRecord
    BY <1>3
  <2>2. roots' = [roots EXCEPT ![n] = new]
    BY <1>2
  <2>3. /\ IssueNumbers' = IssueNumbers /\ roots' \in Seq(RootRecord)
        /\ \A m \in IssueNumbers : roots[m] \in RootRecord /\ roots'[m] = IF m = n THEN new ELSE roots[m]
    BY <2>1, <2>2, OneRootChanges, Zenon
  <2> QED
    BY <2>3
<1>5. \A m \in IssueNumbers : /\ roots'[m].markers = roots[m].markers /\ (roots'[m].open => roots[m].open)
                              /\ Kept(m) => Kept(m)'
  BY <1>3, <1>4 DEF Kept
<1>6. RootTypes'
  BY <1>2, <1>4 DEF RootInv, RootTypes
<1>7. (\A q : MarkedRoots(q)' \subseteq MarkedRoots(q)) /\ \A o \in Sessions : SessionWell(session[o])'
  BY <1>2, <1>4, <1>5, RootsShrink
<1>8. ASSUME NEW q \in Prints PROVE Single(q)'
  BY <1>2, <1>7, FewerIsSingle DEF RootInv, Single
<1>9. ASSUME ~curatorsMet' PROVE OneCurator' /\ (\A o \in Sessions : CuratorWell(session[o])') /\ (\A m \in IssueNumbers' : Remembered(m)')
  <2>1. ~curatorsMet /\ OneCurator /\ (\A o \in Sessions : CuratorWell(session[o])) /\ \A m \in IssueNumbers : Remembered(m)
    BY <1>2, <1>9 DEF RootInv
  <2>2. OneCurator'
    BY <1>2, <2>1 DEF OneCurator, Curating
  <2>3. \A o \in Sessions : CuratorWell(session[o])'
    BY <1>2, <1>4, <1>5, <2>1 DEF CuratorWell, IsCurator
  <2>4. \A m \in IssueNumbers' : Remembered(m)'
    BY <1>4, <1>5, <2>1 DEF Remembered
  <2> QED
    BY <2>2, <2>3, <2>4
<1> QED
  BY <1>6, <1>7, <1>8, <1>9 DEF RootInv

\* Markers are put up that are decided about, that are the duplicate's, or that the stale body had.
LEMMA AppendMarkersKeeps ==
    ASSUME RootInv, NEW s \in Sessions, AppendMarkers(s)
    PROVE  RootInv'
<1> DEFINE w == session[s]
           again == w.command = "merge" /\ ~roots[w.duplicate].open
<1>1. PICK n, d, seen, adds, had : /\ n = w.root /\ d = w.duplicate /\ seen = w.seen /\ adds = w.adds
                                  /\ had = roots[n].markers
  OBVIOUS
<1>2. /\ w \in SessionRecord /\ w.stage = "mark" /\ IsCurator(w) /\ n \in IssueNumbers
      /\ seen \in SUBSET Prints /\ adds \in SUBSET Prints /\ roots[n] \in RootRecord /\ had \in SUBSET Prints
  <2>1. /\ w \in SessionRecord /\ w.stage = "mark" /\ IsCurator(w) /\ n \in IssueNumbers
        /\ seen \in SUBSET Prints /\ adds \in SUBSET Prints
    BY <1>1, RecordTypes DEF AppendMarkers, SessionWell
  <2>2. roots[n] \in RootRecord
    BY <2>1 DEF RootInv, RootTypes, IssueNumbers
  <2> QED
    BY <1>1, <2>1, <2>2 DEF RootRecord
<1>3. PICK r \in SessionRecord :
          /\ session' = [session EXCEPT ![s] = r] /\ session'[s] = r /\ SessionWell(session[s])'
          /\ \/ r = IdleSession \/ r = [w EXCEPT !.stage = "comment"]
             \/ r = [w EXCEPT !.stage = "name"] /\ w.command = "merge"
  <2>1. SessionProceeds(s)
    BY DEF AppendMarkers
  <2> QED
    BY <1>2, <2>1, CuratorProceeds, ProceedingIsWell DEF MergeStep
<1>4. PICK now \in SUBSET Prints :
          /\ roots' = [roots EXCEPT ![n] = [roots[n] EXCEPT !.markers = now]]
          /\ (now = had /\ adds \subseteq seen) \/ now = seen \cup adds
  <2>1. CASE adds \subseteq seen
    <3>1. roots' = roots
      BY <1>1, <2>1 DEF AppendMarkers
    <3>2. [roots[n] EXCEPT !.markers = had] = roots[n] /\ roots \in Seq(RootRecord)
      BY <1>1, <1>2 DEF RootRecord, RootInv, RootTypes
    <3>3. roots' = [roots EXCEPT ![n] = [roots[n] EXCEPT !.markers = had]]
      BY <3>1, <3>2
    <3> QED
      BY <1>2, <2>1, <3>3
  <2>2. CASE ~(adds \subseteq seen)
    <3>1. roots' = [roots EXCEPT ![n].markers = seen \cup adds]
      BY <1>1, <2>2 DEF AppendMarkers
    <3> QED
      BY <1>2, <3>1
  <2> QED
    BY <2>1, <2>2
<1>5. /\ curatorsMet' = curatorsMet
      /\ contested' = contested \cup (IF w.command = "resolve" \/ again THEN adds ELSE adds \cap AlsoAdding(s)) \cup (seen \ had)
      /\ half' = IF w.command = "merge" /\ roots[d].open THEN half \cup adds ELSE half
  BY <1>1 DEF AppendMarkers
<1>6. \A q \in now \ had : q \in contested' \cup half'
  BY <1>1, <1>2, <1>4, <1>5 DEF IsCurator
<1>7. \A q \in now \ had : q \in contested' \/ (q \in adds /\ (q \in AlsoAdding(s) => q \in contested'))
  BY <1>4, <1>5
<1>8. contested \subseteq contested' /\ half \subseteq half' /\ half' \subseteq Prints
  BY <1>2, <1>5 DEF RootInv, RootTypes
<1>0. PICK new : new = [roots[n] EXCEPT !.markers = now]
  OBVIOUS
<1>9. new \in RootRecord /\ new.markers = now /\ new.open = roots[n].open /\ new.fixed = roots[n].fixed
  BY <1>0, <1>2, <1>4 DEF RootRecord
<1>10. /\ IssueNumbers' = IssueNumbers /\ roots' \in Seq(RootRecord)
       /\ \A m \in IssueNumbers : roots'[m] = IF m = n THEN new ELSE roots[m]
  <2>1. n \in IssueNumbers => new \in RootRecord
    BY <1>9
  <2>2. roots' = [roots EXCEPT ![n] = new]
    BY <1>0, <1>4, Zenon
  <2>3. /\ IssueNumbers' = IssueNumbers /\ roots' \in Seq(RootRecord)
        /\ \A m \in IssueNumbers : roots[m] \in RootRecord /\ roots'[m] = IF m = n THEN new ELSE roots[m]
    BY <2>1, <2>2, OneRootChanges, Zenon
  <2> QED
    BY <2>3
<1>11. /\ \A m \in IssueNumbers : /\ roots'[m].open = roots[m].open /\ Kept(m)' = Kept(m)
                                  /\ m # n => roots'[m].markers = roots[m].markers
       /\ roots'[n].markers = now
  BY <1>2, <1>9, <1>10 DEF Kept
<1>12. RootTypes'
  BY <1>3, <1>5, <1>8, <1>10 DEF RootInv, RootTypes
<1>13. ASSUME NEW q, q \notin now \ had PROVE MarkedRoots(q)' \subseteq MarkedRoots(q)
  <2>1. ASSUME NEW m
        PROVE  /\ m \in MarkedRoots(q) <=> m \in IssueNumbers /\ roots[m].open /\ q \in roots[m].markers
               /\ m \in MarkedRoots(q)' <=> m \in IssueNumbers' /\ roots'[m].open /\ q \in roots'[m].markers
    BY DEF MarkedRoots, OpenRoots
  <2>2. ASSUME NEW m \in MarkedRoots(q)' PROVE m \in MarkedRoots(q)
    <3>1. m \in IssueNumbers /\ roots[m].open /\ q \in roots'[m].markers
      BY <1>10, <1>11, <2>1, <2>2
    <3>2. q \in roots[m].markers
      BY <1>1, <1>11, <1>13, <3>1
    <3> QED
      BY <2>1, <3>1, <3>2
  <2> QED
    BY <2>2
<1>14. ASSUME NEW o \in Sessions PROVE SessionWell(session[o])'
  <2>1. CASE o = s
    BY <1>3, <2>1
  <2>2. CASE o # s
    <3>1. SessionWell(session[o]) /\ session'[o] = session[o]
      BY <1>3, <2>2 DEF RootInv, RootTypes
    <3>2. CASE session[o].stage # "create"
      BY <1>10, <3>1, <3>2 DEF SessionWell, IsCurator
    <3>3. CASE session[o].stage = "create"
      <4>1. PICK q : q = KindOf[session[o].event].print
        OBVIOUS
      <4>2. session[o].adds = {q} /\ (session[o].command # "resolve" => q \in contested \/ MarkedRoots(q) = {})
        BY <3>1, <3>3, <4>1 DEF SessionWell
      <4>3. q \in AlsoAdding(s)
        BY <2>2, <3>3, <4>2 DEF AlsoAdding
      <4>4. session[o].command # "resolve" => q \in contested' \/ MarkedRoots(q)' = {}
        BY <1>7, <1>8, <1>13, <4>2, <4>3
      <4> QED
        BY <3>1, <3>3, <4>1, <4>2, <4>4 DEF SessionWell
    <3> QED
      BY <3>2, <3>3
  <2> QED
    BY <2>1, <2>2
<1>15. ASSUME NEW q \in Prints PROVE Single(q)'
  <2>1. CASE q \in contested' \cup half'
    BY <2>1 DEF Single
  <2>2. CASE q \notin contested' \cup half'
    <3>1. Cardinality(MarkedRoots(q)) <= 1
      BY <1>8, <2>2 DEF RootInv, Single
    <3>2. MarkedRoots(q)' \subseteq MarkedRoots(q)
      BY <1>6, <1>13, <2>2
    <3> QED
      BY <3>1, <3>2, FewerIsSingle DEF RootInv, Single
  <2> QED
    BY <2>1, <2>2
<1>16. ASSUME ~curatorsMet' PROVE OneCurator' /\ (\A o \in Sessions : CuratorWell(session[o])') /\ (\A m \in IssueNumbers' : Remembered(m)')
  <2>1. ~curatorsMet /\ CuratorWell(w) /\ \A m \in IssueNumbers : Remembered(m)
    BY <1>5, <1>16 DEF RootInv
  <2>2. OneCurator' /\ \A o \in Sessions \ {s} : CuratorWell(session[o])'
    BY <1>2, <1>3, <2>1, OthersAreNoCurators
  <2>3. Kept(n) /\ seen = had /\ (w.command = "merge" => d \in IssueNumbers /\ n # d /\ adds = roots[d].markers)
    BY <1>1, <1>2, <2>1 DEF CuratorWell
  <2>4. had \subseteq now /\ adds \subseteq now
    BY <1>4, <2>3
  <2>5. CuratorWell(session[s])'
    <3>1. CASE r = IdleSession
      BY <1>3, <3>1, IdleSessionWell DEF CuratorWell, IsCurator
    <3>2. CASE r = [w EXCEPT !.stage = "comment"]
      <4>1. r.stage = "comment"
        BY <1>2, <3>2 DEF SessionRecord
      <4> QED
        BY <1>3, <4>1 DEF CuratorWell
    <3>3. CASE r = [w EXCEPT !.stage = "name"] /\ w.command = "merge"
      <4>1. /\ r.stage = "name" /\ r.command = "merge" /\ r.root = n /\ r.duplicate = d /\ r.adds = adds
        BY <1>1, <1>2, <3>3 DEF SessionRecord
      <4>2. /\ n \in IssueNumbers' /\ Kept(n)' /\ d \in IssueNumbers' /\ n # d /\ adds = roots'[d].markers
            /\ adds \subseteq roots'[n].markers
        BY <1>2, <1>10, <1>11, <2>3, <2>4, <3>3
      <4> QED
        BY <1>3, <4>1, <4>2 DEF CuratorWell, Kept
    <3> QED
      BY <1>3, <3>1, <3>2, <3>3
  <2>6. ASSUME NEW m \in IssueNumbers, NEW q \in roots'[m].markers PROVE \E x \in IssueNumbers' : q \in roots'[x].markers /\ Kept(x)'
    <3>1. CASE m = n
      BY <1>2, <1>10, <1>11, <2>3, <2>6, <3>1
    <3>2. CASE m # n
      <4>1. PICK x \in IssueNumbers : q \in roots[x].markers /\ Kept(x)
        BY <1>11, <2>1, <2>6, <3>2 DEF Remembered
      <4>2. q \in roots'[x].markers /\ Kept(x)'
        BY <1>1, <1>11, <2>4, <4>1
      <4> QED
        BY <1>10, <4>2
    <3> QED
      BY <3>1, <3>2
  <2>7. \A m \in IssueNumbers' : Remembered(m)'
    BY <1>10, <2>6 DEF Remembered
  <2> QED
    BY <2>2, <2>5, <2>7
<1> QED
  BY <1>12, <1>14, <1>15, <1>16 DEF RootInv

\* The retrospective and the gate touch neither sessions nor roots.
LEMMA GateStepsAreApart ==
    ASSUME RootInv,
           \/ UNCHANGED frictionVars \/ \E e \in Events, t \in Tasks \cup {NoOne} : Attribute(e, t)
           \/ \E t \in Tasks : \/ Review(t) \/ SaveCheckpoint(t) \/ RequireCheckpoint(t) \/ ReadCandidate(t) \/ FindArchived(t)
                               \/ CompareParent(t) \/ ReadProof(t) \/ CarryCheckpoint(t) \/ FinishEnds(t) \/ AgentCommits(t)
           \/ \E t \in Tasks, swept \in BOOLEAN : ArchiveCommit(t, swept)
    PROVE  RootInv'
<1> DEFINE Still == UNCHANGED <<roots, contested, half, session, curatorsMet>>
<1>1. Still
  <2>1. CASE UNCHANGED frictionVars
    BY <2>1 DEF frictionVars, github
  <2>2. ASSUME NEW e \in Events, NEW t \in Tasks \cup {NoOne}, Attribute(e, t) PROVE Still
    BY <2>2 DEF Attribute, github
  <2>3. ASSUME NEW t \in Tasks, Review(t) \/ SaveCheckpoint(t) \/ RequireCheckpoint(t) \/ ReadCandidate(t) \/ FindArchived(t)
        PROVE  Still
    BY <2>3 DEF Review, SaveCheckpoint, RequireCheckpoint, ReadCandidate, FindArchived, github
  <2>4. ASSUME NEW t \in Tasks, CompareParent(t) \/ ReadProof(t) \/ CarryCheckpoint(t) \/ FinishEnds(t) \/ AgentCommits(t)
        PROVE  Still
    BY <2>4 DEF CompareParent, ReadProof, CarryCheckpoint, FinishEnds, AgentCommits, github
  <2>5. ASSUME NEW t \in Tasks, NEW swept \in BOOLEAN, ArchiveCommit(t, swept) PROVE Still
    BY <2>5 DEF ArchiveCommit, github
  <2> QED
    BY <2>1, <2>2, <2>3, <2>4, <2>5
<1> QED
  BY <1>1 DEF RootInv, RootTypes, SessionWell, CuratorWell, Single, Remembered, OneCurator, Kept, IsCurator, Curating, IssueNumbers,
              MarkedRoots, OpenRoots

LEMMA RootsStay == RootInv /\ log \in Seq(Events) /\ [FrictionNext]_frictionVars => RootInv'
<1> SUFFICES ASSUME RootInv, log \in Seq(Events), [FrictionNext]_frictionVars PROVE RootInv'
  OBVIOUS
<1>1. ASSUME NEW s \in Sessions, ListRoots(s) \/ CommentRoot(s) \/ SaveRoute(s) \/ RouteFails(s) \/ SessionDies(s) \/ WriteMark(s)
      PROVE  RootInv'
  BY <1>1, RoutingSteps
<1>2. ASSUME NEW s \in Sessions, NEW e \in Events, RoutePending(s, e) PROVE RootInv'
  BY <1>2, RoutingSteps
<1>3. ASSUME NEW s \in Sessions, NEW e \in Events, NEW route \in BOOLEAN, Record(s, e, route) PROVE RootInv'
  BY <1>3, RoutingSteps
<1>4. ASSUME NEW s \in Sessions, NEW count \in 1..Len(log), BeginMark(s, count) PROVE RootInv'
  BY <1>4, RoutingSteps
<1>5. ASSUME NEW s \in Sessions, NEW e \in Events, ResolveNewRoot(s, e) PROVE RootInv'
  BY <1>5, CurationStarts
<1>6. ASSUME NEW s \in Sessions, NEW e \in Events, NEW n \in IssueNumbers, ResolveSameRoot(s, e, n) PROVE RootInv'
  BY <1>6, CurationStarts
<1>7. ASSUME NEW s \in Sessions, NEW n \in IssueNumbers, NEW d \in IssueNumbers, MergeRoots(s, n, d) PROVE RootInv'
  BY <1>7, CurationStarts
<1>8. ASSUME NEW s \in Sessions, AppendMarkers(s) \/ NameTarget(s) \/ CloseDuplicate(s) PROVE RootInv'
  BY <1>8, AppendMarkersKeeps, NameTargetKeeps, CloseDuplicateKeeps
<1>9. ASSUME NEW s \in Sessions, NEW verified \in BOOLEAN, CreateRoot(s, verified) PROVE RootInv'
  BY <1>9, CreateRootKeeps
<1>10. ASSUME NEW n \in IssueNumbers, CloseFixed(n) PROVE RootInv'
  BY <1>10, CloseFixedKeeps
<1>11. CASE \/ UNCHANGED frictionVars \/ \E e \in Events, t \in Tasks \cup {NoOne} : Attribute(e, t)
            \/ \E t \in Tasks : \/ Review(t) \/ SaveCheckpoint(t) \/ RequireCheckpoint(t) \/ ReadCandidate(t) \/ FindArchived(t)
                                \/ CompareParent(t) \/ ReadProof(t) \/ CarryCheckpoint(t) \/ FinishEnds(t) \/ AgentCommits(t)
            \/ \E t \in Tasks, swept \in BOOLEAN : ArchiveCommit(t, swept)
  BY <1>11, GateStepsAreApart
<1> QED
  BY <1>1, <1>2, <1>3, <1>4, <1>5, <1>6, <1>7, <1>8, <1>9, <1>10, <1>11 DEF FrictionNext

\* Two open roots never carry the marker of one fingerprint, with any number of sessions that route,
\* resolve, merge and are killed between any two of their requests; but for the fingerprints that the
\* definition of the property excepts.
THEOREM RootsAreSingle == FrictionSpec => []OneRoot
<1>1. RootInv => OneRoot
  BY DEF RootInv, OneRoot, Single, Remembered, Kept
<1>2. CarryInv => log \in Seq(Events)
  BY DEF CarryInv, CarryTypes
<1> QED
  BY CarryStart, CarryStays, RootStart, RootsStay, <1>1, <1>2, PTL DEF FrictionSpec

-----------------------------------------------------------------------------
(* The reads through the cache. *)

Page == [body : Seq(Nat), next : BOOLEAN, stored : BOOLEAN]
ReaderRecord == [at : {"idle", "look", "ask", "store", "done"}, page : Nat, entry : Page, got : Seq(Nat), calm : BOOLEAN]

CacheTypes ==
    /\ items \in Seq(Nat) /\ changed \in Nat /\ changed <= MaxChanges /\ Len(items) <= changed
    /\ cached \in [PageNumbers -> Page] /\ reader \in [Readers -> ReaderRecord]

\* A link to a next page is stored with a full page, which never is the last one of all.
Honest(entry, k) == entry.next => Len(entry.body) = PageSize /\ k <= MaxChanges

\* A read is at a page that there may be; and while the list stays what it is, it has all items
\* before that page, and what it is about to store is what GitHub has.
ReaderWell(w) ==
    /\ w.at \in {"look", "ask", "store"} => w.page \in PageNumbers /\ Honest(w.entry, w.page)
    /\ w.calm =>
         /\ w.at \in {"look", "ask", "store"} =>
                (w.page - 1) * PageSize <= Len(items) /\ w.got = SubSeq(items, 1, (w.page - 1) * PageSize)
         /\ w.at = "store" => w.entry = LivePage(w.page)
         /\ w.at = "done" => w.got = items

CacheInv ==
    /\ CacheTypes /\ \A k \in PageNumbers : Honest(cached[k], k)
    /\ \A r \in Readers : ReaderWell(reader[r])

LEMMA PagesAdd ==
    ASSUME NEW k \in Nat, k >= 1
    PROVE  /\ (k - 1) * PageSize \in Nat /\ k * PageSize \in Nat
           /\ k * PageSize = (k - 1) * PageSize + PageSize
           /\ (k + 1 - 1) * PageSize = k * PageSize /\ k <= k * PageSize
  BY CacheAssumption

LEMMA NoPageWell == NoPage \in Page /\ ~NoPage.next /\ \A k : Honest(NoPage, k)
<1>1. <<>> \in Seq(Nat)
  OBVIOUS
<1> QED
  BY <1>1 DEF NoPage, Page, Honest

LEMMA NotReadingWell == NotReading \in ReaderRecord /\ ReaderWell(NotReading)
<1>1. <<>> \in Seq(Nat) /\ NoPage \in Page
  BY NoPageWell
<1> QED
  BY <1>1 DEF NotReading, ReaderRecord, ReaderWell

\* The page that GitHub has: what follows the items before it.
LEMMA LivePages ==
    ASSUME CacheTypes, NEW k \in PageNumbers
    PROVE  /\ LivePage(k) \in Page /\ Honest(LivePage(k), k)
           /\ (k - 1) * PageSize <= Len(items) =>
                \E m \in Nat :
                   /\ m <= Len(items) /\ m = IF k * PageSize < Len(items) THEN k * PageSize ELSE Len(items)
                   /\ SubSeq(items, 1, (k - 1) * PageSize) \o LivePage(k).body = SubSeq(items, 1, m)
                   /\ Len(LivePage(k).body) = m - (k - 1) * PageSize
                   /\ LivePage(k).next <=> k * PageSize < Len(items)
<1>1. PICK a \in Nat, b \in Nat : a = (k - 1) * PageSize /\ b = k * PageSize /\ b = a + PageSize /\ k <= b
  BY PagesAdd, CacheAssumption DEF PageNumbers
<1>2. PICK m \in Nat : m = (IF b < Len(items) THEN b ELSE Len(items)) /\ m <= Len(items)
  BY <1>1 DEF CacheTypes
<1>3. LivePage(k) = [body |-> SubSeq(items, a + 1, m), next |-> b < Len(items), stored |-> TRUE]
  BY <1>1, <1>2 DEF LivePage
<1>4. \A i \in (a + 1)..m : items[i] \in Nat
  BY <1>1, <1>2 DEF CacheTypes
<1>5. SubSeq(items, a + 1, m) \in Seq(Nat) /\ Len(SubSeq(items, a + 1, m)) = IF a + 1 <= m THEN m - (a + 1) + 1 ELSE 0
  BY <1>1, <1>2, <1>4, SubSeqProperties
<1>6. LivePage(k) \in Page
  BY <1>3, <1>5 DEF Page
<1>7. Honest(LivePage(k), k)
  <2>1. LivePage(k).next <=> b < Len(items)
    <3>1. LivePage(k).next = (k * PageSize < Len(items))
      BY DEF LivePage
    <3> QED
      BY <1>1, <3>1, Zenon
  <2>2. LivePage(k).body = SubSeq(items, a + 1, m)
    BY <1>3
  <2>3. ASSUME b < Len(items) PROVE Len(SubSeq(items, a + 1, m)) = PageSize
    BY <1>1, <1>2, <1>5, <2>3, CacheAssumption
  <2>4. k \in Nat /\ Len(items) \in Nat /\ Len(items) <= MaxChanges
    BY CacheAssumption DEF PageNumbers, CacheTypes
  <2>5. ASSUME b < Len(items) PROVE k <= MaxChanges
    BY <1>1, <2>4, <2>5, CacheAssumption
  <2> QED
    BY <2>1, <2>2, <2>3, <2>5 DEF Honest
<1>8. ASSUME a <= Len(items) PROVE SubSeq(items, 1, a) \o SubSeq(items, a + 1, m) = SubSeq(items, 1, m) /\ a <= m
  <2>1. a <= m
    BY <1>1, <1>2, <1>8, CacheAssumption
  <2>2. 1 \in 1..Len(items) + 1 /\ a \in 1 - 1..Len(items) /\ m \in a..Len(items) /\ items \in Seq(Nat)
    BY <1>1, <1>2, <1>8, <2>1 DEF CacheTypes
  <2> QED
    BY <2>1, <2>2, ConcatAdjacentSubSeq
<1>9. ASSUME a <= Len(items) PROVE Len(SubSeq(items, a + 1, m)) = m - a
  BY <1>1, <1>2, <1>5, <1>8, <1>9
<1>10. LivePage(k).body = SubSeq(items, a + 1, m) /\ (LivePage(k).next <=> b < Len(items))
  <2>1. LivePage(k).next = (k * PageSize < Len(items))
    BY DEF LivePage
  <2>2. LivePage(k).body = SubSeq(items, a + 1, m)
    BY <1>3
  <2> QED
    BY <1>1, <2>1, <2>2, Zenon
<1>11. ASSUME a <= Len(items)
       PROVE  /\ SubSeq(items, 1, a) \o LivePage(k).body = SubSeq(items, 1, m) /\ Len(LivePage(k).body) = m - a
              /\ LivePage(k).next <=> b < Len(items)
  BY <1>8, <1>9, <1>10, <1>11, Zenon
<1>12. a <= Len(items) => \E x \in Nat :
          /\ x <= Len(items) /\ x = IF b < Len(items) THEN b ELSE Len(items)
          /\ SubSeq(items, 1, a) \o LivePage(k).body = SubSeq(items, 1, x)
          /\ Len(LivePage(k).body) = x - a
          /\ LivePage(k).next <=> b < Len(items)
  BY <1>2, <1>11, Zenon
<1> QED
  BY <1>1, <1>6, <1>7, <1>12, Zenon

LEMMA CacheStart == CacheInit => CacheInv
<1> SUFFICES ASSUME CacheInit PROVE CacheInv
  OBVIOUS
<1>1. CacheTypes
  BY NoPageWell, NotReadingWell, CacheAssumption DEF CacheInit, CacheTypes
<1> QED
  BY <1>1, NoPageWell, NotReadingWell DEF CacheInit, CacheInv

\* A page is taken that is what GitHub has: the read goes on, or has it all.
LEMMA TakenWell ==
    ASSUME CacheInv, NEW r \in Readers, NEW entry \in Page, reader[r].page \in PageNumbers,
           reader[r].at \in {"ask", "store"}, Honest(entry, reader[r].page),
           reader[r].calm => /\ entry.body = LivePage(reader[r].page).body
                             /\ ~entry.next => ~LivePage(reader[r].page).next
    PROVE  Taken(r, entry) \in ReaderRecord /\ ReaderWell(Taken(r, entry))
<1> DEFINE w == reader[r]
           k == w.page
           got == w.got \o entry.body
<1>1. w \in ReaderRecord /\ ReaderWell(w) /\ k \in Nat /\ k >= 1 /\ w.got \in Seq(Nat) /\ w.calm \in BOOLEAN
      /\ entry.body \in Seq(Nat) /\ entry.next \in BOOLEAN
  <2>1. w \in ReaderRecord /\ ReaderWell(w)
    BY DEF CacheInv, CacheTypes
  <2> QED
    BY <2>1, CacheAssumption DEF ReaderRecord, PageNumbers, Page
<1>2. got \in Seq(Nat) /\ NoPage \in Page
  BY <1>1, ConcatProperties, NoPageWell
<1>3. CASE entry.next
  <2> DEFINE n == [w EXCEPT !.at = "look", !.page = k + 1, !.entry = NoPage, !.got = got]
  <2>1. Taken(r, entry) = n
    BY <1>3 DEF Taken
  <2>8. k + 1 \in Nat
    BY <1>1
  <2> HIDE DEF got
  <2>2. n \in ReaderRecord /\ n.at = "look" /\ n.page = k + 1 /\ n.entry = NoPage /\ n.got = got /\ n.calm = w.calm
    BY <1>1, <1>2, <2>8 DEF ReaderRecord
  <2> USE DEF got
  <2>3. k + 1 \in PageNumbers /\ Len(entry.body) = PageSize
    BY <1>1, <1>3, CacheAssumption DEF Honest, PageNumbers
  <2>4. ASSUME w.calm PROVE (k + 1 - 1) * PageSize <= Len(items) /\ got = SubSeq(items, 1, (k + 1 - 1) * PageSize)
    <3>1. (k - 1) * PageSize <= Len(items) /\ w.got = SubSeq(items, 1, (k - 1) * PageSize) /\ entry.body = LivePage(k).body
      BY <1>1, <2>4 DEF ReaderWell
    <3>2. PICK m \in Nat : /\ m <= Len(items) /\ got = SubSeq(items, 1, m) /\ Len(entry.body) = m - (k - 1) * PageSize
      BY <3>1, LivePages DEF CacheInv
    <3>3. m = (k + 1 - 1) * PageSize
      <4>1. PICK a \in Nat, b \in Nat : a = (k - 1) * PageSize /\ b = (k + 1 - 1) * PageSize /\ b = a + PageSize
        BY <1>1, PagesAdd, CacheAssumption
      <4>2. m - a = PageSize
        BY <2>3, <3>2, <4>1
      <4>3. m = b
        BY <4>1, <4>2, CacheAssumption
      <4> QED
        BY <4>1, <4>3
    <3> QED
      BY <3>2, <3>3
  <2> HIDE DEF n, got
  <2>6. n.page \in PageNumbers /\ Honest(n.entry, n.page)
    BY <2>2, <2>3, NoPageWell
  <2>7. n.calm => (n.page - 1) * PageSize <= Len(items) /\ n.got = SubSeq(items, 1, (n.page - 1) * PageSize)
    <3>1. n.page = k + 1 /\ n.got = got /\ (n.calm <=> w.calm)
      BY <2>2, Zenon
    <3>3. n.page = k + 1
      BY <3>1, Zenon
    <3>4. \A x, y \in Nat : x = y + 1 => x - 1 = y + 1 - 1
      OBVIOUS
    <3>5. k \in Nat /\ n.page \in Nat
      BY <1>1, <2>8, <3>3, Zenon
    <3>2. n.page - 1 = k + 1 - 1
      BY <3>3, <3>4, <3>5, Zenon
    <3> QED
      BY <2>4, <3>1, <3>2, Zenon
  <2>5. ReaderWell(n)
    BY <2>2, <2>6, <2>7 DEF ReaderWell
  <2> QED
    BY <2>1, <2>2, <2>5
<1>4. CASE ~entry.next
  <2> DEFINE n == [w EXCEPT !.at = "done", !.entry = NoPage, !.got = got]
  <2>1. Taken(r, entry) = n
    BY <1>4 DEF Taken
  <2>2. n \in ReaderRecord /\ n.at = "done" /\ n.got = got /\ n.calm = w.calm
    BY <1>1, <1>2 DEF ReaderRecord
  <2>3. ASSUME w.calm PROVE got = items
    <3>1. /\ (k - 1) * PageSize <= Len(items) /\ w.got = SubSeq(items, 1, (k - 1) * PageSize) /\ entry.body = LivePage(k).body
          /\ ~LivePage(k).next
      BY <1>1, <1>4, <2>3 DEF ReaderWell
    <3>2. got = SubSeq(items, 1, Len(items))
      BY <3>1, LivePages DEF CacheInv
    <3> QED
      BY <3>2, SubSeqFull DEF CacheInv, CacheTypes
  <2> HIDE DEF n, got
  <2>4. ReaderWell(n)
    BY <2>2, <2>3 DEF ReaderWell
  <2> QED
    BY <2>1, <2>2, <2>4
<1> QED
  BY <1>1, <1>3, <1>4

\* A step of one reader that leaves the list.
LEMMA ReaderMoves ==
    ASSUME CacheInv, NEW r \in Readers, NEW w \in ReaderRecord, ReaderWell(w), UNCHANGED <<items, changed>>, OnlyReader(r, w),
           cached' \in [PageNumbers -> Page], \A k \in PageNumbers : Honest(cached'[k], k)
    PROVE  CacheInv'
<1>1. reader' = [reader EXCEPT ![r] = w]
  BY DEF OnlyReader
<1>2. \A o \in Readers : reader'[o] = IF o = r THEN w ELSE reader[o]
  BY <1>1 DEF CacheInv, CacheTypes
<1>3. CacheTypes'
  BY <1>1 DEF CacheInv, CacheTypes
<1>4. ASSUME NEW o \in Readers PROVE ReaderWell(reader[o])'
  <2>1. ReaderWell(reader'[o])
    BY <1>2 DEF CacheInv
  <2> QED
    BY <2>1 DEF ReaderWell, LivePage, Honest
<1> QED
  BY <1>3, <1>4 DEF CacheInv, Honest

\* The list changes, and no read that runs is calm any more.
LEMMA ListChanges ==
    ASSUME CacheInv, NEW list \in Seq(Nat), Len(list) <= Len(items) + 1, ChangeTo(list)
    PROVE  CacheInv'
<1>1. /\ items' = list /\ changed' = changed + 1 /\ changed < MaxChanges /\ UNCHANGED cached
      /\ reader' = [r \in Readers |-> [reader[r] EXCEPT !.calm = FALSE]]
  BY DEF ChangeTo
<1>2. ASSUME NEW r \in Readers
      PROVE  /\ reader'[r] \in ReaderRecord /\ reader'[r].at = reader[r].at /\ reader'[r].page = reader[r].page
             /\ reader'[r].entry = reader[r].entry /\ ~reader'[r].calm
  <2>1. reader[r] \in ReaderRecord /\ reader'[r] = [reader[r] EXCEPT !.calm = FALSE]
    BY <1>1 DEF CacheInv, CacheTypes
  <2> QED
    BY <2>1 DEF ReaderRecord
<1>3. CacheTypes'
  <2>1. items' \in Seq(Nat) /\ changed' \in Nat /\ changed' <= MaxChanges /\ Len(items') <= changed'
    BY <1>1, CacheAssumption DEF CacheInv, CacheTypes
  <2> QED
    BY <1>1, <1>2, <2>1 DEF CacheInv, CacheTypes
<1>4. ASSUME NEW r \in Readers PROVE ReaderWell(reader[r])'
  <2>1. ReaderWell(reader[r])
    BY DEF CacheInv
  <2> QED
    BY <1>2, <2>1 DEF ReaderWell, Honest
<1> QED
  BY <1>1, <1>3, <1>4 DEF CacheInv, Honest

LEMMA ListSteps ==
    ASSUME CacheInv, AddLast \/ AddFirst \/ \E i \in DOMAIN items : EditItem(i) \/ DropItem(i)
    PROVE  CacheInv'
<1>1. items \in Seq(Nat) /\ changed + 1 \in Nat /\ DOMAIN items = 1..Len(items) /\ Len(items) \in Nat
  BY DEF CacheInv, CacheTypes
<1>2. CASE AddLast
  <2>1. Append(items, changed + 1) \in Seq(Nat) /\ Len(Append(items, changed + 1)) = Len(items) + 1
    BY <1>1
  <2>8. ChangeTo(Append(items, changed + 1))
    BY <1>1, <1>2, <2>1 DEF AddLast
  <2>9. Len(Append(items, changed + 1)) <= Len(items) + 1
    BY <1>1, <1>2, <2>1
  <2> QED
    BY <1>1, <1>2, <2>1, <2>8, <2>9, ListChanges, Zenon
<1>3. CASE AddFirst
  <2>1. <<changed + 1>> \in Seq(Nat) /\ Len(<<changed + 1>>) = 1
    BY <1>1
  <2>2. <<changed + 1>> \o items \in Seq(Nat) /\ Len(<<changed + 1>> \o items) = Len(items) + 1
    BY <1>1, <2>1, ConcatProperties
  <2>8. ChangeTo(<<changed + 1>> \o items)
    BY <1>1, <1>3, <2>2 DEF AddFirst
  <2>9. Len(<<changed + 1>> \o items) <= Len(items) + 1
    BY <1>1, <1>3, <2>2
  <2> QED
    BY <1>1, <1>3, <2>2, <2>8, <2>9, ListChanges, Zenon
<1>4. ASSUME NEW i \in DOMAIN items, EditItem(i) PROVE CacheInv'
  <2>1. [items EXCEPT ![i] = changed + 1] \in Seq(Nat) /\ Len([items EXCEPT ![i] = changed + 1]) = Len(items)
    BY <1>1
  <2>8. ChangeTo([items EXCEPT ![i] = changed + 1])
    BY <1>1, <1>4, <2>1 DEF EditItem
  <2>9. Len([items EXCEPT ![i] = changed + 1]) <= Len(items) + 1
    BY <1>1, <1>4, <2>1
  <2> QED
    BY <1>1, <1>4, <2>1, <2>8, <2>9, ListChanges, Zenon
<1>5. ASSUME NEW i \in DOMAIN items, DropItem(i) PROVE CacheInv'
  <2>1. i \in Nat /\ i >= 1 /\ i <= Len(items)
    BY <1>1
  <2>2. /\ SubSeq(items, 1, i - 1) \in Seq(Nat) /\ Len(SubSeq(items, 1, i - 1)) = i - 1
        /\ SubSeq(items, i + 1, Len(items)) \in Seq(Nat) /\ Len(SubSeq(items, i + 1, Len(items))) = Len(items) - i
    <3>1. \A j \in 1..Len(items) : items[j] \in Nat
      BY <1>1
    <3>2. (\A j \in 1..(i - 1) : items[j] \in Nat) /\ \A j \in (i + 1)..Len(items) : items[j] \in Nat
      BY <1>1, <2>1, <3>1
    <3> QED
      BY <1>1, <2>1, <3>2, SubSeqProperties, SMTT(20)
  <2>4. PICK s, t : s = SubSeq(items, 1, i - 1) /\ t = SubSeq(items, i + 1, Len(items))
    OBVIOUS
  <2>5. s \o t \in Seq(Nat) /\ Len(s \o t) = Len(items) - 1
    <3>1. s \in Seq(Nat) /\ t \in Seq(Nat) /\ Len(s) = i - 1 /\ Len(t) = Len(items) - i
      BY <2>2, <2>4
    <3>2. s \o t \in Seq(Nat) /\ Len(s \o t) = Len(s) + Len(t)
      BY <3>1, ConcatProperties
    <3> QED
      BY <1>1, <2>1, <3>1, <3>2
  <2>3. RemoveAt(items, i) \in Seq(Nat) /\ Len(RemoveAt(items, i)) = Len(items) - 1
    BY <2>4, <2>5 DEF RemoveAt
  <2>8. ChangeTo(RemoveAt(items, i))
    BY <1>1, <1>5, <2>3 DEF DropItem
  <2>9. Len(RemoveAt(items, i)) <= Len(items) + 1
    BY <1>1, <1>5, <2>3
  <2> QED
    BY <1>1, <1>5, <2>3, <2>8, <2>9, ListChanges, Zenon
<1> QED
  BY <1>2, <1>3, <1>4, <1>5

LEMMA ReadSteps ==
    ASSUME CacheInv, NEW r \in Readers,
           StartRead(r) \/ LookUp(r) \/ NotModified(r) \/ Modified(r) \/ Store(r) \/ AbandonRead(r)
    PROVE  CacheInv'
<1> DEFINE w == reader[r]
           k == w.page
<1>1. /\ w \in ReaderRecord /\ ReaderWell(w) /\ k \in Nat /\ w.entry \in Page /\ w.got \in Seq(Nat) /\ w.calm \in BOOLEAN
      /\ \A x \in PageNumbers : cached[x] \in Page /\ Honest(cached[x], x)
      /\ cached \in [PageNumbers -> Page] /\ CacheTypes
  <2>1. w \in ReaderRecord /\ ReaderWell(w)
    BY DEF CacheInv, CacheTypes
  <2> QED
    BY <2>1 DEF ReaderRecord, CacheInv, CacheTypes
<1>2. CASE StartRead(r)
  <2> DEFINE n == [NotReading EXCEPT !.at = "look", !.page = 1]
  <2>1. /\ n \in ReaderRecord /\ n.at = "look" /\ n.page = 1 /\ n.entry = NoPage /\ n.got = <<>>
    BY NotReadingWell DEF ReaderRecord, NotReading
  <2>2. /\ 1 \in PageNumbers /\ (1 - 1) * PageSize = 0 /\ SubSeq(items, 1, 0) = <<>> /\ 0 <= Len(items)
    BY <1>1, CacheAssumption, SubSeqEmpty DEF PageNumbers, CacheTypes
  <2>3. OnlyReader(r, n) /\ UNCHANGED <<items, changed, cached>>
    BY <1>2 DEF StartRead
  <2> HIDE DEF n
  <2>4. ReaderWell(n)
    BY <2>1, <2>2, NoPageWell DEF ReaderWell
  <2> QED
    BY <1>1, <2>1, <2>3, <2>4, ReaderMoves
<1>3. CASE LookUp(r)
  <2> DEFINE n == [w EXCEPT !.at = "ask", !.entry = cached[k]]
  <2>1. w.at = "look" /\ OnlyReader(r, n) /\ UNCHANGED <<items, changed, cached>>
    BY <1>3 DEF LookUp, ReaderAt
  <2>2. k \in PageNumbers
    BY <1>1, <2>1 DEF ReaderWell
  <2>3. n \in ReaderRecord /\ n.at = "ask" /\ n.page = k /\ n.entry = cached[k] /\ n.got = w.got /\ n.calm = w.calm
    BY <1>1, <2>2 DEF ReaderRecord
  <2> HIDE DEF n
  <2>4. ReaderWell(n)
    BY <1>1, <2>1, <2>2, <2>3 DEF ReaderWell
  <2> QED
    BY <1>1, <2>1, <2>3, <2>4, ReaderMoves
<1>4. CASE NotModified(r)
  <2>1. /\ w.at = "ask" /\ Conditional(w.entry) /\ w.entry.body = LivePage(k).body /\ OnlyReader(r, Taken(r, w.entry))
        /\ UNCHANGED <<items, changed, cached>>
    BY <1>4 DEF NotModified, ReaderAt
  <2>2. k \in PageNumbers /\ Honest(w.entry, k)
    BY <1>1, <2>1 DEF ReaderWell
  <2>3. ASSUME ~w.entry.next PROVE ~LivePage(k).next
    <3>1. ~(Len(LivePage(k).body) >= PageSize)
      BY <2>1, <2>3 DEF Conditional, MayHaveUnseenNextPage
    <3>2. LivePage(k).next => Len(LivePage(k).body) = PageSize
      BY <1>1, <2>2, LivePages DEF Honest
    <3> QED
      BY <3>1, <3>2, CacheAssumption
  <2>4. Taken(r, w.entry) \in ReaderRecord /\ ReaderWell(Taken(r, w.entry))
    BY <1>1, <2>1, <2>2, <2>3, TakenWell
  <2> QED
    BY <1>1, <2>1, <2>4, ReaderMoves
<1>5. CASE Modified(r)
  <2> DEFINE n == [w EXCEPT !.at = "store", !.entry = LivePage(k)]
  <2>1. w.at = "ask" /\ OnlyReader(r, n) /\ UNCHANGED <<items, changed, cached>>
    BY <1>5 DEF Modified, ReaderAt
  <2>2. k \in PageNumbers
    BY <1>1, <2>1 DEF ReaderWell
  <2>3. LivePage(k) \in Page /\ Honest(LivePage(k), k)
    BY <1>1, <2>2, LivePages
  <2>4. n \in ReaderRecord /\ n.at = "store" /\ n.page = k /\ n.entry = LivePage(k) /\ n.got = w.got /\ n.calm = w.calm
    BY <1>1, <2>3 DEF ReaderRecord
  <2> HIDE DEF n
  <2>5. ReaderWell(n)
    BY <1>1, <2>1, <2>2, <2>3, <2>4 DEF ReaderWell
  <2> QED
    BY <1>1, <2>1, <2>4, <2>5, ReaderMoves
<1>6. CASE Store(r)
  <2>1. /\ w.at = "store" /\ cached' = [cached EXCEPT ![k] = w.entry] /\ OnlyReader(r, Taken(r, w.entry))
        /\ UNCHANGED <<items, changed>>
    BY <1>6 DEF Store, ReaderAt
  <2>2. k \in PageNumbers /\ Honest(w.entry, k) /\ (w.calm => w.entry = LivePage(k))
    BY <1>1, <2>1 DEF ReaderWell
  <2>3. Taken(r, w.entry) \in ReaderRecord /\ ReaderWell(Taken(r, w.entry))
    BY <1>1, <2>1, <2>2, TakenWell
  <2>4. cached' \in [PageNumbers -> Page] /\ \A x \in PageNumbers : cached'[x] = IF x = k THEN w.entry ELSE cached[x]
    BY <1>1, <2>1
  <2>5. \A x \in PageNumbers : Honest(cached'[x], x)
    BY <1>1, <2>2, <2>4
  <2> QED
    BY <2>1, <2>3, <2>4, <2>5, ReaderMoves
<1>7. CASE AbandonRead(r)
  <2>1. OnlyReader(r, NotReading) /\ UNCHANGED <<items, changed, cached>>
    BY <1>7 DEF AbandonRead
  <2> QED
    BY <1>1, <2>1, NotReadingWell, ReaderMoves
<1> QED
  BY <1>2, <1>3, <1>4, <1>5, <1>6, <1>7

LEMMA CacheStays == CacheInv /\ [CacheNext]_cacheVars => CacheInv'
<1> SUFFICES ASSUME CacheInv, [CacheNext]_cacheVars PROVE CacheInv'
  OBVIOUS
<1>1. CASE AddLast \/ AddFirst \/ \E i \in DOMAIN items : EditItem(i) \/ DropItem(i)
  BY <1>1, ListSteps
<1>2. CASE DeleteCache
  <2>1. UNCHANGED <<items, changed, reader>> /\ cached' = [k \in PageNumbers |-> NoPage]
    BY <1>2 DEF DeleteCache
  <2> QED
    BY <2>1, NoPageWell DEF CacheInv, CacheTypes, ReaderWell, LivePage, Honest
<1>3. ASSUME NEW r \in Readers, StartRead(r) \/ LookUp(r) \/ NotModified(r) \/ Modified(r) \/ Store(r) \/ AbandonRead(r)
      PROVE  CacheInv'
  BY <1>3, ReadSteps
<1>4. CASE UNCHANGED cacheVars
  BY <1>4 DEF cacheVars, CacheInv, CacheTypes, ReaderWell, LivePage, Honest
<1> QED
  BY <1>1, <1>2, <1>3, <1>4 DEF CacheNext

\* A read during which the list stands still returns the whole list: for any page size, any number of
\* readers, changes before it and deletions of the file.
THEOREM ReadsAreLive == CacheSpec => []ReadIsLive
<1>1. CacheInv => ReadIsLive
  BY DEF CacheInv, ReaderWell, ReadIsLive, ReaderAt
<1> QED
  BY CacheStart, CacheStays, <1>1, PTL DEF CacheSpec

-----------------------------------------------------------------------------
(* The audits of the shared workspace. *)

FileRecord == [id : Nat, owner : Accounts \cup {NoAccount}, fits : BOOLEAN]
StageLists ==
    {<<>>, <<"admit", "probe", "look">>, <<"probe", "look">>, <<"look">>,
     <<"look", "mend", "admit", "fix", "config">>, <<"mend", "admit", "fix", "config">>, <<"admit", "fix", "config">>,
     <<"fix", "config">>, <<"config">>}
ActRecord == [does : {"nothing", "intake", "preflight", "fixcommand", "write", "report"},
              at : {"none", "scan", "audit", "repair", "admitted", "lock", "recheck", "configure", "verify", "fit", "replace",
                    "undo", "unlink"},
              stages : StageLists, todo : SUBSET Places, found : SUBSET Places, tries : Nat, id : Nat,
              place : Places \cup {"none"}]
BoundRecord == [files : Nat, runs : Nat, unsets : Nat, audits : SUBSET Accounts,
                places : SUBSET (StatePlaces \cup ReportPlaces \cup GitPlaces \cup SourcePlaces)]

SharedTypes ==
    /\ files \in [Places -> FileRecord] /\ grants \in BOOLEAN /\ act \in [Accounts -> ActRecord] /\ bound \in BoundRecord
    /\ unfit \in [Accounts -> SUBSET Places] /\ ungranted \in [Accounts -> BOOLEAN]

\* The plan that an account is on, and how much of it is left.
Course(w) ==
    \/ w.stages = <<>>
    \/ w.does = "intake" /\ w.stages \in {<<"admit", "probe", "look">>, <<"probe", "look">>, <<"look">>}
    \/ w.does = "preflight" /\ w.stages \in {<<"look", "mend", "admit", "fix", "config">>, <<"mend", "admit", "fix", "config">>,
                                             <<"admit", "fix", "config">>, <<"fix", "config">>, <<"config">>}
    \/ w.does = "fixcommand" /\ w.stages \in {<<"fix", "config">>, <<"config">>}

\* What the stages behind it have shown.
SourcesVouched(w) ==
    \/ w.at = "admitted" /\ w.does # "fixcommand"
    \/ w.stages # <<>> /\ w.does = "intake" /\ Head(w.stages) \in {"probe", "look"}
    \/ w.stages # <<>> /\ w.does = "preflight" /\ Head(w.stages) \in {"fix", "config"}
RegisteredVouched(w) ==
    w.at = "admitted" \/ (w.stages # <<>> /\ w.does \in {"preflight", "fixcommand"} /\ Head(w.stages) = "config")

Misfits == {p \in Places : ~files[p].fits}

\* Of the paths that have not fitted since it began, an account has before it or has found all that its
\* stage is about, and none is left of what it vouches for.
CourseWell(w, bad) ==
    /\ Course(w) /\ (w.at \in {"admitted", "none"} => w.stages = <<>>)
    /\ w.at = "admitted" => w.does \in {"intake", "preflight", "fixcommand"}
    /\ w.at \in {"audit", "repair"} =>
           w.stages # <<>> /\ bad \cap Scope(Head(w.stages)) \subseteq w.todo \cup w.found
    /\ w.at = "repair" => w.place \in Places
    /\ SourcesVouched(w) => bad \cap SourcePlaces = {}
    /\ RegisteredVouched(w) => bad \cap Registered = {}
AuditWell(a) ==
    /\ CourseWell(act[a], unfit[a]) /\ unfit[a] \subseteq Misfits /\ (ungranted[a] => ~grants)
    /\ act[a].at = "admitted" /\ act[a].does # "intake" => ~ungranted[a]
AuditInv == SharedTypes /\ \A a \in Accounts : AuditWell(a)

LEMMA StageFacts ==
    /\ Head(<<"admit", "probe", "look">>) = "admit" /\ Tail(<<"admit", "probe", "look">>) = <<"probe", "look">>
    /\ Head(<<"probe", "look">>) = "probe" /\ Tail(<<"probe", "look">>) = <<"look">>
    /\ Head(<<"look">>) = "look" /\ Tail(<<"look">>) = <<>>
    /\ Head(<<"look", "mend", "admit", "fix", "config">>) = "look"
    /\ Tail(<<"look", "mend", "admit", "fix", "config">>) = <<"mend", "admit", "fix", "config">>
    /\ Head(<<"mend", "admit", "fix", "config">>) = "mend"
    /\ Tail(<<"mend", "admit", "fix", "config">>) = <<"admit", "fix", "config">>
    /\ Head(<<"admit", "fix", "config">>) = "admit" /\ Tail(<<"admit", "fix", "config">>) = <<"fix", "config">>
    /\ Head(<<"fix", "config">>) = "fix" /\ Tail(<<"fix", "config">>) = <<"config">>
    /\ Head(<<"config">>) = "config" /\ Tail(<<"config">>) = <<>>
    /\ <<"admit", "probe", "look">> # <<>> /\ <<"probe", "look">> # <<>> /\ <<"look">> # <<>> /\ <<"config">> # <<>>
    /\ <<"look", "mend", "admit", "fix", "config">> # <<>> /\ <<"mend", "admit", "fix", "config">> # <<>>
    /\ <<"admit", "fix", "config">> # <<>> /\ <<"fix", "config">> # <<>>
  OBVIOUS

LEMMA PlacesApart == /\ StatePlaces \subseteq Places /\ ReportPlaces \subseteq Places /\ GitPlaces \subseteq Places
                     /\ SourcePlaces \subseteq Places /\ Registered \subseteq Places /\ \A a \in Accounts : ScratchOf[a] \in Places
                     /\ \A s : Scope(s) \subseteq Places
  BY DEF Places, Registered, Scope

LEMMA IdleWell == Idle \in ActRecord /\ (\A bad : CourseWell(Idle, bad)) /\ Idle.at = "none" /\ Idle.does = "nothing" /\ Idle.stages = <<>>
  BY DEF Idle, ActRecord, StageLists, CourseWell, Course, SourcesVouched, RegisteredVouched

\* What the history says after a step: nothing new has not fitted since, but at a beginning.
LEMMA PlansAreFollowed ==
    ASSUME SharedTypes, SharedTypes', Track, NEW a \in Accounts
    PROVE  /\ unfit'[a] \subseteq Misfits' /\ (ungranted'[a] => ~grants')
           /\ act'[a] = Idle \/ (act'[a].at = "scan" /\ act[a].at \in {"none", "admitted"})
                  \/ (unfit'[a] \subseteq unfit[a] \cap Misfits' /\ (ungranted'[a] => ungranted[a]))
  BY DEF Track, Misfits, SharedTypes

\* A step that is right about what has not fitted.
LEMMA Followed ==
    ASSUME SharedTypes, SharedTypes', Track, NEW a \in Accounts,
           CourseWell(act'[a], unfit[a] \cap Misfits'),
           act'[a].at = "scan" /\ act[a].at \in {"none", "admitted"} => ~SourcesVouched(act'[a]) /\ ~RegisteredVouched(act'[a]),
           act'[a].at = "admitted" /\ act'[a].does # "intake" => grants' \/ ~ungranted[a]
    PROVE  AuditWell(a)'
<1>1. /\ unfit'[a] \subseteq Misfits' /\ (ungranted'[a] => ~grants')
      /\ act'[a] = Idle \/ (act'[a].at = "scan" /\ act[a].at \in {"none", "admitted"})
             \/ (unfit'[a] \subseteq unfit[a] \cap Misfits' /\ (ungranted'[a] => ungranted[a]))
  BY PlansAreFollowed
<1>2. CASE act'[a] = Idle
  BY <1>1, <1>2, IdleWell DEF AuditWell
<1>3. CASE act'[a].at = "scan" /\ act[a].at \in {"none", "admitted"}
  <2>1. CourseWell(act'[a], unfit'[a])
    BY <1>3 DEF CourseWell
  <2> QED
    BY <1>1, <1>3, <2>1 DEF AuditWell
<1>4. CASE unfit'[a] \subseteq unfit[a] \cap Misfits' /\ (ungranted'[a] => ungranted[a])
  <2>1. CourseWell(act'[a], unfit'[a])
    BY <1>4 DEF CourseWell
  <2> QED
    BY <1>1, <1>4, <2>1 DEF AuditWell
<1> QED
  BY <1>1, <1>2, <1>3, <1>4

\* The steps of others leave an account what it was.
LEMMA OthersFollow ==
    ASSUME AuditInv, SharedTypes', Track, NEW a \in Accounts, act'[a] = act[a]
    PROVE  AuditWell(a)'
<1>1. AuditWell(a) /\ SharedTypes /\ act[a] \in ActRecord
  BY DEF AuditInv, SharedTypes
<1>2. CourseWell(act'[a], unfit[a] \cap Misfits')
  BY <1>1 DEF AuditWell, CourseWell
<1>3. act[a].at = "scan" => act[a].at \notin {"none", "admitted"}
  OBVIOUS
<1>4. act[a].at = "admitted" /\ act[a].does # "intake" => ~ungranted[a]
  BY <1>1, Zenon DEF AuditWell
<1> QED
  BY <1>1, <1>2, <1>3, <1>4, Followed

\* One account steps, and its record is right about what has not fitted.
LEMMA AccountFollows ==
    ASSUME AuditInv, Track, NEW a \in Accounts, NEW w \in ActRecord, act' = [act EXCEPT ![a] = w],
           files' \in [Places -> FileRecord], grants' \in BOOLEAN, bound' \in BoundRecord,
           CourseWell(w, unfit[a] \cap Misfits'),
           w.at = "scan" /\ act[a].at \in {"none", "admitted"} => ~SourcesVouched(w) /\ ~RegisteredVouched(w),
           w.at = "admitted" /\ w.does # "intake" => grants' \/ ~ungranted[a]
    PROVE  AuditInv'
<1>1. act'[a] = w /\ \A o \in Accounts \ {a} : act'[o] = act[o]
  BY DEF AuditInv, SharedTypes
<1>2. unfit' \in [Accounts -> SUBSET Places] /\ ungranted' \in [Accounts -> BOOLEAN]
  BY DEF Track, AuditInv, SharedTypes
<1>3. SharedTypes'
  BY <1>2 DEF AuditInv, SharedTypes
<1>4. AuditWell(a)'
  BY <1>1, <1>3, Followed DEF AuditInv
<1>5. \A o \in Accounts \ {a} : AuditWell(o)'
  BY <1>1, <1>3, OthersFollow
<1> QED
  BY <1>3, <1>4, <1>5 DEF AuditInv

LEMMA AccountTypes ==
    ASSUME AuditInv, NEW a \in Accounts
    PROVE  /\ act[a] \in ActRecord /\ CourseWell(act[a], unfit[a]) /\ AuditWell(a) /\ SharedTypes
           /\ act[a].at \in {"none", "scan", "audit", "repair", "admitted", "lock", "recheck", "configure", "verify", "fit",
                             "replace", "undo", "unlink"}
           /\ act[a].stages \in StageLists /\ act[a].todo \in SUBSET Places /\ act[a].found \in SUBSET Places
           /\ act[a].tries \in Nat /\ act[a].id \in Nat /\ act[a].place \in Places \cup {"none"}
           /\ act[a].does \in {"nothing", "intake", "preflight", "fixcommand", "write", "report"}
<1>1. act[a] \in ActRecord /\ AuditWell(a) /\ SharedTypes
  BY DEF AuditInv, SharedTypes
<1> QED
  BY <1>1 DEF ActRecord, AuditWell

LEMMA NoFileType == NoFile \in FileRecord /\ NoFile.fits = TRUE /\ NoFile.id = 0
  BY DEF NoFile, FileRecord

LEMMA PutTypes ==
    ASSUME SharedTypes, NEW p, NEW f \in FileRecord, Put(p, f)
    PROVE  files' \in [Places -> FileRecord]
  BY DEF Put, SharedTypes

LEMMA CreateTypes ==
    ASSUME SharedTypes, NEW p, NEW owner \in Accounts, NEW fits \in BOOLEAN, Create(p, owner, fits)
    PROVE  /\ files' \in [Places -> FileRecord] /\ bound' \in BoundRecord /\ bound.files \in Nat /\ bound.files > 0
           /\ bound'.files = bound.files - 1
<1>1. bound \in BoundRecord /\ bound.files \in Nat /\ bound.files > 0 /\ bound' = [bound EXCEPT !.files = bound.files - 1]
  BY DEF Create, SharedTypes, BoundRecord
<1>2. bound' \in BoundRecord /\ bound'.files = bound.files - 1
  BY <1>1 DEF BoundRecord
<1>3. [id |-> bound.files, owner |-> owner, fits |-> fits] \in FileRecord
  BY <1>1 DEF FileRecord
<1>4. Put(p, [id |-> bound.files, owner |-> owner, fits |-> fits])
  BY DEF Create
<1> QED
  BY <1>1, <1>2, <1>3, <1>4, PutTypes

\* An account is idle again: it answers for nothing.
LEMMA IdleFollows ==
    ASSUME AuditInv, Track, NEW a \in Accounts, Becomes(a, Idle),
           files' \in [Places -> FileRecord], grants' \in BOOLEAN, bound' \in BoundRecord
    PROVE  AuditInv'
<1>1. act' = [act EXCEPT ![a] = Idle] /\ CourseWell(Idle, unfit[a] \cap Misfits')
  BY IdleWell DEF Becomes
<1> QED
  BY <1>1, IdleWell, AccountFollows

\* A step within a stage that audits nothing.
LEMMA StepsFollow ==
    ASSUME AuditInv, Track, NEW a \in Accounts,
           NEW step \in {"lock", "recheck", "configure", "verify", "fit", "replace", "undo", "unlink"}, Steps(a, step),
           files' \in [Places -> FileRecord], grants' \in BOOLEAN, bound' \in BoundRecord
    PROVE  AuditInv'
<1> DEFINE w == [act[a] EXCEPT !.at = step]
<1>1. act' = [act EXCEPT ![a] = w]
  BY DEF Steps, Becomes
<1>2. w \in ActRecord /\ w.at = step /\ w.does = act[a].does /\ w.stages = act[a].stages
  BY AccountTypes DEF ActRecord
<1>3. CourseWell(w, unfit[a] \cap Misfits')
  <2>1. CourseWell(act[a], unfit[a])
    BY AccountTypes
  <2>2. Course(w)
    BY <1>2, <2>1 DEF CourseWell, Course
  <2>3. (SourcesVouched(w) => SourcesVouched(act[a])) /\ (RegisteredVouched(w) => RegisteredVouched(act[a]))
    BY <1>2 DEF SourcesVouched, RegisteredVouched
  <2> QED
    BY <1>2, <2>1, <2>2, <2>3 DEF CourseWell
<1> HIDE DEF w
<1> QED
  BY <1>1, <1>2, <1>3, AccountFollows

\* A file is written, and no plan begins.
LEMMA WorkFollows ==
    ASSUME AuditInv, Track, NEW a \in Accounts, NEW what \in {"write", "report"}, NEW p \in Places, NEW n \in Nat,
           Becomes(a, [Idle EXCEPT !.does = what, !.at = "fit", !.place = p, !.id = n]),
           files' \in [Places -> FileRecord], grants' \in BOOLEAN, bound' \in BoundRecord
    PROVE  AuditInv'
<1> DEFINE w == [Idle EXCEPT !.does = what, !.at = "fit", !.place = p, !.id = n]
<1>1. act' = [act EXCEPT ![a] = w]
  BY DEF Becomes
<1>2. w \in ActRecord /\ w.at = "fit" /\ w.does = what /\ w.stages = <<>>
  BY DEF Idle, ActRecord, StageLists
<1>3. CourseWell(w, unfit[a] \cap Misfits')
  BY <1>2 DEF CourseWell, Course, SourcesVouched, RegisteredVouched
<1> HIDE DEF w
<1> QED
  BY <1>1, <1>2, <1>3, AccountFollows

\* What tools and Git do in the checkout, and the operator to its configuration.
LEMMA WorldFollows ==
    ASSUME AuditInv, Track, act' = act, files' \in [Places -> FileRecord], grants' \in BOOLEAN, bound' \in BoundRecord
    PROVE  AuditInv'
<1>1. unfit' \in [Accounts -> SUBSET Places] /\ ungranted' \in [Accounts -> BOOLEAN]
  BY DEF Track, AuditInv, SharedTypes
<1>2. SharedTypes'
  BY <1>1 DEF AuditInv, SharedTypes
<1>3. \A o \in Accounts : AuditWell(o)'
  BY <1>2, OthersFollow
<1> QED
  BY <1>2, <1>3 DEF AuditInv

\* A plan begins with nothing vouched for.
LEMMA BeginFollows ==
    ASSUME AuditInv, Track, NEW a \in Accounts, NEW what \in DOMAIN Plan, BeginShared(a, what)
    PROVE  AuditInv'
<1> DEFINE w == [Idle EXCEPT !.does = what, !.at = "scan", !.stages = Plan[what]]
<1>1. act' = [act EXCEPT ![a] = w] /\ UNCHANGED <<files, grants>> /\ bound' = [bound EXCEPT !.runs = @ - 1] /\ bound.runs > 0
  BY DEF BeginShared, Becomes
<1>2. bound' \in BoundRecord
  BY <1>1 DEF AuditInv, SharedTypes, BoundRecord
<1>3. \/ what = "intake" /\ Plan[what] = <<"admit", "probe", "look">>
      \/ what = "preflight" /\ Plan[what] = <<"look", "mend", "admit", "fix", "config">>
      \/ what = "fixcommand" /\ Plan[what] = <<"fix", "config">>
  BY DEF Plan
<1>4. w \in ActRecord /\ w.at = "scan" /\ w.does = what /\ w.stages = Plan[what]
  BY <1>3 DEF Idle, ActRecord, StageLists
<1> HIDE DEF w
<1>5. Course(w) /\ ~SourcesVouched(w) /\ ~RegisteredVouched(w)
  BY <1>3, <1>4, StageFacts DEF Course, SourcesVouched, RegisteredVouched
<1>6. CourseWell(w, unfit[a] \cap Misfits')
  BY <1>4, <1>5 DEF CourseWell
<1> QED
  BY <1>1, <1>2, <1>4, <1>5, <1>6, AccountFollows DEF AuditInv, SharedTypes

\* A stage ends: what it was about is vouched for by the next one, and by an admission.
LEMMA NextStageFollows ==
    ASSUME AuditInv, Track, NEW a \in Accounts, act[a].stages # <<>>, AuditStage(a) # "config", act[a].at # "admitted",
           NextStage(a), UNCHANGED <<files, grants, bound>>,
           AuditStage(a) = "admit" => unfit[a] \cap SourcePlaces = {},
           AuditStage(a) = "fix" => unfit[a] \cap Registered = {},
           AuditStage(a) = "look" /\ act[a].does = "intake" => unfit[a] \cap Registered = {}
    PROVE  AuditInv'
<1> DEFINE w == act[a]
           bad == unfit[a] \cap Misfits'
<1>1. /\ w \in ActRecord /\ CourseWell(w, unfit[a]) /\ Course(w) /\ SharedTypes
      /\ AuditStage(a) = Head(w.stages)
  BY AccountTypes DEF CourseWell, AuditStage
<1>2. CASE Tail(w.stages) = <<>>
  <2> DEFINE n == [Idle EXCEPT !.does = w.does, !.at = "admitted"]
  <2>1. act' = [act EXCEPT ![a] = n]
    BY <1>2 DEF NextStage, Admits, Becomes
  <2>2. w.does = "intake" /\ w.stages = <<"look">>
    BY <1>1, <1>2, StageFacts DEF Course
  <2>3. n \in ActRecord /\ n.does = "intake" /\ n.at = "admitted" /\ n.stages = <<>>
    BY <2>2 DEF Idle, ActRecord, StageLists
  <2>4. unfit[a] \cap SourcePlaces = {} /\ unfit[a] \cap Registered = {}
    BY <1>1, <2>2, StageFacts DEF CourseWell, SourcesVouched
  <2>5. CourseWell(n, bad)
    BY <2>3, <2>4 DEF CourseWell, Course
  <2> HIDE DEF n
  <2> QED
    BY <1>1, <2>1, <2>3, <2>5, AccountFollows DEF SharedTypes
<1>3. CASE Tail(w.stages) # <<>>
  <2> DEFINE n == [Idle EXCEPT !.does = w.does, !.at = "scan", !.stages = Tail(w.stages)]
  <2>1. act' = [act EXCEPT ![a] = n]
    BY <1>3 DEF NextStage, Becomes
  <2>2. \/ w.does = "intake" /\ w.stages = <<"admit", "probe", "look">>
        \/ w.does = "intake" /\ w.stages = <<"probe", "look">>
        \/ w.does = "preflight" /\ w.stages = <<"look", "mend", "admit", "fix", "config">>
        \/ w.does = "preflight" /\ w.stages = <<"mend", "admit", "fix", "config">>
        \/ w.does = "preflight" /\ w.stages = <<"admit", "fix", "config">>
        \/ w.does = "preflight" /\ w.stages = <<"fix", "config">>
        \/ w.does = "fixcommand" /\ w.stages = <<"fix", "config">>
    BY <1>1, <1>3, StageFacts DEF Course
  <2>3. Tail(w.stages) \in StageLists
    BY <2>2, StageFacts DEF StageLists
  <2>4. n \in ActRecord /\ n.does = w.does /\ n.at = "scan" /\ n.stages = Tail(w.stages)
    BY <1>1, <2>3 DEF Idle, ActRecord
  <2> HIDE DEF n
  <2>5. Course(n)
    BY <2>2, <2>4, StageFacts DEF Course
  <2>6. SourcesVouched(n) => unfit[a] \cap SourcePlaces = {}
    BY <1>1, <2>2, <2>4, StageFacts DEF SourcesVouched, CourseWell
  <2>7. RegisteredVouched(n) => unfit[a] \cap Registered = {}
    BY <1>1, <2>2, <2>4, StageFacts DEF RegisteredVouched
  <2>8. CourseWell(n, bad)
    BY <2>4, <2>5, <2>6, <2>7 DEF CourseWell
  <2>9. act[a].at \notin {"none", "admitted"}
    BY <1>1 DEF CourseWell
  <2> QED
    BY <1>1, <2>1, <2>4, <2>8, <2>9, AccountFollows DEF SharedTypes
<1> QED
  BY <1>2, <1>3

\* A step within an audit.
LEMMA AuditFollows ==
    ASSUME AuditInv, Track, NEW a \in Accounts, NEW w \in ActRecord, act' = [act EXCEPT ![a] = w],
           files' \in [Places -> FileRecord], UNCHANGED <<grants, bound>>,
           act[a].stages # <<>>, act[a].at \in {"scan", "audit", "repair"},
           w.does = act[a].does, w.stages = act[a].stages, w.at \in {"scan", "audit", "repair"},
           w.at \in {"audit", "repair"} =>
               unfit[a] \cap Misfits' \cap Scope(AuditStage(a)) \subseteq w.todo \cup w.found,
           w.at = "repair" => w.place \in Places
    PROVE  AuditInv'
<1>1. CourseWell(act[a], unfit[a]) /\ SharedTypes
  BY AccountTypes
<1>2. Course(w)
  BY <1>1 DEF CourseWell, Course
<1>3. (SourcesVouched(w) => SourcesVouched(act[a])) /\ (RegisteredVouched(w) => RegisteredVouched(act[a]))
  BY DEF SourcesVouched, RegisteredVouched
<1>4. CourseWell(w, unfit[a] \cap Misfits')
  BY <1>1, <1>2, <1>3 DEF CourseWell, AuditStage
<1> QED
  BY <1>1, <1>4, AccountFollows DEF SharedTypes

AuditStages == {"look", "fix", "admit", "mend"}

LEMMA InStageFacts ==
    ASSUME AuditInv, NEW a \in Accounts, NEW stages, NEW step, InStage(a, stages, step)
    PROVE  act[a].stages # <<>> /\ AuditStage(a) \in stages /\ act[a].at = step
  BY DEF InStage

LEMMA ScanFollows ==
    ASSUME AuditInv, Track, NEW a \in Accounts, Scan(a)
    PROVE  AuditInv'
<1> DEFINE seen == {p \in Scope(AuditStage(a)) : There(p)}
           w == [act[a] EXCEPT !.at = "audit", !.todo = seen, !.found = {}]
<1>1. /\ act' = [act EXCEPT ![a] = w] /\ UNCHANGED <<files, grants, bound>>
      /\ act[a].stages # <<>> /\ act[a].at = "scan"
  BY DEF Scan, Becomes, InStage
<1>2. seen \subseteq Places
  BY PlacesApart
<1>3. \A p \in Misfits' \cap Scope(AuditStage(a)) : p \in seen
  BY <1>1, NoFileType DEF Misfits, There
<1> HIDE DEF seen
<1>4. /\ w \in ActRecord /\ w.at = "audit" /\ w.todo = seen /\ w.found = {} /\ w.does = act[a].does /\ w.stages = act[a].stages
  BY <1>2, AccountTypes DEF ActRecord
<1> HIDE DEF w
<1>5. files' \in [Places -> FileRecord]
  BY <1>1 DEF AuditInv, SharedTypes
<1> QED
  BY <1>1, <1>3, <1>4, <1>5, AuditFollows

\* A path that is done with is not one that does not fit, or is found.
LEMMA VanishedFollows ==
    ASSUME AuditInv, Track, NEW a \in Accounts, NEW p \in Places, p \notin Misfits', NEW w \in ActRecord,
           act' = [act EXCEPT ![a] = w], files' \in [Places -> FileRecord], UNCHANGED <<grants, bound>>, Misfits' \subseteq Misfits,
           act[a].stages # <<>>, act[a].at \in {"audit", "repair"},
           w.does = act[a].does, w.stages = act[a].stages,
           w.at = "scan" \/ (w.at = "audit" /\ w.found = act[a].found /\ w.todo = act[a].todo \ {p})
    PROVE  AuditInv'
<1>1. unfit[a] \cap Scope(AuditStage(a)) \subseteq act[a].todo \cup act[a].found
  BY AccountTypes DEF CourseWell, AuditStage
<1> QED
  BY <1>1, AuditFollows

LEMMA VanishedRecord ==
    ASSUME AuditInv, NEW a \in Accounts, NEW p
    PROVE  LET w == Vanished(a, p) IN
           /\ w \in ActRecord /\ w.does = act[a].does /\ w.stages = act[a].stages /\ w.place = act[a].place
           /\ w.at = "scan" \/ (w.at = act[a].at /\ w.found = act[a].found /\ w.todo = act[a].todo \ {p})
<1> DEFINE again == [act[a] EXCEPT !.at = "scan", !.tries = act[a].tries + 1]
           less == [act[a] EXCEPT !.todo = act[a].todo \ {p}]
<1>1. Vanished(a, p) = again \/ Vanished(a, p) = less
  BY DEF Vanished
<1>2. again \in ActRecord /\ again.does = act[a].does /\ again.stages = act[a].stages /\ again.at = "scan" /\ again.place = act[a].place
  <2>1. act[a] \in ActRecord /\ act[a].tries + 1 \in Nat
    BY AccountTypes
  <2>2. PICK n \in Nat : n = act[a].tries + 1
    BY <2>1
  <2>3. again = [act[a] EXCEPT !.at = "scan", !.tries = n]
    BY <2>2
  <2> HIDE DEF again
  <2> QED
    BY <2>1, <2>3 DEF ActRecord
<1>3. /\ less \in ActRecord /\ less.does = act[a].does /\ less.stages = act[a].stages /\ less.at = act[a].at
      /\ less.found = act[a].found /\ less.todo = act[a].todo \ {p} /\ less.place = act[a].place
  BY AccountTypes DEF ActRecord
<1> HIDE DEF again, less
<1> QED
  BY <1>1, <1>2, <1>3

LEMMA InspectFollows ==
    ASSUME AuditInv, Track, NEW a \in Accounts, NEW p \in Places, Inspect(a, p)
    PROVE  AuditInv'
<1>1. /\ UNCHANGED <<files, grants, bound>> /\ act[a].stages # <<>> /\ act[a].at = "audit" /\ p \in act[a].todo
  BY DEF Inspect, InStage
<1>2. Misfits' = Misfits /\ files' \in [Places -> FileRecord]
  BY <1>1 DEF Misfits, AuditInv, SharedTypes
<1>3. unfit[a] \cap Scope(AuditStage(a)) \subseteq act[a].todo \cup act[a].found
  BY <1>1, AccountTypes DEF CourseWell, AuditStage
<1>4. CASE ~There(p) /\ Becomes(a, Vanished(a, p))
  <2>1. p \notin Misfits'
    BY <1>2, <1>4, NoFileType DEF Misfits, There
  <2>2. act' = [act EXCEPT ![a] = Vanished(a, p)]
    BY <1>4 DEF Becomes
  <2>3. PICK w : w = Vanished(a, p)
    OBVIOUS
  <2>4. /\ w \in ActRecord /\ w.does = act[a].does /\ w.stages = act[a].stages
        /\ w.at = "scan" \/ (w.at = "audit" /\ w.found = act[a].found /\ w.todo = act[a].todo \ {p})
    BY <1>1, <2>3, VanishedRecord
  <2> QED
    BY <1>1, <1>2, <2>1, <2>2, <2>3, <2>4, VanishedFollows
<1>5. CASE There(p) /\ files[p].fits /\ Becomes(a, Seen(a, p))
  <2> DEFINE w == [act[a] EXCEPT !.todo = @ \ {p}]
  <2>1. p \notin Misfits'
    BY <1>2, <1>5 DEF Misfits
  <2>2. act' = [act EXCEPT ![a] = w]
    BY <1>5 DEF Becomes, Seen
  <2>3. /\ w \in ActRecord /\ w.does = act[a].does /\ w.stages = act[a].stages /\ w.at = act[a].at /\ w.found = act[a].found
        /\ w.todo = act[a].todo \ {p}
    BY AccountTypes DEF ActRecord
  <2> HIDE DEF w
  <2> QED
    BY <1>1, <1>2, <2>1, <2>2, <2>3, VanishedFollows
<1>6. CASE Becomes(a, Reported(a, p))
  <2> DEFINE w == [act[a] EXCEPT !.todo = @ \ {p}, !.found = @ \cup {p}]
  <2>1. act' = [act EXCEPT ![a] = w]
    BY <1>6 DEF Becomes, Reported
  <2>2. /\ w \in ActRecord /\ w.does = act[a].does /\ w.stages = act[a].stages /\ w.at = act[a].at
        /\ w.found = act[a].found \cup {p} /\ w.todo = act[a].todo \ {p}
    BY AccountTypes DEF ActRecord
  <2> HIDE DEF w
  <2> QED
    BY <1>1, <1>2, <1>3, <2>1, <2>2, AuditFollows
<1>7. CASE Becomes(a, [act[a] EXCEPT !.at = "repair", !.place = p, !.id = files[p].id])
  <2> DEFINE w == [act[a] EXCEPT !.at = "repair", !.place = p, !.id = files[p].id]
  <2>1. act' = [act EXCEPT ![a] = w]
    BY <1>7 DEF Becomes
  <2>2. files[p].id \in Nat
    BY DEF AuditInv, SharedTypes, FileRecord
  <2>3. /\ w \in ActRecord /\ w.does = act[a].does /\ w.stages = act[a].stages /\ w.at = "repair" /\ w.place = p
        /\ w.found = act[a].found /\ w.todo = act[a].todo
    BY <2>2, AccountTypes DEF ActRecord
  <2> HIDE DEF w
  <2> QED
    BY <1>1, <1>2, <1>3, <2>1, <2>3, AuditFollows
<1> QED
  BY <1>4, <1>5, <1>6, <1>7 DEF Inspect

LEMMA RepairFollows ==
    ASSUME AuditInv, Track, NEW a \in Accounts, Repair(a)
    PROVE  AuditInv'
<1>0. PICK p : p = act[a].place
  OBVIOUS
<1> DEFINE back(state) == [state EXCEPT !.at = IF @ = "scan" THEN @ ELSE "audit", !.place = "none", !.id = 0]
<1>1. /\ UNCHANGED <<grants, bound>> /\ act[a].stages # <<>> /\ act[a].at = "repair"
  BY DEF Repair, InStage
<1>2. p \in Places /\ unfit[a] \cap Scope(AuditStage(a)) \subseteq act[a].todo \cup act[a].found
  BY <1>0, <1>1, AccountTypes DEF CourseWell, AuditStage
<1>3. files \in [Places -> FileRecord] /\ files[p] \in FileRecord /\ grants \in BOOLEAN /\ bound \in BoundRecord
  BY <1>2 DEF AuditInv, SharedTypes
<1>4. ASSUME NEW state \in ActRecord, state.at \in {"scan", "repair"}
      PROVE  /\ back(state) \in ActRecord /\ back(state).does = state.does /\ back(state).stages = state.stages
             /\ back(state).at = (IF state.at = "scan" THEN "scan" ELSE "audit")
             /\ back(state).todo = state.todo /\ back(state).found = state.found
  BY <1>4 DEF ActRecord
<1>5. CASE ~There(p) /\ Becomes(a, back(Vanished(a, p))) /\ UNCHANGED files
  <2>1. p \notin Misfits' /\ Misfits' = Misfits
    BY <1>5, NoFileType DEF Misfits, There
  <2>2. PICK v, w : v = Vanished(a, p) /\ w = back(v)
    OBVIOUS
  <2>3. /\ v \in ActRecord /\ v.does = act[a].does /\ v.stages = act[a].stages
        /\ v.at = "scan" \/ (v.at = "repair" /\ v.found = act[a].found /\ v.todo = act[a].todo \ {p})
    BY <1>1, <2>2, VanishedRecord
  <2>4. /\ w \in ActRecord /\ w.does = act[a].does /\ w.stages = act[a].stages
        /\ w.at = "scan" \/ (w.at = "audit" /\ w.found = act[a].found /\ w.todo = act[a].todo \ {p})
    BY <1>4, <2>2, <2>3
  <2>5. act' = [act EXCEPT ![a] = w]
    BY <1>5, <2>2 DEF Becomes
  <2> HIDE DEF back
  <2> QED
    BY <1>1, <1>2, <1>3, <1>5, <2>1, <2>4, <2>5, VanishedFollows
<1>6. CASE Refuses(a) /\ UNCHANGED files
  BY <1>1, <1>3, <1>6, IdleFollows DEF Refuses
<1>7. CASE Becomes(a, back(Reported(a, p))) /\ UNCHANGED files
  <2>1. PICK v, w : v = Reported(a, p) /\ w = back(v)
    OBVIOUS
  <2>2. /\ v \in ActRecord /\ v.does = act[a].does /\ v.stages = act[a].stages /\ v.at = "repair"
        /\ v.found = act[a].found \cup {p} /\ v.todo = act[a].todo \ {p}
    BY <1>1, <1>2, <2>1, AccountTypes DEF Reported, ActRecord
  <2>3. /\ w \in ActRecord /\ w.does = act[a].does /\ w.stages = act[a].stages /\ w.at = "audit"
        /\ w.found = act[a].found \cup {p} /\ w.todo = act[a].todo \ {p}
    BY <1>4, <2>1, <2>2
  <2>4. act' = [act EXCEPT ![a] = w] /\ Misfits' = Misfits
    BY <1>7, <2>1 DEF Becomes, Misfits
  <2> HIDE DEF back
  <2> QED
    BY <1>1, <1>2, <1>3, <1>7, <2>3, <2>4, AuditFollows
<1>8. CASE Put(p, [files[p] EXCEPT !.fits = TRUE]) /\ Becomes(a, back(Seen(a, p)))
  <2>0. PICK f : f = [files[p] EXCEPT !.fits = TRUE]
    OBVIOUS
  <2>1. f \in FileRecord /\ f.fits = TRUE
    BY <1>3, <2>0 DEF FileRecord
  <2>2. files' = [files EXCEPT ![p] = f] /\ files' \in [Places -> FileRecord]
    BY <1>3, <1>8, <2>0, <2>1 DEF Put
  <2>3. p \notin Misfits' /\ Misfits' \subseteq Misfits
    BY <1>3, <2>1, <2>2 DEF Misfits
  <2>4. PICK v, w : v = Seen(a, p) /\ w = back(v)
    OBVIOUS
  <2>5. /\ v \in ActRecord /\ v.does = act[a].does /\ v.stages = act[a].stages /\ v.at = "repair"
        /\ v.found = act[a].found /\ v.todo = act[a].todo \ {p}
    BY <1>1, <2>4, AccountTypes DEF Seen, ActRecord
  <2>6. /\ w \in ActRecord /\ w.does = act[a].does /\ w.stages = act[a].stages /\ w.at = "audit"
        /\ w.found = act[a].found /\ w.todo = act[a].todo \ {p}
    BY <1>4, <2>4, <2>5
  <2>7. act' = [act EXCEPT ![a] = w]
    BY <1>8, <2>4 DEF Becomes
  <2> HIDE DEF back
  <2> QED
    BY <1>1, <1>2, <2>2, <2>3, <2>6, <2>7, VanishedFollows
<1> QED
  BY <1>0, <1>5, <1>6, <1>7, <1>8 DEF Repair

LEMMA AuditStart == SharedInit => AuditInv
<1> SUFFICES ASSUME SharedInit PROVE AuditInv
  OBVIOUS
<1>1. SharedTypes
  <2>1. files \in [Places -> FileRecord]
    BY NoFileType DEF SharedInit
  <2>2. act \in [Accounts -> ActRecord]
    BY IdleWell DEF SharedInit
  <2>3. bound \in BoundRecord
    BY SharedAssumption DEF SharedInit, BoundRecord
  <2> QED
    BY <2>1, <2>2, <2>3 DEF SharedInit, SharedTypes
<1>2. \A a \in Accounts : AuditWell(a)
  BY IdleWell DEF SharedInit, AuditWell
<1> QED
  BY <1>1, <1>2 DEF AuditInv

LEMMA EndFollows ==
    ASSUME AuditInv, Track, NEW a \in Accounts, EndStage(a)
    PROVE  AuditInv'
<1>1. /\ UNCHANGED <<files, grants, bound>> /\ act[a].stages # <<>> /\ act[a].at = "audit" /\ act[a].todo = {}
      /\ AuditStage(a) \in {"look", "fix", "admit", "mend"}
      /\ (Tolerable(a) /\ NextStage(a)) \/ Refuses(a)
  BY DEF EndStage, InStage
<1>2. unfit[a] \cap Scope(AuditStage(a)) \subseteq act[a].found
  BY <1>1, AccountTypes DEF CourseWell, AuditStage
<1>3. CASE Refuses(a)
  <2>1. files' \in [Places -> FileRecord] /\ grants' \in BOOLEAN /\ bound' \in BoundRecord
    BY <1>1 DEF AuditInv, SharedTypes
  <2> QED
    BY <1>3, <2>1, IdleFollows DEF Refuses
<1>4. CASE Tolerable(a) /\ NextStage(a)
  <2>1. act[a].found = {} \/ (act[a].does = "preflight" /\ AuditStage(a) = "look")
    BY <1>4 DEF Tolerable
  <2>2. AuditStage(a) = "admit" => unfit[a] \cap SourcePlaces = {}
    BY <1>2, <2>1 DEF Scope
  <2>3. AuditStage(a) = "fix" => unfit[a] \cap Registered = {}
    BY <1>2, <2>1 DEF Scope
  <2>4. AuditStage(a) = "look" /\ act[a].does = "intake" => unfit[a] \cap Registered = {}
    BY <1>2, <2>1 DEF Scope
  <2>5. AuditStage(a) # "config" /\ act[a].at # "admitted"
    BY <1>1
  <2> QED
    BY <1>1, <1>4, <2>2, <2>3, <2>4, <2>5, NextStageFollows
<1> QED
  BY <1>1, <1>3, <1>4

LEMMA ProbeFollows ==
    ASSUME AuditInv, Track, NEW a \in Accounts, Probe(a)
    PROVE  AuditInv'
<1>1. /\ UNCHANGED <<files, grants, bound>> /\ act[a].stages # <<>> /\ act[a].at = "scan" /\ AuditStage(a) = "probe"
      /\ NextStage(a) \/ Refuses(a)
  BY DEF Probe, InStage
<1>2. CASE Refuses(a)
  <2>1. files' \in [Places -> FileRecord] /\ grants' \in BOOLEAN /\ bound' \in BoundRecord
    BY <1>1 DEF AuditInv, SharedTypes
  <2> QED
    BY <1>2, <2>1, IdleFollows DEF Refuses
<1>3. CASE NextStage(a)
  BY <1>1, <1>3, NextStageFollows
<1> QED
  BY <1>1, <1>2, <1>3

\* The last stage ends with a Git configuration that gives the group its access.
LEMMA ConfigFollows ==
    ASSUME AuditInv, Track, NEW a \in Accounts, act[a].stages # <<>>, AuditStage(a) = "config",
           Admits(a), UNCHANGED <<files, grants, bound>>, grants
    PROVE  AuditInv'
<1> DEFINE w == act[a]
           n == [Idle EXCEPT !.does = w.does, !.at = "admitted"]
<1>1. w \in ActRecord /\ CourseWell(w, unfit[a]) /\ Course(w) /\ SharedTypes /\ Head(w.stages) = "config" /\ w.stages # <<>>
  BY AccountTypes DEF CourseWell, AuditStage
<1>2. w.does \in {"preflight", "fixcommand"}
  BY <1>1, StageFacts DEF Course
<1>3. act' = [act EXCEPT ![a] = n]
  BY DEF Admits, Becomes
<1>4. n \in ActRecord /\ n.does = w.does /\ n.at = "admitted" /\ n.stages = <<>>
  BY <1>2 DEF Idle, ActRecord, StageLists
<1>5. unfit[a] \cap Registered = {} /\ (w.does = "preflight" => unfit[a] \cap SourcePlaces = {})
  BY <1>1, <1>2 DEF CourseWell, SourcesVouched, RegisteredVouched
<1> HIDE DEF n
<1>6. CourseWell(n, unfit[a] \cap Misfits')
  BY <1>2, <1>4, <1>5 DEF CourseWell, Course, SourcesVouched, RegisteredVouched
<1> QED
  BY <1>1, <1>3, <1>4, <1>6, AccountFollows DEF SharedTypes

LEMMA ConfigStepsFollow ==
    ASSUME AuditInv, Track, NEW a \in Accounts,
           CheckConfig(a) \/ LockForRepair(a) \/ Recheck(a) \/ Configure(a) \/ ConfigTook(a)
    PROVE  AuditInv'
<1>1. /\ UNCHANGED <<files, bound>> /\ act[a].stages # <<>> /\ AuditStage(a) = "config" /\ grants' \in {grants, TRUE}
  BY DEF CheckConfig, LockForRepair, Recheck, Configure, ConfigTook, InStage
<1>2. files' \in [Places -> FileRecord] /\ grants' \in BOOLEAN /\ bound' \in BoundRecord
  BY <1>1 DEF AuditInv, SharedTypes
<1>3. \/ grants /\ Admits(a) /\ UNCHANGED grants
      \/ Refuses(a)
      \/ \E step \in {"lock", "recheck", "configure", "verify"} : Steps(a, step)
  BY DEF CheckConfig, LockForRepair, Recheck, Configure, ConfigTook
<1>4. CASE grants /\ Admits(a) /\ UNCHANGED grants
  BY <1>1, <1>4, ConfigFollows
<1>5. CASE Refuses(a)
  BY <1>2, <1>5, IdleFollows DEF Refuses
<1>6. CASE \E step \in {"lock", "recheck", "configure", "verify"} : Steps(a, step)
  BY <1>2, <1>6, StepsFollow
<1> QED
  BY <1>3, <1>4, <1>5, <1>6

LEMMA WritesFollow ==
    ASSUME AuditInv, Track, NEW a \in Accounts,
           \/ \E p \in StatePlaces : WriteScratch(a, p)
           \/ FitScratch(a) \/ ReplaceState(a) \/ VerifyWrite(a) \/ FailWrite(a)
    PROVE  AuditInv'
<1>0. SharedTypes /\ files \in [Places -> FileRecord] /\ grants \in BOOLEAN /\ bound \in BoundRecord /\ ScratchOf[a] \in Places
      /\ files[ScratchOf[a]] \in FileRecord
  BY PlacesApart DEF AuditInv, SharedTypes
<1>1. CASE \E p \in StatePlaces : WriteScratch(a, p)
  <2>1. PICK p \in StatePlaces : WriteScratch(a, p)
    BY <1>1
  <2>2. /\ Create(ScratchOf[a], a, FALSE) /\ UNCHANGED grants
        /\ Becomes(a, [Idle EXCEPT !.does = "write", !.at = "fit", !.place = p, !.id = bound.files])
    BY <2>1 DEF WriteScratch
  <2>3. files' \in [Places -> FileRecord] /\ bound' \in BoundRecord /\ bound.files \in Nat
    BY <1>0, <2>2, CreateTypes
  <2>4. p \in Places
    BY PlacesApart
  <2> QED
    BY <1>0, <2>2, <2>3, <2>4, WorkFollows
<1>2. CASE FitScratch(a)
  <2>1. /\ Steps(a, "replace") /\ UNCHANGED <<grants, bound>> /\ Put(ScratchOf[a], [files[ScratchOf[a]] EXCEPT !.fits = TRUE])
    BY <1>2 DEF FitScratch
  <2>2. [files[ScratchOf[a]] EXCEPT !.fits = TRUE] \in FileRecord
    BY <1>0 DEF FileRecord
  <2>3. files' \in [Places -> FileRecord]
    BY <1>0, <2>1, <2>2, PutTypes
  <2> QED
    BY <1>0, <2>1, <2>3, StepsFollow
<1>3. CASE ReplaceState(a)
  <2>1. /\ Steps(a, "verify") /\ UNCHANGED <<grants, bound>>
        /\ files' = [files EXCEPT ![act[a].place] = files[ScratchOf[a]], ![ScratchOf[a]] = NoFile]
    BY <1>3 DEF ReplaceState
  <2>2. files' \in [Places -> FileRecord]
    BY <1>0, <2>1, NoFileType
  <2> QED
    BY <1>0, <2>1, <2>2, StepsFollow
<1>4. CASE VerifyWrite(a)
  BY <1>0, <1>4, IdleFollows DEF VerifyWrite
<1>5. CASE FailWrite(a)
  BY <1>0, <1>5, IdleFollows, PutTypes, NoFileType DEF FailWrite
<1> QED
  BY <1>1, <1>2, <1>3, <1>4, <1>5

LEMMA ReportsFollow ==
    ASSUME AuditInv, Track, NEW a \in Accounts,
           \/ \E p \in ReportPlaces : CreateReport(a, p)
           \/ FitReport(a) \/ VerifyReport(a) \/ UndoReport(a) \/ UnlinkReport(a)
    PROVE  AuditInv'
<1>0. SharedTypes /\ files \in [Places -> FileRecord] /\ grants \in BOOLEAN /\ bound \in BoundRecord
  BY DEF AuditInv, SharedTypes
<1>1. CASE \E p \in ReportPlaces : CreateReport(a, p)
  <2>1. PICK p \in ReportPlaces, fits \in BOOLEAN :
            /\ Create(p, a, fits) /\ UNCHANGED grants
            /\ Becomes(a, [Idle EXCEPT !.does = "report", !.at = "fit", !.place = p, !.id = bound.files])
    BY <1>1 DEF CreateReport
  <2>2. files' \in [Places -> FileRecord] /\ bound' \in BoundRecord /\ bound.files \in Nat
    BY <1>0, <2>1, CreateTypes
  <2>3. p \in Places
    BY PlacesApart
  <2> QED
    BY <1>0, <2>1, <2>2, <2>3, WorkFollows
<1>2. CASE FitReport(a)
  <2>1. /\ UNCHANGED <<grants, bound>> /\ (Steps(a, "verify") \/ Steps(a, "undo"))
        /\ UNCHANGED files \/ Put(act[a].place, [files[act[a].place] EXCEPT !.fits = TRUE])
    BY <1>2 DEF FitReport
  <2>2. files' \in [Places -> FileRecord]
    <3>1. CASE act[a].place \in Places
      <4>1. [files[act[a].place] EXCEPT !.fits = TRUE] \in FileRecord
        BY <1>0, <3>1 DEF FileRecord
      <4> QED
        BY <1>0, <2>1, <4>1, PutTypes
    <3>2. CASE act[a].place \notin Places
      <4>1. files' = files
        BY <1>0, <2>1, <3>2 DEF Put
      <4> QED
        BY <1>0, <4>1
    <3> QED
      BY <3>1, <3>2
  <2> QED
    BY <1>0, <2>1, <2>2, StepsFollow
<1>3. CASE VerifyReport(a)
  <2>1. /\ UNCHANGED <<files, grants, bound>> /\ (Steps(a, "undo") \/ Becomes(a, Idle))
    BY <1>3 DEF VerifyReport
  <2> QED
    BY <1>0, <2>1, StepsFollow, IdleFollows
<1>4. CASE UndoReport(a)
  <2>1. /\ UNCHANGED <<files, grants, bound>> /\ (Steps(a, "unlink") \/ Becomes(a, Idle))
    BY <1>4 DEF UndoReport
  <2> QED
    BY <1>0, <2>1, StepsFollow, IdleFollows
<1>5. CASE UnlinkReport(a)
  BY <1>0, <1>5, IdleFollows, PutTypes, NoFileType DEF UnlinkReport
<1> QED
  BY <1>1, <1>2, <1>3, <1>4, <1>5

LEMMA OutsideFollows ==
    ASSUME AuditInv, Track,
           \/ \E a \in Accounts, p \in StatePlaces \cup SourcePlaces : RawWrite(a, p)
           \/ \E a \in Accounts, p \in GitPlaces : GitCreates(a, p)
           \/ \E p \in GitPlaces : GitDrops(p)
           \/ UnsetConfig
    PROVE  AuditInv'
<1>0. SharedTypes /\ files \in [Places -> FileRecord] /\ grants \in BOOLEAN /\ bound \in BoundRecord
  BY DEF AuditInv, SharedTypes
<1>1. CASE \E a \in Accounts, p \in StatePlaces \cup SourcePlaces : RawWrite(a, p)
  <2>1. PICK a \in Accounts, p \in StatePlaces \cup SourcePlaces : Create(p, a, FALSE) /\ UNCHANGED <<grants, act>>
    BY <1>1 DEF RawWrite
  <2> QED
    BY <1>0, <2>1, CreateTypes, WorldFollows
<1>2. CASE \E a \in Accounts, p \in GitPlaces : GitCreates(a, p)
  <2>1. PICK a \in Accounts, p \in GitPlaces : GitCreates(a, p)
    BY <1>2
  <2>2. PICK fits \in {TRUE, grants} : Create(p, a, fits) /\ UNCHANGED <<grants, act>>
    BY <2>1 DEF GitCreates
  <2>3. fits \in BOOLEAN
    BY <1>0, <2>2
  <2> QED
    BY <1>0, <2>2, <2>3, CreateTypes, WorldFollows
<1>3. CASE \E p \in GitPlaces : GitDrops(p)
  BY <1>0, <1>3, PutTypes, NoFileType, WorldFollows DEF GitDrops
<1>4. CASE UnsetConfig
  <2>1. /\ grants' = FALSE /\ UNCHANGED <<files, act>> /\ bound.unsets \in Nat /\ bound.unsets > 0
        /\ bound' = [bound EXCEPT !.unsets = bound.unsets - 1]
    BY <1>0, <1>4 DEF UnsetConfig, BoundRecord
  <2>2. PICK n \in Nat : n = bound.unsets - 1
    BY <2>1
  <2>3. bound' \in BoundRecord
    BY <1>0, <2>1, <2>2 DEF BoundRecord
  <2> QED
    BY <1>0, <2>1, <2>3, WorldFollows
<1> QED
  BY <1>1, <1>2, <1>3, <1>4

LEMMA AuditStays == AuditInv /\ [SharedNext]_sharedVars => AuditInv'
<1> SUFFICES ASSUME AuditInv, [SharedNext]_sharedVars PROVE AuditInv'
  OBVIOUS
<1>1. CASE UNCHANGED sharedVars
  BY <1>1 DEF sharedVars, AuditInv, SharedTypes, AuditWell, Misfits
<1>2. CASE SharedNext
  <2>1. Track
    BY <1>2 DEF SharedNext
  <2>2. CASE \E a \in Accounts, what \in DOMAIN Plan : BeginShared(a, what)
    BY <2>1, <2>2, BeginFollows
  <2>3. CASE \E a \in Accounts : Probe(a) \/ Scan(a) \/ Repair(a) \/ EndStage(a)
    BY <2>1, <2>3, ProbeFollows, ScanFollows, RepairFollows, EndFollows
  <2>4. CASE \E a \in Accounts : CheckConfig(a) \/ LockForRepair(a) \/ Recheck(a) \/ Configure(a) \/ ConfigTook(a)
    BY <2>1, <2>4, ConfigStepsFollow
  <2>5. CASE \E a \in Accounts : \/ \E p \in StatePlaces : WriteScratch(a, p)
                                 \/ FitScratch(a) \/ ReplaceState(a) \/ VerifyWrite(a) \/ FailWrite(a)
    BY <2>1, <2>5, WritesFollow
  <2>6. CASE \E a \in Accounts : \/ \E p \in ReportPlaces : CreateReport(a, p)
                                 \/ FitReport(a) \/ VerifyReport(a) \/ UndoReport(a) \/ UnlinkReport(a)
    BY <2>1, <2>6, ReportsFollow
  <2>7. CASE \E a \in Accounts : KillShared(a)
    <3>1. files' \in [Places -> FileRecord] /\ grants' \in BOOLEAN /\ bound' \in BoundRecord
      BY <2>7 DEF KillShared, AuditInv, SharedTypes
    <3> QED
      BY <2>1, <2>7, <3>1, IdleFollows DEF KillShared, Refuses
  <2>8. CASE \E a \in Accounts, p \in Places : Inspect(a, p)
    BY <2>1, <2>8, InspectFollows
  <2>9. CASE \/ \E a \in Accounts, p \in StatePlaces \cup SourcePlaces : RawWrite(a, p)
             \/ \E a \in Accounts, p \in GitPlaces : GitCreates(a, p)
             \/ \E p \in GitPlaces : GitDrops(p)
             \/ UnsetConfig
    BY <2>1, <2>9, OutsideFollows
  <2> QED
    BY <1>2, <2>2, <2>3, <2>4, <2>5, <2>6, <2>7, <2>8, <2>9 DEF SharedNext
<1> QED
  BY <1>1, <1>2

-----------------------------------------------------------------------------
(* The reports. *)

\* Of the reports that were published and of those that are being written, no two are the same file, and
\* what is about to be unlinked is the account's own.
ReportInv ==
    /\ \A a \in Accounts : act[a].does = "write" => act[a].place \in StatePlaces
    /\ \A a \in Accounts : act[a].does = "report" =>
           /\ act[a].place \in ReportPlaces /\ act[a].id > bound.files
           /\ act[a].at = "unlink" => files[act[a].place].id = act[a].id
    /\ \A a, b \in Accounts : a # b /\ act[a].does = "report" /\ act[b].does = "report" => act[a].id # act[b].id
    /\ \A k \in keptReports :
           /\ k.place \in ReportPlaces /\ k.id \in Nat /\ k.id > bound.files /\ files[k.place].id = k.id
           /\ \A a \in Accounts : act[a].does = "report" => act[a].id # k.id

KeepsReport(o) ==
    \/ act'[o].does \notin {"write", "report"}
    \/ act'[o].does = "write" /\ act'[o].place \in StatePlaces
    \/ /\ act[o].does = "report" /\ act'[o].does = "report" /\ act'[o].place = act[o].place /\ act'[o].id = act[o].id
       /\ act'[o].at = "unlink" => files[act[o].place].id = act[o].id

\* A step that leaves the files of the reports alone.
LEMMA ReportsKept ==
    ASSUME AuditInv, ReportInv, keptReports' = keptReports, bound'.files \in Nat, bound'.files <= bound.files,
           \A p \in ReportPlaces : files'[p].id = files[p].id,
           \A o \in Accounts : KeepsReport(o)
    PROVE  ReportInv'
<1>0. bound.files \in Nat /\ \A a \in Accounts : act[a].id \in Nat
  BY DEF AuditInv, SharedTypes, BoundRecord, ActRecord
<1>1. \A a \in Accounts : act'[a].does = "write" => act'[a].place \in StatePlaces
  BY DEF KeepsReport
<1>2. \A a \in Accounts : act'[a].does = "report" =>
          act[a].does = "report" /\ act'[a].id = act[a].id /\ act'[a].place = act[a].place
  BY DEF KeepsReport
<1>3. \A a \in Accounts : act'[a].does = "report" =>
          /\ act'[a].place \in ReportPlaces /\ act'[a].id > bound'.files
          /\ act'[a].at = "unlink" => files'[act'[a].place].id = act'[a].id
  BY <1>0, <1>2 DEF KeepsReport, ReportInv
<1>4. \A a, b \in Accounts : a # b /\ act'[a].does = "report" /\ act'[b].does = "report" => act'[a].id # act'[b].id
  BY <1>2 DEF ReportInv
<1>5. \A k \in keptReports' :
          /\ k.place \in ReportPlaces /\ k.id \in Nat /\ k.id > bound'.files /\ files'[k.place].id = k.id
          /\ \A a \in Accounts : act'[a].does = "report" => act'[a].id # k.id
  BY <1>0, <1>2 DEF ReportInv
<1> QED
  BY <1>1, <1>3, <1>4, <1>5 DEF ReportInv

\* Another record for one account.
LEMMA OneKeepsReport ==
    ASSUME AuditInv, ReportInv, NEW a \in Accounts, NEW w, Becomes(a, w),
           \/ w.does \notin {"write", "report"}
           \/ w.does = "write" /\ w.place \in StatePlaces
           \/ /\ act[a].does = "report" /\ w.does = "report" /\ w.place = act[a].place /\ w.id = act[a].id
              /\ w.at = "unlink" => files[act[a].place].id = act[a].id
    PROVE  \A o \in Accounts : KeepsReport(o)
<1>1. act'[a] = w /\ \A o \in Accounts \ {a} : act'[o] = act[o]
  BY DEF Becomes, AuditInv, SharedTypes
<1>2. \A o \in Accounts \ {a} : KeepsReport(o)
  BY <1>1 DEF KeepsReport, ReportInv
<1>3. KeepsReport(a)
  BY <1>1 DEF KeepsReport
<1> QED
  BY <1>2, <1>3

LEMMA FilesNat == AuditInv => bound.files \in Nat /\ bound \in BoundRecord /\ files \in [Places -> FileRecord]
  BY DEF AuditInv, SharedTypes, BoundRecord

\* What an audit does, no report sees.
LEMMA PlanKept ==
    ASSUME AuditInv, ReportInv, NEW a \in Accounts,
           \/ \E what \in DOMAIN Plan : BeginShared(a, what)
           \/ Probe(a) \/ Scan(a) \/ Repair(a) \/ EndStage(a)
           \/ CheckConfig(a) \/ LockForRepair(a) \/ Recheck(a) \/ Configure(a) \/ ConfigTook(a)
           \/ KillShared(a) \/ \E p \in Places : Inspect(a, p)
    PROVE  ReportInv'
<1> DEFINE Planned == {"nothing", "intake", "preflight", "fixcommand"}
<1>0. bound.files \in Nat /\ bound \in BoundRecord /\ files \in [Places -> FileRecord] /\ act[a] \in ActRecord
  BY FilesNat, AccountTypes
<1>1. act[a].stages # <<>> => act[a].does \in Planned
  BY AccountTypes DEF CourseWell, Course
<1>2. ASSUME NEW w, Becomes(a, w), w.does \in Planned, keptReports' = keptReports, bound'.files = bound.files,
             \A p \in ReportPlaces : files'[p].id = files[p].id
      PROVE  ReportInv'
  <2>1. \A o \in Accounts : KeepsReport(o)
    BY <1>2, OneKeepsReport
  <2> QED
    BY <1>0, <1>2, <2>1, ReportsKept
<1>3. \A what : /\ [Idle EXCEPT !.does = what, !.at = "admitted"].does = what
                /\ \A stages : [Idle EXCEPT !.does = what, !.at = "scan", !.stages = stages].does = what
  BY DEF Idle
<1>4. Idle.does \in Planned
  BY IdleWell
<1>5. ASSUME UNCHANGED <<files, bound, keptReports>>, act[a].does \in Planned, NextStage(a) \/ Admits(a) \/ Refuses(a)
      PROVE  ReportInv'
  <2>1. \/ Becomes(a, Idle)
        \/ Becomes(a, [Idle EXCEPT !.does = act[a].does, !.at = "admitted"])
        \/ Becomes(a, [Idle EXCEPT !.does = act[a].does, !.at = "scan", !.stages = Tail(act[a].stages)])
    BY <1>5 DEF NextStage, Admits, Refuses
  <2>2. CASE Becomes(a, Idle)
    BY <1>2, <1>4, <1>5, <2>2
  <2>3. CASE Becomes(a, [Idle EXCEPT !.does = act[a].does, !.at = "admitted"])
    BY <1>2, <1>3, <1>5, <2>3
  <2>4. CASE Becomes(a, [Idle EXCEPT !.does = act[a].does, !.at = "scan", !.stages = Tail(act[a].stages)])
    <3>1. PICK w : w = [Idle EXCEPT !.does = act[a].does, !.at = "scan", !.stages = Tail(act[a].stages)]
      OBVIOUS
    <3>2. Becomes(a, w) /\ w.does = act[a].does
      BY <1>3, <2>4, <3>1
    <3> QED
      BY <1>2, <1>5, <3>2
  <2> QED
    BY <2>1, <2>2, <2>3, <2>4
<1>6. ASSUME UNCHANGED <<files, bound, keptReports>>, act[a].does \in Planned, NEW step, Steps(a, step)
      PROVE  ReportInv'
  <2>1. Becomes(a, [act[a] EXCEPT !.at = step]) /\ [act[a] EXCEPT !.at = step].does = act[a].does
    BY <1>0, <1>6 DEF Steps, ActRecord
  <2> QED
    BY <1>2, <1>6, <2>1
<1>7. CASE \E what \in DOMAIN Plan : BeginShared(a, what)
  <2>1. PICK what \in DOMAIN Plan : BeginShared(a, what)
    BY <1>7
  <2>2. what \in Planned
    BY DEF Plan
  <2>3. /\ Becomes(a, [Idle EXCEPT !.does = what, !.at = "scan", !.stages = Plan[what]]) /\ UNCHANGED <<files, keptReports>>
        /\ bound' = [bound EXCEPT !.runs = @ - 1]
    BY <2>1 DEF BeginShared
  <2>4. bound'.files = bound.files
    BY <1>0, <2>3 DEF BoundRecord
  <2> QED
    BY <1>2, <1>3, <2>2, <2>3, <2>4
<1>8. CASE Probe(a)
  BY <1>1, <1>5, <1>8 DEF Probe, InStage
<1>9. CASE Scan(a)
  <2>1. PICK seen : Becomes(a, [act[a] EXCEPT !.at = "audit", !.todo = seen, !.found = {}])
    BY <1>9 DEF Scan
  <2>2. [act[a] EXCEPT !.at = "audit", !.todo = seen, !.found = {}].does \in Planned /\ UNCHANGED <<files, bound, keptReports>>
    BY <1>0, <1>1, <1>9 DEF Scan, InStage, ActRecord
  <2> QED
    BY <1>2, <2>1, <2>2
<1>10. CASE EndStage(a)
  BY <1>1, <1>5, <1>10 DEF EndStage, InStage
<1>11. CASE CheckConfig(a) \/ LockForRepair(a) \/ Recheck(a) \/ ConfigTook(a) \/ Configure(a)
  <2>1. UNCHANGED <<files, bound, keptReports>> /\ act[a].does \in Planned
    BY <1>1, <1>11 DEF CheckConfig, LockForRepair, Recheck, Configure, ConfigTook, InStage
  <2>2. Admits(a) \/ Refuses(a) \/ \E step : Steps(a, step)
    BY <1>11 DEF CheckConfig, LockForRepair, Recheck, Configure, ConfigTook
  <2> QED
    BY <1>5, <1>6, <2>1, <2>2
<1>12. CASE KillShared(a)
  <2>1. UNCHANGED <<files, bound, keptReports>> /\ Becomes(a, Idle)
    BY <1>12 DEF KillShared, Refuses
  <2> QED
    BY <1>2, <1>4, <2>1
<1>13. CASE \E p \in Places : Inspect(a, p)
  <2>1. PICK p \in Places : Inspect(a, p)
    BY <1>13
  <2>2. UNCHANGED <<files, bound, keptReports>> /\ act[a].does \in Planned
    BY <1>1, <2>1 DEF Inspect, InStage
  <2>3. \/ Becomes(a, Vanished(a, p)) \/ Becomes(a, Seen(a, p)) \/ Becomes(a, Reported(a, p))
        \/ Becomes(a, [act[a] EXCEPT !.at = "repair", !.place = p, !.id = files[p].id])
    BY <2>1 DEF Inspect
  <2>4. /\ Vanished(a, p).does = act[a].does /\ Seen(a, p).does = act[a].does /\ Reported(a, p).does = act[a].does
        /\ [act[a] EXCEPT !.at = "repair", !.place = p, !.id = files[p].id].does = act[a].does
    BY <1>0 DEF Vanished, Seen, Reported, ActRecord
  <2> QED
    BY <1>2, <2>2, <2>3, <2>4
<1>14. CASE Repair(a)
  <2>0. PICK p : p = act[a].place
    OBVIOUS
  <2> DEFINE back(state) == [state EXCEPT !.at = IF @ = "scan" THEN @ ELSE "audit", !.place = "none", !.id = 0]
  <2>1. UNCHANGED <<bound, keptReports>> /\ act[a].does \in Planned /\ act[a].stages # <<>> /\ act[a].at = "repair"
    BY <1>1, <1>14 DEF Repair, InStage
  <2>2. p \in Places
    BY <2>0, <2>1, AccountTypes DEF CourseWell
  <2>3. files' = files \/ Put(p, [files[p] EXCEPT !.fits = TRUE])
    BY <1>14, <2>0 DEF Repair
  <2>4. \A q \in ReportPlaces : files'[q].id = files[q].id
    <3>1. CASE files' = files
      BY <3>1
    <3>2. CASE Put(p, [files[p] EXCEPT !.fits = TRUE])
      <4>0. PICK f : f = [files[p] EXCEPT !.fits = TRUE]
        OBVIOUS
      <4>1. f.id = files[p].id
        BY <1>0, <2>2, <4>0, SMTT(20) DEF FileRecord
      <4>2. files' = [files EXCEPT ![p] = f]
        BY <3>2, <4>0 DEF Put
      <4> QED
        BY <1>0, <2>2, <4>1, <4>2, PlacesApart
    <3> QED
      BY <2>3, <3>1, <3>2
  <2>5. \/ Becomes(a, back(Vanished(a, p))) \/ Becomes(a, back(Seen(a, p))) \/ Becomes(a, back(Reported(a, p)))
        \/ Becomes(a, Idle)
    BY <1>14, <2>0 DEF Repair, Refuses
  <2>6. \A v \in ActRecord : back(v).does = v.does
    BY DEF ActRecord
  <2>7. /\ Vanished(a, p) \in ActRecord /\ Vanished(a, p).does = act[a].does
        /\ Seen(a, p) \in ActRecord /\ Seen(a, p).does = act[a].does
    BY <1>0, VanishedRecord DEF Seen, ActRecord
  <2>8. Reported(a, p) \in ActRecord /\ Reported(a, p).does = act[a].does
    BY <1>0, <2>2 DEF Reported, ActRecord
  <2> HIDE DEF back
  <2>9. PICK w : Becomes(a, w) /\ w.does \in Planned
    BY <1>4, <2>1, <2>5, <2>6, <2>7, <2>8
  <2> QED
    BY <1>2, <2>1, <2>4, <2>9
<1> QED
  BY <1>7, <1>8, <1>9, <1>10, <1>11, <1>12, <1>13, <1>14

\* A new file elsewhere.
LEMMA ElsewhereKept ==
    ASSUME AuditInv, NEW p, p \notin ReportPlaces, NEW owner \in Accounts, NEW fits \in BOOLEAN, Create(p, owner, fits)
    PROVE  /\ \A q \in ReportPlaces : files'[q].id = files[q].id
           /\ bound'.files \in Nat /\ bound'.files <= bound.files
<1>1. SharedTypes
  BY DEF AuditInv
<1>2. bound.files \in Nat /\ bound.files > 0 /\ bound'.files = bound.files - 1
  BY <1>1, CreateTypes
<1>3. PICK f : files' = [files EXCEPT ![p] = f]
  BY DEF Create, Put
<1> QED
  BY <1>1, <1>2, <1>3, PlacesApart DEF SharedTypes

LEMMA WritesKept ==
    ASSUME AuditInv, ReportInv, NEW a \in Accounts,
           \/ \E p \in StatePlaces : WriteScratch(a, p)
           \/ FitScratch(a) \/ ReplaceState(a) \/ VerifyWrite(a) \/ FailWrite(a)
    PROVE  ReportInv'
<1>0. bound.files \in Nat /\ bound \in BoundRecord /\ files \in [Places -> FileRecord] /\ act[a] \in ActRecord
  BY FilesNat, AccountTypes
<1>1. ScratchOf[a] \notin ReportPlaces /\ (\A p \in StatePlaces : p \notin ReportPlaces)
  BY SharedAssumption
<1>2. CASE \E p \in StatePlaces : WriteScratch(a, p)
  <2>1. PICK p \in StatePlaces : WriteScratch(a, p)
    BY <1>2
  <2>2. /\ Create(ScratchOf[a], a, FALSE) /\ keptReports' = keptReports
        /\ Becomes(a, [Idle EXCEPT !.does = "write", !.at = "fit", !.place = p, !.id = bound.files])
    BY <2>1 DEF WriteScratch
  <2>0. PICK w : w = [Idle EXCEPT !.does = "write", !.at = "fit", !.place = p, !.id = bound.files]
    OBVIOUS
  <2>3. Becomes(a, w) /\ w.does = "write" /\ w.place = p
    BY <2>0, <2>2 DEF Idle
  <2>4. \A o \in Accounts : KeepsReport(o)
    BY <2>3, OneKeepsReport
  <2>5. /\ \A q \in ReportPlaces : files'[q].id = files[q].id
        /\ bound'.files \in Nat /\ bound'.files <= bound.files
    BY <1>1, <2>2, ElsewhereKept
  <2> QED
    BY <2>2, <2>4, <2>5, ReportsKept
<1>3. CASE FitScratch(a) \/ ReplaceState(a) \/ VerifyWrite(a) \/ FailWrite(a)
  <2>1. act[a].does = "write" /\ act[a].place \in StatePlaces /\ UNCHANGED <<bound, keptReports>>
    BY <1>3 DEF FitScratch, ReplaceState, VerifyWrite, FailWrite, Is, ReportInv
  <2>2. \/ UNCHANGED files
        \/ \E f : files' = [files EXCEPT ![ScratchOf[a]] = f]
        \/ files' = [files EXCEPT ![act[a].place] = files[ScratchOf[a]], ![ScratchOf[a]] = NoFile]
    BY <1>3 DEF FitScratch, ReplaceState, VerifyWrite, FailWrite, Put
  <2>3. \A q \in ReportPlaces : files'[q].id = files[q].id
    BY <1>0, <1>1, <2>1, <2>2, PlacesApart
  <2>4. Becomes(a, Idle) \/ \E step : Steps(a, step)
    BY <1>3 DEF FitScratch, ReplaceState, VerifyWrite, FailWrite
  <2>5. CASE Becomes(a, Idle)
    <3>1. \A o \in Accounts : KeepsReport(o)
      BY <2>5, IdleWell, OneKeepsReport
    <3> QED
      BY <1>0, <2>1, <2>3, <3>1, ReportsKept
  <2>6. CASE \E step : Steps(a, step)
    <3>1. PICK w : Becomes(a, w) /\ w.does = "write" /\ w.place = act[a].place
      BY <1>0, <2>1, <2>6 DEF Steps, ActRecord
    <3>2. \A o \in Accounts : KeepsReport(o)
      BY <2>1, <3>1, OneKeepsReport
    <3> QED
      BY <1>0, <2>1, <2>3, <3>2, ReportsKept
  <2> QED
    BY <2>4, <2>5, <2>6
<1> QED
  BY <1>2, <1>3

LEMMA ReportStepsKept ==
    ASSUME AuditInv, ReportInv, NEW a \in Accounts,
           \/ \E p \in ReportPlaces : CreateReport(a, p)
           \/ FitReport(a) \/ VerifyReport(a) \/ UndoReport(a) \/ UnlinkReport(a)
    PROVE  ReportInv'
<1>0. bound.files \in Nat /\ bound \in BoundRecord /\ files \in [Places -> FileRecord] /\ act \in [Accounts -> ActRecord]
      /\ act[a] \in ActRecord
  BY FilesNat, AccountTypes DEF AuditInv, SharedTypes
<1>1. CASE \E p \in ReportPlaces : CreateReport(a, p)
  <2>1. PICK p \in ReportPlaces, fits \in BOOLEAN :
            /\ files[p] = NoFile /\ Create(p, a, fits) /\ keptReports' = keptReports
            /\ Becomes(a, [Idle EXCEPT !.does = "report", !.at = "fit", !.place = p, !.id = bound.files])
    BY <1>1 DEF CreateReport, Vacant
  <2>0. PICK w : w = [Idle EXCEPT !.does = "report", !.at = "fit", !.place = p, !.id = bound.files]
    OBVIOUS
  <2>2. Becomes(a, w) /\ w.does = "report" /\ w.at = "fit" /\ w.place = p /\ w.id = bound.files
    BY <2>0, <2>1 DEF Idle
  <2>3. bound.files > 0 /\ bound'.files = bound.files - 1
    BY <2>1, CreateTypes DEF AuditInv
  <2>4. act'[a] = w /\ \A o \in Accounts \ {a} : act'[o] = act[o]
    BY <1>0, <2>2 DEF Becomes
  <2>5. PICK f : files' = [files EXCEPT ![p] = f]
    BY <2>1 DEF Create, Put
  <2>6. \A q \in ReportPlaces \ {p} : files'[q] = files[q]
    BY <1>0, <2>5, PlacesApart
  <2>7. files[p].id = 0
    BY <2>1, NoFileType
  <2>8. \A o \in Accounts : act'[o].does = "write" => act'[o].place \in StatePlaces
    BY <2>2, <2>4 DEF ReportInv
  <2>9. \A o \in Accounts \ {a} : act[o].id \in Nat
    BY <1>0 DEF ActRecord
  <2>10. \A o \in Accounts : act'[o].does = "report" =>
             /\ act'[o].place \in ReportPlaces /\ act'[o].id > bound'.files
             /\ act'[o].at = "unlink" => files'[act'[o].place].id = act'[o].id
    <3>1. ASSUME NEW o \in Accounts \ {a}, act'[o].does = "report"
          PROVE  /\ act'[o].place \in ReportPlaces /\ act'[o].id > bound'.files
                 /\ act'[o].at = "unlink" => files'[act'[o].place].id = act'[o].id
      BY <1>0, <2>3, <2>4, <2>6, <2>7, <2>9, <3>1 DEF ReportInv
    <3>2. act'[a].place \in ReportPlaces /\ act'[a].id > bound'.files /\ act'[a].at # "unlink"
      BY <1>0, <2>2, <2>3, <2>4
    <3> QED
      BY <3>1, <3>2
  <2>11. \A o, b \in Accounts : o # b /\ act'[o].does = "report" /\ act'[b].does = "report" => act'[o].id # act'[b].id
    <3>1. \A o \in Accounts \ {a} : act'[o].does = "report" => act'[o].id # act'[a].id
      BY <1>0, <2>2, <2>4, <2>9 DEF ReportInv
    <3> QED
      BY <2>4, <3>1 DEF ReportInv
  <2>12. \A k \in keptReports' :
             /\ k.place \in ReportPlaces /\ k.id \in Nat /\ k.id > bound'.files /\ files'[k.place].id = k.id
             /\ \A o \in Accounts : act'[o].does = "report" => act'[o].id # k.id
    <3> SUFFICES ASSUME NEW k \in keptReports
                 PROVE  /\ k.place \in ReportPlaces /\ k.id \in Nat /\ k.id > bound'.files /\ files'[k.place].id = k.id
                        /\ \A o \in Accounts : act'[o].does = "report" => act'[o].id # k.id
      BY <2>1
    <3>1. /\ k.place \in ReportPlaces /\ k.id \in Nat /\ k.id > bound.files /\ files[k.place].id = k.id
          /\ \A o \in Accounts : act[o].does = "report" => act[o].id # k.id
      BY DEF ReportInv
    <3>2. k.place # p
      BY <1>0, <2>7, <3>1
    <3> QED
      BY <1>0, <2>2, <2>3, <2>4, <2>6, <3>1, <3>2
  <2> QED
    BY <2>8, <2>10, <2>11, <2>12 DEF ReportInv
<1>2. CASE FitReport(a)
  <2>1. act[a].does = "report" /\ act[a].place \in ReportPlaces /\ UNCHANGED <<bound, keptReports>>
    BY <1>2 DEF FitReport, Is, ReportInv
  <2>2. PICK step : step # "unlink" /\ Steps(a, step)
    BY <1>2 DEF FitReport
  <2>3. PICK w : Becomes(a, w) /\ w.does = "report" /\ w.at = step /\ w.place = act[a].place /\ w.id = act[a].id
    BY <1>0, <2>1, <2>2 DEF Steps, ActRecord
  <2>4. \A o \in Accounts : KeepsReport(o)
    BY <2>1, <2>2, <2>3, OneKeepsReport
  <2>5. \A q \in ReportPlaces : files'[q].id = files[q].id
    <3>0. PICK p \in ReportPlaces : p = act[a].place
      BY <2>1
    <3>1. PICK f : f = [files[p] EXCEPT !.fits = TRUE]
      OBVIOUS
    <3>2. files[p] \in FileRecord
      BY <1>0, PlacesApart
    <3>3. f.id = files[p].id
      BY <3>1, <3>2 DEF FileRecord
    <3>4. UNCHANGED files \/ files' = [files EXCEPT ![p] = f]
      BY <1>2, <3>0, <3>1 DEF FitReport, Put
    <3> QED
      BY <1>0, <3>3, <3>4, PlacesApart
  <2> QED
    BY <1>0, <2>1, <2>4, <2>5, ReportsKept
<1>3. CASE VerifyReport(a)
  <2>1. act[a].does = "report" /\ act[a].place \in ReportPlaces /\ UNCHANGED <<bound, files>>
    BY <1>3 DEF VerifyReport, Is, ReportInv
  <2>2. CASE Steps(a, "undo") /\ UNCHANGED keptReports
    <3>1. PICK w : Becomes(a, w) /\ w.does = "report" /\ w.at = "undo" /\ w.place = act[a].place /\ w.id = act[a].id
      BY <1>0, <2>1, <2>2 DEF Steps, ActRecord
    <3>2. \A o \in Accounts : KeepsReport(o)
      BY <2>1, <3>1, OneKeepsReport
    <3> QED
      BY <1>0, <2>1, <2>2, <3>2, ReportsKept
  <2>3. CASE /\ files[act[a].place].id = act[a].id /\ Becomes(a, Idle)
             /\ keptReports' = keptReports \cup {[place |-> act[a].place, id |-> act[a].id]}
    <3>1. act'[a] = Idle /\ (\A o \in Accounts \ {a} : act'[o] = act[o]) /\ Idle.does = "nothing"
      BY <1>0, <2>3, IdleWell DEF Becomes
    <3>2. PICK new : new = [place |-> act[a].place, id |-> act[a].id]
      OBVIOUS
    <3>0. new.place = act[a].place /\ new.id = act[a].id
      BY <3>2
    <3>3. /\ new.place \in ReportPlaces /\ new.id \in Nat /\ new.id > bound'.files /\ files'[new.place].id = new.id
          /\ \A o \in Accounts : act'[o].does = "report" => act'[o].id # new.id
      BY <1>0, <2>1, <2>3, <3>0, <3>1 DEF ReportInv, ActRecord
    <3>4. \A k \in keptReports :
              /\ k.place \in ReportPlaces /\ k.id \in Nat /\ k.id > bound'.files /\ files'[k.place].id = k.id
              /\ \A o \in Accounts : act'[o].does = "report" => act'[o].id # k.id
      BY <2>1, <3>1 DEF ReportInv
    <3>5. keptReports' = keptReports \cup {new}
      BY <2>3, <3>2
    <3>6. \A o \in Accounts : act'[o].does \in {"write", "report"} => o # a /\ act'[o] = act[o]
      BY <3>1
    <3>7. \A o \in Accounts : act'[o].does = "write" => act'[o].place \in StatePlaces
      BY <3>6 DEF ReportInv
    <3>8. \A o \in Accounts : act'[o].does = "report" =>
              /\ act'[o].place \in ReportPlaces /\ act'[o].id > bound'.files
              /\ act'[o].at = "unlink" => files'[act'[o].place].id = act'[o].id
      BY <2>1, <3>6 DEF ReportInv
    <3>9. \A o, b \in Accounts : o # b /\ act'[o].does = "report" /\ act'[b].does = "report" => act'[o].id # act'[b].id
      BY <3>6 DEF ReportInv
    <3> QED
      BY <3>3, <3>4, <3>5, <3>7, <3>8, <3>9 DEF ReportInv
  <2> QED
    BY <1>3, <2>2, <2>3 DEF VerifyReport
<1>4. CASE UndoReport(a)
  <2>1. act[a].does = "report" /\ act[a].place \in ReportPlaces /\ UNCHANGED <<bound, files, keptReports>>
    BY <1>4 DEF UndoReport, Is, ReportInv
  <2>2. \A o \in Accounts : KeepsReport(o)
    <3>1. CASE files[act[a].place].id = act[a].id /\ Steps(a, "unlink")
      <4>1. PICK w : Becomes(a, w) /\ w.does = "report" /\ w.place = act[a].place /\ w.id = act[a].id
        BY <1>0, <2>1, <3>1 DEF Steps, ActRecord
      <4> QED
        BY <2>1, <3>1, <4>1, OneKeepsReport
    <3>2. CASE Becomes(a, Idle)
      BY <3>2, IdleWell, OneKeepsReport
    <3> QED
      BY <1>4, <3>1, <3>2 DEF UndoReport
  <2> QED
    BY <1>0, <2>1, <2>2, ReportsKept
<1>5. CASE UnlinkReport(a)
  <2>1. /\ act[a].does = "report" /\ act[a].at = "unlink" /\ act[a].place \in ReportPlaces /\ UNCHANGED <<bound, keptReports>>
        /\ files[act[a].place].id = act[a].id /\ Becomes(a, Idle) /\ files' = [files EXCEPT ![act[a].place] = NoFile]
    BY <1>5 DEF UnlinkReport, Is, ReportInv, Put
  <2>2. act'[a] = Idle /\ (\A o \in Accounts \ {a} : act'[o] = act[o]) /\ Idle.does = "nothing"
    BY <1>0, <2>1, IdleWell DEF Becomes
  <2>3. \A q \in ReportPlaces \ {act[a].place} : files'[q] = files[q]
    BY <1>0, <2>1, PlacesApart
  <2>4. \A o \in Accounts : act'[o].does \in {"write", "report"} => o # a /\ act'[o] = act[o]
    BY <2>2
  <2>5. \A o \in Accounts : act'[o].does = "write" => act'[o].place \in StatePlaces
    BY <2>4 DEF ReportInv
  <2>6. \A o \in Accounts : act'[o].does = "report" =>
            /\ act'[o].place \in ReportPlaces /\ act'[o].id > bound'.files
            /\ act'[o].at = "unlink" => files'[act'[o].place].id = act'[o].id
    <3> SUFFICES ASSUME NEW o \in Accounts, act'[o].does = "report"
                 PROVE  /\ act'[o].place \in ReportPlaces /\ act'[o].id > bound'.files
                        /\ act'[o].at = "unlink" => files'[act'[o].place].id = act'[o].id
      OBVIOUS
    <3>1. o # a /\ act'[o] = act[o] /\ act[o].does = "report"
      BY <2>4
    <3>2. act[o].id # act[a].id /\ act[o].place \in ReportPlaces /\ act[o].id > bound.files
      BY <2>1, <3>1 DEF ReportInv
    <3>3. act[o].at = "unlink" => files[act[o].place].id = act[o].id
      BY <3>1 DEF ReportInv
    <3>4. act[o].at = "unlink" => act[o].place # act[a].place
      BY <2>1, <3>2, <3>3
    <3> QED
      BY <2>1, <2>3, <3>1, <3>2, <3>3, <3>4
  <2>7. \A o, b \in Accounts : o # b /\ act'[o].does = "report" /\ act'[b].does = "report" => act'[o].id # act'[b].id
    BY <2>4 DEF ReportInv
  <2>8. \A k \in keptReports' :
            /\ k.place \in ReportPlaces /\ k.id \in Nat /\ k.id > bound'.files /\ files'[k.place].id = k.id
            /\ \A o \in Accounts : act'[o].does = "report" => act'[o].id # k.id
    <3> SUFFICES ASSUME NEW k \in keptReports
                 PROVE  /\ k.place \in ReportPlaces /\ k.id \in Nat /\ k.id > bound'.files /\ files'[k.place].id = k.id
                        /\ \A o \in Accounts : act'[o].does = "report" => act'[o].id # k.id
      BY <2>1
    <3>1. /\ k.place \in ReportPlaces /\ k.id \in Nat /\ k.id > bound.files /\ files[k.place].id = k.id
          /\ \A o \in Accounts : act[o].does = "report" => act[o].id # k.id
      BY DEF ReportInv
    <3>2. k.place # act[a].place
      BY <2>1, <3>1
    <3> QED
      BY <2>1, <2>3, <2>4, <3>1, <3>2
  <2> QED
    BY <2>5, <2>6, <2>7, <2>8 DEF ReportInv
<1> QED
  BY <1>1, <1>2, <1>3, <1>4, <1>5

LEMMA OutsideKept ==
    ASSUME AuditInv, ReportInv,
           \/ \E a \in Accounts, p \in StatePlaces \cup SourcePlaces : RawWrite(a, p)
           \/ \E a \in Accounts, p \in GitPlaces : GitCreates(a, p)
           \/ \E p \in GitPlaces : GitDrops(p)
           \/ UnsetConfig
    PROVE  ReportInv'
<1>0. bound.files \in Nat /\ bound \in BoundRecord /\ files \in [Places -> FileRecord] /\ grants \in BOOLEAN
  BY FilesNat DEF AuditInv, SharedTypes
<1>1. UNCHANGED <<act, keptReports>>
  BY DEF RawWrite, GitCreates, GitDrops, UnsetConfig
<1>2. \A o \in Accounts : KeepsReport(o)
  BY <1>1 DEF KeepsReport, ReportInv
<1>3. \A p \in StatePlaces \cup SourcePlaces \cup GitPlaces : p \notin ReportPlaces
  BY SharedAssumption
<1>4. /\ \A q \in ReportPlaces : files'[q].id = files[q].id
      /\ bound'.files \in Nat /\ bound'.files <= bound.files
  <2>1. CASE \E a \in Accounts, p \in StatePlaces \cup SourcePlaces : RawWrite(a, p)
    <3>1. PICK a \in Accounts, p \in StatePlaces \cup SourcePlaces : Create(p, a, FALSE)
      BY <2>1 DEF RawWrite
    <3> QED
      BY <1>3, <3>1, ElsewhereKept
  <2>2. CASE \E a \in Accounts, p \in GitPlaces : GitCreates(a, p)
    <3>1. PICK a \in Accounts, p \in GitPlaces, fits \in {TRUE, grants} : Create(p, a, fits)
      BY <2>2 DEF GitCreates
    <3>2. fits \in BOOLEAN
      BY <1>0
    <3> QED
      BY <1>3, <3>1, <3>2, ElsewhereKept
  <2>3. CASE \E p \in GitPlaces : GitDrops(p)
    BY <1>0, <1>3, <2>3, PlacesApart DEF GitDrops, Put
  <2>4. CASE UnsetConfig
    BY <1>0, <2>4 DEF UnsetConfig, BoundRecord
  <2> QED
    BY <2>1, <2>2, <2>3, <2>4
<1> QED
  BY <1>1, <1>2, <1>4, ReportsKept

LEMMA ReportStart == SharedInit => ReportInv
  BY IdleWell DEF SharedInit, ReportInv

LEMMA ReportStays == AuditInv /\ ReportInv /\ [SharedNext]_sharedVars => ReportInv'
<1> SUFFICES ASSUME AuditInv, ReportInv, [SharedNext]_sharedVars PROVE ReportInv'
  OBVIOUS
<1>1. CASE UNCHANGED sharedVars
  BY <1>1 DEF sharedVars, ReportInv
<1>2. ASSUME NEW a \in Accounts,
             \/ \E what \in DOMAIN Plan : BeginShared(a, what)
             \/ Probe(a) \/ Scan(a) \/ Repair(a) \/ EndStage(a)
             \/ CheckConfig(a) \/ LockForRepair(a) \/ Recheck(a) \/ Configure(a) \/ ConfigTook(a)
             \/ KillShared(a) \/ \E p \in Places : Inspect(a, p)
      PROVE  ReportInv'
  BY <1>2, PlanKept
<1>3. ASSUME NEW a \in Accounts,
             \/ \E p \in StatePlaces : WriteScratch(a, p)
             \/ FitScratch(a) \/ ReplaceState(a) \/ VerifyWrite(a) \/ FailWrite(a)
      PROVE  ReportInv'
  BY <1>3, WritesKept
<1>4. ASSUME NEW a \in Accounts,
             \/ \E p \in ReportPlaces : CreateReport(a, p)
             \/ FitReport(a) \/ VerifyReport(a) \/ UndoReport(a) \/ UnlinkReport(a)
      PROVE  ReportInv'
  BY <1>4, ReportStepsKept
<1>5. CASE \/ \E a \in Accounts, p \in StatePlaces \cup SourcePlaces : RawWrite(a, p)
           \/ \E a \in Accounts, p \in GitPlaces : GitCreates(a, p)
           \/ \E p \in GitPlaces : GitDrops(p)
           \/ UnsetConfig
  BY <1>5, OutsideKept
<1> QED
  BY <1>1, <1>2, <1>3, <1>4, <1>5 DEF SharedNext

\* Nothing is admitted over what was unusable all along, and what was published stays.
THEOREM AdmissionsAreFit == SharedSpec => []AdmittedIsFit
<1>1. AuditInv /\ ReportInv => AdmittedIsFit
  <2> SUFFICES ASSUME AuditInv, ReportInv PROVE AdmittedIsFit
    OBVIOUS
  <2>1. ASSUME NEW a \in Accounts, act[a].at = "admitted"
        PROVE  unfit[a] \cap (IF act[a].does = "fixcommand" THEN Registered ELSE Places) = {}
    <3>1. /\ unfit[a] \cap Registered = {}
          /\ act[a].does # "fixcommand" => unfit[a] \cap SourcePlaces = {}
      BY <2>1, AccountTypes DEF CourseWell, SourcesVouched, RegisteredVouched
    <3> QED
      BY <3>1 DEF Places
  <2>2. ASSUME NEW a \in Accounts, act[a].at = "admitted", act[a].does \in {"preflight", "fixcommand"}
        PROVE  ~ungranted[a]
    <3>1. AuditWell(a)
      BY AccountTypes
    <3> QED
      BY <2>2, <3>1, Zenon DEF AuditWell
  <2> QED
    BY <2>1, <2>2 DEF AdmittedIsFit, ReportInv
<1> QED
  BY AuditStart, AuditStays, ReportStart, ReportStays, <1>1, PTL DEF SharedSpec


-----------------------------------------------------------------------------
(* The rollout: types. *)

TreeFile == [from : Nat, own : Own]
BranchRecord == [version : Nat, runner : BOOLEAN, tree : [Paths -> TreeFile]]
UpdateRecord ==
    [state : {"none", "open", "superseded", "merged", "rejected"}, bot : BOOLEAN, from : BranchRecord, head : BranchRecord,
     conflicts : SUBSET Paths]
FailureRecord == [open : BOOLEAN, readable : BOOLEAN, streak : Nat, last : Nat, alert : BOOLEAN]
JobRecord ==
    [stage : {"idle", "pending", "prepare", "runner", "update", "classify", "recopy", "rendered", "validate", "push", "open",
              "failure", "list", "plan", "close", "recovery", "observe", "count", "comment", "alert", "proof", "resolve", "settle"},
     version : Nat, clone : Nat, from : BranchRecord, head : BranchRecord, conflicts : SUBSET Paths, authority : Nat,
     plan : SUBSET Nat, issue : Nat, seen : FailureRecord, stale : BOOLEAN, prepared : BOOLEAN]

RolloutTypes ==
    /\ limits \in RolloutBounds /\ changes \in [Paths -> SUBSET Nat] /\ trunk \in BranchRecord
    /\ requests \in [Versions -> UpdateRecord] /\ job \in [Jobs -> JobRecord]
    /\ issues \in Seq(FailureRecord) /\ failures \in Nat
    /\ raced \subseteq Nat /\ garbled \subseteq Nat /\ unlabelled \subseteq Nat

\* Of numbers up to a bound one is the largest.
LEMMA GreatestNatural ==
    ASSUME NEW S, S \subseteq Nat, 0 \in S, NEW b \in Nat, \A n \in S : n <= b
    PROVE  \E m \in S : \A n \in S : n <= m
<1>1. PICK T : T = {n \in Nat : \A m \in S : m <= n}
  OBVIOUS
<1>2. T \subseteq Nat /\ T # {}
  BY <1>1
<1>3. PICK t \in T : \A m \in T : t <= m
  BY <1>2, LeastNatural
<1>4. t \in S
  <2> SUFFICES ASSUME t \notin S PROVE FALSE
    OBVIOUS
  <2>1. t \in Nat /\ \A m \in S : m <= t /\ m # t
    BY <1>1, <1>3
  <2>2. t # 0
    BY <2>1
  <2>3. t - 1 \in T /\ t - 1 < t
    BY <1>1, <2>1, <2>2
  <2> QED
    BY <1>3, <2>1, <2>3
<1>5. t \in Nat /\ \A n \in S : n <= t
  BY <1>1, <1>3
<1> QED
  BY <1>4, <1>5

LEMMA VersionFacts ==
    ASSUME RolloutTypes
    PROVE  /\ limits.versions \in Nat /\ Versions \subseteq Nat /\ \A v \in Versions : v > 0
           /\ limits.parallel \in Nat /\ limits.paths \subseteq Paths
  BY RolloutAssumption DEF RolloutTypes, Versions

\* What the template makes of a file.
LEMMA RenderFacts ==
    ASSUME RolloutTypes, NEW p \in Paths, NEW v \in Nat, NEW runner \in BOOLEAN
    PROVE  /\ Render(p, v, runner) \in TreeFile
           /\ Render(p, v, runner).own = IF runner /\ v > 0 /\ p \in RunnerPaths THEN "runner" ELSE "none"
<1>1. PICK S : S = {w \in changes[p] \cup {0} : w <= v}
  OBVIOUS
<1>2. changes[p] \subseteq Nat
  BY DEF RolloutTypes
<1>3. S \subseteq Nat /\ 0 \in S /\ \A n \in S : n <= v
  BY <1>1, <1>2
<1>4. PICK m \in S : \A n \in S : n <= m
  BY <1>3, GreatestNatural
<1>5. \E w \in changes[p] \cup {0} : w <= v /\ \A u \in changes[p] : u <= v => u <= w
  BY <1>1, <1>4
<1>6. LastChange(p, v) \in changes[p] \cup {0}
  BY <1>5 DEF LastChange
<1>7. LastChange(p, v) \in Nat
  BY <1>2, <1>6
<1> QED
  BY <1>7 DEF Render, TreeFile, Own, RunnerAware

\* The records of nothing: no tree, no branch, no request, no Issue and an idle job.
LEMMA NoRollout ==
    /\ NoTree \in [Paths -> TreeFile] /\ NoBase \in BranchRecord /\ NoUpdateRequest \in UpdateRecord /\ IdleJob \in JobRecord
    /\ NoIssue \in FailureRecord /\ IdleJob.stage = "idle" /\ NoUpdateRequest.state = "none" /\ NoUpdateRequest.bot = FALSE
<1>1. NoTree \in [Paths -> TreeFile]
  BY DEF NoTree, TreeFile, Own
<1>2. NoBase \in BranchRecord
  BY <1>1 DEF NoBase, BranchRecord
<1>3. NoIssue \in FailureRecord
  BY DEF NoIssue, FailureRecord
<1> QED
  BY <1>1, <1>2, <1>3 DEF NoUpdateRequest, UpdateRecord, IdleJob, JobRecord

-----------------------------------------------------------------------------
(* The rollout: the invariant. *)

Naming == {"runner", "both"}

\* What a request has to say for itself.
Fit(from, head, conflicts) ==
    /\ \A p \in OwnedPaths : head.tree[p] = from.tree[p]
    /\ \A p \in conflicts \ OwnedPaths : Survives(from.tree[p], head.tree[p])
    /\ \A p \in RunnerPaths : ~RunnerAware(from.version) /\ from.tree[p].own \in Naming => head.tree[p].own \in Naming

\* A runner that was named by hand has become the answer.
Named(r) == r.from.version = 0 => \A p \in RunnerPaths : r.from.tree[p].own \in Naming => r.head.runner

\* What a job starts to render is the default branch, but for runners that are an answer now.
Begun(r) ==
    /\ r.head.version = r.from.version
    /\ \A p \in Paths :
          \/ r.head.tree[p].own = r.from.tree[p].own
          \/ /\ r.from.version = 0 /\ r.head.runner /\ p \in RunnerPaths
             /\ r.head.tree[p].own = "none" /\ r.from.tree[p].own = "runner"

\* What a recopy makes of the conflicts is what the project had made of them.
WillSurvive(r) ==
    \A p \in r.conflicts \ OwnedPaths :
        \/ r.from.tree[p].own = "none"
        \/ r.from.tree[p].own = IF r.head.runner /\ p \in RunnerPaths THEN "runner" ELSE "none"
NamesStay(r) ==
    r.from.version = 0 =>
        \A p \in RunnerPaths \ r.conflicts : r.from.tree[p].own \in Naming => r.head.tree[p].own \in Naming

Rendering == {"runner", "update", "classify", "recopy", "rendered", "validate", "push", "open"}
RenderFits(r) ==
    /\ r.stage \in Rendering \cup {"pending", "prepare"} => r.version > 0
    /\ r.stage = "runner" => r.head = r.from
    /\ r.stage \in {"update", "classify", "recopy"} => Begun(r) /\ Named(r)
    /\ r.stage \in {"classify", "recopy"} => r.from.version <= r.version
    /\ r.stage = "recopy" => WillSurvive(r)
    /\ r.stage = "rendered" => Named(r) /\ WillSurvive(r) /\ NamesStay(r)
    /\ r.stage \in {"rendered", "validate", "push", "open"} => r.head.version = r.version /\ r.from.version <= r.version
    /\ r.stage \in {"validate", "push", "open"} => Fit(r.from, r.head, r.conflicts)

\* A version that the project has, or a request that still leads to it or beyond.
Live == {"open", "merged", "rejected"}
Led(top, reqs, has, v) == v <= has \/ \E w \in 1..top : v <= w /\ reqs[w].state \in Live
Overtaken(top, reqs, has, v) == v <= has \/ \E w \in 1..top : v < w /\ reqs[w].state \in Live

PlanFits(r, top, reqs, has) ==
    /\ r.stage = "plan" => r.authority = 0 \/ Led(top, reqs, has, r.authority)
    /\ r.stage = "close" => \A v \in r.plan : Overtaken(top, reqs, has, v)

RequestsFit(top, reqs, has) ==
    \A v \in 1..top :
        /\ reqs[v].bot => Fit(reqs[v].from, reqs[v].head, reqs[v].conflicts)
        /\ reqs[v].state = "open" => reqs[v].from.version <= reqs[v].head.version
        /\ reqs[v].state = "superseded" => Overtaken(top, reqs, has, v)

OpenIn(iss) == {n \in 1..Len(iss) : iss[n].open}
Agree(found, body) == found.readable = body.readable /\ found.streak = body.streak

\* A reading that is not stale is what the tracker says.
IssueFits(r, iss) ==
    r.stage \in {"count", "proof", "resolve", "settle"} =>
        /\ r.issue <= Len(iss) /\ (r.issue = 0 => r.seen = NoIssue /\ r.stage # "settle")
        /\ ~r.stale => IF r.issue = 0 THEN OpenIn(iss) = {} ELSE r.issue \in OpenIn(iss) /\ Agree(r.seen, iss[r.issue])

\* The alert that a job is about to set is one.
AlarmFits(r, iss, contended) ==
    r.stage \in {"comment", "alert"} =>
        /\ r.issue \in 1..Len(iss)
        /\ r.issue \in OpenIn(iss) \ contended /\ iss[r.issue].readable /\ Alarming(r.seen) => Alarming(iss[r.issue])

CountFits(iss, fails, contended, spoilt) ==
    /\ fails > 0 => OpenIn(iss) # {}
    /\ \A m \in OpenIn(iss) \ contended, n \in OpenIn(iss) : m = n
    /\ \A n \in OpenIn(iss) \ contended :
           iss[n].readable => /\ iss[n].streak = fails \/ (n \in spoilt /\ Alarming(iss[n]))
                              /\ iss[n].alert => Alarming(iss[n])
    /\ \A n \in OpenIn(iss) : iss[n].readable \/ n \in spoilt

Labelled(jobs, iss, unset) ==
    \A n \in OpenIn(iss) :
        Alarming(iss[n]) =>
            \/ iss[n].alert \/ n \in unset
            \/ \E i \in Jobs : jobs[i].stage \in {"comment", "alert"} /\ Alarming(jobs[i].seen) /\ jobs[i].issue = n

StreakInv ==
    /\ CountFits(issues, failures, raced, garbled) /\ Labelled(job, issues, unlabelled)
    /\ \A j \in Jobs : IssueFits(job[j], issues) /\ AlarmFits(job[j], issues, raced)

RolloutInv ==
    /\ \A j \in Jobs : RenderFits(job[j]) /\ PlanFits(job[j], limits.versions, requests, trunk.version)
    /\ RequestsFit(limits.versions, requests, trunk.version)
    /\ StreakInv

\* A step that leaves the tracker alone, of a job that is not about to set a label.
LEMMA QuietStep ==
    ASSUME RolloutTypes, RolloutInv, NEW j \in Jobs, NEW r \in JobRecord, job' = [job EXCEPT ![j] = r], IssueFits(r, issues),
           r.stage \notin {"comment", "alert"}, job[j].stage \notin {"comment", "alert"}, UNCHANGED tracking
    PROVE  StreakInv'
<1>1. job'[j] = r /\ \A i \in Jobs : i # j => job'[i] = job[i]
  BY DEF RolloutTypes
<1>2. UNCHANGED <<issues, failures, raced, garbled, unlabelled>>
  BY DEF tracking
<1>3. CountFits(issues, failures, raced, garbled) /\ Labelled(job, issues, unlabelled)
  BY DEF RolloutInv, StreakInv
<1>4. Labelled(job', issues, unlabelled)
  BY <1>1, <1>3 DEF Labelled
<1>5. AlarmFits(r, issues, raced)
  BY DEF AlarmFits
<1>6. \A i \in Jobs : IssueFits(job'[i], issues) /\ AlarmFits(job'[i], issues, raced)
  BY <1>1, <1>5 DEF RolloutInv, StreakInv
<1> QED
  BY <1>2, <1>3, <1>4, <1>6 DEF StreakInv

\* A step of one job that changes nothing but the job.
LEMMA JobStays ==
    ASSUME RolloutTypes, RolloutInv, NEW j \in Jobs, NEW r \in JobRecord, job' = [job EXCEPT ![j] = r],
           RenderFits(r), PlanFits(r, limits.versions, requests, trunk.version), IssueFits(r, issues),
           r.stage \notin {"comment", "alert"}, job[j].stage \notin {"comment", "alert"},
           UNCHANGED <<limits, changes, trunk, requests, tracking>>
    PROVE  RolloutTypes' /\ RolloutInv'
<1>1. job' \in [Jobs -> JobRecord] /\ job'[j] = r /\ \A i \in Jobs : i # j => job'[i] = job[i]
  BY DEF RolloutTypes
<1>2. RolloutTypes'
  BY <1>1 DEF RolloutTypes, Versions, tracking
<1>3. \A i \in Jobs : RenderFits(job'[i]) /\ PlanFits(job'[i], limits.versions, requests, trunk.version)
  BY <1>1 DEF RolloutInv
<1>4. StreakInv'
  BY QuietStep
<1> QED
  BY <1>2, <1>3, <1>4 DEF RolloutInv

\* Stages that rest on nothing.
Restful == {"idle", "failure", "list", "recovery", "observe"}

LEMMA RestsStay ==
    ASSUME RolloutTypes, RolloutInv, NEW j \in Jobs, NEW r \in JobRecord, job' = [job EXCEPT ![j] = r],
           r.stage \in Restful, job[j].stage \notin {"comment", "alert"}, UNCHANGED <<limits, project, requests, tracking>>
    PROVE  RolloutTypes' /\ RolloutInv'
<1>1. r.stage \notin Rendering \cup {"pending", "prepare", "plan", "close", "count", "proof", "resolve", "settle", "comment", "alert"}
  BY DEF Restful, Rendering
<1>2. RenderFits(r)
  BY <1>1 DEF RenderFits, Rendering
<1>3. PlanFits(r, limits.versions, requests, trunk.version) /\ IssueFits(r, issues)
  BY <1>1 DEF PlanFits, IssueFits
<1>4. UNCHANGED <<limits, changes, trunk, requests, tracking>>
  BY DEF project
<1> QED
  BY <1>1, <1>2, <1>3, <1>4, JobStays

LEMMA JobType ==
    ASSUME RolloutTypes, NEW j \in Jobs
    PROVE  job[j] \in JobRecord
  BY DEF RolloutTypes

\* The types of what a job holds.
LEMMA JobFacts ==
    ASSUME RolloutTypes, NEW j \in Jobs
    PROVE  /\ job[j] \in JobRecord /\ job[j].version \in Nat /\ job[j].from \in BranchRecord /\ job[j].head \in BranchRecord
           /\ job[j].head.version \in Nat /\ job[j].head.runner \in BOOLEAN /\ job[j].from.version \in Nat
           /\ \A p \in Paths : job[j].head.tree[p] \in TreeFile /\ job[j].from.tree[p] \in TreeFile
           /\ job[j].conflicts \subseteq Paths /\ job[j].plan \subseteq Nat /\ job[j].authority \in Nat
<1>1. job[j] \in JobRecord
  BY DEF RolloutTypes
<1>2. /\ job[j].from \in BranchRecord /\ job[j].head \in BranchRecord /\ job[j].conflicts \subseteq Paths
      /\ job[j].plan \subseteq Nat /\ job[j].authority \in Nat /\ job[j].version \in Nat
  BY <1>1 DEF JobRecord
<1>3. \A b \in BranchRecord : b.version \in Nat /\ b.runner \in BOOLEAN /\ \A p \in Paths : b.tree[p] \in TreeFile
  BY DEF BranchRecord
<1> QED
  BY <1>1, <1>2, <1>3

\* A job that only goes to its next stage.
LEMMA GoFacts ==
    ASSUME RolloutTypes, NEW j \in Jobs, NEW s \in {"idle", "failure", "list", "recovery", "observe", "update", "recopy", "validate", "open"},
           NEW r, r = [job[j] EXCEPT !.stage = s]
    PROVE  /\ r \in JobRecord /\ r.stage = s /\ r.version = job[j].version /\ r.from = job[j].from /\ r.head = job[j].head
           /\ r.conflicts = job[j].conflicts
  BY JobType, ZenonT(40) DEF JobRecord

LEMMA GoesToRest ==
    ASSUME RolloutTypes, RolloutInv, NEW j \in Jobs, job[j].stage \notin {"comment", "alert"}, UNCHANGED <<limits, project, requests, tracking>>,
           \/ Abort(j) \/ \E s \in Restful : Go(j, s)
    PROVE  RolloutTypes' /\ RolloutInv'
<1>1. CASE Abort(j)
  BY <1>1, NoRollout, RestsStay DEF Abort, Restful
<1>2. ASSUME NEW s \in Restful, Go(j, s) PROVE RolloutTypes' /\ RolloutInv'
  <2>1. PICK r : r = [job[j] EXCEPT !.stage = s]
    OBVIOUS
  <2>2. r \in JobRecord /\ r.stage = s
    BY <2>1, GoFacts DEF Restful
  <2>3. job' = [job EXCEPT ![j] = r]
    BY <1>2, <2>1 DEF Go, RolloutTypes
  <2> QED
    BY <2>2, <2>3, RestsStay
<1> QED
  BY <1>1, <1>2

LEMMA RefusalsStay ==
    ASSUME RolloutTypes, RolloutInv, NEW j \in Jobs, UNCHANGED <<project, limits>>,
           \/ RefuseToStart(j) \/ RefuseDowngrade(j) \/ FailValidation(j) \/ FailToOpen(j) \/ FinishSupersession(j)
    PROVE  RolloutTypes' /\ RolloutInv'
<1>1. job[j].stage \notin {"comment", "alert"} /\ UNCHANGED <<limits, project, requests, tracking>>
  BY DEF RefuseToStart, RefuseDowngrade, FailValidation, FailToOpen, FinishSupersession, JobAt, Block
<1>2. Abort(j) \/ \E s \in Restful : Go(j, s)
  <2>1. CASE FinishSupersession(j)
    <3>1. PICK s : s = IF job[j].version = 0 THEN "observe" ELSE IF job[j].prepared THEN "recovery" ELSE "idle"
      OBVIOUS
    <3>2. s \in Restful /\ Go(j, s)
      BY <2>1, <3>1 DEF FinishSupersession, Go, Restful
    <3> QED
      BY <3>2
  <2> QED
    BY <2>1 DEF RefuseToStart, RefuseDowngrade, FailValidation, FailToOpen, Block, Restful
<1> QED
  BY <1>1, <1>2, GoesToRest

LEMMA UpToDateStays ==
    ASSUME RolloutTypes, RolloutInv, NEW j \in Jobs, UNCHANGED <<project, limits>>, UpToDate(j)
    PROVE  RolloutTypes' /\ RolloutInv'
<1>1. PICK r : r = [job[j] EXCEPT !.stage = "list", !.prepared = TRUE]
  OBVIOUS
<1>2. r \in JobRecord /\ r.stage = "list"
  BY <1>1, JobType, ZenonT(40) DEF JobRecord
<1>3. job' = [job EXCEPT ![j] = r] /\ job[j].stage \notin {"comment", "alert"} /\ UNCHANGED <<limits, project, requests, tracking>>
  BY <1>1 DEF UpToDate, JobAt, RolloutTypes
<1> QED
  BY <1>2, <1>3, RestsStay DEF Restful

\* A job begins without a tree, a plan or an Issue.
LEMMA DispatchStays ==
    ASSUME RolloutTypes, RolloutInv, NEW j \in Jobs, UNCHANGED limits,
           (\E start \in {"list", "observe"} : DispatchMaintenance(j, start)) \/ \E v \in Versions : Dispatch(j, v)
    PROVE  RolloutTypes' /\ RolloutInv'
<1>1. PICK r : /\ r \in JobRecord /\ r.stage \in {"list", "observe", "pending"} /\ (r.stage = "pending" => r.version > 0)
               /\ job' = [job EXCEPT ![j] = r] /\ job[j].stage = "idle" /\ UNCHANGED <<limits, project, requests, tracking>>
  <2>1. ASSUME NEW start \in {"list", "observe"}, DispatchMaintenance(j, start)
        PROVE  \E r : /\ r \in JobRecord /\ r.stage \in {"list", "observe", "pending"} /\ (r.stage = "pending" => r.version > 0)
                      /\ job' = [job EXCEPT ![j] = r] /\ job[j].stage = "idle" /\ UNCHANGED <<limits, project, requests, tracking>>
    <3>1. PICK r : r = [IdleJob EXCEPT !.stage = start]
      OBVIOUS
    <3>2. r \in JobRecord /\ r.stage = start
      BY <3>1, NoRollout, ZenonT(40) DEF JobRecord
    <3>3. job' = [job EXCEPT ![j] = r] /\ job[j].stage = "idle" /\ UNCHANGED <<limits, project, requests, tracking>>
      BY <2>1, <3>1 DEF DispatchMaintenance, JobAt
    <3> QED
      BY <3>2, <3>3
  <2>2. ASSUME NEW v \in Versions, Dispatch(j, v)
        PROVE  \E r : /\ r \in JobRecord /\ r.stage \in {"list", "observe", "pending"} /\ (r.stage = "pending" => r.version > 0)
                      /\ job' = [job EXCEPT ![j] = r] /\ job[j].stage = "idle" /\ UNCHANGED <<limits, project, requests, tracking>>
    <3>1. PICK c, r : c = trunk.version /\ r = [IdleJob EXCEPT !.stage = "pending", !.version = v, !.clone = c]
      OBVIOUS
    <3>2. c \in Nat /\ v \in Nat /\ v > 0
      BY <3>1, VersionFacts DEF RolloutTypes, BranchRecord
    <3>3. r \in JobRecord /\ r.stage = "pending" /\ r.version = v
      BY <3>1, <3>2, NoRollout, ZenonT(40) DEF JobRecord
    <3>4. job' = [job EXCEPT ![j] = r] /\ job[j].stage = "idle" /\ UNCHANGED <<limits, project, requests, tracking>>
      BY <2>2, <3>1 DEF Dispatch, JobAt
    <3> QED
      BY <3>2, <3>3, <3>4
  <2> QED
    BY <2>1, <2>2
<1>2. RenderFits(r)
  BY <1>1 DEF RenderFits, Rendering
<1>3. PlanFits(r, limits.versions, requests, trunk.version) /\ IssueFits(r, issues)
  BY <1>1 DEF PlanFits, IssueFits
<1> QED
  BY <1>1, <1>2, <1>3, JobStays DEF project

LEMMA PendingStays ==
    ASSUME RolloutTypes, RolloutInv, NEW j \in Jobs, UNCHANGED limits, FindPending(j)
    PROVE  RolloutTypes' /\ RolloutInv'
<1>1. PICK s, a : /\ s = IF job[j].version \in EligibleRequests THEN "list" ELSE "prepare"
                  /\ a = IF job[j].version \in EligibleRequests THEN job[j].version ELSE 0
  OBVIOUS
<1>2. PICK r : r = [job[j] EXCEPT !.stage = s, !.authority = a]
  OBVIOUS
<1>3. r \in JobRecord /\ r.stage = s /\ r.version = job[j].version /\ s \in {"list", "prepare"}
  BY <1>1, <1>2, JobType, ZenonT(40) DEF JobRecord
<1>4. job' = [job EXCEPT ![j] = r] /\ job[j].stage = "pending" /\ UNCHANGED <<limits, project, requests, tracking>>
  BY <1>1, <1>2 DEF FindPending, JobAt, RolloutTypes
<1>5. RenderFits(r) /\ PlanFits(r, limits.versions, requests, trunk.version) /\ IssueFits(r, issues)
  BY <1>3, <1>4 DEF RolloutInv, RenderFits, PlanFits, IssueFits
<1> QED
  BY <1>3, <1>4, <1>5, JobStays DEF project

LEMMA BranchStays ==
    ASSUME RolloutTypes, RolloutInv, NEW j \in Jobs, UNCHANGED <<project, limits>>, CreateRolloutBranch(j)
    PROVE  RolloutTypes' /\ RolloutInv'
<1>1. PICK r : r = [job[j] EXCEPT !.stage = "runner", !.from = trunk, !.head = trunk]
  OBVIOUS
<1>2. trunk \in BranchRecord
  BY DEF RolloutTypes
<1>3. r \in JobRecord /\ r.stage = "runner" /\ r.version = job[j].version /\ r.from = r.head
  BY <1>1, <1>2, JobType, ZenonT(40) DEF JobRecord
<1>4. job' = [job EXCEPT ![j] = r] /\ job[j].stage = "prepare" /\ UNCHANGED <<limits, project, requests, tracking>>
  BY <1>1 DEF CreateRolloutBranch, JobAt, RolloutTypes
<1>5. RenderFits(r)
  BY <1>3, <1>4 DEF RolloutInv, RenderFits
<1>6. PlanFits(r, limits.versions, requests, trunk.version) /\ IssueFits(r, issues)
  BY <1>3 DEF PlanFits, IssueFits
<1> QED
  BY <1>3, <1>4, <1>5, <1>6, JobStays DEF project

\* Stages of the render need no more than RenderFits.
LEMMA RendersStay ==
    ASSUME RolloutTypes, RolloutInv, NEW j \in Jobs, NEW r \in JobRecord, job' = [job EXCEPT ![j] = r],
           r.stage \in Rendering, RenderFits(r), job[j].stage \notin {"comment", "alert"}, UNCHANGED <<limits, project, requests, tracking>>
    PROVE  RolloutTypes' /\ RolloutInv'
<1>1. PlanFits(r, limits.versions, requests, trunk.version) /\ IssueFits(r, issues)
  BY DEF Rendering, PlanFits, IssueFits
<1> QED
  BY <1>1, JobStays DEF project, Rendering

\* The answer that a hand-named runner becomes.
LEMMA MigrationFacts ==
    ASSUME RolloutTypes, NEW b \in BranchRecord, b.version = 0, Migratable(b), NEW p \in Paths
    PROVE  /\ Restored(b.tree, p) \in TreeFile
           /\ p \in RunnerPaths => Restored(b.tree, p).own = "none" /\ b.tree[p].own = "runner"
           /\ p \notin RunnerPaths => Restored(b.tree, p) = b.tree[p]
<1>1. b.tree[p] \in TreeFile
  BY DEF BranchRecord
<1>2. CASE p \in RunnerPaths
  <2>1. p \in CustomRunners(b.tree) /\ Restored(b.tree, p) = Render(p, 0, FALSE)
    BY <1>2 DEF Migratable
  <2>2. Restored(b.tree, p) \in TreeFile /\ Restored(b.tree, p).own = "none"
    <3>1. 0 \in Nat /\ FALSE \in BOOLEAN
      OBVIOUS
    <3>2. Render(p, 0, FALSE) \in TreeFile /\ Render(p, 0, FALSE).own = "none"
      BY <3>1, RenderFacts
    <3> QED
      BY <2>1, <3>2
  <2>3. b.tree[p].own \in Naming
    BY <2>1 DEF CustomRunners, NamesRunner, Naming
  <2>4. b.tree[p].own # "both"
    <3> SUFFICES ASSUME b.tree[p].own = "both" PROVE FALSE
      OBVIOUS
    <3>1. Restored(b.tree, p) = [b.tree[p] EXCEPT !.own = "edit"]
      BY <2>1 DEF Restored
    <3> QED
      BY <1>1, <2>2, <3>1 DEF TreeFile
  <2> QED
    BY <1>2, <2>2, <2>3, <2>4 DEF Naming
<1>3. CASE p \notin RunnerPaths
  BY <1>1, <1>3 DEF Restored, CustomRunners
<1> QED
  BY <1>2, <1>3

LEMMA MigrationStays ==
    ASSUME RolloutTypes, RolloutInv, NEW j \in Jobs, UNCHANGED <<project, limits>>, MigrateRunner(j)
    PROVE  RolloutTypes' /\ RolloutInv'
<1>1. /\ job[j].stage = "runner" /\ job[j].version > 0 /\ job[j].head = job[j].from
  BY DEF MigrateRunner, JobAt, RolloutInv, RenderFits, Rendering
<1>2. CASE /\ job[j].head.runner \/ RunnerAware(job[j].head.version) \/ CustomRunners(job[j].head.tree) = {}
           /\ Go(j, "update") /\ UNCHANGED <<requests, branches, tracking, faults>>
  <2>1. PICK r : r = [job[j] EXCEPT !.stage = "update"]
    OBVIOUS
  <2>2. r \in JobRecord /\ r.stage = "update" /\ r.version > 0 /\ r.head = job[j].head /\ r.from = r.head
    BY <1>1, <2>1, GoFacts
  <2>3. job' = [job EXCEPT ![j] = r]
    BY <1>2, <2>1 DEF Go, RolloutTypes
  <2>4. Begun(r)
    BY <2>2 DEF Begun
  <2>5. Named(r)
    BY <1>2, <2>2, JobFacts DEF Named, CustomRunners, NamesRunner, RunnerAware, Naming
  <2>6. RenderFits(r)
    BY <2>2, <2>4, <2>5 DEF RenderFits
  <2> QED
    BY <1>1, <1>2, <2>2, <2>3, <2>6, RendersStay DEF Rendering
<1>3. CASE /\ job[j].head.version = 0 /\ Migratable(job[j].head)
           /\ job' = [job EXCEPT ![j].stage = "update", ![j].head.runner = TRUE,
                                 ![j].head.tree = [p \in Paths |-> Restored(job[j].head.tree, p)]]
           /\ UNCHANGED <<requests, branches, tracking, faults>>
  <2>1. PICK t : t = [p \in Paths |-> Restored(job[j].head.tree, p)]
    OBVIOUS
  <2>2. t \in [Paths -> TreeFile]
    BY <1>3, <2>1, JobFacts, MigrationFacts
  <2>3. PICK h : h = [job[j].head EXCEPT !.runner = TRUE, !.tree = t]
    OBVIOUS
  <2>4. PICK r : r = [job[j] EXCEPT !.stage = "update", !.head = h]
    OBVIOUS
  <2>5. h \in BranchRecord /\ h.version = 0 /\ h.runner /\ h.tree = t
    BY <1>3, <2>2, <2>3, JobFacts DEF BranchRecord
  <2>6. /\ r \in JobRecord /\ r.stage = "update" /\ r.version > 0 /\ r.head = h /\ r.from = job[j].from
    BY <1>1, <2>4, <2>5, JobType, ZenonT(40) DEF JobRecord
  <2>7. job' = [job EXCEPT ![j] = r]
    <3>1. job' = [job EXCEPT ![j].stage = "update", ![j].head.runner = TRUE, ![j].head.tree = t]
      BY <1>3, <2>1
    <3>2. r = [job[j] EXCEPT !.stage = "update", !.head = [job[j].head EXCEPT !.runner = TRUE, !.tree = t]]
      BY <2>3, <2>4
    <3>3. job \in [Jobs -> JobRecord]
      BY DEF RolloutTypes
    <3> QED
      BY <3>1, <3>2, <3>3, ZenonT(40) DEF JobRecord, BranchRecord
  <2>8. \A p \in Paths : \/ h.tree[p].own = job[j].from.tree[p].own
                         \/ p \in RunnerPaths /\ h.tree[p].own = "none" /\ job[j].from.tree[p].own = "runner"
    BY <1>1, <1>3, <2>1, <2>5, JobFacts, MigrationFacts
  <2>9. Begun(r) /\ Named(r)
    BY <1>1, <1>3, <2>5, <2>6, <2>8 DEF Begun, Named
  <2>10. RenderFits(r)
    BY <2>6, <2>9 DEF RenderFits
  <2> QED
    BY <1>1, <1>3, <2>6, <2>7, <2>10, RendersStay DEF Rendering
<1>4. CASE Block(j)
  BY <1>1, <1>4, GoesToRest DEF Block, Restful
<1>5. job[j].head.version \in Nat
  BY JobFacts
<1> QED
  BY <1>2, <1>3, <1>4, <1>5 DEF MigrateRunner, RunnerAware

\* A spoilt file is still a file.
LEMMA DamageFacts ==
    ASSUME NEW t \in [Paths -> TreeFile], NEW spoilt
    PROVE  /\ Damage(t, spoilt) \in [Paths -> TreeFile]
           /\ \A p \in Paths : p \notin spoilt => Damage(t, spoilt)[p] = t[p]
  BY DEF Damage, TreeFile, Own

LEMMA ReplayedFacts ==
    ASSUME RolloutTypes, NEW b \in BranchRecord, NEW p \in Paths, NEW v \in Nat, v > 0
    PROVE  /\ Replayed(b, p, v) \in TreeFile
           /\ b.version = 0 /\ b.runner /\ p \in RunnerPaths /\ b.tree[p].own \in Naming \cup {"none"} =>
                  Replayed(b, p, v).own \in Naming
<1>1. b.tree[p] \in TreeFile /\ b.version \in Nat /\ b.runner \in BOOLEAN
  BY DEF BranchRecord
<1>2. PICK ours, old, new : ours = b.tree[p] /\ old = Render(p, b.version, b.runner) /\ new = Render(p, v, b.runner)
  OBVIOUS
<1>3. /\ ours \in TreeFile /\ old \in TreeFile /\ new \in TreeFile
      /\ old.own = IF b.runner /\ b.version > 0 /\ p \in RunnerPaths THEN "runner" ELSE "none"
      /\ new.own = IF b.runner /\ p \in RunnerPaths THEN "runner" ELSE "none"
  BY <1>1, <1>2, RenderFacts
<1>4. PICK both : both = [new EXCEPT !.own = IF new.own = "runner" /\ ours.own = "edit" THEN "both" ELSE ours.own]
  OBVIOUS
<1>5. both \in TreeFile /\ both.own = IF new.own = "runner" /\ ours.own = "edit" THEN "both" ELSE ours.own
  BY <1>3, <1>4 DEF TreeFile, Own
<1>6. Replayed(b, p, v) = IF p \in OwnedPaths \/ old = new THEN ours ELSE IF ours.own = old.own \/ ours = new THEN new ELSE both
  BY <1>2, <1>4 DEF Replayed
<1>7. p \in RunnerPaths => p \notin OwnedPaths
  BY RolloutAssumption
<1> QED
  BY <1>2, <1>3, <1>5, <1>6, <1>7 DEF Naming

LEMMA UpdateStays ==
    ASSUME RolloutTypes, RolloutInv, NEW j \in Jobs, UNCHANGED <<project, limits>>, UpdateProject(j)
    PROVE  RolloutTypes' /\ RolloutInv'
<1>1. /\ job[j].stage = "update" /\ job[j].version > 0 /\ Begun(job[j]) /\ Named(job[j])
      /\ job[j].from.version <= job[j].version /\ UNCHANGED <<limits, project, requests, tracking>>
  BY DEF UpdateProject, JobAt, RolloutInv, RenderFits, Rendering, Begun
<1>2. PICK rejects \in SUBSET {p \in limits.paths : Rewrites(job[j].head, p, job[j].version)}, spoilt \in SUBSET OwnedPaths :
          job' = IF rejects = {}
                 THEN [job EXCEPT ![j].stage = "rendered", ![j].conflicts = {}, ![j].head.version = job[j].version,
                                  ![j].head.tree = Damage([p \in Paths |-> Replayed(job[j].head, p, job[j].version)], spoilt)]
                 ELSE [job EXCEPT ![j].stage = "classify", ![j].conflicts = rejects]
  BY DEF UpdateProject
<1>3. CASE rejects = {}
  <2>1. PICK q, t : q = [p \in Paths |-> Replayed(job[j].head, p, job[j].version)] /\ t = Damage(q, spoilt)
    OBVIOUS
  <2>2. q \in [Paths -> TreeFile] /\ \A p \in Paths : q[p] = Replayed(job[j].head, p, job[j].version)
    BY <1>1, <2>1, JobFacts, ReplayedFacts
  <2>3. t \in [Paths -> TreeFile] /\ \A p \in Paths : p \notin OwnedPaths => t[p] = q[p]
    BY <2>1, <2>2, DamageFacts
  <2>4. PICK h : h = [job[j].head EXCEPT !.version = job[j].version, !.tree = t]
    OBVIOUS
  <2>5. PICK r : r = [job[j] EXCEPT !.stage = "rendered", !.conflicts = {}, !.head = h]
    OBVIOUS
  <2>6. /\ r \in JobRecord /\ r.stage = "rendered" /\ r.version = job[j].version /\ r.from = job[j].from /\ r.conflicts = {}
        /\ r.head.version = job[j].version /\ r.head.runner = job[j].head.runner /\ r.head.tree = t
    <3>1. /\ h \in BranchRecord /\ h.version = job[j].version /\ h.runner = job[j].head.runner /\ h.tree = t
      BY <2>3, <2>4, JobFacts DEF BranchRecord
    <3>2. {} \in SUBSET Paths
      OBVIOUS
    <3>3. r \in JobRecord /\ r.stage = "rendered" /\ r.version = job[j].version /\ r.from = job[j].from /\ r.conflicts = {} /\ r.head = h
      BY <2>5, <3>1, <3>2, JobType, ZenonT(40) DEF JobRecord
    <3> QED
      BY <3>1, <3>3
  <2>7. job' = [job EXCEPT ![j] = r]
    <3>1. job' = [job EXCEPT ![j].stage = "rendered", ![j].conflicts = {}, ![j].head.version = job[j].version, ![j].head.tree = t]
      BY <1>2, <1>3, <2>1
    <3>2. r = [job[j] EXCEPT !.stage = "rendered", !.conflicts = {},
                             !.head = [job[j].head EXCEPT !.version = job[j].version, !.tree = t]]
      BY <2>4, <2>5
    <3>3. PICK b : b = [job[j] EXCEPT !.stage = "rendered", !.conflicts = {}]
      OBVIOUS
    <3>4. b \in JobRecord /\ b.head = job[j].head
      BY <3>3, JobType, ZenonT(40) DEF JobRecord
    <3>5. r = [b EXCEPT !.head = [b.head EXCEPT !.version = job[j].version, !.tree = t]]
      BY <3>2, <3>3, <3>4, JobType, ZenonT(40) DEF JobRecord
    <3>6. job' = [[job EXCEPT ![j] = b] EXCEPT ![j].head.version = job[j].version, ![j].head.tree = t]
      BY <3>1, <3>3, JobFacts DEF RolloutTypes
    <3>7. [job EXCEPT ![j] = b] \in [Jobs -> JobRecord] /\ [job EXCEPT ![j] = b][j] = b
      BY <3>4 DEF RolloutTypes
    <3> QED
      BY <3>4, <3>5, <3>6, <3>7, ZenonT(40) DEF JobRecord, BranchRecord
  <2>8. Named(r) /\ WillSurvive(r)
    BY <1>1, <2>6 DEF Named, WillSurvive
  <2>9. NamesStay(r)
    <3> SUFFICES ASSUME r.from.version = 0, NEW p \in RunnerPaths, r.from.tree[p].own \in Naming
                 PROVE  r.head.tree[p].own \in Naming
      BY DEF NamesStay
    <3>1. p \in Paths /\ p \notin OwnedPaths
      BY RolloutAssumption
    <3>2. job[j].head.runner /\ job[j].head.version = 0 /\ job[j].head.tree[p].own \in Naming \cup {"none"}
      BY <1>1, <2>6, <3>1 DEF Named, Begun
    <3>3. Replayed(job[j].head, p, job[j].version).own \in Naming
      BY <1>1, <3>1, <3>2, JobFacts, ReplayedFacts
    <3> QED
      BY <2>2, <2>3, <2>6, <3>1, <3>3
  <2>10. RenderFits(r)
    BY <1>1, <2>6, <2>8, <2>9 DEF RenderFits
  <2> QED
    BY <1>1, <2>6, <2>7, <2>10, RendersStay DEF Rendering
<1>4. CASE rejects # {}
  <2>1. PICK r : r = [job[j] EXCEPT !.stage = "classify", !.conflicts = rejects]
    OBVIOUS
  <2>2. /\ r \in JobRecord /\ r.stage = "classify" /\ r.version = job[j].version /\ r.from = job[j].from /\ r.head = job[j].head
    BY <2>1, JobType, VersionFacts, ZenonT(40) DEF JobRecord
  <2>3. job' = [job EXCEPT ![j] = r]
    BY <1>2, <1>4, <2>1 DEF RolloutTypes
  <2>4. Begun(r) /\ Named(r)
    BY <1>1, <2>2 DEF Begun, Named
  <2>5. RenderFits(r)
    BY <1>1, <2>2, <2>4 DEF RenderFits
  <2> QED
    BY <1>1, <2>2, <2>3, <2>5, RendersStay DEF Rendering
<1> QED
  BY <1>3, <1>4

\* What a job may render over: everything there was the template's, or is rendered as it was.
LEMMA ExpectedSurvives ==
    ASSUME RolloutTypes, NEW j \in Jobs, job[j].version > 0, Begun(job[j]),
           Unexpected(job[j].head, job[j].conflicts, job[j].version) = {}
    PROVE  WillSurvive(job[j])
<1> SUFFICES ASSUME NEW p \in job[j].conflicts \ OwnedPaths
             PROVE  \/ job[j].from.tree[p].own = "none"
                    \/ job[j].from.tree[p].own = IF job[j].head.runner /\ p \in RunnerPaths THEN "runner" ELSE "none"
  BY DEF WillSurvive
<1>1. p \in Paths
  BY JobFacts
<1>2. /\ Render(p, job[j].version, FALSE).own = "none"
      /\ Render(p, job[j].head.version, job[j].head.runner).own
             \in IF job[j].head.runner /\ p \in RunnerPaths THEN {"runner", "none"} ELSE {"none"}
      /\ Render(p, job[j].version, job[j].head.runner).own
             \in IF job[j].head.runner /\ p \in RunnerPaths THEN {"runner", "none"} ELSE {"none"}
  <2>1. FALSE \in BOOLEAN /\ job[j].head.runner \in BOOLEAN /\ job[j].version \in Nat /\ job[j].head.version \in Nat
    BY JobFacts
  <2>2. Render(p, job[j].version, FALSE).own = "none"
    BY <1>1, <2>1, RenderFacts
  <2>3. Render(p, job[j].head.version, job[j].head.runner).own
            = IF job[j].head.runner /\ job[j].head.version > 0 /\ p \in RunnerPaths THEN "runner" ELSE "none"
    BY <1>1, <2>1, RenderFacts
  <2>4. Render(p, job[j].version, job[j].head.runner).own
            = IF job[j].head.runner /\ job[j].version > 0 /\ p \in RunnerPaths THEN "runner" ELSE "none"
    BY <1>1, <2>1, RenderFacts
  <2> QED
    BY <2>2, <2>3, <2>4
<1>3. \/ job[j].head.tree[p] = Render(p, job[j].version, FALSE)
      \/ job[j].head.tree[p] = Render(p, job[j].head.version, job[j].head.runner)
      \/ job[j].head.tree[p] = Render(p, job[j].version, job[j].head.runner)
  BY DEF Unexpected, Recoverable, Reclaimed, BaselineEquivalent, EqualToBaseline, TargetEquivalent
<1>4. job[j].head.tree[p].own = "none" \/ (job[j].head.tree[p].own = "runner" /\ job[j].head.runner /\ p \in RunnerPaths)
  BY <1>2, <1>3
<1> QED
  BY <1>1, <1>4 DEF Begun

LEMMA ClassifyStays ==
    ASSUME RolloutTypes, RolloutInv, NEW j \in Jobs, UNCHANGED <<project, limits>>, ClassifyConflicts(j)
    PROVE  RolloutTypes' /\ RolloutInv'
<1>1. /\ job[j].stage = "classify" /\ job[j].version > 0 /\ Begun(job[j]) /\ Named(job[j])
      /\ job[j].from.version <= job[j].version /\ UNCHANGED <<limits, project, requests, tracking>>
  BY DEF ClassifyConflicts, Block, JobAt, RolloutInv, RenderFits, Rendering
<1>2. CASE Unexpected(job[j].head, job[j].conflicts, job[j].version) = {}
  <2>1. PICK r : r = [job[j] EXCEPT !.stage = "recopy"]
    OBVIOUS
  <2>2. /\ r \in JobRecord /\ r.stage = "recopy" /\ r.version = job[j].version /\ r.from = job[j].from /\ r.head = job[j].head
        /\ r.conflicts = job[j].conflicts
    BY <2>1, GoFacts
  <2>3. job' = [job EXCEPT ![j] = r]
    BY <1>2, <2>1 DEF ClassifyConflicts, Go, RolloutTypes
  <2>4. WillSurvive(job[j])
    BY <1>1, <1>2, ExpectedSurvives
  <2>5. Begun(r) /\ Named(r) /\ WillSurvive(r)
    BY <1>1, <2>2, <2>4 DEF Begun, Named, WillSurvive
  <2>6. RenderFits(r)
    BY <1>1, <2>2, <2>5 DEF RenderFits
  <2> QED
    BY <1>1, <2>2, <2>3, <2>6, RendersStay DEF Rendering
<1>3. CASE Unexpected(job[j].head, job[j].conflicts, job[j].version) # {}
  BY <1>1, <1>3, GoesToRest DEF ClassifyConflicts, Block, Restful
<1> QED
  BY <1>2, <1>3

LEMMA RecopyStays ==
    ASSUME RolloutTypes, RolloutInv, NEW j \in Jobs, UNCHANGED <<project, limits>>, Recopy(j)
    PROVE  RolloutTypes' /\ RolloutInv'
<1>1. /\ job[j].stage = "recopy" /\ job[j].version > 0 /\ Named(job[j]) /\ WillSurvive(job[j])
      /\ job[j].from.version <= job[j].version /\ UNCHANGED <<limits, project, requests, tracking>>
  BY DEF Recopy, JobAt, RolloutInv, RenderFits, Rendering
<1>2. PICK spoilt \in SUBSET (OwnedPaths \cup job[j].conflicts) :
          job' = [job EXCEPT ![j].stage = "rendered", ![j].head.version = job[j].version,
                             ![j].head.tree = Damage([p \in Paths |-> Recopied(job[j].head, p, job[j].version)], spoilt)]
  BY DEF Recopy
<1>3. PICK q, t : q = [p \in Paths |-> Recopied(job[j].head, p, job[j].version)] /\ t = Damage(q, spoilt)
  OBVIOUS
<1>4. /\ q \in [Paths -> TreeFile]
      /\ \A p \in Paths \ OwnedPaths : q[p] = Render(p, job[j].version, job[j].head.runner)
  BY <1>3, JobFacts, RenderFacts DEF Recopied
<1>5. t \in [Paths -> TreeFile] /\ \A p \in Paths : p \notin OwnedPaths \cup job[j].conflicts => t[p] = q[p]
  BY <1>3, <1>4, DamageFacts
<1>6. PICK h : h = [job[j].head EXCEPT !.version = job[j].version, !.tree = t]
  OBVIOUS
<1>7. PICK r : r = [job[j] EXCEPT !.stage = "rendered", !.conflicts = job[j].conflicts, !.head = h]
  OBVIOUS
<1>8. /\ r \in JobRecord /\ r.stage = "rendered" /\ r.version = job[j].version /\ r.from = job[j].from
      /\ r.conflicts = job[j].conflicts
      /\ r.head.version = job[j].version /\ r.head.runner = job[j].head.runner /\ r.head.tree = t
  <2>1. /\ h \in BranchRecord /\ h.version = job[j].version /\ h.runner = job[j].head.runner /\ h.tree = t
    BY <1>5, <1>6, JobFacts DEF BranchRecord
  <2>2. /\ r \in JobRecord /\ r.stage = "rendered" /\ r.version = job[j].version /\ r.from = job[j].from
        /\ r.conflicts = job[j].conflicts /\ r.head = h
    BY <1>7, <2>1, JobType, ZenonT(40) DEF JobRecord
  <2> QED
    BY <2>1, <2>2
<1>9. job' = [job EXCEPT ![j] = r]
  <2>1. job' = [job EXCEPT ![j].stage = "rendered", ![j].head.version = job[j].version, ![j].head.tree = t]
    BY <1>2, <1>3
  <2>2. r = [job[j] EXCEPT !.stage = "rendered", !.conflicts = job[j].conflicts,
                           !.head = [job[j].head EXCEPT !.version = job[j].version, !.tree = t]]
    BY <1>6, <1>7
  <2>3. job \in [Jobs -> JobRecord]
    BY DEF RolloutTypes
  <2> QED
    BY <2>1, <2>2, <2>3, ZenonT(40) DEF JobRecord, BranchRecord
<1>10. Named(r) /\ WillSurvive(r)
  BY <1>1, <1>8 DEF Named, WillSurvive
<1>11. NamesStay(r)
  <2> SUFFICES ASSUME r.from.version = 0, NEW p \in RunnerPaths \ r.conflicts, r.from.tree[p].own \in Naming
               PROVE  r.head.tree[p].own \in Naming
    BY DEF NamesStay
  <2>1. p \in Paths /\ p \notin OwnedPaths
    BY RolloutAssumption
  <2>2. job[j].head.runner
    BY <1>1, <1>8 DEF Named
  <2>3. Render(p, job[j].version, job[j].head.runner).own = "runner"
    BY <1>1, <2>1, <2>2, JobFacts, RenderFacts
  <2> QED
    BY <1>4, <1>5, <1>8, <2>1, <2>3 DEF Naming
<1>12. RenderFits(r)
  BY <1>1, <1>8, <1>10, <1>11 DEF RenderFits
<1> QED
  BY <1>1, <1>8, <1>9, <1>12, RendersStay DEF Rendering

\* What passes the proofs after a render has kept the work.
LEMMA CheckedIsFit ==
    ASSUME RolloutTypes, NEW j \in Jobs, job[j].version > 0, job[j].head.version = job[j].version,
           Named(job[j]), WillSurvive(job[j]), NamesStay(job[j]), OwnedIntact(j), ConflictsRendered(j)
    PROVE  Fit(job[j].from, job[j].head, job[j].conflicts)
<1>1. \A p \in job[j].conflicts \ OwnedPaths :
          job[j].head.tree[p].own = IF job[j].head.runner /\ p \in RunnerPaths THEN "runner" ELSE "none"
  BY JobFacts, RenderFacts DEF ConflictsRendered
<1>2. \A p \in job[j].conflicts \ OwnedPaths : Survives(job[j].from.tree[p], job[j].head.tree[p])
  BY <1>1 DEF Survives, WillSurvive
<1>3. ASSUME NEW p \in RunnerPaths, ~RunnerAware(job[j].from.version), job[j].from.tree[p].own \in Naming
      PROVE  job[j].head.tree[p].own \in Naming
  <2>1. job[j].from.version = 0
    BY <1>3, JobFacts DEF RunnerAware
  <2>2. p \notin OwnedPaths
    BY RolloutAssumption
  <2>3. CASE p \in job[j].conflicts
    BY <1>1, <1>3, <2>1, <2>2, <2>3 DEF Named, Naming
  <2>4. CASE p \notin job[j].conflicts
    BY <1>3, <2>1, <2>4 DEF NamesStay
  <2> QED
    BY <2>3, <2>4
<1> QED
  BY <1>2, <1>3 DEF Fit, OwnedIntact

LEMMA ChecksStay ==
    ASSUME RolloutTypes, RolloutInv, NEW j \in Jobs, UNCHANGED <<project, limits>>, CheckRender(j) \/ Validate(j)
    PROVE  RolloutTypes' /\ RolloutInv'
<1>1. /\ job[j].stage \in {"rendered", "validate"} /\ RenderFits(job[j])
      /\ UNCHANGED <<limits, project, requests, tracking>>
  BY DEF CheckRender, Validate, Block, JobAt, RolloutInv
<1>2. /\ job[j].version > 0 /\ job[j].head.version = job[j].version /\ job[j].from.version <= job[j].version
  BY <1>1 DEF RenderFits, Rendering
<1>3. CASE Validate(j)
  <2>1. PICK r : r = [job[j] EXCEPT !.stage = "push", !.prepared = TRUE]
    OBVIOUS
  <2>2. /\ r \in JobRecord /\ r.stage = "push" /\ r.version = job[j].version /\ r.from = job[j].from /\ r.head = job[j].head
        /\ r.conflicts = job[j].conflicts
    BY <2>1, JobType, ZenonT(40) DEF JobRecord
  <2>3. job' = [job EXCEPT ![j] = r] /\ job[j].stage = "validate"
    BY <1>3, <2>1 DEF Validate, JobAt, RolloutTypes
  <2>4. RenderFits(r)
    BY <1>1, <1>2, <2>2, <2>3 DEF RenderFits
  <2> QED
    BY <1>1, <2>2, <2>3, <2>4, RendersStay DEF Rendering
<1>4. CASE CheckRender(j) /\ OwnedIntact(j) /\ ConflictsRendered(j) /\ Rewritten(j)
  <2>1. PICK r : r = [job[j] EXCEPT !.stage = "validate"]
    OBVIOUS
  <2>2. /\ r \in JobRecord /\ r.stage = "validate" /\ r.version = job[j].version /\ r.from = job[j].from /\ r.head = job[j].head
        /\ r.conflicts = job[j].conflicts
    BY <2>1, GoFacts
  <2>3. job' = [job EXCEPT ![j] = r] /\ job[j].stage = "rendered"
    BY <1>4, <2>1 DEF CheckRender, Go, JobAt, RolloutTypes
  <2>4. Fit(job[j].from, job[j].head, job[j].conflicts)
    BY <1>1, <1>2, <1>4, <2>3, CheckedIsFit DEF RenderFits
  <2>5. RenderFits(r)
    BY <1>2, <2>2, <2>4 DEF RenderFits
  <2> QED
    BY <1>1, <2>2, <2>3, <2>5, RendersStay DEF Rendering
<1>5. CASE CheckRender(j) /\ ~(OwnedIntact(j) /\ ConflictsRendered(j) /\ Rewritten(j))
  BY <1>1, <1>5, GoesToRest DEF CheckRender, Block, Restful
<1> QED
  BY <1>3, <1>4, <1>5

\* A branch that another job has pushed ends the rollout.
LEMMA PushStays ==
    ASSUME RolloutTypes, RolloutInv, NEW j \in Jobs, UNCHANGED <<project, limits>>, PushRollout(j)
    PROVE  RolloutTypes' /\ RolloutInv'
<1>1. job[j].stage = "push" /\ RenderFits(job[j]) /\ UNCHANGED <<limits, project, requests, tracking>>
  BY DEF PushRollout, JobAt, RolloutInv
<1>2. CASE Abort(j)
  BY <1>1, <1>2, GoesToRest
<1>3. CASE Go(j, "open")
  <2>1. PICK r : r = [job[j] EXCEPT !.stage = "open"]
    OBVIOUS
  <2>2. /\ r \in JobRecord /\ r.stage = "open" /\ r.version = job[j].version /\ r.from = job[j].from /\ r.head = job[j].head
        /\ r.conflicts = job[j].conflicts
    BY <2>1, GoFacts
  <2>3. job' = [job EXCEPT ![j] = r]
    BY <1>3, <2>1 DEF Go, RolloutTypes
  <2>4. RenderFits(r)
    BY <1>1, <2>2 DEF RenderFits, Rendering
  <2> QED
    BY <1>1, <2>2, <2>3, <2>4, RendersStay DEF Rendering
<1> QED
  BY <1>2, <1>3 DEF PushRollout

-----------------------------------------------------------------------------
(* The rollout: requests open, merge and close. *)

\* The requests that a job has listed include the authority, which is open.
LEMMA ListStays ==
    ASSUME RolloutTypes, RolloutInv, NEW j \in Jobs, UNCHANGED <<project, limits>>, ListRequests(j)
    PROVE  RolloutTypes' /\ RolloutInv'
<1>1. job[j].stage = "list" /\ UNCHANGED <<limits, project, requests, tracking>>
  BY DEF ListRequests, JobAt
<1>2. PICK a : a = IF job[j].authority = 0 THEN Newest(EligibleRequests) ELSE job[j].authority
  OBVIOUS
<1>3. CASE a \in EligibleRequests \cup {0}
  <2>1. PICK r : r = [job[j] EXCEPT !.stage = "plan", !.authority = a, !.plan = EligibleRequests]
    OBVIOUS
  <2>2. EligibleRequests \subseteq Versions /\ \A v \in EligibleRequests : requests[v].state = "open"
    BY DEF EligibleRequests
  <2>3. EligibleRequests \subseteq Nat /\ a \in Nat
    BY <1>3, <2>2, VersionFacts
  <2>4. r \in JobRecord /\ r.stage = "plan" /\ r.authority = a
    BY <2>1, <2>3, JobType, ZenonT(40) DEF JobRecord
  <2>5. job' = [job EXCEPT ![j] = r]
    BY <1>2, <1>3, <2>1 DEF ListRequests, RolloutTypes
  <2>6. a # 0 => a \in 1..limits.versions /\ a <= a /\ requests[a].state \in Live
    BY <1>3, <2>2, <2>3 DEF Versions, Live
  <2>7. PlanFits(r, limits.versions, requests, trunk.version)
    BY <2>4, <2>6 DEF PlanFits, Led
  <2>8. RenderFits(r) /\ IssueFits(r, issues)
    BY <2>4 DEF RenderFits, Rendering, IssueFits
  <2> QED
    BY <1>1, <2>4, <2>5, <2>7, <2>8, JobStays DEF project
<1>4. CASE a \notin EligibleRequests \cup {0}
  BY <1>1, <1>2, <1>4, GoesToRest DEF ListRequests
<1> QED
  BY <1>3, <1>4

\* What a job plans to close is behind the default branch or behind the authority.
LEMMA PlanStays ==
    ASSUME RolloutTypes, RolloutInv, NEW j \in Jobs, UNCHANGED <<project, limits>>, PlanSupersession(j)
    PROVE  RolloutTypes' /\ RolloutInv'
<1>1. job[j].stage = "plan" /\ UNCHANGED <<limits, project, requests, tracking>>
  BY DEF PlanSupersession, JobAt
<1>2. PICK readable \in BOOLEAN :
          job' = [job EXCEPT ![j].stage = "close",
                             ![j].plan = {v \in @ : (readable /\ v <= trunk.version) \/ Supersedes(job[j].authority, v)}]
  BY DEF PlanSupersession
<1>3. PICK plan : plan = {v \in job[j].plan : (readable /\ v <= trunk.version) \/ Supersedes(job[j].authority, v)}
  OBVIOUS
<1>4. PICK r : r = [job[j] EXCEPT !.stage = "close", !.plan = plan]
  OBVIOUS
<1>5. plan \subseteq Nat
  BY <1>3, JobFacts
<1>6. r \in JobRecord /\ r.stage = "close" /\ r.plan = plan
  BY <1>4, <1>5, JobType, ZenonT(40) DEF JobRecord
<1>7. job' = [job EXCEPT ![j] = r]
  BY <1>2, <1>3, <1>4 DEF RolloutTypes
<1>8. ASSUME NEW v \in plan PROVE Overtaken(limits.versions, requests, trunk.version, v)
  <2>1. v \in Nat /\ trunk.version \in Nat /\ job[j].authority \in Nat /\ limits.versions \in Nat
    BY <1>5, JobFacts, VersionFacts DEF RolloutTypes, BranchRecord
  <2>2. CASE v <= trunk.version
    BY <2>2 DEF Overtaken
  <2>3. CASE Supersedes(job[j].authority, v)
    <3>1. job[j].authority # 0 /\ v < job[j].authority
      BY <2>3 DEF Supersedes, IsOlder
    <3>2. Led(limits.versions, requests, trunk.version, job[j].authority)
      BY <1>1, <3>1 DEF RolloutInv, PlanFits
    <3> QED
      BY <2>1, <3>1, <3>2 DEF Led, Overtaken
  <2> QED
    BY <1>3, <2>2, <2>3
<1>9. PlanFits(r, limits.versions, requests, trunk.version)
  BY <1>6, <1>8 DEF PlanFits
<1>10. RenderFits(r) /\ IssueFits(r, issues)
  BY <1>6 DEF RenderFits, Rendering, IssueFits
<1> QED
  BY <1>1, <1>6, <1>7, <1>9, <1>10, JobStays DEF project

\* The Issue of a streak is the last open one, and none if none is open.
LEMMA LastIssue ==
    ASSUME RolloutTypes
    PROVE  TrackingIssue \in Nat /\ (TrackingIssue \in OpenIn(issues) \/ (TrackingIssue = 0 /\ OpenIn(issues) = {}))
<1>1. Len(issues) \in Nat
  BY DEF RolloutTypes
<1>2. \A n \in OpenIn(issues) : n \in Nat /\ n > 0 /\ n <= Len(issues)
  BY <1>1 DEF OpenIn
<1>3. Tracked = OpenIn(issues)
  BY DEF Tracked, OpenIssues, OpenIn
<1>4. PICK S : S = OpenIn(issues) \cup {0}
  OBVIOUS
<1>5. S \subseteq Nat /\ 0 \in S /\ \A n \in S : n <= Len(issues)
  BY <1>1, <1>2, <1>4
<1>6. PICK m \in S : \A n \in S : n <= m
  BY <1>1, <1>5, GreatestNatural
<1>7. \E n \in Tracked \cup {0} : \A k \in Tracked : k <= n
  BY <1>3, <1>4, <1>6
<1>8. TrackingIssue \in Tracked \cup {0} /\ \A k \in Tracked : k <= TrackingIssue
  BY <1>7 DEF TrackingIssue
<1> QED
  BY <1>2, <1>3, <1>8

\* A job takes the Issue that it finds.
LEMMA FindStays ==
    ASSUME RolloutTypes, RolloutInv, NEW j \in Jobs, UNCHANGED <<project, limits>>,
           NEW here \in {"failure", "recovery", "observe"}, NEW after \in {"count", "resolve", "proof"},
           FindIssue(j, here, after)
    PROVE  RolloutTypes' /\ RolloutInv'
<1>1. job[j].stage \notin {"comment", "alert"} /\ UNCHANGED <<limits, project, requests, tracking>>
  BY DEF FindIssue, JobAt
<1>2. PICK t : t = TrackingIssue
  OBVIOUS
<1>3. t \in Nat /\ (t \in OpenIn(issues) \/ (t = 0 /\ OpenIn(issues) = {}))
  BY <1>2, LastIssue
<1>4. PICK found : found = IF t = 0 THEN NoIssue ELSE issues[t]
  OBVIOUS
<1>5. found \in FailureRecord
  BY <1>3, <1>4, NoRollout DEF OpenIn, RolloutTypes
<1>6. PICK r : r = [job[j] EXCEPT !.stage = after, !.issue = t, !.seen = found, !.stale = FALSE]
  OBVIOUS
<1>7. r \in JobRecord /\ r.stage = after /\ r.issue = t /\ r.seen = found
  BY <1>3, <1>5, <1>6, JobType, ZenonT(40) DEF JobRecord
<1>8. job' = [job EXCEPT ![j] = r]
  BY <1>2, <1>4, <1>6 DEF FindIssue, RolloutTypes
<1>9. RenderFits(r) /\ PlanFits(r, limits.versions, requests, trunk.version)
  BY <1>7 DEF RenderFits, Rendering, PlanFits
<1>10. IssueFits(r, issues)
  <2>1. Len(issues) \in Nat /\ OpenIn(issues) \subseteq 1..Len(issues)
    BY DEF RolloutTypes, OpenIn
  <2> QED
    BY <1>3, <1>4, <1>7, <2>1 DEF IssueFits, Agree
<1> QED
  BY <1>1, <1>7, <1>8, <1>9, <1>10, JobStays DEF project

\* Versions do not go back, and a request that leads somewhere goes on doing so.
LEMMA WaysStay ==
    ASSUME NEW top, NEW reqs, NEW reqs2, NEW has \in Nat, NEW has2 \in Nat, has <= has2,
           \A w \in 1..top : reqs[w].state \in Live => reqs2[w].state \in Live
    PROVE  \A v \in Nat : /\ Led(top, reqs, has, v) => Led(top, reqs2, has2, v)
                          /\ Overtaken(top, reqs, has, v) => Overtaken(top, reqs2, has2, v)
  BY DEF Led, Overtaken

\* The same when a request is closed that is not the last way.
LEMMA WaysStayOpen ==
    ASSUME NEW top \in Nat, NEW reqs, NEW reqs2, NEW has \in Nat, NEW c \in Nat, Overtaken(top, reqs, has, c),
           \A w \in 1..top : w # c => reqs2[w].state = reqs[w].state
    PROVE  \A v \in Nat : /\ Led(top, reqs, has, v) => Led(top, reqs2, has, v)
                          /\ Overtaken(top, reqs, has, v) => Overtaken(top, reqs2, has, v)
<1> SUFFICES ASSUME NEW v \in Nat
             PROVE  /\ Led(top, reqs, has, v) => Led(top, reqs2, has, v)
                    /\ Overtaken(top, reqs, has, v) => Overtaken(top, reqs2, has, v)
  OBVIOUS
<1>1. CASE c <= has
  <2>1. ASSUME v > has, NEW w \in 1..top, v <= w, reqs[w].state \in Live PROVE reqs2[w].state \in Live
    BY <1>1, <2>1
  <2> QED
    BY <2>1 DEF Led, Overtaken
<1>2. CASE c > has
  <2>1. PICK d \in 1..top : c < d /\ reqs2[d].state \in Live
    BY <1>2 DEF Overtaken
  <2> QED
    BY <2>1 DEF Led, Overtaken
<1> QED
  BY <1>1, <1>2

\* A step of one job, or of none, that keeps every way.
LEMMA WaysKept ==
    ASSUME RolloutTypes, RolloutInv, RolloutTypes', limits' = limits, NEW i \in Jobs, job'[i] = job[i],
           \A v \in Nat : /\ Led(limits.versions, requests, trunk.version, v) => Led(limits.versions, requests', trunk'.version, v)
                          /\ Overtaken(limits.versions, requests, trunk.version, v)
                                 => Overtaken(limits.versions, requests', trunk'.version, v)
    PROVE  RenderFits(job'[i]) /\ PlanFits(job'[i], limits.versions, requests', trunk'.version)
<1>1. RenderFits(job[i]) /\ PlanFits(job[i], limits.versions, requests, trunk.version)
  BY DEF RolloutInv
<1>2. job[i].plan \subseteq Nat /\ job[i].authority \in Nat
  BY JobFacts
<1>3. PlanFits(job[i], limits.versions, requests', trunk'.version)
  BY <1>1, <1>2 DEF PlanFits
<1> QED
  BY <1>1, <1>3

\* A job that is not at the tracker, before the step or after it, leaves the streak alone.
LEMMA StreakStays ==
    ASSUME RolloutTypes, RolloutInv, NEW j \in Jobs, NEW r \in JobRecord, job' = [job EXCEPT ![j] = r],
           job[j].stage \notin {"comment", "alert"},
           r.stage \notin {"count", "proof", "resolve", "settle", "comment", "alert"}, UNCHANGED <<limits, tracking>>
    PROVE  StreakInv'
<1>1. IssueFits(r, issues)
  BY DEF IssueFits
<1> QED
  BY <1>1, QuietStep

LEMMA RequestFacts ==
    ASSUME RolloutTypes, NEW v \in Versions
    PROVE  /\ requests[v] \in UpdateRecord /\ requests[v].bot \in BOOLEAN /\ requests[v].from \in BranchRecord
           /\ requests[v].head \in BranchRecord /\ requests[v].conflicts \subseteq Paths
           /\ requests[v].from.version \in Nat /\ requests[v].head.version \in Nat
           /\ v \in Nat /\ v \in 1..limits.versions /\ trunk \in BranchRecord /\ trunk.version \in Nat
<1>1. requests[v] \in UpdateRecord /\ trunk \in BranchRecord /\ v \in Nat
  BY VersionFacts DEF RolloutTypes
<1>2. requests[v].from \in BranchRecord /\ requests[v].head \in BranchRecord
  BY <1>1 DEF UpdateRecord
<1> QED
  BY <1>1, <1>2 DEF UpdateRecord, BranchRecord, Versions

\* A request that only changes its state.
LEMMA StateFacts ==
    ASSUME RolloutTypes, NEW v, NEW s \in {"open", "superseded", "merged", "rejected"}, requests' = [requests EXCEPT ![v].state = s]
    PROVE  /\ requests' \in [Versions -> UpdateRecord]
           /\ \A w \in Versions : /\ requests'[w].bot = requests[w].bot /\ requests'[w].from = requests[w].from
                                  /\ requests'[w].head = requests[w].head /\ requests'[w].conflicts = requests[w].conflicts
                                  /\ requests'[w].state = IF w = v THEN s ELSE requests[w].state
<1>1. requests \in [Versions -> UpdateRecord]
  BY DEF RolloutTypes
<1> QED
  BY <1>1 DEF UpdateRecord

LEMMA OpenStays ==
    ASSUME RolloutTypes, RolloutInv, NEW j \in Jobs, UNCHANGED <<project, limits>>, OpenRequest(j)
    PROVE  RolloutTypes' /\ RolloutInv'
<1>1. /\ job[j].stage = "open" /\ job[j].head.version = job[j].version /\ job[j].from.version <= job[j].version
      /\ Fit(job[j].from, job[j].head, job[j].conflicts) /\ UNCHANGED <<limits, project, tracking>>
  BY DEF OpenRequest, JobAt, RolloutInv, RenderFits
<1>2. PICK u : u = [state |-> "open", bot |-> TRUE, from |-> job[j].from, head |-> job[j].head, conflicts |-> job[j].conflicts]
  OBVIOUS
<1>3. u \in UpdateRecord /\ u.state = "open" /\ u.from = job[j].from /\ u.head = job[j].head /\ u.conflicts = job[j].conflicts
  BY <1>2, JobFacts DEF UpdateRecord
<1>4. PICK v, r : v = job[j].version /\ r = [job[j] EXCEPT !.stage = "list", !.authority = v]
  OBVIOUS
<1>5. r \in JobRecord /\ r.stage = "list"
  <2>1. job[j] \in JobRecord /\ v \in Nat
    BY <1>4, JobFacts
  <2> QED
    BY <1>4, <2>1, ZenonT(40) DEF JobRecord
<1>6. job' = [job EXCEPT ![j] = r] /\ requests' = [requests EXCEPT ![v] = u]
  BY <1>2, <1>4 DEF OpenRequest, RolloutTypes
<1>7. /\ requests' \in [Versions -> UpdateRecord]
      /\ \A w \in Versions : requests'[w] = IF w = v THEN u ELSE requests[w]
  BY <1>3, <1>6 DEF RolloutTypes
<1>8. job' \in [Jobs -> JobRecord] /\ job'[j] = r /\ \A i \in Jobs : i # j => job'[i] = job[i]
  BY <1>5, <1>6 DEF RolloutTypes
<1>9. RolloutTypes'
  BY <1>1, <1>7, <1>8 DEF RolloutTypes, Versions, project, tracking
<1>10. trunk'.version = trunk.version /\ trunk.version \in Nat
  BY <1>1 DEF project, RolloutTypes, BranchRecord
<1>11. \A w \in 1..limits.versions : requests[w].state \in Live => requests'[w].state \in Live
  BY <1>3, <1>7 DEF Versions, Live
<1>12. \A w \in Nat :
          /\ Led(limits.versions, requests, trunk.version, w) => Led(limits.versions, requests', trunk'.version, w)
          /\ Overtaken(limits.versions, requests, trunk.version, w) => Overtaken(limits.versions, requests', trunk'.version, w)
  BY <1>10, <1>11, WaysStay
<1>13. ASSUME NEW i \in Jobs PROVE RenderFits(job'[i]) /\ PlanFits(job'[i], limits.versions, requests', trunk'.version)
  <2>1. CASE i = j
    BY <1>5, <1>8, <2>1 DEF RenderFits, Rendering, PlanFits
  <2>2. CASE i # j
    BY <1>1, <1>8, <1>9, <1>12, <2>2, WaysKept
  <2> QED
    BY <2>1, <2>2
<1>14. RequestsFit(limits.versions, requests', trunk'.version)
  <2> SUFFICES ASSUME NEW w \in Versions
               PROVE  /\ requests'[w].bot => Fit(requests'[w].from, requests'[w].head, requests'[w].conflicts)
                      /\ requests'[w].state = "open" => requests'[w].from.version <= requests'[w].head.version
                      /\ requests'[w].state = "superseded" => Overtaken(limits.versions, requests', trunk'.version, w)
    BY DEF RequestsFit, Versions
  <2>1. CASE w = v
    BY <1>1, <1>3, <1>7, <2>1
  <2>2. CASE w # v
    <3>1. requests'[w] = requests[w]
      BY <1>7, <2>2
    <3> QED
      BY <1>12, <3>1, VersionFacts DEF RolloutInv, RequestsFit, Versions
  <2> QED
    BY <2>1, <2>2
<1>15. StreakInv'
  BY <1>1, <1>5, <1>6, StreakStays
<1> QED
  BY <1>1, <1>9, <1>13, <1>14, <1>15 DEF RolloutInv

LEMMA CloseStays ==
    ASSUME RolloutTypes, RolloutInv, NEW j \in Jobs, UNCHANGED <<project, limits>>, CloseAndDelete(j)
    PROVE  RolloutTypes' /\ RolloutInv'
<1>1. job[j].stage = "close" /\ job[j].plan # {} /\ UNCHANGED <<limits, project, tracking>>
  BY DEF CloseAndDelete, JobAt
<1>2. PICK v : v = CHOOSE c \in job[j].plan : \A w \in job[j].plan : c <= w
  OBVIOUS
<1>3. v \in job[j].plan /\ v \in Nat
  BY <1>1, <1>2, JobFacts, LeastNatural
<1>4. Overtaken(limits.versions, requests, trunk.version, v)
  BY <1>1, <1>3 DEF RolloutInv, PlanFits
<1>5. PICK s : s = IF requests[v].state = "open" THEN "superseded" ELSE requests[v].state
  OBVIOUS
<1>6. requests' = [requests EXCEPT ![v].state = s]
  BY <1>2, <1>5 DEF CloseAndDelete
<1>7. /\ requests' \in [Versions -> UpdateRecord]
      /\ \A w \in Versions : /\ requests'[w].bot = requests[w].bot /\ requests'[w].from = requests[w].from
                             /\ requests'[w].head = requests[w].head /\ requests'[w].conflicts = requests[w].conflicts
                             /\ requests'[w].state = IF w = v THEN s ELSE requests[w].state
  <2>1. v \in Versions => s \in {"none", "open", "superseded", "merged", "rejected"}
    BY <1>5 DEF RolloutTypes, UpdateRecord
  <2>2. requests \in [Versions -> UpdateRecord]
    BY DEF RolloutTypes
  <2> QED
    BY <1>6, <2>1, <2>2 DEF UpdateRecord
<1>8. PICK plan, r : plan = job[j].plan \ {v} /\ r = [job[j] EXCEPT !.plan = plan]
  OBVIOUS
<1>9. r \in JobRecord /\ r.stage = "close" /\ r.plan = plan /\ plan \subseteq job[j].plan
  BY <1>1, <1>8, JobType, ZenonT(40) DEF JobRecord
<1>10. job' = [job EXCEPT ![j] = r]
  BY <1>2, <1>8 DEF CloseAndDelete, RolloutTypes
<1>11. job' \in [Jobs -> JobRecord] /\ job'[j] = r /\ \A i \in Jobs : i # j => job'[i] = job[i]
  BY <1>9, <1>10 DEF RolloutTypes
<1>12. RolloutTypes'
  BY <1>1, <1>7, <1>11 DEF RolloutTypes, Versions, project, tracking
<1>13. trunk'.version = trunk.version /\ trunk.version \in Nat
  BY <1>1 DEF project, RolloutTypes, BranchRecord
<1>14. \A w \in 1..limits.versions : w # v => requests'[w].state = requests[w].state
  BY <1>7 DEF Versions
<1>15. \A w \in Nat :
          /\ Led(limits.versions, requests, trunk.version, w) => Led(limits.versions, requests', trunk'.version, w)
          /\ Overtaken(limits.versions, requests, trunk.version, w) => Overtaken(limits.versions, requests', trunk'.version, w)
  BY <1>3, <1>4, <1>13, <1>14, VersionFacts, WaysStayOpen
<1>16. ASSUME NEW i \in Jobs PROVE RenderFits(job'[i]) /\ PlanFits(job'[i], limits.versions, requests', trunk'.version)
  <2>1. CASE i = j
    <3>1. \A w \in plan : w \in Nat /\ Overtaken(limits.versions, requests, trunk.version, w)
      BY <1>1, <1>9, JobFacts DEF RolloutInv, PlanFits
    <3> QED
      BY <1>9, <1>11, <1>15, <2>1, <3>1 DEF RenderFits, Rendering, PlanFits
  <2>2. CASE i # j
    BY <1>1, <1>11, <1>12, <1>15, <2>2, WaysKept
  <2> QED
    BY <2>1, <2>2
<1>17. RequestsFit(limits.versions, requests', trunk'.version)
  <2> SUFFICES ASSUME NEW w \in Versions
               PROVE  /\ requests'[w].bot => Fit(requests'[w].from, requests'[w].head, requests'[w].conflicts)
                      /\ requests'[w].state = "open" => requests'[w].from.version <= requests'[w].head.version
                      /\ requests'[w].state = "superseded" => Overtaken(limits.versions, requests', trunk'.version, w)
    BY DEF RequestsFit, Versions
  <2>1. /\ requests[w].bot => Fit(requests[w].from, requests[w].head, requests[w].conflicts)
        /\ requests[w].state = "open" => requests[w].from.version <= requests[w].head.version
        /\ requests[w].state = "superseded" => Overtaken(limits.versions, requests, trunk.version, w)
    BY DEF RolloutInv, RequestsFit, Versions
  <2>2. w \in Nat /\ (w = v => Overtaken(limits.versions, requests, trunk.version, w))
    BY <1>4, VersionFacts
  <2> QED
    BY <1>5, <1>7, <1>15, <2>1, <2>2
<1>18. StreakInv'
  BY <1>1, <1>9, <1>10, StreakStays
<1> QED
  BY <1>1, <1>12, <1>16, <1>17, <1>18 DEF RolloutInv

-----------------------------------------------------------------------------
(* The rollout: the Issue that counts. *)

\* One Issue changes.
LEMMA IssueFacts ==
    ASSUME RolloutTypes, NEW n, NEW e, n \in 1..Len(issues) => e \in FailureRecord, issues' = [issues EXCEPT ![n] = e]
    PROVE  /\ issues' \in Seq(FailureRecord) /\ Len(issues') = Len(issues)
           /\ \A m \in 1..Len(issues) : issues'[m] = IF m = n THEN e ELSE issues[m]
<1>1. issues \in Seq(FailureRecord)
  BY DEF RolloutTypes
<1>2. CASE n \in 1..Len(issues)
  BY <1>1, <1>2
<1>3. CASE n \notin 1..Len(issues)
  <2>1. issues' = issues
    BY <1>1, <1>3
  <2> QED
    BY <1>1, <1>3, <2>1
<1> QED
  BY <1>2, <1>3

\* A reading that another step of the tracker makes stale.
LEMMA StaleJob ==
    ASSUME RolloutTypes, RolloutInv, NEW i \in Jobs, NEW q, q = IF Reading(i) THEN [job[i] EXCEPT !.stale = TRUE] ELSE job[i]
    PROVE  /\ q \in JobRecord /\ q.stage = job[i].stage /\ q.issue = job[i].issue /\ q.seen = job[i].seen
           /\ RenderFits(q) /\ PlanFits(q, limits.versions, requests, trunk.version)
           /\ \A iss \in Seq(FailureRecord) : Len(issues) <= Len(iss) => IssueFits(q, iss)
<1>1. job[i] \in JobRecord /\ job[i].issue \in Nat
  BY JobType DEF JobRecord
<1>2. RenderFits(job[i]) /\ PlanFits(job[i], limits.versions, requests, trunk.version) /\ IssueFits(job[i], issues)
  BY DEF RolloutInv, StreakInv
<1>3. Len(issues) \in Nat /\ \A iss \in Seq(FailureRecord) : Len(iss) \in Nat
  BY DEF RolloutTypes
<1>4. CASE ~Reading(i)
  <2>1. q = job[i] /\ job[i].stage \notin {"count", "proof", "resolve", "settle"}
    BY <1>4 DEF Reading
  <2> QED
    BY <1>1, <1>2, <2>1 DEF IssueFits
<1>5. CASE Reading(i)
  <2>1. q = [job[i] EXCEPT !.stale = TRUE]
    BY <1>5
  <2>2. q \in JobRecord /\ q.stage = job[i].stage /\ q.issue = job[i].issue /\ q.seen = job[i].seen /\ q.stale = TRUE
    BY <1>1, <2>1, ZenonT(40) DEF JobRecord
  <2>3. job[i].stage \in {"count", "proof", "resolve", "settle"}
    BY <1>5 DEF Reading
  <2>4. RenderFits(q) /\ PlanFits(q, limits.versions, requests, trunk.version)
    BY <2>2, <2>3 DEF RenderFits, Rendering, PlanFits
  <2>5. ASSUME NEW iss \in Seq(FailureRecord), Len(issues) <= Len(iss) PROVE IssueFits(q, iss)
    BY <1>1, <1>2, <1>3, <2>2, <2>3, <2>5 DEF IssueFits
  <2> QED
    BY <2>2, <2>4, <2>5
<1> QED
  BY <1>4, <1>5

\* A step of the tracker: what has to be shown of it.
LEMMA TrackerStays ==
    ASSUME RolloutTypes, RolloutInv, UNCHANGED <<limits, changes, trunk, requests>>, job' \in [Jobs -> JobRecord],
           issues' \in Seq(FailureRecord), failures' \in Nat, raced' \subseteq Nat, garbled' \subseteq Nat, unlabelled' \subseteq Nat,
           \A i \in Jobs : RenderFits(job'[i]) /\ PlanFits(job'[i], limits.versions, requests, trunk.version),
           \A i \in Jobs : IssueFits(job'[i], issues'), \A i \in Jobs : AlarmFits(job'[i], issues', raced'),
           CountFits(issues', failures', raced', garbled'), Labelled(job', issues', unlabelled')
    PROVE  RolloutTypes' /\ RolloutInv'
<1>1. RolloutTypes'
  BY DEF RolloutTypes, Versions
<1>2. StreakInv'
  BY DEF StreakInv
<1>3. RequestsFit(limits.versions, requests, trunk.version)
  BY DEF RolloutInv
<1> QED
  BY <1>1, <1>2, <1>3 DEF RolloutInv

\* A job writes to the tracker, and the readings of the others are stale.
LEMMA OvertakeFacts ==
    ASSUME RolloutTypes, RolloutInv, NEW j \in Jobs, NEW mine \in JobRecord, Overtake(j, mine),
           mine.stage \in {"idle", "comment", "alert"}, issues' \in Seq(FailureRecord), Len(issues) <= Len(issues')
    PROVE  /\ job' \in [Jobs -> JobRecord] /\ job'[j] = mine
           /\ \A i \in Jobs : RenderFits(job'[i]) /\ PlanFits(job'[i], limits.versions, requests, trunk.version)
           /\ \A i \in Jobs : IssueFits(job'[i], issues')
           /\ \A i \in Jobs : i # j => /\ job'[i].stage = job[i].stage /\ job'[i].issue = job[i].issue
                                       /\ job'[i].seen = job[i].seen
<1>1. job' = [i \in Jobs |-> IF i = j THEN mine ELSE IF Reading(i) THEN [job[i] EXCEPT !.stale = TRUE] ELSE job[i]]
  BY DEF Overtake
<1>2. job'[j] = mine /\ \A i \in Jobs : i # j => job'[i] = IF Reading(i) THEN [job[i] EXCEPT !.stale = TRUE] ELSE job[i]
  BY <1>1
<1>3. ASSUME NEW i \in Jobs, i # j
      PROVE  /\ job'[i] \in JobRecord /\ job'[i].stage = job[i].stage /\ job'[i].issue = job[i].issue /\ job'[i].seen = job[i].seen
             /\ RenderFits(job'[i]) /\ PlanFits(job'[i], limits.versions, requests, trunk.version) /\ IssueFits(job'[i], issues')
  <2>1. PICK q : q = IF Reading(i) THEN [job[i] EXCEPT !.stale = TRUE] ELSE job[i]
    OBVIOUS
  <2>2. /\ q \in JobRecord /\ q.stage = job[i].stage /\ q.issue = job[i].issue /\ q.seen = job[i].seen
        /\ RenderFits(q) /\ PlanFits(q, limits.versions, requests, trunk.version) /\ IssueFits(q, issues')
    BY <2>1, StaleJob
  <2>3. job'[i] = q
    BY <1>2, <1>3, <2>1
  <2> QED
    BY <2>2, <2>3
<1>4. RenderFits(mine) /\ PlanFits(mine, limits.versions, requests, trunk.version) /\ IssueFits(mine, issues')
  BY DEF RenderFits, Rendering, PlanFits, IssueFits
<1>5. job' \in [Jobs -> JobRecord]
  <2>1. \A i \in Jobs : job'[i] \in JobRecord
    BY <1>2, <1>3
  <2> QED
    BY <1>1, <2>1
<1> QED
  BY <1>2, <1>3, <1>4, <1>5

\* Alarms of the others stay alarms where the tracker does not go back.
LEMMA AlarmStays ==
    ASSUME NEW r \in JobRecord, NEW q, q.stage = r.stage, q.issue = r.issue, q.seen = r.seen,
           NEW iss \in Seq(FailureRecord), NEW iss2 \in Seq(FailureRecord), NEW c, NEW c2, AlarmFits(r, iss, c),
           Len(iss) <= Len(iss2),
           \A m \in 1..Len(iss) :
               m \in OpenIn(iss2) \ c2 /\ iss2[m].readable =>
                   \/ Alarming(iss2[m])
                   \/ m \in OpenIn(iss) \ c /\ iss[m].readable /\ (Alarming(iss[m]) => Alarming(iss2[m]))
    PROVE  AlarmFits(q, iss2, c2)
<1> SUFFICES ASSUME r.stage \in {"comment", "alert"}
             PROVE  /\ r.issue \in 1..Len(iss2)
                    /\ r.issue \in OpenIn(iss2) \ c2 /\ iss2[r.issue].readable /\ Alarming(r.seen) => Alarming(iss2[r.issue])
  BY DEF AlarmFits
<1>1. /\ r.issue \in 1..Len(iss)
      /\ r.issue \in OpenIn(iss) \ c /\ iss[r.issue].readable /\ Alarming(r.seen) => Alarming(iss[r.issue])
  BY DEF AlarmFits
<1>2. Len(iss) \in Nat /\ Len(iss2) \in Nat
  OBVIOUS
<1> QED
  BY <1>1, <1>2

\* One more failure in a row, or the threshold after a body that could not be read.
LEMMA Counted ==
    ASSUME NEW prior \in FailureRecord, NEW v \in Nat
    PROVE  /\ AfterFailure(prior, v) \in FailureRecord /\ AfterFailure(prior, v).readable = TRUE
           /\ AfterFailure(prior, v).open = prior.open /\ AfterFailure(prior, v).alert = prior.alert
           /\ prior.readable => AfterFailure(prior, v).streak = prior.streak + 1
           /\ ~prior.readable => Alarming(AfterFailure(prior, v))
<1>0. PICK b : b = AfterFailure(prior, v)
  OBVIOUS
<1>1. PICK k : k = IF prior.readable THEN prior.streak + 1 ELSE Escalated
  OBVIOUS
<1>2. Threshold \in Nat /\ Escalated \in Nat /\ Escalated >= Threshold
  BY RolloutAssumption DEF Escalated
<1>3. k \in Nat /\ (prior.readable => k = prior.streak + 1) /\ (~prior.readable => k >= Threshold)
  BY <1>1, <1>2 DEF FailureRecord
<1>4. b = [prior EXCEPT !.readable = TRUE, !.last = v, !.streak = k]
  BY <1>0, <1>1 DEF AfterFailure
<1>5. b \in FailureRecord /\ b.readable = TRUE /\ b.open = prior.open /\ b.alert = prior.alert /\ b.streak = k
  BY <1>3, <1>4, ZenonT(40) DEF FailureRecord
<1> QED
  BY <1>0, <1>3, <1>5 DEF Alarming

\* What the record of a failure makes of the tracker, on a stale reading or not.
LEMMA FailureStays ==
    ASSUME RolloutTypes, RolloutInv, NEW j \in Jobs, UNCHANGED <<project, limits>>, RecordFailure(j)
    PROVE  RolloutTypes' /\ RolloutInv'
<1>1. /\ job[j].stage = "count" /\ UNCHANGED <<limits, changes, trunk, requests, garbled>>
      /\ raced \subseteq Nat /\ garbled \subseteq Nat /\ unlabelled \subseteq Nat
  BY DEF RecordFailure, JobAt, project, RolloutTypes
<1>2. PICK found, s, v, b : found = job[j].issue /\ s = job[j].seen /\ v = job[j].version /\ b = AfterFailure(s, v)
  OBVIOUS
<1>3. PICK n : n = IF found = 0 THEN Len(issues) + 1 ELSE found
  OBVIOUS
<1>4. /\ found \in Nat /\ s \in FailureRecord /\ v \in Nat /\ Threshold \in Nat /\ failures \in Nat /\ job[j].stale \in BOOLEAN
      /\ issues \in Seq(FailureRecord) /\ Len(issues) \in Nat
  <2>1. job[j].issue \in Nat /\ job[j].seen \in FailureRecord /\ job[j].version \in Nat /\ job[j].stale \in BOOLEAN
    BY JobType DEF JobRecord
  <2> QED
    BY <1>2, <2>1, RolloutAssumption DEF RolloutTypes
<1>5. /\ found <= Len(issues) /\ (found = 0 => s = NoIssue)
      /\ ~job[j].stale => IF found = 0 THEN OpenIn(issues) = {} ELSE found \in OpenIn(issues) /\ Agree(s, issues[found])
  BY <1>1, <1>2 DEF RolloutInv, StreakInv, IssueFits
<1>6. CountFits(issues, failures, raced, garbled) /\ Labelled(job, issues, unlabelled)
  BY DEF RolloutInv, StreakInv
<1>7. /\ b \in FailureRecord /\ b.readable = TRUE /\ b.open = s.open /\ b.alert = s.alert
      /\ s.readable => b.streak = s.streak + 1
      /\ ~s.readable => Alarming(b)
  <2>1. s \in FailureRecord /\ v \in Nat /\ b = AfterFailure(s, v)
    BY <1>2, <1>4
  <2> QED
    BY <2>1, Counted
<1>8. /\ issues' \in Seq(FailureRecord) /\ Len(issues') \in Nat /\ Len(issues) <= Len(issues') /\ n \in 1..Len(issues')
      /\ Len(issues') = (IF found = 0 THEN Len(issues) + 1 ELSE Len(issues))
      /\ \A m \in 1..Len(issues) : m # n => issues'[m] = issues[m]
      /\ issues'[n].readable = TRUE /\ issues'[n].streak = b.streak
      /\ issues'[n].open = (IF found = 0 THEN TRUE ELSE issues[n].open)
      /\ issues'[n].alert = (IF found = 0 THEN FALSE ELSE issues[n].alert)
  <2>1. CASE found = 0
    <3>1. issues' = Append(issues, b) /\ n = Len(issues) + 1
      BY <1>2, <1>3, <2>1 DEF RecordFailure
    <3>2. b.open = TRUE /\ b.alert = FALSE
      BY <1>5, <1>7, <2>1 DEF NoIssue
    <3>3. b \in FailureRecord /\ b.readable = TRUE
      BY <1>7
    <3>4. /\ issues' \in Seq(FailureRecord) /\ Len(issues') = Len(issues) + 1 /\ issues'[Len(issues) + 1] = b
          /\ \A m \in 1..Len(issues) : issues'[m] = issues[m]
      BY <1>4, <3>1, <3>3
    <3>5. issues'[n] = b
      BY <3>1, <3>4
    <3>6. Len(issues') \in Nat /\ Len(issues) <= Len(issues') /\ n \in 1..Len(issues')
      BY <1>4, <3>1, <3>4
    <3> QED
      BY <2>1, <3>2, <3>3, <3>4, <3>5, <3>6
  <2>2. CASE found # 0
    <3>1. n = found /\ n \in 1..Len(issues)
      BY <1>3, <1>4, <1>5, <2>2
    <3>2. PICK e : e = [issues[n] EXCEPT !.readable = TRUE, !.streak = b.streak, !.last = b.last]
      OBVIOUS
    <3>3. issues[n] \in FailureRecord /\ b \in FailureRecord /\ b.streak \in Nat /\ b.last \in Nat
      <4>1. issues[n] \in FailureRecord
        BY <1>4, <3>1
      <4>2. b \in FailureRecord
        BY <1>7
      <4> QED
        BY <4>1, <4>2 DEF FailureRecord
    <3>4. e \in FailureRecord /\ e.readable = TRUE /\ e.streak = b.streak /\ e.open = issues[n].open /\ e.alert = issues[n].alert
      BY <3>2, <3>3, ZenonT(40) DEF FailureRecord
    <3>5. issues' = [issues EXCEPT ![n] = e]
      BY <1>2, <1>3, <2>2, <3>1, <3>2, <3>3 DEF RecordFailure
    <3>6. /\ issues' \in Seq(FailureRecord) /\ Len(issues') = Len(issues)
          /\ \A m \in 1..Len(issues) : issues'[m] = IF m = n THEN e ELSE issues[m]
      <4>1. n \in 1..Len(issues) => e \in FailureRecord
        BY <3>4
      <4> QED
        BY <3>5, <4>1, IssueFacts
    <3>7. issues'[n] = e
      BY <3>1, <3>6
    <3> QED
      BY <1>4, <2>2, <3>1, <3>4, <3>6, <3>7
  <2> QED
    BY <2>1, <2>2
<1>9. /\ OpenIn(issues) \subseteq OpenIn(issues')
      /\ OpenIn(issues') = IF found = 0 THEN OpenIn(issues) \cup {n} ELSE OpenIn(issues)
  <2>1. (found = 0 => n = Len(issues) + 1) /\ (found # 0 => n \in 1..Len(issues)) /\ Len(issues) \in Nat
    <3>1. found \in Nat /\ Len(issues) \in Nat /\ found <= Len(issues)
      BY <1>4, <1>5
    <3> QED
      BY <1>3, <3>1
  <2>2. CASE found = 0
    <3>1. n = Len(issues) + 1 /\ Len(issues') = Len(issues) + 1 /\ issues'[n].open = TRUE
      BY <1>8, <2>1, <2>2
    <3>2. \A m \in 1..Len(issues) : m # n => issues'[m] = issues[m]
      BY <1>8
    <3>3. OpenIn(issues') = OpenIn(issues) \cup {n}
      BY <2>1, <3>1, <3>2 DEF OpenIn
    <3> QED
      BY <2>2, <3>3
  <2>3. CASE found # 0
    <3>1. Len(issues') = Len(issues) /\ n \in 1..Len(issues) /\ issues'[n].open = issues[n].open
      BY <1>8, <2>1, <2>3
    <3>2. \A m \in 1..Len(issues) : m # n => issues'[m] = issues[m]
      BY <1>8
    <3>3. OpenIn(issues') = OpenIn(issues)
      BY <3>1, <3>2 DEF OpenIn
    <3> QED
      BY <2>3, <3>3
  <2> QED
    BY <2>2, <2>3
<1>10. /\ failures' = IF job[j].stale THEN failures ELSE failures + 1
       /\ raced' = IF job[j].stale THEN raced \cup {n} \cup OpenIn(issues) ELSE raced
       /\ unlabelled' = unlabelled \ {n}
  BY <1>2, <1>3 DEF RecordFailure, OpenIssues, OpenIn
<1>11. PICK mine : mine = [job[j] EXCEPT !.stage = IF found = 0 THEN "alert" ELSE "comment", !.issue = n, !.seen = b]
  OBVIOUS
<1>12. mine \in JobRecord /\ mine.stage \in {"comment", "alert"} /\ mine.issue = n /\ mine.seen = b
  <2>1. PICK w : w = IF found = 0 THEN "alert" ELSE "comment"
    OBVIOUS
  <2>2. n \in Nat /\ w \in {"comment", "alert"}
    BY <1>8, <2>1
  <2>3. mine = [job[j] EXCEPT !.stage = w, !.issue = n, !.seen = b]
    BY <1>11, <2>1
  <2> QED
    BY <1>7, <2>2, <2>3, JobType, ZenonT(40) DEF JobRecord
<1>13. Overtake(j, mine)
  BY <1>2, <1>3, <1>11 DEF RecordFailure
<1>14. /\ job' \in [Jobs -> JobRecord] /\ job'[j] = mine
       /\ \A i \in Jobs : RenderFits(job'[i]) /\ PlanFits(job'[i], limits.versions, requests, trunk.version)
       /\ \A i \in Jobs : IssueFits(job'[i], issues')
       /\ \A i \in Jobs : i # j => job'[i].stage = job[i].stage /\ job'[i].issue = job[i].issue /\ job'[i].seen = job[i].seen
  BY <1>8, <1>12, <1>13, OvertakeFacts
<1>15. job[j].stale => OpenIn(issues') \ raced' = {}
  BY <1>9, <1>10
<1>16. ASSUME ~job[j].stale
       PROVE  /\ n \in OpenIn(issues') /\ \A m \in OpenIn(issues') \ raced' : m = n
              /\ n \notin raced => issues'[n].streak = failures' \/ (n \in garbled /\ Alarming(issues'[n]))
              /\ n \notin raced /\ issues'[n].alert => Alarming(issues'[n])
              /\ n \notin raced /\ found # 0 =>
                     Alarming(issues'[n]) \/ (issues[n].readable /\ (Alarming(issues[n]) => Alarming(issues'[n])))
  <2>1. raced' = raced /\ failures' = failures + 1
    BY <1>10, <1>16
  <2>2. CASE found = 0
    <3>1. OpenIn(issues) = {} /\ OpenIn(issues') = {n} /\ failures = 0
      BY <1>4, <1>5, <1>6, <1>9, <1>16, <2>2 DEF CountFits
    <3>2. b.streak = 1
      BY <1>5, <1>7, <2>2 DEF NoIssue
    <3> QED
      BY <1>8, <2>1, <2>2, <3>1, <3>2
  <2>3. CASE found # 0
    <3>1. n = found /\ n \in OpenIn(issues) /\ n \in 1..Len(issues) /\ Agree(s, issues[n]) /\ OpenIn(issues') = OpenIn(issues)
      BY <1>3, <1>5, <1>9, <1>16, <2>3 DEF OpenIn
    <3>2. issues[n].streak \in Nat /\ issues[n] \in FailureRecord
      <4>1. issues[n] \in FailureRecord
        BY <1>4, <3>1
      <4> QED
        BY <4>1 DEF FailureRecord
    <3>3. \A m \in OpenIn(issues) \ raced : m = n
      BY <1>6, <3>1 DEF CountFits
    <3>4. issues[n].readable => issues'[n].streak = issues[n].streak + 1
      BY <1>7, <1>8, <3>1 DEF Agree
    <3>5. ~issues[n].readable => n \in garbled /\ Alarming(issues'[n])
      BY <1>6, <1>7, <1>8, <3>1 DEF CountFits, Agree, Alarming
    <3>6. Alarming(issues[n]) /\ issues[n].readable => Alarming(issues'[n])
      BY <1>4, <3>2, <3>4 DEF Alarming
    <3>7. n \notin raced /\ issues[n].readable =>
              /\ issues[n].streak = failures \/ (n \in garbled /\ Alarming(issues[n]))
              /\ issues[n].alert => Alarming(issues[n])
      BY <1>6, <3>1 DEF CountFits
    <3>8. issues'[n].alert = issues[n].alert
      BY <1>8, <2>3
    <3> QED
      BY <2>1, <2>3, <3>1, <3>3, <3>4, <3>5, <3>6, <3>7, <3>8
  <2> QED
    BY <2>2, <2>3
<1>17. CountFits(issues', failures', raced', garbled')
  <2>1. failures' > 0 => OpenIn(issues') # {}
    BY <1>4, <1>6, <1>9, <1>10, <1>16 DEF CountFits
  <2>2. ASSUME NEW m \in OpenIn(issues') \ raced', NEW k \in OpenIn(issues') PROVE m = k
    <3>1. ~job[j].stale /\ m = n /\ m \notin raced
      BY <1>10, <1>15, <1>16
    <3>2. CASE found = 0
      BY <1>5, <1>9, <3>1, <3>2
    <3>3. CASE found # 0
      BY <1>6, <1>9, <3>1, <3>3 DEF CountFits
    <3> QED
      BY <3>2, <3>3
  <2>3. ASSUME NEW m \in OpenIn(issues') \ raced'
        PROVE  /\ issues'[m].streak = failures' \/ (m \in garbled /\ Alarming(issues'[m]))
               /\ issues'[m].alert => Alarming(issues'[m])
    <3>1. ~job[j].stale /\ m = n /\ m \notin raced
      BY <1>10, <1>15, <1>16
    <3> QED
      BY <1>16, <3>1
  <2>4. ASSUME NEW m \in OpenIn(issues') PROVE issues'[m].readable \/ m \in garbled
    <3>1. CASE m = n
      BY <1>8, <3>1
    <3>2. CASE m # n
      <4>1. m \in OpenIn(issues) /\ issues'[m] = issues[m]
        BY <1>8, <1>9, <3>2 DEF OpenIn
      <4> QED
        BY <1>6, <4>1 DEF CountFits
    <3> QED
      BY <3>1, <3>2
  <2> QED
    BY <1>1, <2>1, <2>2, <2>3, <2>4 DEF CountFits
<1>18. Labelled(job', issues', unlabelled')
  <2> SUFFICES ASSUME NEW m \in OpenIn(issues'), Alarming(issues'[m])
               PROVE  \/ issues'[m].alert \/ m \in unlabelled'
                      \/ \E i \in Jobs : job'[i].stage \in {"comment", "alert"} /\ Alarming(job'[i].seen) /\ job'[i].issue = m
    BY DEF Labelled
  <2>1. CASE m = n
    <3>1. Alarming(b)
      BY <1>8, <2>1 DEF Alarming
    <3> QED
      BY <1>12, <1>14, <2>1, <3>1
  <2>2. CASE m # n
    <3>1. m \in OpenIn(issues) /\ issues'[m] = issues[m]
      BY <1>8, <1>9, <2>2 DEF OpenIn
    <3>2. CASE issues[m].alert \/ m \in unlabelled
      BY <1>10, <2>2, <3>1, <3>2
    <3>3. CASE \E i \in Jobs : job[i].stage \in {"comment", "alert"} /\ Alarming(job[i].seen) /\ job[i].issue = m
      <4>1. PICK i \in Jobs : job[i].stage \in {"comment", "alert"} /\ Alarming(job[i].seen) /\ job[i].issue = m
        BY <3>3
      <4>2. i # j
        BY <1>1, <4>1
      <4> QED
        BY <1>14, <4>1, <4>2
    <3> QED
      BY <1>6, <3>1, <3>2, <3>3 DEF Labelled
  <2> QED
    BY <2>1, <2>2
<1>19. ASSUME NEW i \in Jobs PROVE AlarmFits(job'[i], issues', raced')
  <2>1. CASE i = j
    BY <1>8, <1>12, <1>14, <2>1 DEF AlarmFits, Alarming
  <2>2. CASE i # j
    <3>1. ASSUME NEW m \in 1..Len(issues), m \in OpenIn(issues') \ raced', issues'[m].readable
          PROVE  \/ Alarming(issues'[m])
                 \/ m \in OpenIn(issues) \ raced /\ issues[m].readable /\ (Alarming(issues[m]) => Alarming(issues'[m]))
      <4>1. ~job[j].stale /\ m = n /\ m \notin raced
        BY <1>10, <1>15, <1>16, <3>1
      <4>2. found # 0
        BY <1>3, <1>4, <3>1, <4>1
      <4> QED
        BY <1>9, <1>16, <3>1, <4>1, <4>2
    <3>2. AlarmFits(job[i], issues, raced) /\ job[i] \in JobRecord
      BY JobType DEF RolloutInv, StreakInv
    <3> QED
      BY <1>4, <1>8, <1>14, <2>2, <3>1, <3>2, AlarmStays
  <2> QED
    BY <2>1, <2>2
<1>20. failures' \in Nat /\ raced' \subseteq Nat /\ garbled' \subseteq Nat /\ unlabelled' \subseteq Nat
  <2>1. n \in Nat /\ OpenIn(issues) \subseteq Nat
    BY <1>8 DEF OpenIn
  <2>2. failures' \in Nat
    BY <1>4, <1>10
  <2> QED
    BY <1>1, <1>10, <2>1, <2>2
<1> QED
  BY <1>1, <1>8, <1>14, <1>17, <1>18, <1>19, <1>20, TrackerStays

\* A label, and what ends without one.
LEMMA LabelStays ==
    ASSUME RolloutTypes, RolloutInv, NEW j \in Jobs, UNCHANGED <<project, limits>>,
           CommentFailure(j) \/ RaiseAlert(j) \/ TrackerFails(j)
    PROVE  RolloutTypes' /\ RolloutInv'
<1>1. PICK r : r = IF CommentFailure(j) THEN [job[j] EXCEPT !.stage = "alert"] ELSE IdleJob
  OBVIOUS
<1>2. /\ r \in JobRecord /\ r.stage \in {"alert", "idle"}
      /\ r.stage = "alert" => job[j].stage = "comment" /\ r.issue = job[j].issue /\ r.seen = job[j].seen /\ UNCHANGED tracking
      /\ RaiseAlert(j) \/ TrackerFails(j) => r.stage = "idle"
  <2>1. CASE CommentFailure(j)
    <3>1. r = [job[j] EXCEPT !.stage = "alert"] /\ job[j].stage = "comment" /\ UNCHANGED tracking
      BY <1>1, <2>1 DEF CommentFailure, JobAt
    <3>2. r \in JobRecord /\ r.stage = "alert" /\ r.issue = job[j].issue /\ r.seen = job[j].seen
      BY <3>1, JobType, ZenonT(40) DEF JobRecord
    <3>3. ~RaiseAlert(j)
      BY <3>1 DEF RaiseAlert, JobAt
    <3>4. ~TrackerFails(j)
      <4>1. TrackerFails(j) => job' = [job EXCEPT ![j] = IdleJob]
        BY DEF TrackerFails, Abort
      <4>2. job'[j].stage = "alert"
        BY <2>1 DEF CommentFailure, Go, RolloutTypes, JobRecord
      <4> QED
        BY <4>1, <4>2, NoRollout DEF RolloutTypes
    <3> QED
      BY <3>1, <3>2, <3>3, <3>4
  <2>2. CASE ~CommentFailure(j)
    BY <1>1, <2>2, NoRollout
  <2> QED
    BY <2>1, <2>2
<1>3. job' = [job EXCEPT ![j] = r] /\ UNCHANGED <<limits, changes, trunk, requests, failures, raced, garbled>>
  <2>1. CASE CommentFailure(j)
    BY <1>1, <2>1 DEF CommentFailure, Go, project, tracking
  <2>2. CASE ~CommentFailure(j)
    BY <1>1, <2>2 DEF RaiseAlert, TrackerFails, Abort, project
  <2> QED
    BY <2>1, <2>2
<1>4. job' \in [Jobs -> JobRecord] /\ job'[j] = r /\ \A i \in Jobs : i # j => job'[i] = job[i]
  BY <1>2, <1>3 DEF RolloutTypes
<1>5. PICK n : n = job[j].issue
  OBVIOUS
<1>6. /\ issues \in Seq(FailureRecord) /\ Len(issues) \in Nat /\ failures \in Nat /\ n \in Nat
      /\ raced \subseteq Nat /\ garbled \subseteq Nat /\ unlabelled \subseteq Nat
  BY <1>5, JobType DEF RolloutTypes, JobRecord
<1>7. CountFits(issues, failures, raced, garbled) /\ Labelled(job, issues, unlabelled) /\ AlarmFits(job[j], issues, raced)
  BY DEF RolloutInv, StreakInv
<1>8. /\ issues' \in Seq(FailureRecord) /\ Len(issues') = Len(issues) /\ OpenIn(issues') = OpenIn(issues)
      /\ \A m \in 1..Len(issues) :
             /\ issues'[m].readable = issues[m].readable /\ issues'[m].streak = issues[m].streak
             /\ issues'[m].alert => issues[m].alert \/ (RaiseAlert(j) /\ Alarming(job[j].seen) /\ m = n)
             /\ issues[m].alert \/ (RaiseAlert(j) /\ Alarming(job[j].seen) /\ m = n) => issues'[m].alert
  <2>1. CASE RaiseAlert(j) /\ Alarming(job[j].seen)
    <3>1. n \in 1..Len(issues)
      BY <1>5, <1>7, <2>1 DEF AlarmFits, RaiseAlert, JobAt
    <3>2. PICK e : e = [issues[n] EXCEPT !.alert = TRUE]
      OBVIOUS
    <3>3. issues[n] \in FailureRecord
      BY <1>6, <3>1
    <3>4. e \in FailureRecord /\ e.alert = TRUE /\ e.open = issues[n].open /\ e.readable = issues[n].readable /\ e.streak = issues[n].streak
      BY <3>2, <3>3, ZenonT(40) DEF FailureRecord
    <3>5. issues' = [issues EXCEPT ![n] = e]
      BY <1>5, <2>1, <3>2 DEF RaiseAlert
    <3>6. /\ issues' \in Seq(FailureRecord) /\ Len(issues') = Len(issues)
          /\ \A m \in 1..Len(issues) : issues'[m] = IF m = n THEN e ELSE issues[m]
      <4>1. n \in 1..Len(issues) => e \in FailureRecord
        BY <3>4
      <4> QED
        BY <3>5, <4>1, IssueFacts
    <3>7. OpenIn(issues') = OpenIn(issues)
      BY <3>4, <3>6 DEF OpenIn
    <3> QED
      BY <2>1, <3>4, <3>6, <3>7
  <2>2. CASE ~(RaiseAlert(j) /\ Alarming(job[j].seen))
    <3>1. issues' = issues
      BY <2>2 DEF RaiseAlert, TrackerFails, CommentFailure, tracking
    <3> QED
      BY <1>6, <2>2, <3>1
  <2> QED
    BY <2>1, <2>2
<1>9. unlabelled' \subseteq Nat /\ unlabelled \subseteq unlabelled' /\ (TrackerFails(j) /\ Alerting(j) => n \in unlabelled')
  BY <1>5, <1>6 DEF RaiseAlert, TrackerFails, CommentFailure, tracking
<1>10. \A m : m \in OpenIn(issues) => m \in 1..Len(issues) /\ (Alarming(issues'[m]) <=> Alarming(issues[m]))
  BY <1>8 DEF OpenIn, Alarming
<1>11. CountFits(issues', failures', raced', garbled')
  <2>1. ASSUME NEW m \in OpenIn(issues) \ raced, issues[m].readable, issues'[m].alert PROVE Alarming(issues'[m])
    <3>1. CASE issues[m].alert
      BY <1>7, <1>10, <2>1, <3>1 DEF CountFits
    <3>2. CASE RaiseAlert(j) /\ Alarming(job[j].seen) /\ m = n
      <4>1. Alarming(issues[m])
        BY <1>5, <1>7, <2>1, <3>2 DEF AlarmFits, RaiseAlert, JobAt
      <4> QED
        BY <1>10, <4>1
    <3> QED
      BY <1>8, <1>10, <2>1, <3>1, <3>2
  <2>2. \A m \in OpenIn(issues) : issues'[m].readable = issues[m].readable /\ issues'[m].streak = issues[m].streak
    BY <1>8, <1>10
  <2> QED
    BY <1>3, <1>7, <1>8, <1>10, <2>1, <2>2 DEF CountFits
<1>12. Labelled(job', issues', unlabelled')
  <2> SUFFICES ASSUME NEW m \in OpenIn(issues), Alarming(issues[m])
               PROVE  \/ issues'[m].alert \/ m \in unlabelled'
                      \/ \E i \in Jobs : job'[i].stage \in {"comment", "alert"} /\ Alarming(job'[i].seen) /\ job'[i].issue = m
    BY <1>8, <1>10 DEF Labelled
  <2>1. CASE issues[m].alert \/ m \in unlabelled
    BY <1>8, <1>9, <1>10, <2>1
  <2>2. CASE \E i \in Jobs : job[i].stage \in {"comment", "alert"} /\ Alarming(job[i].seen) /\ job[i].issue = m
    <3>1. PICK i \in Jobs : job[i].stage \in {"comment", "alert"} /\ Alarming(job[i].seen) /\ job[i].issue = m
      BY <2>2
    <3>2. CASE i # j
      BY <1>4, <3>1, <3>2
    <3>3. CASE i = j /\ CommentFailure(j)
      <4>1. r.stage = "alert"
        BY <1>1, <3>3, JobType, ZenonT(40) DEF JobRecord
      <4> QED
        BY <1>2, <1>4, <3>1, <3>3, <4>1
    <3>4. CASE i = j /\ RaiseAlert(j)
      BY <1>5, <1>8, <1>10, <3>1, <3>4
    <3>5. CASE i = j /\ TrackerFails(j)
      BY <1>5, <1>9, <3>1, <3>5 DEF Alerting
    <3> QED
      BY <3>2, <3>3, <3>4, <3>5
  <2> QED
    BY <1>7, <2>1, <2>2 DEF Labelled
<1>13. ASSUME NEW i \in Jobs
       PROVE  /\ RenderFits(job'[i]) /\ PlanFits(job'[i], limits.versions, requests, trunk.version)
              /\ IssueFits(job'[i], issues') /\ AlarmFits(job'[i], issues', raced')
  <2>1. ASSUME NEW m \in 1..Len(issues), m \in OpenIn(issues') \ raced', issues'[m].readable
        PROVE  m \in OpenIn(issues) \ raced /\ issues[m].readable /\ (Alarming(issues[m]) => Alarming(issues'[m]))
    BY <1>3, <1>8, <1>10, <2>1
  <2>2. CASE i = j
    <3>1. RenderFits(r) /\ PlanFits(r, limits.versions, requests, trunk.version) /\ IssueFits(r, issues')
      BY <1>2 DEF RenderFits, Rendering, PlanFits, IssueFits
    <3>2. CASE r.stage = "idle"
      BY <1>4, <2>2, <3>1, <3>2 DEF AlarmFits
    <3>3. CASE r.stage = "alert"
      <4>1. PICK q : q = [job[j] EXCEPT !.stage = "alert"]
        OBVIOUS
      <4>2. issues' = issues /\ raced' = raced
        BY <1>2, <3>3 DEF tracking
      <4> QED
        BY <1>2, <1>4, <1>7, <2>2, <3>1, <3>3, <4>2 DEF AlarmFits
    <3> QED
      BY <1>2, <3>2, <3>3
  <2>3. CASE i # j
    <3>1. job'[i] = job[i] /\ job[i] \in JobRecord
      BY <1>4, <2>3, JobType
    <3>2. /\ RenderFits(job[i]) /\ PlanFits(job[i], limits.versions, requests, trunk.version)
          /\ IssueFits(job[i], issues) /\ AlarmFits(job[i], issues, raced)
      BY DEF RolloutInv, StreakInv
    <3>3. IssueFits(job[i], issues')
      BY <1>8, <1>10, <3>2 DEF IssueFits, Agree
    <3>4. AlarmFits(job[i], issues', raced')
      BY <1>6, <1>8, <2>1, <3>1, <3>2, AlarmStays
    <3> QED
      BY <3>1, <3>2, <3>3, <3>4
  <2> QED
    BY <2>2, <2>3
<1> QED
  BY <1>3, <1>4, <1>6, <1>8, <1>9, <1>11, <1>12, <1>13, TrackerStays

\* A recovery that is proved or commented on.
LEMMA RecoveryStays ==
    ASSUME RolloutTypes, RolloutInv, NEW j \in Jobs, UNCHANGED <<project, limits>>, ObserveRecovery(j) \/ CommentRecovery(j)
    PROVE  RolloutTypes' /\ RolloutInv'
<1>1. job[j].stage \in {"proof", "resolve"} /\ UNCHANGED <<limits, project, requests, tracking>>
  BY DEF ObserveRecovery, CommentRecovery, JobAt
<1>2. CASE Abort(j)
  BY <1>1, <1>2, GoesToRest
<1>3. ASSUME NEW s \in {"resolve", "settle"}, Go(j, s), s = "settle" => job[j].issue # 0
      PROVE  RolloutTypes' /\ RolloutInv'
  <2>1. PICK r : r = [job[j] EXCEPT !.stage = s]
    OBVIOUS
  <2>2. /\ r \in JobRecord /\ r.stage = s /\ r.issue = job[j].issue /\ r.seen = job[j].seen /\ r.stale = job[j].stale
    BY <2>1, JobType, ZenonT(40) DEF JobRecord
  <2>3. job' = [job EXCEPT ![j] = r]
    BY <1>3, <2>1 DEF Go, RolloutTypes
  <2>4. IssueFits(job[j], issues)
    BY DEF RolloutInv, StreakInv
  <2>5. IssueFits(r, issues)
    BY <1>1, <1>3, <2>2, <2>4 DEF IssueFits
  <2>6. RenderFits(r) /\ PlanFits(r, limits.versions, requests, trunk.version)
    BY <2>2 DEF RenderFits, Rendering, PlanFits
  <2> QED
    BY <1>1, <2>2, <2>3, <2>5, <2>6, JobStays DEF project
<1> QED
  BY <1>2, <1>3 DEF ObserveRecovery, CommentRecovery

\* A recovery closes the Issue.
LEMMA ClosingStays ==
    ASSUME RolloutTypes, RolloutInv, NEW j \in Jobs, UNCHANGED <<project, limits>>, CloseIssue(j)
    PROVE  RolloutTypes' /\ RolloutInv'
<1>1. job[j].stage = "settle" /\ UNCHANGED <<limits, changes, trunk, requests, raced, garbled, unlabelled>>
  BY DEF CloseIssue, JobAt, project
<1>2. PICK n : n = job[j].issue
  OBVIOUS
<1>3. /\ issues \in Seq(FailureRecord) /\ Len(issues) \in Nat /\ failures \in Nat
      /\ raced \subseteq Nat /\ garbled \subseteq Nat /\ unlabelled \subseteq Nat
  BY DEF RolloutTypes
<1>4. n \in 1..Len(issues)
  <2>1. job[j].issue \in Nat
    BY JobType DEF JobRecord
  <2>2. IssueFits(job[j], issues)
    BY DEF RolloutInv, StreakInv
  <2> QED
    BY <1>1, <1>2, <1>3, <2>1, <2>2 DEF IssueFits
<1>5. PICK e : e = [issues[n] EXCEPT !.open = FALSE]
  OBVIOUS
<1>6. e \in FailureRecord /\ e.open = FALSE
  <2>1. issues[n] \in FailureRecord
    BY <1>3, <1>4
  <2> QED
    BY <1>5, <2>1, ZenonT(40) DEF FailureRecord
<1>7. issues' = [issues EXCEPT ![n] = e]
  BY <1>2, <1>5 DEF CloseIssue
<1>8. /\ issues' \in Seq(FailureRecord) /\ Len(issues') = Len(issues)
      /\ \A m \in 1..Len(issues) : issues'[m] = IF m = n THEN e ELSE issues[m]
  BY <1>6, <1>7, IssueFacts
<1>9. OpenIn(issues') = OpenIn(issues) \ {n} /\ \A m \in OpenIn(issues') : issues'[m] = issues[m]
  BY <1>6, <1>8 DEF OpenIn
<1>10. failures' = IF n \in OpenIn(issues) THEN 0 ELSE failures
  BY <1>2, <1>4 DEF CloseIssue, OpenIn
<1>11. CountFits(issues, failures, raced, garbled) /\ Labelled(job, issues, unlabelled)
  BY DEF RolloutInv, StreakInv
<1>12. CountFits(issues', failures', raced', garbled')
  <2>1. failures' > 0 => OpenIn(issues') # {}
    BY <1>9, <1>10, <1>11 DEF CountFits
  <2>2. ASSUME NEW m \in OpenIn(issues') \ raced' PROVE failures' = failures
    <3>1. n \notin OpenIn(issues)
      BY <1>1, <1>9, <1>11 DEF CountFits
    <3> QED
      BY <1>10, <3>1
  <2> QED
    BY <1>1, <1>9, <1>11, <2>1, <2>2 DEF CountFits
<1>13. Overtake(j, IdleJob) /\ IdleJob \in JobRecord /\ IdleJob.stage = "idle"
  BY NoRollout DEF CloseIssue
<1>14. /\ job' \in [Jobs -> JobRecord] /\ job'[j] = IdleJob
       /\ \A i \in Jobs : RenderFits(job'[i]) /\ PlanFits(job'[i], limits.versions, requests, trunk.version)
       /\ \A i \in Jobs : IssueFits(job'[i], issues')
       /\ \A i \in Jobs : i # j => job'[i].stage = job[i].stage /\ job'[i].issue = job[i].issue /\ job'[i].seen = job[i].seen
  BY <1>3, <1>8, <1>13, OvertakeFacts
<1>15. Labelled(job', issues', unlabelled')
  BY <1>1, <1>9, <1>11, <1>14 DEF Labelled
<1>16. ASSUME NEW i \in Jobs PROVE AlarmFits(job'[i], issues', raced')
  <2>1. CASE i = j
    BY <1>13, <1>14, <2>1 DEF AlarmFits
  <2>2. CASE i # j
    <3>1. AlarmFits(job[i], issues, raced) /\ job[i] \in JobRecord
      BY JobType DEF RolloutInv, StreakInv
    <3>2. \A m \in 1..Len(issues) : m \in OpenIn(issues') \ raced' /\ issues'[m].readable =>
              m \in OpenIn(issues) \ raced /\ issues[m].readable /\ (Alarming(issues[m]) => Alarming(issues'[m]))
      BY <1>1, <1>9
    <3> QED
      BY <1>3, <1>8, <1>14, <2>2, <3>1, <3>2, AlarmStays
  <2> QED
    BY <2>1, <2>2
<1>17. failures' \in Nat
  BY <1>3, <1>10
<1> QED
  BY <1>1, <1>3, <1>8, <1>12, <1>14, <1>15, <1>16, <1>17, TrackerStays

\* Somebody makes a body unreadable.
LEMMA SpoilStays ==
    ASSUME RolloutTypes, RolloutInv, UNCHANGED limits, NEW n \in 1..Len(issues), SpoilIssue(n)
    PROVE  RolloutTypes' /\ RolloutInv'
<1>1. UNCHANGED <<limits, changes, trunk, requests, failures, raced, unlabelled>> /\ garbled' = garbled \cup {n}
  BY DEF SpoilIssue
<1>2. /\ issues \in Seq(FailureRecord) /\ Len(issues) \in Nat /\ n \in Nat
      /\ raced \subseteq Nat /\ garbled \subseteq Nat /\ unlabelled \subseteq Nat /\ failures \in Nat
  BY DEF RolloutTypes
<1>3. PICK e : e = [issues[n] EXCEPT !.readable = FALSE]
  OBVIOUS
<1>4. e \in FailureRecord /\ e.readable = FALSE /\ e.open = issues[n].open /\ e.streak = issues[n].streak /\ e.alert = issues[n].alert
  <2>1. issues[n] \in FailureRecord
    BY <1>2
  <2> QED
    BY <1>3, <2>1, ZenonT(40) DEF FailureRecord
<1>5. issues' = [issues EXCEPT ![n] = e]
  BY <1>3 DEF SpoilIssue
<1>6. /\ issues' \in Seq(FailureRecord) /\ Len(issues') = Len(issues)
      /\ \A m \in 1..Len(issues) : issues'[m] = IF m = n THEN e ELSE issues[m]
  <2>1. n \in 1..Len(issues) => e \in FailureRecord
    BY <1>4
  <2> QED
    BY <1>5, <2>1, IssueFacts
<1>7. /\ OpenIn(issues') = OpenIn(issues) /\ \A m \in OpenIn(issues) : m \in 1..Len(issues)
      /\ \A m \in 1..Len(issues) : /\ issues'[m].streak = issues[m].streak /\ issues'[m].alert = issues[m].alert
                                   /\ issues'[m].readable = (IF m = n THEN FALSE ELSE issues[m].readable)
                                   /\ (Alarming(issues'[m]) <=> Alarming(issues[m]))
  BY <1>4, <1>6 DEF OpenIn, Alarming
<1>8. CountFits(issues, failures, raced, garbled) /\ Labelled(job, issues, unlabelled)
  BY DEF RolloutInv, StreakInv
<1>9. CountFits(issues', failures', raced', garbled')
  <2>1. ASSUME NEW m \in OpenIn(issues) \ raced, issues'[m].readable
        PROVE  /\ issues'[m].streak = failures \/ (m \in garbled' /\ Alarming(issues'[m]))
               /\ issues'[m].alert => Alarming(issues'[m])
    <3>1. issues[m].readable
      BY <1>7, <2>1
    <3> QED
      BY <1>1, <1>7, <1>8, <3>1 DEF CountFits
  <2>2. ASSUME NEW m \in OpenIn(issues) PROVE issues'[m].readable \/ m \in garbled'
    BY <1>1, <1>7, <1>8 DEF CountFits
  <2> QED
    BY <1>1, <1>7, <1>8, <2>1, <2>2 DEF CountFits
<1>10. \A i \in Jobs : job'[i] = IF Reading(i) THEN [job[i] EXCEPT !.stale = TRUE] ELSE job[i]
  BY DEF SpoilIssue
<1>11. ASSUME NEW i \in Jobs
       PROVE  /\ job'[i] \in JobRecord /\ job'[i].stage = job[i].stage /\ job'[i].issue = job[i].issue /\ job'[i].seen = job[i].seen
              /\ RenderFits(job'[i]) /\ PlanFits(job'[i], limits.versions, requests, trunk.version)
              /\ IssueFits(job'[i], issues')
  <2>1. PICK q : q = IF Reading(i) THEN [job[i] EXCEPT !.stale = TRUE] ELSE job[i]
    OBVIOUS
  <2>2. /\ q \in JobRecord /\ q.stage = job[i].stage /\ q.issue = job[i].issue /\ q.seen = job[i].seen
        /\ RenderFits(q) /\ PlanFits(q, limits.versions, requests, trunk.version)
        /\ \A iss \in Seq(FailureRecord) : Len(issues) <= Len(iss) => IssueFits(q, iss)
    BY <2>1, StaleJob
  <2>3. IssueFits(q, issues')
    BY <1>2, <1>6, <2>2
  <2>4. job'[i] = q
    BY <1>10, <2>1
  <2> QED
    BY <2>2, <2>3, <2>4
<1>12. job' \in [Jobs -> JobRecord]
  BY <1>11 DEF SpoilIssue
<1>13. Labelled(job', issues', unlabelled')
  <2>1. \A i \in Jobs : job'[i].stage = job[i].stage /\ job'[i].issue = job[i].issue /\ job'[i].seen = job[i].seen
    BY <1>11
  <2>2. ASSUME NEW m \in OpenIn(issues), Alarming(issues'[m])
        PROVE  \/ issues'[m].alert \/ m \in unlabelled
               \/ \E i \in Jobs : job'[i].stage \in {"comment", "alert"} /\ Alarming(job'[i].seen) /\ job'[i].issue = m
    <3>1. Alarming(issues[m]) /\ issues'[m].alert = issues[m].alert
      BY <1>7, <2>2
    <3> QED
      BY <1>8, <2>1, <2>2, <3>1 DEF Labelled
  <2> QED
    BY <1>1, <1>7, <2>2 DEF Labelled
<1>14. ASSUME NEW i \in Jobs PROVE AlarmFits(job'[i], issues', raced')
  <2>1. AlarmFits(job[i], issues, raced) /\ job[i] \in JobRecord
    BY JobType DEF RolloutInv, StreakInv
  <2>2. \A m \in 1..Len(issues) : m \in OpenIn(issues') \ raced' /\ issues'[m].readable =>
            m \in OpenIn(issues) \ raced /\ issues[m].readable /\ (Alarming(issues[m]) => Alarming(issues'[m]))
    BY <1>1, <1>7
  <2> QED
    BY <1>2, <1>6, <1>11, <2>1, <2>2, AlarmStays
<1>15. garbled' \subseteq Nat
  BY <1>1, <1>2
<1> QED
  BY <1>1, <1>2, <1>6, <1>9, <1>11, <1>12, <1>13, <1>14, <1>15, TrackerStays

-----------------------------------------------------------------------------
(* The rollout: the project, and the theorems. *)

LEMMA ProjectStays ==
    ASSUME RolloutTypes, RolloutInv, UNCHANGED <<limits, changes, job, tracking>>,
           trunk' \in BranchRecord, requests' \in [Versions -> UpdateRecord], trunk.version <= trunk'.version,
           \A w \in Versions :
               /\ requests[w].state \in Live => requests'[w].state \in Live
               /\ requests'[w].bot => Fit(requests'[w].from, requests'[w].head, requests'[w].conflicts)
               /\ requests'[w].state = "open" => requests'[w].from.version <= requests'[w].head.version
               /\ requests'[w].state = "superseded" => requests[w].state = "superseded"
    PROVE  RolloutTypes' /\ RolloutInv'
<1>1. RolloutTypes'
  BY DEF RolloutTypes, Versions, tracking
<1>2. trunk.version \in Nat /\ trunk'.version \in Nat
  BY DEF RolloutTypes, BranchRecord
<1>3. \A w \in Nat :
          /\ Led(limits.versions, requests, trunk.version, w) => Led(limits.versions, requests', trunk'.version, w)
          /\ Overtaken(limits.versions, requests, trunk.version, w) => Overtaken(limits.versions, requests', trunk'.version, w)
  BY <1>2, WaysStay DEF Versions
<1>4. \A i \in Jobs : RenderFits(job'[i]) /\ PlanFits(job'[i], limits.versions, requests', trunk'.version)
  BY <1>1, <1>3, WaysKept
<1>5. RequestsFit(limits.versions, requests', trunk'.version)
  BY <1>3, VersionFacts DEF RequestsFit, Versions, RolloutInv
<1>6. StreakInv'
  BY DEF RolloutInv, StreakInv, tracking
<1> QED
  BY <1>1, <1>4, <1>5, <1>6 DEF RolloutInv

LEMMA UnchangedFit ==
    ASSUME RolloutInv, NEW w \in Versions
    PROVE  /\ requests[w].bot => Fit(requests[w].from, requests[w].head, requests[w].conflicts)
           /\ requests[w].state = "open" => requests[w].from.version <= requests[w].head.version
  BY DEF RolloutInv, RequestsFit, Versions

LEMMA EditStays ==
    ASSUME RolloutTypes, RolloutInv, UNCHANGED limits, ProjectEdits
    PROVE  RolloutTypes' /\ RolloutInv'
<1>1. PICK p \in Paths, own \in Own : trunk' = [trunk EXCEPT !.tree[p].own = own]
  BY VersionFacts DEF ProjectEdits, Own
<1>2. trunk \in BranchRecord
  BY DEF RolloutTypes
<1>3. PICK file, tree : file = [trunk.tree[p] EXCEPT !.own = own] /\ tree = [trunk.tree EXCEPT ![p] = file]
  OBVIOUS
<1>4. trunk.tree \in [Paths -> TreeFile] /\ trunk.tree[p] \in TreeFile /\ trunk.version \in Nat
  BY <1>2 DEF BranchRecord
<1>5. file \in TreeFile
  BY <1>3, <1>4 DEF TreeFile
<1>6. tree \in [Paths -> TreeFile]
  BY <1>3, <1>4, <1>5
<1>7. trunk' = [trunk EXCEPT !.tree = tree]
  BY <1>1, <1>3
<1>8. trunk' \in BranchRecord /\ trunk'.version = trunk.version /\ trunk.version <= trunk'.version
  BY <1>2, <1>4, <1>6, <1>7 DEF BranchRecord
<1>9. UNCHANGED <<limits, changes, job, tracking, requests>> /\ requests' \in [Versions -> UpdateRecord]
  BY DEF ProjectEdits, RolloutTypes
<1> QED
  BY <1>8, <1>9, ProjectStays, UnchangedFit

LEMMA MergeStays ==
    ASSUME RolloutTypes, RolloutInv, UNCHANGED limits, NEW v \in Versions, MergeRollout(v)
    PROVE  RolloutTypes' /\ RolloutInv'
<1>1. /\ requests[v].state = "open" /\ requests[v].from.version = trunk.version
      /\ requests' = [requests EXCEPT ![v].state = "merged"] /\ UNCHANGED <<limits, changes, job, tracking>>
  BY DEF MergeRollout
<1>2. PICK from, head : from = requests[v].from /\ head = requests[v].head
  OBVIOUS
<1>3. from \in BranchRecord /\ head \in BranchRecord /\ trunk \in BranchRecord
  BY <1>2, RequestFacts
<1>4. PICK tree : tree = [p \in Paths |-> IF head.tree[p] = from.tree[p] THEN trunk.tree[p] ELSE head.tree[p]]
  OBVIOUS
<1>5. tree \in [Paths -> TreeFile]
  BY <1>3, <1>4 DEF BranchRecord
<1>6. trunk' = [version |-> head.version, runner |-> head.runner, tree |-> tree]
  BY <1>2, <1>4 DEF MergeRollout
<1>7. trunk' \in BranchRecord /\ trunk'.version = head.version
  BY <1>3, <1>5, <1>6 DEF BranchRecord
<1>8. trunk.version <= trunk'.version
  BY <1>1, <1>2, <1>7, UnchangedFit
<1>9. /\ requests' \in [Versions -> UpdateRecord]
      /\ \A w \in Versions : /\ requests'[w].bot = requests[w].bot /\ requests'[w].from = requests[w].from
                             /\ requests'[w].head = requests[w].head /\ requests'[w].conflicts = requests[w].conflicts
                             /\ requests'[w].state = IF w = v THEN "merged" ELSE requests[w].state
  BY <1>1, StateFacts
<1>10. \A w \in Versions :
           /\ requests[w].state \in Live => requests'[w].state \in Live
           /\ requests'[w].bot => Fit(requests'[w].from, requests'[w].head, requests'[w].conflicts)
           /\ requests'[w].state = "open" => requests'[w].from.version <= requests'[w].head.version
           /\ requests'[w].state = "superseded" => requests[w].state = "superseded"
  BY <1>9, UnchangedFit DEF Live
<1> QED
  BY <1>1, <1>7, <1>8, <1>9, <1>10, ProjectStays

LEMMA HandStays ==
    ASSUME RolloutTypes, RolloutInv, UNCHANGED limits, NEW v \in Versions, CloseByHand(v) \/ OpenByHand(v)
    PROVE  RolloutTypes' /\ RolloutInv'
<1>1. /\ UNCHANGED <<limits, changes, job, tracking>> /\ trunk' = trunk /\ trunk \in BranchRecord /\ trunk.version <= trunk.version
      /\ trunk.version \in Nat
  BY DEF CloseByHand, OpenByHand, RolloutTypes, BranchRecord
<1>2. CASE CloseByHand(v)
  <2>1. requests' = [requests EXCEPT ![v].state = "rejected"]
    BY <1>2 DEF CloseByHand
  <2>2. /\ requests' \in [Versions -> UpdateRecord]
        /\ \A w \in Versions : /\ requests'[w].bot = requests[w].bot /\ requests'[w].from = requests[w].from
                               /\ requests'[w].head = requests[w].head /\ requests'[w].conflicts = requests[w].conflicts
                               /\ requests'[w].state = IF w = v THEN "rejected" ELSE requests[w].state
    BY <2>1, StateFacts
  <2>3. \A w \in Versions :
           /\ requests[w].state \in Live => requests'[w].state \in Live
           /\ requests'[w].bot => Fit(requests'[w].from, requests'[w].head, requests'[w].conflicts)
           /\ requests'[w].state = "open" => requests'[w].from.version <= requests'[w].head.version
           /\ requests'[w].state = "superseded" => requests[w].state = "superseded"
    BY <2>2, UnchangedFit DEF Live
  <2> QED
    BY <1>1, <2>2, <2>3, ProjectStays
<1>3. CASE OpenByHand(v)
  <2>1. PICK u : u = [NoUpdateRequest EXCEPT !.state = "open", !.from = trunk, !.head = trunk]
    OBVIOUS
  <2>2. u \in UpdateRecord /\ u.state = "open" /\ u.bot = FALSE /\ u.from = trunk /\ u.head = trunk
    BY <1>1, <2>1, NoRollout DEF UpdateRecord
  <2>3. requests' = [requests EXCEPT ![v] = u]
    BY <1>3, <2>1 DEF OpenByHand
  <2>4. requests' \in [Versions -> UpdateRecord] /\ \A w \in Versions : requests'[w] = IF w = v THEN u ELSE requests[w]
    BY <2>2, <2>3 DEF RolloutTypes
  <2>5. \A w \in Versions :
           /\ requests[w].state \in Live => requests'[w].state \in Live
           /\ requests'[w].bot => Fit(requests'[w].from, requests'[w].head, requests'[w].conflicts)
           /\ requests'[w].state = "open" => requests'[w].from.version <= requests'[w].head.version
           /\ requests'[w].state = "superseded" => requests[w].state = "superseded"
    BY <1>1, <2>2, <2>4, UnchangedFit DEF Live
  <2> QED
    BY <1>1, <2>4, <2>5, ProjectStays
<1> QED
  BY <1>2, <1>3

LEMMA RolloutStarts ==
    ASSUME RolloutInit
    PROVE  RolloutTypes /\ RolloutInv
<1>1. /\ limits \in RolloutBounds /\ requests = [v \in Versions |-> NoUpdateRequest] /\ job = [j \in Jobs |-> IdleJob]
      /\ issues = <<>> /\ failures = 0 /\ limits.versions \in Nat /\ raced = {} /\ garbled = {} /\ unlabelled = {}
  BY RolloutAssumption DEF RolloutInit
<1>2. changes \in [Paths -> SUBSET Nat]
  BY <1>1 DEF RolloutInit, Versions
<1>3. trunk \in BranchRecord
  <2>1. trunk \in [version: {0}, runner: BOOLEAN, tree: [Paths -> [from: 0..1, own: Own]]]
    BY DEF RolloutInit
  <2>2. trunk.tree \in [Paths -> TreeFile]
    BY <2>1 DEF TreeFile
  <2> QED
    BY <2>1, <2>2 DEF BranchRecord
<1>4. RolloutTypes
  BY <1>1, <1>2, <1>3, NoRollout DEF RolloutTypes
<1>5. \A j \in Jobs : RenderFits(job[j]) /\ PlanFits(job[j], limits.versions, requests, trunk.version)
  BY <1>1, NoRollout DEF RenderFits, Rendering, PlanFits
<1>6. RequestsFit(limits.versions, requests, trunk.version)
  BY <1>1, NoRollout DEF RequestsFit, Versions
<1>7. StreakInv
  <2>1. OpenIn(issues) = {}
    BY <1>1 DEF OpenIn
  <2>2. \A j \in Jobs : job[j].stage = "idle"
    BY <1>1, NoRollout
  <2> QED
    BY <1>1, <2>1, <2>2 DEF StreakInv, CountFits, Labelled, IssueFits, AlarmFits
<1> QED
  BY <1>4, <1>5, <1>6, <1>7 DEF RolloutInv

LEMMA RolloutStep ==
    ASSUME RolloutTypes, RolloutInv, [RolloutNext]_rolloutVars
    PROVE  RolloutTypes' /\ RolloutInv'
<1>1. CASE UNCHANGED rolloutVars
  <2>1. UNCHANGED <<limits, changes, job, tracking, requests, trunk>>
    BY <1>1 DEF rolloutVars, project
  <2>2. trunk' \in BranchRecord /\ trunk.version <= trunk'.version /\ requests' \in [Versions -> UpdateRecord]
    BY <2>1 DEF RolloutTypes, BranchRecord
  <2> QED
    BY <2>1, <2>2, ProjectStays, UnchangedFit
<1>2. ASSUME NEW j \in Jobs, PrepareStep(j), UNCHANGED limits
      PROVE  RolloutTypes' /\ RolloutInv'
  <2>1. UNCHANGED <<project, limits>>
    BY <1>2 DEF PrepareStep
  <2>2. CASE RefuseToStart(j) \/ RefuseDowngrade(j) \/ FailValidation(j) \/ FailToOpen(j) \/ FinishSupersession(j)
    BY <2>1, <2>2, RefusalsStay
  <2>3. CASE UpToDate(j)
    BY <2>1, <2>3, UpToDateStays
  <2>4. CASE CreateRolloutBranch(j)
    BY <2>1, <2>4, BranchStays
  <2>5. CASE MigrateRunner(j)
    BY <2>1, <2>5, MigrationStays
  <2>6. CASE UpdateProject(j)
    BY <2>1, <2>6, UpdateStays
  <2>7. CASE ClassifyConflicts(j)
    BY <2>1, <2>7, ClassifyStays
  <2>8. CASE Recopy(j)
    BY <2>1, <2>8, RecopyStays
  <2>9. CASE CheckRender(j) \/ Validate(j)
    BY <2>1, <2>9, ChecksStay
  <2>10. CASE PushRollout(j)
    BY <2>1, <2>10, PushStays
  <2>11. CASE OpenRequest(j)
    BY <2>1, <2>11, OpenStays
  <2>12. CASE ListRequests(j)
    BY <2>1, <2>12, ListStays
  <2>13. CASE PlanSupersession(j)
    BY <2>1, <2>13, PlanStays
  <2>14. CASE CloseAndDelete(j)
    BY <2>1, <2>14, CloseStays
  <2>15. CASE \/ FindIssue(j, "failure", "count") \/ FindIssue(j, "recovery", "resolve")
              \/ FindIssue(j, "observe", "proof")
    BY <2>1, <2>15, FindStays
  <2>16. CASE RecordFailure(j)
    BY <2>1, <2>16, FailureStays
  <2>17. CASE CommentFailure(j) \/ RaiseAlert(j) \/ TrackerFails(j)
    BY <2>1, <2>17, LabelStays
  <2>18. CASE ObserveRecovery(j) \/ CommentRecovery(j)
    BY <2>1, <2>18, RecoveryStays
  <2>19. CASE CloseIssue(j)
    BY <2>1, <2>19, ClosingStays
  <2> QED
    BY <1>2, <2>2, <2>3, <2>4, <2>5, <2>6, <2>7, <2>8, <2>9, <2>10, <2>11, <2>12, <2>13, <2>14, <2>15, <2>16, <2>17,
       <2>18, <2>19 DEF PrepareStep
<1>3. ASSUME NEW j \in Jobs, UNCHANGED limits,
             \/ FindPending(j) \/ \E v \in Versions : Dispatch(j, v)
             \/ \E start \in {"list", "observe"} : DispatchMaintenance(j, start)
      PROVE  RolloutTypes' /\ RolloutInv'
  BY <1>3, PendingStays, DispatchStays
<1>4. ASSUME UNCHANGED limits, ProjectEdits \/ \E v \in Versions : MergeRollout(v) \/ CloseByHand(v) \/ OpenByHand(v)
      PROVE  RolloutTypes' /\ RolloutInv'
  BY <1>4, EditStays, MergeStays, HandStays
<1>5. ASSUME UNCHANGED limits, NEW n \in 1..Len(issues), SpoilIssue(n) PROVE RolloutTypes' /\ RolloutInv'
  BY <1>5, SpoilStays
<1> QED
  BY <1>1, <1>2, <1>3, <1>4, <1>5 DEF RolloutNext

LEMMA RolloutInductive == RolloutSpec => [](RolloutTypes /\ RolloutInv)
<1>1. RolloutInit => RolloutTypes /\ RolloutInv
  BY RolloutStarts
<1>2. RolloutTypes /\ RolloutInv /\ [RolloutNext]_rolloutVars => (RolloutTypes /\ RolloutInv)'
  BY RolloutStep
<1> QED
  BY <1>1, <1>2, PTL DEF RolloutSpec

\* Whatever the renderer spoils and in whatever order jobs, merges and hands follow each other, a rollout of
\* the bot leaves the project's files as they were, keeps what a conflicting file held, keeps a runner that was named by
\* hand, and is only superseded while another way leads at least as far (rollout_project.py, rollout_supersession.py).
THEOREM RolloutsKeepWork == RolloutSpec => []RolloutKeepsWork
<1>1. ASSUME RolloutTypes, RolloutInv PROVE RolloutKeepsWork
  <2> SUFFICES ASSUME NEW v \in Versions, requests[v].bot
               PROVE  /\ \A p \in OwnedPaths : requests[v].head.tree[p] = requests[v].from.tree[p]
                      /\ \A p \in requests[v].conflicts \ OwnedPaths :
                             Survives(requests[v].from.tree[p], requests[v].head.tree[p])
                      /\ \A p \in RunnerPaths :
                             ~RunnerAware(requests[v].from.version) /\ requests[v].from.tree[p].own \in {"runner", "both"}
                                 => requests[v].head.tree[p].own \in {"runner", "both"}
                      /\ requests[v].state = "superseded" =>
                             v <= trunk.version \/ \E w \in Versions : v < w /\ requests[w].state \in {"open", "merged", "rejected"}
    BY DEF RolloutKeepsWork
  <2>1. Fit(requests[v].from, requests[v].head, requests[v].conflicts)
    BY <1>1, UnchangedFit
  <2>2. requests[v].state = "superseded" => Overtaken(limits.versions, requests, trunk.version, v)
    BY <1>1 DEF RolloutInv, RequestsFit, Versions
  <2>3. requests[v].state = "superseded" =>
            v <= trunk.version \/ \E w \in Versions : v < w /\ requests[w].state \in {"open", "merged", "rejected"}
    BY <2>2 DEF Overtaken, Versions, Live
  <2> QED
    BY <2>1, <2>3 DEF Fit, Naming
<1> QED
  BY <1>1, RolloutInductive, PTL

\* Whichever jobs overlap, whatever call of the tracker fails and wherever a job is killed: an Issue stays open until a
\* recovery, the Issue that no stale reading was written to is the only one and counts the failures in a row exactly, and
\* an Issue at the threshold is labelled as an alert, but for the calls that failed (rollout_failure_streak.py).
THEOREM StreaksAreExact == RolloutSpec => []StreakIsExact
<1>1. ASSUME RolloutTypes, RolloutInv PROVE StreakIsExact
  <2>1. /\ OpenIssues = OpenIn(issues) /\ Undisputed = OpenIn(issues) \ raced
        /\ CountFits(issues, failures, raced, garbled) /\ Labelled(job, issues, unlabelled)
    BY <1>1 DEF RolloutInv, StreakInv, Undisputed, OpenIssues, OpenIn
  <2>2. Cardinality(Undisputed) <= 1
    <3>1. CASE Undisputed = {}
      BY <3>1, FS_EmptySet
    <3>2. CASE Undisputed # {}
      <4>1. PICK n : n \in Undisputed
        BY <3>2
      <4>2. Undisputed = {n}
        BY <2>1, <4>1 DEF CountFits
      <4> QED
        BY <4>2, FS_Singleton
    <3> QED
      BY <3>1, <3>2
  <2>3. failures > 0 => OpenIssues # {}
    BY <2>1 DEF CountFits
  <2>4. \A n \in Undisputed :
            issues[n].readable => /\ issues[n].streak = failures \/ (n \in garbled /\ Alarming(issues[n]))
                                  /\ issues[n].alert => Alarming(issues[n])
    BY <2>1 DEF CountFits
  <2>5. \A n \in OpenIssues :
            Alarming(issues[n]) =>
                issues[n].alert \/ n \in unlabelled \/ \E i \in Jobs : Alerting(i) /\ job[i].issue = n
    BY <2>1 DEF Labelled, Alerting
  <2> QED
    BY <2>2, <2>3, <2>4, <2>5 DEF StreakIsExact
<1> QED
  BY <1>1, RolloutInductive, PTL


=============================================================================

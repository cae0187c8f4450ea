------------------------ MODULE HookAttachment ------------------------
(***************************************************************************)
(* The attachment of a checkout to the operator-local workspace runtime    *)
(* (local_workspace.py): core.hooksPath is pointed to a generated          *)
(* dispatcher that delegates to the hooks the user had, and a receipt      *)
(* remembers where those are.  The sync of an account, run by its          *)
(* LaunchAgent or by hand, attaches step by step; `remove` detaches.  Each *)
(* process can be killed between two steps, and people change the settings *)
(* by hand.                                                                *)
(*                                                                         *)
(* As the documentation demands, the agents of all accounts are removed    *)
(* before somebody detaches, and no sync is started by hand meanwhile.     *)
(***************************************************************************)
EXTENDS Naturals

CONSTANTS
    Users,         \* the accounts of the machine
    UserPaths,     \* the values of core.hooksPath that people set
    Dispatcher,    \* the value that names the generated hooks
    NoPathReceipt,
    Hooks,         \* the generated hooks
    MaxHandEdits   \* bound: the edits by hand

ASSUME AttachmentAssumption == Dispatcher \notin UserPaths /\ NoPathReceipt \notin UserPaths \cup {Dispatcher}

VARIABLES
    hooksPath,  \* core.hooksPath; a member of UserPaths stands for unset
    policyKey,  \* devPlatform.localWorkspacePolicy is set
    pathReceipt,    \* the attachment receipt: the original path
    generated,  \* of a hook: whether it is there as it was generated
    agent,      \* of an account: its plist, and whether launchd has loaded it
    worker,     \* of an account: its sync or removal
    handEdits,
    wanted,     \* history: the path that people set last
    crossed     \* history: somebody edited while a process worked

configVars == <<hooksPath, policyKey, pathReceipt, generated>>
attachmentVars == <<configVars, agent, worker, handEdits, wanted, crossed>>

Resting == [does |-> "nothing", at |-> "none", path |-> NoPathReceipt, todo |-> {}]

AttachmentInit ==
    /\ hooksPath \in UserPaths /\ wanted = hooksPath
    /\ policyKey = FALSE /\ pathReceipt = NoPathReceipt
    /\ generated = [h \in Hooks |-> "none"]
    /\ agent = [u \in Users |-> [plist |-> FALSE, loaded |-> FALSE]]
    /\ worker = [u \in Users |-> Resting]
    /\ handEdits = 0 /\ crossed = FALSE

Rests(u) == worker[u] = Resting
Doing(u, what, step) == worker[u].does = what /\ worker[u].at = step
Working(what) == {u \in Users : worker[u].does = what}
StepTo(u, step) == worker' = [worker EXCEPT ![u].at = step]
Stops(u) == worker' = [worker EXCEPT ![u] = Resting]
ExceptWork == UNCHANGED <<agent, handEdits, wanted, crossed>>

-----------------------------------------------------------------------------
(* The LaunchAgent of an account. *)

ExceptAgent == UNCHANGED <<configVars, handEdits, wanted, crossed>>

\* The plist is written before launchd loads it, which may fail; a retry loads.
InstallAgent(u) ==
    /\ Working("detach") = {}
    /\ \E loads \in BOOLEAN : agent' = [agent EXCEPT ![u] = [plist |-> TRUE, loaded |-> loads \/ @.loaded]]
    /\ UNCHANGED worker /\ ExceptAgent

\* The unload stops the sync that it runs; only then goes the plist.
BootOut(u) ==
    /\ agent[u].loaded
    /\ agent' = [agent EXCEPT ![u].loaded = FALSE]
    /\ IF worker[u].does = "attach" THEN Stops(u) ELSE UNCHANGED worker
    /\ ExceptAgent

UnlinkPlist(u) ==
    /\ agent[u].plist /\ ~agent[u].loaded
    /\ agent' = [agent EXCEPT ![u].plist = FALSE]
    /\ UNCHANGED worker /\ ExceptAgent

\* launchd loads at login what it finds.
Login(u) ==
    /\ agent[u].plist /\ ~agent[u].loaded
    /\ agent' = [agent EXCEPT ![u].loaded = TRUE]
    /\ UNCHANGED worker /\ ExceptAgent

-----------------------------------------------------------------------------
(* Sync: one at a time, under its lock. *)

StartSync(u) ==
    /\ Rests(u) /\ \A v \in Users : Rests(v)
    /\ worker' = [worker EXCEPT ![u] = [Resting EXCEPT !.does = "attach", !.at = "check", !.todo = Hooks]]
    /\ UNCHANGED configVars /\ ExceptWork

\* An attachment is resumed only while the path is what it set or found.
AnyConfigured == TRUE
PathIsKnown == hooksPath \in {Dispatcher, pathReceipt}

AttachCheck(u) ==
    /\ Doing(u, "attach", "check")
    /\ \/ pathReceipt # NoPathReceipt /\ PathIsKnown
          /\ worker' = [worker EXCEPT ![u].at = "hooks", ![u].path = hooksPath]
       \/ pathReceipt = NoPathReceipt /\ ~policyKey
          /\ worker' = [worker EXCEPT ![u].at = "receipt", ![u].path = hooksPath]
       \/ ~(pathReceipt # NoPathReceipt /\ PathIsKnown) /\ ~(pathReceipt = NoPathReceipt /\ ~policyKey) /\ Stops(u)
    /\ UNCHANGED configVars /\ ExceptWork

AttachReceipt(u) ==
    /\ Doing(u, "attach", "receipt") /\ StepTo(u, "hooks")
    /\ pathReceipt' = worker[u].path
    /\ UNCHANGED <<hooksPath, policyKey, generated>> /\ ExceptWork

\* A generated hook that somebody changed is never overwritten.
AttachHook(u, h) ==
    /\ Doing(u, "attach", "hooks") /\ h \in worker[u].todo
    /\ \/ generated[h] = "edited" /\ Stops(u) /\ UNCHANGED generated
       \/ /\ generated[h] # "edited"
          /\ generated' = [generated EXCEPT ![h] = "ours"]
          /\ worker' = [worker EXCEPT ![u].todo = @ \ {h}]
    /\ UNCHANGED <<hooksPath, policyKey, pathReceipt>> /\ ExceptWork

AttachKey(u) ==
    /\ Doing(u, "attach", "hooks") /\ worker[u].todo = {} /\ StepTo(u, "path")
    /\ policyKey' = TRUE
    /\ UNCHANGED <<hooksPath, pathReceipt, generated>> /\ ExceptWork

\* The path is compared as it was read at the start.
AttachPath(u) ==
    /\ Doing(u, "attach", "path") /\ Stops(u)
    /\ hooksPath' = IF worker[u].path = Dispatcher THEN hooksPath ELSE Dispatcher
    /\ UNCHANGED <<policyKey, pathReceipt, generated>> /\ ExceptWork

-----------------------------------------------------------------------------
(* Remove. *)

\* The user's hooks come back before the dispatcher's files go.
HooksFirst == [check |-> "hooks", hooks |-> "path", path |-> "key", key |-> "receipt"]
DetachOrder == [check |-> "path", path |-> "key", key |-> "hooks", hooks |-> "receipt"]

StartDetach(u) ==
    /\ Rests(u) /\ Working("attach") = {}
    /\ \A v \in Users : ~agent[v].plist /\ ~agent[v].loaded
    /\ worker' = [worker EXCEPT ![u] = [Resting EXCEPT !.does = "detach", !.at = "check"]]
    /\ UNCHANGED configVars /\ ExceptWork

\* Nothing is removed unless all of it is still what was generated.
DetachCheck(u) ==
    /\ Doing(u, "detach", "check")
    /\ IF policyKey /\ pathReceipt # NoPathReceipt /\ hooksPath = Dispatcher /\ \A h \in Hooks : generated[h] # "edited"
       THEN worker' = [worker EXCEPT ![u].at = DetachOrder.check, ![u].path = pathReceipt]
       ELSE Stops(u)
    /\ UNCHANGED configVars /\ ExceptWork

DetachPath(u) ==
    /\ Doing(u, "detach", "path") /\ StepTo(u, DetachOrder.path)
    /\ hooksPath' = worker[u].path
    /\ UNCHANGED <<policyKey, pathReceipt, generated>> /\ ExceptWork

\* A key that somebody else unset is an error.
DetachKey(u) ==
    /\ Doing(u, "detach", "key")
    /\ IF policyKey THEN StepTo(u, DetachOrder.key) ELSE Stops(u)
    /\ policyKey' = FALSE
    /\ UNCHANGED <<hooksPath, pathReceipt, generated>> /\ ExceptWork

DetachHooks(u) ==
    /\ Doing(u, "detach", "hooks") /\ StepTo(u, DetachOrder.hooks)
    /\ generated' = [h \in Hooks |-> "none"]
    /\ UNCHANGED <<hooksPath, policyKey, pathReceipt>> /\ ExceptWork

DetachReceipt(u) ==
    /\ Doing(u, "detach", "receipt") /\ Stops(u)
    /\ pathReceipt' = NoPathReceipt
    /\ UNCHANGED <<hooksPath, policyKey, generated>> /\ ExceptWork

KillWorker(u) == ~Rests(u) /\ Stops(u) /\ UNCHANGED configVars /\ ExceptWork

-----------------------------------------------------------------------------
(* People. *)

ByHand ==
    /\ handEdits < MaxHandEdits /\ handEdits' = handEdits + 1
    /\ crossed' = (crossed \/ \E u \in Users : ~Rests(u))
    /\ UNCHANGED <<policyKey, pathReceipt, agent, worker>>

EditPath(path) ==
    /\ hooksPath # path /\ hooksPath' = path /\ wanted' = path
    /\ UNCHANGED generated /\ ByHand

\* Somebody changes a generated hook, and brings it back after a review.
EditHook(h) ==
    /\ generated[h] # "none"
    /\ generated' = [generated EXCEPT ![h] = IF @ = "ours" THEN "edited" ELSE "ours"]
    /\ UNCHANGED <<hooksPath, wanted>> /\ ByHand

AttachmentNext ==
    \/ \E u \in Users :
        \/ InstallAgent(u) \/ BootOut(u) \/ UnlinkPlist(u) \/ Login(u)
        \/ StartSync(u) \/ AttachCheck(u) \/ AttachReceipt(u) \/ AttachKey(u) \/ AttachPath(u)
        \/ StartDetach(u) \/ DetachCheck(u) \/ DetachPath(u) \/ DetachKey(u) \/ DetachHooks(u)
        \/ DetachReceipt(u) \/ KillWorker(u)
    \/ \E u \in Users, h \in Hooks : AttachHook(u, h)
    \/ \E path \in UserPaths : EditPath(path)
    \/ \E h \in Hooks : EditHook(h)

AttachmentSpec == AttachmentInit /\ [][AttachmentNext]_attachmentVars

-----------------------------------------------------------------------------
(* Properties. *)

\* The hooks that a Git command runs in the end.
DelegatedHooks == IF hooksPath = Dispatcher THEN pathReceipt ELSE hooksPath

\* Git runs the hooks that people chose last, in every stage of an attachment
\* or removal that was killed and taken up again.  While the dispatcher is in
\* charge it has every hook, so that none of the user's is passed over in
\* silence, and a set policy key has the receipt that a removal needs.  Excused
\* is a person who changes the path or a hook while a process works.
OriginalIsKept ==
    ~crossed =>
        /\ DelegatedHooks = wanted
        /\ hooksPath = Dispatcher => \A h \in Hooks : generated[h] # "none"
        /\ policyKey => pathReceipt # NoPathReceipt
====

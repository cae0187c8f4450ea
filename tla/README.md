# A verification development for dev-platform

dev-platform runs the work of coding agents on one machine: an agent gets a
worktree, claims the files it changes, validates under a machine-wide budget,
publishes a pull request through GitHub, and brings the task back to a clean
local main.  Its core is a set of Python programs in `template/scripts/` and
`scripts/` that share little memory and much state: lock files, JSON files, Git
refs, worktrees and GitHub.  They are killed, retried and run side by side, and
that is what this directory models, model-checks with TLC and, where it matters
most, proves with TLAPS.

## Inventory

For each part: its state, its operations, whom it meets, what is hard, and what
makes it correct.  The parts marked * are modelled, whole or in their core.

| Part | State | Operations | Interaction | Hard behaviour and correctness |
|---|---|---|---|---|
| Machine pool * (`machine_pool.py`) | ticket files, `admission.lock`, slot files, each under a flock | queue, poll and sweep, admit, take, grant, spawn, release | all validations of the machine | kills and suspensions at any system call, readers that take the same locks, children that outlive the parent: leases are atomic, only the head takes, every wait ends |
| Publication * (`finish_task.py`, `project_publish.py`, `publication_state.py`, `integration_state.py`) | nothing of its own: branch, GitHub PR, local main, Project, board | finish: recover, validate, push, open, arm, follow, synchronize, reconcile, clean up | GitHub by lookups; other finishes by the integration lock; the board | killed anywhere and run again; GitHub merges asynchronously: only validated heads merge, a released task is delivered, a merged task is reconciled |
| Task reconciliation * (`task_reconciliation.py`) | the task branch, the armed request | check for a merged PR, disarm, push a descendant, merge main, push | the same PR that finish follows | main, the PR and the branch move between two looks |
| Agent board * (`agent_board.py`) | one JSON file of entries | start, update, admit, acknowledge, finish, doctor, gate | worktrees and GitHub of the siblings, asked one by one | claims are exclusive although the siblings move, entries lapse, and the gate reads without the lock |
| Locked JSON, integration lock * (`_platform_common.py`, `integration_state.py`) | a lock file next to the data | lock, read, write whole | board, publication, start, signals | an exception writes nothing, a kill drops the lock |
| Delegated writer * (`delegated_write_guard.py`, `sandboxed_writer.py`) | a lock and a receipt per worktree | acquire, launch, stream, reap | everybody who writes in a task worktree | one live writer per worktree across crashes of the launcher |
| Direct finish and containment * (`finish_task.py`, `project_sync.py`, `delegation_containment.py`) | local main with its reflog, the log of integration advances | fast-forward, push, record a receipt, recover one, verify a delegation | all tasks advance one local main | a kill between merge, push and receipt; a receipt for somebody else's move would hide a child that left its worktree |
| Managed start * (`start_managed_task.py`, `start_task.py`, `start_worktree.py`) | a transaction file per change | begin, create worktree and package, register, admit, commit, recover | the board, the Project | a crash between any two of them leaves only what its transaction owns |
| Worktree cleanup * (`worktree_cleanup.py`, the end of `finish_task.py`) | the record of deferred cleanups | remove own, defer, consume, targeted, global, abandoned | finish, the board, live processes | a head that was looked up earlier, unlocked read-modify-write of the record, identity checked before removal |
| Closing of a Requirement * (`requirement_terminal.py`, `requirement_retrospective.py`) | parent and child Issues, decisions, checkpoint | report a child, accept an item, reconcile and close the parent | the finishes of the children | body, decisions and board change between two reads; the last children leave it to one another |
| Child numbers * (`requirement_intake.py`, `managed_work_identity.py`) | claims in the bodies of Issues | claim, reserve, read back | a second machine, people | whole bodies are read and written without a condition |
| Shared delivery * (`requirement_integration.py`, `execute_requirement.py`) | receipts of children, a candidate branch and request per generation | collect, bind, compose, check, publish, reconcile, one round after another | the children's tasks, GitHub | killed anywhere; inputs move during the full checks |
| Recovery by a merge * (`requirement_merge_recovery.py`) | a worktree and a manifest per generation | prepare, finalize, publish, reconcile | a person who resolves the merge | the candidate changes by hand between two looks |
| Design of a Requirement * (`orchestrate_pre_authoring.py`, `add_intents.py`, `project_evidence.py`, `execute_requirement.py`) | files of the integration checkout, each binding the ones before | choose a depth, draft, approve, hand off, refresh, rebind, start the next child | main, which moves under everything | an approval outlives what it was given for |
| Task intake * (`managed_task.py`) | the Issue, package comments, task state, linked process Issues | create, publish, supersede, import, resolve | several authors, a retry after each kill | two writes of one command are not one |
| Model routing * (`model_routing.py`) | a routing record per task, its durable copy | plan, dispatch, post-check, retry, escalate, approve, abandon, two gates | the delegated writer, the supervisor, context workers | every command decides by a record it read before a long run |
| Evidence and review * (`openspec_lifecycle.py`, `select_checks.py`, `task_content_identity.py`, `independent_review.py`, `independent_review_runner.py`) | receipts bound to content | run checks, reuse, prepare and run a review, dispose, finish | the agent, main | content and main move while checks and reviewers run |
| Friction * (`agent_friction.py`) | an event log, routing state, checkpoints, root Issues | record, attribute, route, resolve, merge, close, checkpoint, carry | finish, as a gate; other sessions | reads before the lock, two sessions at one root, a checkpoint that a later commit makes stale |
| Hook attachment * (`local_workspace.py`) | `core.hooksPath`, a receipt, generated hooks, agents of accounts | sync, attach, detach | Git, people | killed between two settings |
| Shared group state * (`shared_workspace.py`) | files with group and mode, `core.sharedRepository` | audit, repair, preflight, reports, publications | accounts that write, replace and drop the files | an audit walks over moving files |
| Read cache * (`github_read_cache.py`) | one file of pages with their ETags | revalidate, store | other processes, deletion | a 304 stands for a stored page and its link |
| Rollout * (`scripts/rollout_project.py`, `rollout_supersession.py`, `rollout_failure_streak.py`) | update requests of a project, a tracking Issue | render, guard, push, open, supersede, count failures | the project, overlapping jobs | the renderer spoils files; a newer rollout closes the only request |
| Reporting (`managed_project_status.py`, `lifecycle_overview.py`, `requirement_metrics.py`, doctors) | none | read | GitHub | none beyond unavailability |
| Tooling (explorer, distribution, adoption, replay, evaluations, GitLab adapter) | files | batch programs | none | none a model checker reaches |

`PROJECT.json` lists the same parts under `components`, what can go wrong at
which line under `hazards`, and for every definition of the models the lines it
stands for under `map`.

## Modules

| Module | What it is |
|---|---|
| `TokenPool` | what the pool promises: leases begin and end in one step |
| `MachinePool` | the pool, one action per system call or decision |
| `Publication` | finish, publish and reconcile against GitHub |
| `AgentBoard` | the board, its lock, its doctor and the publication gate |
| `WriterOwnership` | lock, receipt and process group of a delegated writer |
| `MainAdvances` | direct finishes, synchronizations and receipts over one local main |
| `ManagedStart` | the start transaction of one change |
| `WorktreeCleanup` | removal by a finish, deferred, targeted and abandoned removal |
| `RequirementClosing` | the runs that may close a parent |
| `ChildIdentity` | the numbers of children, on several machines |
| `SharedCandidate` | the rounds of a shared delivery |
| `MergeRecovery` | the delivery by a merge made by hand |
| `PreAuthoring` | from the text of a Requirement to linked and started children |
| `TaskIntake` | Issue, packages, import and terminal resolution of one task |
| `ModelRouting` | the routing record and its gates |
| `CompletionEvidence` | checks and reviews bound to content, up to publication |
| `FrictionLog` | events, roots, curation, checkpoints |
| `HookAttachment` | attaching and detaching generated hooks |
| `SharedState` | audits, repairs and publications of several accounts |
| `ReadCache` | paginated reads through one file |
| `Rollout` | jobs, requests and the failure streak of one project |
| `MachinePool_proofs`, `Publication_proofs`, `AgentBoard_proofs` | proofs about the module they are named after |
| `Ownership_proofs` | proofs about `WriterOwnership` and `ManagedStart` |
| `Workspaces_proofs` | proofs about `WorktreeCleanup` and `MainAdvances` |
| `Requirements_proofs` | proofs about `PreAuthoring`, `ChildIdentity`, `RequirementClosing`, `MergeRecovery` and `SharedCandidate` |
| `TaskWork_proofs` | proofs about `TaskIntake`, `ModelRouting` and `CompletionEvidence` |
| `Platform_proofs` | proofs about `HookAttachment`, `FrictionLog`, `ReadCache`, `SharedState` and `Rollout` |
| `MCMachinePool`, `MCPublication`, `MCAgentBoard`, `MCWriterOwnership`, `MCRollout`, `MCTaskIntake` | small instances of one module |
| `MCWorkspaces`, `MCRequirements`, `MCTaskWork`, `MCPlatform` | small instances of several modules |

The parts that a grouped module instantiates share no variable; its variable
`part` says which one a behaviour is about, and the others stay in one initial
state.  Where a part has several ways to go wrong, a constant such as
`AuthoringBounds` or `SharedBounds` is a set of records of bounds, one per way;
a behaviour has one of them from its start.  Where modules do interact (the
board with publication, GitHub with a finish, the pool with a validation), each
module has the other's moves as steps of its environment.

### The machine pool

A run is a process that wants `Weight[r]` of `Tokens` tokens.  `pc` follows
`_create_ticket`, `_acquire` and `lease`; `files`, `ticket`, `sweep` and
`admission` are the queue directory and the flocks on it; `slot`, `index` and
`child` are the slot locks, how far `_try_take_slots` has come, and whether a
child has inherited the descriptors.  A flock belongs to an open file, so
`Kill` drops what the run held, except the slots a child has open, and leaves
the ticket file for a sweep.  The name of a ticket is its rank and its arrival;
`fresh` stands for the time and the nonce in it.  A run passes the pool once.

Readers (`read_holders`, `status`) test a lock by taking it shared for a
moment; `lookTicket` and `lookSlot` are that moment.  Load, memory and pressure
are a refusal (`MachineBusy`) or a failure (`MeasureFails`) at any poll.
A deadline is a flag that any waiting run may find set.

`LeasesAreAtomic` maps a slot to its run once the run works under a complete
lease: while it takes slots one by one they count as free, which is what the
admission lock makes true for everybody who asks.

### Publication and reconciliation

A session is one run of `finish` or `finish --reconcile`; `pc` is the place in
it.  Between two runs only the task branch, GitHub, local main, the receipts,
Project, parent and board remain.  A head is the position of a commit in the
branch and how much of main it contains, so "fresh" and "descendant" are
comparisons; main is a length.  The trace commit that finish may add changes no
content and is the same head.  `validated` is history: the heads that passed
the validation.

GitHub is the environment: it finishes checks with either result, merges an
armed PR whose checks have passed, may delete its branch, keeps the request
across a push, and has one open PR per branch.  `Fail` is a kill, a refused
gate or a failed call at any step; an unreadable lookup is the second disjunct
of the action that looks.  Both share the budget `MaxFaults`.  `Scribble` puts
content into the integration copy, foreign or equal to main.

Modelled is the multi-agent profile with `publish_mode = pr` and
`pr_merge_mode = auto`.  The agent commits while no run of its own is going on
and while the task is on the board.  `MaxCommits` bounds the branch, and a
reconciliation that reaches it ends like one with a merge conflict.

### The board

`board` is the file, `data[p]` what the command of `p` has read of it.  Commands
that ask the siblings nothing, or one thing, are one step under the lock;
`admit` and the gate ask one sibling at a time (`LookAt`), between which other
worktrees change.  `admit` keeps the lock meanwhile, the gate never takes it.
The doctor holds it from its look to its write.  An entry is the id, the
declared scope, the claims of the last RUN, the acknowledgments and whether its
heartbeat is recent.  `tree` and `edits` are the worktrees and what their
branches change.  `lapsed` is history: the ids that were once stale, merged or
without a worktree, whose claims any sibling may pass over by design.

### The delegated writer

A launcher is one call of `run_observed_delegation` for one worktree; `pc` is
its place in `acquire`, the `try` block and the `except` block, and `raised`
tells the two blocks apart where they do the same.  `receipt` is the receipt
file, reduced to what a later launcher reads of it: whose launch it is, and if
it names a process group.  `members` is the process group: the leader, a zombie
leader, descendants (`kin`), or a `stranger` that has got the number of a
vanished group, which the probe cannot tell from a live writer.  Whether the
signals end a group, refuse to be sent or run out of grace is open: processes
exit at any time, and `MarkAmbiguous` may follow whenever the group is not
absent.  `Abort` is every exception while the handlers are armed, that is until
the end of the `try` block; a second one, or a SIGKILL, is `Die`.  `robbed` is
history: the launches whose receipt was removed or replaced by a launcher that
had given up the lock.  The release of an unrecorded child is one step, for
nobody can come in between.  Descendants that leave the process group, and
thereby the reach of the code, are not in the model.

### Local main and its receipts

A history is the sequence of its commits, so an ancestor is a prefix.  `finish`
is a direct finish or a synchronization of a task, `reflog` what Git remembers
of local main, `receipts` the log of advances, `window` a delegation with what
its supervisor recorded before and reads after.  `RawFastForward`,
`RawCommit` and `RawEdit` are people and tools that move main or change the copy
without the platform.  History: `moves` says who moved main, `raced`
that the very command of a synchronization was run by somebody else inside it,
`deliveredHeads` which heads were reported delivered.

What the model showed besides: an advance of a sibling between the
supervisor's preparation and the begin of the delegation makes a false
violation, and one direct finish on top of an advance that never got its
receipt breaks the chain for later windows.  Both err to the safe side.  The
recovery of a chain that is stale by its age, and bundles, are not modelled.

### Starting a task

`stage` is the step of a start, `transaction` the file, `parts` what there is
of the task (branch, worktree, board entry, package, and so on), `work` what an
agent has in it that is nowhere else.  A start may fail or be killed at each
step.  `overtaken` is history: starts whose lock another one took before they
unlinked the file; such a start may remove the file of its successor, which
`PartialIsOwned` excuses.

### Removing worktrees

Commits of a branch are numbered; 0 is no branch.  `records` is the deferred
file, and `job`, `seen`, `selected`, `left` and `kept` what a command has looked
up, read and will write back.  A finish looks up the merged head (`FollowRequest`
and `ConfirmMerge`, or `FindMerged`), and a fetch and the reconciliation later it
removes its worktree and branch whatever their head is by then (`RemoveOwn`,
`DeleteOwnBranch`), or records the head that the branch has now (`IdentifyOwn`,
`ReadToDefer`, `WriteDeferred`); none of these compares the two heads.  Agents
commit, come and go at any time, also while a finish of theirs runs; main
contains what `delivered` says; GitHub closes, merges and reopens requests.
`overlooked` is history: the heads that came, or whose request was reopened,
after a command had looked and before it acted.  Only those are excused in
`OnlyProvenHeadsGo`: any other branch goes at a head in main, or at the head of
a request that is closed at that moment.

### The end of a Requirement

A closer is a run of `reconcile_parent` in one of its four callers, reading the
body, the decisions, the checkpoint and main, then each child, and writing last.
Nothing locks GitHub, so every variable outside of `closer` may change between
any two of its steps; it decides by what it has read, kept in its record.

### The numbers of children

`claim` and `parent` are bodies of Issues.  A linker holds the lock of its host
and knows what it has read; another host writes between any two of its steps.
`RepairClaim` and `EditParent` are people.

### The shared delivery

`run` is the round of `execute_requirement.py`, from its receipts over
`bind_integration`, `compose_candidate` and `publish_candidate` to the
reconciliation.  `candidate[g]` is the branch of a generation with its
worktree: its base, the heads it holds in order, how many of them the committed
manifest binds, and whether a child is applied but not committed.  `EndRound` is
any refusal, failure or kill.  Children commit, main moves, and people merge
requests at any time.  `moved` is history: a receipt was superseded by a newer
one.  Once two generations are bound, which takes a later child that is
started by hand before the base, `Bind` refuses for ever.

### The recovery by a merge

A generation is a main with the head of the last child.  `merging[gen]` is its
worktree, `manifests` the committed manifest, `recovery` the command that runs.
People resolve, redo or amend the merge at any time (`EditByHand`), and the history
bit `late` is an edit after the publisher's last look.  A kill between the
creation of the worktree and the merge, or between the two commits of finalize,
leaves an occupied generation that neither prepare nor finalize accepts.

### From text to children

A digest is the content it stands for.  `Stage` recomputes, as
`orchestrate_pre_authoring.py` does at each look, how far the files bind one
another.  `rebind` is the carrying of an approval over commits of main, killed
between any two writes.  History: `vouched` are the designs a person approved,
`approval.blind` that a rebind did not look at some commits.

### The intake of a task

`issues` and `packages` are GitHub, `author` the commands of the authoring
sessions, `importer` and `resolver` the import and the terminal resolution.
Each command is its sequence of reads and writes and may end anywhere.
`raced` is history: two authors wrote on the strength of one observation.

### Routing

`route` is the record of the task, `durable` its copy, `content` the set of
edits with their writers.  A dispatch keeps the record it has read while its
child runs (`run`).  History: `lost`, a dispatch was killed before it recorded
its child; `stale`, a context worker put an older plan back.

A run of the selected checks (`checks`) asks the early gate only when its
selection runs test groups (`StartSelected`); documents, root guidance and
explorers have selections without any.  Its evidence (`checked`) names the
content at its end and, as history, whether the gate saw exactly that.  The
archive asks the routing gate first, among its preconditions (`OpenArchive`), and
the evidence last (`Archive`).  Two contents come to the archive without having
been seen by the early gate, and `UnplannedIsApproved` excuses them: that of a
selection without test groups, where the routing gate is satisfied by the
integration copy of an earlier route or by a self-reported execution over the
delegation of a killed sandbox dispatch (`_has_real_delegation` is not asked
there); and an edit that the agent makes during its own check run.

### Evidence

A head is a content and the number of main's commits in it.  `selector` and
`reviewer` are the runs under way, with the content they started on;
`finishing` walks through the stages of finish.  `MatchesCheckout` and
`StandsFor` are content identity and its equivalence over main's commits.
`validated` is history.  A commit of another process between the checks and
the snapshot of their result is the instance `overlap`, which no passing run
has, for it makes evidence of what did not run (`EvidenceIsOfWhatRan`).

### Friction

`log`, `routing` and `checkpoints` are the files, `roots` the generated Issues
with their markers, `session[s]` what a session has read and will write.
`review` is a retrospective between its reading and its writing.  `finish` is
the gate and, step by step, what follows: the candidate is read after the gate
(`ReadCandidate`), the archive is committed or found (`ArchiveCommit`,
`FindArchived`), and the carry compares the parent, reads the content and writes
(`CompareParent`, `ReadProof`, `CarryCheckpoint`); the agent commits between any
two of them.  History: `rodeAlong`, the commits with work of the agent that a
finish takes for its own or for what it compared;
`contested`, fingerprints a person decided about or two sessions put up at a
time; `half`, fingerprints of merges that are not complete; `curatorsMet`.

### Hooks, shared files, cached reads, rollouts

`HookAttachment` has the keys and files of an attachment and one worker per
account that sets or removes them one by one; `crossed` is history: a person
edited while a worker was at it.  `SharedState` has a file per place, which
fits the group's contract or not, and one operation per account; `unfit` and
`ungranted` are history: what has not fitted, and since when Git denied the
group, since an operation began.  In `ReadCache` an item is the number of the
change that made it; `calm` is history: the list did not change during a read.
In `Rollout` a file is the version its text comes from and what the project made
of it; a job renders, guards, pushes, opens, supersedes and counts, and
the project, Copier and GitHub may do anything between.  Each call of the tracker
is a step: finding the Issue with its body (`seen`), creating it or replacing
the body, the comment, the label; the comment on a recovery, the closing.  Any of
them fails or is the last before a kill (`TrackerFails`), and people make the
body unreadable (`SpoilIssue`).  History: `raced`, Issues written on a reading
that another write had made stale, with their like; `garbled`; `unlabelled`,
Issues whose latest failure was recorded by a job that ended before its label.


## What the runs check

| Run | Instance | Question |
|---|---|---|
| `pool_safety` | a capped run of weight 3 and a finalize run, 2 tokens, 2 ticket names | tickets, the head rule, tokens, `TokenPool` |
| `pool_liveness` | the same two, 1 token, one may be suspended | every wait ends |
| `publication` | one task, 3 heads, 1 foreign merge, 2 faults | what merges, what is released, and that a merged task comes off the board |
| `publication_two` | two tasks, 2 heads each, no faults | receipts cover every advance once |
| `board` | two tasks, two files, 3 registrations, 1 lapse | exclusive claims, gated changes, no lost update |
| `workspaces` | a worktree with 3 launches; a change with 3 starts and 2 package revisions; 2 cleaners on 1 task with 3 commits, or on 2 tasks; 2 finishers, a synchronization and a delegation over one main | who owns a checkout |
| `requirements` | 2 closers over 2 children or 1 item; 2 linkers on 2 machines; rounds over 2 children with 2 heads each and 2 mains; a recovery with 2 edits by hand and a kill | what a Requirement delivers, and who closes it |
| `taskwork` | one Requirement of 2 children; 2 authors and an importer; a route with a context worker, a second route, or selections with and without test groups; 2 contents with checks and reviews | what work goes through until it is published |
| `platform` | 2 rollout jobs, 2 versions, up to 4 dispatches, 2 edits and 2 faults; 2 sessions at the friction log, a task with up to 4 commits; 2 accounts and 2 hooks; 2 accounts in a shared checkout; 2 readers of pages of size 1 | what outlives a task |
| `writer_release`, `rollout_divergence`, `intake_supersede` | one violation each | see the findings |

`PROJECT.json` names the properties of each run, and for each property a
mutation of the code's model that violates it.

**Bounds.**  Two runs suffice for the pool's races, which are between the owner
of a ticket or slot and one other; a weight above `Tokens` reaches the cap and
the all-or-nothing path, and two names the retry after a sweep.  Three heads let
a reconciliation or a fix follow an armed head and be followed by another; two
faults allow a kill of one run and an unreadable lookup or a kill in the next.
Three registrations let an entry be replaced while the other task remembers the
old one.  Three launches, or starts, are one that interferes, one that is
interfered with, and a later one that should have been refused.  Two children
and two heads each are the least that a shared candidate can hold in an order,
lose one of, or hold at an older head.  Two closers, two authors and two
sessions are what it takes to act on one observation twice.  Three commits of a
branch are one that is merged, one that a finish overlooks and one on top; four
of a task are the reviewed one and one in each window of the carry.  Four
dispatches reach the threshold of a failure streak, fall behind it and come back.
A page of one item
makes every change one of pages.  Two constraints cut what a larger instance
would repeat: `MCSecondFile` keeps the second file of the board to entries that
have not been replaced, and `MCOneKindOfEdit` lets the body of a parent gain
children or items, not both.  What is proved (below) is free of these bounds.

**Deadlock** is checked where the system always can go on: the board.  Elsewhere
it may stop: a run of the pool ends for good, the agent of a delivered task has
nothing left to do, the bounds of a behaviour are used up.

**Fairness.**  `MachinePool`: a run that is not suspended takes its next step, and
its deadline comes (`WF` of both); nothing is assumed of suspended runs or of
readers.  `Publication`: a run goes on (`WF`), its agent runs finish again
(`SF`: the worktree is there and finish is the documented next command), a run
that tries the integration lock every 0.1 s gets it when it is free again and
again (`SF`; if its deadline passes first, finish is run again), and somebody
tidies the integration copy (`WF`), which finish asks for and never does itself.
No other module states fairness, for no other has a liveness property.

## Findings

* `writer_release`: a launcher that fails to record the child it has started,
  or is interrupted before it has, gives up lock and receipt without looking at
  the child; the next launcher starts a second writer.
* `rollout_divergence`: a recopy that is allowed for other conflicts overwrites
  a platform file that the project has changed and the template has not.
* `intake_supersede`: a supersede that is killed between its two writes finds no
  predecessor when it is run again, and posts the replacement without the link
  to it and without its process evidence.

### Statements that do not hold and have no run

The modules state these too, from a comment or a specification of the
repository.  The models violate them as told; they are no properties of a run.

* `MergedStaysTerminal` (`Publication`): reconcile checks for a merged PR once,
  at its start, and passes when GitHub is unreadable; a PR that merges and loses
  its branch right after the check has main merged into its delivered head,
  which the docstring of `_require_exact_merged_is_terminal` excludes.
* `RefusalLeadsOut` (`Publication`): when the armed PR merges at an earlier head
  than the local one, reconcile refuses and names finish for the terminal
  reconciliation; finish looks for the local head only, refuses and names
  reconcile.
* `DeadLeavesReceipt` (`WriterOwnership`): `release` removes the receipt each
  time it is called.  A signal between the release in the `try` block and the
  `finally` clause calls it again, and the receipt may be that of the next
  launcher by then; if that one dies, its writer is live without a receipt.
* `NeverMisattributed` (`MainAdvances`; `delegation_containment.py:470`): the
  reflog names a source, not a process.  The very command of a synchronization,
  run by somebody else between its read and its own merge, is taken for its own.
* `WaitKeepsTransaction` (`ManagedStart`): the file of a start that has to wait
  is unlinked by an earlier start that has released the lock already.
* `OneRequest` (`SharedCandidate`): a later child that was started on an older
  main and becomes ready after a draft was pushed gets another generation with
  another request, while the earlier one is still open.
* `DoneIsChecked` (`MergeRecovery`; "full validation and protected PR
  publication before terminal reconciliation", `platform-lifecycle/spec.md`): the
  candidate that a person amends between the last look and the push is pushed
  and merged as amended, and the next run settles it as an exact merge; the
  checks were of another head.
* `CarriedWithoutReapproval` (`PreAuthoring`; `agent-workflow/spec.md:1460`): a
  foreign commit moves main, the snapshot is rebuilt at that main, and a rebind
  then looks only at what came after the snapshot.
* `IssuesFollowTheText` (`PreAuthoring`; `agent-workflow/spec.md:376`): a bundle
  that was authored for an older text is still accepted, and materialized, after
  text, design and handoffs were redone.
* `CheckpointsAreKept` (`FrictionLog`): `mark_reviewed` reads the state file
  before a checkpoint is written and writes it back after, without it.
* `OneOpenRoot` (`FrictionLog`): two sessions that route one event see no root
  and create one each; two candidates that a person decides about one after the
  other become two roots as well.
* `EvidenceIsOfWhatRan` (`CompletionEvidence`): a commit between the last check
  and the snapshot of the result makes evidence for a content that did not run.
  It takes the instance `overlap`, which no run has.

Four properties hold with exceptions that they name, and the exceptions are
behaviour of the code that its texts do not tell:

* `OnlyProvenHeadsGo` (`worktree_cleanup.py`, `finish_task.py`): a commit made
  between the proof and the removal of an abandoned worktree goes with it, although
  `worktree-coordination/spec.md` has one that is not at its exact proven head
  refused; so does a commit made after a finish looked up its merge, for
  its own `branch -D` and the record it defers take the branch as it is by then;
  and a branch whose request is reopened under the proof.
* `CarriedIsReviewed` (`agent_friction.py`): the docstring of
  `carry_checkpoint_over_finalize` has no task edit ride along.  One does if it is
  committed between the gate and the reading of the candidate, or between the
  comparison of the parent and the reading of the content; if the agent itself
  archives on top of the candidate; or if it is staged, or below `openspec/`, when
  finish commits.
* `StreakIsExact` (`rollout_failure_streak.py`): jobs that overlap lose or double
  counts; a comment that fails leaves a streak at its threshold without its label
  until the next failure; a recovery may be commented on without being closed; and
  maintenance closes over a failure that was recorded since its reading.
* `UnplannedIsApproved` (`select_checks.py`): the two ways around the early gate
  that are told above, under Routing.

`ChildKeepsNumber` (`ChildIdentity`) says that a reported child keeps its number;
a person who repairs a claim changes it.  `NumbersDiffer` holds for two machines
only: with a third one that links at the same time, and such a repair between,
a number that was reported is handed out again, so the theorem says so (`TwoMachines`).

Noticed on the way and not in a model: a rollout whose push succeeded and whose
request was not created blocks its retries (`rollout_project.py`); two open alarms
stop `open_alarm` for good (`rollout_alarm.py`).

## What is proved

TLAPS proves, for every value of the constants that the named assumptions allow
(`PoolAssumption`, `PublicationAssumption`, `BoardAssumption`,
`OwnershipAssumption`, `AdvanceAssumption`, `StartAssumption`,
`CleanupAssumption`, `CandidateAssumption`, `RecoveryAssumption`,
`AttachmentAssumption`, `FrictionAssumption`, `CacheAssumption`,
`SharedAssumption`, `AuthoringAssumption`, `IdentityAssumption`,
`IntakeAssumption`, `RoutingAssumption`, `EvidenceAssumption`,
`RolloutAssumption`):

| Module | Theorems |
|---|---|
| `MachinePool` | types, `TicketKept`, `HeadOnly`, `TokensCovered`, and the refinement of `TokenPool` (`LeasesAreAtomic`) |
| `Publication` | types; for systems with one agent per task (`OneAgent`): `OnlyValidatedMerges`, `ReleasedIsDelivered`, `ReceiptsComplete` |
| `AgentBoard` | types, `ClaimsAreExclusive`, `PublicationsAreExclusive`, the action property `NoLostUpdate` |
| `WriterOwnership` | types, `WritersExclude`, `OrphanKeepsReceipt` |
| `MainAdvances` | `ReceiptsAreTrue`, `VerifiedIsForeign` |
| `ManagedStart` | types, `PartialIsOwned`, the action property `StartsKeepWork` |
| `WorktreeCleanup` | types, the action property `OnlyProvenHeadsGo` |
| `PreAuthoring` | `CompleteIsVouched`, `CarriedOverOwnOnly` |
| `ChildIdentity` | types; for two machines (`TwoMachines`): `NumbersDiffer` |
| `RequirementClosing` | types, the action property `ClosedIsProven`, `SomeoneCloses` |
| `SharedCandidate` | types, `ArmedIsVerified`, `DoneIsDelivered` |
| `MergeRecovery` | `LandedIsExact` |
| `TaskIntake` | types, `OneTask`, `ClosedIsExplained` |
| `ModelRouting` | `UnplannedIsApproved`, `CodexWorkIsAttributed` |
| `CompletionEvidence` | `PublishedIsReviewed`; for agents that do not commit during their own check runs: `PublishedIsValidated` |
| `HookAttachment` | `OriginalIsKept` |
| `FrictionLog` | `CarriedIsReviewed`, `OneRoot` |
| `ReadCache` | `ReadIsLive` |
| `SharedState` | `AdmittedIsFit` |
| `Rollout` | `RolloutKeepsWork`, `StreakIsExact` |

`PROJECT.json` says under `theorems` what each one establishes.  None of these
properties is inductive alone; the invariants that are, and why:

*Pool.*  `TicketKept` needs that the admission lock covers the creation of a
ticket and that a swept file is nobody's; `HeadOnly` needs that what a scan has
not listed cannot go first while the lock is held; `TokensCovered` needs that
`index` counts the slots of a run that is taking them.

*Publication.*  `Safe` says, per task, that an armed PR has a validated head,
and per session which heads it may still push or arm at each place: after
`disarm` nothing is armed at the observed head until the push, and after
`validate` the observed head is the validated one, for nobody else commits to
the branch meanwhile (`OneAgent`).  `DeliveryInv` carries what a run knows of a
merged head from the merge to the end: which head it looks at, that local main
has it before the receipt, the Project item before the parent, the parent
before the board.  `ReceiptInv` says that the receipts tile main, except that
the one session that has just moved it owes the last tile.  A run that is
killed there leaves a gap for good; the theorem, like the run without faults,
is about behaviours in which none is.

*Board.*  `Exclusion` adds that whoever is between its read and its write holds
the lock, that what it has read is the board up to its own entry and the
heartbeats, that an entry it may pass over is in `lapsed`, and that every
sibling it has looked at without a hit is free of conflicts with what it asks
for or is excused.  The gate reads without the lock, so `GateInv` is about pairs:
of two tasks in or behind the gate, either their changes are apart or one of
them has still to look at the other's present entry (`Owes`).

*Writer.*  `OwnershipInv` says that a live writer without an excuse is the one
the receipt is of (`OwnReceipt`), so there are no two.  It stays so because a
launcher that holds the lock and has seen the receipt is past all unexcused
writers of others (`PastOthers`), keeps the lock until it unlocks unless an
exception comes (`HoldsLock`), and has no writer itself when it gives the
receipt up (`NoWriterYet`).  The two excuses are `ReleasedIsReaped` and
`DeadLeavesReceipt` (see the findings): the theorem says that there is no third way.

*Local main.*  `ReceiptInv` has what each command relies on at its step
(`FinishKnows`): what it saw of main is a prefix of it, and a move that the
reflog calls a merge of origin is its own unless `raced`.  `DelegationInv` adds
that main never returns to where it was (`Increasing`), so that a chain of
receipts from the head before to the head after the window covers every move
between: the proof takes the first move that is the delegate's, by the lemma
that a set of numbers has a least one, and finds a receipt that would have to
name it.

*Start.*  `OwnedInv`: a start inside the lock has its transaction, unless one
that it overtook has unlinked it.  `WorkInv`: what a start removes was never
worked in, and cannot be before it is handed over.

*Cleanup.*  `CleanupInv`: a recorded head is in main, or was overlooked, wherever
the record travels; what a command found at its step (`Found`: the head it
follows, the merge it confirmed, the head it is to record, the closed request)
stays so or is in `overlooked`, which is where the agents' commits and a
reopening meet the looks of the commands; and a branch that is gone has no
worktree it could come back in.

*Authoring.*  `DesignInv`: an approval that is there is of a design a person
approved, a handoff too, and an add that is there is about the text that is
bound, also in the middle of a refresh.  `ExactIn`: between what a snapshot says
changed a source last and the snapshot's revision nothing changed it; a log that
grows keeps it true.  `Vouches` is the property at the approval instead of at the
complete stage, so that it outlives stale stages; `RebindInv` has the same for the
commits that a rebind has looked at (`Checked`) and for what it can restore.  A
carried approval joins the two: from what the person saw to what the old content
cites, and from there to the head of the rebind.  It is needed that the
declared order names no child twice (`add_intents.py:846`), else a child could
start once before itself.

*Numbers.*  A number is `Settled` for a child when its claim stays (nobody is about
to claim another number for it) or its reservation stays (it is in the parent and
in what everybody who is about to write the parent has read).  `NumbersInv`: what
was reported is settled; so is the number of a run that has written the parent, as
long as the child claims it; and no reported child has that number, unless its claim
stays and the run will find it when it reads back.  Two machines are needed where a
run claims or writes: the one other run that is there cannot be at both of the
dangerous steps.

*Closing.*  `ClosingInv` lists what a closer has seen at each step, none of
which is ever taken back.  `WaitingInv`: the child that a finish ended waiting
for had not ended waiting, so the last one of them closes.

*Shared delivery.*  `DeliveryInv` says what a round knows at each step and, as
long as no receipt was superseded, that all bound candidates are one chain
(`OneChain`) of which at most one holds all children.  *Recovery.*
`RecoveryInv`: unless somebody edits after the last look, what is sent is exactly
what the manifest of its generation records.

*Intake.*  `IntakeInv`: unless two authors raced, who is about to create an Issue
or to post a package is the only one and has seen what there is, so that the
Issue is the first and the package it leaves active is the only one (`Sole`).
`ExplainedSoFar`: the resolver writes the note of an Issue before it closes it,
and nobody removes it.

*Routing.*  `PlanInv`: no plan and no delegation ever recorded unplanned content as
its own (`Sound`), neither the record nor the plan that a dispatch has read; no
dispatch runs beside such content, and the record beside it stays one that no
gate passes without the owner (`Bare`).  `CodexInv`: content of a Codex child has
its delegation, a retry, or the dispatch that is about to record it.  `GateInv`
carries what the early gate has seen from the start of a run of the checks over
its evidence to the archive: the owner's approval of unplanned content cannot be
taken back while it is there (`ApprovalStays`), and content only grows.

*Evidence.*  Evidence is carried from one head to another, so the proof is about
`Like`, equal content and no task path touched between two mains: it is
transitive where the mains are ordered (`LikeOnwards`) and main's later commits
do not change it (`LogGrows`).  `Reviews`: what a report of the present request
was read on is like the request.  `Validation`: recorded evidence is like a head
that a run passed on, and from the validation to the publication the head is
covered by such a run.  `ReviewHolds` carries the state of the review from the gates to the
publication.  The agent's commit during its own check run breaks the second
link, hence the condition.

*Hooks.*  `AttachmentInv` orders the settings: the receipt of the original path
comes before the key and the dispatcher and goes after them, whichever process
is killed.  *Friction.*  `CarryInv`: between the content that a review saw and the
one its checkpoint stands for (`Vouched`) there are only finish's own commits and
those in `rodeAlong`, also for a review under way, and so for the candidate and
the content that a finish has read.  `RootInv`: who is about to create a root has seen that there is
none, unless the fingerprint is `contested`, and a lone curator writes back
what is still there.  *Cache.*  `CacheInv`: a stored link belongs to a full page,
and a read while nothing changes has exactly the items before its page.
*Shared files.*  `AuditInv`: of the paths that have not fitted since an operation
began, each is still to be looked at or already found; `ReportInv`: no two
reports are one file.

*Rollout.*  `RenderFits` follows a branch from the default branch it started at to
the request: before the render it differs from it by the migrated runner at most
(`Begun`, `Named`), a recopy begins when everything it writes over was the template's
(`WillSurvive`), and the checks after the render turn that into what the request
promises (`Fit`).  `PlanFits` and `RequestsFit`: a request that is closed or about to
be is behind the default branch or behind one that is open, merged or rejected
(`Overtaken`), and closing that one in turn leaves the one it was overtaken by.
`StreakInv`: the Issue that a job has found with a reading that is not stale is
still as it was read (`IssueFits`), so an Issue outside of `raced` gets each count
once (`CountFits`); and an open Issue at the threshold has its label, is in
`unlabelled`, or belongs to a job that is about to set it (`Labelled`, `AlarmFits`).

### Only model-checked

* Liveness (the prover has no ENABLED): `WaitEnds`, `MergedIsReconciled`.
* `NumbersDiffer` as far as three machines, which break it: the theorem is about two.

The type invariants `RoutingTypeOK` and `EvidenceTypeOK` of `ModelRouting` and
`CompletionEvidence` have neither a run nor a theorem.  No module declares a recursive operator.

## Not modelled, and why

* Manual merging (`pr_merge_mode = manual`) and the single-agent profile: both
  take a part of the steps that are modelled.  Two finishers of one task at a time are
  outside of `OneAgent`; what `ensure_pr` (`project_publish.py:180`) does then is
  not modelled.
* The GitLab adapter pushes and opens a merge request and has no state.
* Snapshots of files, sandbox profiles and bundles in the containment of a
  delegation: one flag each, or nothing.
* A second merge of a root that is a duplicate already, and bodies of roots
  that two curators read before either wrote, are excluded from what `OneRoot`
  says (`contested`, `curatorsMet`), for they do break it.
* The alarm of a fleet and the diagnostic log of rollouts; the task-intake block
  that a rollout may replace in `AGENTS.md` (`rollout_project.py:736-770`).
* A hook sync run by hand beside a detach, which no lock keeps apart.
* The second early gate, at the start of each test-group run itself: it can only
  refuse what `StartSelected` has let through.
* How a tier is chosen, what a prompt says, how text is parsed: each is a choice
  among its outcomes.
* Reports, metrics, site generation, templates, evaluations: they keep no state
  that two steps could disagree about.

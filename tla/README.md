# Objective Integrity Framework: TLA+ verification project

TLA+ specifications of the Objective Integrity Framework (OIF, version 0.4.1), the TLC configurations that check them
on small instances, and machine-checked proofs. File names without a directory, and those under `harness/`, are in
`src/harness/src/policy_harness/`; `runtime/` and `tools/` are `src/runtime/` and `src/tools/`. `PROJECT.json` maps
every definition to the lines it models and every hazard to the properties that watch it.

Contents: 1 the system, 2 the modules, 3 the runs, 4 fairness, 5 the proofs, 6 disagreements found,
7 what is left out, 8 plan, 9 how to run it.

## 1. The system

OIF is an agent harness for one user on one desktop machine. A Python service keeps tasks, asks a language model what
to do next, runs the operations the model chooses (files, containers, native commands, capability registrations),
keeps evidence of what happened, and may update its own source. A second half, `runtime/`, is a set of stand-alone
scripts used by agents: an append-only objective ledger, status leases and the life cycle of skills. The design rule
of both is the same: *say what you are about to do on disk, do it once, and afterwards claim no more than was
observed*. Almost everything that is hard here follows from it: the process may die, be cancelled, or lose an answer
between any two of those steps.

### Components

| Component | State it keeps | Operations | Correct when |
|---|---|---|---|
| Executor (`executor.py`, `native_execution.py`, `capabilities.py`) | one JSON journal record per operation id, workspace lease, worker threads, container and native processes | `execute`, `reconcile`, `cleanup` | effects happen at most once; the intent is on disk before the effect; a recorded outcome is true and final; one unresolved operation blocks the workspace; every call ends (unless a process that left its command keeps the output open) |
| PracticalEngine (`practical_engine.py`) | the coroutine of each task, stop requests | `start_task`, `run_task`, `stop`, `resume`, `submit_message` | a replayed answer repeats no effect; completion is for the instructions in force; a stop stops; the status shown is true |
| Store (`store.py`, `task_list.py`, `organization.py`) | tasks, sources, operation rows, records, event chain (SQLite) | idempotent submission, rows, records, source statements | one task and one start per submission; rows agree with the journal after recovery |
| Access (`access.py`, `access_paths.py`) | permission revisions, one-time approvals | request, approve, consume, revoke | an operation starts only with what its user allows at that time; an approval is used once, for exactly what was approved |
| UpdateManager, Maintenance (`updates.py`, `maintenance.py`) | candidates, verifications, `activation.json`, `active.json`, the source tree | propose, verify, apply, roll back, recover | only tested bytes are installed; a half-written tree is on record and serves nobody; a foreign edit is replaced only if it came after the last look at its file |
| Service supervisor (`cli.py`, parts of `server.py`) | owner locks, `supervisor.json`, `pending/accepted/consumed/resolved/closed/process/worker-*.json` | `serve`, `supervise`, `recover-restart`, `on_restart`, `bind_restart_consumer` | a handoff is resumed or parked once, never lost |
| Product installation (`product_install.py`, `product_updates.py`, `tools/bootstrap.py`) | staged plan, managed files, preimages, receipt, pending record, helper lock; per project a manifest and backups | stage, apply, recover, roll back | what a dead run left is on record and can be finished or undone; edits of the user are not lost |
| Knowledge, practical learning (`knowledge.py`, `practical_learning.py`) | skills with their versions, learnings, candidates, uses, the files rendered from them | learn, improve, merge, retire, integrate, reject, rebase, render, repair | no lesson is lost or overwritten by one that had not seen it; a user's file is never lost |
| Providers and model routing (`providers.py`, `disposition_recovery.py`) | call records, an index of judgments, exchanges with the Web | request with feedback, resume, collect | a paid request is not repeated unless it is known to have failed or the user resumes; one judgment, valid, for everybody who asks |
| Web and browser observation (`web_judgments.py`, `source_preparation.py`) | judgments before and after each exchange, frames of parked operations, texts of attachments | judge, park, resolve, return; stage, extract, accept, withdraw, confirm | a request is judged before it leaves, its correction comes back before its parent goes on; an attachment is read as the user last said |
| Legacy review engine (`engine.py`, `bounded_judgments.py`) | the cycle of each operation, policies, stage records | select, pre, execute, post, learn, close; assessments in groups, reviews in pages | nothing is executed or completed on a review of other sources; every target is judged once, every word read once |
| Objective ledger (`runtime/objective_ledger.py`, `ledger_input.py`) | one journal per chat, three views, a lock file, captured messages | append, recover the lock, contracts, outcomes, actions, catalogs, advice | history only grows; an answer is true; what is owed to the user goes only by his word; an unknown effect stays in view |
| Durable supervisor status (`durable_status.py`) | a file per record, `status.json`, messages | create, update, hold, answer, preflight | a held transition waits for the answer to exactly that status |
| Skill lifecycle (`learning_queue.py`, `work_phase.py`, `work_io.py`, `operation_io.py`, `allocation_io.py`, `stage_allocation.py`, `skill_package.py`, `materialize_skill_candidate.py`, `isolated_registry_adoption.py`, ...) | queue rows and events, phase documents, requests and reports, evidence directories, packages | send an event, page, evaluate, prepare, verify, consume, allocate, build, adopt | events are recorded once and in order; advice can be followed; what is used is what was verified |
| Skill resolver (`resolve_skills.py`, `compile_skill_facts.py`, `skill_application_bridge.py`) | compiled index, application records | compile, resolve, record | selection is a function of the index |
| User interface, desktop shell | none of its own | | presentation only |

### How they interact

* `server.py` builds the Store, Executor, UpdateManager and PracticalEngine in one process and serves HTTP to the UI.
* The PracticalEngine runs one asyncio task per user task. It reads and writes the Store synchronously and awaits the
  model provider, the reviewer and the Executor. User commands are served by the same loop, therefore only while it
  awaits. Recovery asks `Executor.reconcile()` about every operation that lost its result.
* The Executor serialises operations per workspace by a lease, runs file work in a worker thread, drives the
  container engine through its command line and runs native commands behind a launcher that waits for a go signal.
* Maintenance operations are executed by the engine as rows of the Store. A finished update asks for a restart
  through `engine.on_restart`, which writes a marker and makes the worker exit with a code of its own; the
  supervisor validates the marker and starts the next worker, which claims it and resumes the tasks.
* The older engine (`engine.py`) works by reviewed operations: a judgment before and after everything, asked of the
  model gateway, which keeps requests and responses so that an interrupted judgment is not paid for twice. The
  collector of Web pages and the preparation of attachments are operations of the same cycle.
* What tasks learn goes to the knowledge store, and from its rows to the skill files that users may edit.
* The scripts in `runtime/` share no state with the harness, only habits: records that are created exclusively, hashes
  of what was read, and a check of them again just before they are used.
* Locks: the workspace lease and `update.lock` inside a process; `service-owner.lock` and `worker-owner.lock`, the
  helper's lock, the ledger's lock file and that of an installation between processes.

### What is hard

A crash between any two writes (intent, effect, result; file and file of an update; record and record of a restart);
cancellation of an await whose work goes on in a thread or a container; container requests that are served after their
client gave up; several user requests waiting for the end of the same run; replay of a saved model answer whose first
tools already ran; a worker that outlives its supervisor; a lock whose owner died; a decision that is carried out after
what it was made from has changed; other programs that edit the files in between. The list,
with its lines, is under `hazards` in `PROJECT.json`.

## 2. The modules

### Executor

`ExecutorJournal` holds what all kinds of operation share: the record on disk (`journal`), the dict a running
`execute()` edits (`memory`), the lease (`current`), the coroutine's position (`at`), the answer last given to a
caller, and cancellations. `FileOperation` adds the worker thread of reads, writes and capability registrations and
the file itself; `CommandOperation` the two kinds that run a program: the container engine, its containers and the
requests on their way to it (`wire`), which may be served at any later time or never, and the launcher of a native
command with the command itself. `Executor` composes them:
an action of one component leaves the variables of the others unchanged; `Crash` loses memory, threads, lease and the
launcher but neither journal nor containers.

| Code | Model |
|---|---|
| `execute()` prologue: replay, refusal, unresolved scan, first save | `Replay`, `Reenter`, `Refuse`, `Prepare` |
| `_file_operation` in its thread, one action per write to disk | `StartWork`, `Work`, `FinishWork` |
| the two awaits of lines 220-230 and their cancellation | `CancelShielded`, `CancelUnshielded` |
| `_execute_container`, `_attach`: create, recheck, start, attach, observe, stop | the actions of `ContainerStep` |
| `execute_native` and the launcher's go signal | the actions of `NativeStep`, `ExitNative` |
| a process that left the command's group and holds its output | `held` of `process`, `CloseOutput` |
| `reconcile()` per kind, `cleanup()` | `Recover`, `Reconcile*`, `Cleanup` |
| the user's other programs | `EditFile` |

`CreateLost` merges the two saves that follow a lost reply of `docker create`. Saves of the journal always succeed.

A command that is over, or was stopped, is either `ended` or `held`: `stop_tree` kills its process group
(`native_execution.py:129`), which a child in a session of its own has left, and the readers awaited at 160-162 see the
end of the output only when that child closes it. `FinishNative` waits for `ended`, `CloseOutput` has no fairness, and
only another cancellation (`InterruptNative`) ends the wait otherwise.

`file_read` stands for `file_list` as well. The product passes `executor.unresolved_lookup` to the Store
(`practical_engine.py:106-113`); the journal's own scan, used without it, is what `ExecutorJournal` models, and the
Store's side is `NoneInDoubt` and `Unresolved` of `PracticalTask`.

`Executor` also defines the inductive invariants of the proofs: `IInv`, `RealInv` and `OutcomeInv`, each stronger than
the one before. `ExecutorProofs` holds the proofs. `MCExecutor` gives TLC small sets of
operations of each kind, in one or several workspaces that a run explores one after another.

### PracticalTask

One task: `run_task()` as one action per segment between two awaits or two database writes, over the Store's task
row, source counter, call records and operation rows. User commands (`Stop`, `Message`, `Resume`) fire only at labels
in `Awaiting`; requests that wait for the end of a run are a queue (`waiting`), served in the order they began to
wait (`woken`), as asyncio does. A request whose wait is over still has to be resumed by the loop: a `Resume` served
before it starts the next run, which may go on to its own awaits before `WakeStop` writes `stopped` over its `running`
(`practical_engine.py:186-188`). `Begin` has no guard against that. `Crash` fits between any two writes. The Executor
appears as what `Executor` shows of it: a target acts at most once, and a lost result is observed, never replayed; what
`reconcile()` returns may be any outcome, also the success the Executor had saved before the process died (`Recovered`,
`executor.py:791`). A call of the Executor may absorb a cancellation (`ExecutorAbsorbs`) and then return late, or never.
The answers of the model and the reviewer, and refusals by Access, are any of their outcomes.

Abstracted: the restart for an update (it is in `SelfUpdate`), approvals, `prepare_program`, context compaction (it is
`ContextMemory`) and child tasks.

`StatusTellsTruth` says what can be said of the status all the same: `running` is shown only with a run under way, and
a run under way never looks held or completed. `StoppedIsAtRest`, that it never looks stopped either, fails (section 6).

The module ends with the invariant that explains its properties, `TaskInv`; `PracticalTaskProofs` proves them.

### SelfUpdate

One source tree of a few files, candidates that replace some of them in order, the verification container, the
activation and pointer records, rows of maintenance operations, ordinary operations (`Uses`) with the binding they
were observed under, and processes that start one after another. A file is looked at in one step (`LookNew`, `LookOld`: the
hash at `updates.py:1258` and 1318) and replaced in another (`WriteNew`, `WriteOld`: the rename at 252, after a mkdir, a
write and an fsync), with `Edit` in between. `Confirm`, `Publish` and `SaveResult` are the writes at the end of an update
(`activation.json`, `active.json`, the row of the Store), `Crash` falls between any two and may leave the
temporary file of `_write()`. `Boot` loads the tree and recovers as the constructor and `recover` do; `Edit` is
another program, `Enroll` a new baseline of tests.

`ForeignKept` is therefore not "foreign files survive": a file of another program is replaced only if it is the very
preimage the candidate was made from, or if the edit came after the look at that file had seen an image of the harness.
`ThirdPartyHolds`, what the code says of a rollback, fails for the latter (section 6).

Merged or left out: `stage()` is atomic (a directory rename); proposal and review of a candidate are one action; the recovery
loop of one task is one action; hand-over is the end of the process followed by `Boot`; rows that failed or were
consumed are dropped (`Kept`); reads by the legacy engine, deletions and new files are omitted.

States that are safe but that no task can leave are reachable in this model, because they are in the code: a pointer
that differs from its activation after a crash between the two writes (`Mismatch`); a verification saved in one of its
two places (`torn`); `maintenance_restart_pending` left set by a refused application; an older rollback whose restart
row no longer matches the tree (`RestartRefused`). No property promises progress there.

The module ends with the invariants that explain its properties, `UpdateInv` (of the update alone) and `SourceInv` (of
the tasks around it); `SelfUpdateProofs` proves them.

### RestartHandoff

Supervisors, the workers they launch, one operator and their records and locks. A worker is its generation, and so is
the single marker it can leave (`restart_id` is one per generation). Any process dies at any point: `SupervisorDies`
releases its lock and leaves its worker (an orphan), `Exit` ends a worker, `OperatorDies` an operator. Exclusive
records are taken as written whole, taking a lock and the checks under it are one action (a worker's check *before*
the lock, and the one after it, are two: `Check` and `Enter`), a rollback is one more version of the source, and
`on_restart`'s refusals (task finished, operation executing) are simply not taking the step. A marker names one task.
`Bind` is the worker's `worker-*.json` (`server.py:139`) and its claim `consumed-*.json` (191) in one: a death between
them leaves the record of a worker that made no marker and no claim, from which `recover-restart` only reads which
process has to be dead (`cli.py:247-263`).

`SelfUpdate` and `RestartHandoff` split the restart: the former shows what the new process may do with the tree, the
latter that there is exactly one new process to do it.

### Ledger

What agents keep of their work outside the harness: six modules that share nothing, explored one after another in one
run by the root `Ledger`, whose variable `scene` says of which component a behaviour is. `AppendOnlyLog` is the
abstract specification of two of them: entries are
committed one at a time, none twice, and a view shows a prefix. `JournalIsLog` and `StatusIsLog` say that the journal
with its card, and the records with `status.json`, implement it (a killed writer and a view that lags are stutters or
a later `Show`).

| Module | Models |
|---|---|
| `ObjectiveJournal` | `append_event` under the lock file: the lock taken, read, compared and removed in steps, the record, its sync, three views, each step with its failure and its answer; `recover-lock`; capture of a message by the hook, with its gap; processes killed anywhere |
| `ObjectiveContract` | what replay makes of the journal: sources, contracts that quote them, clauses, outcomes, catalog and next-work advice, actions with their effects, gaps; the helper `ledger_input.py`, which prepares outside the lock and applies later |
| `SupervisorStatus` | the commands of `durable_status.py` by several writers, the two files of a record, a held transition, messages of the Supervisor to a turn |
| `WorkPhase` | `work_phase.evaluate`: what is advised and what is admitted, against an owner who follows it |
| `WorkUnit` | request, verification, report, integration, next unit; files that change in between |
| `LocalOperation` | one process under evidence and what may be concluded from its result |

In `ObjectiveContract` an append moves the head and is made under the lock of the ledger (`Moved`). A record of a gap
(`record_capture_gap`, `objective_ledger.py:1928-1955`) takes no lock, and the bytes of a message may be lost at any
time. The start by the helper is therefore two steps: `Apply` takes the lock, compares the head and reads gaps and
messages (718-762); `AppendStart` writes the line (781), and `RecordGap` and `Lose` may come in between. So
`StartsOnReadSources` promises at the check that nothing is unread, open or missing, and at the line only what the lock
guards: the same contract, no new message, the action unused. The other commands stand at their check: their line is
written in the same action, and a gap in between would come just after it instead.

The last three are the property `WorkSound` of the root. `LedgerProofs` holds the theorems about the components and
about the root.

### Workflow

Nineteen modules, the remaining components, again independent and explored in one run by the root `Workflow`. Each
module has its own `Init`, `Next`, type invariant and one soundness formula that is the conjunction of its properties;
the root gathers those into six. The eight modules of `TaskSound`, `LearningSound` and `InstallSound` end with the
inductive invariant that explains their formula (`EntryInv`, `ReviewInv`, `PreparationInv`, `QueueInv`, `CandidateInv`,
`AllocationInv`, `InstallInv`, `InstallationInv`), and their bounds are constants of the root; the proofs are in
`WorkflowProofs` (tasks) and `AssetProofs` (learning and installations). Operators marked "Fault" are plausible bugs;
each was seen to break the formula of its module, and one for every root property is a mutant in `PROJECT.json`.

| Property of the root | Module | Models |
|---|---|---|
| `TaskSound` | `TaskEntry` | `create_task` and the claim of a start by a client that repeats itself; access revisions, approvals and their use around the awaits of an operation; recovery of tasks at boot |
| | `ReviewedTask` | the cycle of `engine.py` by the status of its record; new sources, policies and stops between the stages; corrections, retained results, recovery, completion |
| | `SourcePreparation` | staging, extraction, acceptance and withdrawal of an attachment with later instructions, `confirm` after the cycle, recovery of each, rerun with another extractor |
| `JudgmentSound` | `ModelJudgment` | `_call`, `disposition_recovery` and the gateway: record, request, response, feedback, stops, resumes |
| | `TargetAssessment` | groups, halves of a cut response, corrections of the rows that are not in order |
| | `ReviewPages` | reviews in pages, and new pages around the ones on record |
| | `ProviderSettings` | keys and routes: what a save of the settings keeps, what a call may carry to which endpoint, models and log-ins across restarts |
| `WebSound` | `WebExchange` | a collection: prepared, started, answered; redirects, limits, runs again |
| | `WebJudgment` | both judgments of an exchange, bindings compared after each await, learning and correction |
| | `CorrectionReturn` | frames, the current correction, confirmation after the cycle, nested corrections |
| `KnowledgeSound` | `KnowledgeStore` | every transaction on shared skills by primaries, children and integrations |
| | `SkillProjection` | `SKILL.md` rendered inside or after a transaction, the user's edits, conflicts, repairs |
| | `PracticalLesson` | lessons proposed, reviewed, shared, merged, used and judged, by tasks in and out of a folder |
| | `ContextMemory` | compaction: which results a summary stands for, saved answers, failures, a changed limit |
| `LearningSound` | `LearningQueue` | events, repetitions, supersession and pages, by two writers |
| | `SkillCandidate` | capture, stage, rename, read back, receipts, in two kinds of run that race |
| | `Allocation` | `stage_allocation.decide` as an operator and the adapter that computes it again |
| `InstallSound` | `ProductInstall` | the helper's plan, backups, replacement, rollback, receipt; launcher, service and window |
| | `ProjectInstall` | `tools/bootstrap.py`: install, update, rollback with the lock, edits and crashes |

Some guards of the code can never be false in these models, and are kept because the code has them: the completed turn
of `ReviewedTask`, the parked task of `WebJudgment`'s `Resume`, `Reattachable` of `CorrectionReturn`.

## 3. The runs

Every passing run explores its whole state space. `CHECK_DEADLOCK FALSE` is stated where a finite history really ends
(operations all finished, launches used up); `PracticalTask` checks for deadlock, because a task can always be
answered by its user.

| Run | States | Instance | Shows |
|---|---|---|---|
| ExecutorWork | 0.16 M | two workspaces: writes of one file with full access and confined, a registration, an edit; a container and a write; one cancellation per call | effects once, intent first across crash and late requests, one open operation, outcomes final and true, cancellation waits for the thread; `OutcomeInv` |
| Liveness | 0.09 M | two of a read, a container and a command; a task of two calls, one added instruction, two waiting requests; fair | every call ends but one whose output is held, a stopped run ends and a message is answered but for such a call; results of reads and commands are real |
| PracticalTask | 2.2 M | three calls, two tools per answer, one added instruction, two waiting requests | replay repeats nothing, what starts is as told and not stopped, completion is current, the status is true; `TaskInv` |
| SelfUpdate | 0.9 M | one candidate of two files, two tasks, one use, three processes, one outside event, two rows | mixed trees are recorded and serve nobody, only tested bytes are installed, observed uses are real, foreign files are replaced only by an edit after the last look; `SourceInv` |
| RestartHandoff | 1.8 M | three supervisors, three generations, two versions, one edit | handoffs are disposed of once, kept, and keep others out; `FrontierInv` |
| Ledger | 1.3 M | a ledger with two callers, two contents, one failure; two messages, two contracts, one outcome, one action, one loss; two writers, two turns, three records, one death; two items in three checks with one cause; two units and one change; two evidence directories | the lock is one process's, answers are true, effects stay in view, only the user retires, holds wait; both logs refine `AppendOnlyLog`; work is collected, handed over and recorded as what was done |
| Workflow | 2.4 M | the instances in the module | the six properties above |
| ExecutorTwoStops, StartStranded, HandoffStranded, UpdateUnheld, LockStolen | | the smallest that show it | violations, section 6 |

Components in one run share no state, so exploring them side by side would multiply their states without a new
behaviour; `scene` explores the sum. Nothing is lost by it, because no module of one scene has an action that another
scene's module could observe. The interactions that exist are inside a module (a client, the user, the engine and the
process of `TaskEntry`; helper, launcher, service and window of `ProductInstall`).

Bounds. All are constants, and all limit how often something new begins, never what a running step may do.

* `MaxStops` counts cancellations one `execute()` may receive. One is what the engine's `handle.cancel()` sends; two
  is the case of `ExecutorTwoStops`. Section 5 says which theorems hold for any number and which for one.
* Operations: interference between operations goes through the lease, the unresolved scan and the shared file, all
  of which are pairwise; three operations give one more than a pair, and `MaxPrepared = 2` of Liveness is a pair of
  any two kinds. Crashes and calls are not bounded at all.
* `MaxCalls`, `MaxTools`: a replay needs one answer and a second to confuse it with; the third is the answer after
  both. A batch of two has a first, a later and a last tool. `Messages`: one instruction makes a source stale;
  `MaxWaiting = 2` lets a stop and a message, or two stops, wait together.
* `MaxBoots = 3`: installed by the first process, observed or rolled back by the second, recovered by the third.
  `MaxOutside` counts edits and new baselines together; `MaxRows = 2` an update and its rollback. Two files are the
  least that can be half written. Tasks are interchangeable in every action and property: symmetry.
* `MaxGenerations = 3`: a worker, its successor, and one that resumes after the successor's own restart or belongs to
  another supervisor; `MaxSupervisors = 3` gives an orphan, its rival and a third start.
* Ledger: a lock needs two processes, one of which may rescue, and an entry to lose. Two contracts replace one another;
  three records are a hold, its answer's record and one more. Three checks are a failure, its repair and a failure
  again; two units are one that is handed over and the next, built on it. No symmetry is used.
* Workflow: the bounds of the components that are proved about are constants of the root (`MaxSources`,
  `MaxRevisions`, `EntryOps`, ... `Dropped`, with their meaning in the module), those of the others are numbers in
  their instances. `MaxCrashes`, `MaxDeaths`, `MaxFaults` count what goes wrong, once or twice, and a recovery follows each;
  `MaxSources`, `MaxPolicies`, `MaxBindings`, `MaxEdits` are the one change that makes a decision stale; `Ops <- 1 .. 3`
  is an operation, one nested in it and one after. A text of six words has more ways to be cut than pages of two to
  six can restore. Three targets in groups of two make a whole and a split group.

Each property has a mutant in `PROJECT.json`: a definition of the model changed as a plausible bug would change it
(the definitions marked "Fault" in the modules, which no specification uses), under which TLC finds the property
violated.

## 4. Fairness

The safety runs use specifications without fairness. The run Liveness uses `LivenessSpec`, which states the fairness of
`Executor` and of `PracticalTask` for its two scenes.

* `Executor!Fairness`: the event loop resumes the coroutine that holds the lease when it is not waiting for something
  outside (`Return`, file, container and native steps), the operating system runs its worker thread, and the time
  limits of `docker create`, of the attachment and of a native command fire (`TimeLimit`, `NativeProgress`). Nothing is
  assumed of the container engine, of commands, of what they leave behind, of users or of callers. One wait has no
  limit: that for the end of a command's output (`native_execution.py:156-164`). `NativeProgress` excludes it while a
  process holds the output (`OutputHeld`) unless a cancellation is there to end it, and `CallsEnd` makes exactly that
  exception: a call ends, or from some time on a process holds its output and nobody cancels the call.
* `PracticalTask!Fairness`: the loop runs `run_task` (`RunStep`), which includes that an await of the model or the
  reviewer returns, fails or is interrupted: the providers have their time limits. It does not include that a call of
  the Executor returns (`HeldByExecutor`); a pending cancellation is delivered to it, but it may absorb it and go on
  waiting. `RequestsEnd` makes that exception. A request whose wait is over is resumed (`WakeStop`, `WakeMessage`):
  strongly fair, because it can be served only while the run is at an await, and the loop serves in turn what is ready.
  User commands are not fair.

The other components promise nothing by themselves: their next step is somebody's command, and several have states
they cannot leave (section 7). No liveness is claimed of them.

## 5. The proofs

Every safety invariant and action property of the runs ExecutorWork, PracticalTask, SelfUpdate, RestartHandoff and
Ledger, `ResultsAreReal` of Liveness and `TaskSound`, `LearningSound` and `InstallSound` of Workflow are theorems of
their specifications, for every value of the constants. The theorems are listed in `PROJECT.json`.

| Module | Proves | Under |
|---|---|---|
| `ExecutorProofs` | `TypeOK`, `IInv`, `ActsAtMostOnce`, `IntentBeforeEffect`, `SuccessIsReal`, `NoneWhenRecorded` | the assumptions of the modules: any operations of any kinds, contents and number of cancellations |
| | `OutcomeInv`, `OneOpen`, `WorkFinishesFirst`, `OutcomesAreFinal`, `NoneStaysTrue` | and `OneCancellation`: no `execute()` is cancelled twice |
| `PracticalTaskProofs` | `TaskInv`, `ReplaySound`, `CompletionSound`, `StatusTellsTruth`, `StartsAsTold` | `BoundsAssumption`: any calls, tools, waiting requests and finite set of instructions |
| `SelfUpdateProofs` | `UpdateInv`, `PassedBeforeInstalled`, `ObservedIsReal`, `ForeignKept`, `SourceInv`, `MixSound` | `SelfUpdateAssumption`: any tree, candidates, tasks, uses and bounds |
| `RestartHandoffProofs` | `IInv`, `HandoffKept`, `DisposedOnce`, `FrontierInv`, `NoWorkBesideHandoff` | `RestartHandoffAssumption`: positive bounds |
| `LedgerProofs` | `AnswersTrue` | `JournalAssumption` |
| | `EffectNeverForgotten`, `RetiredOnlyByUser`, `StartsOnReadSources` of the contract | the bound is a number |
| | `HeldUntilAnswered`, `AnswersUsedOnce`, `StatusIsLog` of the status | the bounds are numbers, no writer is called nobody |
| | `LedgerTypeOK`, `EffectNeverForgotten`, `ContractSteps`, `HeldUntilAnswered`, `WorkSound` of the root | `LedgerAssumption`, `JournalAssumption` |
| | `JournalIsLog`, `LogsHold`, `HolderOwnsLock` | and `OneRescuer`: at most one process may run `recover-lock` |
| `WorkflowProofs` | `EntryInv`, `ReviewInv`, `PreparationInv`, `TaskSound` | `WorkflowAssumption`: any contents, operations, policies, messages, edits and deaths |
| `AssetProofs` | `QueueInv`, `CandidateInv`, `AllocationInv`, `LearningSound` | `WorkflowAssumption`: any finite set of candidates, any runs, events, edits and deaths |
| | `InstallInv`, `InstallationInv`, `InstallSound` | `WorkflowAssumption`: any finite sets of members, any helpers and runs, edits, faults and crashes |
| `LivenessProofs` | `ResultsAreReal` | and `OneCancellation` |

Two hypotheses exclude behaviour that the code has, and both are the subject of a run that shows what happens without
them: `OneCancellation` (ExecutorTwoStops) and `OneRescuer` (LockStolen). The other assumptions type the constants; TLC
evaluates them in every run.

### The arguments

*Executor.* Neither of the first two properties is inductive. `ActsAtMostOnce` says nothing about a container request
still on its way, and `IntentBeforeEffect` nothing about the dict in memory that the next save will write over the
record. `IInv` adds, per operation: targets belong to their kind (`OwnTarget`, `OwnLabel`); an operation with no
record, or just dispatched, has no target (`Untouched`); before its point of no return a target has not acted
(`NotYet`); a running call has a record (`OnRecord`); and everything that acted *or still can without the controller* -
a thread past the marked step, a start request on the wire, a launcher waiting for its go - is recorded as started,
also in memory (`Intent`). The last part carries the argument: since the intent is saved before the request is sent,
and no save takes it back, an effect that arrives after any number of crashes finds its intent on disk. There is a
lemma per helper of the journal (`SettleKeeps`, `SaveKeeps`, `ObservedKeeps`, ...) and one per group of actions, each
split by action.

`RealInv` adds what a record of success or of no effect rests on, and survives any number of cancellations. The rest
needs that the only cancellation of a call is spent once its work is awaited again (`CancelledOnce`); then a file's
thread runs only while its call waits for it (`Awaited`), so that its record changes only under the lease; no other
operation is open beside the one that holds it (`Alone`); finished means a definite result, on disk and in memory
(`Unfinished`); a caller is told of a definite result only what the disk says (`Told`); and an open write that acted
still has its content in the file, unless another program wrote to it (`Holds`, `Nothing`). The proof of `Holds` showed
that a container that exits may have written the workspace as well, so `ExitContainer` counts it among those that
disturb the file; the instance has containers that write.

*PracticalTask.* None of the properties is inductive, because a run acts on what earlier runs left. `TaskInv` says what
that may be. Of the answers: one that waits to be acted on is the only one of its phase for its sources
(`AnswersKnown`), which the purchase of the next one keeps because the run has looked first (`Asked`). Of the rows: one
belongs to a tool of an answer, after tools that succeeded, and is settled once the answer is retired (`RowKnown`), so
a replay finds a prefix of the batch and a batch that ends leaves nothing open. Of the run: it acts on an answer to
the sources it saw and has read them all (`Answered`), and works on the tool whose predecessors succeeded (`AtTool`).
Of the others: the status is that of a run under way or of none (`RunKnown`); a stop stays requested until the user gives another command, unless an instruction is on its
way (`StopKept`). Nothing is assumed of a stop whose wait is over: the next run may have begun, and what the stop then
writes is one more status of a run under way. Nor of what recovery finds: a success is a result like the others, after
which the batch goes on with its next tool. The sources are counted by the instructions delivered (`SourcesCounted`). The proof splits along the parts:
what changes one answer, what changes one row and what moves the run are lemmas (`AnswerChanges`, `RowChanges`,
`RunMoves`), and each action is one of them or two.

*SelfUpdate.* `UpdateInv` is about the update alone: a candidate is verified after it is staged, activated after its
container has passed, and made from a tree of such candidates (`Proven`); the tree holds what was activated
(`TreeActivated`); what was seen at the file that is about to be replaced is one of the two images (`LookedAt`), from
which `ForeignKept` follows whatever is written to it in between; the lock is held for a test that has begun or an activation on record (`LockedFor`); the pointer is
an activation of this process or an earlier one (`PointsBack`); a use runs what its process loaded, and what was
observed of it stays true (`UseKnown`). `MixSound` needs the tasks around the update, in `SourceInv`: while no update
is unfinished the tree is sane (`MixKnown`); at most one is, its row stays, and only tasks that have such a row to
settle run meanwhile (`MixHeld`); a row under review is unresolved and is the way out (`UnderReview`); whoever writes
the tree works alone (`WritesAlone`); rows that no longer matter are gone (`RowsMatter`); a dead process runs no task
(`LockAttended`). What `Kept` does to the rows is a recursive function over a sequence. Its lemmas (`KeptIsDefined`,
`KeptTypes`, `KeptHits`, `KeptLast`) are inductions, done by the least counterexample: `LeastNumber`, from the
well-foundedness of the naturals, needs no induction rule with an operator as its parameter.

*RestartHandoff.* `HandoffKept` needs only that a supervisor past its acceptance has the accepted record and an
operator past its disposition has that (`OwnWorker`, `Settling`). `DisposedOnce` needs the history of a launch: the
owner locks make one supervisor, or the operator, the only one at work (`LocksHeld`); generations are launched in order
and `supervisor.json` is the last (`LaunchOrder`), so the launch that resumes a handoff comes right after it and is the
only one (`OneSuccessor`); it claims before it resumes (`ClaimFirst`); and the operator, who takes up a handoff only if
its generation or its successor is the last launch, closes every generation that could still claim it before parking
it, so that one that wakes up later is refused at the second check of `Enter` (`Settling`, `ParkedForGood`).
`NoWorkBesideHandoff` adds who is there to resume a handoff that is not an orphan's: a worker that neither ended nor
outlived its supervisor is the one its supervisor waits for (`Attended`), a worker launched for a handoff serves only
after its claim (`BoundFirst`), what a supervisor accepts is the pending marker (`AcceptsPending`), and whoever is
launching is launching for it (`Beside`). Together they are `FrontierInv`.

*Ledger.* For the journal, `AnswerInv` says per process what its position means (which steps it has done and which
failed), and `LockInv` that a process inside the lock owns it, that a rescuer about to remove a lock still sees the
dead one, and that an identity about to be written is nobody else's; the refinement follows from both. For the
contract: without a contract nothing is owed (`NothingOwedUncontracted`), an action that may have run is on record
(`StartedFirst`), and while the helper holds the lock the contract and the messages are those of its check
(`ReadyToStart`). For the status: a record's place is its id (`Chained`), the view is behind the journal
(`StatusBehind`), a writer between its steps holds the lock and its record may still follow (`WriterRelies`), and a
record written on a message answers the record before it (`Answering`). For the work: `PhaseCore`, `UnitInv` and
`OperationCore`. The two refinements map commits of an entry to `Commit`, replacements of the view to `Show`, and
everything else to a stutter.

A behaviour of `LedgerSpec` is one of each component (`JournalBehaves`, `ContractBehaves`, `StatusBehaves`: in the
scenes of the others it stutters), and `LedgerAssumption` gives each its bounds (`ComponentBounds`); so what is proved
of a component holds of the root. `LivenessProofs` does the same for the Executor beside a task.

*Tasks* (`WorkflowProofs`). `EntryInv`: a client that goes on to start a task has claimed it and nobody has started it
(`ClaimedFirst`), a binding is approved only if the user allowed exactly its source, revision and operation
(`ApprovedByUser`), and an operation that is prepared or executed is open and was counted (`OperationOpen`); hence no
second start and no effect without consent, whatever happens in the awaits. `ReviewInv` says of the record of each
operation what it tells (`RecordSound`): a permit is held by the operation at hand and only while it acts, what entered
has a result or is acting, what is settled or put aside has a result, and an adoption puts aside no adoption; of a
stage, that an action is leased only after its review and while no other has an unknown effect (`StageSound`); and of the task, that a
stop is not pending inside a stage without awaits and that a completed task is closed or closing (`RunSound`). With
them "at most one unknown effect" is inductive: `Execute` refuses a second action while one is unknown, and nothing
between it and the dispatch can make one so.
`PreparationInv`: only the operation of the cycle is under way (`CycleSound`), and what an operation was reviewed for
(the words it answers, the text it accepts, the unknown outcome it settles) stays as it was while it waits
(`CandidateSound`), so that the comparison at the end of the cycle is enough.

*Learning* (`AssetProofs`). The events of a candidate are numbered by its revisions (`RowKnown`): their expected
revisions are exactly the numbers below its own, which is what the compare-and-set keeps, and a retired candidate's
successor does not lead back. A reader whose frontier is still true has what is due up to its cursor (`PagerKnown`);
the next page ends at the least element that fits, found by the least counterexample, and so the union of the pages is
complete. For a package (`CandidateInv`), each place of a run says whether it has made its directory and that its stage
holds what it captured. For an allocation, `AllocationInv` says that an output is the allocator's answer to the bytes
its stamp names, and that a run that is ready has the adapter's answer as well.

*Installations* (`AssetProofs`). In `InstallInv` the helper lock makes one helper the only one at work; from its first look at
the files to the recorded outcome it holds the owner locks, so that no service runs and the plan moves only with it
(`HelperKnown`); every file that is to be written has its preimage first (`PreimagesSaved`); the state of the plan says
which files are as before, which as after, up to what the user edited since (`PlanKnown`); and a held plan that is being
applied keeps the launch hold. `InstallationInv` is the like for `tools/bootstrap.py`, whose lock may be left by a dead
run: a run that holds it is alone at its backup and knows its state, what it has done is installed, and the file it
replaces next is nobody's unless a backup has it (`RunKnown`, `Saved`); a newest backup that says APPLIED tells what
the project holds (`AppliedKnown`). The maximum of the applicable backups is found by the least counterexample again.

The root's formulas follow scene by scene: in the scene of a component its invariant holds of the places its variables
have, and a step of the root is one of that component or leaves the places alone.

Proving changed the models. `StartsOnReadSources` speaks only of the action that the helper's step itself starts;
`Outcome` of `SelfUpdate` is a function of what `recover` reads; a helper that dies at `failed` releases the owner
locks, as the operating system does, where the model had kept them; and the two instances of the queue, one with long
histories and one with two writers, became one, since nothing of the proof tells them apart.

### Model-checked only

Liveness (`CallsEnd`, `RequestsEnd`): fairness and `ENABLED` are beyond the prover. `JudgmentSound`, `WebSound` and
`KnowledgeSound` of Workflow, on the bounds in its instances: pages, groups and nested corrections are computed by
recursive functions, and what those compute for every input is an induction over data, which the installed provers
cannot instantiate; the other modules of these formulas have no proof yet. No theorem speaks of `RECURSIVE` operators:
none of the modules the proof modules use declares one.

## 6. Disagreements found

Each has a run that ends with the counterexample.

1. **ExecutorTwoStops.** `executor.py:225`: "Atomic file operations already started must finish recording their actual
   result before cancellation". One cancellation is shielded; the await that then waits for the thread (line 227) is
   not. A second stop records the operation as not started, or unknown, releases the lease, and the thread replaces
   the file afterwards.
2. **StartStranded.** `store.py:256`: the claimed state "enters normal controller restart recovery even if the process
   dies before scheduling the engine". Recovery looks only at tasks with the marks that `start_task` writes, so a
   task whose process dies between claim and start stays running without a run, and keeps the service busy.
3. **HandoffStranded.** `cli.py:164` directs the user to `recover-restart`. A worker that outlives its supervisor can
   leave its marker after a second supervisor replaced `supervisor.json`; `recover-restart` then refuses
   (`RESTART_CURRENT_GENERATION_UNRELATED`), and neither `serve` nor `supervise` starts any more.
4. **UpdateUnheld.** `product_install.py:306`: "An interrupted applying plan keeps it, so normal startup can recover the
   preimages." A launcher that starts before the install helper has its lock makes a recovering helper clear the
   launch hold; the install helper does not look at it and applies the plan without.
5. **LockStolen.** `ledger-contract.md:45` (chat-objective-continuity): `recover-lock` "requires the exact lock hash",
   and "refuses live/unknown owners". The comparison and the removal are two steps: a recovery that was overtaken
   removes the lock of a living process. With a single rescuer `HolderOwnsLock` holds (run Ledger).

Eight more are stated in the modules without a run of their own; TLC finds each violated when it is checked:

* `StoppedIsAtRest` (`PracticalTask`, with `MaxCalls = 1`, `MaxTools = 1`, no message, `MaxWaiting = 1`).
  `organization.py:41-42` refuses to archive or delete a task at work, by its status: "作業中のタスクです。停止してから整理してください。"
  (the task is at work, stop it first). `stop_task` writes `stopped` (`practical_engine.py:188`) after it awaited the old
  run; a resume served in between has started a new run, which works on under that status.
* `EveryCallEnds` (`Executor`; in `Liveness` with one command and `LivenessSpec`). `practical_engine.py:332`: "foreground
  command and children stop at timeout/completion". A child in a session of its own survives `killpg`
  (`native_execution.py:129`), and when it keeps the output open, the readers (160-162), and with them the call and the
  workspace's lease, wait for it without a limit.
* `ThirdPartyHolds` (`SelfUpdate`). `updates.py:1306` says of rollback: "Any third-party bytes hold rollback rather than
  being overwritten." The file is hashed (1318) and renamed over (252) after a mkdir, a write and an fsync; what
  another program saves in between is overwritten, and the rollback is confirmed.
* `NoStartAfterStop` (`PracticalTask`). `src/harness/docs/guide.md:67`: "Stop affects the selected task." A stop that
  arrives while `submit_message` waits for the run it interrupted is discarded by the `start_task` of that message
  (`practical_engine.py:171`). `StopHolds` is the form that holds: it exempts exactly those stops.
* `RollbackPossible` (`SelfUpdate`). `updates.py:1304` counts on a crash leaving "a mix of this candidate's exact
  old/new images". `_write()` (251) creates its temporary inside the tree it is compared with; a process that dies
  before the rename leaves a third image, and rollback refuses from then on.
* `NoResultDropped` (`ReviewedTask`). `engine.py:1615` adopts a policy "without dropping unfinished effects"; an
  operation that an earlier adoption had put aside can lose its place when a second adoption is put aside itself
  (`MaxPolicies = 3`, `MaxOps = 4`).
* `AdoptedExactly` (`ReviewedTask`). `engine.py:1615`: "Apply the exact approved current policy". The close of a cycle
  stores the hash of the policy then in force (2835), so a policy approved between the dispatch of an adoption and its
  close is marked as adopted without an adoption of its own (`MaxPolicies = 3`).
* `ReplacementFound` (`PracticalLesson`). The comment at `practical_learning.py:317`: "A scoped adaptation cannot
  remove the original from consumers who cannot see its replacement." Scopes are compared as they are, not by who sees
  them: a task that left its folder still finds its own lesson of that folder, and not the one another task merges it
  into. `LessonSound` says it of the other tasks.

## 7. What is left out

`PROJECT.json` lists every component with its status. Not modelled at all: the resolver (a pure selection over an
index, without state between calls) and the user interface and desktop shell (presentation). In the modelled
components contents, hashes, names and messages are model values; the layout of records, logging and wording are left
out; saves of the Executor's journal succeed. Left out by module:

* `PracticalTask`: the restart for an update (it is in `SelfUpdate`), approvals (in `TaskEntry`), `prepare_program`,
  child tasks, the status `retired` of older tasks.
* `SelfUpdate`: what another program does in a file while it is being read or renamed; `stage()` is atomic.
* `TaskEntry`: attachments and folders of a submission, `harness_*` tools, the Executor's own recovery. `ReviewedTask`:
  children and delegation, source reads and other read-only kinds, cleanup, controller updates, the admission of
  policies. `SourcePreparation`: delegation scopes, reference-only, decoded and multiple attachments,
  `validate_reconciliation`.
* `ModelJudgment`, `TargetAssessment`, `ReviewPages`: the schemas of answers, partial and revision transitions, legacy
  records; wire formats of the providers. `ProviderSettings`: discovery of models and their measured speed.
  `WebExchange`: the browser and the extraction of text. `WebJudgment`: legacy records, concurrent evaluations. `CorrectionReturn`: adoption of a policy.
* `KnowledgeStore`: ideas and their deferral, index, search and context, episodes, cleanup intents.
* `ObjectiveContract`: contracts that list an outcome as already deferred, withdrawn or superseded
  (`objective_ledger.py:1042`), progress events without outcomes, method supplements, `retry_of`, response checks, life-cycle events. `WorkUnit`: `boundary()`.
  `workflow_governance.py`, `skill_lifecycle.py` and `master_index.py` validate documents and keep no state.
* `ProductInstall`: fetching, selecting and unpacking a release, edits of `application.json`, the restart route.
  `ProjectInstall`: disk failures inside a run, members only in the second version, `plugin.py`, `release.py`.

States that the code can reach and not leave, or not leave as one would like. The models reach most of them; no
property excludes them, and where a property would, it says in its comment what it exempts:

* Executor and tasks: an exec record that crashed before its container was named is unknown for ever
  (`executor.py:866`); a crash between the commit of a message and the superseding of older rows
  (`practical_engine.py:234`); an operation saved under another access kind is held with `ACCESS_CHANGED` on every
  resume (627); a permission question in the second check becomes a failed result while its approval stays pending
  (656-659); a crash between an answered approval and the resumption leaves a task that awaits the user with nothing
  to answer (`server.py:768-773`); a crash between `update_operation` (`practical_engine.py:780`) and
  `learning.observe` (800) leaves the use of a lesson planned for ever.
* Updates: `activation.json` and `active.json` are two writes (`updates.py:1289`), `verification.json` another pair
  (1014); `maintenance_restart_pending` stays set by a refused application (`maintenance.py:311`); an older rollback
  whose restart row no longer matches (`practical_engine.py:1214`). Exclusive records are written in place
  (`server.py:161`).
* Reviewed engine: an operation of unknown effect stays current until another instruction (`engine.py:2029-2030`); a
  crash between `consume_permit` and its commit leaves the effect unknown (2363, 2404; `source_preparation.py:311`);
  a withdrawal recovered after a plan applied the attachment raises (376; `store.py:387`); a checkpoint is two records
  (`disposition_recovery.py:517-522`), and the first resume under an unknown effect makes an interrupted judgment one
  that cannot be resumed (436-444); `cycle_complete` and the task's state are two writes (`engine.py:2851-2858`).
* Knowledge: an improvement of a merged, retired skill is accepted (`knowledge.py:1050`); a candidate based on an older
  export may regress a newer text (1247); a crash between a repair's publication and its index (1556-1570).
* Installation: an edit between backup and write is overwritten (`product_install.py:224-233`, `bootstrap.py:335-342`); a
  backup directory without a manifest fails every later update (155-156, 323-330); a rollback reads its manifest before
  the lock (196, 232).
* Runtime: a hook that fails before its append records no gap (`objective_ledger.py:2661-2678`); readers without the lock
  may see `status.json` ahead of what they read; a check that fails again with a resolved finding keeps collection
  closed (`work_phase.py:445-450`).

## 8. Plan

Written so far: the Executor, `PracticalTask`, `SelfUpdate`, `RestartHandoff` and `Ledger` with their proofs; the modules
of `Workflow`, with the proofs of `TaskSound`, `LearningSound` and `InstallSound`; the root `Liveness` and
`ResultsAreReal`.

Next, proofs, in order of weight: the other modules of `Workflow` whose steps need no induction over data
(`ContextMemory`, `ProviderSettings`, `SkillProjection`, `WebJudgment`), each with its bounds made constants of the root;
then `TargetAssessment` and `CorrectionReturn` by a least counterexample, as for the queue.

Modelling that remains worth doing: children and delegation of the engines, ideas of the knowledge store, the resolver's
selection as operators against a reference definition.

## 9. Running

In this directory:

    tlc -workers 2 -config ExecutorWork.cfg MCExecutor
    tlc -workers 2 -config Liveness.cfg Liveness
    tlc -workers 2 -config PracticalTask.cfg PracticalTask
    tlc -workers 2 -config SelfUpdate.cfg MCSelfUpdate
    tlc -workers 2 -config RestartHandoff.cfg RestartHandoff
    tlc -workers 2 -config Ledger.cfg Ledger
    tlc -workers 2 -config Workflow.cfg Workflow
    tlapm ExecutorProofs.tla
    tlapm PracticalTaskProofs.tla
    tlapm SelfUpdateProofs.tla
    tlapm RestartHandoffProofs.tla
    tlapm LedgerProofs.tla
    tlapm LivenessProofs.tla
    tlapm WorkflowProofs.tla
    tlapm AssetProofs.tla

and the violations:

    tlc -config ExecutorTwoStops.cfg MCExecutor
    tlc -config StartStranded.cfg TaskEntry
    tlc -config HandoffStranded.cfg RestartHandoff
    tlc -config UpdateUnheld.cfg ProductInstall
    tlc -config LockStolen.cfg ObjectiveJournal

The runs take one to five minutes each, each proof module one to four, but `WorkflowProofs` and `AssetProofs` about
twenty each.

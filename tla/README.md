# A formal model of dsh-nexus

dsh-nexus supervises a third-party program, the *Harness*: a long-lived *Agent*
process installs releases of it, keeps its configuration, profiles and
snapshots, and starts and stops it; *Launchers* (desktop shell, CLI, web UI) talk to
the Agent over a local HTTP API. This directory holds TLA+ modules translated from the
source, the TLC configurations that check them, and TLAPS proofs of the
properties that matter most.

To check: `tlc -config MCSupWin.cfg MCHarnessSupervisor` (and so on, see the
tables of runs); to prove: `tlapm HarnessSupervisorProofs.tla` and the other `*Proofs`
modules. A run takes between a second and two and a half minutes; the proofs take up to a few
minutes each.

1. [Inventory](#1-inventory): the parts of the system, modelled or not.
2. [HarnessSupervisor](#2-harnesssupervisor): starting, observing and stopping the Harness.
3. [RequestReceipts](#3-requestreceipts): a retried request runs once.
4. [CheckpointRestore](#4-checkpointrestore): files, pointers and profile change together.
5. [ReleaseSlots](#5-releaseslots): slots, the selection, health evidence, removal and cleanup.
6. [ConfigTransaction](#6-configtransaction): the configuration and its undo copy.
7. [ColdPublication](#7-coldpublication): background installation, import and first selection.
8. [OwnedCommands](#8-ownedcommands): the external commands of the Agent, and who cleans up after them.
9. [AgentStartup](#9-agentstartup): Launchers find, start and stop the one Agent of a data root.
10. [What is not checked](#10-what-is-not-checked), 11. [What could come next](#11-what-could-come-next).

Each of the sections 2 to 9 has the same parts: what stands for what in the code, the
bounds and the runs, the fairness where liveness is checked, what the code does not keep, what is
proved along which argument, what is only model-checked, and what is left out.

## 1. Inventory

Paths are below `src/crates/` unless they say otherwise.

| Component | State it keeps | Operations | What is hard | Module |
|---|---|---|---|---|
| Harness supervisor (`nexus-agent/src/supervisor.rs`, `unix_harness.rs`, `windows_harness.rs`) | `SupervisorInner` under one mutex; durable `HarnessLogSession` and runtime metadata; detached tokio tasks | start, stop, restart, status, recovery at Agent start, monitors | interleaving of detached tasks that hold old tokens; Agent death with live processes; failing kills, drains and disk writes | `HarnessSupervisor` |
| Request receipts (`nexus-agent/src/request_receipts.rs`) | one durable receipt per request id | begin, finish, query | a retried request must not run twice; the Agent dies between the effect and the receipt | `RequestReceipts` |
| Checkpoint API (`nexus-agent/src/checkpoint_api.rs`), snapshot store (`nexus-snapshots`) | snapshot objects and manifests, restore journal | create, restore, prune, recover | a crash in the middle of a multi-file restore; pruning beside reading | `CheckpointRestore`, `ContentRestore`, `AtomicRestore` (restore only) |
| Release store and cleanup (`nexus-core/src/lib.rs`, `maintenance.rs`, `removal.rs`; `nexus-agent/src/cleanup.rs`) | slot directories, manifests, the selection, health evidence, ownership records, preview and result of a cleanup | register, publish, select, roll back, observe, remove, preview, clean up | a removal interrupted at any file; content that changed since it was looked at; a selection that names what is being removed | `ReleaseSlots` |
| Configuration (`nexus-core/src/config_transaction.rs`, `config_protection.rs`) | `config.json`, its undo copy, the pending record, archives, protected homes | save, roll back, settle, preserve | two files that must change together; edits by hand at any time; a report of failure after a durable write | `ConfigTransaction` |
| Cold operations (`nexus-agent/src/cold.rs`, `cold_publication.rs`, `offline.rs`) | operation record, publication intent, candidate directories, cancellation token | begin, cancel, publish, reconcile, recover, preserve | one decision over three stores; cancellation against commit; a task that ends after its successor began | `ColdPublication` |
| External commands (`nexus-agent/src/process_recovery.rs`, `dsh.rs`, `git_worker.rs`, `updater.rs`) | lock file, process group and record of each command; guardian processes; the gate of updates | create, spawn, watch, kill, finish; reconcile; install, retry, clean up | a command outlives its owner; a lease is released in several steps; a retry in a directory that is still written | `OwnedCommands` |
| Launcher core (`nexus-launcher-core`), Agent start (`nexus-agent/src/lib.rs`) | `agent.lock`, `agent-bootstrap.lock`, credential file, the child a Launcher owns | discover, start, stop, restart, hold during an update | several Launchers and a user start at once; two program generations; a lock that is only probed | `AgentStartup` |
| Profiles, terminal leases, runtimes, archives, logs, market, CLI, protocol types, web UI, packaging | catalogs and records of their own, or none | | see [What is not checked](#10-what-is-not-checked) | |

How they interact: the HTTP handlers of the Agent serialise lifecycle and mutating requests
(start, stop, restart, restore) with one lifecycle mutex; every mutation first settles or
refuses a pending checkpoint restore, and every request that may be retried passes the
receipt middleware before its handler. The supervisor's own mutex is taken for short
sections only and released across every await, so its detached tasks interleave with
everything. The other stores are files written by atomic replacement, shared between the
Agent and short-lived helper processes. Handlers hand their work to detached owners,
because a connection that closes drops the handler at its next await.

What makes each of them correct:

| Component | Properties |
|---|---|
| Supervisor | one Harness at a time; every live process is covered by a reservation or a Job; one owner for each child; a stop, once asked for, ends |
| Receipts | a request runs at most once; what a retry is told is true; the history never locks itself out |
| Checkpoint restore | all or nothing, over files, pointers, profile and the Agent's memory; no original is lost; every restore ends |
| Releases | the selection names a whole slot; the fallback has the entry file and manifest of a launch that became ready; only content that was compared and confirmed is deleted |
| Configuration | the two files are a pair that was decided together; edits survive; an answer says what the files hold |
| Cold operations | configuration and pointers follow the one decision; what is selected is there; a cancellation is honoured |
| External commands | whatever runs can be found; a working directory has one writer and goes only after it; what is abandoned ends |
| Launcher | one Agent owns a data root; a start that answers has an Agent; a stop leaves no child |

## 2. HarnessSupervisor

The processes the supervisor spawns (leader and descendants of each launch),
the durable marker (`HarnessLogSession`: generation, `launch_pending`, which log
files it names), the durable observation, `SupervisorInner`, and one variable for
each kind of detached task. An action is one critical section of the
supervisor's mutex (or one step of a process); what the code does between two
sections without the lock is where TLC interleaves.

| In the model | In the code |
|---|---|
| `inner` | `SupervisorInner`: child, Job, runtime state and pid, operation epoch, stop and ownership flags, readiness contract, recovery, readiness owner, attached readiness |
| `session` | `HarnessLogSession` on disk and its copy in memory (written under the same lock, disk first), and `inner.generation`, which always equals its generation |
| `saved`, `dirty` | `RuntimeMetadataStore::update_harness` through `persist_if_current`: `dirty` while a write of the current observation is due that will not be dropped (see below) |
| `starter` | the task of `spawn_start_readiness`: waiting for the signal (`gate`), told to proceed (`go`) or to abort (`abort`), waiting for readiness (`wait`) |
| `reapers` | tasks in `finish_stop` and `fail_start` that own a child taken out of `inner` |
| `monitor`, `recoverer`, `attMon`, `unMon` | the live task of `spawn_monitor`, `spawn_recovery`, `spawn_attached_readiness_monitor`, `spawn_unattached_monitor`, with the tokens it re-validates |
| `request` | the request holding the lifecycle mutex |
| `Boot*` | `with_graceful_wait` and `recover_unattached` at Agent start |
| `Start*` | the spawning section of `start_with_profile_inner` and its error paths |
| `Starter*`, `MarkRunning`, `FailStart` | the detached start owner |
| `StopRequest`, `StopDescendants`, `Finish*`, `Reaper*`, `RestoreStopChild` | `stop_inner`, `finish_stop`, `fail_start`, `restore_stop_child` |
| `Observe*`, `Exited*` | `poll_child`, called by the monitor, status requests and the readiness wait |
| `Recovery*`, `Attached*`, `Unattached*` | the PID-less recovery, the attached and the unattached readiness monitor |

Deadlines are choices: a task that has one may always find that it passed. Failing
system calls, failing disk writes, service gaps, dropped requests and deaths of
the Agent are *mishaps*, drawn from the constant `Mishaps` and bounded by `MaxMishaps`.
On Windows the Job object ends every process of a launch when the Agent dies;
on Unix processes live on (`JobsClose`).
The history variable `mishaps` only bounds the injected failures.

`persist_if_current` takes the lock again, compares generation and observation with the current
ones and writes under it, so a slow write of an older observation is dropped. Two callers name an
older generation themselves: when the exit they saw rotated the boundary (`ExitedWithReadiness`), the process
monitor (`supervisor.rs:2057`) and the readiness wait (2159) still pass the generation they
watched, and nothing is written; a status request passes the new one. `dirty` is a choice there: the snapshot stays
behind until the recovery is decided. `DurableStateIsCurrent` says what holds nevertheless: the marker, which
the rotation wrote, and the snapshot together tell the next Agent that a launch may be there
(`LiveLaunchIsKnown`), and a decided state is on disk once its write is not due (`DecidedStateIsSaved`).

Left out: log following and retention, error texts and exit codes, the environment of the
spawned command, the healthy-snapshot latch (a field of the marker no other
operation of the supervisor reads), the length of the waits, and `fail_stop_owner` (1631-1651), which
runs only when the task that owns a stop panics. The evidence a readiness wait read and the state it
publishes are one step, so that a token of one boundary is never published under the next one: the model
says nothing about such a mix-up.

### Runs

Bounds: two launches are enough for every conflict between a launch and its
predecessor (a third one meets nothing new: the marker names one launch and a
Job is dropped before the next start); two mishaps allow a failure during the
recovery from another. `CHECK_DEADLOCK FALSE`: an Agent without requests idles.

| Run | Shows |
|---|---|
| `MCSupWin` | Windows, any two mishaps (the death of the Agent leaves no process there, only a reservation: its half of the first two properties is what a Job gives): `LiveProcessIsCovered`, `NoDuplicateHarness`, `ReaperIsSoleOwner`, `QuiescentMeansNoOwner`, `StoppingIsUndisturbed` |
| `MCSupLive` | Unix, mishaps that leave every owner able to carry out its work (`OwnersSucceed`: death of the Agent, dropped request, service gap, failing kill, poll or rotation), two launches, one mishap, under `Fairness`: `DurableStateIsCurrent`, and the liveness properties `StopCompletes`, `StartingSettles`, `ExitIsObserved` |

`MCSupUnix` (Unix, any two mishaps but the death of the Agent: `QuiescentMeansNoOwner`,
`ReservationOutlivesRun`) is a configuration for those who change this code on Unix; its second
property is proved (`ReservationKept`). `MCSupDuplicate` and `MCSupStuckStop` reproduce what
the code does not keep.

Fairness: the tokio runtime keeps running every detached task and the Launcher
restarts an Agent that died, so each task's step is weakly fair; requests,
process behaviour and mishaps are not.
Why the failures of `MCSupLive` are restricted: an owner whose `terminate`, drain or
clearing write fails gives up by design and leaves the rest to the next request or the
next Agent, so that nothing eventually happens by itself.

### What the code does not keep

* `MCSupDuplicate` (violates `NoDuplicateHarness`) - the field `launch_pending` is documented (`nexus-core/src/lib.rs:2823`)
  as cleared "only after Nexus proves the run terminated". An Agent that restarts with
  token-bound readiness (or with none, or when the recovery deadline passes)
  clears it without such a proof; on Unix the old Harness is still alive and the next
  start makes a second one.
* `MCSupStuckStop` (violates `StopPendingHasReaper`) - when terminating a Windows Job fails, the early return leaves
  `stop_pending` set and nobody left to clear it.

Two more places are visible in the model and have no run of their own:

* The log boundary is said to be rotated before a PID-less Running is published
  (`supervisor.rs:689`, `2787`). The natural-exit branch of `fail_start` and the recovery armed
  at Agent start do not rotate it, so that a token of the launch before may be taken for
  the new one's.
* A failing `desktop_plugins::context` returns after the write-ahead reservation and leaves it
  behind: every start is refused until the next Agent releases it.

### Proofs

`HarnessSupervisorProofs` proves, for every number of launches and mishaps, every
set of mishap kinds and both platforms:

* `TypeCorrect`: `Spec => []TypeOK`.
* `OwnersConsistent`: `Spec => []OwnersAreConsistent`. This is the inductive
  invariant. `ChildIsReserved` and `ReaperIsSoleOwner` are not inductive alone: that
  no late start owner disturbs a reaper needs that a stop took *every* owner
  out of `inner` (`StopTakesAll`), that a child with an open gate is still owned by its
  start owner (`GateGuardsChild`), that no unattached monitor is claimed beside a child
  (`UnattachedIsAlone`), that a reaper's launch is still the reserved one
  (`ReapersAreReserved`), that a lost start keeps the reservation
  (`LostStartIsReserved`), and that a dead Agent has no memory (`DeadAgentOwnsNothing`).
* `ChildReserved`, `SoleReaper`: `ChildIsReserved` and `ReaperIsSoleOwner`, which follow from it.
* `ProcessesHeld`: the processes themselves; `ProcessesAreHeld` is inductive (every live
  process belongs to the reserved launch and is held by the child slot, a reaper, the Job, or
  sits behind a reservation only a new Agent can release). From it `OneHarness`
  (`NoDuplicateHarness`), `ProcessesCovered` (`LiveProcessIsCovered`) and `ReservationKept`
  (`ReservationOutlivesRun`, on Unix: no step gives the reservation up
  while a process of its launch runs). They assume
  `AgentEndsWithItsProcesses`: Windows, or no death of the Agent. The assumption is exactly what
  `MCSupDuplicate` shows to be needed.
* `QuiescenceMeansNoOwner` (`QuiescentMeansNoOwner`) joins both: what the quiescence test reads of
  the memory leaves no task whose tokens are current (`OwnersAreConsistent`) and no process
  (`ProcessesAreHeld`, hence the same assumption).
* `StopsUndisturbed` (`StoppingIsUndisturbed`), for every mishap: a stop voids the tokens of every
  other task, so each action either takes part in the stop or is disabled by its own token test.
* `LiveLaunchStaysKnown` (`LiveLaunchIsKnown`), for every mishap, failing and dropped saves included. Its inductive form,
  `LiveIsReserved`, adds the recovery: its owner, too, holds the reservation and has no child, for it may find the launch
  running. `SnapshotStaysCurrent` (`DurableStateIsCurrent`) adds `DecidedStateIsSaved`, inductive with `TypeOK` alone, under
  `SavesSucceed`: no failing save of the state (`persist`, `prepare`, `spawn`) or of the marker (`clear`). Each of these leaves
  a decided observation that is not the one on disk; nothing else does.
* Who watches and who decides - the safety half of the liveness properties, for every mishap unless said otherwise:
  `ChildStaysWatched` (`ChildIsWatched`: a child outside the start gate has a process monitor of the current generation),
  `RunningChildStaysProbed` (`RunningChildIsProbed`), `UnattachedStaysProbed` (`UnattachedIsProbed`, if a terminated Job drains),
  `StartsHaveOwner` (`StartingIsOwned`, if besides the spawning section leaves no half-made start behind: no `prepare`, no
  `context`) and `StopsHaveReaper` (`StopPendingHasReaper`, if terminating a Job does not fail: the failure `MCSupStuckStop`
  exhibits is the only one). `ChildIsWatched` and `StopPendingHasReaper` are inductive beside `OwnersAreConsistent`; the
  other three are not. What is, is `Attended`: besides these three it says that an attached state belongs to the live attached monitor and excludes every other owner (`AttachedHasMonitor`), that an owner is
  there only until the run is decided (`OwnedIsUndecided`), that a finishing owner remembers enough of what it took for
  `restore_stop_child` to resume it (`ReapersRemember`), and that a reservation has a generation a task
  can name (`GenerationsBegin`). TLC checked it with every kind of mishap on both platforms
  (two launches, two mishaps, 1.1 M states) before it was proved.

Only model-checked: the liveness properties `StopCompletes`, `StartingSettles` and `ExitIsObserved`; the theorems above say that
the task each of them waits for is there, the fairness that it is run.

## 3. RequestReceipts

The middleware `enforce` of `request_receipts.rs`: it records a receipt before it runs an
operation and finalizes it afterwards, so that the retry of a request finds the original.

| In the model | In the code |
|---|---|
| `disk` | `request-receipts.json`; a write replaces the whole document |
| `active`, `lock` | `Receipts.active` and the async mutex around it |
| `clients` | the handler of each connection: waiting for the lock, saving, waiting for its owner |
| `tasks` | the detached owner: about to run, running, waiting for the lock, finalizing |
| `writing`, `orphans` | the document a `spawn_blocking` save is writing; saves whose handler was dropped |
| `Loaded` | `load`: pruning, and `running` turned into `interrupted` when nobody here owns the id |
| `Arrive`, `Refuse*`, `Record`, `Admit`, `AdmitFails` | the request part of `enforce`, one action for each outcome |
| `Disconnect*`, `OrphanLands` | a connection that closes, and the save it leaves behind |
| `Operate`, `OwnerEnds`, `Finalize*` | the detached owner |
| `Crash`, `Tick` | the death of the Agent, `unix_time_seconds` |

History variables: `runs` (how often an operation was started) and `done` (its outcomes).
Mishaps: `crash`, `io` (a load or save fails; a failing save may have replaced the file), `drop`
(a handler is dropped during its save), `wait` (time passes while a handler waits for the lock).

Bounds: two clients, so that a retry meets its original; two ids, one issued ahead of the clock,
so that the edges of the retry window are crossed in both directions; two parameters;
a clock that reaches 2 with a lifetime of 1, so that a receipt expires; two mishaps.

| Run | Shows |
|---|---|
| `MCReceipts` | deaths and failing loads and saves: `AtMostOnce`, `AnswersAreHonest` |
| `MCReceiptsLive` | capacity one, so that the history is full after one request: `HistoryLoads`, and `RequestsAreAnswered` under fairness |

Fairness: the tokio mutex is FIFO, which gives strong fairness to the steps that take it; saves
and operations end (weak fairness). Neither clients nor the clock are fair.

### What the code does not keep

* `MCReceiptsDropped` (a configuration that violates `AtMostOnce`) - the comment at `request_receipts.rs:274-276` says that the lock is
  "deliberately held across the blocking-pool calls". The guard lives in the
  handler's future: when the connection closes during the save, the lock is released while
  the blocking save goes on; the orphaned document may overwrite the receipt of a later request,
  whose retry is executed again.
* Without a run: `enforce` reads the clock (line 273) before it waits for the lock (line 277), and
  `load` reads it again. When the window of an id ends in between, `load` prunes the receipt and
  the admission test with the older value still lets the retry in. The mishap `wait` does this.

### Proofs

`RequestReceiptsProofs`: `TypeCorrect`, and `ExecutedAtMostOnce` (`AtMostOnce`) for all clients, ids,
parameters, windows and capacities, under `Undropped`: neither `drop` nor `wait`, the two
situations above in which the property fails. The inductive invariant is `StartsOnce`:
whoever saves holds the lock (`SaversHoldLock`), an id that was started stays in the document
until its window is over, in the copy being written too (`StartsAreRecorded`), and an id
being admitted was never started (`SavedIsNew`). `AtMostOnce` alone says nothing about
the document, and is not inductive.

`RetriesAreToldTheTruth` (`AnswersAreHonest`) has the same assumption. Its invariant `AnswersHold` adds to `StartsOnce` that no
two owners share a request (`OwnersAlone`), that every final receipt, in the document or in a copy being written, is an outcome
of its operation and that an owner's receipt still says `running` (`ReceiptsAreTrue`), and that nobody was told of
an id whose admission is being saved (`SavedIsUnanswered`).

`HistoryAlwaysLoads` (`HistoryLoads`) needs no assumption: every document that is saved, or under way in an orphaned save, is
within the limit (`HistoryFits`): pruning only shrinks it, admission counts what it loaded and finalization replaces an
entry.

Only model-checked: liveness. Left out: listing, the diagnostic summary, and the context and
target ids a receipt carries for display.

## 4. CheckpointRestore

A checkpoint names a release, a profile and (unless it is a legacy one) a content snapshot.
Restoring it changes the files of the profile, the release pointers, the active profile and
what the Agent holds in memory, one after the other. `ContentRestore` is the engine of
`nexus-snapshots/src/restore.rs`, a write-ahead record that drives the files;
`CheckpointRestore` extends it with the protocol around it (`checkpoint_api.rs`, startup recovery
in `nexus-agent/src/lib.rs`, the journal and the release pointers in `nexus-core/src/lib.rs`);
`AtomicRestore` is the contract: the world changes in one step, or not at all, and a restore that
was opened is closed.

| In the model | In the code |
|---|---|
| `target`, `backup`, `discard` | the files of the profile; `<i>.original` and `<i>.discarded` in the undo directory |
| `txn` | `TransactionRecord`: status, `materialize`, and for each file status, original and desired content |
| `call` | a call of the engine that runs, which file it is at, whether its file effect was made but not recorded (`moved`), or how it ended |
| `Apply*`, `Rollback*`, `CommitBegins`, `MarkMaterialized`, `RemoveUndoCopy`, `UndoCopiesRemoved` | one durable effect each of `apply_restore_inner`, `rollback_restore_inner`, `commit_restore_inner`, `mark_materialized`, `remove_backup_directory` |
| `Prepare` | `prepare_restore` (its own failures leave nothing that a model of it would show) |
| `pointers`, `verified`, `profile`, `selected` | release pointers on disk, releases with matching health evidence, active profile, the Agent's state |
| `journal`, `intent` | `checkpoint-restore.json`: phase and intent |
| `owner` | who holds the lifecycle mutex and where it stands: `restore`, `undo`, `unprepare`, `abort`, `settle`, `boot` |
| `Request*` | the beginning of `checkpoint_restore`, `_retry`, `_abort`, `settle_checkpoint_restore` |
| `JournalBegins` ... `JournalClears` | the steps of `complete_content_checkpoint_restore`, `resume_content_checkpoint_restore`, `complete_checkpoint_restore` |
| `CallFailed`, `*Breaks`, `OwnerGivesUp` | the error paths of the same functions |
| `Crash`, `Boot` | the death of the Agent at any step, `recover_checkpoint_restore_startup` |
| `FileEdited` | external: somebody edits a file of the profile |

The content of a file is a number (a version), `Absent` or `Edited`; a hash comparison is
equality of contents. A write or a rename that fails may have reached the disk: a call that
fails after its effect is one that did the effect and then failed (`CallFails`), a failing
selection write may have been made.

History variable: `decided`, whether the journal of the last restore became Committed.
Mishaps: `crash`, `io` (an effect fails), `rollback` (an effect of a content rollback fails), `edit`.

Bounds: two files (one with dependencies, so that materialization is taken or not; the second
one shows what happens between files), two releases, two profiles (one where profiles are
not told apart), one or two restores (the second finds what the first one left), two
mishaps (a failure and a death during its repair). The first selection is fixed, since
releases and profiles are interchangeable.

| Run | Shows |
|---|---|
| `MCRestore` | deaths and failing effects outside a rollback, content and legacy checkpoints: `AllOrNothing`, `ImplementsAtomicRestore` (the refinement: `ReplacesInOneStep`, with its liveness `RestoresSettle`) |
| `MCRestoreFaults` | two restores, failing rollbacks and edits too: `OriginalsSurvive`, `ChangesAreJournaled`, `DecisionIsFinal` |

The refinement mapping: the contract's `world` is what the restore will amount to - the
originals and the previous selection until the journal is Committed, the desired
contents and the target selection from then on - and, when nothing is under way, what the stores hold
(`SeenWorld`). So the contract's `Take` is the write of the Committed journal; everything
before and after it must be invisible, and closing a restore must find the stores equal to
the promised world.

Fairness (`Fairness`): owners are detached tasks and the Launcher starts the Agent again (weak
fairness of `Owner` and `Boot`); somebody ends a restore that is shown as pending: an abort,
a retry of a Committed one, and the settlement at the next mutation are strongly fair,
since a crash may interrupt them. Without such a request a Prepared journal whose Agent
survived stays for as long as the user wants, and the code says so.

### What the code does not keep

* `MCRestoreMixed` (a configuration that violates `AllOrNothing`) - a rollback that stops half way (here a file was edited meanwhile) leaves
  the record `Applied`, with some operations already `RolledBack`. A retry takes `Applied` for a
  complete apply (`restore.rs:389` returns at once), publishes, commits and removes the
  undo copies: some files are old, some new. This is why `MCRestore` excludes `rollback` and
  `edit`, which `MCRestoreFaults` includes.
* `MCRestoreWedged` (violates `RestoresSettle`) - a restore plans from the pointers `load` shows (without an unverified last
  known good), skips the write when the shown pair already equals the target, and validates
  the stored pair. With an unverified fallback on disk a Committed journal that outlives a
  crash can neither be finished nor aborted. `MCRestore` therefore starts with a stored
  fallback that is verified (`StaleAllowed`).

Seen while modelling, without a run:

* a retry after an interrupted rollback meets an operation that is `RolledBack` with its backup
  moved back, and fails with "transaction backup disappeared"; an abort still ends the restore;
* a death between `prepare_restore` and the journal leaves a Prepared record that no
  journal names; `pending_restores` has no caller in production, and the next content restore of that profile is
  refused;
* an edit of a file the snapshot says nothing about blocks a rollback, which fails closed;
* a rollback after materialization restores package files, but not the dependencies.

### Proofs

`CheckpointRestoreProofs` proves for every number of files, releases, profiles,
restores and mishaps, every set of mishap kinds (failing rollbacks and edits included),
with stale fallbacks or without:

* `TypeCorrect`: `Spec => []TypeOK`.
* `Consistent`: `Spec => []ProtocolIsConsistent`, the inductive invariant. It says that the call that
  runs is the one its owner waits for (`CallIsOwned`), that whoever may still undo the
  restore knows that it is not decided (`OwnerKnowsDecision`), what a running call knows of the
  record it read at its beginning (`CallKnowsRecord`), that undo copies exist under an active record only
  (`UndoCopiesAreNamed`), and that an owner that is about to clear the journal has
  settled the record (`RecordIsJournaled`).
* `UndoCopiesGone`, `Journaled`: the invariants `NoUndoCopiesLeft` and
  `ChangesAreJournaled`, which follow from it but are not inductive: both depend on who
  is about to do what.
* `Final`: the action property `DecisionIsFinal`, from `OwnerKnowsDecision`: every call that moves
  files belongs to an owner that knows the restore is undecided.
* `OriginalsKept`: `OriginalsSurvive`, with the further strengthening `CopiesFollowRecord`: an
  operation that is pending or rolled back has no copy in the undo directory, a
  rollback has passed every file when it starts to remove copies, and a commit runs only
  after the decision.

* `RestoreIsAllOrNothing` (`AllOrNothing`) and `RestoreIsAtomic` (`ReplacesInOneStep`, the safety part of the refinement), both under
  `Undisturbed`: no `rollback` and no `edit` mishap, and no stale fallback (`~StaleAllowed`). `MCRestoreMixed` and
  `MCRestoreWedged` show that both exclusions are needed. The argument goes along four layers, each of which TLC checked
  before it was proved:
  * `OwnersFollowJournal` (`OwnerFollowsJournal`, unconditional): which owner may stand at which step under which journal;
  * `StoredIsShown` (`NothingIsStale`): `load_unlocked` shows every stored or planned pair as it is;
  * `SelectionFollows` (`SelectionFollowsOwner`): how far an owner has published pointers, profile and Agent state, and
    that outside a Prepared journal they are the outcome it decided for;
  * `FilesFollow` (`FilesAgree`): the place of every file and its copies for each status of its operation - going
    forward (`Forward`: kept, set aside, replaced) or already brought back by a rollback (`Back`), the latter only while
    somebody undoes (`Undoing`) - with what a running call has done (`CallFollowsFiles`) and which side of the decision the
    record is on (`RecordFollowsDecision`).

  The refinement is then proved step by step: a request opens a restore of the contract (`RequestOpens`), the write of the Committed journal
  is its one `Take` (`DecisionTakes`), closing finds the stores equal to the promised world, and every other step is a
  stutter (`StepIsUnseen`, `StepIsAtomic`).

Only model-checked: `RestoresSettle`, the liveness part of `ImplementsAtomicRestore`.

Left out: merging of secrets into restored files, checks for tampering and directory layout,
the disk budget, pruning of terminal records, the installed dependencies, targets without a
release, health evidence that changes during a restore, and the transaction stores of other
profiles (the content of one profile is modelled).

## 5. ReleaseSlots

The release store of `nexus-core` (`lib.rs`, `ReleaseStore`), its cleanup store (`maintenance.rs`) and
the Agent's handlers that use them (`release_control_inner`, `maintenance_control`, `cleanup.rs`,
`checkpoint_api.rs`).

| In the model | In the code |
|---|---|
| `disk` | the slot directories: manifest (missing, the marker of a publication, published) and the content of the entry file, the two that `health_fingerprint` covers |
| `owned` | the ownership records of removals (`CleanupOwnership`), kept outside the slots |
| `doc`, `running` | `release-pointers.json` with the health evidence; the launch under observation, its `healthy_candidate` and whether it became ready |
| `ready`, `late`, `lost` | history: the fingerprints of launches that became ready; the file to be unlinked was edited after it was compared; the slots somebody deleted |
| `journal` | the releases an unfinished checkpoint restore may go back or forward to |
| `consent` | the confirmation of an unprotected switch, bound to the document it was asked about |
| `scan`, `preview`, `result` | a preview that is computed without a lock; `cleanup-preview.json`; `cleanup-result.json` |
| `job` | the one piece of work in several steps: it holds the lifecycle lock and the update gate |
| `Register`, `Publish*` | `register`, `register_prepared` |
| `Inspect`, `Promote`, `Rollback`, `ResetSlots` | `promotion_risk_confirmation`, `promote_inner`, `rollback`, the reset of `maintenance_control` |
| `Launch`, `HarnessReady`, `RecordHealthy`, `Stop` | `healthy_launch_candidate`, taken while the start is prepared; `mark_running`, which takes the candidate once and calls `record_healthy_release` |
| `Restore*` | the release part of a checkpoint restore: the pair is planned once, in `RestoreBegins`; afterwards the journaled pairs are written with `restore_release_pointers` |
| `RemoveBegins`, `Delete*`, `ItemEnds` | `remove_with_digest`, `CleanupOwnership::begin_bound` and `delete_inner`, one file system effect each; the comparison of a file (`DeleteCompares`) and its removal (`DeleteEntry`) are two steps |
| `Scan*`, `Cleanup*` | `inspect`, `cleanup` |

Mishaps: `crash` (the Agent dies and starts again), `edit` and `lose` (somebody edits a file of a slot
or deletes the slot), `fail` (a removal or the repair of links fails).

Bounds: three interchangeable slots (current, fallback, one to remove), so that capacity `MaxSlots` = 3
is reached; two contents; six requests, enough to publish, switch, launch, and remove or
clean up with a preview; one preview and one mishap.

| Run | Shows |
|---|---|
| `MCReleaseSlots` | `SelectionIsWhole`, `FallbackBecameReady`, `OnlyConfirmedContentIsDeleted`, `ResultIsHonest` |

### What the code does not keep

* `MCReleasePoisoned` (violates `PartialCleanupPoisonsNothing`) - `load_unlocked` says that a "Partial
  cleanup is unavailable, but must not poison the healthy slots or current selection in this
  catalog". Health evidence for a slot whose removal was interrupted still makes it the fallback of a
  selection that is written, and the catalog that is read back is refused.

### Proofs

`ReleaseSlotsProofs`, for every number of slots, contents, requests, previews and mishaps:

* `TypeCorrect`; its type invariant also says what the gates promise, that a removal runs under its
  record and beside no Harness and no restore.
* `SelectionStaysWhole`: inductive with it. A removal refuses what the selection or a journal refers to,
  and neither changes while a removal runs, because both need the gates the removal holds.
* `FallbackIsWhatBecameReady`, from the invariant `EvidenceBecameReady`: all evidence of a document names
  the fingerprint of a launch that became ready, and a fallback is shown only while the slot has it.
* `DeletedContentWasConfirmed`, from `DeletionIsConfirmed`: while files are deleted the record is of the
  content that was shown, an interrupted removal takes up only its own record, and a file whose turn has
  come is the recorded one unless it was edited since its comparison.
* `ResultsAreHonest` (`ResultIsHonest`), from `ResultFollowsJob` and `RecordGoesLast`: the job that deletes
  for a cleanup is the one the saved result names as deleting, its record goes after the directory, and a
  used preview is never started over.

What the properties do not say:

* `FallbackBecameReady` is about the manifest and the entry file, since `health_fingerprint`
  (`nexus-core/src/lib.rs:1491`) reads nothing else: a release whose other files were edited after it
  became ready is still offered. It compares contents at two moments, when the start is prepared and when the
  Harness is ready; an edit in between that is undone before readiness is not noticed either.
* `OnlyConfirmedContentIsDeleted` excepts an edit that comes between the comparison of a file and its
  removal, which is by name (`maintenance.rs:195` and `:203`): that edit is lost, and the history variable
  `late` marks it.

Left out: the paths in the launch configuration, the idle test of terminal leases, an external
Harness (a promotion that needs no protection), the other items of a cleanup (logs,
diagnostics, patches, quarantine directories, credential records: the same protocol with one file each),
the expiry of a preview after 900 s, pending slots in the count of the capacity, and clocks that
step back. The files of a slot other than the manifest and the entry are left out: a removal compares and
removes each as it does the entry, deeper ones first, and nothing else reads them. Edits of the manifest are
left out too; the fingerprint and the removal treat them like edits of the entry. An edit never
reproduces a file a record describes, since records hold identity and time too. The comparisons of a removal
before the one that precedes the `unlink` of a file are one step with it: an edit between two of them has
the effect of an edit before both.

## 6. ConfigTransaction

`config.json` and its undo copy `config.previous.json` change as one pair
(`config_transaction.rs`, `config_protection.rs`, the store in `lib.rs`).

| In the model | In the code |
|---|---|
| `config`, `previous` | the two files: a document, told apart by the Harness home it names, nothing, or something that does not decode |
| `record` | `config-write.pending.json`: the pair before, the pair after, and whether it is committed |
| `decision`, `archive` | `config-preserve.pending.json`, the `config-preserved-*.json` files |
| `outer` | the publication around a save (`cold-publication.json`), which may be told to preserve |
| `protected`, `shown` | the documents whose home is in `protected-harness-homes.json`; the record a client has seen |
| `job` | for each process the operation that holds its `CONFIG_WRITE_GATE`, and where it stands |
| `Save`, `SaveProtects`, `SavePrepares`, `SaveStops` | `transaction`, `write`, `restore_previous` and their kin; `write_unlocked`, which loads again and protects the homes; `publish_config_pair` up to its record, which reads the files a third time |
| `Replaceable`, `Replaced` | `restore_bytes`: nothing is read when the file need not change |
| `unseen` | history: the document an editor put there after the save in progress had protected the homes |
| `SaveConfig`, `SavePrevious`, `SaveCommits`, `SaveEnds`, `SaveFails` | `publish_config_pair`, one file operation each, and its error path (`accept_committed` included) |
| `Settle`, `Restore*`, `SettleEnds` | `settle_pending_inner`, at the beginning of every read and write |
| `Preserve`, `PreservePending`, `Archive`, `Drop`, `PreserveEnds`, `GivesUp` | `preserve_current_configuration`, `preserve_pending_inner` |
| `Outer*` | the three moments of a cold publication this module needs |
| `Edit`, `Crash` | external |

A save that finds a record settles it first: in the model a `Settle`, then the `Save`. A file write that
fails may have been made. A current file that does not decode refuses every save. An edit of the undo copy
does not turn it into another valid document.

Two windows of the code stay open in it and are worth knowing. `restore_bytes` reads a file
(`config_transaction.rs:249`) and then replaces it (251); in the model this is one step, so `EditsSurvive`
says that an edit seen by the re-check is kept, and nothing of an edit between these two lines. And a save
reads the configuration three times: a document that an editor puts there after `write_unlocked` has
protected the homes and before `publish_config_pair` reads is replaced (and becomes the undo copy) without
its home being protected. The model has these steps; `HomesStayProtected` names the exception with
`unseen`.

The undo of an update attempt is not modelled. `restore_failed_update_ref` is called by `switch_tag_owned`
(`updater.rs:283`) only, and that by `complete_release_switch` (`lib.rs:2692`); both are
`#[allow(dead_code)]` and called from tests alone, so no request gives a document an attempt id.

Bounds: three documents (old, new and an editor's), the Agent alone, four commands, three mishaps (a
failure, a death during its repair, and an edit).

| Run | Shows |
|---|---|
| `MCConfig` | `PairIsWhole`, `SaveAnswersHonestly`, `EditsSurvive`, `DecisionStands`, `HomesStayProtected` |

### What the code does not keep

* `MCConfigLauncher` (violates `SaveAnswersHonestly`) - `CONFIG_WRITE_GATE` is a mutex of one process,
  but the Launcher (`desktop_bridge.rs:355`) loads the configuration in its own process, and loading settles. A load
  between the prepared record and its commit rolls the Agent's save back.

### Proofs

`ConfigTransactionProofs`, for any documents, numbers of commands and mishaps, with `AgentAlone` (the Agent
is the only process; the configuration above shows that this is needed):

* `PairStaysWhole`, from `Sound`: for each step of the job, which of the two files already has its new
  content, what the record says, and what was decided.
* `SavesAnswerHonestly` and `DecisionsStand` follow from `Sound`.
* `EditsAreKept` and `HomesAreProtected`, with the further invariant `Careful`: a rollback has seen files
  its record explains, a foreign file is none of those, and what a record takes out of the configuration,
  or a save about to write one will take out, is protected or `unseen`.

`TypeCorrect` needs no assumption. Left out: the identity of paths in the registry of homes, the fields of the
configuration beyond the home, permissions.

## 7. ColdPublication

The background operations of the Agent: installing a release, importing an offline package, and
the first selection of a release (`cold.rs`, `cold_publication.rs`, `offline.rs`). All three end in a
publication of slot, configuration and pointers under an intent record whose committed flag is the only
decision.

| In the model | In the code |
|---|---|
| `op`, `intent` | `cold-operation.json`, `cold-publication.json` |
| `config`, `pointers`, `slots`, `owned`, `candidates` | the configuration (version and runtime), the selection, slot directories, directories of runtimes and environments, candidate directories |
| `child` | the child processes of an operation: running, gone, or lost by a dead Agent |
| `task`, `quiet` | where the task of an operation stands; whether its failure proved that no child is left |
| `active`, `token` | `owner_active`, the cancellation token |
| `lifecycle`, `updater`, `gate` | holders of the lifecycle lock, the update gate and the gate of the cold coordinator |
| `fix` | the `reconcile_publication` under way |
| `Begin`, `BeginAgain`, `Start`, `Child*`, `ImportRegisters` | `begin_with_details`, `offline::begin`, `prepare_inner`, `build_and_publish`, `publish_verified_import` |
| `PublishBegins`, `Intend`, `Place`, `ImportConfig`, `Promote`, `Commit` | the steps of a publication in `build_and_publish`, `publish_verified_import`, `initialize_selected_release` |
| `StepFails`, `Settle*`, `Close`, `Clean`, `ReleaseOwner` | `settle_failure`, `release_settled_owner` |
| `Fix*` | `reconcile_publication`, `finish_publication`, one durable effect each |
| `CancelToken`, `CancelRecord` | `cancel`: the token, then the record under the gate |
| `RecoverExplicit` | `recover_explicit` (retry, or preserve the current configuration) |
| `Recover*`, `Obsolete`, `Maintain` | recovery at the start of the Agent, pruning of history |
| `ManualSave`, `OtherUpdate`, `Edit`, `Crash` | the rest of the system |

One save of the configuration and one change of the pointers is one step here; the two modules before this one
say what these are.

Bounds: two operations of any kind (the second meets what the first one's task still does), one
command (a save, a retry or a preservation), three mishaps (a failure, a death during its repair, an edit).

| Run | Shows |
|---|---|
| `MCCold` | `TupleIsWhole`, `SelectionExists`, `WorkIsOwned`, `CancelIsHonoured`, `CleanupFollowsChildren`, `EditsSurvive` |
| `MCColdStuck` | one first selection that fails: `OperationEnds` is violated (below) |

Fairness (`FairSpec`): tasks, reconciliations and recovery are weakly fair (tokio runs them, the
Launcher starts the Agent again), `Settle` and `ReleaseOwner` strongly, since they wait for a FIFO lock
(`NextInLine`) that others take too.

### What the code does not keep

* `MCColdStuck`, a run - `settle_failure` acquires the lifecycle lock; `initialize_selected_release` calls
  it from a handler that holds this lock (`nexus-agent/src/lib.rs:2177`). A first selection that fails inside never
  answers, and every later lifecycle request waits behind it until the Agent is restarted.
* `MCColdChildren` (violates `RecoveryFollowsChildren`) - `process_recovery.rs:1-2` says "Recovery proves quiescence
  before deleting their working files; an Agent restart is not that proof", and `offline.rs:339`
  "Only called after the operation's child owner is confirmed quiescent". `recover_explicit` never asks: after
  a restart it removes a slot or a runtime although a child of the operation may live.

Seen while modelling, without a run: `offline::begin` writes the record of an import or export a second time after
`begin_with_details` has let the gate go (`offline.rs:148-149`, `BeginAgain`): a cancellation that was accepted in
between is written over, and since its token stays set the operation still stops, but ends as "failed"; and when this
second write fails, the operation stays queued with its owner active and no task, until the Agent is restarted. An
offline export writes its record after its cleanup, without the gate
and without asking whose record is there; an import builds the target configuration from one it
loaded before the profile merge, while `previous_config` is read again at prepare; `publish_verified_import`
writes "registering" without the gate; after a committed import a failing update of the Agent's state
makes `settle_failure` record a failure.

### Proofs

`ColdPublicationProofs`, for any number of operations, commands and mishaps and any set of kinds:

* `OwnersConsistent` (`Ownership`): who holds which lock at which place (`GateIsHeld`, `FixIsHeld`) and
  that a task that works owns the record (`WorkIsRecorded`). `TypeCorrect` and `WorkStaysOwned` follow.
* `CancelStaysHonoured`, from `Cancellation`: an operation whose cancellation was accepted is the one whose
  token is set, and a task tests it under the gate it commits under.
* `TupleStaysWhole` and `EditsAreKept`, from `Deciding`: what the intent says of configuration and pointers
  at each step of a publication and of a reconciliation (`IntentIsFormed`, `StepsKnowIntent`,
  `FixKnowsIntent`, `DecisionIsKept`).
* `SelectionStaysThere`, with the further invariants about names: an operation that has not
  published is named by nobody (`Unplaced`), and an intent, a step and a reconciliation name only what is in
  place (`Names`).

* `CleanupWaitsForChildren` (`CleanupFollowsChildren`) and `ChildrenAreKnown`, from `Children`: a child runs only beside its own task
  and is lost only once that task failed without a proof or is over (`ChildrenFollowTasks`); only the intent of an
  import has one, and no other task can be about to settle while it works, because an import takes its turn at the
  lifecycle lock before it begins (`IntentsFollowImports`); a record that asks for a removal knows that no child is left
  (`RecordsKnowChildren`), and so does a recovery that went on (`RecoveryKnowsChildren`). TLC checked `Children` as an invariant of
  2.5 M states first.

Only model-checked: the violated `OperationEnds`.

Left out: the record of updates, the profiles of an import, exports, tests of disk and
capacity, the configuration read before the gate, and changes of the health evidence of the release that is there
at the beginning.

## 8. OwnedCommands

Every external command (clone, build, tag list) runs under an owner in the Agent, with three files and a guardian
process, so that a later Agent can tell whether it is over before it removes the working files. Modelled is the
Unix protocol of `process_recovery.rs` with its users in `dsh.rs`, `git_worker.rs` and `updater.rs`.

| In the model | In the code |
|---|---|
| `owner` | where `Owner::create`, `run_recoverable_process`, `terminate_and_wait` and `Owner::finish` stand for a command |
| `file` | the lock file, the file of the process group (empty, or with the group), the record |
| `proc` | the child (before and after `exec`), the guardian, descendants, and whether they are killed |
| `Leased` | the `flock` of the lock file: one open file, of the owner, of the child until its `exec`, of the guardian |
| `recon` | a request in `reconcile_run_directory`, with the update gate or without |
| `job`, `op`, `candidate`, `gate` | the installation, its record, its working directory, the gate of updates |
| `Open`, `TryLock`, `Write*` | `Owner::create` |
| `Spawn*`, `JoinGroup`, `ForkGuardian`, `Exec` | `spawn` and the closure of `Owner::configure` in the child, each of which may fail |
| `StopWatching`, `Prove`, `GiveUp`, `Erase*`, `Unlink` | the end of a command, with a proof of quiescence or, after 10 s, without |
| `GuardianKills` | the guardian reads the end of its socket and kills the group |
| `BeginScan`, `Lease`, `Check`, `Drop*`, `ScanEnds` | `reconcile`, one file system effect each |
| `Settle`, `CleanUp`, `BeginInstall`, `NextCommand`, `CommandReturns`, `EndInstall` | `recover_install_unattached`, `cancel_install`, `install_owned`, `run_preferred_once` and its retry |
| `ListTags` | `release_tags`, beside everything and without the gate |

Mishaps: `crash` (the Agent dies), `io` (a call or a write fails), `kill` (somebody kills a guardian), and
`race` (below).

Bounds: two commands (an attempt and its retry, or an installation and a tag list), one request, two mishaps.

| Run | Shows |
|---|---|
| `MCCommands` | `LiveIsFound`, `FilesFollowProcesses`, and, under fairness, `AbandonedEnds` |

Fairness: the operating system runs every process, so that a child gets to its program, a guardian that
sees the end of its socket kills, and what is killed ends. The Agent itself is not fair here: what it abandons
ends without it. A guardian that somebody kills cannot do this, and `AbandonedEnds` excludes it.

### What the code does not keep

* `MCOwnedRace` (violates `LiveIsFound`) - a comment (`process_recovery.rs:249-251`) says that "A live lease
  covers queued workers and the process creation boundary". `ensure_mutation_ready` (`checkpoint_api.rs:76`)
  reconciles without the gate; between the creation of a lock file and the `try_lock` on it
  (`process_recovery.rs:33-35`) the file looks abandoned: the request takes its lease, the owner locks the file
  as soon as the request lets it go, and the request unlinks it. The command that runs then is in nobody's list. The
  window is two system calls wide. The run and the theorems exclude it (`race`).

### Proofs

`OwnedCommandsProofs`, for any number of commands, requests and mishaps without `race`: `FoundedAlways` proves `Founded`
inductive. It ties the place of an owner to its files and processes (`CommandFits`: a live group
has its lock file and its record, and the group is in its file except between fork and `setpgid`, when the child
still has the lease), the place of a request to the lease it has and the gate (`ScanFits`), and the installation to
the one command that may write the candidate (`InstallFits`). From it follow `LiveStaysFound` (`LiveIsFound`),
`OneWriterAtATime` (`OneWriter`), `RecordsStayNamed` (`RecordsNameGroups`: a record that is kept can be settled some
day) and `FilesAreKept` (`FilesFollowProcesses`). `TypeCorrect` needs no assumption.

Only model-checked: `AbandonedEnds`.

Left out: the named Jobs of Windows, reuse of process ids, descriptors inherited for a moment by a child forked
at the same time, the cancellation flag, the part of the installation's record that is about publication, records of
older versions, and the second reconcile inside `recover_install_unattached`.

## 9. AgentStartup

Who runs the Agent of a data root: Launchers (`nexus-launcher-core`, driven by `desktop_bridge.rs`), an Agent started by
hand, and the first and last steps of the Agent itself (`nexus-agent/src/lib.rs`, `agent_auth.rs`).

| In the model | In the code |
|---|---|
| `agent` | the Agent processes: where each stands, its build, its instance id |
| `lock`, `bootstrap` | holders of `agent.lock` (an Agent for its lifetime, a Launcher that probes it or holds it during an update) and of `agent-bootstrap.lock` |
| `credential` | the instance `agent-credential.json` is for |
| `operation`, `child` | in each Launcher, the operation mutex and the Agent it spawned |
| `call` | a request in a Launcher and its answer |
| `AgentLocks`, `AgentPublishes`, `AgentServes`, `AgentDrains` | `run_with_instance_id` from the lock to its release |
| `FirstProbe`, `TakeOperation`, `ProbeAgain`, `TakeBootstrap`, `ProbeLock`, `DropLock`, `Spawn`, `Await*` | `AgentRuntime::start` |
| `StopProbe`, `Post`, `Poll` | `stop` and `shutdown_if_idle`; a restart is both |
| `Update*`, `CancelUpdate` | `prepare_update`, `cancel_update` |
| `LauncherExits`, `UserStarts`, `UserStops`, `AgentFails` | external |

Bounds: two Launchers of different installations (a desktop shell with a new build, a console with an old
one), two requests in them, made by any two of three callers, three Agent processes, one mishap (a crash, an
unanswered probe, an exit of a Launcher, a stop by hand).

| Run | Shows |
|---|---|
| `MCStartup` | `OneOwner`, `ServerIsAuthorised`, `StartAnswersHonestly`, `StopLeavesNoChild` |

No liveness is claimed: every wait in this code ends with a time-out.

### What the code does not keep

* `MCStartupFresh` (violates `FreshAgentIsKept`) - a start that finds "A running Agent from a different binary
  generation" means to "stop it gracefully through its own endpoint so the fresh binary can take over"
  (`nexus-launcher-core/src/lib.rs:862-865`). `stop` probes again, so that an Agent of the own generation that replaced it meanwhile is
  shut down.

Seen while modelling, without a run: a start with a live child waits for any instance and answers
`started: true` for an Agent somebody else started; a start whose child drains just times out; a Launcher that exits
right after its spawn leaves an Agent the next Launcher's lock probe can make fail; `prepare_update`
takes neither the operation mutex nor the bootstrap lock, so its probe of the lock can make a booting child exit;
the shutdown of the Agent ignores the result of `supervisor.stop()`.

### Proofs

`AgentStartupProofs`, for any Launchers, requests, builds and processes:

* `OneAgentOwns` and `ServerStaysAuthorised`, from `Ownership`: the lock follows its owner (`LockFollowsOwner`,
  `LockFollowsCall`), a start between its two locks holds the bootstrap lock (`BootstrapIsHeld`), the credential is the
  owner's (`CredentialFollowsOwner`).
* `BootStaysUndisturbed` (`BootIsUndisturbed`): while a start waits for its child no other start probes the lock.
* `StartsAnswerHonestly`, and `StopsLeaveNoChild` with the further invariant `Stopping`.

Left out: one probe and its answer are one step; each instance has a port of its own and the discovery record is part of
"serving"; tests of identity, data root, disk and volume; health answers other than Ok; a read-only Agent (it
serves like any other); an upgrade in place.

## 10. What is not checked

Liveness under fairness and ENABLED are checked by TLC only: the prover has neither. Time is abstract everywhere: a
deadline may always find that it passed, and no property speaks of durations. Failing system calls are drawn from
named kinds of mishaps and bounded by `MaxMishaps` in the runs; the proofs hold for every bound.

### Not modelled

The implementation has about 61 000 lines in 62 files, a large part of them tests inside the source files. The modules stand for
the part of it that keeps shared or durable state. What is left:

* Agent API: routing, authorisation of requests and conversion keep no state; the handlers that change state are
  actions of the modules of the stores they call.
* Profiles and terminal leases: a catalog of names and one lease record for each terminal, each read and replaced under one
  gate in one step. A model would restate the step.
* Managed runtimes (`runtime.rs`, `runtime_plan.rs`, `runtime_patches.rs`): probing with time budgets and plans,
  read-only or sequences of external commands; `OwnedCommands` models how these end, `ColdPublication` that the
  selected runtime is there.
* Capturing snapshots, the ring of healthy ones, merging of secrets; archives and repair of profiles: write-ahead
  protocols of the kind of `ContentRestore` and of the ownership records in `ReleaseSlots`, with steps of their own.
* Private files: an atomic replacement is one step of every model, with the outcome that it reports a failure after the
  replacement where callers tell the difference. Permissions are calls of the operating system.
* Windows and shell of the Launcher, console pages, the request proxy, installer download: user interface.
* Logs, notifications, market, compatibility, preferences, recovery listing: projections and parsing.
* CLI, protocol types, web user interface, packaging and CI: no state of their own.

`PROJECT.json` lists every component with its status.

### What holds only under a restriction

| Restriction | Where | Because of |
|---|---|---|
| no death of the Agent on Unix | `NoDuplicateHarness` and its companions, `QuiescentMeansNoOwner` | `MCSupDuplicate` |
| neither `drop` nor `wait` | `AtMostOnce`, `AnswersAreHonest` | `MCReceiptsDropped` and the two clock values |
| neither `rollback` nor `edit`; a verified fallback (`Undisturbed`) | `AllOrNothing`, the refinement; in the theorems too | `MCRestoreMixed`, `MCRestoreWedged` |
| the Agent alone reads the configuration | `ConfigTransaction` | `MCConfigLauncher` |
| recovery asked for by a user | `CleanupFollowsChildren` | `MCColdChildren` |
| no `race` | `OwnedCommands` | `MCOwnedRace` |
| no failing save (`SavesSucceed`) | `DurableStateIsCurrent` | an observation is not written twice |
| `JobsEndWhenAsked`, `JobsDrain`, `StartsAreComplete` | `StopPendingHasReaper`, `UnattachedIsProbed`, `StartingIsOwned` | `MCSupStuckStop`, and the places named under it |

Each of these configurations is kept beside the modules and ends with a counterexample.

## 11. What could come next

1. Contracts: the supervisor against "one reservation, one Harness, one outcome for each stop"; the receipts against
   "each request executes at most once"; `ConfigTransaction` and `ReleaseSlots` against the single steps
   `ColdPublication` takes them for.
2. Theorems: every safety property of a passing run is stated by one. What is left are the safety halves of the other liveness
   properties (who answers each request of `RequestReceipts`, who closes each restore, who ends an abandoned
   command), as `StartingIsOwned` is for the supervisor, and the contracts of item 1.
3. The Windows side of `OwnedCommands` (named Jobs).
4. The ring of healthy slots of the snapshot store (capture, pruning, `validate_healthy_inventory`, which refuses an
   inventory larger than a reduced `healthy_slots`) and the profile archive.
5. Pure algorithms (version order, retention, migration planning) as functions against reference definitions.

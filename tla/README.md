# denoize: a verification project

TLA+ modules that model the core of denoize, TLC configurations that check
them on small instances, and theorems about them checked by TLAPS. Paths are
relative to the repository root. `src/ipc/server.rs:955` is line 955 of that
file.

    tlc -workers 2 -config IpcServerCrash.cfg MCIpcServer
    tlc -workers 2 -config BatchJournal.cfg MCBatchJournal
    tlapm BatchJournalProofs.tla

Contents: [the system](#the-system), [the plan](#plan),
[modules and code](#modules-and-code), [properties](#properties),
[runs, bounds and fairness](#runs-bounds-and-fairness), [findings](#findings),
[proofs](#proofs), [what is not modelled](#what-is-not-modelled).

## The system

denoize removes noise from audio. Most of its code is signal processing and
codecs. What can go wrong through ordering, concurrency and failure is in the
parts that schedule, publish and recover work:

| component | state | operations | talks to | hard behaviour |
|---|---|---|---|---|
| IPC job queue, `ipc/storage.rs` | queue of live jobs, bounded history, sequence number; one file replaced atomically on each change | insert, next, mark running, record process, replan, pause, cancel, resume, mark paused, terminalize, prepare recovery, requeue, cancel waiting | server threads, under one mutex; receipts on disk | any thread may change a job between two lock regions of another; restart; bounded history |
| IPC server, `ipc/server.rs` | registered child, shutdown flags, per-job files | one thread per request, scheduler loop, recovery of orphans, failure path, shutdown | queue, child processes, files | stale clones of jobs, control file written by several threads, crash with a child alive, error paths |
| IPC child control, `ipc/control.rs` | the lease the child holds | open and lock the lease, check the control file at boundaries | server, atomic output | a request between a check and what it allows |
| IPC grants, `ipc/storage.rs` | capability registry | create, rotate, revoke, authorize | request threads | expiry, the last manager |
| atomic output, `atomic_output.rs` | staged file | stage, fence, rename or exclusive create, groups | batch, stream, receipts | crash and failure around the rename |
| batch resume, `batch_resume.rs`, `batch_resume/stream_checkpoint.rs` | journal, index, poisoned flag, spool | plan, activate, prepare, commit, complete, append, repair | atomic output | torn tail, crash between any two writes |
| watch folders, `watch.rs` | state file with jobs and attempts | scan, process, retry, quarantine | file system | restart while processing, file replaced under it |
| resource governor, `resource.rs`, `service.rs` | usage per resource | acquire, try, release, wait with cancellation | every job | no order among waiters |
| updater, `update.rs` | slots, active and last known good, pending health | apply, begin health, confirm, recover | file lock, new process | crash between slot and state, confirm against recover |
| live recovery, `live.rs` | device generation, attempts, backoff, failure slot | schedule, record and take failure | audio threads | first failure wins |
| neural plugin workers, `plugins/*/src/neural.rs`, `neural_daw.rs` | block pool, queues, generation | submit, process, play, reset | audio thread and worker | reset with blocks in flight, pool at its limit |
| project journal and cache, `project_v2_journal.rs`, `project_v2_cache.rs` | hash-chained journal | append by replacement, checkpoint, recover | atomic output | two writers |
| model store, `models.rs`, `models/*` | cache directories, locks, trust state | install, verify, prune, doctor | network, locks | prune from an earlier report |
| desktop jobs, `apps/desktop/src-tauri` | job table, worker processes, drafts | start, cancel, progress, recover | worker process | exit against cancel, lost last event |

Streaming decode and encode, execution plans, the SDK, the plugins' editors,
benchmarks and the signal processing keep no state that other actors change.

What makes each component correct: a job is not lost, not run twice when that
could publish twice, and not reported with an outcome that did not happen (the
IPC parts); a journal that is read back after a crash describes what is on disk
(batch, stream, project, watch, updater); usage never passes a limit and comes
back to zero (governor); no block is played after a reset and none leaks
(neural workers); what is deleted is what was verified (models, watch).

## Plan

The IPC job server comes first: it has the most actors, and it is where jobs,
children, receipts and crashes meet. Then the components that promise something
across a crash, in the order of what a user would lose. Done:

1. `IpcJobStore`, `IpcServer`, `JobLifecycle` (abstract), `IpcLifecycle`
   (refinement), `MCIpcServer`; proofs in `IpcJobStoreProofs`,
   `IpcServerProofs`, `IpcServerSafety`, `IpcLifecycleProofs`.
2. `BatchJournal`, `MCBatchJournal`, `BatchJournalProofs`.
3. `UpdateSlots`, `MCUpdateSlots`, `UpdateSlotsProofs`.
4. `WatchFolder`, `MCWatchFolder`, `WatchFolderProofs`.
5. `NeuralWorker`, `MCNeuralWorker`, `NeuralWorkerProofs`.

Next, in this order, with the hazard each would settle:

6. `LiveRecovery` (the first failure of a generation wins, live.rs:1040),
   `DesktopJobs` (the last event of a worker that dies, job_worker.rs:355).
7. `StreamCheckpoint` (spool before record, stream_checkpoint.rs:750),
   `ProjectJournal` (two writers, project_v2_journal.rs:341), `ModelCache`
   (prune from an earlier report, models/maintenance.rs:939).
8. In the IPC modules: saves and control writes that fail (memory ahead of
   disk, a request that is recorded and answered with an error).
9. Proofs: `DropsOnlyLate` of `NeuralWorker`, which needs a bound on the blocks
   in flight, and then the modules of 6 to 8.

## Modules and code

`IpcJobStore` is the queue (`StateStore`). Each method is an action. A method
that can return `Err` has its condition apart as a named operator (`MayRun` for
`mark_running`, `MayPause` for the pause branch of `request_control`...), so
that the caller can say what an error does. The mutex is held over each method
together with its save, so an action is one step and the variable `jobs` is
both memory and disk. The map of live jobs and the list of finished ones are one
function `jobs`, with `history` the ids still retained; `Terminalize` trims it
as the code does.

`IpcServer` extends it with the rest of the server:

| in the model | in the code |
|---|---|
| `sched`, `cur`, `held`, `todo`, `seen` | where `scheduler_loop`, `execute_job`, `recover_orphaned_job` and `terminalize_scheduler_failure` are, and their locals |
| `control`, `lease`, `planFile`, `receipt` | the files `<job>.control.json`, `.lease`, `.plan.json`, `.receipt.json` |
| `child` | one process per attempt of a job: where it is, the inode it locks, the plan it loaded, whether its daemon has died |
| `active` | `RuntimeState.active`, the registered child |
| `client` | the request threads, between two steps of `control_job` or of a shutdown |
| `daemon`, `shutdown`, `force` | the main thread and the two flags |
| `published` | how often the output was renamed into place: what the properties are about |

One action is what a thread does between two points where another one can see
or change what it uses. `scheduler_loop` is therefore some forty actions, in
the order of the code:

- *recovery*, on every turn of the loop: `SchedSnapshot`, `SchedProbe` (the
  control file is written again, the lease tried, the receipt read),
  `SchedReread`, one of the `Recover...` actions, `SchedCleanOrphan`;
- *gate*: `SchedGate` (forced shutdown: cancel what waits), `SchedDrain`,
  `SchedPick` or `SchedIdle`;
- *launch*: `SchedReplan`, `SchedLaunch` (plan file, new lease inode, control
  file), `SchedLock` (an earlier receipt settles the job without a run),
  `SchedMarkRunning`, `SchedSpawn`, `SchedRegister`;
- *wait*: `SchedReap` or `SchedTimeout`, then `SchedReadState` and one of the
  `Settle...` actions, `SchedClean`;
- *failure*: `SchedAbort`, `SchedAbandon`, `SchedGiveUp`. An error of that path
  itself leaves the loop through `?` and the thread is `"dead"`. An error may
  come at each step of the launch: `SchedPlanFails`, `SchedLaunchFails`,
  `SchedSpawnFails`, and `SchedReaderFails`, in which the child runs already and
  a thread that reads its output cannot be started (server.rs:1417-1420). The
  handle of the process is dropped and nothing is registered: the child is a
  *stray*, which `SchedAbort` cannot find.

Each `...Refused` action is the case in which the store method called there
returns `Err` because another thread changed the job.

A child (`ChildOpen` to `ChildSucceed`) opens the lease, waits for its lock,
checks the control file, works, passes the fence of `AtomicOutput::commit`,
renames its output, passes the fence again and renames its receipt, which never
replaces one that is there. The fence and the rename are two steps. After a
crash of the daemon the child goes on as an orphan; the lease is an inode, so a
daemon that renames a new lease file into place does not take the lock an orphan
has on the old one.

`Crash` may come at any step while the daemon is up. It keeps the queue and
the files and loses everything else; `Start` does what `run_ipc_server` does.

`JobLifecycle` is what a client may rely on: the life of a job, the runs that
were started and the outputs they published. `IpcLifecycle` maps the server
onto it: Running and Recovering are one phase, so that a restart of the daemon is
a stutter.

`MCIpcServer` gives the constants small values; `f` is a file job (not
resumable), `b` a batch job.

Abstractions: ids, reports and fingerprints are replaced by what is compared of
them (a receipt is the revision of the plan it is signed for). A request that
is refused changes nothing and is not an action. Priorities are a constant.
Stream and batch jobs are one kind: both stop at checkpoints and are replanned.

### Batches

`BatchJournal` is a batch of `batch_resume.rs` with the threads that `run_batch`
(main.rs) gives it. A run goes through the phases of `SessionPhase`, of which
`activate` is split where an edit, a kill or a power cut can come in between:
planning, verify, repair, recover, active (or poisoned).

| in the model | in the code |
|---|---|
| `journal`, `torn` | the whole lines of the journal file, and whether part of a line follows them |
| `synced`, `file` | how many of these lines are sure to be on disk; whether there is a file, and whether its directory entry is on disk too |
| `lost` | history: the records that a power cut took, with a line or with the file |
| `phase`, `run`, `plan` | `SessionInner.phase`, the options, `PlannedBatchItem` and `PlannedSkip` |
| `checked` | how far the loop over the items has come that verifies sources (main.rs:17254) or skips (batch_resume.rs:2492) |
| `touched` | history: the skips that were edited behind their own check |
| `worker` | where the closure `process_item` is for each item, and the output it staged |
| `input`, `output`, `durable` | what the paths name now, and what they would name after a power cut |
| `placed` | history: what a destination has named, who put it there, and whether its record was synced by then |

`Acquire`, `PlanItem`, `Recheck`, `Leave`, `Activate`, `Verify`, `Verified`,
`Repair`, `Recover` are the session up to its work. `Recheck` and `Verify` take
one item each, so that others may edit any file between two of them; `Verified`
looks whether there is room for what recovery will add. `Process`, `Queue` (the
fence of `run_batch`), `EnterGate` (the mutex, the second check of the source,
the room for both records), `AppendPrepare`, `Commit`, `AppendComplete` are one
publication, each of whose steps may fail (`...Fails`) or be the last (`Kill`,
`PowerCut`).

What is on disk. `append_bytes` writes a line (batch_resume.rs:2203) and then
syncs the file (2226, 2228). A write that fails or is interrupted leaves nothing,
part of its line, or all of it without the sync (`Residue`). A later run that
finds such a line takes it for prepared (2643), renames the output (2689) and
syncs nothing; only its next append or a repair of the tail covers the line. The
journal is created by the first record (2147-2154, 2662-2667) and the directory
that holds it is not synced. `PowerCut` may therefore undo any rename, drop any
number of the last lines that are not synced (`KeepsLines`), or all of the file
while its directory entry is only cached (`LosesFile`). `HalfRepaired` is a torn
tail that was cut and not synced. One thing is assumed of the file system: of
bytes that were appended and not synced, a prefix survives.

A content is the input, the recipe and the variant it was made of: an output
that is the same byte for byte has the same fingerprint, and processing an item
twice need not give the same bytes. A record id is the item and that content.

### Updates

`UpdateSlots` is the state directory of `update.rs` and the desktop application
that drives it (`apps/desktop/src-tauri/src/lib.rs`).

| in the model | in the code |
|---|---|
| `state` | `UpdateState`: active and last known good slot, pending health, floor (`highest_accepted_sequence`) |
| `slots` | `slots/<id>`: which manifest is stored with the payload of a version |
| `lock` | `UpdateStore::lock_exclusive`, which is tried and never waited for; held between two writes |
| `installed` | the package on disk |
| `proc` | each instance of the application, at a step of its start or of one of its commands |

`Launch` to `BeginAttempt` are `setup` with `begin_update_startup_health`,
`Show`, `BeginAgain` and `Confirm` are the window
(`confirm_application_update_startup`), `ApplyStart` to `Clean` are
`apply_update_bundle`, `Lookup` and `Install` the activation of a package, which
happens after the lock was let go, `ManualRecover` and `Recover` the recoveries,
`CliRecover` the same by the command line. Operations that take the lock and
write once are one step; where two writes follow one another (staging, state,
cleanup) a kill may come between them. A version in `Broken` starts, but its
window never comes up.

A slot id is the sequence and the hash of the artifact. A release has one
artifact here, and may have two manifests (`edition`).

### Watch folders

`WatchFolder` is `WatchFolder::cycle_at` of `watch.rs` with the processor of the
command line (`process_watch_job` of main.rs).

| in the model | in the code |
|---|---|
| `inbox`, `out`, `receipt`, `quar`, `reason` | the directories, by path or by the name `allocate_destinations` gives |
| `mem`, `saved` | `WatchState` in memory and in the state file |
| `step` | where the cycle is, with its locals; `touched` is history: which files of the job at hand were edited behind their last check |
| `runs` | history: how often the input of a job was processed since it was last scheduled (`made`), and how often such an attempt was given back (`spared`) |

`Open` and `BeginCycle` turn what was interrupted into a retry; `Observe` is one
path of the scan, `EndScan` prunes and saves; `Take` to `Complete` are an attempt.
In it `Publish` and `PublishReceipt` are two renames; `Verify` is the processor's
own look at the pair (main.rs:2436), `RequireOutput` and `RequireReceipt` are the
watcher's (watch.rs:771, 772), each of which may end the cycle with its `?`, and
`Complete` is the save (782); an edit or a kill may come between any two.
`ProcessDefers` is a deferral before the input is processed, `RunDefers` one
after it: `classify_watch_process_error` (main.rs:2309-2312, 2435) defers an
error that says "cancelled", and watch.rs:787-800 gives the attempt back.
`Evidence`, `Copy`,
`Explain`, `Check`, `Remove`, `Done` are the quarantine. Every save may fail
(`Save`); the next cycle then reads the state file again. The settle interval
and the delay of a retry pass between cycles (`Settle`, `Due`). A file is its
content and the stamp by which the scan notices a change; an edit may leave the
stamp as it was.

### Neural plug-in

`NeuralWorker` is one activation of the CLAP plug-in's neural engine: the host's
audio thread, the worker thread and two bounded lock-free queues between them.

| in the model | in the code |
|---|---|
| `audio`, `inCall` | where the audio thread is in `process`, `reset`, `begin_output_chunk` or `stop` |
| `frame`, `fill`, `capture`, `dry`, `cursor`, `generation`, `playback`, `ready`, `free` | the fields of `NeuralEngine`; `free_blocks` is a number, since a free block is filled anew |
| `input`, `output`, `running` | the two `ArrayQueue`s and the flag |
| `worker`, `block`, `at`, `pending`, `completed`, `computed`, `failed` | `worker_loop` and its locals; `computed` is its `ready` |
| `held` | what the backend has accepted and not yet returned (external) |
| `resetDue` | `reset_generation` is ahead of what the processor has observed |

`Process`, `Return`, `HostReset` and `Stop` are the host; a callback is any
number of `Frame`s, so that resets fall anywhere in a chunk. Every pop of a
shared queue is a step (`DrainOutput`, `ReclaimInput`, `ReclaimOutput`, `Take`),
so the worker may push and pop in the middle of a drain or of a reset. What the
worker does with a block in hand is local and one step (`Infer`, `InferFails`,
`PassThrough`), with any time before it; the backend returns what it was given,
in order, up to `LookAhead` frames late, and may fail, return unsafe samples or
panic. A sample is the number under which it was captured, so that it can be
told which sample is played where.

## Properties

Each module has one type invariant, `TypeOK`. The others, each with what could
break it:

IPC server:

- `FileRunsOnce`: a file job is started at most once and publishes at most
  once, although daemons die and requests come at any time.
- `CompletedIsPublished`: Completed is never reported without an output. Four
  places complete a job: the exit of the child, an earlier receipt at launch,
  the recovery, the failure path.
- `CompletedKeepsReceipt`: the receipt of a retained Completed entry stays on
  disk, against the pruning in `terminalize` and in `StateStore::open`.
- `RunningIsAttended`: no error path leaves a job Running that the scheduler
  has let go.
- `OneOwnChild`: a daemon has at most one live child that it has not lost, of the
  last attempt of the job at hand, and that job was not ended by somebody else.
  A stray is the child the code does lose
  ([below](#what-the-models-show-beside-the-findings)); of it the property says
  that its job is on the way to its end or ended, and never runs, waits or is
  recovered beside it under the same daemon.
- `RestartReconciles`: a job whose child finished with a valid receipt is
  neither failed nor run again by the daemon that recovers it. It makes an
  exception of a job of which a child of an earlier launch was still running
  when this daemon started, having outlived two
  ([below](#what-the-models-show-beside-the-findings)).
- `StopIsVisible`: once the threads that asked for a stop are through, the
  control file the live child reads does not say Run.
- `ImplementsLifecycle`: refinement of `JobLifecycle`.
- `StopsSettle`: a job that runs, recovers or is asked to stop ends, is paused
  or is queued again, unless the scheduler thread has died.
- `ForcedShutdownEnds`: a forced shutdown ends the daemon, also one whose
  scheduler has died, unless a later request takes the force back.

Batches:

- `JournalReadable`: whatever write was cut short, and whatever failed before
  it, the next run can parse the journal. A thread that goes on after another
  one's append failed would write behind half a line.
- `PublishedIsRecorded`: what a resumable run put in place has its record, so
  that no later run takes it for somebody else's file. Two exceptions are those
  of the code ([below](#what-the-models-show-beside-the-findings)), both by a
  power cut: the journal went with its directory entry, or the line of the
  record was one that an earlier run had written and not synced.
- `CompletedWasPlaced`: no failed rename, recovery or repeated record completes
  a record whose output was never there.
- `DoneIsRecorded`: an item is reported as completed only with its record
  complete.
- `RoomToComplete`: the limit on records never strikes between an output and its
  completion.
- `SkipsAreExact`: when a run goes on to work, each output it skips is the
  output of the very input and recipe asked for, although both, and the output,
  may have changed since the planning. Excepted is an item that is edited behind
  its own last check, while others are checked.
- `NothingReplaced`: without force no file is replaced, also one that appeared
  after the planning.
- `BatchFinishes`: a batch that is started again, without force, after kills,
  failures and power cuts finishes: it never stops at an output of its own,
  unless a power cut took the record of that output (`Stranded`), in one of the
  two ways above. Every batch after that stops there until somebody removes the
  output or uses force.

Updates:

- `SlotsRecoverable`: both slots the state names are there with the manifests
  it names, after a kill at any step and whichever operations met.
- `StateValid`: no sequence of calls writes a state that `UpdateState::validate`
  would refuse to read.
- `FallbackWorks`: a version whose window never comes up never becomes the one to
  fall back to, although other instances run meanwhile with tokens of earlier
  candidates.
- `FloorRises`: the anti-rollback floor survives recoveries.
- `UpdateSettles`: an update ends, confirmed or given up, with the package on
  disk the one the state names, unless a slot was damaged.

Watch folders:

- `BoundedAttempts`: neither kills nor failed saves let an input be processed
  more often than `max_attempts`, and once more for each attempt that was
  deferred after it had processed the input.
- `QuarantineKeeps`, `RemovedIsKept`: an input is removed only when its copy and
  its explanation are in place and the state file knows them, and what is
  removed is what was copied, unless it was put there after the last comparison
  ([below](#what-the-models-show-beside-the-findings)); what the file calls
  quarantined has both.
- `CompletedIsPaired`: a job becomes completed only with its output and receipt
  there, unless one of them goes after the watcher's own check of it and before
  the save.
- `InputsSettle`: an input that stays is completed or quarantined in the end.
  The property names the four exceptions the code has (see
  [below](#what-the-models-show-beside-the-findings)).

Neural plug-in:

- `WetIsDry`: every sample of inference that is played is the one the dry path
  plays at that moment, with any worker speed, lookahead, dropped chunk, failure
  or reset between capture and playback.
- `ModelHearsOneStream`: the recurrent state of the model never mixes two
  stretches of the input, although chunks are dropped and streams restarted
  while blocks are under way.
- `PoolConserved`: no block is lost or made, on any of the paths a block may go
  between two threads.
- `DropsOnlyLate`: the promise of docs/neural-plugin.md:57-59. It needs the
  queues and the pool to be large enough together.
- `CallbackNeverWaits`: also beside a worker that never runs again, a chunk is
  begun and a reset ends. A drain may meet results that are pushed meanwhile.
- `StopEnds`: deactivation ends in whatever state it meets the worker.

Each has a mutant, a plausible error in the code that TLC finds under the run's
own configuration: an attempt counted when it ends, a torn tail that is not cut
off, a cleanup that keeps only the active slot, room kept for the next record
only, a missing receipt taken for a valid one, and so on. The mutated operators
stand next to the originals and are commented "Mutant".

## Runs, bounds and fairness

| run | instance | states | shows |
|---|---|---|---|
| `crash` | f and b, 2 clients (symmetric), 3 requests, 1 crash, failures | 1.9 million | what is reported, run and published agree under every failure and a crash at any step; refinement; the race of request threads over the control file |
| `live` | b, 2 clients, 3 requests, 1 crash, fair | 0.3 million | stops settle and forced shutdowns end |
| `batch` | 2 items, 2 versions and recipes, 3 kinds of run, 1 edit, 1 failure, 1 kill or power cut | 5.7 million | journal and outputs agree |
| `batch_live` | 2 items, 2 variants of an output, 1 failure, 1 kill or power cut, fair | 0.2 million | the batch finishes |
| `update` | 2 instances, 3 releases of which one is broken, 2 updates, 1 kill, 2 failures, fair | 0.8 million | slots stay recoverable, updates settle |
| `watch` | 1 path, a good and a bad recording, 2 edits, 1 failure, 1 kill, fair | 0.57 million | inputs are kept, bounded and settle |
| `neural` | chunks of 2 frames, queues and latency of 2 chunks, lookahead of 3 frames, 12 frames, 1 reset or state, 1 fault, fair | 0.9 million | wet and dry aligned, pool kept, callbacks do not wait |
| `one_job`, `queue`, `pause`, `update_ready`, `watch_killed` | smallest that show it | | the [findings](#findings) |

Why the bounds are enough. In the IPC runs, three requests are a submission
followed by any two of pause, resume, cancel, a second submission and shutdown:
every pair of them meets on a job, in either order and at every step of the
scheduler. One crash gives every orphan a daemon that recovers it; a second
crash, during that recovery, is left to the theorems, which bound nothing and
cover every safety property of that run.
`MaxCrashes` bounds the daemons that die together with the children that a daemon
loses (`SchedReaderFails`), so in these instances a stray and a crash do not meet.
`MaxHistory = 1` makes the second terminal entry expire the first, `MaxQueue = 2`
is reached by two jobs. `Attempts` and `Inodes` never stop a run: with these
requests and crashes no job gets beyond its third attempt, and a rename always
finds an unused inode (both were checked as invariants of the passing
instances). `MayFail` is FALSE in `live` to keep it within a few minutes; the
same instance with `MayFail = TRUE` holds too (0.74 million states).

In `batch`, one kill after one failure is a run that stopped in the middle and
the run that resumes it, with an edit before, between or in them; one failure and
one power cut are a line that was written and not synced, the run that takes it
for prepared, and the loss of it. Three records are one less than two items need,
so the journal fills up in the middle of the second. One edit is enough for an
edit between any two checks of the activation, of an item that was checked or of
one that was not. In `batch_live` the failure and the interruption come in either
order and in one run or two. In `update`, two updates are one that
replaces the other's leftovers, and two instances are the smallest number that
can hold each other's tokens; with `MaxAttempts = 2` the limit is reached after
one good count. In `watch`, two edits are a change and its reversal, or an input
dropped again after its quarantine, and `MaxAttempts = 2` needs a kill or a
failure in each attempt. One path is enough for `watch`: jobs share nothing but
the save and the names, and two contents of one path compete for the names.

In `neural`, twelve frames are six chunks: enough to fill the queue, drop a
chunk, have a later one accepted and play it. The lookahead is more than a
chunk, as that of the real backends is, so that blocks wait for samples of later
ones. `PoolSize` is that of the code with `Spare` instead of 8: three is the
least for which `DropsOnlyLate` holds in this instance. With other latencies
and lookaheads the pool has to hold the chunks of the latency, the blocks the
lookahead keeps back, and three more, which was found by varying the instance
(2 and 3 chunks, 1 and 2 blocks). By the same count the code needs 37 of its 56
blocks, with 24 chunks and the eleven input blocks of docs/neural-plugin.md:86-87.

`CHECK_DEADLOCK FALSE` everywhere: the systems may stop. The number of requests,
edits and failures is bounded, a daemon whose scheduler has died waits for
requests, and in the code an idle scheduler, watcher or application sleeps.

Fairness (`Fairness` in `IpcServer`) is weak and per thread or process: the
scheduler thread, each request thread, each child, the main thread's stop and
exit, the start of a daemon that is down. It is what the operating system gives
to threads: none of them waits for another while it holds the store mutex, and
the waits that exist (lease, child exit) are guards. Requests, failures,
timeouts and crashes are never assumed to happen. That a child runs to its end
and that a daemon is started again are assumptions about the environment.

`BatchJournal`: weak, for the session and for each worker thread, which wait for
nothing but a fence whose holder is scheduled too, and for somebody who starts
the batch again. `UpdateSlots`: weak, per instance, for its start, its commands
and its being closed; `UpdateSettles` needs somebody who starts the application
again, since a pending update is only given up at a start. `WatchFolder`: weak
for the watcher, and strong for `Settle` and `Due`, which are enabled between two
cycles and disabled in them: time passes while the watcher sleeps.

`NeuralWorker`: weak for the steps of the audio thread inside a callback, a reset
or a join. Nothing is assumed of the worker, except in `StopEnds`, whose premise
is that it runs.

## Findings

Statements of the documentation that the code does not keep; each is a run
that TLC must find violated.

1. `OneJobAtATime` (`one_job`): docs/cli.md:883 says "V1 runs one job at a
   time". When a daemon dies its child goes on. The next daemon's
   `recover_orphaned_job` returns `Ok(())` on a contended lease
   (src/ipc/server.rs:1067) and the loop takes the next job, so two children
   work at once.
2. `QueuedJobsProgress` (`queue`): a cancellation that reaches a queued job
   between `next_job` and `mark_running` makes `execute_job` fail; when the
   request thread ends the job first, `terminalize_scheduler_failure` fails too,
   and the `?` at src/ipc/server.rs:1017 ends the scheduler thread. The daemon
   goes on accepting jobs that nobody runs. The same `?` is at lines 957, 996
   and 1006.
3. `PausedWaitsForResume` (`pause`): docs/cli.md:884-886 says jobs are
   "replanned before resume". `mark_running` accepts Paused
   (src/ipc/storage.rs:1565) and the scheduler works on a clone of the job, so a
   pause in the same window is overtaken by the start.
4. `ReadyIsApplicable` (`update_ready`): docs/updates.md:54-56 says "`apply`
   imports the authenticated candidate and rollback payload into private,
   bounded slots". The payload to roll back to of a second update is the slot
   the first one made active. `stage_slot` finds it by sequence and artifact
   (src/update.rs:2116) and verifies it against the manifest of the second
   bundle (line 2117), while it stores that of the first. So every update after
   the first fails, though `validate_apply_transition` and the dry run call it
   ready. The same holds after a recovery, unless the same manifest is applied
   again.
5. `InterruptedRetries` (`watch_killed`): docs/cli.md:814-816 says "Interrupted
   jobs retry on restart". The output is committed before its receipt
   (src/main.rs:14851-14853); after a kill between the two the retry finds an
   output without receipt, which `recover_watch_job` reports as an error
   (src/main.rs:2350) and `process_watch_job` as a permanent one: the good input
   is quarantined.

### What the models show beside the findings

No run of its own is about these; they are exceptions in the properties or
choices in the models. Where a document says otherwise it is quoted.

- IPC: a child that outlives two daemons can finish behind the back of the third.
  Daemon 1 dies after it has spawned a child and before that child locks its
  lease. Daemon 2 finds the lease free and no receipt, queues the job again and
  starts a second launch, which renames a new lease file into place, so that
  the child goes on with a lock on the old inode. Daemon 2 dies before it
  spawns. Daemon 3 locks the new inode, reads no receipt, and queues the job
  again with the removal of the receipt file, just after the first child has
  renamed its receipt there. The finished attempt is forgotten and the batch or
  stream job runs once more (a file job is failed by daemon 2 and never gets a second
  launch). It was met while proving `RestartReconciles`, which has
  `NoEarlierOrphan` as a premise; without it TLC finds the case with
  `MaxCrashes = 2`. docs/cli.md:887 says "Signed receipts reconcile a completed
  child across daemon restart."
- IPC: a child is lost when the daemon cannot start a thread that reads its
  output (server.rs:1417-1420, a `?` between the spawn and the registration).
  `terminalize_scheduler_failure` finds no registered child, ends the job and
  removes its control, lease and plan files, and the scheduler takes
  the next job while the lost child goes on: two children at once without any
  crash, although docs/cli.md:883 says "V1 runs one job at a time". The stray
  fails at its next look at one of those files; one that is past the fence of
  its commit publishes the output of a job that was reported as failed. It is the
  second half of `OneOwnChild`.

- Watch: a job that was superseded, also because its input could not be read for
  a moment (watch.rs:743-746), is not scheduled again when the same content is
  there again (watch.rs:960, 990).
- Watch: a recording that was quarantined, removed and dropped again, and fails
  again, meets the explanation of the first time; its job stays pending
  (watch.rs:1557-1585).
- Watch: when both names for an output are taken, `allocate_destinations` ends
  the whole cycle with an error, before the jobs of other inputs are attempted
  (watch.rs:678).
- Watch: a file that takes the place of an input after its last comparison and
  before its removal (watch.rs:1238-1241) is removed without a copy; what is in
  quarantine is its predecessor. docs/cli.md:522-525 and 816-818 say that failures
  are copied, verified "and only then removed from the inbox". It is the
  exception of `RemovedIsKept`.
- Watch: an output or a receipt that goes after the watcher's own check of it
  and before the save (watch.rs:771-782) leaves a job that is called completed.
  The next scan reviews completed jobs (watch.rs:907-959): with both files gone
  it schedules the job anew, with one gone it quarantines the input.
- Watch: whether a failed attempt is given back is read off the text of the
  error (main.rs:2309-2312), and errors quote paths. A failure after processing
  that is about a path with "cancelled" in it is therefore deferred each time,
  and the input is processed without end; the comment on
  `WatchProcessError::deferred` means it for "a shared prerequisite" that "is
  temporarily unavailable". It is the second term of `BoundedAttempts`.
- Batch: a power cut may undo the rename of an output that the journal calls
  completed. The next run finds it missing and makes it again.
- Batch: a power cut may also take a record and leave its output: the line was
  written by a run that was killed or failed before the sync (batch_resume.rs:2203,
  2226, 2228), and the next run took it for prepared and renamed without a sync
  (2643, 2689); or the first records went with the journal, whose directory is
  never synced (2147-2154, 2662-2667). Every run without force then stops at
  that output. No document promises otherwise: docs/cli.md:1130-1132 excludes
  "power/storage durability failures". The exceptions of `PublishedIsRecorded`
  and `BatchFinishes` are these two.
- Batch: the second verification at activation reads one item after the other
  (batch_resume.rs:2492-2505), so an edit of an item that was read already is not
  seen, although the comment there says it "closes ordinary
  preflight-to-activation replacement races", and docs/cli.md:1019-1021 that an
  entry is trusted "only when the input bytes [...] and safe single-link regular
  output all still match". It is the exception of `SkipsAreExact`.
- Neural plug-in: after an error of the backend every later chunk is played dry
  until the host resets or a chunk is dropped (neural.rs:1924, 1945); the blocks
  that waited are completed behind the newer one that failed (neural.rs:1949),
  so that the callback counts them as missing and late.
- Updater: an installation that fails after the installer was started on its own
  is noticed at the next start only.

## Proofs

All for every value of the constants: any finite set of jobs, any clients,
items, instances, releases or bundles, any number of requests, edits, failures,
crashes and attempts. The assumptions are those named in the modules
(`JobsAssumption`, `LimitAssumption`, `BundlesAssumption`, ...), which TLC
evaluates in each run.

- `IpcJobStoreProofs`: what one operation of the queue preserves.
  `StoreTyped`; `FileStoreStep`: a file job is Queued only before its first
  attempt and is never paused; `AttemptGrows`; `OtherStepsComplete`: only
  `Terminalize(j, "Completed")` completes a job.
- `IpcServerProofs`: `NextOnStore` reduces every step of the server to one
  operation of the queue or none. `TypeCorrect` proves `[]TypeOK` and
  `[]BindingOK`, which says that the scheduler has a job at hand where it needs
  one and a request thread where it has one, without which `TypeOK` is not
  inductive (`jobs[cur]` would mean nothing).
- `IpcServerSafety`: the safety properties of the server. `FileJobsRunOnce`,
  `CompletedJobsPublished`, `RunningAttended`, `OneChildAtMost`,
  `StopAlwaysVisible`, `CompletedReceiptKept`, `RestartsReconcile`.
- `IpcLifecycleProofs`: `LifecycleImplemented`, the refinement of `JobLifecycle`.
- `BatchJournalProofs`: `BatchTyped`, `JournalAlwaysReadable`,
  `PublishedAlwaysRecorded`, `CompletedAlwaysPlaced`, `DoneAlwaysRecorded`, all
  from one invariant, `BatchInvariance`; on top of it `AlwaysRoomToComplete`,
  `SkipsStayExact` and `NothingIsReplaced`.
- `UpdateSlotsProofs`: `UpdateTyped`, `SlotsAlwaysRecoverable`,
  `StateAlwaysValid`, `FallbackAlwaysWorks`, `FloorNeverSinks`, all from one
  invariant, `Invariance`.
- `WatchFolderProofs`: `TypesHold`, `BudgetHolds`, `QuarantineHolds`,
  `RemovalHolds`, `CompletionHolds`, all from one invariant, `InvHolds`.
- `NeuralWorkerProofs`: `TypesHold`, `PoolHolds`, `ModelKeepsOneStream`,
  `WetSignalIsDry`.

### The server

`FileRunsOnce` is not inductive. `FileInv` adds `FileStoreInv` (above), and, to
count outputs, `ChildInv` and `OutputInv`: no child has a higher number than the
attempts of its job, at `"spawn"` the child of the newest attempt does not exist
yet, and once a file job has published its only child is past the rename. An
orphan and a new child could otherwise publish once each.

`CompletedIsPublished` rests on `OutcomeInv`: a receipt on disk implies an
output (`ReceiptInv`), a child past its rename has published, and wherever the
scheduler is about to complete a job because of a receipt it saw earlier
(`ReceiptSeen`), that output exists even if the receipt has gone since. Outputs
are never taken back (`PublishedGrows`), so what was read before an unlock is
still good after it. The steps are cut by `CompletionNeedsReceipt` (who may
complete a job), `ReceiptAppears` (only a child that has published writes a
receipt) and `ReceiptIsSeen`.

`RunningAttended` and `OneChildAtMost` come from `RunInv`. `CurRuns` says that
the scheduler, from the spawn to the settlement, has a job that runs or was
asked to stop: no request thread ends it meanwhile, since one that is about to
end a job has one without a process (`FinishIsDue`). `OwnIsLast` says that a
child of this daemon that it has not lost exists only between its spawn and its
reaping, and is of the last attempt; a stray is one of a job that is being given
up or is over, which no step of this daemon starts again. `QuietAttends` and `TurnAttends` say which steps leave the
jobs as they are and which take the job at hand out of its run.

`StopAlwaysVisible` adds `StopInv`: while a job runs, a stop that is recorded in
the queue is in the control file, or the thread that recorded it is still about
to write it. That is true only because `mark_running` refuses a job that was
asked to stop, and because the scheduler writes `Run` before it calls it.

`CompletedReceiptKept` rests on the five ways a receipt can be deleted
(`ReceiptGoes`, `ReceiptFate`), none of which meets a retained Completed entry;
`SeenStays` carries what the scheduler has read of the receipt to where it uses
it.

`RestartsReconcile` is about the locks (`LeaseInv`): a child of the last launch
that has opened its lease holds the inode that the next daemon will try
(`LastHolds`), and whoever holds that inode is alone (`HeldAlone`), so what
`recover_orphaned_job` reads under the lease is final (`ProbeStands`). A child
of an earlier launch is not covered, which is the exception above.

The refinement. The initial state maps to an initial state, and
`StoreStepLives`, `StoreSweepLives` and `PublishLives` map each kind of step.
The abstract life allows an output per run started; that the server keeps to it
is `PublishInv`, which counts the attempts whose child is past its rename
(`Past`) and bounds the outputs by them. `CompletionFollowsPublish` is
`OutcomeInv` again.

### The batch journal

`Inv` joins the five properties with what makes them inductive. `SessionInv`: at
most one thread is past the gate, and part of a line stands at the end of the
journal only before the repair or when the session is poisoned; this is why a
failed append has to poison it. `RecordInv` is about what is on disk: a record
that was synced when its output was placed stays in the synced part of the
journal unless the whole file goes (`Gone`), and one that was not stays in the
journal until a power cut takes it (`Missed`). `WorkerInv`: a thread past the gate works in an
active session, and its record is prepared, placed or complete, where its step
says so. `PlaceInv`: what a destination names, or may name again after a power
cut, was put there by somebody (`placed`), so that a record that is recovered
because its output is in place is one that was placed. `Appending` and
`JournalStep` say what one line adds to the journal, so that the proof of each
action does not look into sequences.

`AlwaysRoomToComplete` needs to count: the worker at the gate sees room for the
lines it will add, nobody else appends before it leaves (`SessionInv`), and
`OneMoreLine` says that an append takes one place; `RecoveriesFinite` that the
lines recovery adds are part of that count. `PlanInv` says why an item was
planned as a skip (`Justified`), and that what justified it stays in the
journal; `Verify` compares the files of one item with it once more, and
`SkipInv` carries the result, over the checks of the other items, to the end of
the verification for every item that nobody touched since (`SkipInvariance`).

### The update slots

`Inv` joins the type, `StateInv` (the validity of the state and `FallbackWorks`;
the version under probation is the floor), `SlotsRecoverable` and `StepInv` for
each instance: an instance that stages or cleans up holds the lock, the slots it
has staged hold its bundle or are corrupt, and a version that does not work
never gets beyond its start (`OthersKeep`: no other instance moves state or
slots while it does). A token is only ever confirmed by an instance of the
version it was made for, which carries `FallbackWorks`. `StateMoves` and
`SlotMoves` name the few ways in which state and slots change at all; the steps
of the proof are about those.

### The watch folder

`IInv` says of the state in memory and of the file alike what a job that was
written down means (`JobOK`): it was processed no more often than its attempts,
and a quarantine that is over left its copy and its explanation in place. That
both hold it (`KnowsInv`) is what makes failed saves and kills harmless, since
either may become the other. `StepInv` says what the cycle knows at each step
between two saves, in which memory and file agree: an attempt is counted in the
file before the input is processed, and the copy is in place before the
explanation, both before the removal. `Sheltered` says that a digested name
holds the content it is named after or nothing, so that a copy found there is
the right one. The attempts of a job bound its runs only together with those that were given
back: `made <= attempts + spared` is what a deferral keeps (`RunDefersKeeps`).
`CompletionHolds` and `RemovalHolds` are action properties: `OthersDone` and
`WhoRemoves` exclude every action but one, and `StepInv` says of that one that
what it checked is still so, unless it is in `touched` (`TouchedStays`,
`PairFound`). The proofs assume
that there is a path and a content (`InputsAssumption`), since a watcher of
nothing has no jobs to type.

### The neural worker

`Inv` has the counts: a chunk is full when its frames are a multiple of the
chunk size, what waits in the worker is as many whole blocks as the samples the
backend has returned or holds (`FinishedBlocks` is the division of those samples
into blocks), and each pop and push of a queue moves one block between the
counts of `PoolConserved`.

`OneStream` says that there is, for each stream, a sample it began with: frame x
of stream g is sample `off[g] + x + 1`, in the capture, in the blocks under way,
in what the model has heard (`Heard`) and in the results. A reset or a dropped
chunk begins a stream that no block is of yet, so its offset can be chosen then
(`RewindStreams`, `LaterStream`). The offsets exist in no state of the code,
which is why the invariant is an existential one. `CallShape` and `CallOrder`
follow the samples of one call of the worker through the backend, whatever it
accepts and returns.

`WetSignalIsDry` adds `PlayInv`: a result is played `LatencyFrames` after its
capture (an older one was dropped: `LateDrops`), and the dry delay is a ring of
as many samples (`Ring`). Both then give the same sample number.

The invariants were checked by TLC on the instances of the runs before they were
proved.

### Only model-checked

`DropsOnlyLate`, an action property that needs a bound on the blocks in flight
that the model's constants do not imply: it holds for a pool that is large
enough for the lookahead, and how large is known from instances only. And the
liveness properties (`StopsSettle`, `ForcedShutdownEnds`, `BatchFinishes`,
`UpdateSettles`, `InputsSettle`, `CallbackNeverWaits`, `StopEnds`): liveness
under fairness and ENABLED are outside the proof system's reach, and so is
induction over data.

## What is not modelled

In the IPC modules: saves that fail, the failed write of a control file by a
request (server.rs:607-612), the grants registry and authorization, read-only
requests, the connection limit, and retention of diagnostics. In `BatchJournal`: the
checkpoints of streams, journals of earlier versions, the read-only inspection,
the limit in bytes beside the one in records, and the receipt of a whole batch.
In `UpdateSlots`: signatures, downloads, the contents of manifests, and the
commands that only report. In `WatchFolder`: a settle time of zero, symbolic
links in place of outputs, and a limit of attempts lower than that of the run
before. In `NeuralWorker`: parameters, the mix and the last safe gain, the
counters and the host evidence, scheduling classes, and the LV2 adapter, which
has a worker of the host. Each is listed with its component or as a hazard.

Planned, not yet modelled: live recovery, desktop jobs,
stream checkpoints, the project journal, the model store, in the order of the
plan. The resource governor and the grants registry are tables under one mutex:
their operations are single steps, and their one hazard each is plain in the
code.

Not to be modelled: signal processing, codecs, model inference, graphics and
editors, network input and output, wrappers of the SDK, scripts and build
files. They are mathematics on data or plain input and output, and no property
of interleaving or failure is lost with them. They are also most of the
repository: decoders, encoders and filters, command line parsing and reports,
and the desktop's forms make up the larger part of its 189,000 lines, so that
the modules here stand for a small share of the lines, and for most of the code
in which two actors, or an actor and a crash, meet.

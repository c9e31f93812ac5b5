# TLA+ verification of simple_downloader

simple_downloader is a Rust library that downloads one file over several
concurrent HTTP range requests, splits and retries ranges while it runs,
resumes interrupted downloads from a sidecar file, and schedules many such
downloads in a task queue. This directory holds TLA+ modules translated from
its source, TLC configurations that check them on small instances, and TLAPS
proofs of theorems that hold for every value of the constants.

Paths such as `monitor.rs` are below `src/src/`.

## The system

| Part | State it keeps | Operations | Interacts through |
|---|---|---|---|
| chunk worker (`chunk.rs`) | range `start..end`, offset, last reported progress | request, stream, cut at `end`, split, kill, time out, report | `reliable` (mpsc) and `info` (broadcast) to the monitor; `writer_tx` to the writer; commands by broadcast |
| download monitor (`monitor.rs`) | join handles, lane bindings, pending splits, retired ids, stall counter | one handler per event, a periodic tick, three ways to end | owns the ledger, the retry handler and the concurrency manager |
| ledger (`state.rs`) | an entry per chunk id, `completed_bytes` | update, complete, preserve a failed prefix, totals | called by the monitor only |
| retry handler (`retry.rs`) | two queues, attempts per id, burst window | classify, requeue, delay, give up | called by the monitor only |
| concurrency manager (`concurrency.rs`) | phase, speed history, cool-downs | decides which command a tick sends | reads the ledger, writes the command channel |
| lanes (`lane.rs`) | per source: limit, in use, blacklist | probe, claim, release, succeed, fail | called by monitor and downloader |
| downloader (`downloader.rs`) | configuration | resume plan, start writer and workers, run the monitor, close, verify | everything above and below |
| file writer (`util.rs`) | pending buffer, written extents, first error | receive, coalesce, write, record, flush, coverage gate | `writer_tx`; recorder; output file |
| resume (`resume.rs`) | sidecar: a hash per segment; recorder: coverage per segment | prepare, verify, record, save, remove | output file and sidecar |
| task queue (`queue.rs`, `task.rs`) | task states, queue, active map, occupied paths, pending deletions | enqueue, pause, resume, cancel, wait_all; driver: pump, on_complete, flush | a mutex, the Pump channel, abort handles, the file system |
| probe, limiter, config, speed, types, trace | no shared state that the rest depends on | | |

What makes it hard:

* **Concurrency.** Workers move their offset on while the monitor decides on
  splits from older numbers. The same progress travels through two channels of
  which one loses messages. The monitor's biased `select!` decides what is seen
  first, but a worker runs on while the branches are polled.
* **Failure.** Each request, buffer, write, hash, save, rename and deletion may
  fail; a range must be handed on exactly once when it does.
* **Crash and abort.** `pause` and `cancel` abort a future at any await and
  leave blocking file calls and a detached writer behind; a killed process
  leaves file and sidecar at any stage.
* **Limits.** Bounded event and writer channels, lane slots, retry budgets,
  queue slots.
* **Endings.** The monitor ends by one of three gates over a ledger that may be
  behind or ahead of what was fetched.

`PROJECT.json` lists each hazard at its line with the properties that cover it.

## Modules

| Module | Models | Run by |
|---|---|---|
| `Transfer` | workers, monitor, ledger, error classes, event channels | `MCTransfer` |
| `Lanes` | probing of several sources, lane scheduler | through `Dispatch` |
| `Retry` | retry handler with its times | through `Dispatch` |
| `Dispatch` | the monitor's tick and event handlers over `Lanes` and `Retry` | `MCDispatch` |
| `Concurrency` | concurrency manager, speed samples, commands and the workers that hear them | `MCConcurrency` |
| `TaskQueue` | queue, driver, and a download as the queue sees it | `MCTaskQueue` |
| `Storage` | resume plan, writer, recorder, sidecar and closing checks, over several sessions | `MCStorage` |
| `Delivery` | abstract specification: what the sessions of a path promise | implemented by `Storage` |
| `Ranges` | the list algorithms of plan, splits, writer, recorder and coverage gate | `MCRanges` |
| `TransferProofs`, `ClaimProofs`, `LedgerProofs` | theorems about `Transfer`: its inductive invariant; who holds a byte, who still reports, what Ok leaves behind; what the ledger accounts for | TLAPS |
| `DispatchProofs`, `ConcurrencyProofs`, `QueueProofs` | theorems about `Dispatch` (with `Lanes` and `Retry`), `Concurrency`, `TaskQueue` | TLAPS |
| `StorageProofs`, `SessionProofs` | theorems about `Storage`: its inductive invariant; the sidecar and clean sessions; the refinement of `Delivery` | TLAPS |

The models meet at these interfaces.

* `Storage` sees the transfer as somebody who hands over buffers of the missing
  ranges in any order and ends with a verdict, which may be wrong
  (`TransferLies`), since `Transfer` shows that the monitor's Ok can come too
  early.
* `TaskQueue` sees a download as a future that prepares, opens its output and
  ends with a result.
* `Transfer` has bytes and channels but one pool of lane slots and no time; it
  leaves open which back-offs are over and which command is sent. `Dispatch` and
  `Concurrency` have the lanes, the times and the manager but no bytes, and allow
  every order of completions, failures and splits.
* `Transfer` and `Storage` account in sets of bytes. `Ranges` has the lists of
  inclusive ranges that the code uses in their place.

### Transfer

| State | Code |
|---|---|
| `chunk[i]` | locals of `chunk_run_with_reliable` for id `i`; `pc = "none"`: no handle in `tasks`; `cmd`: an unread command; `cls`: class of the error it will report |
| `reliable`, `info`, `lost` | the mpsc channel, the unread part of the broadcast ring, whether a progress message never arrived |
| `st`, `completed`, `retired` | `DownloadState.chunks`, `completed_bytes`, `retired_ids` |
| `lanes`, `pending` | ids holding a lane, `pending_bisects` |
| `retry`, `delayed`, `attempts`, `total` | the queues and counters of `RetryHandler` |
| `nextId`, `stall`, `result` | `next_chunk_id`, `stall_ticks`, how the monitor returned |
| `owed` | the branch of the biased `select!` that was ready when the last handler returned |
| `writer`, `sent` | whether the writer still receives; bytes handed to it |

Each branch of the worker's loop is an action (`Respond`, `RequestFailed`,
`Data`, `Overrun`, `WriterClosed`, `Eof`, `StreamError`, `IdleTimeout`, `Kill`,
`Bisect`), followed by the awaited sends (`FailSend`; `FinalProgress`, then
`SendComplete`). Every handler of the monitor is synchronous, hence one action:
`MonReliable` with `OnProgress`, `OnComplete`, `OnFailed`, `OnBisected`;
`MonJoin` with the fast path; `MonInfo`; `Tick` with the command, `drain_pending`,
`process_queues`, the retries that are due and the endings.

Abstractions:

* Time is left out. Which back-offs have expired is chosen by the tick
  (`due`, `go`); the throttle may hold back any report that the code does not
  force.
* `owed` is how the bias of `select!` is kept: what was ready before the poll
  began is served first; what arrives during the poll may come first or not.
* A worker's reliable send and the broadcast copy of the same event are one
  step. The copies of terminal events are not kept, since the monitor skips
  them; they only overwrite other messages of the ring (`lost`).
* One command is outstanding per worker. Which entry gets which command is open
  within the conditions that `decide_and_act` tests on the ledger.
* `MaxIds` bounds the ids. `Bisect` keeps an id in reserve for each split that
  is on its way, so the bound never makes the model lose a range.
* When the monitor has returned, workers only stop.

### Lanes, Retry, Dispatch

| State | Code |
|---|---|
| `waiting`, `answers` | `probe_futs` of `MultiRuntime::from_config`; what each probe found |
| `rangeSize`, `plainSize`, `rangeC`, `plainC` | `range_file_size`, `fallback_file_size` and the two lists of candidates |
| `size`, `ranges`, `used` | what was settled on |
| `order`, `active`, `failures`, `black`, `cool` | `LaneScheduler`: the lanes by speed and for each its chunks, its failures in a row, its blacklisting and what is left of it |
| `queue`, `delayed`, `attempts`, `total`, `permanent`, `quiet` | `RetryHandler` |
| `pending`, `binding`, `done`, `deferred` | `pending_bisects`, `lane_bindings`, `retired_ids`, `deferred_retries` |
| `phase`, `step` | `run_internal`; where `handle_tick` is |
| `due` | history: how long a chunk has to wait by the documented back-off |

`ProbedRange`, `ProbedPlain`, `ProbedSkipped` and `ProbeFailed` are the branches
for one finished probe, `Build` and `NoSources` the end of `from_config`. A tick is
a loop of claims: `Drain` one buffered range each, `DrainEnds`, `RetryStarts` or
`RetryDeferred` one ready chunk each, `TickEnds`. No event is handled in between, as
the handler does not await. `Complete`, `FailsAgain`, `FailsForGood` and `Split` are
the events.

Abstractions: times are what is left of them, and a tick takes `TickMs`; events take
no time. A chunk is a range with the id it is retried under. Clients and headers of
a lane are not told apart. What the probe sent and parsed is reduced to its
answer. After `Start` the variables of the probe are reset, since nothing reads
them. The event loop ends when nothing is bound or waiting; the
other endings are in `Transfer`.

### Concurrency

| State | Code |
|---|---|
| `phase`, `obs`, `record`, `since`, `samples`, `dry`, `peak`, `skewed`, `steal` | fields of `ConcurrencyManager` |
| `step` | where `handle_tick` is |
| `worker`, `left` | the truth about a chunk: how far its worker is, the class of the bytes it still has to fetch |
| `entry`, `older` | its entry in `DownloadState.chunks` (speed, ticks without progress); the entries that an earlier worker of the id made |
| `news` | chunks with unread progress on the broadcast channel |
| `cmds` | the ring of commands a worker has not read, each with whether it was sent to this worker or to an earlier one |
| `gap`, `peace`, `cut`, `quiet` | history variables of the properties |

`Sample` is `update_speed` over all entries and `Decide` is `decide_and_act` with its
alternatives: leaving the probing phase, probing splits, evaluation of an observation,
rescue of a stalled chunk, splits in the stable phase, stealing.

Workers and ledger are separate. `Fetch` moves the worker on and may or may not send a
progress (the throttle, a full ring); `Hear` is `handle_download_info` for a
progress: it updates the entry or, if there is none, makes it, also for a chunk
whose failure was read before, since only completed ids are retired. A failure is two
steps, `Fail` or `Killed` in the worker and `OnFailed` in the monitor, which removes the
entry; progress may be read between and after them. `Retry` starts the next worker of
the id, beside an entry that late progress made again. `AllRead` is the bias of the
monitor's `select!`: a tick comes when every event sent before it was read.

Speeds have three classes and sizes five, one for each threshold that the
code compares them with. What an entry says is left (`Remaining`) is any class not
below the truth: entries count what was read, from the first byte of the worker that
made them and to an end that a split may have cut since. Comparisons of averages with
a factor (1.1, 0.8, 1.05, 0.95) and the estimated remaining time are left open, but an
average is positive exactly when a sample in the window is. A worker that waits for its
response hears no command, and a new worker for an id subscribes after the old
commands. A completion and a split are one step with their handling: until then
the manager has the entry it had before.

### Ranges

`trusted`, `ranges`, `written` and `covered` are the lists of the plan, the workers,
`file_writer_task_impl` and the recorder; `put` is the set of bytes written. The
operators are `collect_contiguous_ranges`, `mark_written`, `coverage_gap`,
`remaining_ranges`, `verified_ranges`, `split_resume_ranges` and `split_range_skewed`,
written with folds. The next session starts from any subset of the hashes, as a crash
may lose the last saves. `record_write` puts off the hash of a covered segment when
the file is too short to read it (resume.rs:636); the writer has flushed before it
records, so a covered segment can be read, and `Write` has no such branch.

### TaskQueue

| State | Code |
|---|---|
| `all`, `path` | `all`: the state and the output path of each task |
| `queue`, `active`, `occupied`, `pending` | `queue`, `active` (a run number per task), `occupied`, `pending_deletes` |
| `pumps` | unread `QueueCmd::Pump` |
| `pc`, `todo`, `gone` | where the driver is; the local copies of `flush_pending_deletes` |
| `run[r]`, `spawned` | the `r`-th spawned download: its task, `fut` (future: running, told to abort, its result, joined) and `disk` (how far it came with its files) |
| `deleting` | what callers of `cancel` still have to delete: file or sidecar |
| `file`, `meta`, `whole` | which task wrote the file and the sidecar of a path; the complete files |

A call of the public interface is one action, as it runs under the mutex; the two
deletions that `cancel` does after it released the lock are two more (`CancelDelete`,
first the file, then the sidecar). The driver is split where it releases the lock: `pump` into
`PumpPop` and `PumpInsert`, `flush_pending_deletes` into `FlushBegin`,
`FlushFile` and `FlushMeta` for each path, `FlushEnd`. `Prepare` and `OpenOutput` run on blocking threads and
take effect even when the future is aborted; `WriterExit` is the detached writer
that flushes the recorder when its channel closes. Resume is taken to be enabled.
`Calls` says which calls are made, `MaxCalls` bounds pauses and cancellations; a resume needs a pause before it.
`MaxRuns` is the number of tasks and of resumes and never binds.

### Storage

| State | Code |
|---|---|
| `exists`, `len`, `data` | the output file; a byte is 0 when this program did not write it, else the version of the remote content |
| `side`, `saved` | the sidecar and its hashes |
| `pc`, `session`, `result` | the session: not running, planned, running; how the last one ended |
| `on`, `truncate`, `trusted`, `todo` | the resume plan |
| `verdict`, `chan` | how the transfer ended; the writer's channel |
| `wpc`, `held`, `buffer`, `written`, `werr` | `file_writer_task_impl`, split at its awaits |
| `rec`, `cov`, `dirty` | the recorder |
| `remote` | what the server serves |
| `faults`, `clean` | bound on the faults; none happened in this session |

Sessions follow each other; a session may fail, be aborted or crash between any
two awaits. Hashes are the contents themselves (no collisions), and one writer
works on a path at a time. The kinds of fault are constants: `io` (write, read,
open), `save`, `remove`, `net`, `lie` (the monitor's early Ok), `abort`, `crash`
(the process dies), `damage` (somebody edits, cuts or deletes
the file, or a power failure loses unsynced data), `remote` (the content changes on the server).

`Delivery` is what that amounts to for somebody who sees only the file:
`Storage` implements it under the mapping `phase <- pc`, `outcome <- result`,
`length <- len` and `have <- OnDisk`, the bytes that are on disk as the server has
them. A session may drop what it finds only when it opens the file; while it runs no
right byte is lost, whatever fails; Ok is returned for a complete file only.

tokio buffers file writes, so most write errors surface at `flush`; the model lets
either of them fail. Only an error of `write_all` on `TerminateAll` goes unnoted.

## What the runs check

Runs that pass:

| Run | Instance | Properties |
|---|---|---|
| `TransferSafety` | 4 bytes, two ranges, 2 lane slots for up to 3 workers, channels of 2 and 1, network and HTTP faults (1.2 million states) | `NoByteOrphaned`, `ClaimedOnce`, `NoGhostEntry`, `OkDropsOnlyUnread`, `StalledOnlyAfterLoss`, `ProgressNeverRegresses`, `TypeOK` |
| `TransferLiveness` | 3 bytes, two ranges for one slot, a larger retry budget, all faults, a dying writer among them (49 000 states) | `Terminates` |
| `Dispatch` | two sources, one of them through two proxies, both lane models, 3 chunks, 2 workers, back-offs of 2 s and more against a tick of 1.5 s and a blacklisting of 3 s (224 000 states) | `SourcesAgree`, `SlotsAccounted`, `OnePlace`, `BudgetKept`, `BackOffKept`, `HealthyFirst`, `Settles` |
| `Concurrency` | 2 chunks, 2 workers, an interval of 2 ticks, observations of 2 samples, idle after 2 ticks, 1 skewed split before a connection is ended (5.4 million states) | `ObservationKept`, `OwnCommands`, `Paced`, `ObservedInPeace`, `MovingSpared` |
| `QueueSafety` | 2 tasks, 1 slot, 2 pauses or cancellations with resumes (5.3 million states) | `ActiveBounded`, `NoTaskLost`, `PausedIsQuiet`, `PathsKept`, `RemovedIsFinal` |
| `QueueLiveness` | the same with one pause or cancellation, deletions may fail (345 000 states) | `EveryTaskServed`, `WaitAllReturns` |
| `StorageSafety` | 5 bytes in 3 segments, 3 sessions, 2 faults of 8 kinds (1.5 million states) | `OkIsWhole`, `TrustedIsOnDisk`, `NoTailGap`, `CleanSessionSucceeds`, `Delivers`, `TypeOK` |
| `StorageLiveness` | 5 bytes, 2 sessions, 2 faults, nothing damaged from outside (555 000 states) | `SidecarNotAhead`, `SessionEnds` |
| `StorageStreaming` | unknown length, aborts, crashes, changes on the server | `OkIsWhole` |
| `Ranges` | files of 1, 11 and 24 bytes in segments of 4, two sessions, up to 3 ranges (153 000 states) | `OneOwner`, `LedgerExact`, `RecordedExact`, `GateExact` |

`TypeOK` of `Dispatch`, `Concurrency`, `Ranges` and `TaskQueue` holds on the same
instances and documents the state; the runs spend their time on the rest.

What they show:

* `NoByteOrphaned` and `ClaimedOnce`: splits with stale offsets, failures at any
  byte, retries, full lanes and a full event channel neither lose a range nor
  fetch a byte twice.
* `NoGhostEntry`: late progress leaves no ledger entry behind that would keep the
  completion gate shut. `ProgressNeverRegresses`: the total on display is monotone.
* `OkDropsOnlyUnread` and `StalledOnlyAfterLoss` say exactly how far the endings of
  the monitor can be trusted: Ok may overlook events still in the channel and
  nothing else; a stall is declared only after progress was lost.
* `Terminates`: retries, back-offs, stalls and blocked senders always come to an end.
* `SourcesAgree`: in whatever order the probes end, the lanes that are kept serve
  the same size, and no Range source of that size is dropped. `SlotsAccounted`: the
  scheduler's counters are the workers it feeds and its limits per lane, source and
  download hold together. `OnePlace`: lanes running out in the middle of a tick lose
  no chunk and duplicate none. `BudgetKept`, `BackOffKept`: a chunk that moves between
  the queues, or is deferred for want of a lane, is tried neither too often nor too
  early. `HealthyFirst`, `Settles`: a blacklisted lane is avoided while another has
  room, used when none has, and comes back; the download ends.
* `ObservationKept`, `ObservedInPeace`: an observation cannot get stuck and is not
  disturbed. `Paced`: whichever of the five ways leads to a command, the interval is
  kept. `OwnCommands`: a retry never hears what was meant for its predecessor.
  `MovingSpared`: however far the entries lag, a worker that is judged by an entry of
  its own is told to end only if none of its progress got through for the idle time, or
  if as many skewed splits as allowed were asked of it. That the entry is its own is
  needed: `NewcomersSpared`, without this condition, fails (see below).
* `ActiveBounded`, `NoTaskLost`, `PausedIsQuiet`, `RemovedIsFinal`: late results,
  the gap between the two locks of `pump` and calls at any point neither overfill
  the active map, lose a task, leave a paused one running nor revive a cancelled
  one. `PathsKept`: two unfinished tasks share an output path only through the two
  early releases described below. `EveryTaskServed`, `WaitAllReturns`: no wake-up is
  missed.
* `OkIsWhole`, `TrustedIsOnDisk`, `NoTailGap`, `SidecarNotAhead`: what a crash, an
  abort, a failed write or save or an edited file leaves behind never makes a later
  session accept a byte that is not there. `CleanSessionSucceeds`: no such history
  blocks a session in which nothing goes wrong. `Delivers`: all of it amounts to
  `Delivery`. `SessionEnds`: full channel, dead writer and queued `TerminateAll` do
  not wait for each other.
* `OneOwner`, `LedgerExact`, `RecordedExact`, `GateExact`: the lists with their
  inclusive ends agree byte by byte with the sets they stand for, for writes of any
  length in any order; the gate finds exactly the first hole.

Why the bounds are enough:

* Transfer. A range of three bytes can be split after its first byte, fail with a
  non-empty prefix and a non-empty rest, and fail with an empty rest. Two slots
  for three ids make splits and retries wait for a lane. `ReliableCap = 2` lets
  senders block; `InfoCap = 1` with loss lets a progress copy be late, lost or in
  order. `MaxRetries = 1` with `MaxTotalAttempts` 1 and 2 takes the immediate
  queue, the delayed queue and the spent budget. `StallTicks = 2` tells a stall
  that recovers from one that does not.
* Dispatch. Three runtimes give two lanes in one model and three in the other, two
  sizes make answers disagree. With three chunks for two workers one always waits.
  A blacklisting of two ticks after two failures lies between the shortest
  back-off and the delayed queue, so lanes come back before, while and after a
  chunk becomes ready; `MaxRetries = 1` and `MaxTotalAttempts = 2` pass through both
  queues and the spent budget.
* Concurrency. An observation takes samples only when the interval is over, so that
  with `Required = 2` a decision falls into every observation; `Window = 2` lets a
  window be dry in part and altogether; `MaxSkewed = 1` reaches a skewed split and the
  kill after it; `Idle = 2` lets an entry go idle before, while and after its chunk
  waits for a retry; a ring of one loses commands; two chunks suffice to split,
  steal and retry beside each other.
* Ranges. A last segment that is shorter (11), one that is not (24) and a file of
  one byte; 24 bytes are enough for skewed splits to keep an eighth, three ranges
  for a hole between two written ranges.
* TaskQueue. With one slot, two tasks compete; a pause, its resume and a second
  call put a task through every order of calls and late results. `MaxRuns`
  suffices for every task and every resume. Tasks and paths are symmetric where
  only safety is checked.
* Storage. Segments of 2 bytes with a last one of 1 and buffers of 1 or 2 make
  segments be covered in parts, by one buffer, or across a border; a coalescing
  limit of 3 joins some buffers and not others; a batch of 2 separates hashing
  from saving; three sessions put a fault into the first, one into the second
  and a clean one at the end. An old file is at most as long as the new one; a
  longer one is among the disagreements below. `StorageStreaming` leaves out
  `io` for the same reason.

`CHECK_DEADLOCK` stays on everywhere: each model says by an action of its own
(`Finished`, or the driver's tick) when it may rest.

### Where code and documentation disagree

Each of these runs states what a comment, a document or a test of the repository
says and ends with TLC's counterexample. Quotes and lines are in `PROJECT.json`.

| Run | Property | What happens |
|---|---|---|
| `QueueHollow` | `CompletedIsWhole` | a task is cancelled while it is active, which frees its path and leaves its files to `flush_pending_deletes` (queue.rs:206); the next owner of the path finishes, the flush removes its file, and it is Completed with nothing on disk. With `Calls = {"cancelIdle"}` the deletion that the caller of `cancel` does after the unlock (queue.rs:214-225) gives the same result |
| `StorageVersions` | `OneVersion` | the ETag check has no caller: two versions of the file are mixed and reported Ok. CHANGELOG.md:58 says otherwise; docs/文档导航.md:40 and README.md:95 say that it is not wired yet |

More formulas of this kind are defined at the end of the modules. The models
refute them too; putting one into a configuration shows the trace.

| Formula | What happens |
|---|---|
| `Transfer!NeverOvercounts` | progress that arrives after the failure of its worker re-creates the entry (monitor.rs:409): bytes count twice |
| `Transfer!OkIsComplete` | with that surplus the fast path (monitor.rs:271) returns Ok while a failure is unread; the writer's coverage gate then rejects the file |
| `Transfer!Terminates` under `LocalFairSpec` | nothing limits the wait for response headers (chunk.rs:145): the download waits for ever |
| `Transfer!CompleteNeverRefused` | a failure after the last byte (chunk.rs:505) is retried as an empty range until the budget is spent, with every byte present |
| `Transfer!CompleteNeverStalls` | no progress arrived before a failure: nothing is credited (retry.rs:152), and a complete file ends as stalled |
| `Transfer!TimeoutIsRetried` | an idle timeout at offset 404 is taken for HTTP 404 (retry.rs:25); try `FileSize = 405`, `Pieces = {404}` |
| `Concurrency!NewcomersSpared` with the constants of `Concurrency.cfg` | progress read after `ChunkFailed` makes the entry of the failed worker again (monitor.rs:405); the entry is idle by the time of the retry, which is told to end as soon as it has started, where concurrency.rs:408-409 says that only idle chunks are taken and a new one is given time to deliver |
| `Concurrency!WorkersBounded` | the rescue of a stalled chunk (concurrency.rs:413) splits it without looking at `max_workers`; with `MaxWorkers = 1` two workers run, where docs/调用指南.md:456 promises a single one |
| `TaskQueue!UniquePaths` | cancelling a finished task, or the late result of a run that was paused and resumed, frees a path (queue.rs:254) that belongs to another task by now, and a third one gets it too |
| `TaskQueue!RunningBounded` | the late result of a paused run removes the entry of the resumed one (queue.rs:541): one download too many |
| `TaskQueue!PauseAccepted`, `WaitAllMeansDone` | between the two locks of `pump` (queue.rs:518) a task is nowhere: pause and cancel refuse it, `wait_all` returns |
| `TaskQueue!TerminalIsFinal` | an error of a paused run marks the resumed task Failed (queue.rs:552), and pump revives it; its path is free by then |
| `TaskQueue!CancelLeavesNothing` | a blocking call or the detached writer (util.rs:647) puts files back after the deletion |
| `Storage!OkIsWhole` with `Known = FALSE` and `io` | an error of the last write is only logged (util.rs:578) and there is no coverage gate |
| `Storage!CleanSessionSucceeds` with `MaxLen > FileSize` | crash between the first save and the truncation (resume.rs:496): a longer old file is never cut |
| `Storage!MissingTargetStops` | a sidecar without its file restarts (resume.rs:421), where README.md:91 promises a stop |

Seen while reading, and translated as the code has it:

* `push_back_retry_with_backoff` sets `failure_time` to now, so a chunk that found
  no lane is ready again at the next tick; CHANGELOG.md:145 says 2 s.
* When no source can be probed `run_internal` streams from the first one;
  docs/配置参考.md:132 says `NoAvailableSources` is returned.
* A limit of `Some(0)` chunks per source makes the first claim fail and
  downloader.rs:617 panic. `LanesAssumption` excludes it.
* In the probing phase a download whose average speed is zero gets no stall rescue,
  and the slow branch can skew-split a chunk that has just started.

## Fairness

* `Transfer`: weak fairness for worker steps, joins, channels and for a tick at
  which every back-off has expired. Tasks of a tokio runtime that are ready are
  polled, timers fire, and back-offs are finite. A stream always does something,
  since the idle timeout ends it; but that a request is answered
  (`ServerAnswers`) is a separate assumption; without it `Terminates` fails.
* `Dispatch`: probes end and the ticker ticks (weak fairness). A worker that keeps
  running ends one day: it has an idle timeout, and the biased `select!` serves its
  event before the ticker, hence strong fairness, as a tick disables the events for
  its duration.
* `TaskQueue`: strong fairness for the branches of the driver's `select!`, which
  tokio starts at a random branch, so one that is ready again and again is
  taken. Downloads end (that is `Terminates`), and the deletions of files and of
  sidecars do not fail for ever.
* `Storage`: weak fairness for the session's own steps; workers either hand over
  or fail.

## Proofs

Every theorem holds for all values of the constants that the ASSUMEs admit; where
more is assumed it is said. 30 of the runs' properties are proved. Each proof has
the same shape: an inductive invariant, checked with TLC on the instance of the
run first; a lemma that the initial states satisfy it; one lemma per action, or
per group of actions that touch the same state; and the theorem, which combines
them.

### Transfer

`TransferProofs` has `TypeCorrect` (`TypeOK`) and `NothingOrphaned`
(`NoByteOrphaned`). `NoByteOrphaned` is not inductive: creating a worker overwrites
`chunk[i]`, which loses a range if `i` was in use. The inductive invariant is `IInv
== TypeOK /\ RangesOK /\ OnePlace /\ FreshIds /\ NoByteOrphaned`. `RangesOK`: offsets
lie in their range or just behind it, events and queues hold ranges inside the file.
`OnePlace`: an id is held by its worker, by one terminal event or by one retry, never
by two. `FreshIds`: ids from `nextId` on are unused.

`ClaimProofs` builds on `IInv`:

* `NothingFetchedTwice`: `ClaimedOnce`. `Claims` is a set of records, awkward to move
  things in; `ClaimInv` says the same per byte: a byte has at most one holder, named by
  its kind and its key, and none once it was sent. A step that hands a range on is shown
  to pass each byte from one holder to another (`Passes`); a tick, which starts many
  workers at once, has a lemma of its own about where every holder comes from.
* `NoGhosts`: `NoGhostEntry`. An entry is created by progress, so `GhostInv` has to
  speak of the messages too: progress that is unread in either channel is of an id that
  is retired, whose entry it cannot create, or that is still expected (its worker lives,
  its end is unread, or it waits for a retry).
* `OkDropsNothingHeld`: `OkDropsOnlyUnread`. One would expect a proof about the sums of
  the ledger; none is needed. `OkInv`: a lane belongs to somebody who still reports
  (`LanesRight`), a monitor that owes nothing and has no task has read every event
  (`NothingMissed`), and ids are left for all ranges on their way
  (`IdsReserved`). So a tick that finds no task has a free lane for everything that is
  buffered: a range cannot stay behind, whatever the counters say.

`LedgerProofs` is about the numbers. Progress of one worker travels on two channels, and
may be read after the failure, the split or even the retry of its id, so an entry can be
removed, moved to `completed` and made again:

* `LedgerConsistent`: `LedgerInv`, which relates for each id its entry, its messages on
  both channels and whoever holds the rest of its range. No report and no entry goes past
  an end that an entry or a message sets, nor past the first byte still to be fetched
  (`InBounds`); the reports on their way are of one run of the worker, the entry of that
  run or an earlier one (`SameStart`); an id that waits for a retry has no event left
  (`Standing`); what a worker believes reported is in the ledger or on its way unless a
  message was lost (`Told`); a worker's end is its last event, and its final progress lies
  between its last split and its completion (`Ordered`).
* `TotalMonotone`: `ProgressNeverRegresses`. The sum over the entries is the cardinality of
  a set of pairs (`Downloaded`), so that no induction over a sum is needed: progress
  never lowers an entry, and what a failure or a completion takes out of the entries goes
  to `completed`. A completion credits the size of the range, which a split may have
  shrunk; that this is not less than the entry counted is what `InBounds` is needed for.
* `StallNeedsLoss`: `StalledOnlyAfterLoss`, from `Booked`: unless messages were lost,
  `completed` pays for every byte handed to the writer but those that the end of some id
  will still credit (`DueTo`). At a dead end there is no task, event, retry or buffered
  range: by `NothingOrphaned` every byte was handed over, nothing is due any more, so
  `completed` has reached the size, and the gate before the dead end returns Ok.
  `completed` may exceed the size (`NeverOvercounts` fails, see above); the proof needs
  only that it is never behind.

### Dispatch, with Lanes and Retry

`DispatchProofs` proves all safety properties of `Dispatch` for any number of
sources, lanes, chunks and attempts and all delays:

* `Budget` (`BudgetKept`) needs only the types of two tables.
* `DispatchTypes` (`TypeOK`), `ChunksPlacedOnce` (`OnePlace`), `BackOffIsKept`
  (`BackOffKept`) and `HealthyLanesFirst` (`HealthyFirst`) come from `DInv`
  (`DispatchInvariant`): the types of the three modules, `Placement` (from the start on
  each chunk is in exactly one place, and in each queue once) and `Patient` (an entry
  waits in either queue at least as long as its back-off still lasts).
* `SlotsStayAccounted` (`SlotsAccounted`) from `SlotInv`: for every set of lanes the slots in
  use are as many as the workers bound to them, and the limits hold. The totals are cardinalities of sets of
  lane-and-slot pairs (`Slots`), so that no induction over a sum is needed.
* `SourcesDoAgree` (`SourcesAgree`) from `ProbeInv`: at every point of the probing the
  candidates of either list answered with the size that was settled on first, and no
  Range source of that size was passed over.

### Concurrency

`ConcurrencyProofs` proves the five properties of the passing run, for any number of chunks and workers
and any intervals, windows and rings:

* `CommandsPaced`: `Paced`. `PaceInv` says that the manager's clock is never ahead of
  the time since the last command, and that a tick has passed when it decides.
* `ObservationSound` and `ObservationUndisturbed`: `ObservationKept` and
  `ObservedInPeace`. `ObsInv` relates the samples since the split to the record while
  it is observed, and to `Required` otherwise.
* `CommandsReachTheirWorker`: `OwnCommands`. `OwnInv` adds that the rings hold
  commands; a worker starts with an empty ring.
* `MovingAreSpared`: `MovingSpared`. `SkewInv` says that the manager's counters are the skewed
  splits that were asked for since the last kill. `TrustInv` says that an entry which the
  running worker made, with no progress of it unread, has been idle no longer than the
  worker has been silent: a tick ages both, progress resets both, and an entry made
  again after a failure is `older` once the retry starts. The proof holds for any
  `Remaining`, hence for any lag of the byte counts.

### TaskQueue

`QueueProofs` proves all safety properties, for any number of tasks, paths, slots
and runs:

* `TasksNotLost` (`NoTaskLost`), `PausedTasksQuiet` (`PausedIsQuiet`) and `RemovalIsFinal`
  (`RemovedIsFinal`) come from `QInv` (`QueueInvariant`): a run has a task exactly when it
  was spawned (`RunsSpawned`); a task waits in the queue once and has no entry then
  (`QueueRight`); an entry is for a run of its task, and an Active task has one or is
  between the two locks of `pump` (`ActiveRight`); a download that was not told to stop is
  the one its entry is for, is about to be entered, or belongs to a task that ended by a
  late result (`RunningRight`).
* `ActiveStaysBounded` (`ActiveBounded`) from `RoomInv`: while `pump` is between its two
  locks there is room for the run it spawned, since nothing else adds entries.
* `PathsStayKept` (`PathsKept`) from `PathInv`: a task with a run was enqueued, one that ended
  has a joined run, and the path of an unfinished task is occupied unless one of the
  early releases happened.

### Storage and Delivery

`StorageProofs`, for one version of a remote file of known size (`SameFile`) and any
kinds of fault but a change on the server: `DeliveredIsWhole` (`OkIsWhole`),
`ResumeIsSound` (`TrustedIsOnDisk`), `GateCoversTail` (`NoTailGap`). The inductive
invariant adds that one session and one writer are active at a time (`OneAtATime`),
that buffers in the channel, in the hands of the writer and being coalesced carry
remote content (`BuffersRight`), that each recorded or saved hash is the hash of
remote content (`HashesRight`), that plan and disk agree (`PlanRight`) and that what
the writer marked as written is on disk (`CoverRight`). `HashesRight` is what makes
resuming sound after damage: a hash may describe bytes that are gone, never wrong
ones, and verification compares.

`SessionProofs` builds on that invariant:

* `SidecarStaysBehind`: `SidecarNotAhead`, if nobody edits the file and, where
  `with_resume(false)` is used, the old sidecar can be removed (`Undamaged`). The second
  condition is needed: `PrepareOff` ignores an error of `remove_file`, and then
  truncates the file that the sidecar describes. `SideInv`: a hash is saved only when the
  recorder has it, the recorder hashes only what was written or verified, and no hash
  is left when a file is about to be truncated.
* `CleanSessionsSucceed`: `CleanSessionSucceeds`, if no file that was there before is
  longer than the download (`NoLonger`; without it the property fails, see above).
  `Flow`, which holds while a running session is clean, accounts for every byte (missing,
  trusted, written, in the buffer, in hand or in the channel) and says that
  `TerminateAll` is behind all buffers and that a writer that left its loop left
  nothing behind.

* `StorageTypes`: `TypeOK` of `Storage`.
* `Implements`: `Spec => Delivers`, the refinement of `Delivery`, under `SameFile`. Initial
  states map to initial states; each action is a step of `Delivery` or leaves its
  variables alone. The argument for `End` with Ok is `DeliveredIsWhole`; for `Gather` it
  is that buffers carry remote content, so a write adds right bytes and destroys none.

### Only model-checked

* Liveness: `Terminates`, `Settles`, `EveryTaskServed`, `WaitAllReturns`, `SessionEnds`.
  Fairness and `ENABLED` are out of the prover's reach.
* `OneOwner`, `LedgerExact`, `RecordedExact`, `GateExact` of `Ranges`: they say what folds
  over lists compute, for which one needs induction over the lists.
* `OkIsWhole` with `Known = FALSE` (`StorageStreaming`), where the remote file may change
  between sessions: the invariant of `StorageProofs` is about one version of it.

## Not modelled

* The probe's requests and header parsing (`util.rs`): sequential I/O without
  state; the answer is a constant of `Storage` and an input of `Lanes`.
* Rate limiter, speed windows, tracing, types: they delay, display or declare.
* Runtime configuration: `apply_config` has no caller during a download.
* `force_drain_delayed`, `coalesce_small_fragments`, `pop_ready_chunk_starved`,
  `check_etag_mismatch`, `set_max_workers`: no caller. The `set_len` branch is never taken.
* A download that panics: it is joined without a task id and keeps its slot.
* Two writers on one path at a time (an aborted run's and its successor's):
  `TaskQueue` shows that they can overlap, `Storage` has one writer.

## Plan

`Overlap`: an aborted run's writer beside the next session of the same path.

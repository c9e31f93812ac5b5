------------------------------ MODULE Transfer ------------------------------
(***************************************************************************)
(* The run-time core of simple_downloader: the chunk workers (chunk.rs),   *)
(* the DownloadMonitor that owns the ledger (monitor.rs, state.rs) and the *)
(* RetryHandler (retry.rs), joined by the two event channels.              *)
(*                                                                         *)
(*   reliable  bounded mpsc: progress, failed, bisected, complete          *)
(*   info      broadcast ring: progress, throttled; messages may be lost   *)
(*                                                                         *)
(* Bytes are the integers 0 .. FileSize - 1.  Time is abstracted: a        *)
(* back-off that expires is a choice made by a tick.  Every handler of the *)
(* monitor is synchronous code, hence one action.                          *)
(***************************************************************************)
EXTENDS Integers, Sequences, FiniteSets

CONSTANTS
    FileSize,        \* total_file_size
    InitRanges,      \* initial ranges, a sequence of [start, end] records
    InitCompleted,   \* completed_bytes of the resume plan
    MinChunk,        \* MIN_CHUNK_SIZE
    Pieces,          \* lengths of the network buffers a stream may yield
    MaxIds,          \* bound on next_chunk_id
    Slots,           \* lane capacity; single source: never a limit (>= MaxIds)
    ReliableCap,     \* RELIABLE_EVENT_CAPACITY
    InfoCap,         \* bound on unread progress (CHANNEL_CAPACITY of the ring)
    MaxRetries,      \* MAX_RETRIES
    MaxTotalAttempts,\* MAX_TOTAL_ATTEMPTS
    StallTicks,      \* consecutive dead-end ticks before fail_stalled
    Faults           \* which of "net", "http", "writer" the run lets happen

Ids   == 0 .. MaxIds - 1
Bytes == 0 .. FileSize - 1
Span(r) == r.start .. r.end

ASSUME ConstantsAssumption ==
    /\ FileSize \in Nat /\ MinChunk \in Nat \ {0}
    /\ Pieces \subseteq Nat \ {0}
    /\ MaxIds \in Nat \ {0} /\ Slots \in Nat \ {0}
    /\ ReliableCap \in Nat \ {0} /\ InfoCap \in Nat \ {0}
    /\ MaxRetries \in Nat /\ MaxTotalAttempts \in Nat /\ StallTicks \in Nat \ {0}
    /\ Faults \subseteq {"net", "http", "writer"}

\* split_resume_ranges and ResumePlan hand over disjoint, non-empty ranges.
ASSUME InitRangesAssumption ==
    /\ InitRanges \in Seq([start : Nat, end : Nat])
    /\ Len(InitRanges) <= MaxIds
    /\ \A k \in 1 .. Len(InitRanges) :
          /\ InitRanges[k].start <= InitRanges[k].end
          /\ InitRanges[k].end < FileSize
    /\ \A j, k \in 1 .. Len(InitRanges) :
          j # k => Span(InitRanges[j]) \cap Span(InitRanges[k]) = {}

Wanted == UNION {Span(InitRanges[k]) : k \in 1 .. Len(InitRanges)}

\* ResumePlan.completed_bytes is what the remaining ranges leave of the file.
ASSUME InitCompletedAssumption ==
    /\ InitCompleted \in Nat
    /\ InitCompleted = Cardinality(Bytes \ Wanted)

VARIABLES
    chunk,      \* worker state per id; pc = "none": no JoinHandle in tasks
    reliable,   \* the mpsc channel of terminal events
    info,       \* what the monitor's broadcast receiver still has to read
    lost,       \* some progress message never reached the monitor
    st,         \* DownloadState.chunks (on = the map holds the key)
    completed,  \* DownloadState.completed_bytes
    retired,    \* retired_ids
    lanes,      \* ids that hold a lane (lane_bindings)
    pending,    \* pending_bisects
    retry,      \* retry_queue
    delayed,    \* delayed_retry_queue
    attempts,   \* retry_attempts
    total,      \* total_attempts
    nextId,     \* next_chunk_id
    stall,      \* stall_ticks
    owed,       \* branch of the biased select! that was ready when the
                \* monitor's last handler returned ("any": none was)
    result,     \* "starting", "running", "ok", or why the monitor failed
    writer,     \* "open" or "closed": the receiving end of writer_tx
    sent        \* bytes handed to the file writer (or verified by resume)

chanVars   == <<reliable, info, lost>>
ledgerVars == <<st, completed, retired>>
retryVars  == <<retry, delayed, attempts, total>>
monVars    == <<ledgerVars, lanes, pending, retryVars, nextId, stall, owed, result>>
vars == <<chunk, chanVars, monVars, writer, sent>>

Causes == {"http", "timeout", "writer", "exhausted", "stalled"}
NoChunk == [pc |-> "none", start |-> 0, end |-> 0, off |-> 0, rep |-> 0,
            cmd |-> "none", cls |-> "none"]
NoEntry == [on |-> FALSE, start |-> 0, end |-> 0, dl |-> 0]
tasks   == {i \in Ids : chunk[i].pc # "none"}
-----------------------------------------------------------------------------
(* Pure parts *)

Smaller(a, b) == IF a < b THEN a ELSE b
Larger(a, b)  == IF a < b THEN b ELSE a
Minus(a, b)   == IF a < b THEN 0 ELSE a - b       \* saturating_sub

\* ChunkState::size, and the same expression in chunk.rs.
Size(s, e) == Minus(e, s) + 1

Remaining(e) == Minus(Size(e.start, e.end), e.dl)

\* Last byte a worker keeps; the rest of off .. end becomes a new range.
split_range(off, end, skewed) ==
    LET rem  == Size(off, end)
        left == IF skewed
                THEN Smaller(Larger(rem \div 8, MinChunk), rem - MinChunk)
                ELSE rem \div 2
    IN  off + left - 1

Splittable(off, end) == Size(off, end) >= 2 * MinChunk

\* classify_error searches the message text for "403", "404" and "416": a
\* decimal number printed in the message matches when it shows these digits.
ShowsHttpCode(n) ==
    \E k \in 0 .. 3 : (n \div 10^k) % 1000 \in {403, 404, 416}

\* "chunk idle timeout (15s no data, {offset}-{end})"
TimeoutClass(off, end) ==
    IF ShowsHttpCode(off) \/ ShowsHttpCode(end) THEN "timeout" ELSE "retry"

\* The sum of the downloaded counters, as the number of (id, n) pairs with
\* 1 <= n <= downloaded.
Downloaded(s) == UNION {{i} \X (1 .. s[i].dl) : i \in Ids}

total_downloaded(s, done) == Smaller(done + Cardinality(Downloaded(s)), FileSize)

is_download_finished(done) == done >= FileSize

\* are_all_tasks_done of monitor.rs and retry.rs.
are_all_tasks_done(s) ==
    /\ pending = <<>> /\ retry = {} /\ delayed = {}
    /\ \A i \in Ids : ~s[i].on
-----------------------------------------------------------------------------
(* Messages *)

Msg(t, i, s, e, d, c) ==
    [t |-> t, id |-> i, start |-> s, end |-> e, dl |-> d, cls |-> c]
Progress(i) ==
    Msg("progress", i, chunk[i].start, chunk[i].end,
        chunk[i].off - chunk[i].start, "none")

\* Mutant of Failed: the range restarts at its start.
FailedFromStart(i) == Msg("failed", i, chunk[i].start, chunk[i].end, 0, chunk[i].cls)

\* Failed.start is the first byte that was not handed to the writer.
Failed(i)   == Msg("failed", i, chunk[i].off, chunk[i].end, 0, chunk[i].cls)
Complete(i) == Msg("complete", i, 0, 0, 0, "none")
Bisected(i, s, e) == Msg("bisected", i, s, e, 0, "none")

\* The tokio broadcast ring.  A message sent before the monitor subscribes is
\* never seen by it, and later traffic (copies of terminal events, which the
\* monitor skips, MonitorUpdates of the monitor itself) may overwrite any
\* message that was not read yet: Lagged.
Broadcast(m) ==
    \/ result = "running" /\ Len(info) < InfoCap
       /\ info' = Append(info, m) /\ UNCHANGED lost
    \/ lost' = TRUE /\ UNCHANGED info

ReliableFree == Len(reliable) < ReliableCap

\* send_progress_best_effort: try_send on the mpsc, then the broadcast.
BestEffort(i) ==
    IF chunk[i].off - chunk[i].start = chunk[i].rep
    THEN UNCHANGED chanVars
    ELSE /\ reliable' = IF ReliableFree THEN Append(reliable, Progress(i)) ELSE reliable
         /\ Broadcast(Progress(i))
-----------------------------------------------------------------------------
(* The chunk worker: chunk_run_with_reliable *)

Working   == result \in {"starting", "running"}
Worker(s, e) == [NoChunk EXCEPT !.pc = "req", !.start = s, !.end = e, !.off = s]
Goto(i, p)   == [chunk EXCEPT ![i].pc = p]
Exit(i)      == [chunk EXCEPT ![i] = [NoChunk EXCEPT !.pc = "exited"]]
Abort(i, c)  == [chunk EXCEPT ![i].pc = "failing", ![i].cls = c]

\* 206 with the requested Content-Range, or 200 for a range that starts at 0.
\* An empty range can be echoed by no Content-Range that parses.
Respond(i) ==
    /\ Working /\ chunk[i].pc = "req"
    /\ chunk[i].start <= chunk[i].end
    /\ chunk' = Goto(i, "run")
    /\ UNCHANGED <<chanVars, monVars, writer, sent>>

\* Classes of the refusals a request may meet; an empty range is always refused.
Refusals(i) ==
    IF chunk[i].start > chunk[i].end THEN {"retry", "http"}
    ELSE {c \in {"retry", "http"} : (IF c = "http" THEN c ELSE "net") \in Faults}

\* Transport error, refused status or wrong Content-Range: nothing received.
RequestFailed(i) ==
    /\ Working /\ chunk[i].pc = "req"
    /\ \E c \in Refusals(i) : chunk' = Abort(i, c)
    /\ UNCHANGED <<chanVars, monVars, writer, sent>>

\* Mutant of Taken: the buffer is not cut at the end of the range.
TakenUncut(c, n) == n
\* How many of n received bytes belong to the range.
Taken(c, n) == Smaller(Size(c.off, c.end), n)

\* A buffer of n bytes arrives: it is cut at end, handed to the writer and
\* reported.  The throttle (64 KiB or 50 ms) may hold back a report.
Data(i, n) ==
    LET c == chunk[i]
        w == Taken(c, n)
        o == c.off + w
        report == Msg("progress", i, c.start, c.end, o - c.start, "none")
    IN
    /\ Working /\ c.pc = "run" /\ c.off <= c.end /\ writer = "open"
    /\ sent' = sent \cup (c.off .. o - 1)
    /\ \E send \in BOOLEAN :
          /\ o >= c.end \/ w < n => send
          /\ IF send THEN Broadcast(report) ELSE UNCHANGED <<info, lost>>
          /\ chunk' = [chunk EXCEPT
                ![i].off = o,
                ![i].rep = IF send THEN o - c.start ELSE @,
                ![i].pc  = IF w < n THEN "finishing" ELSE "run"]
    /\ UNCHANGED <<reliable, monVars, writer>>

\* A buffer arrives after the last byte: break.
Overrun(i) ==
    /\ Working /\ chunk[i].pc = "run" /\ chunk[i].off > chunk[i].end
    /\ chunk' = Goto(i, "finishing")
    /\ UNCHANGED <<chanVars, monVars, writer, sent>>

\* writer_tx.send fails: the receiver is gone.
WriterClosed(i) ==
    /\ Working /\ chunk[i].pc = "run" /\ chunk[i].off <= chunk[i].end
    /\ writer = "closed"
    /\ BestEffort(i)
    /\ chunk' = Abort(i, "writer")
    /\ UNCHANGED <<monVars, writer, sent>>

\* The stream ends: complete when off is past end, otherwise early EOF.
Eof(i) ==
    /\ Working /\ chunk[i].pc = "run"
    /\ IF chunk[i].off > chunk[i].end
       THEN chunk' = Goto(i, "finishing") /\ UNCHANGED chanVars
       ELSE "net" \in Faults /\ chunk' = Abort(i, "retry") /\ BestEffort(i)
    /\ UNCHANGED <<monVars, writer, sent>>

\* The stream yields an error.
StreamError(i) ==
    /\ Working /\ chunk[i].pc = "run" /\ "net" \in Faults
    /\ chunk' = Abort(i, "retry") /\ BestEffort(i)
    /\ UNCHANGED <<monVars, writer, sent>>

\* CHUNK_IDLE_TIMEOUT without a byte.
IdleTimeout(i) ==
    /\ Working /\ chunk[i].pc = "run" /\ "net" \in Faults
    /\ chunk' = Abort(i, TimeoutClass(chunk[i].off, chunk[i].end)) /\ BestEffort(i)
    /\ UNCHANGED <<monVars, writer, sent>>

\* TerminateChunk.
Kill(i) ==
    /\ Working /\ chunk[i].pc = "run" /\ chunk[i].cmd = "kill"
    /\ chunk' = Abort(i, "retry") /\ BestEffort(i)
    /\ UNCHANGED <<monVars, writer, sent>>

NBisected == Cardinality({k \in DOMAIN reliable : reliable[k].t = "bisected"})

\* BisectDownload and BisectDownloadSkewed.  A worker that would need an id
\* beyond the bound MaxIds keeps the command and works on.
Bisect(i) ==
    LET c   == chunk[i]
        mid == split_range(c.off, c.end, c.cmd = "skew")
    IN
    /\ Working /\ c.pc = "run" /\ c.cmd \in {"bisect", "skew"}
    /\ IF Splittable(c.off, c.end)
       THEN /\ ReliableFree
            /\ nextId + NBisected + Len(pending) < MaxIds
            /\ reliable' = Append(reliable, Bisected(i, mid + 1, c.end))
            /\ chunk' = [chunk EXCEPT ![i].end = mid, ![i].cmd = "none"]
       ELSE chunk' = [chunk EXCEPT ![i].cmd = "none"] /\ UNCHANGED reliable
    /\ UNCHANGED <<info, lost, monVars, writer, sent>>

\* send_terminal_event(ChunkFailed), awaited; then the task returns.
FailSend(i) ==
    /\ Working /\ chunk[i].pc = "failing" /\ ReliableFree
    /\ reliable' = Append(reliable, Failed(i))
    /\ chunk' = Exit(i)
    /\ UNCHANGED <<info, lost, monVars, writer, sent>>

\* Mutant of FinalProgress: the last progress is left to the broadcast.
FinalProgressUnsent(i) ==
    /\ Working /\ chunk[i].pc = "finishing"
    /\ chunk' = Goto(i, "completing")
    /\ UNCHANGED <<chanVars, monVars, writer, sent>>

\* The final progress and DownloadComplete are two awaited sends on the mpsc.
FinalProgress(i) ==
    /\ Working /\ chunk[i].pc = "finishing" /\ ReliableFree
    /\ reliable' = Append(reliable, Progress(i))
    /\ chunk' = Goto(i, "completing")
    /\ UNCHANGED <<info, lost, monVars, writer, sent>>

SendComplete(i) ==
    /\ Working /\ chunk[i].pc = "completing" /\ ReliableFree
    /\ reliable' = Append(reliable, Complete(i))
    /\ chunk' = Exit(i)
    /\ UNCHANGED <<info, lost, monVars, writer, sent>>

\* TerminateAll, or the reliable channel found closed: no terminal event.
Terminate(i) ==
    /\ ~Working /\ chunk[i].pc \notin {"none", "exited"}
    /\ chunk' = Exit(i)
    /\ UNCHANGED <<chanVars, monVars, writer, sent>>

\* The file writer stops after an I/O error and drops its receiver.
WriterDies ==
    /\ Working /\ "writer" \in Faults /\ writer = "open"
    /\ writer' = "closed"
    /\ UNCHANGED <<chunk, chanVars, monVars, sent>>
-----------------------------------------------------------------------------
(* The monitor: run_with_reliable, handle_download_info, handle_tick *)

\* The select! is biased (reliable, joined tasks, broadcast, ticker) but its
\* branches are polled one after another while the workers run on: only what
\* was ready before the poll began is certain to be served first.
Ready ==
    IF reliable' # <<>> THEN "reliable"
    ELSE IF \E i \in Ids : chunk'[i].pc = "exited" THEN "join"
    ELSE IF info' # <<>> THEN "info"
    ELSE "any"

\* Mutant of Updated: the last report wins, whatever its order.
UpdatedLast(e, m) ==
    [on |-> TRUE, start |-> IF e.on THEN e.start ELSE m.start, end |-> m.end, dl |-> m.dl]
\* update_chunk: the entry after a progress message.
Updated(e, m) ==
    [on |-> TRUE, start |-> IF e.on THEN e.start ELSE m.start, end |-> m.end,
     dl |-> Larger(e.dl, m.dl)]

\* Mutant of OnProgress: ids that completed are not remembered.
OnProgressNoTombstone(m) ==
    /\ st' = [st EXCEPT ![m.id] = Updated(@, m)]
    /\ UNCHANGED <<chunk, completed, retired, lanes, pending, retryVars, nextId, result>>
OnProgress(m) ==
    /\ st' = IF m.id \in retired THEN st ELSE [st EXCEPT ![m.id] = Updated(@, m)]
    /\ UNCHANGED <<chunk, completed, retired, lanes, pending, retryVars, nextId, result>>

\* complete_chunk, the tombstone, the lane and on_download_complete.
OnComplete(m) ==
    LET e == st[m.id] IN
    /\ completed' = IF e.on THEN completed + Size(e.start, e.end) ELSE completed
    /\ st' = [st EXCEPT ![m.id] = NoEntry]
    /\ retired' = retired \cup {m.id}
    /\ lanes' = lanes \ {m.id}
    /\ attempts' = [attempts EXCEPT ![m.id] = 0]
    /\ total' = [total EXCEPT ![m.id] = 0]
    /\ UNCHANGED <<chunk, pending, retry, delayed, nextId, result>>

\* preserve_partial_exact with an entry, preserve_partial (nothing) without.
Preserved(e, start) ==
    IF e.on THEN Larger(e.dl, Smaller(Minus(start, e.start), Size(e.start, e.end)))
    ELSE 0

\* Mutant of Counted: the budget of a chunk is never spent.
CountedNever(i) == total
Counted(i) == [total EXCEPT ![i] = @ + 1]

\* The queueing half of on_chunk_failed.
Requeue(m) ==
    LET i == m.id
        r == [id |-> i, start |-> m.start, end |-> m.end]
        give_up(why) == /\ result' = why
                        /\ attempts' = [attempts EXCEPT ![i] = 0]
                        /\ UNCHANGED <<retry, delayed>>
    IN
    IF m.cls # "retry"
    THEN give_up(m.cls) /\ UNCHANGED total
    ELSE /\ total' = Counted(i)
         /\ IF total'[i] > MaxTotalAttempts
            THEN give_up("exhausted")
            ELSE IF attempts[i] + 1 <= MaxRetries
            THEN /\ retry' = retry \cup {r}
                 /\ attempts' = [attempts EXCEPT ![i] = @ + 1]
                 /\ UNCHANGED <<delayed, result>>
            ELSE /\ delayed' = delayed \cup {r}
                 /\ attempts' = [attempts EXCEPT ![i] = 0]
                 /\ UNCHANGED <<retry, result>>

\* release_lane.
Freed(i) == lanes \ {i}

OnFailed(m) ==
    /\ completed' = completed + Preserved(st[m.id], m.start)
    /\ st' = [st EXCEPT ![m.id] = NoEntry]
    /\ lanes' = Freed(m.id)
    /\ Requeue(m)
    /\ UNCHANGED <<chunk, retired, pending, nextId>>

\* Lane slots that claim_request_builder can still hand out.
Room == Minus(Slots, Cardinality(lanes))

\* Mutant of Buffered: a range that finds no lane is dropped.
BufferedNever(m) == pending
Buffered(m) == Append(pending, [start |-> m.start, end |-> m.end])

\* Shrink the original's entry; give the new range to a worker, or buffer it
\* when no lane has room.
OnBisected(m) ==
    LET e == st[m.id]
        shrunk == [e EXCEPT !.end = m.start - 1,
                            !.dl  = Smaller(e.dl, Size(e.start, m.start - 1))]
    IN
    /\ st' = [st EXCEPT ![m.id] = IF e.on THEN shrunk ELSE e]
    /\ IF Room > 0
       THEN /\ nextId \in Ids
            /\ chunk' = [chunk EXCEPT ![nextId] = Worker(m.start, m.end)]
            /\ lanes' = lanes \cup {nextId}
            /\ nextId' = nextId + 1
            /\ UNCHANGED pending
       ELSE /\ pending' = Buffered(m)
            /\ UNCHANGED <<chunk, lanes, nextId>>
    /\ UNCHANGED <<completed, retired, retryVars, result>>

\* The monitor subscribes to the broadcast after the first workers started.
Subscribe ==
    /\ result = "starting"
    /\ result' = "running"
    /\ UNCHANGED <<chunk, chanVars, ledgerVars, lanes, pending, retryVars,
                   nextId, stall, owed, writer, sent>>

MonReliable ==
    /\ result = "running" /\ reliable # <<>>
    /\ reliable' = Tail(reliable)
    /\ LET m == Head(reliable) IN
          \/ m.t = "progress" /\ OnProgress(m)
          \/ m.t = "complete" /\ OnComplete(m)
          \/ m.t = "failed"   /\ OnFailed(m)
          \/ m.t = "bisected" /\ OnBisected(m)
    /\ UNCHANGED <<info, lost, stall, writer, sent>>
    /\ owed' = Ready

\* tasks.next() yields a joined worker; the fast path may end the download.
MonJoin(i) ==
    /\ result = "running" /\ owed # "reliable"
    /\ chunk[i].pc = "exited"
    /\ chunk' = [chunk EXCEPT ![i] = NoChunk]
    /\ result' = IF /\ tasks = {i}
                    /\ are_all_tasks_done(st) /\ is_download_finished(completed)
                 THEN "ok" ELSE "running"
    /\ UNCHANGED <<chanVars, ledgerVars, lanes, pending, retryVars, nextId, stall,
                   writer, sent>>
    /\ owed' = Ready

MonInfo ==
    /\ result = "running" /\ owed \in {"info", "any"}
    /\ info # <<>>
    /\ info' = Tail(info)
    /\ OnProgress(Head(info))
    /\ UNCHANGED <<reliable, lost, stall, writer, sent>>
    /\ owed' = Ready

\* What decide_and_act may send: a split of an entry that looks splittable, a
\* skewed split or a TerminateChunk for one that has bytes left.  Thresholds
\* on speed and idle time are left open.  At most one command is outstanding
\* per worker (bound); one sent to an id nobody serves has no effect.
CommandFor(i, c) ==
    /\ st[i].on /\ chunk[i].pc \in {"req", "run"} /\ chunk[i].cmd = "none"
    /\ Remaining(st[i]) >= (IF c = "bisect" THEN 2 * MinChunk ELSE 1)
Commands ==
    {p \in Ids \X {"bisect", "skew", "kill"} : CommandFor(p[1], p[2])}
NoCommand == <<MaxIds, "none">>

\* drain_pending: how many buffered ranges get a worker (MaxIds - nextId never
\* limits: Bisect keeps ids in reserve).
Drained == Smaller(Smaller(Len(pending), Room), MaxIds - nextId)

\* The three ways a tick can end the download, tested on the state it leaves.
\* Mutant of Quiet: ranges that wait for a retry are overlooked.
QuietTasks == tasks' = {}
Quiet == tasks' = {} /\ retry' = {} /\ delayed' = {}
ShortCircuit == Quiet /\ total_downloaded(st, completed) >= FileSize
TripleGate   == tasks' = {} /\ are_all_tasks_done(st)' /\ is_download_finished(completed)
DeadEnd      == Quiet /\ pending' = <<>> /\ \A i \in Ids : ~st[i].on

\* handle_tick: command, drain_pending, process_queues (due), the retries
\* whose back-off has expired and that find a lane (go), then the endings.
Tick(due, go, command) ==
    LET fresh == nextId .. nextId + Drained - 1
        again == {r.id : r \in go}
        room  == Minus(Room, Drained)
    IN
    /\ result = "running" /\ owed = "any"
    /\ due \subseteq delayed /\ go \subseteq retry \cup due
    /\ Cardinality(go) <= room /\ (due \subseteq go \/ Cardinality(go) = room)
    /\ chunk' = [i \in Ids |->
          IF i \in fresh
          THEN LET r == pending[i - nextId + 1] IN Worker(r.start, r.end)
          ELSE IF i \in again
          THEN LET r == CHOOSE x \in go : x.id = i IN Worker(r.start, r.end)
          ELSE IF i = command[1] THEN [chunk[i] EXCEPT !.cmd = command[2]]
          ELSE chunk[i]]
    /\ pending' = SubSeq(pending, Drained + 1, Len(pending))
    /\ nextId' = nextId + Drained
    /\ lanes' = lanes \cup fresh \cup again
    /\ delayed' = delayed \ due
    /\ retry' = (retry \cup due) \ go
    /\ UNCHANGED <<chanVars, ledgerVars, attempts, total, writer, sent>>
    /\ stall' = IF ShortCircuit THEN stall
                ELSE IF DeadEnd THEN Smaller(stall + 1, StallTicks) ELSE 0
    /\ result' = IF ShortCircuit \/ TripleGate THEN "ok"
                 ELSE IF DeadEnd /\ stall' = StallTicks THEN "stalled"
                 ELSE "running"
    /\ owed' = Ready
-----------------------------------------------------------------------------
(* Specification *)

\* orchestrate_downloads: one worker per initial range while lanes have room,
\* the other ranges are buffered; resumed bytes are in the ledger already.
Init ==
    LET k == Smaller(Len(InitRanges), Slots) IN
    /\ chunk = [i \in Ids |-> IF i < k THEN Worker(InitRanges[i + 1].start, InitRanges[i + 1].end)
                              ELSE NoChunk]
    /\ reliable = <<>> /\ info = <<>> /\ lost = FALSE
    /\ st = [i \in Ids |-> NoEntry]
    /\ completed = InitCompleted
    /\ retired = {} /\ lanes = 0 .. k - 1
    /\ pending = SubSeq(InitRanges, k + 1, Len(InitRanges))
    /\ retry = {} /\ delayed = {}
    /\ attempts = [i \in Ids |-> 0] /\ total = [i \in Ids |-> 0]
    /\ nextId = k /\ stall = 0 /\ owed = "any" /\ result = "starting"
    /\ writer = "open" /\ sent = Bytes \ Wanted

WorkerStep(i) ==
    \/ Respond(i) \/ RequestFailed(i)
    \/ \E n \in Pieces : Data(i, n)
    \/ Overrun(i) \/ WriterClosed(i) \/ Eof(i) \/ StreamError(i) \/ IdleTimeout(i)
    \/ Kill(i) \/ Bisect(i)
    \/ FailSend(i) \/ FinalProgress(i) \/ SendComplete(i) \/ Terminate(i)

SomeTick ==
    \E due \in SUBSET delayed : \E go \in SUBSET (retry \cup due) :
       \E command \in Commands \cup {NoCommand} : Tick(due, go, command)

\* The monitor has returned and every worker has gone.
Finished ==
    /\ ~Working /\ \A i \in Ids : chunk[i].pc \in {"none", "exited"}
    /\ UNCHANGED vars

Next ==
    \/ \E i \in Ids : WorkerStep(i) \/ MonJoin(i)
    \/ WriterDies
    \/ Subscribe \/ MonReliable \/ MonInfo \/ SomeTick
    \/ Finished

Spec == Init /\ [][Next]_vars
-----------------------------------------------------------------------------
(* Fairness: what the scheduler, the timers and the network guarantee *)

Stream(i) ==
    \/ \E n \in Pieces : Data(i, n)
    \/ Overrun(i) \/ WriterClosed(i) \/ Eof(i) \/ StreamError(i) \/ IdleTimeout(i)
Send(i) == FailSend(i) \/ FinalProgress(i) \/ SendComplete(i) \/ Terminate(i)

\* A tick at which every back-off has expired.
DueTick ==
    \E go \in SUBSET (retry \cup delayed) : 
        /\ go = retry \cup delayed \/ Cardinality(go) = Minus(Room, Drained)
        /\ Tick(delayed, go, NoCommand)

LocalFairness ==
    /\ \A i \in Ids : WF_vars(Stream(i)) /\ WF_vars(Send(i)) /\ WF_vars(MonJoin(i))
    /\ WF_vars(Subscribe) /\ WF_vars(MonReliable) /\ WF_vars(MonInfo)
    /\ WF_vars(DueTick)

ServerAnswers == \A i \in Ids : WF_vars(Respond(i) \/ RequestFailed(i))

LocalFairSpec == Spec /\ LocalFairness
FairSpec == LocalFairSpec /\ ServerAnswers
-----------------------------------------------------------------------------
(* Properties *)

PcType  == {"none", "req", "run", "failing", "finishing", "completing", "exited"}
ClsType == {"none", "retry", "http", "timeout", "writer"}
RangeType == [id : Ids, start : Nat, end : Nat]
ChunkType == [pc : PcType, start : Nat, end : Nat, off : Nat, rep : Nat,
              cmd : {"none", "bisect", "skew", "kill"}, cls : ClsType]
MsgType   == [t : {"progress", "failed", "bisected", "complete"}, id : Ids,
              start : Nat, end : Nat, dl : Nat, cls : ClsType]

\* Types; the queues stay within their capacity and no worker writes outside
\* the file.
TypeOK ==
    /\ chunk \in [Ids -> ChunkType]
    /\ reliable \in Seq(MsgType) /\ Len(reliable) <= ReliableCap
    /\ info \in Seq(MsgType) /\ Len(info) <= InfoCap
    /\ lost \in BOOLEAN
    /\ st \in [Ids -> [on : BOOLEAN, start : Nat, end : Nat, dl : Nat]]
    /\ completed \in Nat /\ retired \subseteq Ids /\ lanes \subseteq Ids
    /\ pending \in Seq([start : Nat, end : Nat])
    /\ retry \subseteq RangeType /\ delayed \subseteq RangeType
    /\ attempts \in [Ids -> Nat] /\ total \in [Ids -> Nat]
    /\ nextId \in 0 .. MaxIds /\ stall \in 0 .. StallTicks
    /\ owed \in {"reliable", "join", "info", "any"}
    /\ result \in {"starting", "running", "ok"} \cup Causes
    /\ writer \in {"open", "closed"} /\ sent \subseteq Bytes

Live(i) == chunk[i].pc \in {"req", "run", "failing", "finishing", "completing"}
Hands(m) == m.t \in {"failed", "bisected"}   \* events that pass on a range

\* Somebody is responsible for fetching byte b.
Held(b) ==
    \/ \E i \in Ids : Live(i) /\ b \in chunk[i].off .. chunk[i].end
    \/ \E k \in 1 .. Len(reliable) : Hands(reliable[k]) /\ b \in Span(reliable[k])
    \/ \E r \in retry \cup delayed : b \in Span(r)
    \/ \E k \in 1 .. Len(pending) : b \in Span(pending[k])

\* While the download runs, every byte not handed to the writer belongs to a
\* worker, an undelivered event, a retry or the pending buffer: no split,
\* failure, retry or full lane loses a range.
NoByteOrphaned == Working => \A b \in Bytes \ sent : Held(b)

Claims ==
    LET claim(by, n, s, e) == [by |-> by, n |-> n, start |-> s, end |-> e] IN
    {claim("worker", i, chunk[i].off, chunk[i].end) : i \in {j \in Ids : Live(j)}}
    \cup {claim("event", k, reliable[k].start, reliable[k].end) :
             k \in {j \in DOMAIN reliable : Hands(reliable[j])}}
    \cup {claim("retry", r.id, r.start, r.end) : r \in retry \cup delayed}
    \cup {claim("pending", k, pending[k].start, pending[k].end) : k \in DOMAIN pending}

\* No byte is fetched twice: the ranges held are disjoint and hold no byte that
\* was already handed to the writer.
ClaimedOnce ==
    Working => \A c \in Claims :
        /\ Span(c) \cap sent = {}
        /\ \A d \in Claims : c # d => Span(c) \cap Span(d) = {}

\* The end of worker i is on its way to the monitor.
EndReported(i) ==
    \E k \in DOMAIN reliable : reliable[k].id = i /\ reliable[k].t \in {"failed", "complete"}

\* An entry of the ledger belongs to a worker that still has to report, to an
\* event on its way or to a retry: late progress leaves no ghost entry that
\* would keep are_all_tasks_done false for ever.
NoGhostEntry ==
    Working => \A i \in Ids : st[i].on =>
        Live(i) \/ EndReported(i) \/ \E r \in retry \cup delayed : r.id = i

\* When the monitor ends with Ok, a byte that is missing from the file is named
\* by an event that was sent but not read: the short circuit and the gates never
\* drop a retry, a buffered range or a worker.
OkDropsOnlyUnread ==
    result = "ok" => \A b \in Bytes \ sent : \E k \in DOMAIN reliable :
        Hands(reliable[k]) /\ b \in Span(reliable[k])

\* The dead-end escape (fail_stalled) is taken only after a progress message
\* was lost: with all messages delivered the ledger is never short.
StalledOnlyAfterLoss == result = "stalled" => lost

\* The downloaded total shown to the user never goes back.
ProgressNeverRegresses ==
    [][total_downloaded(st, completed)' >= total_downloaded(st, completed)]_vars

\* The download ends, whatever the network does, if requests are answered.
Terminates == <>(~Working)
-----------------------------------------------------------------------------
(* What the repository says of the code and the code does not keep *)

\* The monitor ends with Ok only when every byte went to the writer.
OkIsComplete == result = "ok" => sent = Bytes

\* The ledger never shows more than the bytes received.
NeverOvercounts == Working => total_downloaded(st, completed) <= Cardinality(sent)

\* Once every byte has reached the writer, no request for an empty rest fails
\* the download.
CompleteNeverRefused == sent = Bytes => result \notin {"http", "exhausted"}

\* A lost progress message does not make a complete file end as stalled.
CompleteNeverStalls == sent = Bytes => result # "stalled"

\* An idle timeout is retried, never fatal by itself.
TimeoutIsRetried == result # "timeout"
=============================================================================

------------------------------ MODULE Dispatch ------------------------------
(***************************************************************************)
(* How the monitor of a multi-source download gives chunks to lanes:       *)
(* orchestrate_downloads starts the initial ranges, handle_download_info   *)
(* reports successes, failures and splits to the scheduler and the retry   *)
(* handler, and handle_tick drains the buffered ranges and the retries     *)
(* (monitor.rs, downloader.rs).  It composes Lanes and Retry; bytes and    *)
(* channels are in Transfer.                                               *)
(*                                                                         *)
(* handle_tick does not await, so its loops run one claim at a time here   *)
(* and no event is handled in between.                                     *)
(***************************************************************************)
EXTENDS Lanes, Retry

CONSTANTS
    InitChunks,  \* the ranges of split_resume_ranges, a sequence
    TickMs,      \* update_interval
    Errors       \* kinds of failure: "net", "fatal" (writer gone, HTTP 4xx)

ASSUME DispatchAssumption ==
    /\ InitChunks \in Seq(Chunks) /\ IsInjective(InitChunks) /\ IsFiniteSet(Chunks)
    /\ TickMs \in Nat \ {0} /\ Errors \subseteq {"net", "fatal"}

VARIABLES
    unborn,    \* ranges that no split has made yet
    pending,   \* pending_bisects
    binding,   \* lane_bindings; NoLane: the chunk has no worker
    done,      \* retired_ids
    step,      \* of handle_tick: "idle", "drain", "retry"
    deferred,  \* deferred_retries
    due        \* history: time until the chunk's back-off is over

monitorVars == <<unborn, pending, binding, done, step, deferred, due>>
vars == <<phase, probeVars, laneVars, retryVars, monitorVars>>

Running(c) == phase = "running" /\ binding[c] # NoLane
-----------------------------------------------------------------------------
(* Start and tick *)

\* run_internal and orchestrate_downloads: ranges that find no lane stay
\* buffered.
Start ==
    /\ phase = "ready" /\ BestLane # NoLane
    /\ phase' = "running"
    /\ Forget
    /\ pending' = InitChunks /\ step' = "drain"
    /\ UNCHANGED <<laneVars, retryVars, unborn, binding, done, deferred, due>>

Tick ==
    /\ phase = "running" /\ step = "idle"
    /\ step' = "drain"
    /\ RetryWaits(TickMs)
    /\ cool' = [l \in LaneIds |-> Left(cool[l], TickMs)]
    /\ due' = [c \in Chunks |-> Left(due[c], TickMs)]
    /\ UNCHANGED <<phase, probeVars, order, active, failures, black,
                   unborn, pending, binding, done, deferred>>

\* A worker is spawned on the lane that was claimed.
Spawn(c) ==
    /\ Claim
    /\ binding' = [binding EXCEPT ![c] = BestLane]

\* drain_pending, one range.
Drain ==
    /\ phase = "running" /\ step = "drain" /\ pending # <<>>
    /\ Spawn(Head(pending))
    /\ pending' = Tail(pending)
    /\ UNCHANGED <<phase, probeVars, retryVars, unborn, done, step, deferred, due>>

\* drain_pending is through; process_queues.
DrainEnds ==
    /\ phase = "running" /\ step = "drain"
    /\ \/ pending = <<>> /\ UNCHANGED laneVars
       \/ pending # <<>> /\ Refused
    /\ ProcessQueues
    /\ step' = "retry"
    /\ UNCHANGED <<phase, probeVars, unborn, pending, binding, done, deferred, due>>

\* A ready chunk is started again under its id.
RetryStarts ==
    /\ phase = "running" /\ step = "retry"
    /\ PopReady
    /\ Spawn(NextReady)
    /\ UNCHANGED <<phase, probeVars, unborn, pending, done, step, deferred, due>>

\* Mutant of Deferred: the chunk is forgotten.
DeferredNever(c) == deferred
Deferred(c) == Append(deferred, c)

\* A ready chunk finds no lane.
RetryDeferred ==
    /\ phase = "running" /\ step = "retry"
    /\ PopReady /\ Refused
    /\ deferred' = Deferred(NextReady)
    /\ UNCHANGED <<phase, probeVars, unborn, pending, binding, done, step, due>>

\* Nothing has a worker or waits for one.
AllDone ==
    /\ \A c \in Chunks : binding[c] = NoLane
    /\ pending = <<>> /\ queue = <<>> /\ delayed = <<>> /\ deferred = <<>>

\* The end of handle_tick.
TickEnds ==
    /\ phase = "running" /\ step = "retry" /\ Ready = {}
    /\ PushBack(deferred)
    /\ deferred' = <<>> /\ step' = "idle"
    /\ phase' = IF AllDone THEN "finished" ELSE phase
    /\ UNCHANGED <<probeVars, laneVars, unborn, pending, binding, done, due>>
-----------------------------------------------------------------------------
(* handle_download_info *)

Unbound(c) == binding' = [binding EXCEPT ![c] = NoLane]

\* DownloadComplete.
Complete(c) ==
    /\ Running(c) /\ step = "idle"
    /\ Success(binding[c]) /\ Unbound(c)
    /\ Succeeded(c)
    /\ done' = done \cup {c}
    /\ UNCHANGED <<phase, probeVars, unborn, pending, step, deferred, due>>

\* ChunkFailed.
Fails(c) ==
    /\ Running(c) /\ step = "idle"
    /\ Failure(binding[c]) /\ Unbound(c)
    /\ UNCHANGED <<probeVars, unborn, pending, done, step, deferred>>

\* The first permanent failure ends the loop with Err.
FailsForGood(c) ==
    /\ Fails(c)
    /\ \/ "fatal" \in Errors /\ FailedForGood(c)
       \/ FailedTooOften(c)
    /\ phase' = "failed"
    /\ UNCHANGED due

\* The least that a chunk rests after its a-th failure in a row.
Rest(a) == IF a > MaxRetries THEN DelayedWait ELSE Base(a)

FailsAgain(c) ==
    /\ Fails(c)
    /\ FailedAgain(c)
    /\ due' = [due EXCEPT ![c] = Rest(attempts[c] + 1)]
    /\ UNCHANGED phase

Buffered(c) == Append(pending, c)

\* ChunkBisected: the new range gets a lane or is buffered.
Split(c, n) ==
    /\ Running(c) /\ step = "idle" /\ n \in unborn
    /\ unborn' = unborn \ {n}
    /\ \/ Spawn(n) /\ UNCHANGED pending
       \/ Refused /\ pending' = Buffered(n) /\ UNCHANGED binding
    /\ UNCHANGED <<phase, probeVars, retryVars, done, step, deferred, due>>
-----------------------------------------------------------------------------
(* Specification *)

Init ==
    /\ ProbeInit /\ RetryInit
    /\ unborn = Chunks \ ToSet(InitChunks)
    /\ pending = <<>> /\ done = {} /\ step = "idle" /\ deferred = <<>>
    /\ binding = [c \in Chunks |-> NoLane] /\ due = [c \in Chunks |-> 0]

Probing == Probe /\ UNCHANGED <<retryVars, monitorVars>>

Monitor == Start \/ Tick \/ Drain \/ DrainEnds \/ RetryStarts \/ RetryDeferred \/ TickEnds
Ends(c) == Complete(c) \/ FailsForGood(c) \/ FailsAgain(c)

\* The download is over, or goes on as a single stream (module Storage).
Over == phase \in {"finished", "failed", "streaming"} /\ UNCHANGED vars

Next ==
    \/ Probing \/ Monitor \/ Over
    \/ \E c \in Chunks : Ends(c)
    \/ \E c, n \in Chunks : Split(c, n)

Spec == Init /\ [][Next]_vars

\* Probes end, the ticker ticks, and workers end: they have an idle timeout, and
\* the select! looks at their events before it looks at the ticker.
FairSpec ==
    /\ Spec
    /\ WF_vars(Probing) /\ WF_vars(Monitor)
    /\ \A c \in Chunks : SF_vars(Ends(c))
-----------------------------------------------------------------------------
(* Properties *)

TypeOK ==
    /\ phase \in {"probing", "ready", "running", "streaming", "finished", "failed"}
    /\ order \in Seq(LaneIds)
    /\ active \in [LaneIds -> Nat] /\ failures \in [LaneIds -> Nat]
    /\ black \in [LaneIds -> BOOLEAN] /\ cool \in [LaneIds -> Nat]
    /\ queue \in Seq(Entry) /\ delayed \in Seq(Entry)
    /\ attempts \in [Chunks -> Nat] /\ total \in [Chunks -> Nat]
    /\ permanent \subseteq Chunks /\ quiet \in Nat
    /\ unborn \subseteq Chunks /\ pending \in Seq(Chunks) /\ done \subseteq Chunks
    /\ binding \in [Chunks -> LaneIds \cup {NoLane}]
    /\ step \in {"idle", "drain", "retry"} /\ deferred \in Seq(Chunks)
    /\ due \in [Chunks -> Nat]

\* Whatever the order in which the probes end, the lanes that are used agree on
\* the file size and on Range support; no source with Range support is given up
\* for one without, and none of the settled size is left out.
SourcesAgree ==
    phase = "ready" =>
        /\ \A r \in used : answers[r] = [size |-> size, ranges |-> ranges]
        /\ \A r \in Runtimes : answers[r].ranges =>
              ranges /\ (answers[r].size = size => r \in used)

\* The counters of the scheduler are the workers it feeds: across completions,
\* failures, retries under the same id and refused claims no slot leaks and none
\* is given back twice, and no lane, no source and not the whole download has
\* more workers than allowed.
Fed(S) == Cardinality({c \in Chunks : binding[c] \in S})
SlotsAccounted ==
    /\ \A l \in LaneIds : active[l] = Fed({l}) /\ Fed({l}) <= LaneMax
    /\ Fed(LaneIds) <= MaxWorkers
    /\ perSource => \A l \in InUse : Fed({m \in LaneIds : m[1] = l[1]}) <= SourceMax

\* A chunk is in exactly one place: about to be split off, buffered, with a
\* worker, in one of the retry queues, or done; or it failed for good.  No queue
\* holds it twice.
Places(c) ==
    <<c \in unborn, c \in ToSet(pending), binding[c] # NoLane, c \in Ids(queue),
      c \in Ids(delayed), c \in ToSet(deferred), c \in done, c \in permanent>>
Twice(q) == \E j, k \in DOMAIN q : j # k /\ q[j].id = q[k].id
OnePlace ==
    phase \in {"running", "finished", "failed"} =>
        /\ \A c \in Chunks : Cardinality({k \in 1 .. 8 : Places(c)[k]}) = 1
        /\ ~Twice(queue) /\ ~Twice(delayed)
        /\ IsInjective(pending) /\ IsInjective(deferred)

\* The budget of a chunk spans all its cycles through the delayed queue: when
\* it is spent the download fails and the chunk is not tried again.
BudgetKept ==
    \A c \in Chunks : total[c] > MaxTotalAttempts =>
        phase = "failed" /\ c \in permanent /\ binding[c] = NoLane

\* No chunk is tried again before its back-off is over, also when it was moved
\* between the queues or deferred for want of a lane.
BackOffKept ==
    [][\A c \in Chunks : c \in Ids(queue) /\ binding'[c] # NoLane => due[c] = 0]_vars

\* A chunk goes to a lane whose blacklisting is not over only when no other lane
\* has room, and none is put off while a lane has room.
Banned(l) == black[l] /\ cool[l] > 0
HealthyFirst ==
    [][/\ \A c \in Chunks : binding[c] = NoLane /\ binding'[c] # NoLane /\ Banned(binding'[c]) =>
             \A l \in InUse : HasCapacity(l) => Banned(l)
       /\ deferred' # deferred /\ deferred' # <<>> => \A l \in InUse : ~HasCapacity(l)]_vars

\* Every download ends: no chunk waits for ever for a lane or a retry, with
\* lanes blacklisted and restored on the way.
Settles == phase = "running" ~> phase \in {"finished", "failed"}
=============================================================================

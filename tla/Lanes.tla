------------------------------- MODULE Lanes -------------------------------
(***************************************************************************)
(* The lanes of a multi-source download (lane.rs): the concurrent probing  *)
(* of the sources by MultiRuntime::from_config, and the LaneScheduler that *)
(* hands out lanes, counts the chunks of each and blacklists the ones that *)
(* keep failing.  Module Dispatch composes it with the monitor.            *)
(*                                                                         *)
(* Times are milliseconds that are left.  Which of a lane's clients serves *)
(* a request (next_runtime, in turn) is not told apart.                    *)
(***************************************************************************)
EXTENDS Integers, Sequences, FiniteSetsExt

CONSTANTS
    Runtimes,      \* of expand_lanes: records [source, proxy]
    NoProxy,       \* proxy of a source that has none
    Models,        \* lane models to choose from: TRUE is PerSource
    MaxWorkers,    \* max_workers
    LaneMax,       \* max_chunks_per_lane
    SourceMax,     \* max_chunks_per_source; MaxWorkers stands for None
    Threshold,     \* BLACKLIST_THRESHOLD
    Blacklist,     \* BLACKLIST_DURATION
    Sizes, Speeds  \* file sizes and speeds a probe may find

NoSize == -1
NoLane == <<>>
NoAnswer == [size |-> NoSize, ranges |-> FALSE]

\* expand_lanes and normalize_candidates: the lane_id of a runtime.
LaneOf(r, perSource) ==
    IF perSource \/ r.proxy = NoProxy THEN <<r.source>> ELSE <<r.source, r.proxy>>

LaneIds == {LaneOf(r, m) : r \in Runtimes, m \in Models}

ASSUME LanesAssumption ==
    /\ IsFiniteSet(Runtimes) /\ Models \subseteq BOOLEAN
    /\ NoLane \notin LaneIds
    /\ MaxWorkers \in Nat \ {0} /\ LaneMax \in Nat \ {0} /\ SourceMax \in Nat \ {0}
    /\ Threshold \in Nat \ {0} /\ Blacklist \in Nat
    /\ Sizes \subseteq Nat /\ Speeds \subseteq Nat

VARIABLES
    phase,        \* "probing", "ready", "running", "streaming", "finished", "failed"
    perSource,    \* lane_model = PerSource
    waiting,      \* probe_futs
    answers,      \* what the probes found
    rangeSize, plainSize,  \* range_file_size, fallback_file_size
    rangeC, plainC,        \* range_candidates, fallback_candidates: [rt, speed]
    size, ranges, \* the file_size and supports_ranges that were settled on
    used,         \* the runtimes that were kept
    order,        \* the scheduler's lanes, fastest first
    active,       \* active_chunks per lane
    failures,     \* consecutive_failures
    black,        \* health = Blacklisted
    cool          \* what is left of the blacklisting

probeVars == <<perSource, waiting, answers, rangeSize, plainSize, rangeC, plainC,
               size, ranges, used>>
laneVars  == <<order, active, failures, black, cool>>
-----------------------------------------------------------------------------
(* Probing: the futures complete in any order *)

ProbeInit ==
    /\ phase = "probing" /\ perSource \in Models
    \* a proxy that does not parse or whose client cannot be built is skipped
    /\ waiting \in {S \in SUBSET Runtimes : \A r \in Runtimes \ S : r.proxy # NoProxy}
    /\ answers = [r \in Runtimes |-> NoAnswer]
    /\ rangeSize = NoSize /\ plainSize = NoSize /\ rangeC = <<>> /\ plainC = <<>>
    /\ size = NoSize /\ ranges = FALSE /\ used = {}
    /\ order = <<>>
    /\ active = [l \in LaneIds |-> 0] /\ failures = [l \in LaneIds |-> 0]
    /\ black = [l \in LaneIds |-> FALSE] /\ cool = [l \in LaneIds |-> 0]

\* The probe of r ends and, when it succeeded, found n and rg.
Answered(r, n, rg) ==
    /\ phase = "probing" /\ r \in waiting
    /\ waiting' = waiting \ {r}
    /\ answers' = [answers EXCEPT ![r] = [size |-> n, ranges |-> rg]]
    /\ UNCHANGED <<phase, perSource, size, ranges, used, laneVars>>

\* Mutant of Fits: the size is not compared.
FitsAny(expected, n) == TRUE
Fits(expected, n) == expected \in {NoSize, n}

\* Range support and the right size: a candidate; fallbacks of another size
\* than the first such lane are dropped.
ProbedRange(r, n, s) ==
    /\ Answered(r, n, TRUE) /\ Fits(rangeSize, n)
    /\ rangeSize' = n
    /\ rangeC' = Append(rangeC, [rt |-> r, speed |-> s])
    /\ IF rangeSize = NoSize /\ ~Fits(plainSize, n)
       THEN plainSize' = NoSize /\ plainC' = <<>>
       ELSE UNCHANGED <<plainSize, plainC>>

\* No Range support: a fallback while no Range lane is known.
ProbedPlain(r, n, s) ==
    /\ Answered(r, n, FALSE) /\ rangeSize = NoSize /\ Fits(plainSize, n)
    /\ plainSize' = n
    /\ plainC' = Append(plainC, [rt |-> r, speed |-> s])
    /\ UNCHANGED <<rangeSize, rangeC>>

\* Another size, or a fallback that comes too late: the lane is skipped.
ProbedSkipped(r, n, rg) ==
    /\ Answered(r, n, rg)
    /\ IF rg THEN ~Fits(rangeSize, n) ELSE rangeSize # NoSize \/ ~Fits(plainSize, n)
    /\ UNCHANGED <<rangeSize, rangeC, plainSize, plainC>>

ProbeFailed(r) ==
    /\ Answered(r, NoSize, FALSE)
    /\ UNCHANGED <<rangeSize, rangeC, plainSize, plainC>>

\* from_candidates: the first candidate of each lane, by speed, stable; there is
\* one such order.
Candidates(cs) == {LaneOf(cs[k].rt, perSource) : k \in DOMAIN cs}
First(cs, l)   == Min({k \in DOMAIN cs : LaneOf(cs[k].rt, perSource) = l})
Before(cs, l, m) ==
    LET i == First(cs, l)  j == First(cs, m) IN
    cs[i].speed > cs[j].speed \/ (cs[i].speed = cs[j].speed /\ i < j)
Sorted(cs) ==
    {f \in [1 .. Cardinality(Candidates(cs)) -> Candidates(cs)] :
        \A i, j \in DOMAIN f : i < j => Before(cs, f[i], f[j])}

\* The Range lanes if there are any, else the fallbacks.
Chosen == IF rangeC # <<>> THEN rangeC ELSE plainC

Build ==
    /\ phase = "probing" /\ waiting = {} /\ Chosen # <<>>
    /\ phase' = "ready"
    /\ size' = IF rangeC # <<>> THEN rangeSize ELSE plainSize
    /\ ranges' = (rangeC # <<>>)
    /\ used' = {Chosen[k].rt : k \in DOMAIN Chosen}
    /\ order' \in Sorted(Chosen)
    /\ UNCHANGED <<perSource, waiting, answers, rangeSize, plainSize, rangeC, plainC,
                   active, failures, black, cool>>

\* NoAvailableSources: run_internal falls back to a single stream.
NoSources ==
    /\ phase = "probing" /\ waiting = {} /\ Chosen = <<>>
    /\ phase' = "streaming"
    /\ UNCHANGED <<probeVars, laneVars>>

Probe ==
    \/ \E r \in Runtimes, n \in Sizes :
          \/ \E s \in Speeds : ProbedRange(r, n, s) \/ ProbedPlain(r, n, s)
          \/ \E rg \in BOOLEAN : ProbedSkipped(r, n, rg)
    \/ \E r \in Runtimes : ProbeFailed(r)
    \/ Build \/ NoSources

\* The variables of from_config go out of scope.
Forget ==
    /\ answers' = [r \in Runtimes |-> NoAnswer]
    /\ rangeSize' = NoSize /\ plainSize' = NoSize /\ rangeC' = <<>> /\ plainC' = <<>>
    /\ size' = NoSize /\ ranges' = FALSE /\ used' = {}
    /\ UNCHANGED <<perSource, waiting>>
-----------------------------------------------------------------------------
(* LaneScheduler *)

InUse == {order[k] : k \in DOMAIN order}

\* total_active_chunks, source_active_chunks: the sum of active_chunks, here the
\* number of slots in use, those of a lane numbered from 1.  A lane_id begins
\* with its source.
Slots(S)        == UNION {{l} \X (1 .. active[l]) : l \in S}
TotalActive     == Cardinality(Slots(InUse))
SourceActive(s) == Cardinality(Slots({l \in InUse : l[1] = s}))

\* lane_has_capacity.
HasCapacity(l) ==
    /\ TotalActive < MaxWorkers
    /\ active[l] < LaneMax
    /\ perSource => SourceActive(l[1]) < SourceMax

\* Mutant of Expired: the time is not looked at.
ExpiredNever(l) == FALSE
\* decay_expired_blacklists.
Expired(l) == black[l] /\ cool[l] = 0
StillBlack(l) == black[l] /\ ~Expired(l)
Decay ==
    /\ black'    = [l \in LaneIds |-> StillBlack(l)]
    /\ failures' = [l \in LaneIds |-> IF Expired(l) THEN 0 ELSE failures[l]]
    /\ UNCHANGED <<order, cool>>

\* best_lane after the decay: the fastest healthy lane with room, else the
\* fastest with room.
BestLane ==
    LET free    == {k \in DOMAIN order : HasCapacity(order[k])}
        healthy == {k \in free : ~StillBlack(order[k])}
    IN  IF free = {} THEN NoLane
        ELSE IF healthy = {} THEN order[Min(free)] ELSE order[Min(healthy)]

\* claim_request_builder, and its failure.
Claim == BestLane # NoLane /\ Decay /\ active' = [active EXCEPT ![BestLane] = @ + 1]
Refused == BestLane = NoLane /\ Decay /\ UNCHANGED active

\* Mutant of Released: nothing is given back.
ReleasedNever(l) == active
\* release_chunk.
Released(l) == [active EXCEPT ![l] = IF @ = 0 THEN 0 ELSE @ - 1]

\* record_success and release_chunk.
Success(l) ==
    /\ active' = Released(l)
    /\ failures' = [failures EXCEPT ![l] = 0]
    /\ black' = [black EXCEPT ![l] = FALSE]
    /\ cool' = [cool EXCEPT ![l] = 0]
    /\ UNCHANGED order

\* record_failure and release_chunk; a failure past the threshold blacklists
\* anew.
Failure(l) ==
    LET n == failures[l] + 1 IN
    /\ active' = Released(l)
    /\ failures' = [failures EXCEPT ![l] = n]
    /\ IF n >= Threshold
       THEN black' = [black EXCEPT ![l] = TRUE] /\ cool' = [cool EXCEPT ![l] = Blacklist]
       ELSE UNCHANGED <<black, cool>>
    /\ UNCHANGED order
=============================================================================

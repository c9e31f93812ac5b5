---------------------------- MODULE Concurrency ----------------------------
(***************************************************************************)
(* ConcurrencyManager (concurrency.rs) and the workers it steers: in every *)
(* tick of the monitor it may split a chunk, split off most of a stalled   *)
(* one or end its connection.  It sees only the entries of the ledger,     *)
(* which are made from progress read later than it was sent, or never,     *)
(* and its commands are heard later too.                                   *)
(*                                                                         *)
(* The monitor's select! is biased: a tick comes only when every event     *)
(* sent before it was read.  An entry goes when ChunkFailed is read, and a *)
(* progress read after that makes it again: it is then there before the    *)
(* retry, and counts from the start of the worker that failed.             *)
(*                                                                         *)
(* Times are ticks.  Speeds are classes, and so are the bytes a chunk has  *)
(* left.  Which averages pass the factors 1.1, 0.8, 1.05 and 0.95 and the  *)
(* estimated time is left open; whether anything moved at all is not.      *)
(* With a rate limit decide_and_act is not called.                         *)
(***************************************************************************)
EXTENDS Integers, Sequences, FiniteSetsExt

CONSTANTS
    Chunks,      \* chunk ids; an id is used again after its chunk is complete
    MaxWorkers,  \* max_workers
    MinSplit,    \* MIN_SPLIT_INTERVAL
    Idle,        \* STALL_RESCUE_IDLE_SECS and IDLE_STEAL_SECS
    MaxSkewed,   \* skewed splits of a chunk before its connection is ended
    Window,      \* speed samples kept
    Enough,      \* samples needed to leave the probing phase
    Required,    \* required_samples_for_interval
    Ring         \* unread commands kept for a worker

ASSUME ConcurrencyAssumption ==
    /\ IsFiniteSet(Chunks) /\ MaxWorkers \in Nat \ {0}
    /\ MinSplit \in Nat \ {0} /\ Idle \in Nat \ {0} /\ MaxSkewed \in Nat
    /\ Window \in Nat \ {0} /\ Enough \in Nat /\ Required \in Nat \ {0}
    /\ Ring \in Nat \ {0}

\* Bytes left: none, less than two minimal chunks, more; for an entry "more" is
\* divided into less than 128 KiB, less than 512 KiB and the rest.
Lefts == 0 .. 2
Sizes == 0 .. 4
Splittable(n) == n >= 2
SmallTail(n)  == n <= 2
SmallSplit(n) == n <= 3

\* Speeds: zero, below STALL_SKEW_SPEED_BPS, above it.
Speeds == 0 .. 2
Stall(s) == s < 2

\* Entries as the manager reads them: speed and ticks without progress.
NoEntry  == [speed |-> 0, idle |-> -1]
NewEntry == [speed |-> 0, idle |-> 0]
NoRecord == -1

VARIABLES
    phase,    \* "Probing", "Stable"
    obs,      \* observation_state between two calls: "Ready", "Observing"
    record,   \* current_observation: collected_samples, or none
    since,    \* last_split_time.elapsed(), up to MinSplit
    samples,  \* stable_speed_samples: how many
    dry,      \* how many samples, from the newest, are zero
    peak,     \* max_speed > 0
    skewed,   \* skewed_split_counts
    steal     \* last_steal_time elapsed, up to Idle (also: none)

VARIABLES
    step,     \* of handle_tick: "idle", "decide"
    worker,   \* "none", "asking", "reading", "ended" (the monitor has not read
              \* its ChunkFailed), "failed"
    left,     \* class of the bytes a chunk has left
    entry,    \* its entry in state.chunks
    news,     \* chunks with a progress on the broadcast channel
    older,    \* chunks whose entry was made by an earlier worker (start_byte)
    cmds      \* commands a worker has not read: [kind, to]; to says if they were
              \* sent to it or to an earlier worker of its chunk

VARIABLES     \* history
    gap,      \* ticks since the last command, up to MinSplit
    peace,    \* samples since the last observed split, up to Required
    cut,      \* skewed splits asked of a chunk since it was last ended
    quiet     \* ticks since a running worker started or last sent a progress
              \* that is not lost, up to Idle

managerVars == <<phase, obs, record, since, samples, dry, peak, skewed, steal>>
workerVars  == <<worker, left, news, cmds>>
ledgerVars  == <<entry, older>>
vars == <<managerVars, workerVars, ledgerVars, step, gap, peace, cut, quiet>>

Min2(a, b) == IF a < b THEN a ELSE b
Active == {c \in Chunks : entry[c] # NoEntry}
Running(c) == worker[c] \in {"asking", "reading"}
-----------------------------------------------------------------------------
(* handle_tick: time and speeds *)

\* update_speed: a speed that is not zero decays but stays positive.
NextSpeeds(e) ==
    IF e.idle = 0 THEN Speeds \ {0}
    ELSE IF e.speed = 0 THEN {0} ELSE 1 .. e.speed

AllRead == news = {} /\ \A c \in Chunks : worker[c] # "ended"

Sample ==
    /\ step = "idle" /\ step' = "decide" /\ AllRead
    /\ \E s \in [Chunks -> Speeds] :
          /\ \A c \in Chunks : s[c] \in IF c \in Active THEN NextSpeeds(entry[c]) ELSE {0}
          /\ entry' = [c \in Chunks |->
                IF c \in Active
                THEN [speed |-> s[c], idle |-> Min2(Idle, entry[c].idle + 1)]
                ELSE NoEntry]
    /\ since' = Min2(MinSplit, since + 1)
    /\ steal' = [c \in Chunks |-> Min2(Idle, steal[c] + 1)]
    /\ gap' = Min2(MinSplit, gap + 1)
    /\ quiet' = [c \in Chunks |-> IF Running(c) THEN Min2(Idle, quiet[c] + 1) ELSE 0]
    /\ UNCHANGED <<phase, obs, record, samples, dry, peak, skewed,
                   workerVars, older, peace, cut>>
-----------------------------------------------------------------------------
(* decide_and_act *)

\* The statistics with the new sample.
Count  == Min2(Window, samples + 1)
Dry    == IF \E c \in Active : entry[c].speed > 0 THEN 0 ELSE Min2(Window, dry + 1)
Moving == Dry < Count          \* avg_speed > 0, which split_is_useful asks for
HasSlot == Cardinality(Active) < MaxWorkers

Deciding == step = "decide" /\ step' = "idle" /\ since >= MinSplit
InState(p, o) == Deciding /\ phase = p /\ obs = o

Pushed == samples' = Count /\ dry' = Dry /\ peak' = (peak \/ Moving)
Counted == peace' = Min2(Required, peace + 1)

\* remaining_bytes of the entries.  An entry counts what was read of what was
\* fetched, from the first byte of the worker that made it and up to an end that
\* may have been cut since: it never says less than what is left, and how much
\* more is left open.
Remaining == {r \in [Chunks -> Sizes] : \A c \in Chunks : r[c] >= left[c]}

\* find_largest_splittable_chunk, find_slowest_splittable_chunk.
Candidates(r) == {c \in Active : Splittable(r[c])}
Largest(r) == {c \in Candidates(r) : \A d \in Candidates(r) : r[d] <= r[c]}
Slowest(r) ==
    {c \in Candidates(r) : \A d \in Candidates(r) : entry[c].speed <= entry[d].speed}

\* Of the stalled chunks, one with the least speed.
Stalled(r) == {c \in Active : Stall(entry[c].speed) /\ r[c] > 0 /\ entry[c].idle >= Idle}
MostStalled(r) ==
    {c \in Stalled(r) : \A d \in Stalled(r) : entry[c].speed <= entry[d].speed}

\* cmd_tx.send; a full ring loses its oldest command.
Sent(c, k) ==
    LET q == IF Len(cmds[c]) < Ring THEN cmds[c] ELSE Tail(cmds[c]) IN
    cmds' = [cmds EXCEPT ![c] = Append(q, [kind |-> k, to |-> "present"])]

NoCommand == UNCHANGED <<cmds, since, gap, skewed, steal, cut>>
Command(c, k) == Sent(c, k) /\ gap' = 0

\* Mutant of Restarted: a command does not restart the interval.
RestartedNever == since
Restarted == 0

\* request_split.
RequestSplit(c) ==
    /\ Command(c, "bisect") /\ since' = Restarted
    /\ UNCHANGED <<skewed, steal, cut>>

\* Mutant of Observed: the observation is not recorded.
ObservedNever == NoRecord
Observed == 0

\* request_split_with_observation.
RequestObserved(c) ==
    /\ RequestSplit(c)
    /\ obs' = "Observing" /\ record' = Observed
    /\ peace' = 0

\* More skewed splits than are allowed, with this one.
Ended(c) == skewed[c] + 1 > MaxSkewed

\* request_skewed_split for a small tail.
StealTail(c) ==
    IF entry[c].idle >= Idle /\ steal[c] >= Idle
    THEN /\ Command(c, "kill") /\ since' = Restarted
         /\ steal' = [steal EXCEPT ![c] = 0]
         /\ UNCHANGED <<skewed, cut>>
    ELSE NoCommand

\* request_skewed_split.
RequestSkewed(c, remaining) ==
    \/ SmallTail(remaining) /\ StealTail(c)
    \/ /\ ~SmallTail(remaining) /\ since' = Restarted
       /\ IF Ended(c)
          THEN /\ Command(c, "kill")
               /\ skewed' = [skewed EXCEPT ![c] = 0] /\ cut' = [cut EXCEPT ![c] = 0]
          ELSE /\ Command(c, "bisect")
               /\ skewed' = [skewed EXCEPT ![c] = @ + 1]
               /\ cut' = [cut EXCEPT ![c] = Min2(MaxSkewed, @ + 1)]
       /\ UNCHANGED steal

\* transition_to_stable.
ToStable ==
    /\ phase' = "Stable" /\ obs' = "Ready" /\ record' = NoRecord
    /\ samples' = 0 /\ dry' = 0 /\ peak' = (peak \/ Moving)
    /\ NoCommand

Throttled ==
    /\ step = "decide" /\ step' = "idle" /\ since < MinSplit
    /\ UNCHANGED <<managerVars, workerVars, ledgerVars, gap, peace, cut, quiet>>

\* What a decision leaves alone.
Others == <<worker, left, news, ledgerVars, quiet>>

\* handle_probing_phase.
Probe ==
    /\ InState("Probing", "Ready") /\ Counted
    /\ UNCHANGED Others
    /\ \/ ~HasSlot /\ ToStable
       \/ HasSlot /\ Pushed /\ NoCommand /\ UNCHANGED <<phase, obs, record>>
       \/ /\ HasSlot /\ Moving /\ Pushed
          /\ \E r \in Remaining : \E c \in Largest(r) : RequestSplit(c)
          /\ UNCHANGED <<phase, obs, record>>
       \/ HasSlot /\ Moving /\ (\E r \in Remaining : Largest(r) = {}) /\ ToStable
       \/ /\ HasSlot /\ Moving /\ peak
          /\ Cardinality(Active) > 1 /\ Count >= Enough /\ ToStable

\* handle_stable_ready.
StableReady ==
    /\ InState("Stable", "Ready") /\ Pushed
    /\ UNCHANGED <<phase, Others>>
    /\ \E r \in Remaining :
       \/ /\ \E c \in MostStalled(r) : RequestSkewed(c, r[c])
          /\ UNCHANGED <<obs, record>> /\ Counted
       \/ /\ Stalled(r) = {} /\ NoCommand
          /\ UNCHANGED <<obs, record>> /\ Counted
       \/ /\ Stalled(r) = {} /\ HasSlot /\ Moving
          /\ \E c \in Slowest(r) :
                \/ Stall(entry[c].speed) /\ RequestSkewed(c, r[c])
                   /\ UNCHANGED <<obs, record>> /\ Counted
                \/ ~Stall(entry[c].speed) /\ ~SmallSplit(r[c]) /\ RequestObserved(c)

\* Mutant of Collected: the observation is one sample short.
CollectedEarly == record + 2 >= Required
\* A sample of the observation; the last one is followed by
\* handle_stable_evaluate.
Collected == record + 1 >= Required

Observe ==
    /\ InState("Stable", "Observing") /\ record # NoRecord /\ Pushed
    /\ ~Collected /\ record' = record + 1
    /\ NoCommand /\ Counted
    /\ UNCHANGED <<phase, obs, Others>>

Evaluate ==
    /\ InState("Stable", "Observing") /\ record # NoRecord /\ Pushed /\ Collected
    /\ UNCHANGED <<phase, Others>>
    /\ \/ HasSlot /\ Moving /\ \E r \in Remaining : \E c \in Largest(r) : RequestObserved(c)
       \/ obs' = "Ready" /\ record' = NoRecord /\ NoCommand /\ Counted

Decide == Throttled \/ Probe \/ StableReady \/ Observe \/ Evaluate
-----------------------------------------------------------------------------
(* Workers and what the monitor makes of their events *)

\* Bytes come in at any time, events are handled between two ticks.  DownloadComplete
\* and ChunkBisected are one step with their handling: until then the manager has
\* the entry it had, as if the worker had not got there yet.
WorkerStep == UNCHANGED <<managerVars, step, gap, peace, cut>>
MonitorStep == step = "idle" /\ WorkerStep

\* The response has come; no byte yet.
Answer(c) ==
    /\ worker[c] = "asking" /\ MonitorStep
    /\ worker' = [worker EXCEPT ![c] = "reading"]
    /\ UNCHANGED <<left, news, cmds, ledgerVars, quiet>>

\* Bytes, told by a progress or not: it is throttled, and the channel loses the
\* oldest when it is full.
Fetch(c) ==
    /\ worker[c] = "reading" /\ left[c] > 0 /\ WorkerStep
    /\ \E n \in {left[c], left[c] - 1} : left' = [left EXCEPT ![c] = n]
    /\ \/ news' = news \cup {c} /\ quiet' = [quiet EXCEPT ![c] = 0]
       \/ UNCHANGED <<news, quiet>>
    /\ UNCHANGED <<worker, cmds, ledgerVars>>

\* Mutant of Noted: progress does not restart the idle time.
NotedNever(c) == entry[c].idle
\* update_downloaded: the time is that of the last growth.  A count that an
\* earlier worker has left does not grow before the present one has overtaken it.
Noted(c) == 0

\* ChunkProgress, read from the broadcast channel.
Hear(c) ==
    /\ c \in news /\ MonitorStep
    /\ news' = news \ {c}
    /\ \/ c \notin Active /\ entry' = [entry EXCEPT ![c] = NewEntry]
       \/ c \in Active /\ entry' = [entry EXCEPT ![c].idle = Noted(c)]
       \/ c \in Active /\ c \in older /\ UNCHANGED entry
    /\ UNCHANGED <<worker, left, cmds, older, quiet>>

\* The entry goes, and with it what is known of who made it.
Forget(c) == entry' = [entry EXCEPT ![c] = NoEntry] /\ older' = older \ {c}

\* DownloadComplete, sent and read: late progress is dropped (retired_ids), and
\* the id is free, as if it were a new one.
Complete(c) ==
    /\ worker[c] = "reading" /\ left[c] = 0 /\ step = "idle"
    /\ worker' = [worker EXCEPT ![c] = "none"]
    /\ news' = news \ {c} /\ Forget(c) /\ cmds' = [cmds EXCEPT ![c] = <<>>]
    /\ skewed' = [skewed EXCEPT ![c] = 0] /\ cut' = [cut EXCEPT ![c] = 0]
    /\ steal' = [steal EXCEPT ![c] = Idle] /\ quiet' = [quiet EXCEPT ![c] = 0]
    /\ UNCHANGED <<phase, obs, record, since, samples, dry, peak,
                   left, step, gap, peace>>

\* The worker sends a last progress, if it has bytes to tell of, and ChunkFailed.
Ends(c) ==
    /\ news' = news \/ (worker[c] = "reading" /\ news' = news \cup {c})
    /\ worker' = [worker EXCEPT ![c] = "ended"] /\ quiet' = [quiet EXCEPT ![c] = 0]
    /\ UNCHANGED <<left, cmds, ledgerVars>>
Fail(c) == Running(c) /\ MonitorStep /\ Ends(c)

\* ChunkFailed is read; a progress of the worker may still be unread.
OnFailed(c) ==
    /\ worker[c] = "ended" /\ MonitorStep
    /\ worker' = [worker EXCEPT ![c] = "failed"]
    /\ Forget(c)
    /\ UNCHANGED <<left, news, cmds, quiet>>

\* Mutant of Unread: a new worker reads old commands.
UnreadOld(c) == cmds[c]
\* cmd_tx.subscribe: a new worker reads no command that was sent before.
Unread(c) == <<>>
Subscribed(c) == [k \in DOMAIN Unread(c) |-> [Unread(c)[k] EXCEPT !.to = "earlier"]]

\* The retry, under the same id, in a tick: all progress of the last worker was
\* read, and may have made an entry again.
Retry(c) ==
    /\ worker[c] = "failed" /\ c \notin news /\ MonitorStep
    /\ worker' = [worker EXCEPT ![c] = "asking"]
    /\ cmds' = [cmds EXCEPT ![c] = Subscribed(c)]
    /\ older' = older \cup ({c} \cap Active)
    /\ UNCHANGED <<left, news, entry, quiet>>

Reads(c) == worker[c] = "reading" /\ cmds[c] # <<>> /\ MonitorStep
Asked(c) == Head(cmds[c]).kind

\* TerminateChunk.
Killed(c) == Reads(c) /\ Asked(c) = "kill" /\ Ends(c)

\* BisectDownload and BisectDownloadSkewed, which differ in where they cut: too
\* little is left.
Rejected(c) ==
    /\ Reads(c) /\ Asked(c) # "kill" /\ ~Splittable(left[c])
    /\ cmds' = [cmds EXCEPT ![c] = Tail(@)]
    /\ UNCHANGED <<worker, left, news, ledgerVars, quiet>>

\* ... or the range is split and ChunkBisected, once read, starts a worker for the
\* rest.
Split(c, n) ==
    /\ Reads(c) /\ Asked(c) # "kill" /\ Splittable(left[c]) /\ worker[n] = "none"
    /\ worker' = [worker EXCEPT ![n] = "asking"]
    /\ \E keep, rest \in Lefts \ {0} : left' = [left EXCEPT ![c] = keep, ![n] = rest]
    /\ cmds' = [cmds EXCEPT ![c] = Tail(@), ![n] = Subscribed(n)]
    /\ UNCHANGED <<news, ledgerVars, quiet>>
-----------------------------------------------------------------------------
(* Specification *)

\* new_with_interval, and the workers of the initial ranges.
Init ==
    /\ phase = IF MaxWorkers = 1 THEN "Stable" ELSE "Probing"
    /\ obs = "Ready" /\ record = NoRecord /\ since = MinSplit
    /\ samples = 0 /\ dry = 0 /\ peak = FALSE
    /\ skewed = [c \in Chunks |-> 0] /\ steal = [c \in Chunks |-> Idle]
    /\ step = "idle"
    /\ worker \in [Chunks -> {"none", "asking"}]
    /\ Cardinality({c \in Chunks : worker[c] = "asking"}) \in 1 .. MaxWorkers
    /\ left = [c \in Chunks |-> Max(Lefts)]
    /\ entry = [c \in Chunks |-> NoEntry] /\ news = {} /\ older = {}
    /\ cmds = [c \in Chunks |-> <<>>]
    /\ gap = MinSplit /\ peace = Required
    /\ cut = [c \in Chunks |-> 0] /\ quiet = [c \in Chunks |-> 0]

Next ==
    \/ Sample \/ Decide
    \/ \E c \in Chunks :
          \/ Answer(c) \/ Fetch(c) \/ Hear(c) \/ Complete(c)
          \/ Fail(c) \/ OnFailed(c) \/ Retry(c)
          \/ Killed(c) \/ Rejected(c)
          \/ \E n \in Chunks : Split(c, n)

Spec == Init /\ [][Next]_vars
-----------------------------------------------------------------------------
(* Properties *)

TypeOK ==
    /\ phase \in {"Probing", "Stable"} /\ obs \in {"Ready", "Observing"}
    /\ record \in NoRecord .. Required /\ since \in 0 .. MinSplit
    /\ samples \in 0 .. Window /\ dry \in 0 .. Window /\ peak \in BOOLEAN
    /\ skewed \in [Chunks -> 0 .. MaxSkewed] /\ steal \in [Chunks -> 0 .. Idle]
    /\ step \in {"idle", "decide"}
    /\ worker \in [Chunks -> {"none", "asking", "reading", "ended", "failed"}]
    /\ news \subseteq Chunks /\ older \subseteq Active
    /\ left \in [Chunks -> Lefts]
    /\ entry \in [Chunks -> [speed : Speeds, idle : -1 .. Idle]]
    /\ quiet \in [Chunks -> 0 .. Idle]
    /\ \A c \in Chunks : Len(cmds[c]) <= Ring

\* The manager cannot get stuck in an observation: it observes exactly when it
\* has a record to count the samples in, and not before the stable phase.
ObservationKept ==
    /\ obs = "Observing" <=> record # NoRecord
    /\ phase = "Probing" => obs = "Ready"

\* A command does not reach a later worker of its chunk: what a worker has not
\* read was sent after it started.
OwnCommands ==
    \A c \in Chunks : Running(c) =>
        \A k \in DOMAIN cmds[c] : cmds[c][k].to = "present"

Commands == step = "decide" /\ gap' = 0

\* Two commands are never closer than MIN_SPLIT_INTERVAL, whichever way they
\* were decided on.
Paced == [][Commands => gap >= MinSplit]_vars

\* The effect of an observed split is waited for: no other chunk is split and no
\* connection ended before all its samples are in.
ObservedInPeace == [][Commands => peace + 1 >= Required]_vars

Kills(c) == Commands /\ cmds'[c] # cmds[c] /\ cmds'[c][Len(cmds'[c])].kind = "kill"

\* A running worker is told to end only if nothing of what it sent since Idle got
\* through, or if MaxSkewed skewed splits were asked of its chunk, provided that the
\* entry the manager judges by was not made by an earlier worker.
MovingSpared ==
    [][\A c \in Chunks : Kills(c) /\ Running(c) /\ c \notin news /\ c \notin older
           => quiet[c] >= Idle \/ cut[c] >= MaxSkewed]_vars

\* Only a connection that is idle for STALL_RESCUE_IDLE_SECS is ended, a new one is
\* given the time to deliver (concurrency.rs:408).  It does not hold: the entry may
\* be that of an earlier worker, idle since before the present one started.
NewcomersSpared ==
    [][\A c \in Chunks : Kills(c) /\ Running(c) /\ c \notin news
           => quiet[c] >= Idle \/ cut[c] >= MaxSkewed]_vars

\* workers is an upper limit: never more chunks are fetched at once.  It does not
\* hold: the manager counts entries, not workers, and the rescue of a stalled
\* chunk does not count at all.
WorkersBounded ==
    Cardinality({c \in Chunks : Running(c)}) <= MaxWorkers
=============================================================================

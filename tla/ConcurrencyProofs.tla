------------------------- MODULE ConcurrencyProofs -------------------------
(***************************************************************************)
(* Theorems about Concurrency for every number of chunks and workers and   *)
(* every setting of the intervals, windows and rings.                      *)
(***************************************************************************)
EXTENDS Concurrency, SequenceTheorems, TLAPS

\* What the workers do, and what the monitor does about it between two ticks.
Works(c) ==
    \/ Answer(c) \/ Fetch(c) \/ Hear(c) \/ Complete(c)
    \/ Fail(c) \/ OnFailed(c) \/ Retry(c)
    \/ Killed(c) \/ Rejected(c)
    \/ \E n \in Chunks : Split(c, n)

\* Next is a tick, a decision or a step of a worker.
LEMMA NextSplits == Next => Sample \/ Decide \/ \E c \in Chunks : Works(c)
  BY DEF Next, Works
-----------------------------------------------------------------------------
(* The interval between two commands *)

\* The manager's clock is never ahead of the time since the last command.
PaceInv ==
    /\ since \in Nat /\ gap \in Nat /\ since <= gap
    /\ step \in {"idle", "decide"}
    /\ step = "decide" => gap >= 1

paceVars == <<since, gap, step>>

\* What a step does to the clocks.
LEMMA WorksPace == ASSUME NEW c \in Chunks, Works(c) PROVE UNCHANGED paceVars
  <1>1. CASE Complete(c)
    BY <1>1 DEF Complete, paceVars
  <1>2. CASE ~Complete(c)
    BY <1>2 DEF Works, Answer, Fetch, Hear, Fail, OnFailed, Retry, Killed, Rejected, Split,
           Reads, MonitorStep, WorkerStep, managerVars, paceVars
  <1> QED
    BY <1>1, <1>2

\* A decision leaves both clocks alone or sets both to zero.
LEMMA DecidePace ==
  ASSUME Decide
  PROVE  /\ step = "decide" /\ step' = "idle"
         /\ \/ since' = since /\ gap' = gap
            \/ since >= MinSplit /\ since' = 0 /\ gap' = 0
         /\ since >= MinSplit \/ (since' = since /\ gap' = gap)
  <1>1. CASE Throttled
    BY <1>1 DEF Throttled, managerVars
  <1>2. CASE Probe
    BY <1>2 DEF Probe, InState, Deciding, ToStable, NoCommand, RequestSplit, Command, Restarted
  <1>3. ASSUME NEW c, NEW n, RequestSkewed(c, n)
        PROVE  (since' = since /\ gap' = gap) \/ (since' = 0 /\ gap' = 0)
    BY <1>3 DEF RequestSkewed, StealTail, NoCommand, Command, Restarted
  <1>4. CASE StableReady
    BY <1>3, <1>4 DEF StableReady, InState, Deciding, NoCommand, RequestObserved, RequestSplit,
           Command, Restarted
  <1>5. CASE Observe
    BY <1>5 DEF Observe, InState, Deciding, NoCommand
  <1>6. CASE Evaluate
    BY <1>6 DEF Evaluate, InState, Deciding, NoCommand, RequestObserved, RequestSplit, Command,
           Restarted
  <1> QED
    BY <1>1, <1>2, <1>4, <1>5, <1>6 DEF Decide

\* The clocks are kept by every step.
LEMMA PaceKept == PaceInv /\ [Next]_vars => PaceInv'
  <1> SUFFICES ASSUME PaceInv, [Next]_vars PROVE PaceInv'
    OBVIOUS
  <1> USE ConcurrencyAssumption
  <1>1. CASE Sample
    <2>1. since' = Min2(MinSplit, since + 1) /\ gap' = Min2(MinSplit, gap + 1) /\ step' = "decide"
      BY <1>1 DEF Sample
    <2> QED
      BY <2>1 DEF PaceInv, Min2
  <1>2. CASE Decide
    BY <1>2, DecidePace DEF PaceInv
  <1>3. ASSUME NEW c \in Chunks, Works(c) PROVE PaceInv'
    BY <1>3, WorksPace DEF PaceInv, paceVars
  <1>4. CASE UNCHANGED vars
    BY <1>4 DEF vars, managerVars, PaceInv
  <1> QED
    BY <1>1, <1>2, <1>3, <1>4, NextSplits

\* The clocks run in step from the start.
LEMMA PaceAlways == Spec => []PaceInv
  <1>1. Init => PaceInv
    BY ConcurrencyAssumption DEF Init, PaceInv
  <1> QED
    BY <1>1, PaceKept, PTL DEF Spec

\* A command is the work of a decision that found the interval over.
LEMMA CommandsDecide ==
  ASSUME PaceInv, [Next]_vars, Commands
  PROVE  Decide /\ since >= MinSplit /\ gap >= MinSplit
  <1> USE ConcurrencyAssumption
  <1>1. step = "decide" /\ gap' = 0 /\ gap >= 1
    BY DEF Commands, PaceInv
  <1>2. ~(UNCHANGED vars) /\ ~Sample
    BY <1>1 DEF vars, Sample, PaceInv
  <1>3. Decide
    BY <1>1, <1>2, WorksPace, NextSplits DEF paceVars, PaceInv
  <1> QED
    BY <1>1, <1>3, DecidePace DEF PaceInv

\* Two commands are at least MIN_SPLIT_INTERVAL apart, for every setting of the
\* manager and whichever of its branches they come from.
THEOREM CommandsPaced == Spec => Paced
  <1>1. PaceInv /\ [Next]_vars => [Commands => gap >= MinSplit]_vars
    BY CommandsDecide
  <1> QED
    BY <1>1, PaceAlways, PTL DEF Spec, Paced
-----------------------------------------------------------------------------
(* Observations *)

\* An observation is a flag with a record, in the stable phase; the samples
\* since the split are those in the record, or enough of them when it is over.
ObsInv ==
    /\ obs \in {"Ready", "Observing"} /\ record \in Int /\ record >= NoRecord
    /\ peace \in Nat
    /\ ObservationKept
    /\ obs = "Ready" => peace >= Required
    /\ obs = "Observing" => peace >= record

obsVars == <<phase, obs, record, peace>>

\* Workers and ticks do not observe.
LEMMA WorksObs == ASSUME NEW c \in Chunks, Works(c) PROVE UNCHANGED obsVars
  <1>1. CASE Complete(c)
    BY <1>1 DEF Complete, obsVars
  <1>2. CASE ~Complete(c)
    BY <1>2 DEF Works, Answer, Fetch, Hear, Fail, OnFailed, Retry, Killed, Rejected, Split,
           Reads, MonitorStep, WorkerStep, managerVars, obsVars
  <1> QED
    BY <1>1, <1>2

\* What a decision does to the observation.
LEMMA DecideObs ==
  ASSUME Decide
  PROVE  \/ UNCHANGED obsVars
         \/ /\ obs = "Ready" /\ Counted
            /\ UNCHANGED <<phase, obs, record>> \/ (obs' = "Ready" /\ record' = NoRecord)
         \/ /\ phase' = "Stable" /\ obs' = "Observing" /\ record' = 0 /\ peace' = 0
         \/ /\ Observe
         \/ /\ phase' = "Stable" /\ record # NoRecord /\ Collected
            /\ obs = "Observing" /\ obs' = "Ready" /\ record' = NoRecord /\ Counted
  <1>1. CASE Throttled
    BY <1>1 DEF Throttled, managerVars, obsVars
  <1>2. CASE Probe
    BY <1>2 DEF Probe, InState, ToStable
  <1>3. CASE StableReady
    BY <1>3 DEF StableReady, InState, RequestObserved, Observed
  <1>4. CASE Evaluate
    BY <1>4 DEF Evaluate, InState, RequestObserved, Observed
  <1> QED
    BY <1>1, <1>2, <1>3, <1>4 DEF Decide

\* Observations are kept by every step.
LEMMA ObsKept == ObsInv /\ [Next]_vars => ObsInv'
  <1> SUFFICES ASSUME ObsInv, [Next]_vars PROVE ObsInv'
    OBVIOUS
  <1>1. ASSUME UNCHANGED obsVars PROVE ObsInv'
    BY <1>1 DEF ObsInv, ObservationKept, obsVars
  <1>2. CASE Decide
    <2>1. CASE /\ obs = "Ready" /\ Counted
               /\ UNCHANGED <<phase, obs, record>> \/ (obs' = "Ready" /\ record' = NoRecord)
      <3>1. peace' \in Nat /\ peace' >= Required
        BY <2>1, ConcurrencyAssumption DEF ObsInv, Counted, Min2
      <3> QED
        BY <2>1, <3>1 DEF ObsInv, ObservationKept, NoRecord
    <2>2. CASE phase' = "Stable" /\ obs' = "Observing" /\ record' = 0 /\ peace' = 0
      BY <2>2 DEF ObsInv, ObservationKept, NoRecord
    <2>3. CASE Observe
      <3>1. /\ obs = "Observing" /\ obs' = obs /\ phase' = phase /\ record' = record + 1
            /\ record # NoRecord /\ ~(record + 1 >= Required) /\ Counted
        BY <2>3 DEF Observe, InState, Collected
      <3>2. peace' \in Nat /\ peace' >= record'
        BY <3>1, ConcurrencyAssumption DEF ObsInv, Counted, Min2
      <3> QED
        BY <3>1, <3>2 DEF ObsInv, ObservationKept, NoRecord
    <2>4. CASE /\ phase' = "Stable" /\ record # NoRecord /\ Collected
               /\ obs = "Observing" /\ obs' = "Ready" /\ record' = NoRecord /\ Counted
      <3>1. peace' \in Nat /\ peace' >= Required
        BY <2>4, ConcurrencyAssumption DEF ObsInv, Counted, Collected, Min2
      <3> QED
        BY <2>4, <3>1 DEF ObsInv, ObservationKept, NoRecord
    <2> QED
      BY <1>1, <1>2, <2>1, <2>2, <2>3, <2>4, DecideObs
  <1>3. CASE Sample
    BY <1>1, <1>3 DEF Sample, obsVars
  <1>4. CASE UNCHANGED vars
    BY <1>1, <1>4 DEF vars, managerVars, obsVars
  <1> QED
    BY <1>1, <1>2, <1>3, <1>4, WorksObs, NextSplits

\* The first state observes nothing.
LEMMA ObsAlways == Spec => []ObsInv
  <1>1. Init => ObsInv
    BY ConcurrencyAssumption DEF Init, ObsInv, ObservationKept, NoRecord
  <1> QED
    BY <1>1, ObsKept, PTL DEF Spec

\* The manager never gets stuck in an observation: flag and record come and go
\* together, and there is none in the probing phase.
THEOREM ObservationSound == Spec => []ObservationKept
  BY ObsAlways, PTL DEF ObsInv

\* No command is sent before an observation has all its samples, so that each
\* split is judged by its own effect.
THEOREM ObservationUndisturbed == Spec => ObservedInPeace
  <1>1. ASSUME PaceInv, ObsInv, [Next]_vars, Commands PROVE peace + 1 >= Required
    <2>1. Decide /\ since >= MinSplit /\ gap >= MinSplit
      BY <1>1, CommandsDecide
    <2>2. since \in Nat /\ gap \in Nat /\ gap' = 0 /\ gap # 0
      BY <1>1, <2>1, ConcurrencyAssumption DEF Commands, PaceInv
    <2>3. CASE obs = "Ready"
      BY <1>1, <2>3, ConcurrencyAssumption DEF ObsInv
    <2>4. CASE obs = "Observing"
      <3>1. Evaluate
        <4>1. ~Throttled /\ ~Observe
          BY <2>1, <2>2, ConcurrencyAssumption DEF Throttled, Observe, NoCommand
        <4>2. ~Probe /\ ~StableReady
          BY <2>4 DEF Probe, StableReady, InState
        <4> QED
          BY <2>1, <4>1, <4>2 DEF Decide
      <3>2. record + 1 >= Required
        BY <3>1 DEF Evaluate, Collected
      <3> QED
        BY <1>1, <2>4, <3>2, ConcurrencyAssumption DEF ObsInv
    <2> QED
      BY <1>1, <2>3, <2>4 DEF ObsInv
  <1>2. PaceInv /\ ObsInv /\ [Next]_vars => [Commands => peace + 1 >= Required]_vars
    BY <1>1
  <1> QED
    BY <1>2, PaceAlways, ObsAlways, PTL DEF Spec, ObservedInPeace
-----------------------------------------------------------------------------
(* Skewed splits *)

\* The manager's count of skewed splits is that of the commands it sent.
SkewInv ==
    /\ skewed \in [Chunks -> Nat] /\ cut \in [Chunks -> Nat]
    /\ \A c \in Chunks : skewed[c] <= MaxSkewed /\ cut[c] = skewed[c]

\* The chunks a decision is about have an entry.
LEMMA PickedChunks ==
  ASSUME NEW r PROVE Largest(r) \cup Slowest(r) \cup MostStalled(r) \subseteq Chunks
  BY DEF Largest, Slowest, MostStalled, Stalled, Candidates, Active

\* A skewed request keeps the counts, whatever it sends.
LEMMA SkewedCounts ==
  ASSUME SkewInv, NEW c \in Chunks, NEW n, RequestSkewed(c, n)
  PROVE  SkewInv'
  <1> USE ConcurrencyAssumption
  <1>1. CASE UNCHANGED <<skewed, cut>>
    BY <1>1 DEF SkewInv
  <1>2. CASE /\ skewed' = [skewed EXCEPT ![c] = 0] /\ cut' = [cut EXCEPT ![c] = 0]
    BY <1>2 DEF SkewInv
  <1>3. CASE /\ ~Ended(c) /\ skewed' = [skewed EXCEPT ![c] = @ + 1]
             /\ cut' = [cut EXCEPT ![c] = Min2(MaxSkewed, @ + 1)]
    <2>1. skewed[c] + 1 <= MaxSkewed /\ Min2(MaxSkewed, cut[c] + 1) = skewed[c] + 1
      BY <1>3 DEF SkewInv, Ended, Min2
    <2> QED
      BY <1>3, <2>1 DEF SkewInv
  <1> QED
    BY <1>1, <1>2, <1>3 DEF RequestSkewed, StealTail, NoCommand

\* The other steps leave the counts alone, or reset those of a finished chunk.
LEMMA SkewKept == SkewInv /\ [Next]_vars => SkewInv'
  <1> SUFFICES ASSUME SkewInv, [Next]_vars PROVE SkewInv'
    OBVIOUS
  <1>1. ASSUME UNCHANGED <<skewed, cut>> PROVE SkewInv'
    BY <1>1 DEF SkewInv
  <1>2. CASE Decide
    <2>1. CASE Throttled
      BY <1>1, <2>1 DEF Throttled, managerVars
    <2>2. CASE Probe
      BY <1>1, <2>2 DEF Probe, ToStable, NoCommand, RequestSplit
    <2>3. CASE StableReady
      BY <1>1, <2>3, SkewedCounts, PickedChunks
         DEF StableReady, NoCommand, RequestObserved, RequestSplit
    <2>4. CASE Observe
      BY <1>1, <2>4 DEF Observe, NoCommand
    <2>5. CASE Evaluate
      BY <1>1, <2>5 DEF Evaluate, NoCommand, RequestObserved, RequestSplit
    <2> QED
      BY <1>2, <2>1, <2>2, <2>3, <2>4, <2>5 DEF Decide
  <1>3. CASE Sample
    BY <1>1, <1>3 DEF Sample
  <1>4. ASSUME NEW c \in Chunks, Works(c) PROVE SkewInv'
    <2>1. CASE Complete(c)
      BY <2>1, ConcurrencyAssumption DEF Complete, SkewInv
    <2>2. CASE ~Complete(c)
      <3>1. UNCHANGED <<skewed, cut>>
        BY <1>4, <2>2 DEF Works, Answer, Fetch, Hear, Fail, OnFailed, Retry, Killed, Rejected,
               Split, Reads, MonitorStep, WorkerStep, managerVars
      <3> QED
        BY <1>1, <3>1
    <2> QED
      BY <2>1, <2>2
  <1>5. CASE UNCHANGED vars
    BY <1>1, <1>5 DEF vars, managerVars
  <1> QED
    BY <1>2, <1>3, <1>4, <1>5, NextSplits

\* Nothing was split at the start.
LEMMA SkewAlways == Spec => []SkewInv
  <1>1. Init => SkewInv
    BY ConcurrencyAssumption DEF Init, SkewInv
  <1> QED
    BY <1>1, SkewKept, PTL DEF Spec
-----------------------------------------------------------------------------
(* Commands in the rings *)

Kinds == {"bisect", "kill"}
CommandType == [kind : Kinds, to : {"present", "earlier"}]
WorkerType == {"none", "asking", "reading", "ended", "failed"}

\* Rings hold commands.
RingInv == cmds \in [Chunks -> Seq(CommandType)]

\* A command is put at the end of its chunk's ring.
LEMMA SentFacts ==
  ASSUME RingInv, NEW c \in Chunks, NEW k \in Kinds, Sent(c, k)
  PROVE  /\ cmds' \in [Chunks -> Seq(CommandType)]
         /\ \A d \in Chunks : d # c => cmds'[d] = cmds[d]
         /\ cmds'[c][Len(cmds'[c])].kind = k
         /\ (\A j \in DOMAIN cmds[c] : cmds[c][j].to = "present")
              => \A j \in DOMAIN cmds'[c] : cmds'[c][j].to = "present"
  <1> DEFINE q == IF Len(cmds[c]) < Ring THEN cmds[c] ELSE Tail(cmds[c])
             r == [kind |-> k, to |-> "present"]
             T == CommandType
  <1>1. r \in T /\ r.kind = k /\ r.to = "present"
    BY Zenon DEF CommandType
  <1>2. cmds[c] \in Seq(T) /\ cmds' = [cmds EXCEPT ![c] = Append(q, r)]
    BY DEF RingInv, Sent
  <1>3. cmds \in [Chunks -> Seq(T)]
    BY DEF RingInv
  <1> HIDE DEF r, T
  <1>4. q \in Seq(T)
    BY <1>2, ConcurrencyAssumption
  <1>5. \A j \in DOMAIN q : \E i \in DOMAIN cmds[c] : q[j] = cmds[c][i]
    <2>1. CASE Len(cmds[c]) < Ring
      BY <1>2, <2>1
    <2>2. CASE ~(Len(cmds[c]) < Ring)
      <3>1. q = Tail(cmds[c]) /\ cmds[c] # <<>>
        BY <1>2, <2>2, ConcurrencyAssumption
      <3> HIDE DEF q
      <3>2. Len(q) = Len(cmds[c]) - 1 /\ \A j \in 1 .. Len(q) : q[j] = cmds[c][j + 1]
        BY <1>2, <3>1, HeadTailProperties
      <3> QED
        BY <1>2, <1>4, <3>2
    <2> QED
      BY <2>1, <2>2
  <1> HIDE DEF q
  <1>6. /\ Append(q, r) \in Seq(T) /\ Len(Append(q, r)) = Len(q) + 1
        /\ Append(q, r)[Len(q) + 1] = r
        /\ \A j \in 1 .. Len(q) : Append(q, r)[j] = q[j]
    BY <1>1, <1>4
  <1>7. cmds'[c] = Append(q, r) /\ cmds' \in [Chunks -> Seq(T)]
        /\ \A d \in Chunks : d # c => cmds'[d] = cmds[d]
    BY <1>2, <1>3, <1>6
  <1>8. ASSUME \A j \in DOMAIN cmds[c] : cmds[c][j].to = "present",
               NEW j \in DOMAIN cmds'[c]
        PROVE  cmds'[c][j].to = "present"
    <2>1. j \in 1 .. Len(q) + 1
      BY <1>6, <1>7, <1>8
    <2>2. CASE j = Len(q) + 1
      BY <1>1, <1>6, <1>7, <2>2
    <2>3. CASE j \in 1 .. Len(q)
      <3>1. cmds'[c][j] = q[j] /\ j \in DOMAIN q
        BY <1>4, <1>6, <1>7, <2>3
      <3> QED
        BY <1>5, <1>8, <3>1
    <2> QED
      BY <1>4, <2>1, <2>2, <2>3
  <1> QED
    BY <1>1, <1>4, <1>6, <1>7, <1>8 DEF T

\* A command that is sent for cause.
Sends(c, k) ==
    Sent(c, k) /\ (k = "kill" => entry[c].idle >= Idle \/ Ended(c))

\* A skewed request ends a connection only for cause.
LEMMA SkewedSends ==
  ASSUME NEW c \in Chunks, NEW n, RequestSkewed(c, n)
  PROVE  UNCHANGED cmds \/ \E k \in Kinds : Sends(c, k)
  <1>1. CASE SmallTail(n) /\ StealTail(c)
    BY <1>1 DEF StealTail, NoCommand, Command, Sends, Kinds
  <1>2. CASE Ended(c) /\ Sent(c, "kill")
    BY <1>2 DEF Sends, Kinds
  <1>3. CASE Sent(c, "bisect")
    BY <1>3 DEF Sends, Kinds
  <1> QED
    BY <1>1, <1>2, <1>3 DEF RequestSkewed, Command

\* A decision sends one command at most.
LEMMA DecideSends ==
  ASSUME Decide
  PROVE  /\ UNCHANGED <<worker, news, ledgerVars, quiet>>
         /\ UNCHANGED cmds \/ \E c \in Chunks, k \in Kinds : Sends(c, k)
  <1>1. ASSUME NEW c, RequestSplit(c) PROVE Sends(c, "bisect")
    BY <1>1 DEF RequestSplit, Command, Sends
  <1>2. "bisect" \in Kinds
    BY DEF Kinds
  <1>3. CASE Throttled
    BY <1>3 DEF Throttled, workerVars, ledgerVars
  <1>4. CASE Probe
    BY <1>1, <1>2, <1>4, PickedChunks DEF Probe, ToStable, NoCommand, Others
  <1>5. CASE StableReady
    BY <1>1, <1>2, <1>5, PickedChunks, SkewedSends DEF StableReady, NoCommand, RequestObserved, Others
  <1>6. CASE Observe
    BY <1>6 DEF Observe, NoCommand, Others
  <1>7. CASE Evaluate
    BY <1>1, <1>2, <1>7, PickedChunks DEF Evaluate, NoCommand, RequestObserved, Others
  <1> QED
    BY <1>3, <1>4, <1>5, <1>6, <1>7 DEF Decide

\* A worker takes a command out of a ring that is its own.
LEMMA TakenFacts ==
  ASSUME NEW s \in Seq(CommandType), s # <<>>, \A j \in DOMAIN s : s[j].to = "present"
  PROVE  Tail(s) \in Seq(CommandType) /\ \A j \in DOMAIN Tail(s) : Tail(s)[j].to = "present"
  <1> DEFINE T == CommandType
  <1> HIDE DEF T
  <1>1. /\ Tail(s) \in Seq(T) /\ Len(Tail(s)) = Len(s) - 1
        /\ \A j \in 1 .. Len(Tail(s)) : Tail(s)[j] = s[j + 1]
    BY HeadTailProperties DEF T
  <1>2. s \in Seq(T)
    BY DEF T
  <1>3. ASSUME NEW j \in DOMAIN Tail(s) PROVE Tail(s)[j].to = "present"
    <2>1. j \in 1 .. Len(Tail(s)) /\ j + 1 \in DOMAIN s
      BY <1>1, <1>2, <1>3
    <2> QED
      BY <1>1, <2>1
  <1> QED
    BY <1>1, <1>3 DEF T

\* Rings hold commands, and those of a worker were sent to it.
OwnInv ==
    /\ RingInv
    /\ worker \in [Chunks -> WorkerType]
    /\ OwnCommands

\* A step that starts no worker and sends nothing.
LEMMA OwnUntouched ==
  ASSUME OwnInv, UNCHANGED cmds, worker' \in [Chunks -> WorkerType],
         \A d \in Chunks : Running(d)' => Running(d)
  PROVE  OwnInv'
  BY DEF OwnInv, RingInv, OwnCommands

\* The ring of a worker that starts is new.
LEMMA OwnStarts ==
  ASSUME OwnInv, NEW n \in Chunks, worker' = [worker EXCEPT ![n] = "asking"],
         cmds' \in [Chunks -> Seq(CommandType)], cmds'[n] = <<>>,
         \A d \in Chunks \ {n} : Running(d) =>
             \A j \in DOMAIN cmds'[d] : cmds'[d][j].to = "present"
  PROVE  OwnInv'
  <1>1. worker' \in [Chunks -> WorkerType] /\ \A d \in Chunks \ {n} : worker'[d] = worker[d]
    BY DEF OwnInv, WorkerType
  <1>2. OwnCommands'
    <2> SUFFICES ASSUME NEW d \in Chunks, Running(d)', NEW j \in DOMAIN cmds'[d]
                 PROVE  cmds'[d][j].to = "present"
      BY DEF OwnCommands
    <2>1. d # n
      OBVIOUS
    <2> QED
      BY <1>1, <2>1 DEF Running
  <1> QED
    BY <1>1, <1>2 DEF OwnInv, RingInv

\* A new worker has nothing to read.
LEMMA NothingUnread == ASSUME NEW n PROVE Subscribed(n) = <<>>
  <1> DEFINE u == Unread(n)
  <1>1. u = <<>> /\ Subscribed(n) = [k \in DOMAIN u |-> [u[k] EXCEPT !.to = "earlier"]]
    BY DEF Unread, Subscribed
  <1> HIDE DEF u
  <1> QED
    BY <1>1

\* Rings are kept by the workers.
LEMMA WorksOwn == ASSUME OwnInv, NEW c \in Chunks, Works(c) PROVE OwnInv'
  <1>1. worker \in [Chunks -> WorkerType] /\ cmds \in [Chunks -> Seq(CommandType)]
    BY DEF OwnInv, RingInv
  <1>2. CASE Answer(c)
    BY <1>1, <1>2, OwnUntouched DEF Answer, Running, WorkerType
  <1>3. CASE Fetch(c) \/ Hear(c)
    <2>1. UNCHANGED <<worker, cmds>>
      BY <1>3, Zenon DEF Fetch, Hear
    <2> QED
      BY <1>1, <2>1, OwnUntouched DEF Running
  <1>4. CASE Complete(c)
    <2>1. worker' = [worker EXCEPT ![c] = "none"] /\ cmds' = [cmds EXCEPT ![c] = <<>>]
      BY <1>4 DEF Complete
    <2>2. worker' \in [Chunks -> WorkerType] /\ worker'[c] = "none"
          /\ \A d \in Chunks \ {c} : worker'[d] = worker[d]
      BY <1>1, <2>1 DEF WorkerType
    <2>3. cmds' \in [Chunks -> Seq(CommandType)] /\ \A d \in Chunks \ {c} : cmds'[d] = cmds[d]
      BY <1>1, <2>1
    <2> QED
      BY <2>2, <2>3 DEF OwnInv, RingInv, OwnCommands, Running
  <1>5. CASE Fail(c) \/ Killed(c)
    BY <1>1, <1>5, OwnUntouched DEF Fail, Killed, Ends, Running, WorkerType
  <1>6. CASE OnFailed(c)
    BY <1>1, <1>6, OwnUntouched DEF OnFailed, Running, WorkerType
  <1>7. CASE Retry(c)
    <2>1. /\ worker' = [worker EXCEPT ![c] = "asking"] /\ cmds' = [cmds EXCEPT ![c] = <<>>]
      BY <1>7, NothingUnread DEF Retry
    <2>2. cmds' \in [Chunks -> Seq(CommandType)] /\ cmds'[c] = <<>>
          /\ \A d \in Chunks \ {c} : cmds'[d] = cmds[d]
      BY <1>1, <2>1
    <2>3. \A d \in Chunks \ {c} : Running(d) =>
             \A j \in DOMAIN cmds'[d] : cmds'[d][j].to = "present"
      BY <2>2 DEF OwnInv, OwnCommands
    <2> QED
      BY <2>1, <2>2, <2>3, OwnStarts
  <1>8. CASE Rejected(c)
    <2>1. /\ worker[c] = "reading" /\ cmds[c] # <<>> /\ cmds' = [cmds EXCEPT ![c] = Tail(@)]
          /\ UNCHANGED worker
      BY <1>8 DEF Rejected, Reads
    <2>2. /\ Tail(cmds[c]) \in Seq(CommandType)
          /\ \A j \in DOMAIN Tail(cmds[c]) : Tail(cmds[c])[j].to = "present"
      BY <1>1, <2>1, TakenFacts DEF OwnInv, OwnCommands, Running
    <2>3. cmds' \in [Chunks -> Seq(CommandType)] /\ cmds'[c] = Tail(cmds[c])
          /\ \A d \in Chunks \ {c} : cmds'[d] = cmds[d]
      BY <1>1, <2>1, <2>2
    <2> QED
      BY <2>1, <2>2, <2>3 DEF OwnInv, RingInv, OwnCommands, Running
  <1>9. ASSUME NEW n \in Chunks, Split(c, n) PROVE OwnInv'
    <2>1. /\ worker[c] = "reading" /\ cmds[c] # <<>> /\ worker[n] = "none"
          /\ worker' = [worker EXCEPT ![n] = "asking"]
          /\ cmds' = [cmds EXCEPT ![c] = Tail(@), ![n] = <<>>]
      BY <1>9, NothingUnread, Zenon DEF Split, Reads
    <2>2. /\ Tail(cmds[c]) \in Seq(CommandType)
          /\ \A j \in DOMAIN Tail(cmds[c]) : Tail(cmds[c])[j].to = "present"
      BY <1>1, <2>1, TakenFacts DEF OwnInv, OwnCommands, Running
    <2>3. c # n
      BY <2>1
    <2>4. cmds' \in [Chunks -> Seq(CommandType)] /\ cmds'[c] = Tail(cmds[c]) /\ cmds'[n] = <<>>
          /\ \A d \in Chunks \ {c, n} : cmds'[d] = cmds[d]
      <3> DEFINE S == Seq(CommandType)
                 m == [cmds EXCEPT ![c] = Tail(cmds[c])]
      <3>1. cmds \in [Chunks -> S] /\ Tail(cmds[c]) \in S /\ <<>> \in S
        BY <1>1, <2>2
      <3> HIDE DEF S
      <3>2. m \in [Chunks -> S] /\ m[c] = Tail(cmds[c])
            /\ \A d \in Chunks \ {c} : m[d] = cmds[d]
        BY <3>1
      <3>3. cmds' = [m EXCEPT ![n] = <<>>]
        BY <2>1, Zenon
      <3> HIDE DEF m
      <3>4. cmds' \in [Chunks -> S] /\ cmds'[n] = <<>> /\ cmds'[c] = m[c]
            /\ \A d \in Chunks \ {c, n} : cmds'[d] = m[d]
        BY <2>3, <3>1, <3>2, <3>3
      <3> QED
        BY <3>2, <3>4 DEF S
    <2>5. \A d \in Chunks \ {n} : Running(d) =>
             \A j \in DOMAIN cmds'[d] : cmds'[d][j].to = "present"
      BY <2>2, <2>4 DEF OwnInv, OwnCommands
    <2> QED
      BY <2>1, <2>4, <2>5, OwnStarts
  <1> QED
    BY <1>2, <1>3, <1>4, <1>5, <1>6, <1>7, <1>8, <1>9 DEF Works

\* Rings are kept by every step.
LEMMA OwnKept == OwnInv /\ [Next]_vars => OwnInv'
  <1> SUFFICES ASSUME OwnInv, [Next]_vars PROVE OwnInv'
    OBVIOUS
  <1>1. ASSUME UNCHANGED <<cmds, worker>> PROVE OwnInv'
    BY <1>1 DEF OwnInv, RingInv, OwnCommands, Running
  <1>2. CASE Decide
    <2>1. UNCHANGED worker
      BY <1>2, DecideSends
    <2>2. ASSUME NEW c \in Chunks, NEW k \in Kinds, Sends(c, k) PROVE OwnInv'
      <3>1. RingInv /\ Sent(c, k)
        BY <2>2 DEF Sends, OwnInv
      <3>2. /\ cmds' \in [Chunks -> Seq(CommandType)]
            /\ \A d \in Chunks : d # c => cmds'[d] = cmds[d]
            /\ (\A j \in DOMAIN cmds[c] : cmds[c][j].to = "present")
                 => \A j \in DOMAIN cmds'[c] : cmds'[c][j].to = "present"
        BY <3>1, SentFacts
      <3>3. OwnCommands'
        BY <2>1, <3>2 DEF OwnInv, OwnCommands, Running
      <3> QED
        BY <2>1, <3>2, <3>3 DEF OwnInv, RingInv
    <2> QED
      BY <1>1, <1>2, <2>1, <2>2, DecideSends
  <1>3. CASE Sample
    BY <1>1, <1>3 DEF Sample, workerVars
  <1>4. CASE UNCHANGED vars
    BY <1>1, <1>4 DEF vars, workerVars
  <1> QED
    BY <1>2, <1>3, <1>4, WorksOwn, NextSplits

\* All rings are empty at the start.
LEMMA OwnAlways == Spec => []OwnInv
  <1>1. Init => OwnInv
    <2> SUFFICES ASSUME Init PROVE OwnInv
      OBVIOUS
    <2>1. cmds = [c \in Chunks |-> <<>>]
      BY DEF Init
    <2>2. worker \in [Chunks -> WorkerType]
      BY DEF Init, WorkerType
    <2> QED
      BY <2>1, <2>2 DEF OwnInv, RingInv, OwnCommands
  <1> QED
    BY <1>1, OwnKept, PTL DEF Spec

\* A worker never reads a command that was sent to an earlier worker of its id,
\* however long commands wait and however often the chunk is retried.
THEOREM CommandsReachTheirWorker == Spec => []OwnCommands
  BY OwnAlways, PTL DEF OwnInv

-----------------------------------------------------------------------------
(* Ended connections *)

\* An entry that the running worker made itself, with no progress of it unread, was
\* not idle for longer than the worker told nothing; what is not in use is clear.
TrustInv ==
    /\ quiet \in [Chunks -> Nat] /\ entry \in [Chunks -> [speed : Int, idle : Int]]
    /\ worker \in [Chunks -> WorkerType]
    /\ \A c \in Chunks : worker[c] = "none" => entry[c] = NoEntry /\ c \notin news
    /\ \A c \in Chunks : ~Running(c) => quiet[c] = 0
    /\ \A c \in Chunks : Running(c) /\ c \notin news /\ c \notin older
          => entry[c].idle <= quiet[c]

\* A tick makes both older by one.
LEMMA SampleTrust == TrustInv /\ Sample => TrustInv'
  <1> SUFFICES ASSUME TrustInv, Sample PROVE TrustInv'
    OBVIOUS
  <1> USE ConcurrencyAssumption
  <1>1. PICK s \in [Chunks -> Speeds] :
          entry' = [c \in Chunks |->
                IF c \in Active
                THEN [speed |-> s[c], idle |-> Min2(Idle, entry[c].idle + 1)]
                ELSE NoEntry]
    BY DEF Sample
  <1>2. /\ quiet' = [c \in Chunks |-> IF Running(c) THEN Min2(Idle, quiet[c] + 1) ELSE 0]
        /\ UNCHANGED <<worker, news, older>>
    BY DEF Sample, workerVars
  <1>3. quiet' \in [Chunks -> Nat]
    BY <1>2 DEF TrustInv, Min2
  <1>4. ASSUME NEW c \in Chunks
        PROVE  /\ entry'[c] \in [speed : Int, idle : Int]
               /\ entry[c] = NoEntry => entry'[c] = NoEntry
               /\ entry[c].idle <= quiet[c] => entry'[c].idle <= Min2(Idle, quiet[c] + 1)
    BY <1>1 DEF TrustInv, Min2, Speeds, NoEntry, Active
  <1>5. entry' \in [Chunks -> [speed : Int, idle : Int]]
    BY <1>1, <1>4
  <1> QED
    BY <1>2, <1>3, <1>4, <1>5 DEF TrustInv, Running

\* What is sent is unread, what is read restarts the time, and an entry that was
\* there before its worker is an older one.
LEMMA WorksTrust == ASSUME TrustInv, NEW c \in Chunks, Works(c) PROVE TrustInv'
  <1> USE DEF TrustInv, Running, WorkerType
  <1>1. CASE Answer(c)
    BY <1>1 DEF Answer, ledgerVars
  <1>2. CASE Fetch(c)
    <2>1. UNCHANGED <<worker, entry, older>> /\ worker[c] = "reading"
          /\ \/ news' = news \cup {c} /\ quiet' = [quiet EXCEPT ![c] = 0]
             \/ UNCHANGED <<news, quiet>>
      BY <1>2 DEF Fetch, ledgerVars
    <2> QED
      BY <2>1
  <1>3. CASE Hear(c)
    <2>1. /\ c \in news /\ news' = news \ {c} /\ UNCHANGED <<worker, older, quiet>>
          /\ \/ entry' = [entry EXCEPT ![c] = NewEntry]
             \/ entry' = [entry EXCEPT ![c].idle = 0]
             \/ c \in older /\ UNCHANGED entry
      BY <1>3 DEF Hear, Noted
    <2> QED
      BY <2>1 DEF NewEntry
  <1>4. CASE Complete(c)
    BY <1>4 DEF Complete, Forget, NoEntry
  <1>5. CASE Fail(c) \/ Killed(c)
    <2>1. /\ worker[c] # "none" /\ worker' = [worker EXCEPT ![c] = "ended"]
          /\ news' = news \/ news' = news \cup {c}
          /\ quiet' = [quiet EXCEPT ![c] = 0] /\ UNCHANGED <<entry, older>>
      BY <1>5 DEF Fail, Killed, Reads, Ends, ledgerVars
    <2> QED
      BY <2>1
  <1>6. CASE OnFailed(c)
    BY <1>6 DEF OnFailed, Forget, NoEntry
  <1>7. CASE Retry(c)
    <2>1. /\ worker[c] = "failed" /\ worker' = [worker EXCEPT ![c] = "asking"]
          /\ older' = older \cup ({c} \cap Active) /\ UNCHANGED <<news, entry, quiet>>
      BY <1>7 DEF Retry
    <2>2. c \in older' \/ entry[c].idle = -1
      BY <2>1 DEF Active, NoEntry
    <2> QED
      BY <2>1, <2>2
  <1>8. CASE Rejected(c)
    BY <1>8 DEF Rejected, ledgerVars
  <1>9. ASSUME NEW n \in Chunks, Split(c, n) PROVE TrustInv'
    <2>1. /\ worker[n] = "none" /\ worker' = [worker EXCEPT ![n] = "asking"]
          /\ UNCHANGED <<news, entry, older, quiet>>
      BY <1>9 DEF Split, ledgerVars
    <2>2. entry[n].idle = -1
      BY <2>1 DEF NoEntry
    <2> QED
      BY <2>1, <2>2
  <1> QED
    BY <1>1, <1>2, <1>3, <1>4, <1>5, <1>6, <1>7, <1>8, <1>9 DEF Works

\* Entries that can be trusted stay so.
LEMMA TrustAlways == Spec => []TrustInv
  <1>1. Init => TrustInv
    BY DEF Init, TrustInv, NoEntry, Running, WorkerType
  <1>2. TrustInv /\ [Next]_vars => TrustInv'
    <2> SUFFICES ASSUME TrustInv, [Next]_vars PROVE TrustInv'
      OBVIOUS
    <2>1. ASSUME UNCHANGED <<worker, news, ledgerVars, quiet>> PROVE TrustInv'
      BY <2>1 DEF TrustInv, Running, ledgerVars
    <2>2. CASE UNCHANGED vars
      BY <2>1, <2>2 DEF vars, workerVars
    <2> QED
      BY <2>1, <2>2, DecideSends, SampleTrust, WorksTrust, NextSplits
  <1> QED
    BY <1>1, <1>2, PTL DEF Spec

\* A running worker whose entry is its own is told to end only after it told nothing
\* for the idle time or after as many skewed splits as are allowed were asked of its
\* chunk, for every limit, however late or seldom progress is read.
THEOREM MovingAreSpared == Spec => MovingSpared
  <1>1. ASSUME PaceInv, SkewInv, OwnInv, TrustInv, [Next]_vars, NEW c \in Chunks,
               Kills(c), Running(c), c \notin news, c \notin older
        PROVE  quiet[c] >= Idle \/ cut[c] >= MaxSkewed
    <2>1. Decide /\ cmds'[c] # cmds[c] /\ cmds'[c][Len(cmds'[c])].kind = "kill"
      BY <1>1, CommandsDecide DEF Kills
    <2>2. PICK d \in Chunks, k \in Kinds : Sends(d, k)
      BY <2>1, DecideSends
    <2>3. /\ \A x \in Chunks : x # d => cmds'[x] = cmds[x]
          /\ cmds'[d][Len(cmds'[d])].kind = k
      BY <1>1, <2>2, SentFacts DEF Sends, OwnInv
    <2>4. entry[c].idle >= Idle \/ Ended(c)
      BY <2>1, <2>2, <2>3 DEF Sends
    <2>5. entry[c].idle <= quiet[c] /\ entry[c].idle \in Int /\ quiet[c] \in Nat
      BY <1>1 DEF TrustInv
    <2> QED
      BY <1>1, <2>4, <2>5, ConcurrencyAssumption DEF Ended, SkewInv
  <1>2. PaceInv /\ SkewInv /\ OwnInv /\ TrustInv /\ [Next]_vars =>
          [\A c \in Chunks : Kills(c) /\ Running(c) /\ c \notin news /\ c \notin older
              => quiet[c] >= Idle \/ cut[c] >= MaxSkewed]_vars
    BY <1>1
  <1> QED
    BY <1>2, PaceAlways, SkewAlways, OwnAlways, TrustAlways, PTL DEF Spec, MovingSpared
=============================================================================

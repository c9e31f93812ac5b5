---------------------------- MODULE QueueProofs ----------------------------
(***************************************************************************)
(* Theorems about TaskQueue for every number of tasks, paths, slots and    *)
(* calls, with any interleaving of calls, driver and downloads.            *)
(***************************************************************************)
EXTENDS TaskQueue, SequenceTheorems, FiniteSetTheorems, TLAPS

(* The inductive invariant *)

Holds(q, u) == \E k \in DOMAIN q : q[k] = u
Distinct(q) == \A j, k \in DOMAIN q : q[j] = q[k] => j = k

\* The types of what the queue keeps under its lock.
Typed ==
    /\ all \in [Tasks -> StateType] /\ path \in [Tasks -> Paths \cup {None}]
    /\ queue \in Seq(Tasks) /\ active \in [Tasks -> Nat]
    /\ spawned \in Nat
    /\ run \in [Runs -> RunType]

\* A run has a task exactly when it was spawned.
RunsSpawned ==
    \A r \in Runs :
        /\ r > spawned => run[r].fut = "none" /\ run[r].task = None
        /\ r <= spawned => run[r].task \in Tasks /\ run[r].fut # "none"

\* A task waits in the queue at most once, and not beside an entry or a run.  It
\* is Queued, or Failed if the error of an earlier run came late.
QueueRight ==
    /\ Distinct(queue)
    /\ \A t \in Tasks : Holds(queue, t) => active[t] = 0 /\ all[t] \in {"Queued", "Failed"}
    /\ \A t \in Tasks : all[t] = "Queued" => Holds(queue, t)

\* An entry is for a run of its task, which is Active; an Active task has an
\* entry or is between the two locks of pump.
ActiveRight ==
    /\ \A t \in Tasks : active[t] # 0 =>
          active[t] \in Runs /\ run[active[t]].task = t /\ all[t] = "Active"
    /\ \A t \in Tasks : all[t] = "Active" => active[t] # 0 \/ Starting(t)
    /\ pc = "spawned" =>
          /\ spawned \in Runs
          /\ all[run[spawned].task] = "Active" /\ active[run[spawned].task] = 0

\* A download that was not told to stop is the one its entry is for, or is about
\* to be entered, or belongs to a task that has ended by a late result.
RunningRight ==
    \A r \in Runs : run[r].fut = "run" =>
        LET t == run[r].task IN
        \/ all[t] = "Active" /\ (active[t] = r \/ (pc = "spawned" /\ r = spawned))
        \/ all[t] \in Terminal /\ ~Holds(queue, t)

QInv == Typed /\ RunsSpawned /\ QueueRight /\ ActiveRight /\ RunningRight

\* The entries leave room for the run that is about to be entered.
RoomInv == ActiveBounded /\ (pc = "spawned" => Cardinality(Entries) < Max)

\* What excuses a path from being given out twice.
Excuse(v) == all[v] = "Removed" \/ Restarted(v)
Excused(p) == \E v \in Tasks : path[v] = p /\ Excuse(v)

\* A task with a run was enqueued; a task that ended has a joined run.
RunsKnown ==
    \A r \in Runs : run[r].task \in Tasks => all[run[r].task] # "none"
EndedJoined ==
    \A t \in Tasks : all[t] \in {"Completed", "Failed"} =>
        \E r \in Runs : run[r].task = t /\ run[r].fut = "joined"

\* The path of an unfinished task is occupied or was freed twice.
PathsOccupied ==
    \A t \in Tasks : Unfinished(t) => path[t] \in occupied \/ Excused(path[t])

PathInv == RunsKnown /\ EndedJoined /\ PathsOccupied /\ PathsKept
-----------------------------------------------------------------------------
(* The queue as a sequence *)

\* Pushing an element that is not there to the back (enqueue) adds it and no other.
LEMMA PushBack ==
    ASSUME NEW S, NEW q \in Seq(S), NEW t \in S, Distinct(q), ~Holds(q, t)
    PROVE  /\ Append(q, t) \in Seq(S) /\ Distinct(Append(q, t))
           /\ \A u : Holds(Append(q, t), u) <=> Holds(q, u) \/ u = t
<1> DEFINE a == Append(q, t)
<1>1. a \in Seq(S) /\ Len(a) = Len(q) + 1 /\ DOMAIN a = 1 .. Len(q) + 1
  BY AppendProperties
<1>2. a[Len(q) + 1] = t /\ \A i \in 1 .. Len(q) : a[i] = q[i]
  BY AppendProperties
<1>3. DOMAIN q = 1 .. Len(q) /\ Len(q) \in Nat
  OBVIOUS
<1> HIDE DEF a
<1>4. Distinct(a)
  BY <1>1, <1>2, <1>3 DEF Distinct, Holds
<1>5. ASSUME NEW u PROVE Holds(a, u) <=> Holds(q, u) \/ u = t
  BY <1>1, <1>2, <1>3 DEF Holds
<1> QED BY <1>1, <1>4, <1>5 DEF a

\* So does pushing it to the front (resume).
LEMMA PushFront ==
    ASSUME NEW S, NEW q \in Seq(S), NEW t \in S, Distinct(q), ~Holds(q, t)
    PROVE  /\ <<t>> \o q \in Seq(S) /\ Distinct(<<t>> \o q)
           /\ \A u : Holds(<<t>> \o q, u) <=> Holds(q, u) \/ u = t
<1> DEFINE a == <<t>> \o q
<1>0. <<t>> \in Seq(S) /\ Len(<<t>>) = 1 /\ <<t>>[1] = t
  OBVIOUS
<1>1. a \in Seq(S) /\ Len(a) = Len(q) + 1 /\ DOMAIN a = 1 .. Len(q) + 1
  BY <1>0, ConcatProperties
<1>2. a[1] = t /\ \A i \in 1 .. Len(a) : i # 1 => a[i] = q[i - 1]
  BY <1>0, <1>1, ConcatProperties
<1>3. DOMAIN q = 1 .. Len(q) /\ Len(q) \in Nat
  OBVIOUS
<1> HIDE DEF a
<1>4. Distinct(a)
  <2> SUFFICES ASSUME NEW j \in DOMAIN a, NEW k \in DOMAIN a, a[j] = a[k] PROVE j = k
    BY DEF Distinct
  <2>1. ASSUME NEW i \in DOMAIN a, i # 1
        PROVE  i - 1 \in DOMAIN q /\ a[i] = q[i - 1] /\ a[i] # t
    <3>1. i - 1 \in DOMAIN q
      BY <2>1, <1>1, <1>3
    <3>2. a[i] = q[i - 1]
      BY <2>1, <1>1, <1>2
    <3> QED BY <3>1, <3>2 DEF Holds
  <2>2. CASE j = 1 \/ k = 1
    BY <2>1, <2>2, <1>2
  <2>3. CASE j # 1 /\ k # 1
    <3>1. j - 1 = k - 1
      BY <2>1, <2>3 DEF Distinct
    <3> QED BY <3>1, <1>1
  <2> QED BY <2>2, <2>3
<1>5. ASSUME NEW u PROVE Holds(a, u) <=> Holds(q, u) \/ u = t
  <2>1. ASSUME Holds(q, u) PROVE Holds(a, u)
    <3>1. PICK k \in 1 .. Len(q) : q[k] = u
      BY <2>1, <1>3 DEF Holds
    <3>2. k + 1 \in DOMAIN a /\ a[k + 1] = u
      BY <3>1, <1>1, <1>2, <1>3
    <3> QED BY <3>2 DEF Holds
  <2>2. u = t => Holds(a, u)
    BY <1>1, <1>2, <1>3 DEF Holds
  <2>3. ASSUME Holds(a, u), u # t PROVE Holds(q, u)
    BY <2>3, <1>1, <1>2, <1>3 DEF Holds
  <2> QED BY <2>1, <2>2, <2>3
<1> QED BY <1>1, <1>4, <1>5 DEF a

\* pop_front removes the head and no other.
LEMMA PopFront ==
    ASSUME NEW S, NEW q \in Seq(S), Distinct(q), q # <<>>
    PROVE  /\ Head(q) \in S /\ Holds(q, Head(q))
           /\ Tail(q) \in Seq(S) /\ Distinct(Tail(q))
           /\ \A u : Holds(Tail(q), u) <=> Holds(q, u) /\ u # Head(q)
<1> DEFINE a == Tail(q)
<1>1. a \in Seq(S) /\ Len(a) = Len(q) - 1 /\ \A i \in 1 .. Len(a) : a[i] = q[i + 1]
  BY HeadTailProperties
<1>2. Head(q) = q[1] /\ Head(q) \in S /\ Len(q) \in Nat \ {0} /\ DOMAIN q = 1 .. Len(q)
  BY HeadTailProperties
<1>3. DOMAIN a = 1 .. Len(q) - 1
  BY <1>1
<1> HIDE DEF a
<1>4. Distinct(a)
  BY <1>1, <1>2, <1>3 DEF Distinct
<1>5. ASSUME NEW u PROVE Holds(a, u) <=> Holds(q, u) /\ u # Head(q)
  <2>1. ASSUME Holds(a, u) PROVE Holds(q, u) /\ u # Head(q)
    <3>1. PICK k \in 1 .. Len(q) - 1 : a[k] = u
      BY <2>1, <1>3 DEF Holds
    <3>2. k + 1 \in DOMAIN q /\ q[k + 1] = u /\ k + 1 # 1 /\ 1 \in DOMAIN q
      BY <3>1, <1>1, <1>2
    <3> QED BY <3>2, <1>2 DEF Holds, Distinct
  <2>2. ASSUME Holds(q, u), u # Head(q) PROVE Holds(a, u)
    <3>1. PICK k \in 1 .. Len(q) : q[k] = u
      BY <2>2, <1>2 DEF Holds
    <3>2. k # 1 /\ k - 1 \in DOMAIN a /\ a[k - 1] = u
      BY <3>1, <2>2, <1>1, <1>2, <1>3
    <3> QED BY <3>2 DEF Holds
  <2> QED BY <2>1, <2>2
<1>6. Holds(q, Head(q))
  BY <1>2 DEF Holds
<1> QED BY <1>1, <1>2, <1>4, <1>5, <1>6 DEF a

\* Removing one position removes its element and no other.
LEMMA RemovePosition ==
    ASSUME NEW S, NEW q \in Seq(S), Distinct(q), NEW k \in 1 .. Len(q)
    PROVE  LET a == SubSeq(q, 1, k - 1) \o SubSeq(q, k + 1, Len(q)) IN
           /\ a \in Seq(S) /\ Distinct(a)
           /\ \A u : Holds(a, u) <=> Holds(q, u) /\ u # q[k]
<1> DEFINE b == SubSeq(q, 1, k - 1)
           c == SubSeq(q, k + 1, Len(q))
           a == b \o c
<1>1. b \in Seq(S) /\ Len(b) = k - 1 /\ \A i \in 1 .. k - 1 : b[i] = q[i]
  BY SubSeqProperties
<1>2. c \in Seq(S) /\ Len(c) = Len(q) - k /\ \A i \in 1 .. Len(q) - k : c[i] = q[k + i]
  BY SubSeqProperties
<1> HIDE DEF b, c
<1>3. a \in Seq(S) /\ Len(a) = Len(q) - 1
  <2>1. a \in Seq(S) /\ Len(a) = Len(b) + Len(c)
    BY <1>1, <1>2, ConcatProperties
  <2>2. Len(q) \in Nat
    OBVIOUS
  <2> HIDE DEF a
  <2> QED BY <2>1, <2>2, <1>1, <1>2
<1>4. \A i \in 1 .. Len(q) - 1 : a[i] = IF i < k THEN q[i] ELSE q[i + 1]
  <2> SUFFICES ASSUME NEW i \in 1 .. Len(q) - 1 PROVE a[i] = IF i < k THEN q[i] ELSE q[i + 1]
    OBVIOUS
  <2>1. a[i] = IF i <= Len(b) THEN b[i] ELSE c[i - Len(b)]
    BY <1>1, <1>2, <1>3, ConcatProperties
  <2>2. CASE i < k
    BY <2>1, <2>2, <1>1
  <2>3. CASE ~(i < k)
    <3>1. i - (k - 1) \in 1 .. Len(q) - k /\ k + (i - (k - 1)) = i + 1
      BY <2>3
    <3>2. c[i - (k - 1)] = q[i + 1]
      BY <3>1, <1>2
    <3> QED BY <2>1, <2>3, <3>2, <1>1
  <2> QED BY <2>2, <2>3
<1>5. DOMAIN a = 1 .. Len(q) - 1 /\ DOMAIN q = 1 .. Len(q) /\ Len(q) \in Nat
  BY <1>3
<1> HIDE DEF a
<1>6. Distinct(a)
  <2> DEFINE At(i) == IF i < k THEN i ELSE i + 1
  <2>1. ASSUME NEW i \in DOMAIN a PROVE At(i) \in DOMAIN q /\ a[i] = q[At(i)]
    BY <2>1, <1>4, <1>5
  <2> SUFFICES ASSUME NEW i \in DOMAIN a, NEW j \in DOMAIN a, a[i] = a[j] PROVE i = j
    BY DEF Distinct
  <2>2. At(i) = At(j)
    <3> HIDE DEF At
    <3> QED BY <2>1 DEF Distinct
  <2> QED BY <2>2, <1>5
<1>7. ASSUME NEW u PROVE Holds(a, u) <=> Holds(q, u) /\ u # q[k]
  <2>1. ASSUME Holds(a, u) PROVE Holds(q, u) /\ u # q[k]
    <3>1. PICK i \in 1 .. Len(q) - 1 : a[i] = u
      BY <2>1, <1>5 DEF Holds
    <3>2. \E j \in 1 .. Len(q) : q[j] = u /\ j # k
      <4>1. CASE i < k
        BY <4>1, <3>1, <1>4
      <4>2. CASE ~(i < k)
        <5>1. i + 1 \in 1 .. Len(q) /\ i + 1 # k
          BY <4>2
        <5> QED BY <5>1, <4>2, <3>1, <1>4
      <4> QED BY <4>1, <4>2
    <3> QED BY <3>2, <1>5 DEF Holds, Distinct
  <2>2. ASSUME Holds(q, u), u # q[k] PROVE Holds(a, u)
    <3>1. PICK j \in 1 .. Len(q) : q[j] = u /\ j # k
      BY <2>2, <1>5 DEF Holds
    <3>2. CASE j < k
      <4>1. j \in DOMAIN a /\ a[j] = u
        BY <3>1, <3>2, <1>4, <1>5
      <4> QED BY <4>1 DEF Holds
    <3>3. CASE j > k
      <4>1. j - 1 \in 1 .. Len(q) - 1 /\ ~(j - 1 < k) /\ (j - 1) + 1 = j
        BY <3>1, <3>3
      <4>2. j - 1 \in DOMAIN a /\ a[j - 1] = u
        BY <4>1, <3>1, <1>4, <1>5
      <4> QED BY <4>2 DEF Holds
    <3> QED BY <3>1, <3>2, <3>3
  <2> QED BY <2>1, <2>2
<1> QED BY <1>3, <1>6, <1>7 DEF a, b, c

\* Dropping a queued task (pause, cancel) removes it and no other.
LEMMA DroppedRemoves ==
    ASSUME NEW t \in Tasks, queue \in Seq(Tasks), Distinct(queue), Holds(queue, t)
    PROVE  /\ Dropped(t) \in Seq(Tasks) /\ Distinct(Dropped(t))
           /\ \A u : Holds(Dropped(t), u) <=> Holds(queue, u) /\ u # t
<1> DEFINE First(j) == queue[j] = t /\ \A i \in 1 .. j - 1 : queue[i] # t
           k == CHOOSE j \in DOMAIN queue : First(j)
<1>1. \E j \in DOMAIN queue : First(j)
  <2>1. PICK j \in DOMAIN queue : queue[j] = t
    BY DEF Holds
  <2>2. \A i \in 1 .. j - 1 : queue[i] # t
    <3>1. \A i \in 1 .. j - 1 : i \in DOMAIN queue /\ i # j
      OBVIOUS
    <3> QED BY <2>1, <3>1 DEF Distinct
  <2> QED BY <2>1, <2>2
<1>2. k \in DOMAIN queue /\ First(k)
  BY <1>1
<1>3. Dropped(t) = SubSeq(queue, 1, k - 1) \o SubSeq(queue, k + 1, Len(queue))
  BY DEF Dropped
<1> HIDE DEF k
<1>4. k \in 1 .. Len(queue) /\ queue[k] = t
  BY <1>2
<1> QED BY <1>3, <1>4, RemovePosition
-----------------------------------------------------------------------------
(* What the steps do to the runs *)

\* A step that changes the fields of runs, spawns none and wakes none up.
RunsKept ==
    /\ run' \in [Runs -> RunType]
    /\ \A r \in Runs :
          /\ run'[r].task = run[r].task
          /\ run'[r].fut = "run" => run[r].fut = "run"
          /\ run'[r].fut = "none" <=> run[r].fut = "none"
          /\ run[r].fut = "joined" => run'[r].fut = "joined"

\* A step that leaves alone what the invariants speak of.
Quiet ==
    /\ UNCHANGED <<all, path, queue, active, occupied, spawned>>
    /\ pc' = "spawned" <=> pc = "spawned"
    /\ RunsKept

\* Replacing the state of one future.
LEMMA SetFut ==
    ASSUME NEW r \in Runs, NEW f \in FutType, run \in [Runs -> RunType]
    PROVE  LET new == [run EXCEPT ![r].fut = f] IN
           /\ new \in [Runs -> RunType]
           /\ \A s \in Runs : new[s].task = run[s].task
                           /\ new[s].fut = IF s = r THEN f ELSE run[s].fut
<1> DEFINE m == [run[r] EXCEPT !.fut = f]
<1>1. run[r] \in RunType
  OBVIOUS
<1>2. m \in RunType /\ m.task = run[r].task /\ m.fut = f
  BY <1>1 DEF RunType
<1>3. [run EXCEPT ![r].fut = f] = [run EXCEPT ![r] = m]
  OBVIOUS
<1> HIDE DEF m
<1> QED BY <1>2, <1>3

\* Replacing the state of one future's files.
LEMMA SetDisk ==
    ASSUME NEW r \in Runs, NEW d \in DiskType, run \in [Runs -> RunType]
    PROVE  LET new == [run EXCEPT ![r].disk = d] IN
           /\ new \in [Runs -> RunType]
           /\ \A s \in Runs : new[s].task = run[s].task /\ new[s].fut = run[s].fut
<1> DEFINE m == [run[r] EXCEPT !.disk = d]
<1>1. run[r] \in RunType
  OBVIOUS
<1>2. m \in RunType /\ m.task = run[r].task /\ m.fut = run[r].fut
  BY <1>1 DEF RunType
<1>3. [run EXCEPT ![r].disk = d] = [run EXCEPT ![r] = m]
  OBVIOUS
<1> HIDE DEF m
<1> QED BY <1>2, <1>3

\* Every step of a download is quiet.
LEMMA DownloadQuiet ==
    ASSUME NEW r \in Runs, Typed, Download(r) PROVE Quiet
<1>0. UNCHANGED <<all, path, queue, active, occupied, spawned, pc>>
  BY DEF Download, Prepare, OpenOutput, FinishOk, FinishErr, Cancelled, WriterExit,
         stateVars, driverVars
<1>1. ASSUME NEW d \in DiskType, run' = [run EXCEPT ![r].disk = d] PROVE Quiet
  <2>1. run' \in [Runs -> RunType]
    BY <1>1, SetDisk DEF Typed
  <2>2. \A s \in Runs : run'[s].task = run[s].task /\ run'[s].fut = run[s].fut
    BY <1>1, SetDisk DEF Typed
  <2> QED BY <1>0, <2>1, <2>2 DEF Quiet, RunsKept
<1>2. ASSUME NEW f \in FutType, run[r].fut \in {"run", "abort"},
             f \notin {"run", "none", "joined"},
             \/ run' = [run EXCEPT ![r].fut = f]
             \/ run' = [run EXCEPT ![r].fut = f, ![r].disk = "closed"]
      PROVE  Quiet
  <2>0. "closed" \in DiskType
    BY DEF DiskType
  <2>1. /\ run' \in [Runs -> RunType]
        /\ \A s \in Runs : run'[s].task = run[s].task
                        /\ run'[s].fut = IF s = r THEN f ELSE run[s].fut
    <3>1. CASE run' = [run EXCEPT ![r].fut = f]
      BY <1>2, <3>1, SetFut, Zenon DEF Typed
    <3>2. CASE run' = [run EXCEPT ![r].fut = f, ![r].disk = "closed"]
      <4> DEFINE m == [run[r] EXCEPT !.fut = f, !.disk = "closed"]
      <4>1. run[r] \in RunType
        BY DEF Typed
      <4>2. m \in RunType /\ m.task = run[r].task /\ m.fut = f
        BY <1>2, <2>0, <4>1 DEF RunType
      <4>3. run' = [run EXCEPT ![r] = m]
        BY <3>2
      <4> HIDE DEF m
      <4> QED BY <4>2, <4>3 DEF Typed
    <3> QED BY <1>2, <3>1, <3>2
  <2> QED BY <1>0, <1>2, <2>1 DEF Quiet, RunsKept
<1>3. CASE Prepare(r)
  <2> DEFINE d == IF run[r].fut \in Ended THEN "closed"
                  ELSE IF file[Where(r)] # None /\ meta[Where(r)] # None
                       THEN "continue" ELSE "truncate"
  <2>1. d \in DiskType /\ run' = [run EXCEPT ![r].disk = d]
    BY <1>3 DEF Prepare, DiskType
  <2> HIDE DEF d
  <2> QED BY <1>1, <2>1
<1>4. CASE OpenOutput(r)
  <2> DEFINE d == IF run[r].fut \in Ended THEN "closed" ELSE "open"
  <2>1. d \in DiskType /\ run' = [run EXCEPT ![r].disk = d]
    BY <1>4 DEF OpenOutput, DiskType
  <2> HIDE DEF d
  <2> QED BY <1>1, <2>1
<1>5. CASE FinishOk(r)
  <2>1. /\ run[r].fut \in {"run", "abort"} /\ "ok" \in FutType
        /\ run' = [run EXCEPT ![r].fut = "ok", ![r].disk = "closed"]
    BY <1>5 DEF FinishOk, FutType
  <2> QED BY <1>2, <2>1
<1>6. CASE FinishErr(r)
  <2>1. /\ run[r].fut \in {"run", "abort"} /\ "err" \in FutType
        /\ run' = [run EXCEPT ![r].fut = "err", ![r].disk = "closed"]
    BY <1>6 DEF FinishErr, FutType
  <2> QED BY <1>2, <2>1
<1>7. CASE Cancelled(r)
  <2>1. /\ run[r].fut \in {"run", "abort"} /\ "cancelled" \in FutType
        /\ run' = [run EXCEPT ![r].fut = "cancelled"]
    BY <1>7 DEF Cancelled, FutType
  <2> QED BY <1>2, <2>1
<1>8. CASE WriterExit(r)
  <2>1. run' = [run EXCEPT ![r].disk = "closed"] /\ "closed" \in DiskType
    BY <1>8 DEF WriterExit, DiskType
  <2> QED BY <1>1, <2>1
<1> QED BY <1>3, <1>4, <1>5, <1>6, <1>7, <1>8 DEF Download

\* Aborting a run stops it, or leaves it as it ended.
LEMMA AbortKeeps ==
    ASSUME Typed, NEW r \in Runs, run' = Aborted(r) PROVE RunsKept /\ run'[r].fut # "run"
<1> DEFINE f == IF run[r].fut = "run" THEN "abort" ELSE run[r].fut
<1>1. f \in FutType /\ run' = [run EXCEPT ![r].fut = f]
  BY DEF Typed, RunType, FutType, Aborted
<1>2. /\ run' \in [Runs -> RunType]
      /\ \A s \in Runs : run'[s].task = run[s].task
                      /\ run'[s].fut = IF s = r THEN f ELSE run[s].fut
  <2> HIDE DEF f
  <2> QED BY <1>1, SetFut DEF Typed
<1> QED BY <1>2 DEF RunsKept

\* The steps of the driver and of the callers that touch neither a state nor the
\* queue nor an entry.
OtherStep ==
    \/ RecvPump \/ PumpEnd \/ FlushTick \/ FlushBegin \/ FlushEnd
    \/ \E p \in Paths : FlushFile(p) \/ FlushMeta(p)
    \/ \E t \in Tasks : CancelDelete(t)
    \/ \E r \in Runs : JoinCancelled(r)

\* They are quiet.
LEMMA OtherQuiet ==
    ASSUME Typed, OtherStep PROVE Quiet
<1> USE DEF Quiet, RunsKept, stateVars, driverVars, Typed
<1>1. CASE RecvPump BY <1>1 DEF RecvPump
<1>2. CASE PumpEnd BY <1>2 DEF PumpEnd
<1>3. CASE FlushTick BY <1>3 DEF FlushTick
<1>4. CASE FlushBegin BY <1>4 DEF FlushBegin
<1>5. CASE FlushEnd BY <1>5 DEF FlushEnd
<1>6. ASSUME NEW p \in Paths, FlushFile(p) \/ FlushMeta(p) PROVE Quiet
  BY <1>6 DEF FlushFile, FlushMeta
<1>7. ASSUME NEW t \in Tasks, CancelDelete(t) PROVE Quiet
  BY <1>7 DEF CancelDelete
<1>8. ASSUME NEW r \in Runs, JoinCancelled(r) PROVE Quiet
  <2>1. run' = [run EXCEPT ![r].fut = "joined"] /\ "joined" \in FutType
    BY <1>8 DEF JoinCancelled, FutType
  <2> QED BY <1>8, <2>1, SetFut DEF JoinCancelled
<1> QED BY <1>1, <1>2, <1>3, <1>4, <1>5, <1>6, <1>7, <1>8 DEF OtherStep

\* A quiet step keeps the invariant.
LEMMA QuietKeepsQueue ==
    ASSUME QInv, Quiet PROVE QInv'
<1> USE DEF Quiet, RunsKept, QInv
<1>1. Typed'
  BY DEF Typed
<1>2. RunsSpawned'
  BY DEF RunsSpawned
<1>3. QueueRight'
  BY DEF QueueRight
<1>4. ActiveRight'
  BY DEF ActiveRight, Starting, RunsSpawned
<1>5. RunningRight'
  BY DEF RunningRight
<1> QED BY <1>1, <1>2, <1>3, <1>4, <1>5
-----------------------------------------------------------------------------
(* The steps that move a task *)

\* Where a step spawns no run, runs keep their numbers.
LEMMA RunsStaySpawned ==
    ASSUME QInv, RunsKept, spawned' = spawned PROVE RunsSpawned'
BY DEF QInv, RunsKept, RunsSpawned

\* A step may leave all runs as they are.
LEMMA RunsUntouched ==
    ASSUME Typed, run' = run PROVE RunsKept
BY DEF Typed, RunsKept

\* A running download, and the one about to be entered, has a task.
LEMMA RunHasTask ==
    ASSUME QInv
    PROVE  /\ \A r \in Runs : run[r].fut = "run" => run[r].task \in Tasks
           /\ pc = "spawned" => spawned \in Runs /\ run[spawned].task \in Tasks
<1>1. \A r \in Runs : r <= spawned \/ r > spawned
  BY DEF QInv, Typed, Runs
<1> QED BY <1>1 DEF QInv, ActiveRight, RunsSpawned, Runs

\* enqueue.
LEMMA EnqueueKeeps ==
    ASSUME QInv, NEW t \in Tasks, NEW p \in Paths, Enqueue(t, p) PROVE QInv'
<1>0. /\ all[t] = "none" /\ queue' = Append(queue, t)
      /\ all' = [all EXCEPT ![t] = "Queued"] /\ path' = [path EXCEPT ![t] = p]
      /\ UNCHANGED <<active, pc, spawned, run>>
  BY DEF Enqueue, driverVars
<1>1. Typed /\ Distinct(queue) /\ ~Holds(queue, t) /\ active[t] = 0 /\ RunsKept
  BY <1>0, RunsUntouched DEF QInv, QueueRight, ActiveRight
<1>2. /\ queue' \in Seq(Tasks) /\ Distinct(queue')
      /\ \A u : Holds(queue', u) <=> Holds(queue, u) \/ u = t
  <2>1. queue \in Seq(Tasks)
    BY <1>1 DEF Typed
  <2> QED BY <1>0, <1>1, <2>1, PushBack
<1>3. Typed'
  BY <1>0, <1>1, <1>2 DEF Typed, StateType
<1>4. \A u \in Tasks : all'[u] = IF u = t THEN "Queued" ELSE all[u]
  BY <1>0, <1>1 DEF Typed
<1>5. QueueRight'
  BY <1>0, <1>1, <1>2, <1>4 DEF QInv, QueueRight
<1>6. pc = "spawned" => run[spawned].task \in Tasks
  BY RunHasTask
<1>7. ActiveRight'
  BY <1>0, <1>1, <1>4, <1>6 DEF QInv, ActiveRight, Starting
<1>8. RunningRight'
  <2> SUFFICES ASSUME NEW r \in Runs, run[r].fut = "run"
               PROVE  LET u == run[r].task IN
                      \/ all'[u] = "Active" /\ (active[u] = r \/ (pc = "spawned" /\ r = spawned))
                      \/ all'[u] \in Terminal /\ ~Holds(queue', u)
    BY <1>0 DEF RunningRight
  <2>1. run[r].task \in Tasks
    BY RunHasTask
  <2>2. run[r].task # t
    BY <1>0 DEF QInv, RunningRight, Terminal
  <2> QED BY <1>2, <1>4, <2>1, <2>2 DEF QInv, RunningRight
<1> QED BY <1>1, <1>0, <1>3, <1>5, <1>7, <1>8, RunsStaySpawned DEF QInv

\* pause of an active task, and cancel of one: the entry goes, its run is aborted.
LEMMA StopActiveKeeps ==
    ASSUME QInv, NEW t \in Tasks, PauseActive(t) \/ CancelActive(t) PROVE QInv'
<1> DEFINE s == IF PauseActive(t) THEN "Paused" ELSE "Removed"
           a == active[t]
<1>0. /\ a # 0 /\ active' = [active EXCEPT ![t] = 0] /\ run' = Aborted(a)
      /\ s \in {"Paused", "Removed"} /\ all' = [all EXCEPT ![t] = s]
      /\ UNCHANGED <<path, queue, pc, spawned>>
  BY DEF PauseActive, CancelActive, driverVars
<1> HIDE DEF s
<1>1. a \in Runs /\ run[a].task = t /\ all[t] = "Active" /\ ~Holds(queue, t) /\ Typed
  BY <1>0 DEF QInv, ActiveRight, QueueRight
<1> HIDE DEF a
<1>2. RunsKept /\ run'[a].fut # "run"
  BY <1>0, <1>1, AbortKeeps
<1>3. Typed'
  BY <1>0, <1>1, <1>2 DEF Typed, StateType, Terminal, RunsKept
<1>4. \A u \in Tasks : /\ all'[u] = IF u = t THEN s ELSE all[u]
                       /\ active'[u] = IF u = t THEN 0 ELSE active[u]
  BY <1>0, <1>1 DEF Typed
<1>5. QueueRight'
  BY <1>0, <1>1, <1>4 DEF QInv, QueueRight
<1>6. \A r \in Runs : run'[r].task = run[r].task
  BY <1>2 DEF RunsKept
<1>7. pc = "spawned" => run[spawned].task # t
  BY <1>0, <1>1 DEF QInv, ActiveRight, a
<1>8. ActiveRight'
  BY <1>0, <1>1, <1>4, <1>6, <1>7, RunHasTask DEF QInv, ActiveRight, Starting
<1>9. RunningRight'
  <2> SUFFICES ASSUME NEW r \in Runs, run'[r].fut = "run"
               PROVE  LET u == run[r].task IN
                      \/ all'[u] = "Active" /\ (active'[u] = r \/ (pc = "spawned" /\ r = spawned))
                      \/ all'[u] \in Terminal /\ ~Holds(queue, u)
    BY <1>0, <1>6 DEF RunningRight
  <2>1. run[r].fut = "run" /\ r # a
    BY <1>2 DEF RunsKept
  <2>2. run[r].task \in Tasks
    BY <2>1, RunHasTask
  <2>3. run[r].task # t
    BY <1>1, <1>7, <2>1 DEF QInv, RunningRight, Terminal, a
  <2> QED BY <1>4, <2>1, <2>2, <2>3 DEF QInv, RunningRight
<1> QED BY <1>0, <1>2, <1>3, <1>5, <1>8, <1>9, RunsStaySpawned DEF QInv

\* pause or cancel of a task without an entry, and its way out of the queue.
LEMMA StopIdleKeeps ==
    ASSUME QInv, NEW t \in Tasks, PauseQueued(t) \/ CancelIdle(t) PROVE QInv'
<1> DEFINE s == IF PauseQueued(t) THEN "Paused" ELSE "Removed"
<1>0. /\ active[t] = 0
      /\ queue' = IF Queued(t) THEN Dropped(t) ELSE queue
      /\ Queued(t) \/ all[t] \in {"Paused", "Completed", "Failed"}
      /\ s = "Removed" \/ (s = "Paused" /\ Queued(t))
      /\ all' = [all EXCEPT ![t] = s]
      /\ UNCHANGED <<path, active, pc, spawned, run>>
  BY DEF PauseQueued, CancelIdle, driverVars
<1> HIDE DEF s
<1>1. Typed /\ Distinct(queue) /\ RunsKept /\ (Queued(t) <=> Holds(queue, t))
  BY <1>0, RunsUntouched DEF QInv, QueueRight, Queued, Holds
<1>2. /\ queue' \in Seq(Tasks) /\ Distinct(queue')
      /\ \A u : Holds(queue', u) <=> Holds(queue, u) /\ u # t
  <2>1. queue \in Seq(Tasks)
    BY <1>1 DEF Typed
  <2>2. CASE Queued(t)
    BY <1>0, <1>1, <2>1, <2>2, DroppedRemoves
  <2>3. CASE ~Queued(t)
    BY <1>0, <1>1, <2>1, <2>3
  <2> QED BY <2>2, <2>3
<1>3. Typed'
  BY <1>0, <1>1, <1>2 DEF Typed, StateType, Terminal
<1>4. \A u \in Tasks : all'[u] = IF u = t THEN s ELSE all[u]
  BY <1>0, <1>1 DEF Typed
<1>5. QueueRight'
  BY <1>0, <1>2, <1>4 DEF QInv, QueueRight
<1>6. all[t] # "Active"
  BY <1>0, <1>1 DEF QInv, QueueRight
<1>7. ActiveRight'
  BY <1>0, <1>4, <1>6, RunHasTask DEF QInv, ActiveRight, Starting
<1>8. RunningRight'
  <2> SUFFICES ASSUME NEW r \in Runs, run[r].fut = "run"
               PROVE  LET u == run[r].task IN
                      \/ all'[u] = "Active" /\ (active[u] = r \/ (pc = "spawned" /\ r = spawned))
                      \/ all'[u] \in Terminal /\ ~Holds(queue', u)
    BY <1>0 DEF RunningRight
  <2>1. run[r].task \in Tasks
    BY RunHasTask
  <2>2. CASE run[r].task = t
    <3>1. all[t] \in Terminal /\ ~Holds(queue, t)
      BY <1>6, <2>2 DEF QInv, RunningRight
    <3>2. s = "Removed"
      BY <1>0, <1>1, <3>1
    <3> QED BY <1>2, <1>4, <2>1, <2>2, <3>2 DEF Terminal
  <2>3. CASE run[r].task # t
    BY <1>2, <1>4, <2>1, <2>3 DEF QInv, RunningRight
  <2> QED BY <2>2, <2>3
<1> QED BY <1>0, <1>1, <1>3, <1>5, <1>7, <1>8, RunsStaySpawned DEF QInv

\* resume.
LEMMA ResumeKeeps ==
    ASSUME QInv, NEW t \in Tasks, Resume(t) PROVE QInv'
<1>0. /\ all[t] = "Paused" /\ queue' = <<t>> \o queue
      /\ all' = [all EXCEPT ![t] = "Queued"]
      /\ UNCHANGED <<path, active, pc, spawned, run>>
  BY DEF Resume, Requeued, driverVars
<1>1. Typed /\ Distinct(queue) /\ ~Holds(queue, t) /\ active[t] = 0 /\ RunsKept
  BY <1>0, RunsUntouched DEF QInv, QueueRight, ActiveRight
<1>2. /\ queue' \in Seq(Tasks) /\ Distinct(queue')
      /\ \A u : Holds(queue', u) <=> Holds(queue, u) \/ u = t
  <2>1. queue \in Seq(Tasks)
    BY <1>1 DEF Typed
  <2> QED BY <1>0, <1>1, <2>1, PushFront
<1>3. Typed'
  BY <1>0, <1>1, <1>2 DEF Typed, StateType
<1>4. \A u \in Tasks : all'[u] = IF u = t THEN "Queued" ELSE all[u]
  BY <1>0, <1>1 DEF Typed
<1>5. QueueRight'
  BY <1>0, <1>1, <1>2, <1>4 DEF QInv, QueueRight
<1>6. ActiveRight'
  BY <1>0, <1>1, <1>4, RunHasTask DEF QInv, ActiveRight, Starting
<1>7. RunningRight'
  <2> SUFFICES ASSUME NEW r \in Runs, run[r].fut = "run"
               PROVE  LET u == run[r].task IN
                      \/ all'[u] = "Active" /\ (active[u] = r \/ (pc = "spawned" /\ r = spawned))
                      \/ all'[u] \in Terminal /\ ~Holds(queue', u)
    BY <1>0 DEF RunningRight
  <2>1. run[r].task \in Tasks /\ run[r].task # t
    BY <1>0, RunHasTask DEF QInv, RunningRight, Terminal
  <2> QED BY <1>2, <1>4, <2>1 DEF QInv, RunningRight
<1> QED BY <1>0, <1>1, <1>3, <1>5, <1>6, <1>7, RunsStaySpawned DEF QInv

\* pump, first lock: the head of the queue is marked Active and spawned.
LEMMA PumpPopKeeps ==
    ASSUME QInv, PumpPop PROVE QInv'
<1> DEFINE t == Head(queue)
           n == [NoRun EXCEPT !.task = t, !.fut = "run"]
<1>0. /\ pc = "pump" /\ queue # <<>> /\ spawned < MaxRuns /\ pc' = "spawned"
      /\ all' = [all EXCEPT ![t] = "Active"]
      /\ run' = [run EXCEPT ![spawned + 1] = n]
      /\ queue' = Tail(queue) /\ spawned' = spawned + 1
      /\ UNCHANGED <<path, active>>
  BY DEF PumpPop
<1>1. Typed /\ Distinct(queue) /\ queue \in Seq(Tasks)
  BY DEF QInv, QueueRight, Typed
<1>2. /\ t \in Tasks /\ Holds(queue, t)
      /\ queue' \in Seq(Tasks) /\ Distinct(queue')
      /\ \A u : Holds(queue', u) <=> Holds(queue, u) /\ u # t
  BY <1>0, <1>1, PopFront
<1>3. n \in RunType /\ n.task = t /\ n.fut = "run"
  BY <1>2 DEF NoRun, RunType, FutType, DiskType
<1> HIDE DEF n, t
<1>4. active[t] = 0 /\ all[t] \in {"Queued", "Failed"}
  BY <1>2 DEF QInv, QueueRight
<1>5. spawned + 1 \in Runs /\ spawned \in Nat /\ MaxRuns \in Nat
  BY <1>0, <1>1, QueueAssumption DEF Typed, Runs
<1>6. Typed'
  BY <1>0, <1>1, <1>2, <1>3, <1>5 DEF Typed, StateType
<1>7. /\ \A u \in Tasks : all'[u] = IF u = t THEN "Active" ELSE all[u]
      /\ \A r \in Runs : run'[r] = IF r = spawned + 1 THEN n ELSE run[r]
  BY <1>0, <1>1, <1>5 DEF Typed
<1>8. RunsSpawned'
  BY <1>0, <1>2, <1>3, <1>5, <1>7 DEF QInv, RunsSpawned, Runs
<1>9. QueueRight'
  BY <1>0, <1>2, <1>4, <1>7 DEF QInv, QueueRight
<1>10. ActiveRight'
  <2>1. ASSUME NEW u \in Tasks, active[u] # 0
        PROVE  active[u] \in Runs /\ run'[active[u]].task = u /\ all'[u] = "Active"
    <3>1. active[u] \in Runs /\ run[active[u]].task = u /\ all[u] = "Active"
      BY <2>1 DEF QInv, ActiveRight
    <3>2. active[u] # spawned + 1
      <4>1. spawned + 1 > spawned
        BY <1>5
      <4>2. run[spawned + 1].task = None
        BY <4>1, <1>5 DEF QInv, RunsSpawned
      <4> QED BY <3>1, <4>2, QueueAssumption
    <3> QED BY <2>1, <3>1, <3>2, <1>4, <1>7
  <2>2. ASSUME NEW u \in Tasks, all'[u] = "Active"
        PROVE  active[u] # 0 \/ run'[spawned + 1].task = u
    BY <2>2, <1>0, <1>3, <1>5, <1>7 DEF QInv, ActiveRight, Starting
  <2>3. all'[run'[spawned + 1].task] = "Active" /\ active[run'[spawned + 1].task] = 0
    BY <1>2, <1>3, <1>4, <1>5, <1>7
  <2> QED BY <1>0, <1>5, <2>1, <2>2, <2>3 DEF ActiveRight, Starting
<1>11. RunningRight'
  <2> SUFFICES ASSUME NEW r \in Runs, run'[r].fut = "run"
               PROVE  LET u == run'[r].task IN
                      \/ all'[u] = "Active" /\ (active[u] = r \/ r = spawned + 1)
                      \/ all'[u] \in Terminal /\ ~Holds(queue', u)
    BY <1>0 DEF RunningRight
  <2>1. CASE r = spawned + 1
    BY <2>1, <1>2, <1>3, <1>7
  <2>2. CASE r # spawned + 1
    <3>1. run[r].fut = "run" /\ run'[r].task = run[r].task /\ run[r].task \in Tasks
      BY <2>2, <1>7, RunHasTask
    <3>2. run[r].task # t
      BY <3>1, <1>2, <1>4 DEF QInv, RunningRight
    <3> QED BY <3>1, <3>2, <1>0, <1>2, <1>7 DEF QInv, RunningRight
  <2> QED BY <2>1, <2>2
<1> QED BY <1>6, <1>8, <1>9, <1>10, <1>11 DEF QInv

\* pump, second lock: the run is entered.  Its task is still Active: pause and
\* cancel do not find it between the two locks, and the driver is here.
LEMMA PumpInsertKeeps ==
    ASSUME QInv, PumpInsert PROVE QInv'
<1> DEFINE t == run[spawned].task
<1>1. pc = "spawned" /\ pc' = "pump" /\ UNCHANGED <<all, path, queue, spawned>>
  BY DEF PumpInsert
<1>2. t \in Tasks /\ spawned \in Runs /\ all[t] = "Active" /\ active[t] = 0 /\ Typed
  BY <1>1, RunHasTask DEF QInv, ActiveRight
<1>3. active' = [active EXCEPT ![t] = spawned] /\ run' = run
  BY <1>2 DEF PumpInsert
<1>4. \A u \in Tasks : active'[u] = IF u = t THEN spawned ELSE active[u]
  BY <1>2, <1>3 DEF Typed
<1>5. Typed'
  BY <1>1, <1>2, <1>3 DEF Typed
<1>6. RunsKept
  BY <1>2, <1>3, RunsUntouched
<1> HIDE DEF t
<1>7. QueueRight'
  BY <1>1, <1>2, <1>4 DEF QInv, QueueRight
<1>8. ActiveRight'
  <2>1. run[spawned].task = t /\ spawned # 0
    BY <1>2 DEF t, Runs
  <2> QED BY <1>1, <1>2, <1>3, <1>4, <2>1 DEF QInv, ActiveRight, Starting
<1>9. RunningRight'
  <2> SUFFICES ASSUME NEW r \in Runs, run[r].fut = "run"
               PROVE  LET u == run[r].task IN
                      \/ all[u] = "Active" /\ active'[u] = r
                      \/ all[u] \in Terminal /\ ~Holds(queue, u)
    BY <1>1, <1>3 DEF RunningRight
  <2>1. run[r].task \in Tasks
    BY RunHasTask
  <2>2. Runs \subseteq Nat /\ 0 \notin Runs
    BY DEF Runs
  <2>3. CASE r = spawned
    BY <2>1, <2>3, <1>2, <1>4 DEF t
  <2>4. CASE r # spawned
    <3>1. \/ all[run[r].task] = "Active" /\ active[run[r].task] = r
          \/ all[run[r].task] \in Terminal /\ ~Holds(queue, run[r].task)
      BY <2>4 DEF QInv, RunningRight
    <3>2. active[run[r].task] = r => run[r].task # t
      BY <1>2, <2>2
    <3> QED BY <3>1, <3>2, <2>1, <1>4
  <2> QED BY <2>3, <2>4
<1> QED BY <1>1, <1>5, <1>6, <1>7, <1>8, <1>9, RunsStaySpawned DEF QInv

\* What a result does to the state of its task.
LEMMA OutcomeCases ==
    ASSUME NEW s \in StateType, NEW f \in {"ok", "err"}
    PROVE  /\ Outcome(s, f) \in StateType /\ Outcome(s, f) # "Active"
           /\ s \in {"Removed", "Paused"} => Outcome(s, f) = s
           /\ s \in Terminal \cup {"Active"} => Outcome(s, f) \in Terminal
           /\ s \in {"Queued", "Failed"} => Outcome(s, f) \in {s, "Failed"}
           /\ Outcome(s, f) = "Queued" => s = "Queued"
           /\ Outcome(s, f) \in {s, "Completed", "Failed"}
BY DEF Outcome, StateType, Terminal

\* The facts on_complete's step is made of.
LEMMA JoinFacts ==
    ASSUME QInv, NEW r \in Runs, JoinResult(r)
    PROVE  LET t == run[r].task
               s == Outcome(all[t], run[r].fut)
           IN
           /\ t \in Tasks /\ run[r].fut \in {"ok", "err"} /\ all[t] \in StateType
           /\ pc = "idle" /\ pc' = "pump" /\ UNCHANGED <<path, queue, spawned>>
           /\ \A u \in Tasks : /\ active'[u] = IF u = t THEN 0 ELSE active[u]
                               /\ all'[u] = IF u = t THEN s ELSE all[u]
           /\ occupied' = IF s \in {"Completed", "Failed"} THEN occupied \ {path[t]}
                          ELSE occupied
           /\ Typed' /\ RunsKept /\ run'[r].fut = "joined"
<1> DEFINE t == run[r].task
           s == Outcome(all[t], run[r].fut)
<1>0. /\ pc = "idle" /\ run[r].fut \in {"ok", "err"} /\ pc' = "pump"
      /\ run' = [run EXCEPT ![r].fut = "joined"]
      /\ active' = [active EXCEPT ![t] = 0] /\ all' = [all EXCEPT ![t] = s]
      /\ occupied' = IF s \in {"Completed", "Failed"} THEN occupied \ {path[t]} ELSE occupied
      /\ UNCHANGED <<path, queue, spawned>>
  BY DEF JoinResult
<1>1. Typed /\ (r <= spawned \/ r > spawned)
  BY DEF QInv, Typed, Runs
<1>2. t \in Tasks
  BY <1>0, <1>1 DEF QInv, RunsSpawned
<1>3. all[t] \in StateType /\ s \in StateType
  <2>1. all[t] \in StateType
    BY <1>1, <1>2 DEF Typed
  <2> QED BY <2>1, <1>0, OutcomeCases
<1>4. "joined" \in FutType
  BY DEF FutType
<1>5. /\ run' \in [Runs -> RunType]
      /\ \A q \in Runs : run'[q].task = run[q].task
                      /\ run'[q].fut = IF q = r THEN "joined" ELSE run[q].fut
  BY <1>0, <1>1, <1>4, SetFut DEF Typed
<1>6. RunsKept /\ run'[r].fut = "joined"
  BY <1>0, <1>5 DEF RunsKept
<1> HIDE DEF s, t
<1>7. Typed'
  BY <1>0, <1>1, <1>2, <1>3, <1>5 DEF Typed
<1>8. \A u \in Tasks : /\ active'[u] = IF u = t THEN 0 ELSE active[u]
                       /\ all'[u] = IF u = t THEN s ELSE all[u]
  BY <1>0, <1>1, <1>2 DEF Typed
<1> QED BY <1>0, <1>2, <1>3, <1>6, <1>7, <1>8 DEF s, t

\* on_complete.
LEMMA JoinResultKeeps ==
    ASSUME QInv, NEW r \in Runs, JoinResult(r) PROVE QInv'
<1> DEFINE t == run[r].task
           s == Outcome(all[t], run[r].fut)
<1>1. /\ t \in Tasks /\ run[r].fut \in {"ok", "err"} /\ all[t] \in StateType
      /\ pc = "idle" /\ pc' = "pump" /\ UNCHANGED <<path, queue, spawned>>
      /\ \A u \in Tasks : /\ active'[u] = IF u = t THEN 0 ELSE active[u]
                          /\ all'[u] = IF u = t THEN s ELSE all[u]
      /\ Typed' /\ RunsKept
  BY JoinFacts
<1>2. /\ s # "Active"
      /\ all[t] \in Terminal \cup {"Active"} => s \in Terminal
      /\ all[t] \in {"Queued", "Failed"} => s \in {all[t], "Failed"}
      /\ s = "Queued" => all[t] = "Queued"
  BY <1>1, OutcomeCases
<1> HIDE DEF t, s
<1>3. QueueRight'
  BY <1>1, <1>2 DEF QInv, QueueRight
<1>4. ActiveRight'
  BY <1>1, <1>2 DEF QInv, ActiveRight, Starting, RunsKept
<1>5. RunningRight'
  <2> SUFFICES ASSUME NEW q \in Runs, run'[q].fut = "run"
               PROVE  LET u == run[q].task IN
                      \/ all'[u] = "Active" /\ active'[u] = q
                      \/ all'[u] \in Terminal /\ ~Holds(queue, u)
    BY <1>1 DEF RunningRight, RunsKept
  <2>1. run[q].fut = "run" /\ run[q].task \in Tasks
    BY <1>1, RunHasTask DEF RunsKept
  <2>2. CASE run[q].task = t
    <3>1. all[t] \in Terminal \cup {"Active"} /\ ~Holds(queue, t)
      BY <2>1, <2>2, <1>1 DEF QInv, RunningRight, QueueRight
    <3> QED BY <3>1, <2>2, <1>1, <1>2
  <2>3. CASE run[q].task # t
    BY <2>1, <2>3, <1>1 DEF QInv, RunningRight
  <2> QED BY <2>2, <2>3
<1> QED BY <1>1, <1>3, <1>4, <1>5, RunsStaySpawned DEF QInv
-----------------------------------------------------------------------------
(* The invariants *)

\* The steps of the specification, grouped as the lemmas treat them.
LEMMA NextSteps ==
    ASSUME Typed, [Next]_vars
    PROVE  \/ Quiet
           \/ \E t \in Tasks : \E p \in Paths : Enqueue(t, p)
           \/ \E t \in Tasks : PauseActive(t) \/ CancelActive(t)
           \/ \E t \in Tasks : PauseQueued(t) \/ CancelIdle(t)
           \/ \E t \in Tasks : Resume(t)
           \/ PumpPop \/ PumpInsert
           \/ \E r \in Runs : JoinResult(r)
<1>1. CASE UNCHANGED vars
  BY <1>1 DEF vars, stateVars, driverVars, Quiet, RunsKept, Typed
<1>2. ASSUME NEW r \in Runs, Download(r) PROVE Quiet
  BY <1>2, DownloadQuiet
<1>3. OtherStep => Quiet
  BY OtherQuiet
<1> QED BY <1>1, <1>2, <1>3 DEF Next, CallStep, DriverStep, OtherStep

\* The invariant of the queue holds initially.
LEMMA QueueInit ==
    ASSUME Init PROVE QInv
<1> USE DEF Init
<1>1. Typed
  <2>1. NoRun \in RunType
    BY DEF NoRun, RunType, FutType, DiskType
  <2> QED BY <2>1 DEF Typed, StateType
<1>2. RunsSpawned
  BY DEF RunsSpawned, NoRun, Runs
<1>3. QueueRight
  <2>1. DOMAIN queue = {}
    OBVIOUS
  <2> QED BY <2>1 DEF QueueRight, Distinct, Holds
<1>4. ActiveRight
  BY DEF ActiveRight
<1>5. RunningRight
  BY DEF RunningRight, NoRun
<1> QED BY <1>1, <1>2, <1>3, <1>4, <1>5 DEF QInv

\* Every step keeps it.
LEMMA QueueStep ==
    ASSUME QInv, [Next]_vars PROVE QInv'
<1>1. Typed
  BY DEF QInv
<1> QED BY <1>1, NextSteps, QuietKeepsQueue, EnqueueKeeps, StopActiveKeeps, StopIdleKeeps,
           ResumeKeeps, PumpPopKeeps, PumpInsertKeeps, JoinResultKeeps

\* Queue, entries, states and running downloads agree in every reachable state.
THEOREM QueueInvariant == Spec => []QInv
BY QueueInit, QueueStep, PTL DEF Spec

\* No task is lost between the queue, the entries and the two locks of pump.
THEOREM TasksNotLost == Spec => []NoTaskLost
<1>1. ASSUME QInv PROVE NoTaskLost
  BY <1>1 DEF QInv, QueueRight, ActiveRight, NoTaskLost, Holds, Distinct, Queued
<1> QED BY <1>1, QueueInvariant, PTL

\* No download of a paused task goes on unstopped, whatever was on its way.
THEOREM PausedTasksQuiet == Spec => []PausedIsQuiet
<1>1. ASSUME QInv PROVE PausedIsQuiet
  BY <1>1 DEF QInv, RunningRight, PausedIsQuiet, Terminal
<1> QED BY <1>1, QueueInvariant, PTL

\* A step leaves a removed task removed.
LEMMA RemovedStays ==
    ASSUME QInv, [Next]_vars, NEW t \in Tasks, all[t] = "Removed"
    PROVE  all'[t] = "Removed"
<1>0. Typed /\ active[t] = 0 /\ ~Holds(queue, t)
  BY DEF QInv, ActiveRight, QueueRight
<1>1. CASE Quiet
  BY <1>1 DEF Quiet
<1>2. ASSUME NEW u \in Tasks, NEW p \in Paths, Enqueue(u, p) PROVE all'[t] = "Removed"
  BY <1>2, <1>0 DEF Enqueue, Typed
<1>3. ASSUME NEW u \in Tasks, PauseActive(u) \/ CancelActive(u) PROVE all'[t] = "Removed"
  BY <1>3, <1>0 DEF PauseActive, CancelActive, Typed
<1>4. ASSUME NEW u \in Tasks, PauseQueued(u) \/ CancelIdle(u) PROVE all'[t] = "Removed"
  BY <1>4, <1>0 DEF PauseQueued, CancelIdle, Typed, Queued, Holds
<1>5. ASSUME NEW u \in Tasks, Resume(u) PROVE all'[t] = "Removed"
  BY <1>5, <1>0 DEF Resume, Typed
<1>6. CASE PumpPop
  <2>1. queue # <<>> /\ all' = [all EXCEPT ![Head(queue)] = "Active"]
    BY <1>6 DEF PumpPop
  <2>2. Distinct(queue) /\ queue \in Seq(Tasks)
    BY DEF QInv, QueueRight, Typed
  <2>3. Head(queue) # t
    BY <1>0, <2>1, <2>2, PopFront
  <2> QED BY <2>1, <2>3, <1>0 DEF Typed
<1>7. CASE PumpInsert
  BY <1>7 DEF PumpInsert
<1>8. ASSUME NEW r \in Runs, JoinResult(r) PROVE all'[t] = "Removed"
  BY <1>8, JoinFacts, OutcomeCases
<1> QED BY <1>0, <1>1, <1>2, <1>3, <1>4, <1>5, <1>6, <1>7, <1>8, NextSteps

\* No late result, pump or call brings a cancelled task back.
THEOREM RemovalIsFinal == Spec => RemovedIsFinal
<1>1. ASSUME QInv, [Next]_vars
      PROVE  [\A t \in Tasks : all[t] = "Removed" => all'[t] = "Removed"]_vars
  BY <1>1, RemovedStays
<1> QED BY <1>1, QueueInvariant, PTL DEF Spec, RemovedIsFinal
-----------------------------------------------------------------------------
(* The limit on active downloads *)

\* The entries are finitely many.
LEMMA EntriesFinite ==
    /\ IsFiniteSet(Entries) /\ Cardinality(Entries) \in Nat
    /\ IsFiniteSet(Entries') /\ Cardinality(Entries') \in Nat
<1>1. Entries \subseteq Tasks /\ Entries' \subseteq Tasks
  BY DEF Entries
<1>2. IsFiniteSet(Entries) /\ IsFiniteSet(Entries')
  BY <1>1, QueueAssumption, FS_Subset
<1> QED BY <1>2, FS_CardinalityType

\* Dropping entries keeps the limit.
LEMMA FewerEntries ==
    ASSUME RoomInv, Entries' \subseteq Entries, pc' = "spawned" => pc = "spawned"
    PROVE  RoomInv'
<1>1. Cardinality(Entries') <= Cardinality(Entries)
  BY EntriesFinite, FS_Subset
<1>2. Max \in Nat
  BY QueueAssumption
<1> QED BY <1>1, <1>2, EntriesFinite DEF RoomInv, ActiveBounded

\* Every step keeps the limit, and the room found under the first lock of pump.
LEMMA RoomStep ==
    ASSUME QInv, RoomInv, [Next]_vars PROVE RoomInv'
<1>0. Typed
  BY DEF QInv
<1>1. CASE Quiet
  BY <1>1, FewerEntries DEF Quiet, Entries
<1>2. ASSUME NEW u \in Tasks, NEW p \in Paths, Enqueue(u, p) PROVE RoomInv'
  BY <1>2, FewerEntries DEF Enqueue, driverVars, Entries
<1>3. ASSUME NEW u \in Tasks, PauseActive(u) \/ CancelActive(u) PROVE RoomInv'
  <2>1. active' = [active EXCEPT ![u] = 0] /\ pc' = pc
    BY <1>3 DEF PauseActive, CancelActive, driverVars
  <2>2. Entries' \subseteq Entries
    BY <2>1, <1>0 DEF Entries, Typed
  <2> QED BY <2>1, <2>2, FewerEntries
<1>4. ASSUME NEW u \in Tasks, PauseQueued(u) \/ CancelIdle(u) PROVE RoomInv'
  BY <1>4, FewerEntries DEF PauseQueued, CancelIdle, driverVars, Entries
<1>5. ASSUME NEW u \in Tasks, Resume(u) PROVE RoomInv'
  BY <1>5, FewerEntries DEF Resume, driverVars, Entries
<1>6. CASE PumpPop
  <2>1. active' = active /\ HasRoom
    BY <1>6 DEF PumpPop
  <2>2. Entries' = Entries
    BY <2>1 DEF Entries
  <2> QED BY <2>1, <2>2 DEF RoomInv, ActiveBounded, HasRoom
<1>7. CASE PumpInsert
  <2> DEFINE t == run[spawned].task
  <2>1. pc = "spawned" /\ pc' = "pump"
    BY <1>7 DEF PumpInsert
  <2>2. t \in Tasks /\ spawned \in Runs /\ all[t] = "Active" /\ active[t] = 0
    BY <2>1, RunHasTask DEF QInv, ActiveRight
  <2>3. active' = [active EXCEPT ![t] = spawned]
    BY <1>7, <2>2 DEF PumpInsert
  <2>4. \A u \in Tasks : active'[u] = IF u = t THEN spawned ELSE active[u]
    BY <1>0, <2>2, <2>3 DEF Typed
  <2> HIDE DEF t
  <2>5. Entries' = Entries \cup {t} /\ t \notin Entries
    <3>1. spawned # 0
      BY <2>2 DEF Runs
    <3> QED BY <2>2, <2>4, <3>1 DEF Entries
  <2>6. Cardinality(Entries') = Cardinality(Entries) + 1
    BY <2>5, EntriesFinite, FS_AddElement
  <2>7. Max \in Nat
    BY QueueAssumption
  <2> QED BY <2>1, <2>6, <2>7, EntriesFinite DEF RoomInv, ActiveBounded
<1>8. ASSUME NEW r \in Runs, JoinResult(r) PROVE RoomInv'
  <2>1. /\ pc' = "pump"
        /\ \A u \in Tasks : active'[u] = IF u = run[r].task THEN 0 ELSE active[u]
    BY <1>8, JoinFacts
  <2>2. Entries' \subseteq Entries
    BY <2>1 DEF Entries
  <2> QED BY <2>1, <2>2, FewerEntries
<1> QED BY <1>0, <1>1, <1>2, <1>3, <1>4, <1>5, <1>6, <1>7, <1>8, NextSteps

\* active.len() never exceeds max, although it is read under one lock of pump and
\* the entry is made under another.
THEOREM ActiveStaysBounded == Spec => []ActiveBounded
<1>1. ASSUME Init PROVE RoomInv
  <2>1. Entries = {} /\ pc # "spawned"
    BY <1>1 DEF Init, Entries
  <2>2. Cardinality(Entries) = 0
    BY <2>1, FS_EmptySet
  <2> QED BY <2>1, <2>2, QueueAssumption DEF RoomInv, ActiveBounded
<1>2. RoomInv => ActiveBounded
  BY DEF RoomInv
<1> QED BY <1>1, <1>2, RoomStep, QueueInvariant, PTL DEF Spec
-----------------------------------------------------------------------------
(* The output paths *)

\* Runs keep their tasks, and a joined one stays joined.
RunsGrow ==
    \A r \in Runs : /\ run[r].task \in Tasks => run'[r].task = run[r].task
                    /\ run[r].fut = "joined" => run'[r].fut = "joined"

\* A task started again stays so, unless it is cancelled.
LEMMA RestartedStays ==
    ASSUME RunsGrow, NEW v \in Tasks, Restarted(v),
           Unfinished(v) => \/ Unfinished(v)' \/ all'[v] = "Removed"
                            \/ \E s \in Runs : run[s].task = v /\ run[s].fut # "joined"
    PROVE  Excuse(v)'
<1>1. PICK r \in Runs : /\ run[r].task = v /\ run[r].fut = "joined"
                        /\ Unfinished(v) \/ \E s \in Runs \ {r} : run[s].task = v
  BY DEF Restarted
<1>2. run'[r].task = v /\ run'[r].fut = "joined"
  BY <1>1 DEF RunsGrow
<1>3. ASSUME NEW s \in Runs \ {r}, run[s].task = v PROVE Restarted(v)'
  BY <1>2, <1>3 DEF Restarted, RunsGrow
<1>4. Unfinished(v)' => Restarted(v)'
  BY <1>2 DEF Restarted
<1> QED BY <1>1, <1>3, <1>4 DEF Excuse

\* A task that had ended and goes on is one that was started again.
LEMMA EndedGoesOn ==
    ASSUME EndedJoined, RunsGrow, NEW t \in Tasks, all[t] \in {"Completed", "Failed"},
           Unfinished(t)'
    PROVE  Excuse(t)'
BY DEF EndedJoined, RunsGrow, Excuse, Restarted

\* Paths stay kept if excuses last, only n gets a path, a free one, a task that
\* goes on is excused, and a path is freed only with an excuse.
LEMMA PathsKeptOn ==
    ASSUME PathsOccupied, PathsKept, NEW n,
           \A v \in Tasks : Excuse(v) => Excuse(v)' /\ path'[v] = path[v],
           \A v \in Tasks : Unfinished(v)' =>
               \/ Unfinished(v) /\ path'[v] = path[v]
               \/ Excuse(v)'
               \/ v = n /\ path'[v] \in occupied' /\ path'[v] \notin occupied,
           \A v \in Tasks :
               Unfinished(v) /\ Unfinished(v)' /\ path[v] \in occupied \ occupied' =>
               \E w \in Tasks : path'[w] = path[v] /\ Excuse(w)'
    PROVE  PathsOccupied' /\ PathsKept'
<1> DEFINE Ex(p) == \E w \in Tasks : path'[w] = p /\ Excuse(w)'
<1>1. ASSUME NEW p, Excused(p) PROVE Ex(p)
  BY <1>1 DEF Excused
<1>2. ASSUME NEW v \in Tasks, Unfinished(v)' PROVE path'[v] \in occupied' \/ Ex(path'[v])
  <2>1. CASE Unfinished(v) /\ path'[v] = path[v]
    BY <1>1, <1>2, <2>1 DEF PathsOccupied
  <2>2. CASE Excuse(v)'
    BY <2>2
  <2> QED BY <1>2, <2>1, <2>2
<1>3. ASSUME NEW t \in Tasks, NEW u \in Tasks, t # u, Unfinished(t)', Unfinished(u)',
             path'[t] = path'[u]
      PROVE  Ex(path'[t])
  <2>1. CASE Excuse(t)' \/ Excuse(u)'
    BY <1>3, <2>1
  <2>2. CASE Unfinished(t) /\ path'[t] = path[t] /\ Unfinished(u) /\ path'[u] = path[u]
    <3>1. Sharing(t, u)
      BY <1>3, <2>2 DEF Sharing
    <3>2. Excused(path[t])
      BY <3>1 DEF PathsKept, Excused, Excuse
    <3> QED BY <1>1, <2>2, <3>2
  <2>3. ASSUME NEW a \in Tasks, NEW b \in Tasks, path'[a] = path'[b],
               path'[a] \notin occupied, Unfinished(b), path'[b] = path[b]
        PROVE  Ex(path'[a])
    BY <1>1, <2>3 DEF PathsOccupied
  <2> QED BY <1>3, <2>1, <2>2, <2>3
<1>4. PathsOccupied'
  BY <1>2 DEF PathsOccupied, Excused
<1>5. PathsKept'
  BY <1>3 DEF PathsKept, Sharing, Excuse
<1> QED BY <1>4, <1>5

\* A step that changes no state and frees no path keeps the paths.
LEMMA SameStates ==
    ASSUME PathInv, RunsGrow, UNCHANGED <<all, path, occupied>> PROVE PathsOccupied' /\ PathsKept'
<1>1. \A v \in Tasks : Unfinished(v)' = Unfinished(v)
  BY DEF Unfinished
<1>2. \A v \in Tasks : Excuse(v) => Excuse(v)'
  BY <1>1, RestartedStays DEF Excuse
<1> QED BY <1>1, <1>2, PathsKeptOn DEF PathInv

\* A step that moves one task, enqueued before, to the state s keeps the paths.
LEMMA OneMoves ==
    ASSUME QInv, PathInv, RunsGrow, NEW t \in Tasks, NEW s \in StateType, all[t] # "none",
           \A u \in Tasks : all'[u] = IF u = t THEN s ELSE all[u],
           path' = path,
           all[t] = "Removed" => s = "Removed",
           Unfinished(t) => \/ s \in {"Queued", "Active", "Paused", "Removed"}
                            \/ \E r \in Runs : run[r].task = t /\ run[r].fut # "joined",
           \/ occupied' = occupied
           \/ /\ occupied' = occupied \ {path[t]}
              /\ \/ s = "Removed"
                 \/ /\ s \in {"Completed", "Failed"}
                    /\ all[t] \in {"Completed", "Failed"} => Restarted(t)'
    PROVE  PathsOccupied' /\ PathsKept'
<1>1. \A v \in Tasks : v # t => Unfinished(v)' = Unfinished(v)
  BY DEF Unfinished
<1>2. Unfinished(t)' <=> s \in {"Queued", "Active", "Paused"}
  BY DEF Unfinished
<1>3. ASSUME NEW v \in Tasks, Excuse(v) PROVE Excuse(v)'
  <2>1. CASE all[v] = "Removed"
    BY <2>1 DEF Excuse
  <2>2. CASE Restarted(v)
    <3>1. CASE v = t
      BY <3>1, <2>2, <1>2, RestartedStays
    <3>2. CASE v # t
      BY <3>2, <2>2, <1>1, RestartedStays
    <3> QED BY <3>1, <3>2
  <2> QED BY <1>3, <2>1, <2>2 DEF Excuse
<1>4. ASSUME NEW v \in Tasks, Unfinished(v)' PROVE Unfinished(v) \/ Excuse(v)'
  <2>1. CASE v # t
    BY <1>1, <1>4, <2>1
  <2>2. CASE v = t /\ all[t] \in {"Completed", "Failed"}
    BY <1>4, <2>2, EndedGoesOn DEF PathInv
  <2>3. CASE v = t /\ all[t] \notin {"Completed", "Failed"}
    <3>1. all[t] \in StateType /\ all[t] # "Removed"
      BY <1>2, <1>4, <2>3 DEF QInv, Typed
    <3> QED BY <2>3, <3>1 DEF Unfinished, StateType, Terminal
  <2> QED BY <2>1, <2>2, <2>3
<1>5. ASSUME NEW v \in Tasks, Unfinished(v), Unfinished(v)', path[v] \in occupied,
             path[v] \notin occupied'
      PROVE  \E w \in Tasks : path'[w] = path[v] /\ Excuse(w)'
  <2>1. path[v] = path[t]
    BY <1>5
  <2>2. CASE s = "Removed"
    BY <2>1, <2>2 DEF Excuse
  <2>3. CASE s # "Removed"
    <3>1. s \in {"Completed", "Failed"} /\ v # t
      BY <1>2, <1>5, <2>3
    <3>2. CASE all[t] \in {"Completed", "Failed"}
      BY <1>5, <2>1, <3>2, <3>1 DEF Excuse
    <3>3. CASE all[t] \notin {"Completed", "Failed"}
      <4>1. all[t] \in StateType /\ all[t] # "Removed"
        BY <3>1 DEF QInv, Typed
      <4>2. Sharing(v, t)
        BY <1>5, <2>1, <3>1, <3>3, <4>1 DEF Sharing, Unfinished, StateType, Terminal
      <4>3. PICK w \in Tasks : path[w] = path[v] /\ Excuse(w)
        BY <4>2 DEF PathInv, PathsKept, Excuse
      <4> QED BY <4>3, <1>3
    <3> QED BY <3>2, <3>3
  <2> QED BY <2>2, <2>3
<1> QED BY <1>3, <1>4, <1>5, PathsKeptOn DEF PathInv

\* Where the runs are kept they grow.
LEMMA KeptRunsGrow ==
    ASSUME RunsKept PROVE RunsGrow
BY DEF RunsKept, RunsGrow

\* A quiet step.
LEMMA QuietKeepsPaths ==
    ASSUME PathInv, Quiet PROVE PathInv'
<1>1. RunsGrow /\ UNCHANGED <<all, path, occupied>>
  BY KeptRunsGrow DEF Quiet
<1>2. RunsKnown' /\ EndedJoined'
  BY <1>1 DEF PathInv, RunsKnown, EndedJoined, Quiet, RunsKept
<1> QED BY <1>1, <1>2, SameStates DEF PathInv

\* enqueue gives out a path that no unfinished task has, unless it is excused.
LEMMA EnqueueKeepsPaths ==
    ASSUME QInv, PathInv, NEW t \in Tasks, NEW p \in Paths, Enqueue(t, p) PROVE PathInv'
<1>0. /\ all[t] = "none" /\ p \notin occupied /\ occupied' = occupied \cup {p}
      /\ all' = [all EXCEPT ![t] = "Queued"] /\ path' = [path EXCEPT ![t] = p]
      /\ run' = run
  BY DEF Enqueue, Free
<1>1. /\ \A u \in Tasks : all'[u] = IF u = t THEN "Queued" ELSE all[u]
      /\ \A u \in Tasks : path'[u] = IF u = t THEN p ELSE path[u]
  BY <1>0 DEF QInv, Typed
<1>2. RunsGrow
  BY <1>0 DEF RunsGrow
<1>3. \A v \in Tasks : v # t => Unfinished(v)' = Unfinished(v)
  BY <1>1 DEF Unfinished
<1>4. ~Excuse(t)
  BY <1>0 DEF Excuse, Restarted, PathInv, RunsKnown
<1>5. \A v \in Tasks : Excuse(v) => Excuse(v)' /\ path'[v] = path[v]
  BY <1>1, <1>2, <1>3, <1>4, RestartedStays DEF Excuse
<1>6. PathsOccupied' /\ PathsKept'
  BY <1>0, <1>1, <1>3, <1>5, PathsKeptOn DEF PathInv
<1>7. RunsKnown' /\ EndedJoined'
  BY <1>0, <1>1 DEF PathInv, RunsKnown, EndedJoined
<1> QED BY <1>6, <1>7 DEF PathInv

\* pause and cancel.
LEMMA StopKeepsPaths ==
    ASSUME QInv, PathInv, NEW t \in Tasks,
           PauseActive(t) \/ CancelActive(t) \/ PauseQueued(t) \/ CancelIdle(t)
    PROVE  PathInv'
<1> DEFINE s == IF PauseActive(t) \/ PauseQueued(t) THEN "Paused" ELSE "Removed"
<1>0. /\ \/ s = "Paused" /\ occupied' = occupied
         \/ s = "Removed" /\ occupied' = occupied \ {path[t]}
      /\ all' = [all EXCEPT ![t] = s] /\ path' = path
      /\ active[t] # 0 \/ Queued(t) \/ all[t] \in {"Paused", "Completed", "Failed"}
  BY DEF PauseActive, CancelActive, PauseQueued, CancelIdle
<1>1. RunsKept
  <2>1. CASE PauseActive(t) \/ CancelActive(t)
    <3>1. active[t] \in Runs /\ run' = Aborted(active[t])
      BY <2>1 DEF PauseActive, CancelActive, QInv, ActiveRight
    <3> QED BY <3>1, AbortKeeps DEF QInv
  <2>2. CASE PauseQueued(t) \/ CancelIdle(t)
    BY <2>2, RunsUntouched DEF PauseQueued, CancelIdle, QInv
  <2> QED BY <2>1, <2>2
<1> HIDE DEF s
<1>2. \A u \in Tasks : all'[u] = IF u = t THEN s ELSE all[u]
  BY <1>0 DEF QInv, Typed
<1>3. s \in StateType /\ s \in {"Paused", "Removed"}
  BY <1>0 DEF StateType, Terminal
<1>4. all[t] \notin {"none", "Removed"}
  BY <1>0 DEF QInv, ActiveRight, QueueRight, Queued, Holds
<1>5. PathsOccupied' /\ PathsKept'
  BY <1>0, <1>1, <1>2, <1>3, <1>4, KeptRunsGrow, OneMoves
<1>6. RunsKnown' /\ EndedJoined'
  BY <1>1, <1>2, <1>3 DEF PathInv, RunsKnown, EndedJoined, RunsKept
<1> QED BY <1>5, <1>6 DEF PathInv

\* resume.
LEMMA ResumeKeepsPaths ==
    ASSUME QInv, PathInv, NEW t \in Tasks, Resume(t) PROVE PathInv'
<1>0. /\ all[t] = "Paused" /\ all' = [all EXCEPT ![t] = "Queued"]
      /\ UNCHANGED <<path, occupied, run>>
  BY DEF Resume
<1>1. RunsGrow
  BY <1>0 DEF RunsGrow
<1>2. \A u \in Tasks : all'[u] = IF u = t THEN "Queued" ELSE all[u]
  BY <1>0 DEF QInv, Typed
<1>3. "Queued" \in StateType
  BY DEF StateType
<1>4. PathsOccupied' /\ PathsKept'
  BY <1>0, <1>1, <1>2, <1>3, OneMoves
<1>5. RunsKnown' /\ EndedJoined'
  BY <1>0, <1>2 DEF PathInv, RunsKnown, EndedJoined
<1> QED BY <1>4, <1>5 DEF PathInv

\* pump: a task that failed while it was queued goes on, excused.
LEMMA PumpPopKeepsPaths ==
    ASSUME QInv, PathInv, PumpPop PROVE PathInv'
<1> DEFINE t == Head(queue)
           n == [NoRun EXCEPT !.task = t, !.fut = "run"]
<1>0. /\ queue # <<>> /\ spawned < MaxRuns
      /\ all' = [all EXCEPT ![t] = "Active"]
      /\ run' = [run EXCEPT ![spawned + 1] = n]
      /\ UNCHANGED <<path, occupied>>
  BY DEF PumpPop
<1>1. Typed /\ Distinct(queue) /\ queue \in Seq(Tasks)
  BY DEF QInv, QueueRight, Typed
<1>2. t \in Tasks /\ Holds(queue, t)
  BY <1>0, <1>1, PopFront
<1>3. n.task = t /\ n.fut = "run"
  BY DEF NoRun
<1> HIDE DEF n, t
<1>4. all[t] \in {"Queued", "Failed"}
  BY <1>2 DEF QInv, QueueRight
<1>5. /\ spawned + 1 \in Runs
      /\ run[spawned + 1].task \notin Tasks /\ run[spawned + 1].fut = "none"
  <2>1. spawned + 1 \in Runs /\ spawned + 1 > spawned
    BY <1>0, <1>1, QueueAssumption DEF Typed, Runs
  <2> QED BY <2>1, QueueAssumption DEF QInv, RunsSpawned
<1>6. \A u \in Tasks : all'[u] = IF u = t THEN "Active" ELSE all[u]
  BY <1>0, <1>1, <1>2 DEF Typed
<1>7. \A r \in Runs : run'[r] = IF r = spawned + 1 THEN n ELSE run[r]
  BY <1>0, <1>1, <1>5 DEF Typed
<1>8. RunsGrow
  BY <1>5, <1>7 DEF RunsGrow
<1>9. "Active" \in StateType
  BY DEF StateType
<1>10. PathsOccupied' /\ PathsKept'
  BY <1>0, <1>2, <1>4, <1>6, <1>8, <1>9, OneMoves
<1>11. RunsKnown'
  BY <1>2, <1>3, <1>5, <1>6, <1>7 DEF PathInv, RunsKnown
<1>12. EndedJoined'
  BY <1>6, <1>8 DEF PathInv, EndedJoined, RunsGrow
<1> QED BY <1>10, <1>11, <1>12 DEF PathInv

\* on_complete: the path it frees was freed before only for an excused task.
LEMMA JoinResultKeepsPaths ==
    ASSUME QInv, PathInv, NEW r \in Runs, JoinResult(r) PROVE PathInv'
<1>0. PICK t \in Tasks : run[r].task = t
  BY JoinFacts
<1>b. PICK s : s = Outcome(all[t], run[r].fut)
  OBVIOUS
<1>1. /\ run[r].fut \in {"ok", "err"} /\ all[t] \in StateType /\ path' = path
      /\ \A u \in Tasks : all'[u] = IF u = t THEN s ELSE all[u]
      /\ occupied' = IF s \in {"Completed", "Failed"} THEN occupied \ {path[t]} ELSE occupied
      /\ RunsKept /\ run'[r].fut = "joined"
  BY <1>0, <1>b, JoinFacts
<1>2. /\ s \in StateType
      /\ all[t] \in {"Removed", "Paused"} => s = all[t]
      /\ s \in {all[t], "Completed", "Failed"}
  BY <1>b, <1>1, OutcomeCases
<1>3. run[r].task = t
  BY <1>0
<1>4. all[t] # "none"
  BY <1>1, <1>3 DEF PathInv, RunsKnown
<1>5. all[t] \in {"Completed", "Failed"} => Restarted(t)'
  <2> SUFFICES ASSUME all[t] \in {"Completed", "Failed"} PROVE Restarted(t)'
    OBVIOUS
  <2>1. PICK q \in Runs : run[q].task = t /\ run[q].fut = "joined"
    BY <1>1 DEF PathInv, EndedJoined
  <2>2. q # r
    BY <1>1, <2>1
  <2>3. run'[q].task = t /\ run'[q].fut = "joined" /\ run'[r].task = t
    BY <1>1, <1>3, <2>1 DEF RunsKept
  <2> QED BY <2>2, <2>3 DEF Restarted
<1>6. \E q \in Runs : run[q].task = t /\ run[q].fut # "joined"
  BY <1>1, <1>3
<1>7. PathsOccupied' /\ PathsKept'
  BY <1>1, <1>2, <1>4, <1>5, <1>6, KeptRunsGrow, OneMoves
<1>8. RunsKnown'
  BY <1>1, <1>2, <1>4 DEF PathInv, RunsKnown, RunsKept
<1>9. EndedJoined'
  BY <1>1, <1>3 DEF PathInv, EndedJoined, RunsKept
<1> QED BY <1>7, <1>8, <1>9 DEF PathInv

\* Every step keeps the paths.
LEMMA PathStep ==
    ASSUME QInv, PathInv, [Next]_vars PROVE PathInv'
<1>0. Typed
  BY DEF QInv
<1>1. CASE PumpInsert
  <2>1. pc = "spawned" /\ UNCHANGED <<all, path, occupied>>
    BY <1>1 DEF PumpInsert
  <2>2. all[run[spawned].task] = "Active"
    BY <2>1 DEF QInv, ActiveRight
  <2>3. run' = run
    BY <1>1, <2>2 DEF PumpInsert
  <2>4. RunsGrow
    BY <2>3 DEF RunsGrow
  <2>5. RunsKnown' /\ EndedJoined'
    BY <2>1, <2>3 DEF PathInv, RunsKnown, EndedJoined
  <2> QED BY <2>1, <2>4, <2>5, SameStates DEF PathInv
<1> QED BY <1>0, <1>1, NextSteps, QuietKeepsPaths, EnqueueKeepsPaths, StopKeepsPaths,
           ResumeKeepsPaths, PumpPopKeepsPaths, JoinResultKeepsPaths

\* Two unfinished tasks get the same output path only where the code frees a path
\* twice: after a cancellation, or after the late result of an earlier run.
THEOREM PathsStayKept == Spec => []PathsKept
<1>1. ASSUME Init PROVE PathInv
  <2>1. \A r \in Runs : run[r].task \notin Tasks
    BY <1>1, QueueAssumption DEF Init, NoRun
  <2>2. \A t \in Tasks : all[t] = "none"
    BY <1>1 DEF Init
  <2> QED BY <2>1, <2>2 DEF PathInv, RunsKnown, EndedJoined, PathsOccupied, PathsKept,
                            Sharing, Unfinished
<1>2. PathInv => PathsKept
  BY DEF PathInv
<1> QED BY <1>1, <1>2, PathStep, QueueInvariant, PTL DEF Spec
=============================================================================

----------------------------- MODULE TaskQueue -----------------------------
(***************************************************************************)
(* The task queue (queue.rs, task.rs): callers enqueue, pause, resume and  *)
(* cancel downloads; a driver task starts them, at most max at a time, and *)
(* deletes what cancelled downloads left on disk.                          *)
(*                                                                         *)
(* A call is one action: it changes the state under the mutex.  The driver *)
(* releases the mutex between its steps, so calls interleave with the      *)
(* steps of pump and of flush_pending_deletes.  A download is the future   *)
(* spawned by pump and the writer task that future leaves behind when it   *)
(* is aborted.                                                             *)
(***************************************************************************)
EXTENDS Integers, Sequences, FiniteSets

CONSTANTS
    Tasks,      \* TaskIds that may be enqueued
    Paths,      \* output paths that rename may choose from
    None,       \* no task, no path
    Max,        \* max_concurrent_tasks after the clamp
    MaxRuns,    \* bound on the downloads started (tasks + resumes: never reached)
    MaxCalls,   \* bound on pause and cancel calls (a resume needs a pause)
    Calls,      \* which calls are made: "pause", "resume", and "cancelActive",
                \* "cancelIdle" (queued, paused), "cancelDone" for cancel
    DeleteFails \* whether remove_file may fail

Runs == 1 .. MaxRuns
Parts == {"file", "meta"}   \* the output and its sidecar, deleted in this order

ASSUME QueueAssumption ==
    /\ None \notin Tasks /\ None \notin Paths
    /\ IsFiniteSet(Tasks)
    /\ Max \in 1 .. 64 /\ MaxRuns \in Nat /\ MaxCalls \in Nat
    /\ Calls \subseteq {"pause", "resume", "cancelActive", "cancelIdle", "cancelDone"}
    /\ DeleteFails \in BOOLEAN

VARIABLES
    all,       \* QueueState.all: state of each task ("none": never enqueued)
    path,      \* output_path of each task
    queue,     \* QueueState.queue
    active,    \* QueueState.active: the run whose AbortHandle is kept, or 0
    occupied,  \* QueueState.occupied
    pending,   \* QueueState.pending_deletes
    pumps,     \* Pump commands in the channel
    pc,        \* the driver: "idle", "pump", "spawned", "flush", "flushing"
    todo,      \* what flush_pending_deletes still has to delete: <<path, part>>
    gone,      \* succeeded
    run,       \* the downloads spawned on the JoinSet
    spawned,   \* number of runs so far
    deleting,  \* what callers of cancel still have to delete: <<task, part>>
    file,      \* per path: the task that wrote the file, or None
    meta,      \* per path: the task that wrote the sidecar, or None
    whole,     \* paths whose file holds every byte
    calls      \* calls made

stateVars == <<all, path, queue, active, occupied, pending>>
driverVars == <<pc, todo, gone>>
diskVars  == <<file, meta, whole>>
vars == <<stateVars, pumps, driverVars, run, spawned, deleting, diskVars, calls>>

Terminal == {"Failed", "Completed", "Removed"}      \* TaskState::is_terminal
NoRun == [task |-> None, fut |-> "none", disk |-> "none"]
Queued(t)  == \E k \in DOMAIN queue : queue[k] = t
Entries    == {t \in Tasks : active[t] # 0}
Where(r)   == path[run[r].task]

\* queue.remove(pos) at the first position of t.
Dropped(t) ==
    LET k == CHOOSE j \in DOMAIN queue :
                 queue[j] = t /\ \A i \in 1 .. j - 1 : queue[i] # t
    IN  SubSeq(queue, 1, k - 1) \o SubSeq(queue, k + 1, Len(queue))
-----------------------------------------------------------------------------
(* Calls *)

\* Mutant of Wake: no Pump is sent.
WakeNever == pumps
\* tx.send(QueueCmd::Pump).
Wake == pumps + 1

\* Mutant of Free: the occupied paths are not looked at.
FreeOnDisk(p) == file[p] = None /\ meta[p] = None
\* The triple check of enqueue: not occupied, no file, no sidecar.
Free(p) == p \notin occupied /\ file[p] = None /\ meta[p] = None

\* resolve_rename proposes candidates until one passes the check made again
\* under the lock; a stale snapshot may skip a free one, so any free path.
Enqueue(t, p) ==
    /\ all[t] = "none" /\ Free(p)
    /\ occupied' = occupied \cup {p}
    /\ queue' = Append(queue, t)
    /\ all' = [all EXCEPT ![t] = "Queued"]
    /\ path' = [path EXCEPT ![t] = p]
    /\ pumps' = Wake
    /\ UNCHANGED <<active, pending, driverVars, run, spawned, deleting, diskVars, calls>>

Call(c) == c \in Calls /\ calls < MaxCalls /\ calls' = calls + 1

\* Mutant of Aborted: the download is not aborted.
AbortedNever(r) == run
\* AbortHandle::abort: no effect on a future that has finished.
Aborted(r) == [run EXCEPT ![r].fut = IF @ = "run" THEN "abort" ELSE @]

PauseActive(t) ==
    /\ Call("pause") /\ active[t] # 0
    /\ active' = [active EXCEPT ![t] = 0]
    /\ run' = Aborted(active[t])
    /\ all' = [all EXCEPT ![t] = "Paused"]
    /\ pumps' = Wake
    /\ UNCHANGED <<path, queue, occupied, pending, driverVars, spawned, deleting, diskVars>>

PauseQueued(t) ==
    /\ Call("pause") /\ active[t] = 0 /\ Queued(t)
    /\ queue' = Dropped(t)
    /\ all' = [all EXCEPT ![t] = "Paused"]
    /\ UNCHANGED <<path, active, occupied, pending, pumps, driverVars, run, spawned,
                   deleting, diskVars>>

\* Mutant of Requeued: a resumed task is not queued.
RequeuedNever(t) == queue
Requeued(t) == <<t>> \o queue

Resume(t) ==
    /\ "resume" \in Calls /\ all[t] = "Paused"
    /\ all' = [all EXCEPT ![t] = "Queued"]
    /\ queue' = Requeued(t)
    /\ pumps' = Wake
    /\ UNCHANGED <<path, active, occupied, pending, driverVars, run, spawned,
                   deleting, diskVars, calls>>

\* An active download is aborted; its path is freed at once, its file deleted
\* later by the driver.
CancelActive(t) ==
    /\ Call("cancelActive") /\ active[t] # 0
    /\ active' = [active EXCEPT ![t] = 0]
    /\ run' = Aborted(active[t])
    /\ all' = [all EXCEPT ![t] = "Removed"]
    /\ occupied' = occupied \ {path[t]}
    /\ pending' = pending \cup {path[t]}
    /\ pumps' = Wake
    /\ UNCHANGED <<path, queue, driverVars, spawned, deleting, diskVars>>

\* Queued, paused or finished: the path is freed under the lock and the caller
\* deletes the file after it released the lock.
CancelIdle(t) ==
    /\ active[t] = 0
    /\ \/ Call("cancelIdle") /\ (Queued(t) \/ all[t] = "Paused")
       \/ Call("cancelDone") /\ ~Queued(t) /\ all[t] \in {"Completed", "Failed"}
    /\ queue' = IF Queued(t) THEN Dropped(t) ELSE queue
    /\ all' = [all EXCEPT ![t] = "Removed"]
    /\ occupied' = occupied \ {path[t]}
    /\ deleting' = deleting \cup {<<t, "file">>}
    /\ UNCHANGED <<path, active, pending, pumps, driverVars, run, spawned, diskVars>>

\* Whether remove_file succeeds on what x owns; a missing file counts as removed.
Removable(x) == IF DeleteFails /\ x # None THEN BOOLEAN ELSE {TRUE}

\* remove_file of the output, of its sidecar; ok: it succeeds.
RemoveFile(p, ok) ==
    /\ ok \in Removable(file[p])
    /\ file' = IF ok THEN [file EXCEPT ![p] = None] ELSE file
    /\ whole' = IF ok THEN whole \ {p} ELSE whole
    /\ UNCHANGED meta
RemoveMeta(p, ok) ==
    /\ ok \in Removable(meta[p])
    /\ meta' = IF ok THEN [meta EXCEPT ![p] = None] ELSE meta
    /\ UNCHANGED <<file, whole>>

\* The caller of cancel ignores the errors.
CancelDelete(t) ==
    /\ \/ /\ <<t, "file">> \in deleting
          /\ deleting' = (deleting \ {<<t, "file">>}) \cup {<<t, "meta">>}
          /\ \E ok \in BOOLEAN : RemoveFile(path[t], ok)
       \/ /\ <<t, "meta">> \in deleting
          /\ deleting' = deleting \ {<<t, "meta">>}
          /\ \E ok \in BOOLEAN : RemoveMeta(path[t], ok)
    /\ UNCHANGED <<stateVars, pumps, driverVars, run, spawned, calls>>

\* wait_all returns when it finds this under the lock.
wait_all_returns == queue = <<>> /\ Entries = {} /\ pending = {}
-----------------------------------------------------------------------------
(* The driver: driver_loop, pump, on_complete, flush_pending_deletes *)

RecvPump ==
    /\ pc = "idle" /\ pumps > 0
    /\ pumps' = pumps - 1 /\ pc' = "pump"
    /\ UNCHANGED <<stateVars, todo, gone, run, spawned, deleting, diskVars, calls>>

\* Mutant of HasRoom: one download too many.
HasRoomForOneMore == Cardinality(Entries) <= Max
\* active.len() >= max breaks the loop of pump.
HasRoom == Cardinality(Entries) < Max

\* One round of pump: pop, mark Active, release the lock and spawn.
PumpPop ==
    /\ pc = "pump" /\ HasRoom /\ queue # <<>> /\ spawned < MaxRuns
    /\ LET t == Head(queue) IN
          /\ all' = [all EXCEPT ![t] = "Active"]
          /\ run' = [run EXCEPT ![spawned + 1] = [NoRun EXCEPT !.task = t, !.fut = "run"]]
    /\ queue' = Tail(queue)
    /\ spawned' = spawned + 1
    /\ pc' = "spawned"
    /\ UNCHANGED <<path, active, occupied, pending, pumps, todo, gone, deleting,
                   diskVars, calls>>

\* The lock is taken again: the new run is entered, unless its task was paused
\* or removed in between.
PumpInsert ==
    LET t == run[spawned].task
        dropped == all[t] \in {"Removed", "Paused"}
    IN
    /\ pc = "spawned"
    /\ active' = IF dropped THEN active ELSE [active EXCEPT ![t] = spawned]
    /\ run' = IF dropped THEN Aborted(spawned) ELSE run
    /\ pc' = "pump"
    /\ UNCHANGED <<all, path, queue, occupied, pending, pumps, todo, gone, spawned,
                   deleting, diskVars, calls>>

PumpEnd ==
    /\ pc = "pump" /\ (~HasRoom \/ queue = <<>> \/ spawned = MaxRuns)
    /\ pc' = "flush"
    /\ UNCHANGED <<stateVars, pumps, todo, gone, run, spawned, deleting, diskVars, calls>>

\* Mutant of Outcome: an error overrides Paused and Removed.
OutcomeUnguarded(s, fut) ==
    IF fut = "err" THEN "Failed" ELSE IF s = "Active" THEN "Completed" ELSE s
\* The state on_complete leaves, from the state s and the result.
Outcome(s, fut) ==
    IF fut = "ok" THEN (IF s = "Active" THEN "Completed" ELSE s)
    ELSE IF s \in {"Removed", "Paused"} THEN s ELSE "Failed"

\* join_next yields the result of run r: on_complete drops the entry of the
\* task, whichever run it is for, then pump and flush.
JoinResult(r) ==
    LET t == run[r].task
        s == Outcome(all[t], run[r].fut)
    IN
    /\ pc = "idle" /\ run[r].fut \in {"ok", "err"}
    /\ run' = [run EXCEPT ![r].fut = "joined"]
    /\ active' = [active EXCEPT ![t] = 0]
    /\ all' = [all EXCEPT ![t] = s]
    /\ occupied' = IF s \in {"Completed", "Failed"} THEN occupied \ {path[t]} ELSE occupied
    /\ pc' = "pump"
    /\ UNCHANGED <<path, queue, pending, pumps, todo, gone, spawned, deleting, diskVars, calls>>

\* join_next yields a cancellation: pump and flush.
JoinCancelled(r) ==
    /\ pc = "idle" /\ run[r].fut = "cancelled"
    /\ run' = [run EXCEPT ![r].fut = "joined"]
    /\ pc' = "pump"
    /\ UNCHANGED <<stateVars, pumps, todo, gone, spawned, deleting, diskVars, calls>>

\* The 200 ms tick.
FlushTick ==
    /\ pc = "idle"
    /\ pc' = "flush"
    /\ UNCHANGED <<stateVars, pumps, todo, gone, run, spawned, deleting, diskVars, calls>>

\* The pending paths are copied under the lock.
FlushBegin ==
    /\ pc = "flush"
    /\ todo' = pending \X {"file"} /\ gone' = {}
    /\ pc' = IF pending = {} THEN "idle" ELSE "flushing"
    /\ UNCHANGED <<stateVars, pumps, run, spawned, deleting, diskVars, calls>>

\* One path after the other, first the output, then its sidecar: a path is done
\* when both are gone.
FlushFile(p) ==
    /\ pc = "flushing" /\ <<p, "file">> \in todo /\ \A x \in todo : x[2] = "file"
    /\ todo' = (todo \ {<<p, "file">>}) \cup {<<p, "meta">>}
    /\ \E ok \in BOOLEAN :
          RemoveFile(p, ok) /\ gone' = IF ok THEN gone \cup {p} ELSE gone
    /\ UNCHANGED <<stateVars, pumps, pc, run, spawned, deleting, calls>>

FlushMeta(p) ==
    /\ pc = "flushing" /\ <<p, "meta">> \in todo
    /\ todo' = todo \ {<<p, "meta">>}
    /\ \E ok \in BOOLEAN :
          RemoveMeta(p, ok) /\ gone' = IF ok THEN gone ELSE gone \ {p}
    /\ UNCHANGED <<stateVars, pumps, pc, run, spawned, deleting, calls>>

\* Mutant of Kept: deleted paths stay on the list.
KeptAll == pending
\* pending_deletes.retain.
Kept == pending \ gone

FlushEnd ==
    /\ pc = "flushing" /\ todo = {}
    /\ pending' = Kept
    /\ pc' = "idle"
    /\ UNCHANGED <<all, path, queue, active, occupied, pumps, todo, gone, run, spawned,
                   deleting, diskVars, calls>>
-----------------------------------------------------------------------------
(* The download itself: Downloader::download, seen from the queue *)

Ended == {"abort", "cancelled", "joined"}

\* ResumePlan::prepare: the sidecar is there from now on.  It runs on a blocking
\* thread: a call in flight takes effect even if the future is aborted meanwhile.
Prepare(r) ==
    LET p == Where(r)
        resumes == file[p] # None /\ meta[p] # None
    IN
    /\ run[r].fut \in {"run"} \cup Ended /\ run[r].disk = "none"
    /\ meta' = [meta EXCEPT ![p] = IF resumes THEN @ ELSE run[r].task]
    /\ run' = [run EXCEPT ![r].disk =
          IF run[r].fut \in Ended THEN "closed" ELSE IF resumes THEN "continue" ELSE "truncate"]
    /\ UNCHANGED <<stateVars, pumps, driverVars, spawned, deleting, file, whole, calls>>

\* The output is opened (created, truncated), again by a blocking call; then
\* the writer is spawned as a task of its own.
OpenOutput(r) ==
    LET p == Where(r)
        keeps == run[r].disk = "continue" /\ file[p] # None
    IN
    /\ run[r].fut \in {"run"} \cup Ended
    /\ run[r].disk \in {"continue", "truncate"}
    /\ file' = [file EXCEPT ![p] = IF keeps THEN @ ELSE run[r].task]
    /\ whole' = IF keeps THEN whole ELSE whole \ {p}
    /\ run' = [run EXCEPT ![r].disk = IF run[r].fut \in Ended THEN "closed" ELSE "open"]
    /\ UNCHANGED <<stateVars, pumps, driverVars, spawned, deleting, meta, calls>>

\* download() returns Ok: the writer was joined, the file on disk has its full
\* length and the sidecar was removed.
FinishOk(r) ==
    LET p == Where(r) IN
    /\ run[r].fut \in {"run", "abort"} /\ run[r].disk = "open" /\ file[p] # None
    /\ run' = [run EXCEPT ![r].fut = "ok", ![r].disk = "closed"]
    /\ meta' = [meta EXCEPT ![p] = None]
    /\ whole' = IF file[p] = run[r].task THEN whole \cup {p} ELSE whole
    /\ UNCHANGED <<stateVars, pumps, driverVars, spawned, deleting, file, calls>>

\* download() returns Err, from any point.
FinishErr(r) ==
    /\ run[r].fut \in {"run", "abort"}
    /\ run' = [run EXCEPT ![r].fut = "err", ![r].disk = "closed"]
    /\ UNCHANGED <<stateVars, pumps, driverVars, spawned, deleting, diskVars, calls>>

\* The abort takes effect at an await; the writer task is left behind.
Cancelled(r) ==
    /\ run[r].fut = "abort"
    /\ run' = [run EXCEPT ![r].fut = "cancelled"]
    /\ UNCHANGED <<stateVars, pumps, driverVars, spawned, deleting, diskVars, calls>>

\* The writer left behind finds its channel closed once the last worker is
\* gone, flushes the recorder (which saves the sidecar if segments were hashed
\* since the last save) and exits.
WriterExit(r) ==
    /\ run[r].fut \in {"cancelled", "joined"} /\ run[r].disk = "open"
    /\ run' = [run EXCEPT ![r].disk = "closed"]
    /\ meta' \in {meta, [meta EXCEPT ![Where(r)] = run[r].task]}
    /\ UNCHANGED <<stateVars, pumps, driverVars, spawned, deleting, file, whole, calls>>
-----------------------------------------------------------------------------
(* Specification *)

Init ==
    /\ all = [t \in Tasks |-> "none"] /\ path = [t \in Tasks |-> None]
    /\ queue = <<>> /\ active = [t \in Tasks |-> 0]
    /\ occupied = {} /\ pending = {} /\ pumps = 0
    /\ pc = "idle" /\ todo = {} /\ gone = {}
    /\ run = [r \in Runs |-> NoRun] /\ spawned = 0
    /\ deleting = {} /\ calls = 0
    /\ file = [p \in Paths |-> None] /\ meta = [p \in Paths |-> None] /\ whole = {}

CallStep(t) ==
    \/ \E p \in Paths : Enqueue(t, p)
    \/ PauseActive(t) \/ PauseQueued(t) \/ Resume(t)
    \/ CancelActive(t) \/ CancelIdle(t) \/ CancelDelete(t)

DriverStep ==
    \/ RecvPump \/ PumpPop \/ PumpInsert \/ PumpEnd
    \/ \E r \in Runs : JoinResult(r) \/ JoinCancelled(r)
    \/ FlushTick \/ FlushBegin \/ FlushEnd
    \/ \E p \in Paths : FlushFile(p) \/ FlushMeta(p)

Download(r) ==
    Prepare(r) \/ OpenOutput(r) \/ FinishOk(r) \/ FinishErr(r) \/ Cancelled(r) \/ WriterExit(r)

Next ==
    \/ \E t \in Tasks : CallStep(t)
    \/ DriverStep
    \/ \E r \in Runs : Download(r)

Spec == Init /\ [][Next]_vars

\* tokio::select! starts at a random branch, so a branch that is ready again and
\* again is taken; a deletion does not fail for ever; downloads end.  Each of
\* these can happen only finitely often, so one condition serves all runs.
Fairness ==
    /\ SF_vars(RecvPump)
    /\ SF_vars(\E r \in Runs : JoinResult(r) \/ JoinCancelled(r))
    /\ SF_vars(\E p \in Paths : FlushFile(p) /\ file' # file)
    /\ SF_vars(\E p \in Paths : FlushMeta(p) /\ meta' # meta)
    /\ WF_vars(DriverStep)
    /\ WF_vars(\E r \in Runs : FinishOk(r) \/ FinishErr(r) \/ Cancelled(r))

FairSpec == Spec /\ Fairness
-----------------------------------------------------------------------------
(* Properties *)

StateType == {"none", "Queued", "Active", "Paused"} \cup Terminal
FutType   == {"none", "run", "abort", "ok", "err", "cancelled", "joined"}
DiskType  == {"none", "continue", "truncate", "open", "closed"}
RunType   == [task : Tasks \cup {None}, fut : FutType, disk : DiskType]

\* Types; a run past spawned is blank.
TypeOK ==
    /\ all \in [Tasks -> StateType] /\ path \in [Tasks -> Paths \cup {None}]
    /\ queue \in Seq(Tasks) /\ active \in [Tasks -> 0 .. MaxRuns]
    /\ occupied \subseteq Paths /\ pending \subseteq Paths /\ pumps \in Nat
    /\ pc \in {"idle", "pump", "spawned", "flush", "flushing"}
    /\ todo \subseteq Paths \X Parts /\ gone \subseteq Paths
    /\ run \in [Runs -> RunType] /\ spawned \in 0 .. MaxRuns
    /\ deleting \subseteq Tasks \X Parts /\ calls \in 0 .. MaxCalls
    /\ file \in [Paths -> Tasks \cup {None}] /\ meta \in [Paths -> Tasks \cup {None}]
    /\ whole \subseteq Paths

\* active.len() <= max, although pump checks it under one lock and inserts under
\* another.
ActiveBounded == Cardinality(Entries) <= Max

Starting(t) == pc = "spawned" /\ run[spawned].task = t

\* No task is lost: a queued one is in the queue, an active one has an entry or
\* is being started, and nothing is queued twice.
NoTaskLost ==
    /\ \A t \in Tasks : all[t] = "Queued" => Queued(t)
    /\ \A t \in Tasks : all[t] = "Active" => active[t] # 0 \/ Starting(t)
    /\ \A j, k \in DOMAIN queue : queue[j] = queue[k] => j = k

\* A paused task downloads no more: every run it ever had was told to stop or
\* has ended, whatever result was on its way when it was paused.
PausedIsQuiet ==
    \A r \in Runs : run[r].fut = "run" => all[run[r].task] # "Paused"

\* No late result, pump or call brings a cancelled task back.
RemovedIsFinal ==
    [][\A t \in Tasks : all[t] = "Removed" => all'[t] = "Removed"]_vars

Unfinished(t) == all[t] \in {"Queued", "Active", "Paused"}

Sharing(t, u) == t # u /\ Unfinished(t) /\ Unfinished(u) /\ path[t] = path[u]

\* A run of t has been joined, and t was started again or is going to be.
Restarted(t) ==
    \E r \in Runs :
        /\ run[r].task = t /\ run[r].fut = "joined"
        /\ Unfinished(t) \/ \E s \in Runs \ {r} : run[s].task = t

\* However enqueues, pauses, cancellations and results interleave, two unfinished
\* tasks get the same output path only where the code frees a path twice: some
\* task of that path was cancelled, or was started again after a pause.
PathsKept ==
    \A t, u \in Tasks : Sharing(t, u) =>
        \E v \in Tasks : path[v] = path[t] /\ (all[v] = "Removed" \/ Restarted(v))

\* A queued task is started, paused or cancelled some day.
EveryTaskServed == \A t \in Tasks : all[t] = "Queued" ~> all[t] # "Queued"

\* Once the calls stop the queue drains: wait_all returns.
WaitAllReturns == <>[]wait_all_returns
-----------------------------------------------------------------------------
(* What the repository says of the code and the code does not keep *)

\* Output paths are unique within the process.
UniquePaths == \A t, u \in Tasks : ~Sharing(t, u)

\* At most max downloads run.
RunningBounded == Cardinality({r \in Runs : run[r].fut = "run"}) <= Max

\* A task that shows Queued or Active can be paused and cancelled: pause and
\* cancel find it in the queue or among the active ones.
PauseAccepted ==
    \A t \in Tasks : all[t] \in {"Queued", "Active"} => Queued(t) \/ active[t] # 0

\* When wait_all returns no task is waiting or running.
WaitAllMeansDone ==
    wait_all_returns => \A t \in Tasks : all[t] \notin {"Queued", "Active"}

\* A task that has ended stays ended (it may only be removed).
TerminalIsFinal ==
    [][\A t \in Tasks : all[t] \in Terminal => all'[t] \in {all[t], "Removed"}]_vars

\* Once the deletions of a cancelled task are done, nothing of it is on disk.
CancelLeavesNothing ==
    \A t \in Tasks :
        /\ all[t] = "Removed" /\ (\A x \in deleting : x[1] # t) /\ path[t] \notin pending
        => file[path[t]] # t /\ meta[path[t]] # t

\* A task shown as Completed has its whole file on disk.
CompletedIsWhole ==
    \A t \in Tasks : all[t] = "Completed" => file[path[t]] = t /\ path[t] \in whole
=============================================================================

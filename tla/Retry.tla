------------------------------- MODULE Retry -------------------------------
(***************************************************************************)
(* RetryHandler (retry.rs) with its times: the queue of chunks that wait   *)
(* for their back-off, the delayed queue for chunks that used up their     *)
(* retries, the counters and the permanent failures.  Times are the        *)
(* milliseconds that are left until failure_time and retry_at.             *)
(***************************************************************************)
EXTENDS Integers, SequencesExt

CONSTANTS
    Chunks,            \* chunks: a range and the id under which it is retried
    MaxRetries,        \* MAX_RETRIES
    MaxTotalAttempts,  \* MAX_TOTAL_ATTEMPTS
    DelayedWait,       \* DELAYED_RETRY_DURATION
    BatchWindow,       \* failures closer than this are a batch
    BatchLen           \* if as many chunks wait already

ASSUME RetryAssumption ==
    /\ MaxRetries \in Nat /\ MaxTotalAttempts \in Nat
    /\ DelayedWait \in Nat /\ BatchWindow \in Nat /\ BatchLen \in Nat

VARIABLES
    queue,     \* retry_queue: records [id, wait]
    delayed,   \* delayed_retry_queue: records [id, wait]
    attempts,  \* retry_attempts
    total,     \* total_attempts
    permanent, \* permanent_failures
    quiet      \* time since last_failure_time, up to BatchWindow (also: none)

retryVars == <<queue, delayed, attempts, total, permanent, quiet>>

Entry == [id : Chunks, wait : Nat]
Ids(q) == {q[k].id : k \in DOMAIN q}

RetryInit ==
    /\ queue = <<>> /\ delayed = <<>> /\ permanent = {} /\ quiet = BatchWindow
    /\ attempts = [c \in Chunks |-> 0] /\ total = [c \in Chunks |-> 0]

\* retry_delay: 1 s, doubled three times at most, and up to 200 ms.
Base(a)  == 1000 * <<1, 2, 4, 8>>[IF a >= 3 THEN 4 ELSE a + 1]
Delay(a) == Base(a) + ((73 * a) % 200)

\* What a chunk waits in the retry queue, longer when many fail at once.
Wait(a) ==
    IF quiet < BatchWindow /\ Len(queue) >= BatchLen
    THEN Delay(a) + 200 * (Len(queue) + 1)
    ELSE Delay(a)

GiveUp(c) ==
    /\ permanent' = permanent \cup {c}
    /\ attempts' = [attempts EXCEPT ![c] = 0]
    /\ UNCHANGED <<queue, delayed, quiet>>

\* on_chunk_failed: the writer is gone, or the error class is Permanent.
FailedForGood(c) == GiveUp(c) /\ UNCHANGED total

\* Mutant of Spent: one attempt more.
SpentLate(c) == total[c] > MaxTotalAttempts
Spent(c) == total[c] + 1 > MaxTotalAttempts

\* on_chunk_failed: any other error; the budget over all cycles is spent.
FailedTooOften(c) ==
    /\ Spent(c) /\ GiveUp(c)
    /\ total' = [total EXCEPT ![c] = @ + 1]

\* on_chunk_failed: back to the retry queue, or to the delayed one when the
\* retries of this cycle are used up.
FailedAgain(c) ==
    LET a == attempts[c] + 1 IN
    /\ ~Spent(c)
    /\ total' = [total EXCEPT ![c] = @ + 1]
    /\ quiet' = 0
    /\ \/ /\ a <= MaxRetries
          /\ attempts' = [attempts EXCEPT ![c] = a]
          /\ queue' = Append(queue, [id |-> c, wait |-> Wait(a)])
          /\ UNCHANGED delayed
       \/ /\ a > MaxRetries
          /\ attempts' = [attempts EXCEPT ![c] = 0]
          /\ delayed' = Append(delayed, [id |-> c, wait |-> DelayedWait])
          /\ UNCHANGED queue
    /\ UNCHANGED permanent

\* on_download_complete.
Succeeded(c) ==
    /\ attempts' = [attempts EXCEPT ![c] = 0]
    /\ total' = [total EXCEPT ![c] = 0]
    /\ UNCHANGED <<queue, delayed, permanent, quiet>>

\* Mutant of Due: no chunk is ever due.
DueNever == 0
\* process_queues stops at the first chunk that is not due.
Due ==
    CHOOSE n \in 0 .. Len(delayed) :
        /\ \A k \in 1 .. n : delayed[k].wait = 0
        /\ n < Len(delayed) => delayed[n + 1].wait > 0

ProcessQueues ==
    /\ queue' = queue \o SubSeq(delayed, 1, Due)
    /\ delayed' = SubSeq(delayed, Due + 1, Len(delayed))
    /\ UNCHANGED <<attempts, total, permanent, quiet>>

\* Mutant of Ready: the time is not looked at.
ReadyAny == DOMAIN queue
\* pop_ready_chunk scans for the first chunk whose time has come.
Ready == {k \in DOMAIN queue : queue[k].wait = 0}

PopReady ==
    /\ Ready # {}
    /\ queue' = RemoveAt(queue, Min(Ready))
    /\ UNCHANGED <<delayed, attempts, total, permanent, quiet>>
NextReady == queue[Min(Ready)].id

\* push_back_retry_with_backoff for each chunk that found no lane.
PushBack(cs) ==
    /\ queue' = queue \o [k \in DOMAIN cs |-> [id |-> cs[k], wait |-> 0]]
    /\ UNCHANGED <<delayed, attempts, total, permanent, quiet>>

Left(w, ms) == IF w > ms THEN w - ms ELSE 0
Later(q, ms) == [k \in DOMAIN q |-> [q[k] EXCEPT !.wait = Left(@, ms)]]

\* Time passes.
RetryWaits(ms) ==
    /\ queue' = Later(queue, ms) /\ delayed' = Later(delayed, ms)
    /\ quiet' = Min({BatchWindow, quiet + ms})
    /\ UNCHANGED <<attempts, total, permanent>>
=============================================================================

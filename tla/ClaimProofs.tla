----------------------------- MODULE ClaimProofs -----------------------------
(***************************************************************************)
(* Proofs about who holds what in the transfer core: no byte is fetched    *)
(* twice, no ledger entry outlives the worker it stands for, and an Ok     *)
(* leaves behind only what was sent to the monitor and not read.           *)
(***************************************************************************)
EXTENDS TransferProofs

Kinds == {"worker", "event", "retry", "pending"}

\* Holder n of the given kind has byte b still to fetch.
Holds(kind, n, b) ==
    \/ /\ kind = "worker" /\ n \in Ids
       /\ Live(n) /\ b \in chunk[n].off .. chunk[n].end
    \/ /\ kind = "event" /\ n \in 1 .. Len(reliable)
       /\ Hands(reliable[n]) /\ b \in Span(reliable[n])
    \/ /\ kind = "retry"
       /\ \E r \in Retries : r.id = n /\ b \in Span(r)
    \/ /\ kind = "pending" /\ n \in 1 .. Len(pending)
       /\ b \in Span(pending[n])

\* Byte b has one holder at most, and none once it went to the writer.
Once(b) ==
    /\ \A k, l \in Kinds : \A m, n \in Nat :
          Holds(k, m, b) /\ Holds(l, n, b) => k = l /\ m = n
    /\ \A k \in Kinds : \A n \in Nat : Holds(k, n, b) => b \notin sent

ClaimInv == Working => \A b \in Nat : Once(b)
-----------------------------------------------------------------------------
(* What a step leaves alone *)

\* Worker i only reports: nothing changes hands and nobody comes or goes.
OnlyReports(i) ==
    /\ KeepsRanges
    /\ \A j \in Ids : Live(j)' <=> Live(j)
    /\ \A j \in Ids : chunk'[j].pc = "none" <=> chunk[j].pc = "none"
    /\ UNCHANGED <<retry, delayed, pending, nextId, sent, result, lanes, st, retired, owed>>
    /\ info' = info \/ \E m \in MsgType : m.id = i /\ info' = Append(info, m)
    /\ \/ reliable' = reliable
       \/ \E m \in MsgType : m.t = "progress" /\ m.id = i /\ reliable' = Append(reliable, m)

\* send_progress_best_effort puts only progress of worker i on the channels.
LEMMA BestEffortReports ==
    ASSUME IInv, NEW i \in Ids, chunk[i].pc = "run", BestEffort(i)
    PROVE  /\ info' = info \/ \E m \in MsgType : m.id = i /\ info' = Append(info, m)
           /\ \/ reliable' = reliable
              \/ \E m \in MsgType : m.t = "progress" /\ m.id = i /\ reliable' = Append(reliable, m)
<1>1. chunk[i].start <= chunk[i].off  BY DEF IInv, Safe, RangesOK, Live
<1>2. Progress(i) \in MsgType /\ Progress(i).t = "progress"
  BY <1>1, ProgressType DEF IInv
<1>3. Progress(i).id = i  BY DEF Progress, Msg
<1>4. reliable' = reliable \/ reliable' = Append(reliable, Progress(i))
  BY Zenon DEF BestEffort, chanVars
<1>5. info' = info \/ info' = Append(info, Progress(i))
  BY Zenon DEF BestEffort, Broadcast, chanVars
<1> QED  BY <1>2, <1>3, <1>4, <1>5

\* A failure inside the stream loop.
LEMMA AbortReports ==
    ASSUME IInv, NEW i \in Ids, Live(i), NEW c \in ClsType \ {"none"},
           chunk' = Abort(i, c)
    PROVE  /\ KeepsRanges
           /\ \A j \in Ids : Live(j)' <=> Live(j)
           /\ \A j \in Ids : chunk'[j].pc = "none" <=> chunk[j].pc = "none"
<1>1. KeepsRanges  BY AbortKeeps
<1>2. \A j \in Ids : chunk'[j].pc = IF j = i THEN "failing" ELSE chunk[j].pc
  BY ChunkFacts DEF IInv, ChunkType, Abort
<1> QED  BY <1>1, <1>2 DEF Live

\* A move to the next stage of the stream loop.
LEMMA GotoReports ==
    ASSUME IInv, NEW i \in Ids, Live(i), NEW p \in {"run", "finishing", "completing"},
           p # "run" => chunk[i].off > chunk[i].end,
           chunk' = Goto(i, p)
    PROVE  /\ KeepsRanges
           /\ \A j \in Ids : Live(j)' <=> Live(j)
           /\ \A j \in Ids : chunk'[j].pc = "none" <=> chunk[j].pc = "none"
<1>1. KeepsRanges  BY GotoKeeps
<1>2. \A j \in Ids : chunk'[j].pc = IF j = i THEN p ELSE chunk[j].pc
  BY ChunkFacts DEF IInv, ChunkType, Goto
<1> QED  BY <1>1, <1>2 DEF Live

\* The worker's steps that hand over no byte and no range only report.
LEMMA QuietReports ==
    ASSUME IInv, NEW i \in Ids,
           \/ Respond(i) \/ RequestFailed(i) \/ Overrun(i) \/ WriterClosed(i)
           \/ Eof(i) \/ StreamError(i) \/ IdleTimeout(i) \/ Kill(i)
    PROVE  OnlyReports(i) /\ Live(i)
<1>1. /\ Live(i)
      /\ UNCHANGED <<retry, delayed, pending, nextId, sent, result, lanes, st, retired, owed>>
  <2>1. chunk[i].pc \in {"req", "run"} /\ UNCHANGED <<monVars, sent>>
    BY DEF Respond, RequestFailed, Overrun, WriterClosed, Eof, StreamError, IdleTimeout, Kill
  <2> QED  BY <2>1 DEF Live, monVars, ledgerVars, retryVars
<1>2. CASE Respond(i)
  <2>1. chunk' = Goto(i, "run") /\ UNCHANGED <<reliable, info>>
    BY <1>2 DEF Respond, chanVars
  <2> QED  BY <1>1, <2>1, GotoReports DEF OnlyReports
<1>3. CASE RequestFailed(i)
  <2>1. PICK c \in Refusals(i) : chunk' = Abort(i, c)  BY <1>3 DEF RequestFailed
  <2>2. c \in ClsType \ {"none"}  BY DEF Refusals, ClsType
  <2>3. UNCHANGED <<reliable, info>>  BY <1>3 DEF RequestFailed, chanVars
  <2> QED  BY <1>1, <2>1, <2>2, <2>3, AbortReports DEF OnlyReports
<1>4. CASE chunk[i].off > chunk[i].end /\ (Overrun(i) \/ Eof(i))
  <2>1. chunk' = Goto(i, "finishing") /\ UNCHANGED <<reliable, info>>
    BY <1>4 DEF Overrun, Eof, chanVars
  <2> QED  BY <1>1, <1>4, <2>1, GotoReports DEF OnlyReports
<1>5. CASE \/ WriterClosed(i) \/ StreamError(i) \/ IdleTimeout(i) \/ Kill(i)
           \/ Eof(i) /\ ~(chunk[i].off > chunk[i].end)
  <2>1. PICK c \in {"writer", "retry", TimeoutClass(chunk[i].off, chunk[i].end)} :
           chunk' = Abort(i, c)
    BY <1>5 DEF WriterClosed, StreamError, IdleTimeout, Kill, Eof
  <2>2. c \in ClsType \ {"none"}  BY <2>1 DEF TimeoutClass, ClsType
  <2>3. BestEffort(i) /\ chunk[i].pc = "run"
    BY <1>5 DEF WriterClosed, StreamError, IdleTimeout, Kill, Eof
  <2>4. /\ KeepsRanges
        /\ \A j \in Ids : Live(j)' <=> Live(j)
        /\ \A j \in Ids : chunk'[j].pc = "none" <=> chunk[j].pc = "none"
    BY <1>1, <2>1, <2>2, AbortReports
  <2>5. /\ info' = info \/ \E m \in MsgType : m.id = i /\ info' = Append(info, m)
        /\ \/ reliable' = reliable
           \/ \E m \in MsgType : m.t = "progress" /\ m.id = i /\ reliable' = Append(reliable, m)
    BY <2>3, BestEffortReports
  <2> QED  BY <1>1, <2>4, <2>5, Zenon DEF OnlyReports
<1>6. Overrun(i) => chunk[i].off > chunk[i].end  BY DEF Overrun
<1> QED  BY <1>2, <1>3, <1>4, <1>5, <1>6

\* The final progress is a report too.
LEMMA FinalReports ==
    ASSUME IInv, NEW i \in Ids, FinalProgress(i)
    PROVE  OnlyReports(i) /\ Live(i)
<1>1. Live(i) /\ chunk[i].start <= chunk[i].off /\ chunk[i].off > chunk[i].end
  BY DEF FinalProgress, IInv, Safe, RangesOK, Live
<1>2. Progress(i) \in MsgType /\ Progress(i).t = "progress" /\ Progress(i).id = i
  BY <1>1, ProgressType DEF IInv, Progress, Msg
<1>3. /\ UNCHANGED <<retry, delayed, pending, nextId, sent, result, lanes, st, retired, owed>>
      /\ info' = info /\ reliable' = Append(reliable, Progress(i))
      /\ chunk' = Goto(i, "completing")
  BY DEF FinalProgress, monVars, ledgerVars, retryVars
<1> QED  BY <1>1, <1>2, <1>3, GotoReports DEF OnlyReports
-----------------------------------------------------------------------------
(* One holder per byte *)

\* A step after which every holder was a holder before.
LEMMA FewerHolders ==
    ASSUME ClaimInv, Working' => Working, sent' = sent,
           \A b \in Nat : \A k \in Kinds : \A n \in Nat : Holds(k, n, b)' => Holds(k, n, b)
    PROVE  ClaimInv'
<1>1. SUFFICES ASSUME Working', NEW b \in Nat  PROVE Once(b)'  BY DEF ClaimInv
<1>2. Once(b)  BY <1>1 DEF ClaimInv
<1>3. \A k \in Kinds : \A n \in Nat : Holds(k, n, b)' => Holds(k, n, b)  OBVIOUS
<1> QED  BY <1>2, <1>3 DEF Once

\* Byte b passes from holder m of kind k to holder n of kind l, every other
\* holder keeps it.
Passes(k, m, l, n, b) ==
    /\ Holds(l, n, b)' => Holds(k, m, b)
    /\ ~Holds(k, m, b)' \/ ~Holds(l, n, b)'
    /\ \A x \in Kinds : \A y \in Nat : (x # l \/ y # n) /\ Holds(x, y, b)' => Holds(x, y, b)

\* Passing a byte on keeps its holder unique.
LEMMA PassKeeps ==
    ASSUME NEW b \in Nat, Once(b), sent' = sent, NEW k \in Kinds, NEW m \in Nat, NEW l \in Kinds, NEW n \in Nat,
           Passes(k, m, l, n, b)
    PROVE  Once(b)'
<1>1. ASSUME NEW x \in Kinds, NEW y \in Nat, NEW z \in Kinds, NEW w \in Nat,
             Holds(x, y, b)', Holds(z, w, b)'
      PROVE  x = z /\ y = w
  BY <1>1 DEF Once, Passes
<1>2. ASSUME NEW x \in Kinds, NEW y \in Nat, Holds(x, y, b)'  PROVE b \notin sent'
  BY <1>2 DEF Once, Passes
<1> QED  BY <1>1, <1>2 DEF Once

\* A step that moves no range keeps the holders.
LEMMA KeepClaims ==
    ASSUME IInv, ClaimInv, KeepsRanges, AddsNoRange, Working' => Working,
           UNCHANGED <<retry, delayed, pending, sent>>
    PROVE  ClaimInv'
<1>1. /\ \A k \in 1 .. Len(reliable) : reliable'[k] = reliable[k]
      /\ \A k \in 1 .. Len(reliable') : Hands(reliable'[k]) => k \in 1 .. Len(reliable)
  BY AddsNoRangeFacts DEF IInv
<1>2. ASSUME NEW b \in Nat, NEW k \in Kinds, NEW n \in Nat, Holds(k, n, b)'
      PROVE  Holds(k, n, b)
  <2>1. CASE k = "worker"
    BY <1>2, <2>1 DEF Holds, KeepsRanges
  <2>2. CASE k = "event"
    BY <1>1, <1>2, <2>2 DEF Holds, Hands
  <2>3. CASE k \in {"retry", "pending"}
    BY <1>2, <2>3 DEF Holds, Retries
  <2> QED  BY <2>1, <2>2, <2>3 DEF Kinds
<1> QED  BY <1>2, FewerHolders

\* Reports move no range.
LEMMA ReportClaims ==
    ASSUME IInv, ClaimInv, NEW i \in Ids, OnlyReports(i)
    PROVE  ClaimInv'
<1>1. AddsNoRange  BY DEF OnlyReports, AddsNoRange, Hands
<1> QED  BY <1>1, KeepClaims DEF OnlyReports, Working

\* The bytes of a buffer leave the worker's range as they go to the writer.
LEMMA DataClaims ==
    ASSUME IInv, ClaimInv, NEW i \in Ids, NEW n \in Pieces, Data(i, n)
    PROVE  ClaimInv'
<1> DEFINE c == chunk[i]
           o == c.off + Taken(c, n)
<1>1. /\ c.start \in Nat /\ c.end \in Nat /\ c.off \in Nat
      /\ c.off <= c.end /\ c.end < FileSize /\ c.pc = "run"
      /\ n \in Nat /\ n > 0
  BY ChunkFacts, ConstantTypes DEF Data, IInv, Safe, RangesOK, Live
<1>2. Size(c.off, c.end) = c.end - c.off + 1  BY <1>1, ArithTypes
<1>3. o \in Nat /\ c.off < o /\ o <= c.end + 1
  BY <1>1, <1>2 DEF Smaller, Taken
<1>4. /\ sent' = sent \cup (c.off .. o - 1) /\ Working
      /\ UNCHANGED <<reliable, retry, delayed, pending, result>>
  BY DEF Data, monVars, retryVars
<1>5. /\ \A j \in Ids \ {i} : chunk'[j] = chunk[j]
      /\ chunk'[i].off = o /\ chunk'[i].end = c.end
  BY ChunkFacts DEF Data, IInv, ChunkType
<1> HIDE DEF o
<1>6. SUFFICES ASSUME NEW b \in Nat  PROVE Once(b)'
  BY DEF ClaimInv
<1>7. Once(b)  BY <1>4 DEF ClaimInv
<1>8. Live(i)  BY <1>1 DEF Live
<1>9. ASSUME NEW k \in Kinds, NEW m \in Nat, Holds(k, m, b)'
      PROVE  Holds(k, m, b) /\ ~(b \in c.off .. o - 1 /\ k = "worker" /\ m = i)
  <2>1. CASE k = "worker"
    <3>1. m \in Ids /\ Live(m)' /\ b \in chunk'[m].off .. chunk'[m].end
      BY <1>9, <2>1 DEF Holds
    <3>2. CASE m = i  BY <1>1, <1>3, <1>5, <1>8, <2>1, <3>1, <3>2 DEF Holds
    <3>3. CASE m # i
      <4>1. chunk'[m] = chunk[m] /\ Live(m)  BY <1>5, <3>1, <3>3 DEF Live
      <4> QED  BY <2>1, <3>1, <3>3, <4>1 DEF Holds
    <3> QED  BY <3>2, <3>3
  <2>2. CASE k # "worker"
    BY <1>4, <1>9, <2>2 DEF Holds, Hands, Retries, Span
  <2> QED  BY <2>1, <2>2
<1>10. b \in c.off .. o - 1 => Holds("worker", i, b)
  BY <1>1, <1>3, <1>8 DEF Holds
<1>11. i \in Nat /\ "worker" \in Kinds  BY ConstantTypes DEF Ids, Kinds
<1>12. ASSUME NEW k \in Kinds, NEW m \in Nat, Holds(k, m, b)'  PROVE b \notin sent'
  BY <1>4, <1>7, <1>9, <1>10, <1>11, <1>12 DEF Once
<1> QED  BY <1>7, <1>9, <1>12 DEF Once

\* The rest of a failed worker's range passes to its ChunkFailed event.
LEMMA FailSendClaims ==
    ASSUME IInv, ClaimInv, NEW i \in Ids, FailSend(i)
    PROVE  ClaimInv'
<1> DEFINE m == Failed(i)
<1>0. PICK n \in Nat : n = Len(reliable) + 1  BY ReliableFacts DEF IInv
<1>1. /\ Live(i) /\ chunk[i].pc # "none" /\ i \in Nat
      /\ UNCHANGED <<retry, delayed, pending, sent, result>> /\ Working
  BY ConstantTypes DEF FailSend, monVars, retryVars, Live, Ids
<1>2. m \in MsgType /\ m.start = chunk[i].off /\ m.end = chunk[i].end
  BY ChunkFacts DEF Failed, Msg, MsgType, IInv, FailSend
<1>3. /\ Len(reliable) \in Nat /\ Len(reliable') = n
      /\ \A k \in 1 .. Len(reliable) : reliable'[k] = reliable[k]
      /\ reliable'[n] = m
  BY <1>0, <1>2, AppendFacts DEF FailSend, IInv
<1> HIDE DEF m
<1>4. /\ ~Live(i)'
      /\ \A j \in Ids \ {i} : chunk'[j] = chunk[j]
  BY <1>1, ExitFacts DEF FailSend
<1>5. SUFFICES ASSUME NEW b \in Nat  PROVE Once(b)'
  BY DEF ClaimInv
<1>6. Once(b)  BY <1>1 DEF ClaimInv
<1>7. Passes("worker", i, "event", n, b)
  <2>1. Holds("event", n, b)' => Holds("worker", i, b)
    BY <1>1, <1>2, <1>3 DEF Holds, Span
  <2>2. ~Holds("worker", i, b)'  BY <1>4 DEF Holds
  <2>3. ASSUME NEW k \in Kinds, NEW y \in Nat, k # "event" \/ y # n, Holds(k, y, b)'
        PROVE  Holds(k, y, b)
    <3>1. CASE k = "worker"
      <4>1. y \in Ids /\ y # i /\ Live(y)' /\ b \in chunk'[y].off .. chunk'[y].end
        BY <1>4, <2>3, <3>1 DEF Holds
      <4>2. chunk'[y] = chunk[y] /\ Live(y)  BY <1>4, <4>1 DEF Live
      <4> QED  BY <3>1, <4>1, <4>2 DEF Holds
    <3>2. CASE k = "event"
      <4>1. y \in 1 .. Len(reliable) /\ Hands(reliable'[y]) /\ b \in Span(reliable'[y])
        BY <1>0, <1>3, <2>3, <3>2 DEF Holds, Hands
      <4> QED  BY <1>3, <3>2, <4>1 DEF Holds
    <3>3. CASE k \in {"retry", "pending"}
      BY <1>1, <2>3, <3>3 DEF Holds, Retries
    <3> QED  BY <3>1, <3>2, <3>3 DEF Kinds
  <2> QED  BY <2>1, <2>2, <2>3 DEF Passes
<1>8. "worker" \in Kinds /\ "event" \in Kinds  BY DEF Kinds
<1> QED  BY <1>1, <1>6, <1>7, <1>8, PassKeeps

\* The split-off half of a worker's range passes to the ChunkBisected event.
LEMMA BisectClaims ==
    ASSUME IInv, ClaimInv, NEW i \in Ids, Bisect(i)
    PROVE  ClaimInv'
<1> DEFINE c == chunk[i]
           mid == split_range(c.off, c.end, c.cmd = "skew")
           m == Bisected(i, mid + 1, c.end)
<1>0. PICK n \in Nat : n = Len(reliable) + 1  BY ReliableFacts DEF IInv
<1>1. /\ c.end \in Nat /\ c.off \in Nat /\ Live(i) /\ i \in Nat
      /\ UNCHANGED <<retry, delayed, pending, sent, result>> /\ Working
  BY ChunkFacts, ConstantTypes DEF Bisect, IInv, Live, monVars, retryVars, Ids
<1>2. CASE ~Splittable(c.off, c.end)
  <2>1. chunk' = [chunk EXCEPT ![i].cmd = "none"] /\ reliable' = reliable
    BY <1>2 DEF Bisect
  <2>2. \A j \in Ids :
        /\ chunk'[j].start = chunk[j].start /\ chunk'[j].end = chunk[j].end
        /\ chunk'[j].off = chunk[j].off /\ chunk'[j].pc = chunk[j].pc
        /\ chunk'[j].cls = chunk[j].cls
    BY <2>1, ChunkFacts DEF IInv, ChunkType
  <2>3. KeepsRanges  BY <2>2 DEF IInv, Safe, RangesOK, KeepsRanges, Live
  <2> QED  BY <1>1, <2>1, <2>3, KeepClaims DEF AddsNoRange, Working
<1>3. CASE Splittable(c.off, c.end)
  <2>1. mid \in Nat /\ c.off <= mid /\ mid < c.end  BY <1>1, <1>3, SplitInside
  <2>2. /\ ReliableFree /\ reliable' = Append(reliable, m)
        /\ chunk' = [chunk EXCEPT ![i].end = mid, ![i].cmd = "none"]
    BY <1>3 DEF Bisect
  <2>3. m \in MsgType /\ m.start = mid + 1 /\ m.end = c.end
    BY <1>1, <2>1 DEF Bisected, Msg, MsgType, ClsType
  <2> HIDE DEF mid, m
  <2>4. /\ chunk'[i].off = c.off /\ chunk'[i].end = mid
        /\ \A j \in Ids \ {i} : chunk'[j] = chunk[j]
    BY <2>2, ChunkFacts DEF IInv, ChunkType
  <2>5. /\ Len(reliable) \in Nat /\ Len(reliable') = n
        /\ \A k \in 1 .. Len(reliable) : reliable'[k] = reliable[k]
        /\ reliable'[n] = m
    BY <1>0, <2>2, <2>3, AppendFacts DEF IInv
  <2>6. SUFFICES ASSUME NEW b \in Nat  PROVE Once(b)'
    BY DEF ClaimInv
  <2>7. Once(b)  BY <1>1 DEF ClaimInv
  <2>8. Passes("worker", i, "event", n, b)
    <3>1. Holds("event", n, b)' => b \in mid + 1 .. c.end
      BY <2>3, <2>5 DEF Holds, Span
    <3>2. Holds("event", n, b)' => Holds("worker", i, b)
      BY <1>1, <2>1, <3>1 DEF Holds
    <3>3. Holds("worker", i, b)' => b \in c.off .. mid  BY <2>4 DEF Holds
    <3>4. ~Holds("worker", i, b)' \/ ~Holds("event", n, b)'  BY <1>1, <2>1, <3>1, <3>3
    <3>5. ASSUME NEW k \in Kinds, NEW y \in Nat, k # "event" \/ y # n, Holds(k, y, b)'
          PROVE  Holds(k, y, b)
      <4>1. CASE k = "worker" /\ y = i
        BY <1>1, <2>1, <3>3, <3>5, <4>1 DEF Holds
      <4>2. CASE k = "worker" /\ y # i
        <5>1. y \in Ids /\ Live(y)' /\ b \in chunk'[y].off .. chunk'[y].end
          BY <3>5, <4>2 DEF Holds
        <5>2. chunk'[y] = chunk[y] /\ Live(y)  BY <2>4, <4>2, <5>1 DEF Live
        <5> QED  BY <4>2, <5>1, <5>2 DEF Holds
      <4>3. CASE k = "event"
        <5>1. y \in 1 .. Len(reliable) /\ Hands(reliable'[y]) /\ b \in Span(reliable'[y])
          BY <1>0, <2>5, <3>5, <4>3 DEF Holds, Hands
        <5> QED  BY <2>5, <4>3, <5>1 DEF Holds
      <4>4. CASE k \in {"retry", "pending"}
        BY <1>1, <3>5, <4>4 DEF Holds, Retries
      <4> QED  BY <4>1, <4>2, <4>3, <4>4 DEF Kinds
    <3> QED  BY <3>2, <3>4, <3>5 DEF Passes
  <2>9. "worker" \in Kinds /\ "event" \in Kinds  BY DEF Kinds
  <2> QED  BY <1>1, <2>7, <2>8, <2>9, PassKeeps
<1> QED  BY <1>2, <1>3

\* The monitor takes the first event: the others move up by one, and what the
\* first one held goes to holder n of kind k, or to nobody.
Takes(k, n, b) ==
    /\ Holds(k, n, b)' => Holds("event", 1, b)
    /\ k # "event"
    /\ \A y \in Nat : Holds("event", y, b)' => Holds("event", y + 1, b) /\ y > 0
    /\ \A x \in Kinds \ {"event"} : \A y \in Nat :
          (x # k \/ y # n) /\ Holds(x, y, b)' => Holds(x, y, b)

\* Taking an event keeps the holder unique.
LEMMA TakeKeeps ==
    ASSUME NEW b \in Nat, Once(b), sent' = sent, NEW k \in Kinds, NEW n \in Nat, Takes(k, n, b)
    PROVE  Once(b)'
<1>0. "event" \in Kinds /\ 1 \in Nat  BY DEF Kinds
<1>1. ASSUME NEW x \in Kinds, NEW y \in Nat, NEW z \in Kinds, NEW w \in Nat,
             Holds(x, y, b)', Holds(z, w, b)'
      PROVE  x = z /\ y = w
  <2>1. CASE x = "event" /\ z = "event"
    <3>1. Holds("event", y + 1, b) /\ Holds("event", w + 1, b)  BY <1>1, <2>1 DEF Takes
    <3>2. y + 1 \in Nat /\ w + 1 \in Nat  OBVIOUS
    <3>3. y + 1 = w + 1  BY <1>0, <3>1, <3>2 DEF Once
    <3> QED  BY <2>1, <3>3
  <2>2. ASSUME NEW p \in Nat, Holds("event", p, b)', NEW u \in Kinds \ {"event"},
               NEW v \in Nat, Holds(u, v, b)'
        PROVE  FALSE
    <3>1. Holds("event", p + 1, b) /\ p > 0 /\ p + 1 \in Nat /\ p + 1 # 1  BY <2>2 DEF Takes
    <3>2. Holds("event", 1, b) \/ Holds(u, v, b)  BY <2>2 DEF Takes
    <3> QED  BY <1>0, <3>1, <3>2 DEF Once
  <2>3. CASE x # "event" /\ z # "event"
    BY <1>0, <1>1, <2>3 DEF Once, Takes
  <2> QED  BY <1>1, <2>1, <2>2, <2>3
<1>2. ASSUME NEW x \in Kinds, NEW y \in Nat, Holds(x, y, b)'  PROVE b \notin sent'
  <2>1. CASE x = "event"
    <3>1. Holds("event", y + 1, b) /\ y + 1 \in Nat  BY <1>2, <2>1 DEF Takes
    <3> QED  BY <1>0, <3>1 DEF Once
  <2>2. CASE x # "event"  BY <1>0, <1>2, <2>2 DEF Once, Takes
  <2> QED  BY <2>1, <2>2
<1> QED  BY <1>1, <1>2 DEF Once

\* The events that stay in the channel move up by one.
LEMMA TailHolds ==
    ASSUME IInv, reliable # <<>>, reliable' = Tail(reliable), NEW b \in Nat
    PROVE  \A y \in Nat : Holds("event", y, b)' => Holds("event", y + 1, b) /\ y > 0
<1>1. \A k \in 1 .. Len(reliable') :
         k + 1 \in 1 .. Len(reliable) /\ reliable'[k] = reliable[k + 1]
  BY TailFacts DEF IInv
<1>2. Len(reliable') \in Nat  BY TailFacts DEF IInv
<1>3. ASSUME NEW y \in Nat, Holds("event", y, b)'  PROVE Holds("event", y + 1, b) /\ y > 0
  <2>1. y \in 1 .. Len(reliable') /\ Hands(reliable'[y]) /\ b \in Span(reliable'[y])
    BY <1>3 DEF Holds, Hands
  <2>2. y + 1 \in 1 .. Len(reliable) /\ reliable'[y] = reliable[y + 1] /\ y > 0
    BY <1>1, <1>2, <2>1
  <2> QED  BY <2>1, <2>2 DEF Holds
<1> QED  BY <1>3

\* Progress and completion pass on nothing.
LEMMA TakeClaims ==
    ASSUME IInv, ClaimInv, MonReliable, Head(reliable).t \in {"progress", "complete"}
    PROVE  ClaimInv'
<1>1. /\ reliable # <<>> /\ reliable' = Tail(reliable) /\ Working
      /\ UNCHANGED <<chunk, retry, delayed, pending, sent, result>>
  BY DEF MonReliable, OnProgress, OnComplete, retryVars, Working
<1>2. SUFFICES ASSUME NEW b \in Nat  PROVE Once(b)'
  BY DEF ClaimInv
<1>3. Once(b)  BY <1>1 DEF ClaimInv
<1>4. \A y \in Nat : Holds("event", y, b)' => Holds("event", y + 1, b) /\ y > 0
  BY <1>1, TailHolds
<1>5. ASSUME NEW x \in Kinds \ {"event"}, NEW y \in Nat, Holds(x, y, b)'
      PROVE  Holds(x, y, b)
  BY <1>1, <1>5 DEF Holds, Retries, Live
<1>6. /\ ~Holds("pending", 0, b)' /\ "pending" \in Kinds /\ 0 \in Nat
  <2>1. 0 \notin 1 .. Len(pending)
    <3>1. Len(pending) \in Nat  BY DrainedFacts DEF IInv
    <3> QED  BY <3>1
  <2> QED  BY <1>1, <2>1 DEF Holds, Kinds
<1>7. Takes("pending", 0, b)  BY <1>4, <1>5, <1>6 DEF Takes
<1> QED  BY <1>1, <1>3, <1>6, <1>7, TakeKeeps

\* A failed range passes from the event to a retry of the same id.
LEMMA FailedClaims ==
    ASSUME IInv, ClaimInv, MonReliable, Head(reliable).t = "failed"
    PROVE  ClaimInv'
<1> DEFINE m == Head(reliable)
           r == [id |-> m.id, start |-> m.start, end |-> m.end]
<1>1. /\ reliable # <<>> /\ reliable' = Tail(reliable) /\ OnFailed(m) /\ result = "running"
      /\ sent' = sent
  BY DEF MonReliable
<1>2. /\ m = reliable[1] /\ m \in MsgType /\ 1 \in 1 .. Len(reliable) /\ Hands(m)
  BY <1>1, TailFacts DEF IInv, Hands
<1> HIDE DEF m
<1>3. m.id \in Ids /\ m.id \in Nat /\ m.cls # "none" /\ m.t = "failed"
  <2>1. m.t = "failed"  BY DEF m
  <2>2. m.cls # "none"  BY <1>2, <2>1 DEF IInv, Safe, RangesOK
  <2> QED  BY <1>2, <2>1, <2>2, ConstantTypes DEF MsgType, Ids
<1>0. PICK i \in Nat : i = m.id  BY <1>3
<1>4. \A x \in (retry \cup delayed)' : x \in retry \cup delayed \/ x = r
  <2>1. \/ result' \in Causes /\ (retry \cup delayed)' = retry \cup delayed
        \/ result' = result /\ (retry \cup delayed)' = retry \cup delayed \cup {r}
    BY <1>1, <1>2, <1>3, RequeueFacts DEF OnFailed, IInv
  <2> QED  BY <2>1
<1>5. r.id = m.id /\ r.start = m.start /\ r.end = m.end  OBVIOUS
<1> HIDE DEF r
<1>6. UNCHANGED <<chunk, pending>>  BY <1>1 DEF OnFailed
<1>7. \A x \in retry \cup delayed : x.id # m.id
  BY <1>2, <1>3 DEF IInv, Safe, OnePlace, Pos, IsFailed, Retries
<1>8. SUFFICES ASSUME NEW b \in Nat  PROVE Once(b)'
  BY DEF ClaimInv
<1>9. Once(b)  BY <1>1 DEF ClaimInv, Working
<1>10. \A y \in Nat : Holds("event", y, b)' => Holds("event", y + 1, b) /\ y > 0
  BY <1>1, TailHolds
<1>11. Holds("retry", i, b)' => Holds("event", 1, b)
  <2>1. SUFFICES ASSUME Holds("retry", i, b)'  PROVE Holds("event", 1, b)  OBVIOUS
  <2>2. PICK x \in (retry \cup delayed)' : x.id = i /\ b \in Span(x)
    BY <2>1 DEF Holds, Retries
  <2>3. x = r  BY <1>0, <1>4, <1>7, <2>2
  <2> QED  BY <1>2, <1>5, <2>2, <2>3 DEF Holds, Span
<1>12. ASSUME NEW x \in Kinds \ {"event"}, NEW y \in Nat, x # "retry" \/ y # i,
              Holds(x, y, b)'
       PROVE  Holds(x, y, b)
  <2>1. CASE x = "retry"
    <3>1. PICK z \in (retry \cup delayed)' : z.id = y /\ b \in Span(z)
      BY <1>12, <2>1 DEF Holds, Retries
    <3>2. z \in Retries  BY <1>0, <1>4, <1>5, <1>12, <2>1, <3>1 DEF Retries
    <3> QED  BY <2>1, <3>1, <3>2 DEF Holds
  <2>2. CASE x # "retry"
    BY <1>6, <1>12, <2>2 DEF Holds, Live, Kinds
  <2> QED  BY <2>1, <2>2
<1>13. "retry" \in Kinds /\ Takes("retry", i, b)
  BY <1>10, <1>11, <1>12 DEF Takes, Kinds
<1> QED  BY <1>1, <1>9, <1>13, TakeKeeps

\* A split-off range passes from the event to a new worker or to the buffer.
LEMMA BisectedClaims ==
    ASSUME IInv, ClaimInv, MonReliable, Head(reliable).t = "bisected"
    PROVE  ClaimInv'
<1> DEFINE m == Head(reliable)
           r == [start |-> m.start, end |-> m.end]
<1>1. /\ reliable # <<>> /\ reliable' = Tail(reliable) /\ OnBisected(m) /\ result = "running"
      /\ sent' = sent
  BY DEF MonReliable
<1>2. /\ m = reliable[1] /\ m \in MsgType /\ 1 \in 1 .. Len(reliable) /\ Hands(m)
  BY <1>1, TailFacts DEF IInv, Hands
<1> HIDE DEF m
<1>3. m.start \in Nat /\ m.end \in Nat  BY <1>2 DEF MsgType
<1>4. UNCHANGED <<retry, delayed>>  BY <1>1 DEF OnBisected, retryVars
<1>5. SUFFICES ASSUME NEW b \in Nat  PROVE Once(b)'
  BY DEF ClaimInv
<1>6. Once(b)  BY <1>1 DEF ClaimInv, Working
<1>7. \A y \in Nat : Holds("event", y, b)' => Holds("event", y + 1, b) /\ y > 0
  BY <1>1, TailHolds
<1>8. nextId \in Nat /\ Len(pending) \in Nat  BY DrainedFacts DEF IInv
<1>9. CASE Room > 0
  <2>1. /\ nextId \in Ids /\ pending' = pending
        /\ chunk' = [chunk EXCEPT ![nextId] = Worker(m.start, m.end)]
    BY <1>1, <1>9 DEF OnBisected
  <2>2. PICK q \in Ids : q = nextId  BY <2>1
  <2>3. /\ chunk'[q] = Worker(m.start, m.end)
        /\ \A j \in Ids \ {q} : chunk'[j] = chunk[j]
    BY <2>1, <2>2, ChunkFacts DEF IInv
  <2>4. chunk'[q].off = m.start /\ chunk'[q].end = m.end
    BY <1>3, <2>3, WorkerRecord
  <2>5. Holds("worker", q, b)' => Holds("event", 1, b)
    BY <1>2, <2>4 DEF Holds, Span
  <2>6. ASSUME NEW x \in Kinds \ {"event"}, NEW y \in Nat, x # "worker" \/ y # q,
               Holds(x, y, b)'
        PROVE  Holds(x, y, b)
    <3>1. CASE x = "worker"
      <4>1. y \in Ids \ {q} /\ Live(y)' /\ b \in chunk'[y].off .. chunk'[y].end
        BY <2>6, <3>1 DEF Holds
      <4>2. chunk'[y] = chunk[y] /\ Live(y)  BY <2>3, <4>1 DEF Live
      <4> QED  BY <3>1, <4>1, <4>2 DEF Holds
    <3>2. CASE x # "worker"
      BY <1>4, <2>1, <2>6, <3>2 DEF Holds, Kinds, Retries
    <3> QED  BY <3>1, <3>2
  <2>7. "worker" \in Kinds /\ q \in Nat /\ Takes("worker", q, b)
    BY <1>7, <1>8, <2>2, <2>5, <2>6 DEF Takes, Kinds
  <2> QED  BY <1>1, <1>6, <2>7, TakeKeeps
<1>10. CASE ~(Room > 0)
  <2>1. pending' = Append(pending, r) /\ UNCHANGED chunk
    BY <1>1, <1>10 DEF OnBisected, Buffered
  <2>2. pending \in Seq([start : Nat, end : Nat]) /\ r \in [start : Nat, end : Nat]
    BY <1>3 DEF IInv, TypeOK
  <2>3. r.start = m.start /\ r.end = m.end  OBVIOUS
  <2> HIDE DEF r
  <2>0. PICK n \in Nat : n = Len(pending) + 1  BY <1>8
  <2>4. /\ Len(pending') = n /\ pending'[n] = r
        /\ \A k \in 1 .. Len(pending) : pending'[k] = pending[k]
        /\ \A k \in 1 .. n : k \in 1 .. Len(pending) \/ k = n
    BY <2>0, <2>1, <2>2
  <2>5. Holds("pending", n, b)' => Holds("event", 1, b)
    BY <1>2, <2>3, <2>4 DEF Holds, Span
  <2>6. ASSUME NEW x \in Kinds \ {"event"}, NEW y \in Nat, x # "pending" \/ y # n,
               Holds(x, y, b)'
        PROVE  Holds(x, y, b)
    <3>1. CASE x = "pending"
      BY <2>4, <2>6, <3>1 DEF Holds
    <3>2. CASE x # "pending"
      BY <1>4, <2>1, <2>6, <3>2 DEF Holds, Kinds, Retries, Live
    <3> QED  BY <3>1, <3>2
  <2>7. "pending" \in Kinds /\ Takes("pending", n, b)
    BY <1>7, <2>5, <2>6 DEF Takes, Kinds
  <2> QED  BY <1>1, <1>6, <2>7, TakeKeeps
<1> QED  BY <1>9, <1>10

\* A joined worker holds nothing.
LEMMA JoinClaims ==
    ASSUME IInv, ClaimInv, NEW i \in Ids, MonJoin(i)
    PROVE  ClaimInv'
<1>1. /\ UNCHANGED <<reliable, retry, delayed, pending, sent>> /\ Working
      /\ chunk' = [chunk EXCEPT ![i] = NoChunk] /\ chunk[i].pc = "exited"
  BY DEF MonJoin, chanVars, retryVars, Working
<1>2. NoChunk.pc = "none"  BY DEF NoChunk
<1>3. chunk'[i] = NoChunk /\ \A j \in Ids \ {i} : chunk'[j] = chunk[j]
  BY <1>1, ChunkFacts DEF IInv
<1>4. ~Live(i) /\ ~Live(i)' /\ \A j \in Ids : Live(j)' <=> Live(j)
  BY <1>1, <1>2, <1>3 DEF Live
<1>5. KeepsRanges  BY <1>2, <1>3, <1>4 DEF KeepsRanges, IInv, Safe, RangesOK
<1> QED  BY <1>1, <1>5, KeepClaims DEF AddsNoRange

\* Where a holder after a tick had its byte from: buffered ranges p .. p + d - 1
\* get workers, the ids in S get their range back from the retry queues.
TickOrigin(k, n, b, p, d, S) ==
    \/ k = "worker" /\ n \in p .. p + d - 1 /\ Holds("pending", n - p + 1, b)
    \/ k = "worker" /\ n \in S /\ n < p /\ Holds("retry", n, b)
    \/ k = "worker" /\ n \notin S /\ Holds("worker", n, b)
    \/ k = "event" /\ Holds("event", n, b)
    \/ k = "retry" /\ n \notin S /\ Holds("retry", n, b)
    \/ k = "pending" /\ n > 0 /\ Holds("pending", n + d, b)

\* Two holders never have their byte from the same holder.
LEMMA TickUnique ==
    ASSUME NEW b \in Nat, Once(b), NEW p \in Nat, NEW d \in Nat, NEW S,
           NEW k \in Kinds, NEW m \in Nat, NEW l \in Kinds, NEW n \in Nat,
           TickOrigin(k, m, b, p, d, S), TickOrigin(l, n, b, p, d, S)
    PROVE  k = l /\ m = n /\ b \notin sent
<1>1. /\ \A x, y \in Kinds : \A v, w \in Nat :
            Holds(x, v, b) /\ Holds(y, w, b) => x = y /\ v = w
      /\ \A x \in Kinds : \A w \in Nat : Holds(x, w, b) => b \notin sent
  BY DEF Once
<1>2. \A x \in p .. p + d - 1 : x - p + 1 \in Nat /\ x - p + 1 <= d  OBVIOUS
<1>3. /\ "worker" \in Kinds /\ "event" \in Kinds /\ "retry" \in Kinds /\ "pending" \in Kinds
      /\ n + d \in Nat /\ m + d \in Nat
  BY DEF Kinds
<1>4. b \notin sent  BY <1>1, <1>2, <1>3 DEF TickOrigin
<1>5. CASE k = "worker" /\ m \in p .. p + d - 1 /\ Holds("pending", m - p + 1, b)
  BY <1>1, <1>2, <1>3, <1>5 DEF TickOrigin
<1>6. CASE k = "worker" /\ m \in S /\ m < p /\ Holds("retry", m, b)
  BY <1>1, <1>2, <1>3, <1>6 DEF TickOrigin
<1>7. CASE k = "worker" /\ m \notin S /\ Holds("worker", m, b)
  BY <1>1, <1>2, <1>3, <1>7 DEF TickOrigin
<1>8. CASE k = "event" /\ Holds("event", m, b)
  BY <1>1, <1>2, <1>3, <1>8 DEF TickOrigin
<1>9. CASE k = "retry" /\ m \notin S /\ Holds("retry", m, b)
  BY <1>1, <1>2, <1>3, <1>9 DEF TickOrigin
<1>10. CASE k = "pending" /\ m > 0 /\ Holds("pending", m + d, b)
  BY <1>1, <1>2, <1>3, <1>10 DEF TickOrigin
<1> QED  BY <1>4, <1>5, <1>6, <1>7, <1>8, <1>9, <1>10 DEF TickOrigin

\* A tick gives each drained and each retried range to exactly one worker.
LEMMA TickClaims ==
    ASSUME IInv, ClaimInv, NEW due, NEW go, NEW command \in Commands \cup {NoCommand},
           Tick(due, go, command)
    PROVE  ClaimInv'
<1>1. PICK p \in Nat : p = nextId  BY DrainedFacts DEF IInv
<1>2. PICK d \in Nat : d = Drained  BY DrainedFacts DEF IInv
<1> DEFINE fresh == p .. p + d - 1
           S == {r.id : r \in go}
<1>3. /\ go \subseteq Retries
      /\ \A j \in fresh :
            /\ j \in Ids /\ j - p + 1 \in 1 .. Len(pending)
            /\ chunk'[j].off = pending[j - p + 1].start
            /\ chunk'[j].end = pending[j - p + 1].end
      /\ \A r \in go :
            /\ r.id \in Ids /\ r.id \notin fresh
            /\ chunk'[r.id].off = r.start /\ chunk'[r.id].end = r.end
      /\ \A j \in Ids : j \notin fresh /\ (\A r \in go : r.id # j) =>
            /\ chunk'[j].pc = chunk[j].pc
            /\ chunk'[j].off = chunk[j].off /\ chunk'[j].end = chunk[j].end
  BY <1>1, <1>2, TickWorkers
<1>4. d <= Len(pending) /\ Len(pending) \in Nat  BY <1>2, DrainedFacts DEF IInv
<1>5. /\ result = "running" /\ due \subseteq delayed /\ go \subseteq retry \cup due
      /\ pending' = SubSeq(pending, d + 1, Len(pending))
      /\ delayed' = delayed \ due /\ retry' = (retry \cup due) \ go
      /\ UNCHANGED <<reliable, sent>>
  BY <1>2 DEF Tick, chanVars
<1>6. /\ Len(pending') = Len(pending) - d
      /\ \A k \in 1 .. Len(pending) - d : pending'[k] = pending[k + d]
  <2>1. pending \in Seq([start : Nat, end : Nat])  BY DEF IInv, TypeOK
  <2> QED  BY <1>4, <1>5, <2>1, SuffixFacts
<1>7. (retry \cup delayed)' = (retry \cup delayed) \ go
  BY <1>5 DEF IInv, Safe, OnePlace
<1>8. \A r \in go : r.id \in Nat /\ r.id < p
  BY <1>1, <1>3, ConstantTypes DEF IInv, Safe, FreshIds, Ids
<1>9. SUFFICES ASSUME NEW b \in Nat  PROVE Once(b)'
  BY DEF ClaimInv
<1>10. Once(b)  BY <1>5 DEF ClaimInv, Working
<1>11. ASSUME NEW k \in Kinds, NEW n \in Nat, Holds(k, n, b)'
       PROVE  TickOrigin(k, n, b, p, d, S)
  <2>1. CASE k = "worker"
    <3>1. n \in Ids /\ Live(n)' /\ b \in chunk'[n].off .. chunk'[n].end
      BY <1>11, <2>1 DEF Holds
    <3>2. CASE n \in fresh
      <4>1. Holds("pending", n - p + 1, b)  BY <1>3, <3>1, <3>2 DEF Holds, Span
      <4> QED  BY <2>1, <3>2, <4>1 DEF TickOrigin
    <3>3. CASE \E r \in go : r.id = n
      <4>1. PICK r \in go : r.id = n  BY <3>3
      <4>2. Holds("retry", n, b)  BY <1>3, <3>1, <4>1 DEF Holds, Span
      <4> QED  BY <1>8, <2>1, <4>1, <4>2 DEF TickOrigin
    <3>4. CASE n \notin fresh /\ \A r \in go : r.id # n
      <4>1. Live(n) /\ b \in chunk[n].off .. chunk[n].end  BY <1>3, <3>1, <3>4 DEF Live
      <4> QED  BY <2>1, <3>1, <3>4, <4>1 DEF TickOrigin, Holds
    <3> QED  BY <3>2, <3>3, <3>4
  <2>2. CASE k = "event"
    BY <1>5, <1>11, <2>2 DEF TickOrigin, Holds, Hands
  <2>3. CASE k = "retry"
    <3>1. PICK r \in (retry \cup delayed)' : r.id = n /\ b \in Span(r)
      BY <1>11, <2>3 DEF Holds, Retries
    <3>2. r \in Retries /\ r \notin go  BY <1>7, <3>1 DEF Retries
    <3>3. n \notin S  BY <1>3, <3>1, <3>2 DEF IInv, Safe, OnePlace
    <3>4. Holds("retry", n, b)  BY <3>1, <3>2 DEF Holds
    <3> QED  BY <2>3, <3>3, <3>4 DEF TickOrigin
  <2>4. CASE k = "pending"
    <3>1. n \in 1 .. Len(pending') /\ b \in Span(pending'[n])
      BY <1>11, <2>4 DEF Holds, Span
    <3>2. n + d \in 1 .. Len(pending) /\ pending'[n] = pending[n + d] /\ n > 0
      BY <1>4, <1>6, <3>1
    <3>3. Holds("pending", n + d, b)  BY <3>1, <3>2 DEF Holds
    <3> QED  BY <2>4, <3>2, <3>3 DEF TickOrigin
  <2> QED  BY <2>1, <2>2, <2>3, <2>4 DEF Kinds
<1> HIDE DEF S
<1>12. \A k, l \in Kinds : \A m, n \in Nat :
          Holds(k, m, b)' /\ Holds(l, n, b)' => k = l /\ m = n
  BY <1>10, <1>11, TickUnique
<1>13. \A k \in Kinds : \A n \in Nat : Holds(k, n, b)' => b \notin sent'
  BY <1>5, <1>10, <1>11, TickUnique
<1> QED  BY <1>12, <1>13 DEF Once

\* At the start each byte that is missing belongs to one initial range.
LEMMA InitClaims ==
    ASSUME Init  PROVE ClaimInv
<1>1. PICK q \in Nat : q = Smaller(Len(InitRanges), Slots)
  BY InitRangesAssumption, ConstantTypes, ArithTypes
<1>2. /\ chunk = [i \in Ids |-> IF i < q THEN Worker(InitRanges[i + 1].start, InitRanges[i + 1].end)
                                ELSE NoChunk]
      /\ reliable = <<>> /\ retry = {} /\ delayed = {}
      /\ pending = SubSeq(InitRanges, q + 1, Len(InitRanges))
      /\ sent = Bytes \ Wanted
  BY <1>1 DEF Init
<1>3. q <= Len(InitRanges) /\ Len(InitRanges) \in Nat
  BY <1>1, InitRangesAssumption, ConstantTypes, ArithTypes
<1>4. /\ Len(pending) = Len(InitRanges) - q
      /\ \A k \in 1 .. Len(InitRanges) - q : pending[k] = InitRanges[k + q]
  BY <1>2, <1>3, SuffixFacts, InitRangesAssumption
<1>5. NoChunk.pc = "none"  BY DEF NoChunk
<1> DEFINE At(k, n) == IF k = "worker" THEN n + 1 ELSE n + q
<1>6. ASSUME NEW b \in Nat, NEW k \in Kinds, NEW n \in Nat, Holds(k, n, b)
      PROVE  /\ At(k, n) \in 1 .. Len(InitRanges) /\ b \in Span(InitRanges[At(k, n)])
             /\ \/ k = "worker" /\ At(k, n) <= q
                \/ k = "pending" /\ At(k, n) > q
  <2>1. CASE k = "worker"
    <3>1. n \in Ids /\ Live(n) /\ b \in chunk[n].off .. chunk[n].end
      BY <1>6, <2>1 DEF Holds
    <3>2. n < q  BY <1>2, <1>5, <3>1 DEF Live
    <3>3. n + 1 \in 1 .. Len(InitRanges)  BY <1>3, <3>2
    <3>4. chunk[n] = Worker(InitRanges[n + 1].start, InitRanges[n + 1].end)
      BY <1>2, <3>1, <3>2
    <3>5. chunk[n].off = InitRanges[n + 1].start /\ chunk[n].end = InitRanges[n + 1].end
      BY <3>3, <3>4, InitRangeFacts, WorkerRecord
    <3> QED  BY <2>1, <3>1, <3>2, <3>3, <3>5 DEF Span
  <2>2. CASE k = "event"
    <3>1. Len(reliable) = 0  BY <1>2
    <3> QED  BY <1>6, <2>2, <3>1 DEF Holds
  <2>3. CASE k = "retry"  BY <1>2, <1>6, <2>3 DEF Holds, Retries
  <2>4. CASE k = "pending"
    <3>1. n \in 1 .. Len(pending) /\ b \in Span(pending[n])  BY <1>6, <2>4 DEF Holds
    <3>2. n + q \in 1 .. Len(InitRanges) /\ pending[n] = InitRanges[n + q] /\ n + q > q
      BY <1>3, <1>4, <3>1
    <3> QED  BY <2>4, <3>1, <3>2
  <2> QED  BY <2>1, <2>2, <2>3, <2>4 DEF Kinds
<1>7. ASSUME NEW b \in Nat, NEW k \in Kinds, NEW l \in Kinds, NEW m \in Nat, NEW n \in Nat,
             Holds(k, m, b), Holds(l, n, b)
      PROVE  k = l /\ m = n
  <2>0. \A v, w \in 1 .. Len(InitRanges) :
           v # w => Span(InitRanges[v]) \cap Span(InitRanges[w]) = {}
    BY InitRangesAssumption
  <2>1. At(k, m) = At(l, n)
    <3> DEFINE v == At(k, m)
               w == At(l, n)
    <3>1. v \in 1 .. Len(InitRanges) /\ w \in 1 .. Len(InitRanges)  BY <1>6, <1>7
    <3>2. b \in Span(InitRanges[v]) /\ b \in Span(InitRanges[w])  BY <1>6, <1>7
    <3> HIDE DEF v, w
    <3>3. v = w  BY <2>0, <3>1, <3>2
    <3> QED  BY <3>3 DEF v, w
  <2>2. k = l
    BY <1>6, <1>7, <2>1
  <2> QED  BY <2>1, <2>2
<1>8. ASSUME NEW b \in Nat, NEW k \in Kinds, NEW n \in Nat, Holds(k, n, b)
      PROVE  b \notin sent
  <2>1. b \in Wanted  BY <1>6, <1>8 DEF Wanted
  <2> QED  BY <1>2, <2>1
<1> QED  BY <1>7, <1>8 DEF ClaimInv, Once

\* A worker ends after its last byte, or after the monitor has returned.
LEMMA ExitClaims ==
    ASSUME IInv, ClaimInv, NEW i \in Ids, SendComplete(i) \/ Terminate(i)
    PROVE  ClaimInv'
<1>1. UNCHANGED <<retry, delayed, pending, sent, result>>
  BY DEF SendComplete, Terminate, monVars, retryVars
<1>2. CASE Terminate(i)  BY <1>1, <1>2 DEF Terminate, ClaimInv, Working
<1>3. CASE SendComplete(i)
  <2>1. Live(i) /\ chunk[i].off > chunk[i].end /\ chunk[i].pc # "none"
    BY <1>3 DEF SendComplete, IInv, Safe, RangesOK, Live
  <2>2. Complete(i) \in MsgType /\ ~Hands(Complete(i))
    BY DEF Complete, Msg, MsgType, ClsType, Hands
  <2>3. AddsNoRange  BY <1>3, <2>2 DEF AddsNoRange, SendComplete
  <2>4. KeepsRanges  BY <1>3, <2>1, ExitKeeps DEF SendComplete
  <2> QED  BY <1>1, <2>3, <2>4, KeepClaims DEF Working
<1> QED  BY <1>2, <1>3

\* Steps of the monitor and the writer that leave workers and queues alone.
LEMMA IdleClaims ==
    ASSUME IInv, ClaimInv, WriterDies \/ Subscribe \/ MonInfo \/ UNCHANGED vars
    PROVE  ClaimInv'
<1>1. UNCHANGED <<chunk, reliable, retry, delayed, pending, sent>> /\ (Working' => Working)
  BY DEF WriterDies, Subscribe, MonInfo, OnProgress, chanVars, monVars, ledgerVars, retryVars,
         vars, Working
<1> QED  BY <1>1, SameChunks, KeepClaims DEF AddsNoRange

\* Every step keeps the holders unique.
LEMMA ClaimStep ==
    ASSUME IInv, ClaimInv, [Next]_vars  PROVE ClaimInv'
<1>1. ASSUME NEW i \in Ids, WorkerStep(i)  PROVE ClaimInv'
  <2>1. CASE \E n \in Pieces : Data(i, n)  BY <2>1, DataClaims
  <2>2. CASE Bisect(i)  BY <2>2, BisectClaims
  <2>3. CASE FailSend(i)  BY <2>3, FailSendClaims
  <2>4. CASE FinalProgress(i)  BY <2>4, FinalReports, ReportClaims
  <2>5. CASE SendComplete(i) \/ Terminate(i)  BY <2>5, ExitClaims
  <2> QED  BY <1>1, <2>1, <2>2, <2>3, <2>4, <2>5, QuietReports, ReportClaims DEF WorkerStep
<1>2. ASSUME NEW i \in Ids, MonJoin(i)  PROVE ClaimInv'  BY <1>2, JoinClaims
<1>3. CASE WriterDies \/ Subscribe \/ MonInfo \/ Finished \/ UNCHANGED vars
  BY <1>3, IdleClaims DEF Finished
<1>4. CASE MonReliable
  BY <1>4, TakeClaims, FailedClaims, BisectedClaims DEF MonReliable
<1>5. CASE SomeTick  BY <1>5, TickClaims DEF SomeTick
<1> QED  BY <1>1, <1>2, <1>3, <1>4, <1>5 DEF Next

\* Two claims of one holder are the same claim, so unique holders make the
\* claims disjoint.
LEMMA ClaimsFollow ==
    ASSUME IInv, ClaimInv  PROVE ClaimedOnce
<1>1. SUFFICES ASSUME Working, NEW c \in Claims
      PROVE  /\ Span(c) \cap sent = {}
             /\ \A d \in Claims : c # d => Span(c) \cap Span(d) = {}
  BY DEF ClaimedOnce
<1> DEFINE Of(x) == \/ /\ x.by = "worker" /\ x.n \in Ids
                       /\ x = [by |-> "worker", n |-> x.n, start |-> chunk[x.n].off, end |-> chunk[x.n].end]
                    \/ /\ x.by = "event" /\ x.n \in DOMAIN reliable
                       /\ x = [by |-> "event", n |-> x.n, start |-> reliable[x.n].start, end |-> reliable[x.n].end]
                    \/ /\ x.by = "retry"
                       /\ \E r \in Retries : x = [by |-> "retry", n |-> r.id, start |-> r.start, end |-> r.end]
                    \/ /\ x.by = "pending" /\ x.n \in DOMAIN pending
                       /\ x = [by |-> "pending", n |-> x.n, start |-> pending[x.n].start, end |-> pending[x.n].end]
<1>2. /\ DOMAIN reliable = 1 .. Len(reliable) /\ DOMAIN pending = 1 .. Len(pending)
      /\ Len(reliable) \in Nat /\ Len(pending) \in Nat
  BY ReliableFacts, DrainedFacts DEF IInv, TypeOK
<1>3. ASSUME NEW x \in Claims
      PROVE  /\ Of(x) /\ x.by \in Kinds /\ x.n \in Nat
             /\ Span(x) \subseteq Nat
             /\ \A b \in Span(x) : Holds(x.by, x.n, b)
  <2>1. CASE \E i \in Ids : Live(i) /\ x = [by |-> "worker", n |-> i, start |-> chunk[i].off, end |-> chunk[i].end]
    <3>1. PICK i \in Ids : Live(i) /\ x = [by |-> "worker", n |-> i, start |-> chunk[i].off, end |-> chunk[i].end]
      BY <2>1
    <3>2. chunk[i].off \in Nat /\ chunk[i].end \in Nat /\ i \in Nat
      BY ChunkFacts, ConstantTypes DEF IInv, Ids
    <3> QED  BY <3>1, <3>2 DEF Kinds, Holds, Span
  <2>2. CASE \E k \in DOMAIN reliable : /\ Hands(reliable[k])
               /\ x = [by |-> "event", n |-> k, start |-> reliable[k].start, end |-> reliable[k].end]
    <3>1. PICK k \in DOMAIN reliable : /\ Hands(reliable[k])
               /\ x = [by |-> "event", n |-> k, start |-> reliable[k].start, end |-> reliable[k].end]
      BY <2>2
    <3>2. reliable[k].start \in Nat /\ reliable[k].end \in Nat /\ k \in Nat /\ k \in 1 .. Len(reliable)
      BY <1>2, ReliableFacts DEF IInv
    <3> QED  BY <3>1, <3>2 DEF Kinds, Holds, Span
  <2>3. CASE \E r \in Retries : x = [by |-> "retry", n |-> r.id, start |-> r.start, end |-> r.end]
    <3>1. PICK r \in Retries : x = [by |-> "retry", n |-> r.id, start |-> r.start, end |-> r.end]
      BY <2>3
    <3>2. r.start \in Nat /\ r.end \in Nat /\ r.id \in Nat
      <4>1. r \in RangeType  BY <3>1 DEF IInv, TypeOK, Retries
      <4> QED  BY <4>1, ConstantTypes DEF RangeType, Ids
    <3> QED  BY <3>1, <3>2 DEF Kinds, Holds, Span
  <2>4. CASE \E k \in DOMAIN pending :
               x = [by |-> "pending", n |-> k, start |-> pending[k].start, end |-> pending[k].end]
    <3>1. PICK k \in DOMAIN pending :
               x = [by |-> "pending", n |-> k, start |-> pending[k].start, end |-> pending[k].end]
      BY <2>4
    <3>2. pending[k].start \in Nat /\ pending[k].end \in Nat /\ k \in Nat /\ k \in 1 .. Len(pending)
      BY <1>2, PendingFacts DEF IInv
    <3> QED  BY <3>1, <3>2 DEF Kinds, Holds, Span
  <2> QED  BY <2>1, <2>2, <2>3, <2>4 DEF Claims, Retries
<1>4. Span(c) \cap sent = {}
  BY <1>1, <1>3 DEF ClaimInv, Once
<1>5. ASSUME NEW d \in Claims, c # d, NEW b \in Span(c) \cap Span(d)  PROVE FALSE
  <2>1. c.by = d.by /\ c.n = d.n  BY <1>1, <1>3, <1>5 DEF ClaimInv, Once
  <2>2. Of(c) /\ Of(d)  BY <1>3
  <2>3. CASE c.by # "retry"  BY <1>5, <2>1, <2>2, <2>3
  <2>4. CASE c.by = "retry"
    BY <1>5, <2>1, <2>2, <2>4 DEF IInv, Safe, OnePlace
  <2> QED  BY <2>3, <2>4
<1> QED  BY <1>4, <1>5

\* However splits, failures, retries and buffered ranges interleave, no byte is
\* held by two workers, events, retries or buffered ranges at once, and none
\* that already went to the writer is fetched again.
THEOREM NothingFetchedTwice == Spec => []ClaimedOnce
<1>1. Init => ClaimInv  BY InitClaims
<1>2. IInv /\ ClaimInv /\ [Next]_vars => ClaimInv'  BY ClaimStep
<1>3. IInv /\ ClaimInv => ClaimedOnce  BY ClaimsFollow
<1> QED  BY <1>1, <1>2, <1>3, Invariance, PTL DEF Spec
-----------------------------------------------------------------------------
(* Who still has to report *)

\* Worker i runs, or its last event is on the way.
Reporting(i) == Live(i) \/ EndReported(i)

\* The monitor will hear of id i again.
Expected(i) == Reporting(i) \/ \E r \in Retries : r.id = i

\* Every ledger entry, and every progress message that could still create one,
\* is of an id that completed or that the monitor will hear of again.
GhostInv == Working =>
    /\ \A i \in Ids : st[i].on => Expected(i)
    /\ \A k \in Pos : reliable[k].t = "progress" =>
          reliable[k].id \in retired \/ Expected(reliable[k].id)
    /\ \A k \in 1 .. Len(info) : info[k].id \in retired \/ Expected(info[k].id)

\* A message that is appended hides no end report.
LEMMA AppendKeepsEnds ==
    ASSUME TypeOK, NEW m \in MsgType, reliable' = Append(reliable, m)
    PROVE  /\ Len(reliable) \in Nat /\ Len(reliable') = Len(reliable) + 1
           /\ \A k \in 1 .. Len(reliable) : reliable'[k] = reliable[k]
           /\ reliable'[Len(reliable) + 1] = m
           /\ \A j \in Ids : EndReported(j) => EndReported(j)'
           /\ m.t \in {"failed", "complete"} => EndReported(m.id)'
<1>1. reliable \in Seq(MsgType)  BY DEF TypeOK
<1>2. /\ Len(reliable) \in Nat /\ Len(reliable') = Len(reliable) + 1
      /\ \A k \in 1 .. Len(reliable) : reliable'[k] = reliable[k]
      /\ reliable'[Len(reliable) + 1] = m
      /\ DOMAIN reliable = 1 .. Len(reliable) /\ DOMAIN reliable' = 1 .. Len(reliable) + 1
  BY <1>1
<1>3. PICK n \in Nat : n = Len(reliable) + 1  BY <1>2
<1>4. n \in DOMAIN reliable' /\ reliable'[n] = m  BY <1>2, <1>3
<1>5. PICK i : i = m.id  OBVIOUS
<1>6. m.t \in {"failed", "complete"} => EndReported(i)'  BY <1>4, <1>5 DEF EndReported
<1>7. \A j \in Ids : EndReported(j) => EndReported(j)'
  <2>1. SUFFICES ASSUME NEW j \in Ids, EndReported(j)  PROVE EndReported(j)'  OBVIOUS
  <2>2. PICK k \in DOMAIN reliable : reliable[k].id = j /\ reliable[k].t \in {"failed", "complete"}
    BY <2>1 DEF EndReported
  <2>3. k \in DOMAIN reliable' /\ reliable'[k] = reliable[k]  BY <1>2
  <2> QED  BY <2>2, <2>3 DEF EndReported
<1> QED  BY <1>2, <1>5, <1>6, <1>7

\* What a worker's step may do: append a message of its own to a channel, and
\* never leave without a last event.
WorkerMoves(i) ==
    /\ \A j \in Ids : Reporting(j) => Reporting(j)'
    /\ Reporting(i)' /\ chunk'[i].pc # "none"
    /\ UNCHANGED <<st, retired, lanes, pending, retry, delayed, nextId, result, owed>>
    /\ info' = info \/ \E m \in MsgType : m.id = i /\ info' = Append(info, m)
    /\ \/ reliable' = reliable
       \/ \E m \in MsgType :
             /\ m.id = i /\ reliable' = Append(reliable, m)
             /\ m.t = "bisected" => nextId + NBisected + Len(pending) < MaxIds

\* A report is such a step.
LEMMA ReportMoves ==
    ASSUME IInv, NEW i \in Ids, OnlyReports(i), Live(i)
    PROVE  WorkerMoves(i)
<1>1. \A j \in Ids : EndReported(j) => EndReported(j)'
  <2>1. CASE reliable' = reliable  BY <2>1 DEF EndReported
  <2>2. CASE reliable' # reliable
    <3>1. PICK m \in MsgType : reliable' = Append(reliable, m)  BY <2>2 DEF OnlyReports
    <3> QED  BY <3>1, AppendKeepsEnds DEF IInv
  <2> QED  BY <2>1, <2>2
<1>2. \A j \in Ids : Reporting(j) => Reporting(j)'
  BY <1>1 DEF OnlyReports, Reporting
<1>3. Reporting(i)' /\ chunk'[i].pc # "none"
  <2>1. Live(i)'  BY DEF OnlyReports
  <2> QED  BY <2>1 DEF Reporting, Live
<1>4. \/ reliable' = reliable
      \/ \E m \in MsgType : m.t = "progress" /\ m.id = i /\ reliable' = Append(reliable, m)
  BY DEF OnlyReports
<1>5. \/ reliable' = reliable
      \/ \E m \in MsgType :
            /\ m.id = i /\ reliable' = Append(reliable, m)
            /\ m.t = "bisected" => nextId + NBisected + Len(pending) < MaxIds
  BY <1>4
<1> QED  BY <1>2, <1>3, <1>5 DEF WorkerMoves, OnlyReports

\* Steps that leave the channel of terminal events and every place alone.
LEMMA DataMoves ==
    ASSUME IInv, NEW i \in Ids, NEW n \in Pieces, Data(i, n)
    PROVE  WorkerMoves(i)
<1> DEFINE c == chunk[i]
           w == Taken(c, n)
           o == c.off + w
           report == Msg("progress", i, c.start, c.end, o - c.start, "none")
<1>1. /\ c.start \in Nat /\ c.end \in Nat /\ c.off \in Nat /\ c.pc = "run"
      /\ c.start <= c.off /\ c.off <= c.end /\ n \in Nat
  BY ChunkFacts, ConstantTypes DEF Data, IInv, Safe, RangesOK, Live
<1>2. w \in Nat  BY <1>1, ArithTypes DEF Taken
<1>3. o - c.start \in Nat  BY <1>1, <1>2
<1>4. report \in MsgType /\ report.id = i  BY <1>1, <1>3 DEF Msg, MsgType, ClsType
<1>5. PICK send \in BOOLEAN :
          /\ IF send THEN Broadcast(report) ELSE UNCHANGED <<info, lost>>
          /\ chunk' = [chunk EXCEPT
                ![i].off = o,
                ![i].rep = IF send THEN o - c.start ELSE @,
                ![i].pc  = IF w < n THEN "finishing" ELSE "run"]
  BY DEF Data
<1>6. UNCHANGED <<reliable, st, retired, lanes, pending, retry, delayed, nextId, result, owed>>
  BY DEF Data, monVars, ledgerVars, retryVars
<1> HIDE DEF report, w, o
<1>7. info' = info \/ info' = Append(info, report)
  BY <1>5 DEF Broadcast
<1>8. /\ \A j \in Ids \ {i} : chunk'[j] = chunk[j]
      /\ chunk'[i].pc \in {"finishing", "run"}
  BY <1>5, ChunkFacts DEF IInv, ChunkType
<1>9. Live(i)' /\ \A j \in Ids : Live(j) => Live(j)'  BY <1>8 DEF Live
<1>10. \A j \in Ids : EndReported(j) => EndReported(j)'  BY <1>6 DEF EndReported
<1> QED  BY <1>4, <1>6, <1>7, <1>8, <1>9, <1>10 DEF WorkerMoves, Reporting

\* A split sends one event and keeps the worker.
LEMMA BisectMoves ==
    ASSUME IInv, NEW i \in Ids, Bisect(i)
    PROVE  WorkerMoves(i)
<1> DEFINE c == chunk[i]
           mid == split_range(c.off, c.end, c.cmd = "skew")
<1>1. /\ c.end \in Nat /\ c.off \in Nat /\ c.pc = "run"
      /\ UNCHANGED <<info, st, retired, lanes, pending, retry, delayed, nextId, result, owed>>
  BY ChunkFacts DEF Bisect, IInv, monVars, ledgerVars, retryVars
<1>2. \A j \in Ids : chunk'[j].pc = chunk[j].pc
  <2>1. \/ chunk' = [chunk EXCEPT ![i].end = mid, ![i].cmd = "none"]
        \/ chunk' = [chunk EXCEPT ![i].cmd = "none"]
    BY DEF Bisect
  <2> HIDE DEF mid
  <2> QED  BY <2>1, ChunkFacts DEF IInv, ChunkType
<1>3. \A j \in Ids : Live(j)' <=> Live(j)  BY <1>2 DEF Live
<1>4. \/ reliable' = reliable
      \/ \E m \in MsgType :
             /\ m.id = i /\ reliable' = Append(reliable, m)
             /\ m.t = "bisected" => nextId + NBisected + Len(pending) < MaxIds
  <2>1. CASE ~Splittable(c.off, c.end)  BY <2>1 DEF Bisect
  <2>2. CASE Splittable(c.off, c.end)
    <3>1. mid \in Nat  BY <1>1, <2>2, SplitInside
    <3>2. Bisected(i, mid + 1, c.end) \in MsgType /\ Bisected(i, mid + 1, c.end).id = i
      <4> HIDE DEF mid
      <4> QED  BY <1>1, <3>1 DEF Bisected, Msg, MsgType, ClsType
    <3> QED  BY <2>2, <3>2 DEF Bisect
  <2> QED  BY <2>1, <2>2
<1>5. \A j \in Ids : EndReported(j) => EndReported(j)'
  <2>1. CASE reliable' = reliable  BY <2>1 DEF EndReported
  <2>2. CASE reliable' # reliable
    <3>1. PICK m \in MsgType : reliable' = Append(reliable, m)  BY <1>4, <2>2
    <3> QED  BY <3>1, AppendKeepsEnds DEF IInv
  <2> QED  BY <2>1, <2>2
<1>6. Live(i)' /\ chunk'[i].pc # "none"  BY <1>1, <1>2 DEF Live
<1> QED  BY <1>1, <1>3, <1>4, <1>5, <1>6 DEF WorkerMoves, Reporting

\* A worker leaves with its last event in the channel.
LEMMA LeaveMoves ==
    ASSUME IInv, NEW i \in Ids, FailSend(i) \/ SendComplete(i)
    PROVE  WorkerMoves(i)
<1>1. /\ chunk' = Exit(i) /\ chunk[i].pc # "none"
      /\ UNCHANGED <<info, st, retired, lanes, pending, retry, delayed, nextId, result, owed>>
  BY DEF FailSend, SendComplete, monVars, ledgerVars, retryVars
<1>2. PICK m \in MsgType : /\ m.id = i /\ m.t \in {"failed", "complete"}
                           /\ reliable' = Append(reliable, m)
  <2>1. Failed(i) \in MsgType /\ Failed(i).id = i /\ Failed(i).t = "failed"
    BY ChunkFacts DEF Failed, Msg, MsgType, IInv
  <2>2. Complete(i) \in MsgType /\ Complete(i).id = i /\ Complete(i).t = "complete"
    BY DEF Complete, Msg, MsgType, ClsType
  <2> QED  BY <2>1, <2>2 DEF FailSend, SendComplete
<1>3. \A j \in Ids \ {i} : chunk'[j] = chunk[j]  BY <1>1, ExitFacts
<1>4. chunk'[i].pc = "exited"  BY <1>1, ChunkFacts DEF Exit, NoChunk, IInv
<1>5. /\ \A j \in Ids : EndReported(j) => EndReported(j)'
      /\ EndReported(i)'
  BY <1>2, AppendKeepsEnds DEF IInv
<1>6. \A j \in Ids : Live(j) => Live(j)' \/ j = i  BY <1>3 DEF Live
<1>7. m.t # "bisected"  BY <1>2
<1> QED  BY <1>1, <1>2, <1>4, <1>5, <1>6, <1>7 DEF WorkerMoves, Reporting

\* All steps of a worker while the download runs.
LEMMA WorkerDoesMove ==
    ASSUME IInv, NEW i \in Ids, WorkerStep(i), Working
    PROVE  WorkerMoves(i)
<1>1. CASE \E n \in Pieces : Data(i, n)  BY <1>1, DataMoves
<1>2. CASE Bisect(i)  BY <1>2, BisectMoves
<1>3. CASE FailSend(i) \/ SendComplete(i)  BY <1>3, LeaveMoves
<1>4. CASE FinalProgress(i)  BY <1>4, FinalReports, ReportMoves
<1>5. ~Terminate(i)  BY DEF Terminate
<1> QED  BY <1>1, <1>2, <1>3, <1>4, <1>5, QuietReports, ReportMoves DEF WorkerStep

\* Taking the first event hides the end of nobody but its sender.
LEMMA TailKeepsEnds ==
    ASSUME IInv, reliable # <<>>, reliable' = Tail(reliable)
    PROVE  \A j \in Ids : EndReported(j) =>
              EndReported(j)' \/ (reliable[1].id = j /\ reliable[1].t \in {"failed", "complete"})
<1>1. /\ reliable \in Seq(MsgType) /\ reliable' \in Seq(MsgType)
      /\ \A k \in 1 .. Len(reliable) :
            k = 1 \/ (k - 1 \in 1 .. Len(reliable') /\ reliable'[k - 1] = reliable[k])
  BY TailFacts DEF IInv, TypeOK
<1>2. DOMAIN reliable = 1 .. Len(reliable) /\ DOMAIN reliable' = 1 .. Len(reliable')  BY <1>1
<1>3. SUFFICES ASSUME NEW j \in Ids, EndReported(j)
      PROVE  EndReported(j)' \/ (reliable[1].id = j /\ reliable[1].t \in {"failed", "complete"})
  OBVIOUS
<1>4. PICK k \in DOMAIN reliable : reliable[k].id = j /\ reliable[k].t \in {"failed", "complete"}
  BY <1>3 DEF EndReported
<1>5. CASE k = 1  BY <1>4, <1>5
<1>6. CASE k # 1
  <2>1. k - 1 \in DOMAIN reliable' /\ reliable'[k - 1] = reliable[k]  BY <1>1, <1>2, <1>6
  <2> QED  BY <1>4, <2>1 DEF EndReported
<1> QED  BY <1>5, <1>6
-----------------------------------------------------------------------------
(* No ghost entries *)

\* The messages of the broadcast have an id.
LEMMA InfoFacts ==
    ASSUME TypeOK
    PROVE  /\ info \in Seq(MsgType) /\ Len(info) \in Nat
           /\ \A k \in 1 .. Len(info) : info[k] \in MsgType /\ info[k].id \in Ids
<1>1. info \in Seq(MsgType)  BY DEF TypeOK
<1>2. \A k \in 1 .. Len(info) : info[k] \in MsgType  BY <1>1
<1> QED  BY <1>1, <1>2 DEF MsgType

\* A step that makes no entry, and after which whoever was expected still is.
LEMMA GhostKeep ==
    ASSUME IInv, GhostInv, Working' => Working, st' = st, retired' = retired, info' = info,
           reliable' = reliable, \A j \in Ids : Expected(j) => Expected(j)'
    PROVE  GhostInv'
<1>1. SUFFICES ASSUME Working'  PROVE GhostInv'  BY DEF GhostInv
<1>2. /\ \A i \in Ids : st[i].on => Expected(i)
      /\ \A k \in Pos : reliable[k].t = "progress" =>
            reliable[k].id \in retired \/ Expected(reliable[k].id)
      /\ \A k \in 1 .. Len(info) : info[k].id \in retired \/ Expected(info[k].id)
  BY <1>1 DEF GhostInv
<1>3. \A i \in Ids : st'[i].on => Expected(i)'  BY <1>2
<1>4. ASSUME NEW k \in Pos, reliable[k].t = "progress", NEW i, i = reliable[k].id
      PROVE  i \in retired \/ Expected(i)'
  BY <1>2, <1>4, ReliableFacts DEF IInv, Pos
<1>5. ASSUME NEW k \in 1 .. Len(info), NEW i, i = info[k].id
      PROVE  i \in retired \/ Expected(i)'
  BY <1>2, <1>5, InfoFacts DEF IInv
<1> QED  BY <1>3, <1>4, <1>5 DEF GhostInv, Pos

\* The three parts of the invariant, with the ids of the messages named.
GhostParts ==
    /\ \A i \in Ids : st[i].on => Expected(i)
    /\ \A i \in Ids : \A k \in 1 .. Len(reliable) :
          reliable[k].t = "progress" /\ reliable[k].id = i => i \in retired \/ Expected(i)
    /\ \A i \in Ids : \A k \in 1 .. Len(info) :
          info[k].id = i => i \in retired \/ Expected(i)

\* Both forms say the same.
LEMMA GhostForms ==
    ASSUME TypeOK  PROVE GhostInv <=> (Working => GhostParts)
BY ReliableFacts, InfoFacts DEF GhostInv, GhostParts, Pos

\* The same in the next state.
LEMMA GhostForms2 ==
    ASSUME TypeOK'  PROVE GhostInv' <=> (Working' => GhostParts')
<1>1. \A k \in 1 .. Len(reliable') : reliable'[k].id \in Ids
  <2>1. reliable' \in Seq(MsgType)  BY DEF TypeOK
  <2>2. \A k \in 1 .. Len(reliable') : reliable'[k] \in MsgType  BY <2>1
  <2> QED  BY <2>2 DEF MsgType
<1>2. \A k \in 1 .. Len(info') : info'[k].id \in Ids
  <2>1. info' \in Seq(MsgType)  BY DEF TypeOK
  <2>2. \A k \in 1 .. Len(info') : info'[k] \in MsgType  BY <2>1
  <2> QED  BY <2>2 DEF MsgType
<1> QED  BY <1>1, <1>2 DEF GhostInv, GhostParts, Pos

\* A worker's messages name the worker itself, which is still to report.
LEMMA WorkerGhosts ==
    ASSUME IInv, IInv', GhostInv, NEW i \in Ids, WorkerMoves(i)
    PROVE  GhostInv'
<1>1. SUFFICES ASSUME Working', Working  PROVE GhostParts'
  BY GhostForms2 DEF IInv, WorkerMoves, Working
<1>2. GhostParts  BY <1>1, GhostForms DEF IInv
<1>3. \A j \in Ids : Expected(j) => Expected(j)'
  BY DEF WorkerMoves, Expected, Retries
<1>4. Expected(i)' /\ st' = st /\ retired' = retired  BY DEF WorkerMoves, Expected
<1>5. \A j \in Ids : st'[j].on => Expected(j)'  BY <1>2, <1>3, <1>4 DEF GhostParts
<1>6. ASSUME NEW j \in Ids, NEW k \in 1 .. Len(reliable'), reliable'[k].t = "progress",
             reliable'[k].id = j
      PROVE  j \in retired' \/ Expected(j)'
  <2>1. CASE reliable' = reliable  BY <1>2, <1>3, <1>4, <1>6, <2>1 DEF GhostParts
  <2>2. CASE reliable' # reliable
    <3>1. PICK m \in MsgType : m.id = i /\ reliable' = Append(reliable, m)
      BY <2>2 DEF WorkerMoves
    <3>2. /\ Len(reliable) \in Nat /\ Len(reliable') = Len(reliable) + 1
          /\ \A l \in 1 .. Len(reliable) : reliable'[l] = reliable[l]
          /\ reliable'[Len(reliable) + 1] = m
      BY <3>1, AppendKeepsEnds DEF IInv
    <3>3. CASE k = Len(reliable) + 1  BY <1>4, <1>6, <3>1, <3>2, <3>3
    <3>4. CASE k # Len(reliable) + 1
      <4>1. k \in 1 .. Len(reliable)  BY <3>2, <3>4
      <4> QED  BY <1>2, <1>3, <1>4, <1>6, <3>2, <4>1 DEF GhostParts
    <3> QED  BY <3>3, <3>4
  <2> QED  BY <2>1, <2>2
<1>7. ASSUME NEW j \in Ids, NEW k \in 1 .. Len(info'), info'[k].id = j
      PROVE  j \in retired' \/ Expected(j)'
  <2>1. CASE info' = info  BY <1>2, <1>3, <1>4, <1>7, <2>1 DEF GhostParts
  <2>2. CASE info' # info
    <3>1. PICK m \in MsgType : m.id = i /\ info' = Append(info, m)
      BY <2>2 DEF WorkerMoves
    <3>2. /\ Len(info) \in Nat /\ Len(info') = Len(info) + 1
          /\ \A l \in 1 .. Len(info) : info'[l] = info[l]
          /\ info'[Len(info) + 1] = m
      BY <3>1, InfoFacts DEF IInv
    <3>3. CASE k = Len(info) + 1  BY <1>4, <1>7, <3>1, <3>2, <3>3
    <3>4. CASE k # Len(info) + 1
      <4>1. k \in 1 .. Len(info)  BY <3>2, <3>4
      <4> QED  BY <1>2, <1>3, <1>4, <1>7, <3>2, <4>1 DEF GhostParts
    <3> QED  BY <3>3, <3>4
  <2> QED  BY <2>1, <2>2
<1> QED  BY <1>5, <1>6, <1>7 DEF GhostParts

\* An entry is made only for an id that the monitor will hear of again.
LEMMA EntryMade ==
    ASSUME IInv, NEW m \in MsgType, OnProgress(m), NEW i \in Ids, i = m.id,
           i \in retired \/ Expected(i)
    PROVE  /\ \A j \in Ids : st'[j].on => st[j].on \/ Expected(j)
           /\ retired' = retired
           /\ UNCHANGED <<chunk, retry, delayed, result>>
<1>1. /\ st' = IF m.id \in retired THEN st ELSE [st EXCEPT ![m.id] = Updated(@, m)]
      /\ UNCHANGED <<chunk, retired, retry, delayed, result>>
  BY DEF OnProgress, retryVars
<1>2. \A j \in Ids : j # i => st'[j] = st[j]  BY <1>1 DEF IInv, TypeOK
<1>3. i \in retired => st' = st  BY <1>1
<1> QED  BY <1>1, <1>2, <1>3

\* Progress read from the broadcast.
LEMMA InfoGhosts ==
    ASSUME IInv, IInv', GhostInv, MonInfo
    PROVE  GhostInv'
<1>1. /\ info # <<>> /\ info' = Tail(info) /\ OnProgress(Head(info)) /\ reliable' = reliable
      /\ Working
  BY DEF MonInfo, Working
<1>2. PICK m \in MsgType : m = Head(info) /\ m = info[1]  BY <1>1, InfoFacts DEF IInv
<1>3. PICK i \in Ids : i = m.id  BY DEF MsgType
<1>4. /\ 1 \in 1 .. Len(info)
      /\ \A k \in 1 .. Len(info') : k + 1 \in 1 .. Len(info) /\ info'[k] = info[k + 1]
  BY <1>1, InfoFacts DEF IInv
<1>5. GhostParts  BY <1>1, GhostForms DEF IInv
<1>6. i \in retired \/ Expected(i)  BY <1>2, <1>3, <1>4, <1>5 DEF GhostParts
<1>7. /\ \A j \in Ids : st'[j].on => st[j].on \/ Expected(j)
      /\ retired' = retired
      /\ UNCHANGED <<chunk, retry, delayed, result>>
  BY <1>1, <1>2, <1>3, <1>6, EntryMade
<1>8. \A j \in Ids : Expected(j)' <=> Expected(j)
  BY <1>1, <1>7 DEF Expected, Reporting, Live, EndReported, Retries
<1>9. GhostParts'
  <2>1. \A j \in Ids : st'[j].on => Expected(j)'  BY <1>5, <1>7, <1>8 DEF GhostParts
  <2>2. \A j \in Ids : \A k \in 1 .. Len(reliable') :
           reliable'[k].t = "progress" /\ reliable'[k].id = j => j \in retired' \/ Expected(j)'
    BY <1>1, <1>5, <1>7, <1>8 DEF GhostParts
  <2>3. \A j \in Ids : \A k \in 1 .. Len(info') :
           info'[k].id = j => j \in retired' \/ Expected(j)'
    BY <1>4, <1>5, <1>7, <1>8 DEF GhostParts
  <2> QED  BY <2>1, <2>2, <2>3 DEF GhostParts
<1> QED  BY <1>9, GhostForms2 DEF IInv

\* Events read from the reliable channel.
LEMMA TakeGhosts ==
    ASSUME IInv, IInv', GhostInv, MonReliable
    PROVE  GhostInv'
<1>1. reliable # <<>> /\ reliable' = Tail(reliable) /\ result = "running" /\ info' = info
  BY DEF MonReliable
<1>2. PICK m \in MsgType : m = Head(reliable) /\ m = reliable[1]
  BY <1>1, TailFacts DEF IInv
<1>3. PICK i \in Ids : i = m.id  BY DEF MsgType
<1>4. /\ 1 \in 1 .. Len(reliable)
      /\ \A k \in 1 .. Len(reliable') : k + 1 \in 1 .. Len(reliable) /\ reliable'[k] = reliable[k + 1]
  BY <1>1, TailFacts DEF IInv
<1>5. GhostParts  BY <1>1, GhostForms DEF IInv, Working
<1>6. SUFFICES ASSUME Working'  PROVE GhostParts'  BY GhostForms2 DEF IInv
<1>7. \A j \in Ids : EndReported(j) =>
         EndReported(j)' \/ (i = j /\ m.t \in {"failed", "complete"})
  BY <1>1, <1>2, <1>3, TailKeepsEnds
<1>8. SUFFICES /\ \A j \in Ids : j \in retired' \/ (Expected(j) => Expected(j)')
               /\ retired \subseteq retired'
               /\ \A j \in Ids : st'[j].on => Expected(j)'
  <2>1. ASSUME NEW j \in Ids, NEW k \in 1 .. Len(reliable'), reliable'[k].t = "progress",
               reliable'[k].id = j
        PROVE  j \in retired' \/ Expected(j)'
    <3>1. j \in retired \/ Expected(j)  BY <1>4, <1>5, <2>1 DEF GhostParts
    <3> QED  BY <1>8, <3>1
  <2>2. ASSUME NEW j \in Ids, NEW k \in 1 .. Len(info'), info'[k].id = j
        PROVE  j \in retired' \/ Expected(j)'
    <3>1. j \in retired \/ Expected(j)  BY <1>1, <1>5, <2>2 DEF GhostParts
    <3> QED  BY <1>8, <3>1
  <2> QED  BY <1>8, <2>1, <2>2 DEF GhostParts
<1>9. CASE m.t = "progress"
  <2>1. OnProgress(m)  BY <1>2, <1>9 DEF MonReliable
  <2>2. i \in retired \/ Expected(i)  BY <1>2, <1>3, <1>4, <1>5, <1>9 DEF GhostParts
  <2>3. /\ \A j \in Ids : st'[j].on => st[j].on \/ Expected(j)
        /\ retired' = retired
        /\ UNCHANGED <<chunk, retry, delayed, result>>
    BY <1>3, <2>1, <2>2, EntryMade
  <2>4. \A j \in Ids : Expected(j) => Expected(j)'
    BY <1>7, <1>9, <2>3 DEF Expected, Reporting, Live, Retries
  <2> QED  BY <1>5, <2>3, <2>4 DEF GhostParts
<1>10. CASE m.t = "complete"
  <2>1. OnComplete(m)  BY <1>2, <1>10 DEF MonReliable
  <2>2. /\ st' = [st EXCEPT ![i] = NoEntry] /\ retired' = retired \cup {i}
        /\ UNCHANGED <<chunk, retry, delayed>>
    BY <1>3, <2>1 DEF OnComplete
  <2>3. ~st'[i].on /\ \A j \in Ids \ {i} : st'[j] = st[j]
    BY <2>2 DEF IInv, TypeOK, NoEntry
  <2>4. \A j \in Ids \ {i} : Expected(j) => Expected(j)'
    BY <1>7, <2>2 DEF Expected, Reporting, Live, Retries
  <2> QED  BY <1>5, <2>2, <2>3, <2>4 DEF GhostParts
<1>11. CASE m.t = "failed"
  <2>1. OnFailed(m)  BY <1>2, <1>11 DEF MonReliable
  <2>2. /\ st' = [st EXCEPT ![i] = NoEntry] /\ retired' = retired /\ UNCHANGED chunk
    BY <1>3, <2>1 DEF OnFailed
  <2>3. ~st'[i].on /\ \A j \in Ids \ {i} : st'[j] = st[j]
    BY <2>2 DEF IInv, TypeOK, NoEntry
  <2>4. m.cls # "none"  BY <1>2, <1>4, <1>11 DEF IInv, Safe, RangesOK, Hands
  <2> DEFINE r == [id |-> m.id, start |-> m.start, end |-> m.end]
  <2>5. \/ result' \in Causes /\ (retry \cup delayed)' = retry \cup delayed
        \/ result' = result /\ (retry \cup delayed)' = retry \cup delayed \cup {r}
    BY <1>1, <2>1, <2>4, RequeueFacts DEF OnFailed, IInv
  <2>6. r.id = i  BY <1>3
  <2> HIDE DEF r
  <2>7. (retry \cup delayed)' = retry \cup delayed \cup {r}
    BY <1>6, <2>5 DEF Causes, Working
  <2>8. \A j \in Ids : Expected(j) => Expected(j)'
    BY <1>7, <2>2, <2>6, <2>7 DEF Expected, Reporting, Live, Retries
  <2> QED  BY <1>5, <2>2, <2>3, <2>8 DEF GhostParts
<1>12. CASE m.t = "bisected"
  <2>1. OnBisected(m)  BY <1>2, <1>12 DEF MonReliable
  <2>2. /\ \A j \in Ids : st'[j].on => st[j].on
        /\ UNCHANGED <<retired, retry, delayed>>
    <3>1. m.id \in Ids /\ st \in [Ids -> EntryType]  BY DEF IInv, TypeOK, EntryType, MsgType
    <3>2. \A j \in Ids : j # m.id => st'[j] = st[j]  BY <2>1, <3>1 DEF OnBisected
    <3>3. st'[m.id].on => st[m.id].on  BY <2>1, <3>1 DEF OnBisected
    <3> QED  BY <2>1, <3>2, <3>3 DEF OnBisected, retryVars
  <2>3. \A j \in Ids : Live(j) => Live(j)'
    <3>1. CASE Room > 0
      <4>1. nextId \in Ids /\ chunk' = [chunk EXCEPT ![nextId] = Worker(m.start, m.end)]
        BY <2>1, <3>1 DEF OnBisected
      <4>2. Worker(m.start, m.end).pc = "req"  BY WorkerRecord DEF MsgType
      <4>3. \A j \in Ids : chunk'[j] = chunk[j] \/ chunk'[j].pc = "req"
        BY <4>1, <4>2, ChunkFacts DEF IInv
      <4> QED  BY <4>3 DEF Live
    <3>2. CASE ~(Room > 0)
      <4>1. chunk' = chunk  BY <2>1, <3>2 DEF OnBisected
      <4> QED  BY <4>1 DEF Live
    <3> QED  BY <3>1, <3>2
  <2>4. \A j \in Ids : Expected(j) => Expected(j)'
    BY <1>7, <1>12, <2>2, <2>3 DEF Expected, Reporting, Retries
  <2> QED  BY <1>5, <2>2, <2>4 DEF GhostParts
<1> QED  BY <1>9, <1>10, <1>11, <1>12 DEF MsgType

\* A tick takes no worker away and gives a lane only to a worker.
LEMMA TickMoves ==
    ASSUME IInv, NEW due, NEW go, NEW command \in Commands \cup {NoCommand},
           Tick(due, go, command)
    PROVE  /\ \A j \in Ids : Reporting(j) => Reporting(j)'
           /\ \A j \in Ids : Expected(j) => Expected(j)'
           /\ \A j \in lanes' : j \in lanes \/ Live(j)'
           /\ UNCHANGED <<st, retired, info, reliable>> /\ Working
<1> DEFINE fresh == nextId .. nextId + Drained - 1
<1>1. /\ go \subseteq Retries
      /\ \A j \in fresh : j \in Ids /\ chunk'[j].pc = "req"
      /\ \A r \in go : r.id \in Ids /\ chunk'[r.id].pc = "req"
      /\ \A j \in Ids : j \notin fresh /\ (\A r \in go : r.id # j) => chunk'[j].pc = chunk[j].pc
  BY TickWorkers
<1>2. /\ lanes' = lanes \cup fresh \cup {r.id : r \in go}
      /\ delayed' = delayed \ due /\ retry' = (retry \cup due) \ go
      /\ due \subseteq delayed
      /\ UNCHANGED <<st, retired, info, reliable>> /\ Working
  BY DEF Tick, chanVars, ledgerVars, Working
<1> HIDE DEF fresh
<1>3. \A j \in Ids : Live(j) => Live(j)'  BY <1>1 DEF Live
<1>4. \A j \in Ids : EndReported(j) => EndReported(j)'  BY <1>2 DEF EndReported
<1>5. \A j \in lanes' : j \in lanes \/ Live(j)'  BY <1>1, <1>2 DEF Live
<1>6. \A r \in Retries : r \in Retries' \/ Live(r.id)'
  <2>1. \A r \in go : Live(r.id)'  BY <1>1 DEF Live
  <2>2. \A r \in Retries : r \in (retry \cup delayed)' \/ r \in go  BY <1>2 DEF Retries
  <2> QED  BY <2>1, <2>2 DEF Retries
<1>7. \A j \in Ids : Expected(j) => Expected(j)'
  BY <1>3, <1>4, <1>6 DEF Expected, Reporting
<1> QED  BY <1>2, <1>3, <1>4, <1>5, <1>7 DEF Reporting

\* A joined worker had left before.
LEMMA JoinMoves ==
    ASSUME IInv, NEW i \in Ids, MonJoin(i)
    PROVE  /\ \A j \in Ids : Live(j)' <=> Live(j)
           /\ \A j \in Ids \ {i} : chunk'[j] = chunk[j]
           /\ UNCHANGED <<st, retired, info, reliable, retry, delayed, lanes, pending, nextId, sent>>
           /\ Working
<1>1. /\ UNCHANGED <<st, retired, info, reliable, retry, delayed, lanes, pending, nextId, sent>>
      /\ chunk' = [chunk EXCEPT ![i] = NoChunk] /\ chunk[i].pc = "exited" /\ Working
  BY DEF MonJoin, chanVars, ledgerVars, retryVars, Working
<1>2. NoChunk.pc = "none"  BY DEF NoChunk
<1>3. chunk'[i] = NoChunk /\ \A j \in Ids \ {i} : chunk'[j] = chunk[j]
  BY <1>1, ChunkFacts DEF IInv
<1> QED  BY <1>1, <1>2, <1>3 DEF Live

\* The steps that leave workers, channels and ledger as they are.
LEMMA IdleMoves ==
    ASSUME WriterDies \/ Subscribe \/ UNCHANGED vars
    PROVE  /\ UNCHANGED <<chunk, st, retired, info, reliable, retry, delayed, lanes, pending,
                          nextId, sent, owed>>
           /\ Working' <=> Working
           /\ result' = "ok" => result = "ok"
BY DEF WriterDies, Subscribe, vars, chanVars, monVars, ledgerVars, retryVars, Working

\* Every step keeps the ghosts out.
LEMMA GhostStep ==
    ASSUME IInv, IInv', GhostInv, [Next]_vars  PROVE GhostInv'
<1>1. ASSUME NEW i \in Ids, WorkerStep(i)  PROVE GhostInv'
  <2>1. CASE Working  BY <1>1, <2>1, WorkerDoesMove, WorkerGhosts
  <2>2. CASE ~Working
    <3>1. Terminate(i)
      BY <1>1, <2>2 DEF WorkerStep, Respond, RequestFailed, Data, Overrun, WriterClosed, Eof,
         StreamError, IdleTimeout, Kill, Bisect, FailSend, FinalProgress, SendComplete
    <3>2. result' = result  BY <3>1 DEF Terminate, monVars
    <3> QED  BY <2>2, <3>2 DEF GhostInv, Working
  <2> QED  BY <2>1, <2>2
<1>2. ASSUME NEW i \in Ids, MonJoin(i)  PROVE GhostInv'
  <2>1. /\ \A j \in Ids : Live(j)' <=> Live(j)
        /\ UNCHANGED <<st, retired, info, reliable, retry, delayed>> /\ Working
    BY <1>2, JoinMoves
  <2>2. \A j \in Ids : Expected(j) => Expected(j)'
    BY <2>1 DEF Expected, Reporting, EndReported, Retries
  <2> QED  BY <2>1, <2>2, GhostKeep
<1>3. CASE WriterDies \/ Subscribe \/ Finished \/ UNCHANGED vars
  <2>1. /\ UNCHANGED <<chunk, st, retired, info, reliable, retry, delayed>>
        /\ Working' <=> Working
    BY <1>3, IdleMoves DEF Finished
  <2>2. \A j \in Ids : Expected(j) => Expected(j)'
    BY <2>1 DEF Expected, Reporting, Live, EndReported, Retries
  <2> QED  BY <2>1, <2>2, GhostKeep
<1>4. CASE MonInfo  BY <1>4, InfoGhosts
<1>5. CASE MonReliable  BY <1>5, TakeGhosts
<1>6. CASE SomeTick  BY <1>6, TickMoves, GhostKeep DEF SomeTick
<1> QED  BY <1>1, <1>2, <1>3, <1>4, <1>5, <1>6 DEF Next

\* No entry of the ledger outlives the worker it stands for: late or reordered
\* progress cannot keep are_all_tasks_done false for ever.
THEOREM NoGhosts == Spec => []NoGhostEntry
<1>1. Init => GhostInv
  <2>1. SUFFICES ASSUME Init  PROVE GhostInv  OBVIOUS
  <2>3. reliable = <<>> /\ info = <<>> /\ st = [i \in Ids |-> NoEntry]  BY <2>1 DEF Init
  <2>2. /\ Len(reliable) = 0 /\ Len(info) = 0 /\ \A i \in Ids : ~st[i].on
    BY <2>3 DEF NoEntry
  <2> QED  BY <2>2 DEF GhostInv, Pos
<1>2. IInv /\ IInv' /\ GhostInv /\ [Next]_vars => GhostInv'  BY GhostStep
<1>3. GhostInv => NoGhostEntry
  BY DEF GhostInv, NoGhostEntry, Expected, Reporting, Retries
<1> QED  BY <1>1, <1>2, <1>3, Invariance, PTL DEF Spec
-----------------------------------------------------------------------------
(* What an Ok leaves behind *)

\* A lane is held for a worker that runs or whose last event is on the way.
LanesRight == Working => \A i \in lanes : Reporting(i)

\* The monitor owes nothing and no task is left: no event was missed.
NothingMissed == owed = "any" /\ tasks = {} => reliable = <<>>

\* Each range that has no worker yet has an id in reserve.
IdsReserved == nextId + NBisected + Len(pending) <= MaxIds

OkInv == LanesRight /\ NothingMissed /\ IdsReserved /\ OkDropsOnlyUnread

BisectedAt == {k \in DOMAIN reliable : reliable[k].t = "bisected"}

\* The split events in the channel are finitely many.
LEMMA BisectedFinite ==
    ASSUME TypeOK
    PROVE  /\ IsFiniteSet(BisectedAt) /\ NBisected = Cardinality(BisectedAt) /\ NBisected \in Nat
           /\ DOMAIN reliable = 1 .. Len(reliable) /\ Len(reliable) \in Nat
<1>1. reliable \in Seq(MsgType) /\ Len(reliable) \in Nat  BY ReliableFacts
<1>2. DOMAIN reliable = 1 .. Len(reliable)  BY <1>1
<1>3. IsFiniteSet(1 .. Len(reliable))
  <2>1. 1 \in Int /\ Len(reliable) \in Int  BY <1>1
  <2> QED  BY <2>1, FS_Interval
<1>4. BisectedAt \subseteq 1 .. Len(reliable)  BY <1>2 DEF BisectedAt
<1>5. IsFiniteSet(BisectedAt)  BY <1>3, <1>4, FS_Subset
<1>6. NBisected = Cardinality(BisectedAt)  BY DEF NBisected, BisectedAt
<1> QED  BY <1>1, <1>2, <1>5, <1>6, FS_CardinalityType

\* A message that is appended counts when it is a split.
LEMMA AppendCounts ==
    ASSUME TypeOK, NEW m \in MsgType, reliable' = Append(reliable, m)
    PROVE  NBisected' = IF m.t = "bisected" THEN NBisected + 1 ELSE NBisected
<1> DEFINE n == Len(reliable) + 1
<1>1. /\ IsFiniteSet(BisectedAt) /\ NBisected = Cardinality(BisectedAt)
      /\ DOMAIN reliable = 1 .. Len(reliable) /\ Len(reliable) \in Nat
      /\ reliable \in Seq(MsgType)
  BY BisectedFinite DEF TypeOK
<1>2. /\ DOMAIN reliable' = 1 .. n /\ reliable'[n] = m
      /\ \A k \in 1 .. Len(reliable) : reliable'[k] = reliable[k]
      /\ \A k \in 1 .. n : k \in 1 .. Len(reliable) \/ k = n
      /\ n \notin 1 .. Len(reliable) /\ n \in 1 .. n /\ \A k \in 1 .. Len(reliable) : k \in 1 .. n
  BY <1>1
<1> HIDE DEF n
<1>3. NBisected' = Cardinality(BisectedAt')  BY DEF NBisected, BisectedAt
<1>4. n \notin BisectedAt  BY <1>1, <1>2 DEF BisectedAt
<1>5. CASE m.t = "bisected"
  <2>1. BisectedAt' = BisectedAt \cup {n}  BY <1>1, <1>2, <1>5 DEF BisectedAt
  <2>2. Cardinality(BisectedAt \cup {n}) = Cardinality(BisectedAt) + 1
    BY <1>1, <1>4, FS_AddElement
  <2> QED  BY <1>1, <1>3, <1>5, <2>1, <2>2
<1>6. CASE m.t # "bisected"
  <2>1. BisectedAt' = BisectedAt  BY <1>1, <1>2, <1>6 DEF BisectedAt
  <2> QED  BY <1>1, <1>3, <1>6, <2>1
<1> QED  BY <1>5, <1>6

\* Taking the first event counts down when it is a split.
LEMMA TailCounts ==
    ASSUME IInv, reliable # <<>>, reliable' = Tail(reliable)
    PROVE  /\ NBisected' \in Nat /\ NBisected \in Nat
           /\ NBisected' <= IF reliable[1].t = "bisected" THEN NBisected - 1 ELSE NBisected
<1>1. /\ IsFiniteSet(BisectedAt) /\ NBisected = Cardinality(BisectedAt) /\ NBisected \in Nat
      /\ DOMAIN reliable = 1 .. Len(reliable) /\ Len(reliable) \in Nat
  BY BisectedFinite DEF IInv
<1>2. /\ reliable' \in Seq(MsgType) /\ Len(reliable') \in Nat
      /\ \A k \in 1 .. Len(reliable') :
            k + 1 \in 1 .. Len(reliable) /\ reliable'[k] = reliable[k + 1]
  BY TailFacts DEF IInv
<1>3. DOMAIN reliable' = 1 .. Len(reliable')  BY <1>2
<1>4. NBisected' = Cardinality(BisectedAt')  BY DEF NBisected, BisectedAt
<1> DEFINE S == BisectedAt'
           T == BisectedAt \ {1}
           f == [k \in S |-> k + 1]
<1>5. ASSUME NEW k \in S  PROVE k \in Nat /\ k + 1 \in T
  <2>1. k \in 1 .. Len(reliable') /\ reliable'[k].t = "bisected"  BY <1>3 DEF BisectedAt
  <2>2. k + 1 \in 1 .. Len(reliable) /\ reliable[k + 1].t = "bisected" /\ k + 1 # 1 /\ k \in Nat
    BY <1>2, <2>1
  <2> QED  BY <1>1, <2>2 DEF BisectedAt
<1>6. f \in [S -> T]  BY <1>5
<1>7. \A a, b \in S : f[a] = f[b] => a = b  BY <1>5
<1> HIDE DEF f
<1>8. f \in Injection(S, T)  BY <1>6, <1>7 DEF Injection, IsInjective
<1>9. /\ IsFiniteSet(T)
      /\ Cardinality(T) = IF 1 \in BisectedAt THEN Cardinality(BisectedAt) - 1
                          ELSE Cardinality(BisectedAt)
  BY <1>1, FS_RemoveElement
<1> HIDE DEF S, T
<1>10. Cardinality(S) <= Cardinality(T) /\ IsFiniteSet(S)  BY <1>8, <1>9, FS_Injection
<1>11. Cardinality(S) \in Nat  BY <1>10, FS_CardinalityType
<1>12. 1 \in BisectedAt <=> reliable[1].t = "bisected"
  <2>1. 1 \in DOMAIN reliable  BY <1>1, TailFacts DEF IInv
  <2> QED  BY <2>1 DEF BisectedAt
<1> QED  BY <1>1, <1>4, <1>9, <1>10, <1>11, <1>12 DEF S

\* The monitor owes nothing only when the channel it polled first was empty.
LEMMA ReadyMissed ==
    ASSUME owed' = Ready  PROVE NothingMissed'
BY DEF Ready, NothingMissed

\* A worker's step while the download runs.
LEMMA WorkerOk ==
    ASSUME IInv, OkInv, NEW i \in Ids, WorkerMoves(i), Working
    PROVE  OkInv'
<1>1. /\ \A j \in Ids : Reporting(j) => Reporting(j)'
      /\ chunk'[i].pc # "none"
      /\ UNCHANGED <<lanes, pending, nextId, result>>
  BY DEF WorkerMoves
<1>2. LanesRight'
  BY <1>1 DEF OkInv, LanesRight, IInv, TypeOK
<1>3. NothingMissed'  BY <1>1 DEF NothingMissed, tasks
<1>4. IdsReserved'
  <2>1. CASE reliable' = reliable
    <3>1. NBisected' = NBisected  BY <2>1 DEF NBisected
    <3> QED  BY <1>1, <3>1 DEF OkInv, IdsReserved
  <2>2. CASE reliable' # reliable
    <3>1. PICK m \in MsgType :
             /\ m.id = i /\ reliable' = Append(reliable, m)
             /\ m.t = "bisected" => nextId + NBisected + Len(pending) < MaxIds
      BY <2>2 DEF WorkerMoves
    <3>2. NBisected' = IF m.t = "bisected" THEN NBisected + 1 ELSE NBisected
      BY <3>1, AppendCounts DEF IInv
    <3>3. /\ nextId \in Nat /\ NBisected \in Nat /\ Len(pending) \in Nat /\ MaxIds \in Nat
          /\ nextId + NBisected + Len(pending) <= MaxIds
      BY DrainedFacts, BisectedFinite DEF IInv, OkInv, IdsReserved
    <3>4. nextId + NBisected' + Len(pending) <= MaxIds  BY <3>1, <3>2, <3>3
    <3> QED  BY <1>1, <3>4 DEF IdsReserved
  <2> QED  BY <2>1, <2>2
<1>5. OkDropsOnlyUnread'  BY <1>1 DEF OkDropsOnlyUnread, Working
<1> QED  BY <1>2, <1>3, <1>4, <1>5 DEF OkInv

\* Workers that are told to stop leave channel and queues as they are.
LEMMA TerminateOk ==
    ASSUME IInv, OkInv, NEW i \in Ids, Terminate(i)
    PROVE  OkInv'
<1>1. /\ UNCHANGED <<reliable, lanes, pending, nextId, result, sent>> /\ ~Working
      /\ chunk' = Exit(i)
  BY DEF Terminate, chanVars, monVars
<1>2. chunk'[i].pc = "exited"  BY <1>1, ChunkFacts DEF Exit, NoChunk, IInv
<1>3. LanesRight'  BY <1>1 DEF LanesRight, Working
<1>4. NothingMissed'  BY <1>2 DEF NothingMissed, tasks
<1>5. IdsReserved'  BY <1>1 DEF OkInv, IdsReserved, NBisected
<1>6. OkDropsOnlyUnread'  BY <1>1 DEF OkInv, OkDropsOnlyUnread, Hands
<1> QED  BY <1>3, <1>4, <1>5, <1>6 DEF OkInv

\* The fast path of the join ends the download with nothing but events left.
LEMMA JoinOk ==
    ASSUME IInv, OkInv, NEW i \in Ids, MonJoin(i)
    PROVE  OkInv'
<1>1. /\ \A j \in Ids : Live(j)' <=> Live(j)
      /\ UNCHANGED <<reliable, retry, delayed, lanes, pending, nextId, sent>> /\ Working
  BY JoinMoves
<1>2. /\ owed' = Ready /\ chunk[i].pc = "exited"
      /\ result' = IF /\ tasks = {i}
                      /\ are_all_tasks_done(st) /\ is_download_finished(completed)
                   THEN "ok" ELSE "running"
  BY DEF MonJoin
<1>3. LanesRight'
  BY <1>1 DEF OkInv, LanesRight, Reporting, EndReported, IInv, TypeOK
<1>4. NothingMissed'  BY <1>2, ReadyMissed
<1>5. IdsReserved'  BY <1>1 DEF OkInv, IdsReserved, NBisected
<1>6. OkDropsOnlyUnread'
  <2>1. SUFFICES ASSUME result' = "ok", NEW b \in Bytes \ sent
        PROVE  \E k \in DOMAIN reliable : Hands(reliable[k]) /\ b \in Span(reliable[k])
    BY <1>1 DEF OkDropsOnlyUnread, Hands
  <2>2. tasks = {i} /\ pending = <<>> /\ retry = {} /\ delayed = {}
    BY <1>2, <2>1 DEF are_all_tasks_done
  <2>3. \A j \in Ids : ~Live(j)  BY <1>2, <2>2 DEF tasks, Live
  <2>4. Held(b)  BY <1>1 DEF IInv, Safe, NoByteOrphaned
  <2>5. Len(pending) = 0  BY <2>2
  <2>6. \E k \in 1 .. Len(reliable) : Hands(reliable[k]) /\ b \in Span(reliable[k])
    BY <2>2, <2>3, <2>4, <2>5 DEF Held
  <2>7. DOMAIN reliable = 1 .. Len(reliable)  BY BisectedFinite DEF IInv
  <2> QED  BY <2>6, <2>7
<1> QED  BY <1>3, <1>4, <1>5, <1>6 DEF OkInv

\* A tick that finds no task left has nothing buffered: all lanes are free and
\* every buffered range has an id in reserve.
LEMMA NothingBuffered ==
    ASSUME IInv, OkInv, Working, owed = "any", tasks = {}, Drained = 0
    PROVE  pending = <<>>
<1>1. reliable = <<>>  BY DEF OkInv, NothingMissed
<1>2. \A j \in Ids : ~EndReported(j) /\ ~Live(j)
  <2>1. DOMAIN reliable = {}  BY <1>1
  <2> QED  BY <2>1 DEF EndReported, tasks, Live
<1>3. lanes = {}  BY <1>2 DEF OkInv, LanesRight, Reporting, IInv, TypeOK
<1>4. Cardinality(lanes) = 0  BY <1>3, FS_EmptySet
<1>5. Room = Slots /\ Slots \in Nat /\ Slots > 0
  BY <1>4, ConstantsAssumption DEF Room, Minus
<1>6. /\ nextId \in Nat /\ NBisected \in Nat /\ Len(pending) \in Nat /\ MaxIds \in Nat
      /\ nextId + NBisected + Len(pending) <= MaxIds
  BY DrainedFacts, BisectedFinite DEF IInv, OkInv, IdsReserved
<1>7. Smaller(Smaller(Len(pending), Slots), MaxIds - nextId) = 0  BY <1>5 DEF Drained
<1>8. Len(pending) = 0  BY <1>5, <1>6, <1>7 DEF Smaller
<1>9. pending \in Seq([start : Nat, end : Nat])  BY DEF IInv, TypeOK
<1> QED  BY <1>8, <1>9

\* The endings of a tick find no task, no retry and nothing buffered.
LEMMA TickOk ==
    ASSUME IInv, OkInv, NEW due, NEW go, NEW command \in Commands \cup {NoCommand},
           Tick(due, go, command)
    PROVE  OkInv'
<1>1. /\ \A j \in Ids : Reporting(j) => Reporting(j)'
      /\ \A j \in lanes' : j \in lanes \/ Live(j)'
      /\ reliable' = reliable /\ Working
  BY TickMoves
<1>2. /\ pending' = SubSeq(pending, Drained + 1, Len(pending)) /\ nextId' = nextId + Drained
      /\ owed' = Ready /\ owed = "any" /\ sent' = sent
      /\ due \subseteq delayed /\ delayed' = delayed \ due /\ retry' = (retry \cup due) \ go
      /\ result' = "ok" => ShortCircuit \/ TripleGate
  BY DEF Tick, chanVars
<1>3. LanesRight'
  <2>1. SUFFICES ASSUME NEW j \in lanes'  PROVE Reporting(j)'  BY DEF LanesRight
  <2>2. CASE j \in lanes
    BY <1>1, <2>2 DEF OkInv, LanesRight, IInv, TypeOK
  <2>3. CASE Live(j)'  BY <2>3 DEF Reporting
  <2> QED  BY <1>1, <2>2, <2>3
<1>4. NothingMissed'  BY <1>2, ReadyMissed
<1>5. /\ nextId \in Nat /\ NBisected \in Nat /\ Len(pending) \in Nat /\ MaxIds \in Nat
      /\ Drained \in Nat /\ Drained <= Len(pending)
      /\ nextId + NBisected + Len(pending) <= MaxIds
  BY DrainedFacts, BisectedFinite DEF IInv, OkInv, IdsReserved
<1>6. Len(pending') = Len(pending) - Drained
  <2>1. pending \in Seq([start : Nat, end : Nat])  BY DEF IInv, TypeOK
  <2> QED  BY <1>2, <1>5, <2>1, SuffixFacts
<1>7. IdsReserved'
  <2>1. NBisected' = NBisected  BY <1>1 DEF NBisected
  <2>2. nextId' = nextId + Drained  BY <1>2
  <2>3. (nextId + Drained) + NBisected + (Len(pending) - Drained) <= MaxIds  BY <1>5
  <2>4. nextId' + NBisected + Len(pending') <= MaxIds  BY <1>6, <2>2, <2>3
  <2> QED  BY <2>1, <2>4 DEF IdsReserved
<1>8. OkDropsOnlyUnread'
  <2>1. SUFFICES ASSUME result' = "ok", NEW b \in Bytes \ sent
        PROVE  \E k \in DOMAIN reliable : Hands(reliable[k]) /\ b \in Span(reliable[k])
    BY <1>1, <1>2 DEF OkDropsOnlyUnread, Hands
  <2>2. tasks' = {} /\ retry' = {} /\ delayed' = {}
    BY <1>2, <2>1 DEF ShortCircuit, TripleGate, Quiet, are_all_tasks_done
  <2>3. \A j \in Ids : chunk'[j].pc = "none"  BY <2>2 DEF tasks
  <2> DEFINE fresh == nextId .. nextId + Drained - 1
  <2>4. /\ go \subseteq Retries
        /\ \A j \in fresh : j \in Ids /\ chunk'[j].pc = "req"
        /\ \A r \in go : r.id \in Ids /\ chunk'[r.id].pc = "req"
        /\ \A j \in Ids : j \notin fresh /\ (\A r \in go : r.id # j) => chunk'[j].pc = chunk[j].pc
    BY TickWorkers
  <2>5. fresh = {} /\ go = {}  BY <2>3, <2>4
  <2>6. Drained = 0
    <3>1. nextId \notin fresh  BY <2>5
    <3> QED  BY <1>5, <3>1
  <2> HIDE DEF fresh
  <2>7. \A j \in Ids : chunk[j].pc = "none"  BY <2>3, <2>4, <2>5
  <2>8. tasks = {}  BY <2>7 DEF tasks
  <2>9. pending = <<>>  BY <1>1, <1>2, <2>6, <2>8, NothingBuffered
  <2>10. Len(pending) = 0  BY <2>9
  <2>11. retry \cup delayed = {}  BY <1>2, <2>2, <2>5
  <2>12. Held(b)  BY <1>1 DEF IInv, Safe, NoByteOrphaned
  <2>13. \E k \in 1 .. Len(reliable) : Hands(reliable[k]) /\ b \in Span(reliable[k])
    BY <2>7, <2>10, <2>11, <2>12 DEF Held, Live
  <2>14. DOMAIN reliable = 1 .. Len(reliable)  BY BisectedFinite DEF IInv
  <2> QED  BY <2>13, <2>14
<1> QED  BY <1>3, <1>4, <1>7, <1>8 DEF OkInv

\* An event that is read gives up a lane only at the end of its sender.
LEMMA TakeOk ==
    ASSUME IInv, OkInv, MonReliable
    PROVE  OkInv'
<1>1. /\ reliable # <<>> /\ reliable' = Tail(reliable) /\ result = "running" /\ owed' = Ready
  BY DEF MonReliable
<1>2. PICK m \in MsgType : m = Head(reliable) /\ m = reliable[1]
  BY <1>1, TailFacts DEF IInv
<1>3. PICK i \in Ids : i = m.id  BY DEF MsgType
<1>4. \A j \in Ids : EndReported(j) =>
         EndReported(j)' \/ (i = j /\ m.t \in {"failed", "complete"})
  BY <1>1, <1>2, <1>3, TailKeepsEnds
<1>5. /\ nextId \in Nat /\ NBisected \in Nat /\ Len(pending) \in Nat /\ MaxIds \in Nat
      /\ nextId + NBisected + Len(pending) <= MaxIds
  BY DrainedFacts, BisectedFinite DEF IInv, OkInv, IdsReserved
<1>6. /\ NBisected' \in Nat
      /\ NBisected' <= IF m.t = "bisected" THEN NBisected - 1 ELSE NBisected
  BY <1>1, <1>2, TailCounts
<1>7. \A j \in lanes : Reporting(j) /\ j \in Ids
  BY <1>1 DEF OkInv, LanesRight, Working, IInv, TypeOK
<1>8. NothingMissed'  BY <1>1, ReadyMissed
<1>9. CASE m.t \in {"progress", "complete", "failed"}
  <2>1. /\ UNCHANGED <<chunk, pending, nextId>> /\ lanes' \subseteq lanes
        /\ m.t \in {"complete", "failed"} => i \notin lanes'
        /\ result' # "ok"
    <3>1. CASE m.t = "progress"
      <4>1. OnProgress(m)  BY <1>2, <3>1 DEF MonReliable
      <4> QED  BY <1>1, <3>1, <4>1 DEF OnProgress
    <3>2. CASE m.t = "complete"
      <4>1. OnComplete(m)  BY <1>2, <3>2 DEF MonReliable
      <4> QED  BY <1>1, <1>3, <4>1 DEF OnComplete
    <3>3. CASE m.t = "failed"
      <4>1. OnFailed(m)  BY <1>2, <3>3 DEF MonReliable
      <4>2. 1 \in 1 .. Len(reliable)  BY <1>1, TailFacts DEF IInv
      <4>3. m.cls # "none"  BY <1>2, <3>3, <4>2 DEF IInv, Safe, RangesOK, Hands
      <4>4. result' \in {"running"} \cup Causes
        BY <1>1, <4>1, <4>3, RequeueFacts DEF OnFailed, IInv
      <4> QED  BY <1>3, <4>1, <4>4 DEF OnFailed, Freed, Causes
    <3> QED  BY <1>9, <3>1, <3>2, <3>3
  <2>2. LanesRight'
    <3>1. \A j \in lanes' : Live(j)' \/ EndReported(j)'
      BY <1>4, <1>7, <2>1 DEF Reporting, Live
    <3> QED  BY <3>1 DEF LanesRight, Reporting
  <2>3. IdsReserved'  BY <1>5, <1>6, <1>9, <2>1 DEF IdsReserved
  <2> QED  BY <1>8, <2>1, <2>2, <2>3 DEF OkInv, OkDropsOnlyUnread
<1>10. CASE m.t = "bisected"
  <2>1. OnBisected(m)  BY <1>2, <1>10 DEF MonReliable
  <2>2. result' # "ok"  BY <1>1, <2>1 DEF OnBisected
  <2>3. CASE Room > 0
    <3>1. /\ nextId \in Ids /\ lanes' = lanes \cup {nextId} /\ nextId' = nextId + 1
          /\ chunk' = [chunk EXCEPT ![nextId] = Worker(m.start, m.end)] /\ pending' = pending
      BY <2>1, <2>3 DEF OnBisected
    <3>2. Worker(m.start, m.end).pc = "req"  BY WorkerRecord DEF MsgType
    <3>3. /\ chunk'[nextId].pc = "req"
          /\ \A j \in Ids : chunk'[j] = chunk[j] \/ chunk'[j].pc = "req"
      BY <3>1, <3>2, ChunkFacts DEF IInv
    <3>4. \A j \in lanes' : Live(j)' \/ EndReported(j)'
      BY <1>4, <1>7, <1>10, <3>1, <3>3 DEF Reporting, Live
    <3>5. LanesRight'  BY <3>4 DEF LanesRight, Reporting
    <3>6. IdsReserved'  BY <1>5, <1>6, <1>10, <3>1 DEF IdsReserved
    <3> QED  BY <1>8, <2>2, <3>5, <3>6 DEF OkInv, OkDropsOnlyUnread
  <2>4. CASE ~(Room > 0)
    <3> DEFINE r == [start |-> m.start, end |-> m.end]
    <3>1. pending' = Append(pending, r) /\ UNCHANGED <<chunk, lanes, nextId>>
      BY <2>1, <2>4 DEF OnBisected, Buffered
    <3>2. pending \in Seq([start : Nat, end : Nat]) /\ r \in [start : Nat, end : Nat]
      BY DEF IInv, TypeOK, MsgType
    <3> HIDE DEF r
    <3>3. Len(pending') = Len(pending) + 1  BY <3>1, <3>2
    <3>4. \A j \in lanes' : Live(j)' \/ EndReported(j)'
      BY <1>4, <1>7, <1>10, <3>1 DEF Reporting, Live
    <3>5. LanesRight'  BY <3>4 DEF LanesRight, Reporting
    <3>6. IdsReserved'  BY <1>5, <1>6, <1>10, <3>1, <3>3 DEF IdsReserved
    <3> QED  BY <1>8, <2>2, <3>5, <3>6 DEF OkInv, OkDropsOnlyUnread
  <2> QED  BY <2>3, <2>4
<1> QED  BY <1>9, <1>10 DEF MsgType

\* Steps that leave workers, lanes and the reliable channel alone.
LEMMA IdleOk ==
    ASSUME IInv, OkInv, WriterDies \/ Subscribe \/ MonInfo \/ UNCHANGED vars
    PROVE  OkInv'
<1>1. UNCHANGED <<chunk, reliable, lanes, pending, nextId, sent>> /\ (Working' <=> Working)
  <2>1. CASE MonInfo  BY <2>1 DEF MonInfo, OnProgress, Working
  <2>2. CASE ~MonInfo  BY <2>2, IdleMoves
  <2> QED  BY <2>1, <2>2
<1>2. result' = "ok" => result = "ok"
  <2>1. CASE MonInfo  BY <2>1 DEF MonInfo, OnProgress
  <2>2. CASE ~MonInfo  BY <2>2, IdleMoves
  <2> QED  BY <2>1, <2>2
<1>3. LanesRight'
  BY <1>1 DEF OkInv, LanesRight, Reporting, Live, EndReported
<1>4. NothingMissed'
  <2>1. CASE MonInfo  BY <2>1, ReadyMissed DEF MonInfo
  <2>2. CASE ~MonInfo
    <3>1. owed' = owed  BY <2>2, IdleMoves
    <3> QED  BY <1>1, <3>1 DEF OkInv, NothingMissed, tasks
  <2> QED  BY <2>1, <2>2
<1>5. IdsReserved'  BY <1>1 DEF OkInv, IdsReserved, NBisected
<1>6. OkDropsOnlyUnread'  BY <1>1, <1>2 DEF OkInv, OkDropsOnlyUnread, Hands
<1> QED  BY <1>3, <1>4, <1>5, <1>6 DEF OkInv

\* At the start every lane has its worker and every buffered range its id.
LEMMA InitOk ==
    ASSUME Init  PROVE OkInv
<1> DEFINE q == Smaller(Len(InitRanges), Slots)
<1>0. /\ InitRanges \in Seq([start : Nat, end : Nat]) /\ Len(InitRanges) \in Nat
      /\ Len(InitRanges) <= MaxIds /\ MaxIds \in Nat /\ Slots \in Nat
  BY InitRangesAssumption, ConstantTypes
<1>1. q \in Nat /\ q <= Len(InitRanges)  BY <1>0 DEF Smaller
<1>2. /\ chunk = [i \in Ids |-> IF i < q THEN Worker(InitRanges[i + 1].start, InitRanges[i + 1].end)
                                ELSE NoChunk]
      /\ reliable = <<>> /\ nextId = q /\ lanes = 0 .. q - 1 /\ result = "starting"
      /\ pending = SubSeq(InitRanges, q + 1, Len(InitRanges))
  BY DEF Init
<1> HIDE DEF q
<1>3. LanesRight
  <2>1. \A i \in lanes : i \in Ids /\ i < q /\ i + 1 \in 1 .. Len(InitRanges)
    BY <1>0, <1>1, <1>2 DEF Ids
  <2>2. \A i \in lanes : chunk[i].pc = "req"  BY <1>2, <2>1, InitRangeFacts, WorkerRecord
  <2> QED  BY <2>2 DEF LanesRight, Reporting, Live
<1>4. NothingMissed  BY <1>2 DEF NothingMissed
<1>5. IdsReserved
  <2>1. {k \in DOMAIN reliable : reliable[k].t = "bisected"} = {}
    <3>1. DOMAIN reliable = {}  BY <1>2
    <3> QED  BY <3>1
  <2>2. NBisected = 0  BY <2>1, FS_EmptySet DEF NBisected
  <2>3. Len(pending) = Len(InitRanges) - q
    BY <1>0, <1>1, <1>2, SuffixFacts
  <2> QED  BY <1>0, <1>1, <1>2, <2>2, <2>3 DEF IdsReserved
<1>6. OkDropsOnlyUnread  BY <1>2 DEF OkDropsOnlyUnread
<1> QED  BY <1>3, <1>4, <1>5, <1>6 DEF OkInv

\* Every step keeps what an Ok rests on.
LEMMA OkStep ==
    ASSUME IInv, OkInv, [Next]_vars  PROVE OkInv'
<1>1. ASSUME NEW i \in Ids, WorkerStep(i)  PROVE OkInv'
  <2>1. CASE Working  BY <1>1, <2>1, WorkerDoesMove, WorkerOk
  <2>2. CASE ~Working
    <3>1. Terminate(i)
      BY <1>1, <2>2 DEF WorkerStep, Respond, RequestFailed, Data, Overrun, WriterClosed, Eof,
         StreamError, IdleTimeout, Kill, Bisect, FailSend, FinalProgress, SendComplete
    <3> QED  BY <3>1, TerminateOk
  <2> QED  BY <2>1, <2>2
<1>2. ASSUME NEW i \in Ids, MonJoin(i)  PROVE OkInv'  BY <1>2, JoinOk
<1>3. CASE WriterDies \/ Subscribe \/ MonInfo \/ Finished \/ UNCHANGED vars
  BY <1>3, IdleOk DEF Finished
<1>4. CASE MonReliable  BY <1>4, TakeOk
<1>5. CASE SomeTick  BY <1>5, TickOk DEF SomeTick
<1> QED  BY <1>1, <1>2, <1>3, <1>4, <1>5 DEF Next

\* The monitor never ends with Ok while a worker, a retry or a buffered range
\* still holds a missing byte, whatever the ledger says: only an event that was
\* sent and not read can name one.
THEOREM OkDropsNothingHeld == Spec => []OkDropsOnlyUnread
<1>1. Init => OkInv  BY InitOk
<1>2. IInv /\ OkInv /\ [Next]_vars => OkInv'  BY OkStep
<1>3. OkInv => OkDropsOnlyUnread  BY DEF OkInv
<1> QED  BY <1>1, <1>2, <1>3, Invariance, PTL DEF Spec
=============================================================================

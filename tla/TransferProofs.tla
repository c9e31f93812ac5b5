--------------------------- MODULE TransferProofs ---------------------------
(***************************************************************************)
(* Proofs about the transfer core, for every file size, number of workers, *)
(* channel capacity and retry budget.                                      *)
(***************************************************************************)
EXTENDS Transfer, TLAPS, FiniteSetTheorems

\* Ranges lie inside the file and offsets inside their range; a worker that
\* is about to report completion has nothing left, one that failed knows why.
RangesOK ==
    /\ \A i \in Ids : Live(i) =>
          /\ chunk[i].end < FileSize /\ chunk[i].off <= chunk[i].end + 1
          /\ chunk[i].start <= chunk[i].off
          /\ chunk[i].pc \in {"finishing", "completing"} => chunk[i].off > chunk[i].end
          /\ chunk[i].pc = "failing" => chunk[i].cls # "none"
    /\ \A k \in 1 .. Len(reliable) : Hands(reliable[k]) =>
          /\ reliable[k].end < FileSize /\ reliable[k].start <= reliable[k].end + 1
          /\ reliable[k].t = "failed" => reliable[k].cls # "none"
          /\ reliable[k].t = "bisected" => reliable[k].start >= 1
    /\ \A r \in retry \cup delayed : r.end < FileSize /\ r.start <= r.end + 1
    /\ \A k \in 1 .. Len(pending) :
          pending[k].end < FileSize /\ pending[k].start <= pending[k].end + 1

Pos == 1 .. Len(reliable)
IsFailed(k) == reliable[k].t = "failed"
Retries == retry \cup delayed

\* An id is in one place: a live worker, a ChunkFailed event or a retry.
OnePlace ==
    /\ \A k \in Pos : IsFailed(k) => ~Live(reliable[k].id)
    /\ \A k, l \in Pos : IsFailed(k) /\ IsFailed(l) /\ reliable[k].id = reliable[l].id => k = l
    /\ \A r \in Retries : ~Live(r.id)
    /\ \A r \in Retries : \A k \in Pos : IsFailed(k) => reliable[k].id # r.id
    /\ \A r, s \in Retries : r.id = s.id => r = s
    /\ retry \cap delayed = {}

\* Ids that were not given out yet are in no place.
FreshIds ==
    /\ \A i \in Ids : i >= nextId => chunk[i].pc = "none"
    /\ \A k \in Pos : IsFailed(k) => reliable[k].id < nextId
    /\ \A r \in Retries : r.id < nextId

Safe == RangesOK /\ OnePlace /\ FreshIds /\ NoByteOrphaned
IInv == TypeOK /\ Safe
-----------------------------------------------------------------------------
(* Types *)

\* The constants are the numbers the arithmetic below needs.
LEMMA ConstantTypes ==
    /\ FileSize \in Nat /\ MinChunk \in Nat /\ MinChunk > 0
    /\ MaxIds \in Nat /\ MaxIds > 0 /\ Slots \in Nat
    /\ ReliableCap \in Nat /\ ReliableCap > 0 /\ InfoCap \in Nat /\ InfoCap > 0
    /\ StallTicks \in Nat /\ StallTicks > 0
    /\ \A n \in Pieces : n \in Nat /\ n > 0
BY ConstantsAssumption

\* saturating_sub, min, max and ChunkState::size stay in Nat.
LEMMA ArithTypes ==
    ASSUME NEW a \in Nat, NEW b \in Nat
    PROVE  /\ Smaller(a, b) \in Nat /\ Smaller(a, b) <= a /\ Smaller(a, b) <= b
           /\ Larger(a, b) \in Nat /\ Larger(a, b) >= a /\ Larger(a, b) >= b
           /\ Minus(a, b) \in Nat /\ Size(a, b) \in Nat
           /\ a <= b => Size(a, b) = b - a + 1
BY DEF Smaller, Larger, Minus, Size

\* A split keeps at least one byte on each side.
LEMMA SplitInside ==
    ASSUME NEW off \in Nat, NEW end \in Nat, NEW sk \in BOOLEAN, Splittable(off, end)
    PROVE  /\ split_range(off, end, sk) \in Nat
           /\ off <= split_range(off, end, sk) /\ split_range(off, end, sk) < end
<1>1. MinChunk \in Nat /\ MinChunk > 0  BY ConstantTypes
<1>2. Size(off, end) >= 2 * MinChunk BY DEF Splittable
<1>3. off < end /\ Size(off, end) = end - off + 1
  BY <1>1, <1>2 DEF Size, Minus
<1> DEFINE rem == Size(off, end)
<1>4. rem \in Nat /\ rem >= 2 /\ rem >= 2 * MinChunk  BY <1>1, <1>2, <1>3
<1> HIDE DEF rem
<1>5. rem \div 2 \in Nat /\ rem \div 2 >= 1 /\ rem \div 2 < rem  BY <1>4
<1>6. rem \div 8 \in Nat  BY <1>4
<1>7. /\ Smaller(Larger(rem \div 8, MinChunk), rem - MinChunk) \in Nat
      /\ Smaller(Larger(rem \div 8, MinChunk), rem - MinChunk) >= 1
      /\ Smaller(Larger(rem \div 8, MinChunk), rem - MinChunk) < rem
  BY <1>1, <1>4, <1>6 DEF Smaller, Larger
<1>8. split_range(off, end, sk) =
        off + (IF sk THEN Smaller(Larger(rem \div 8, MinChunk), rem - MinChunk)
               ELSE rem \div 2) - 1
  BY DEF split_range, rem
<1>9. end = off + rem - 1  BY <1>3 DEF rem
<1> QED  BY <1>5, <1>7, <1>8, <1>9, <1>4

\* A worker's progress report is a well-formed message.
LEMMA ProgressType ==
    ASSUME TypeOK, NEW i \in Ids, chunk[i].start <= chunk[i].off
    PROVE  Progress(i) \in MsgType /\ Progress(i).t = "progress"
BY DEF TypeOK, Progress, Msg, MsgType, ChunkType, ClsType

\* The broadcast ring keeps its type and its bound, whether or not the
\* message is lost.
LEMMA BroadcastType ==
    ASSUME TypeOK, NEW m \in MsgType, Broadcast(m)
    PROVE  info' \in Seq(MsgType) /\ Len(info') <= InfoCap /\ lost' \in BOOLEAN
<1>1. info \in Seq(MsgType) /\ Len(info) <= InfoCap /\ InfoCap \in Nat /\ InfoCap > 0
  BY ConstantTypes DEF TypeOK
<1>2. lost \in BOOLEAN  BY DEF TypeOK
<1>3. lost' \in BOOLEAN  BY <1>2, Zenon DEF Broadcast
<1>4. info' = info \/ (Len(info) < InfoCap /\ info' = Append(info, m))
  BY Zenon DEF Broadcast
<1> QED  BY <1>1, <1>3, <1>4

\* send_progress_best_effort adds at most one progress message.
LEMMA BestEffortType ==
    ASSUME TypeOK, NEW i \in Ids, chunk[i].start <= chunk[i].off, BestEffort(i)
    PROVE  /\ info' \in Seq(MsgType) /\ Len(info') <= InfoCap /\ lost' \in BOOLEAN
           /\ reliable' \in Seq(MsgType) /\ Len(reliable') <= ReliableCap
           /\ reliable' = reliable \/ reliable' = Append(reliable, Progress(i))
<1>1. Progress(i) \in MsgType  BY ProgressType
<1>2. CASE chunk[i].off - chunk[i].start = chunk[i].rep
  BY <1>2 DEF BestEffort, chanVars, TypeOK
<1>3. CASE chunk[i].off - chunk[i].start # chunk[i].rep
  <2>1. Broadcast(Progress(i)) BY <1>3 DEF BestEffort
  <2>2. reliable' = IF ReliableFree THEN Append(reliable, Progress(i)) ELSE reliable
    BY <1>3 DEF BestEffort
  <2>3. reliable' \in Seq(MsgType) /\ Len(reliable') <= ReliableCap
    BY <1>1, <2>2, ConstantTypes DEF ReliableFree, TypeOK
  <2> QED BY <1>1, <2>1, <2>2, <2>3, BroadcastType
<1> QED BY <1>2, <1>3
-----------------------------------------------------------------------------
(* Steps that move no range *)

\* A live worker keeps its range and position, or ends with nothing left to
\* fetch (or the download is over); no worker starts.
KeepsRanges ==
    \A j \in Ids :
       /\ Live(j)' =>
             /\ Live(j)
             /\ chunk'[j].start = chunk[j].start /\ chunk'[j].end = chunk[j].end
             /\ chunk'[j].off = chunk[j].off
             /\ chunk'[j].pc \in {"finishing", "completing"} => chunk[j].off > chunk[j].end
             /\ chunk'[j].pc = "failing" => chunk'[j].cls # "none"
       /\ Live(j) /\ Working' => Live(j)' \/ chunk[j].off > chunk[j].end
       /\ chunk[j].pc = "none" => chunk'[j].pc = "none"

\* The reliable channel is unchanged or gets a message that passes on no range.
AddsNoRange ==
    \/ reliable' = reliable
    \/ \E m \in MsgType : ~Hands(m) /\ reliable' = Append(reliable, m)

\* What the channel held before is still there, at the same place.
LEMMA AddsNoRangeFacts ==
    ASSUME TypeOK, AddsNoRange
    PROVE  /\ Len(reliable') \in Nat /\ Len(reliable) \in Nat
           /\ Len(reliable') >= Len(reliable)
           /\ \A k \in 1 .. Len(reliable) : reliable'[k] = reliable[k]
           /\ \A k \in 1 .. Len(reliable') : Hands(reliable'[k]) => k \in 1 .. Len(reliable)
<1>1. reliable \in Seq(MsgType)  BY DEF TypeOK
<1>2. CASE reliable' = reliable  BY <1>1, <1>2
<1>3. CASE \E m \in MsgType : ~Hands(m) /\ reliable' = Append(reliable, m)
  <2>1. PICK m \in MsgType : ~Hands(m) /\ reliable' = Append(reliable, m)  BY <1>3
  <2>2. /\ Len(reliable') = Len(reliable) + 1 /\ Len(reliable) \in Nat
        /\ \A k \in 1 .. Len(reliable) : reliable'[k] = reliable[k]
        /\ reliable'[Len(reliable) + 1] = m
    BY <1>1, <2>1
  <2> QED  BY <2>1, <2>2
<1> QED  BY <1>2, <1>3 DEF AddsNoRange

\* The messages in the channel are well formed.
LEMMA ReliableFacts ==
    ASSUME TypeOK
    PROVE  /\ reliable \in Seq(MsgType) /\ Len(reliable) \in Nat
           /\ \A k \in 1 .. Len(reliable) :
                 /\ reliable[k] \in MsgType /\ reliable[k].id \in Ids
                 /\ reliable[k].start \in Nat /\ reliable[k].end \in Nat
<1>1. reliable \in Seq(MsgType)  BY DEF TypeOK
<1>2. \A k \in 1 .. Len(reliable) : reliable[k] \in MsgType  BY <1>1
<1> QED  BY <1>1, <1>2 DEF MsgType

\* The fields of a worker's record have their types.
LEMMA ChunkFacts ==
    ASSUME TypeOK
    PROVE  /\ chunk \in [Ids -> ChunkType]
           /\ \A j \in Ids :
                 /\ chunk[j].start \in Nat /\ chunk[j].end \in Nat
                 /\ chunk[j].off \in Nat /\ chunk[j].rep \in Nat
                 /\ chunk[j].pc \in PcType /\ chunk[j].cls \in ClsType
                 /\ chunk[j].cmd \in {"none", "bisect", "skew", "kill"}
BY DEF TypeOK, ChunkType

\* A step that moves no range between holders keeps the safety part.
LEMMA KeepStep ==
    ASSUME IInv, KeepsRanges, AddsNoRange, Working' => Working,
           UNCHANGED <<retry, delayed, pending, nextId, sent>>
    PROVE  Safe'
<1>1. /\ Len(reliable') \in Nat /\ Len(reliable) \in Nat
      /\ Len(reliable') >= Len(reliable)
      /\ \A k \in 1 .. Len(reliable) : reliable'[k] = reliable[k]
      /\ \A k \in 1 .. Len(reliable') : Hands(reliable'[k]) => k \in 1 .. Len(reliable)
  BY AddsNoRangeFacts DEF IInv
<1>2. \A k \in 1 .. Len(reliable') : reliable'[k].t = "failed" => Hands(reliable'[k])
  BY DEF Hands
<1>3. \A k \in 1 .. Len(reliable) : reliable[k].id \in Ids
  BY ReliableFacts DEF IInv
<1>4. \A r \in retry \cup delayed : r.id \in Ids  BY DEF IInv, TypeOK, RangeType
<1>5. RangesOK'
  BY <1>1 DEF IInv, Safe, RangesOK, Hands, KeepsRanges
<1>6. OnePlace'
  BY <1>1, <1>2, <1>3, <1>4 DEF IInv, Safe, OnePlace, Pos, IsFailed, Retries, KeepsRanges
<1>7. FreshIds'
  BY <1>1, <1>2, <1>3, <1>4 DEF IInv, Safe, FreshIds, Pos, IsFailed, Retries, KeepsRanges
<1>8. NoByteOrphaned'
  <2>1. SUFFICES ASSUME Working', NEW b \in Bytes \ sent PROVE Held(b)'
    BY DEF NoByteOrphaned
  <2>2. Held(b)  BY <2>1 DEF IInv, Safe, NoByteOrphaned
  <2>3. ASSUME NEW i \in Ids, Live(i), b \in chunk[i].off .. chunk[i].end  PROVE Held(b)'
    <3>1. chunk[i].off <= chunk[i].end  BY <2>3, ChunkFacts DEF IInv
    <3> QED BY <2>1, <2>3, <3>1, ChunkFacts DEF IInv, KeepsRanges, Held
  <2>4. ASSUME NEW k \in 1 .. Len(reliable), Hands(reliable[k]), b \in Span(reliable[k])
        PROVE  Held(b)'
    BY <1>1, <2>4 DEF Held, Hands
  <2> QED  BY <2>2, <2>3, <2>4 DEF Held
<1> QED  BY <1>5, <1>6, <1>7, <1>8 DEF Safe
-----------------------------------------------------------------------------
(* The worker's steps *)

\* A worker's step keeps the types of what the monitor owns.
LEMMA WorkerTypes ==
    ASSUME TypeOK, UNCHANGED monVars, writer' \in {"open", "closed"},
           chunk' \in [Ids -> ChunkType], sent' \subseteq Bytes,
           reliable' \in Seq(MsgType), Len(reliable') <= ReliableCap,
           info' \in Seq(MsgType), Len(info') <= InfoCap, lost' \in BOOLEAN
    PROVE  TypeOK'
BY DEF TypeOK, monVars, ledgerVars, retryVars

\* Moving a worker to its next state keeps every range where it is.
LEMMA GotoKeeps ==
    ASSUME IInv, NEW i \in Ids, Live(i), NEW p \in {"run", "finishing", "completing"},
           p # "run" => chunk[i].off > chunk[i].end,
           chunk' = Goto(i, p)
    PROVE  chunk' \in [Ids -> ChunkType] /\ KeepsRanges
<1>1. chunk' \in [Ids -> ChunkType]
  BY ChunkFacts DEF IInv, ChunkType, PcType, Goto
<1>2. \A j \in Ids :
        /\ chunk'[j].start = chunk[j].start /\ chunk'[j].end = chunk[j].end
        /\ chunk'[j].off = chunk[j].off
        /\ chunk'[j].pc = IF j = i THEN p ELSE chunk[j].pc
        /\ chunk'[j].cls = chunk[j].cls
  BY ChunkFacts DEF IInv, ChunkType, Goto
<1>3. KeepsRanges
  BY <1>2 DEF IInv, Safe, RangesOK, KeepsRanges, Live
<1> QED  BY <1>1, <1>3

\* A worker that is about to report its failure still holds its range.
LEMMA AbortKeeps ==
    ASSUME IInv, NEW i \in Ids, Live(i), NEW c \in ClsType \ {"none"},
           chunk' = Abort(i, c)
    PROVE  chunk' \in [Ids -> ChunkType] /\ KeepsRanges
<1>1. chunk' \in [Ids -> ChunkType]
  <2>1. [chunk[i] EXCEPT !.pc = "failing", !.cls = c] \in ChunkType
    BY ChunkFacts DEF IInv, ChunkType, PcType
  <2>2. chunk' = [chunk EXCEPT ![i] = [chunk[i] EXCEPT !.pc = "failing", !.cls = c]]
    BY ChunkFacts DEF IInv, Abort, ChunkType
  <2> QED  BY <2>1, <2>2, ChunkFacts DEF IInv
<1>2. \A j \in Ids :
        /\ chunk'[j].start = chunk[j].start /\ chunk'[j].end = chunk[j].end
        /\ chunk'[j].off = chunk[j].off
        /\ chunk'[j].pc = IF j = i THEN "failing" ELSE chunk[j].pc
        /\ chunk'[j].cls = IF j = i THEN c ELSE chunk[j].cls
  BY ChunkFacts DEF IInv, ChunkType, Abort
<1>3. KeepsRanges
  BY <1>2 DEF IInv, Safe, RangesOK, KeepsRanges, Live
<1> QED  BY <1>1, <1>3

\* A step that keeps ranges and channels' types.
LEMMA KeepWorker ==
    ASSUME IInv, KeepsRanges, AddsNoRange, UNCHANGED <<monVars, writer, sent>>,
           chunk' \in [Ids -> ChunkType],
           reliable' \in Seq(MsgType), Len(reliable') <= ReliableCap,
           info' \in Seq(MsgType), Len(info') <= InfoCap, lost' \in BOOLEAN
    PROVE  IInv'
<1>1. TypeOK'  BY WorkerTypes DEF IInv, TypeOK
<1>2. UNCHANGED <<retry, delayed, pending, nextId, sent, result>>
  BY DEF monVars, retryVars
<1>3. Safe'  BY <1>2, KeepStep DEF Working
<1> QED  BY <1>1, <1>3 DEF IInv

\* A failure inside the stream loop: last progress, then the failing state.
LEMMA AbortStep ==
    ASSUME IInv, NEW i \in Ids, chunk[i].pc = "run", NEW c \in ClsType \ {"none"},
           chunk' = Abort(i, c), BestEffort(i), UNCHANGED <<monVars, writer, sent>>
    PROVE  IInv'
<1>1. Live(i) /\ chunk[i].start <= chunk[i].off  BY DEF IInv, Safe, RangesOK, Live
<1>2. chunk' \in [Ids -> ChunkType] /\ KeepsRanges  BY <1>1, AbortKeeps
<1>3. Progress(i) \in MsgType /\ ~Hands(Progress(i))
  BY <1>1, ProgressType DEF IInv, Hands
<1>4. /\ info' \in Seq(MsgType) /\ Len(info') <= InfoCap /\ lost' \in BOOLEAN
      /\ reliable' \in Seq(MsgType) /\ Len(reliable') <= ReliableCap
      /\ reliable' = reliable \/ reliable' = Append(reliable, Progress(i))
  BY <1>1, BestEffortType DEF IInv
<1>5. AddsNoRange  BY <1>3, <1>4 DEF AddsNoRange
<1> QED  BY <1>2, <1>4, <1>5, KeepWorker

\* A step inside the worker that touches no channel.
LEMMA SilentStep ==
    ASSUME IInv, KeepsRanges, chunk' \in [Ids -> ChunkType],
           UNCHANGED <<chanVars, monVars, writer, sent>>
    PROVE  IInv'
<1>1. UNCHANGED <<reliable, info, lost>>  BY DEF chanVars
<1>2. AddsNoRange  BY <1>1 DEF AddsNoRange
<1>3. /\ reliable' \in Seq(MsgType) /\ Len(reliable') <= ReliableCap
      /\ info' \in Seq(MsgType) /\ Len(info') <= InfoCap /\ lost' \in BOOLEAN
  BY <1>1 DEF IInv, TypeOK
<1> QED  BY <1>2, <1>3, KeepWorker

\* The worker's steps that hand over no byte and no range.
LEMMA QuietWorkerSteps ==
    ASSUME IInv, NEW i \in Ids,
           \/ Respond(i) \/ RequestFailed(i) \/ Overrun(i) \/ WriterClosed(i)
           \/ Eof(i) \/ StreamError(i) \/ IdleTimeout(i) \/ Kill(i)
    PROVE  IInv'
<1>1. CASE Respond(i)
  BY <1>1, GotoKeeps, SilentStep DEF Respond, Live
<1>2. CASE RequestFailed(i)
  <2>1. PICK c \in Refusals(i) : chunk' = Abort(i, c)  BY <1>2 DEF RequestFailed
  <2>2. c \in ClsType \ {"none"}  BY DEF Refusals, ClsType
  <2> QED  BY <1>2, <2>1, <2>2, AbortKeeps, SilentStep DEF RequestFailed, Live
<1>3. CASE Overrun(i)
  BY <1>3, GotoKeeps, SilentStep DEF Overrun, Live
<1>4. CASE WriterClosed(i)
  BY <1>4, AbortStep DEF WriterClosed, ClsType
<1>5. CASE Eof(i)
  <2>1. CASE chunk[i].off > chunk[i].end
    BY <1>5, <2>1, GotoKeeps, SilentStep DEF Eof, Live
  <2>2. CASE ~(chunk[i].off > chunk[i].end)
    BY <1>5, <2>2, AbortStep DEF Eof, ClsType
  <2> QED  BY <2>1, <2>2
<1>6. CASE StreamError(i)
  BY <1>6, AbortStep DEF StreamError, ClsType
<1>7. CASE IdleTimeout(i)
  <2>1. TimeoutClass(chunk[i].off, chunk[i].end) \in ClsType \ {"none"}
    BY DEF TimeoutClass, ClsType
  <2> QED  BY <1>7, <2>1, AbortStep DEF IdleTimeout
<1>8. CASE Kill(i)
  BY <1>8, AbortStep DEF Kill, ClsType
<1> QED  BY <1>1, <1>2, <1>3, <1>4, <1>5, <1>6, <1>7, <1>8

\* The final progress adds a message that carries no range.
LEMMA FinalProgressStep ==
    ASSUME IInv, NEW i \in Ids, FinalProgress(i)
    PROVE  IInv'
<1>1. Live(i) /\ chunk[i].start <= chunk[i].off /\ chunk[i].off > chunk[i].end
  BY DEF FinalProgress, IInv, Safe, RangesOK, Live
<1>2. Progress(i) \in MsgType /\ ~Hands(Progress(i))
  BY <1>1, ProgressType DEF IInv, Hands
<1>3. reliable' \in Seq(MsgType) /\ Len(reliable') <= ReliableCap
  BY <1>2, ReliableFacts, ConstantTypes DEF FinalProgress, ReliableFree, IInv
<1>4. AddsNoRange  BY <1>2 DEF AddsNoRange, FinalProgress
<1>5. chunk' \in [Ids -> ChunkType] /\ KeepsRanges
  BY <1>1, GotoKeeps DEF FinalProgress
<1>6. info' \in Seq(MsgType) /\ Len(info') <= InfoCap /\ lost' \in BOOLEAN
  BY DEF FinalProgress, IInv, TypeOK
<1> QED  BY <1>3, <1>4, <1>5, <1>6, KeepWorker DEF FinalProgress

\* Only worker i leaves.
LEMMA ExitFacts ==
    ASSUME IInv, NEW i \in Ids, chunk[i].pc # "none", chunk' = Exit(i)
    PROVE  /\ chunk' \in [Ids -> ChunkType]
           /\ ~Live(i)'
           /\ \A j \in Ids \ {i} : chunk'[j] = chunk[j]
           /\ \A j \in Ids : chunk[j].pc = "none" => chunk'[j].pc = "none"
<1>1. [NoChunk EXCEPT !.pc = "exited"] \in ChunkType
  BY DEF NoChunk, ChunkType, PcType, ClsType
<1>2. chunk' = [chunk EXCEPT ![i] = [NoChunk EXCEPT !.pc = "exited"]]  BY DEF Exit
<1>3. chunk' \in [Ids -> ChunkType]  BY <1>1, <1>2, ChunkFacts DEF IInv
<1>4. chunk'[i].pc = "exited"  BY <1>2, ChunkFacts DEF IInv, NoChunk
<1>5. ~Live(i)'  BY <1>4 DEF Live
<1>6. \A j \in Ids \ {i} : chunk'[j] = chunk[j]  BY <1>2, ChunkFacts DEF IInv
<1> QED  BY <1>3, <1>5, <1>6

\* The worker ends with nothing left, or after the download ended.
LEMMA ExitKeeps ==
    ASSUME IInv, NEW i \in Ids, chunk[i].pc # "none", chunk' = Exit(i),
           Live(i) /\ Working' => chunk[i].off > chunk[i].end
    PROVE  chunk' \in [Ids -> ChunkType] /\ KeepsRanges
<1>1. /\ chunk' \in [Ids -> ChunkType] /\ ~Live(i)'
      /\ \A j \in Ids \ {i} : chunk'[j] = chunk[j]
      /\ \A j \in Ids : chunk[j].pc = "none" => chunk'[j].pc = "none"
  BY ExitFacts
<1>2. \A j \in Ids \ {i} : Live(j)' <=> Live(j)  BY <1>1 DEF Live
<1>3. KeepsRanges  BY <1>1, <1>2 DEF KeepsRanges, IInv, Safe, RangesOK
<1> QED  BY <1>1, <1>3

\* A worker completes only with an empty rest: nothing is lost with it.
LEMMA SendCompleteStep ==
    ASSUME IInv, NEW i \in Ids, SendComplete(i)
    PROVE  IInv'
<1>1. Live(i) /\ chunk[i].off > chunk[i].end
  BY DEF SendComplete, IInv, Safe, RangesOK, Live
<1>2. Complete(i) \in MsgType /\ ~Hands(Complete(i))
  BY DEF Complete, Msg, MsgType, ClsType, Hands
<1>3. reliable' \in Seq(MsgType) /\ Len(reliable') <= ReliableCap
  BY <1>2, ReliableFacts, ConstantTypes DEF SendComplete, ReliableFree, IInv
<1>4. AddsNoRange  BY <1>2 DEF AddsNoRange, SendComplete
<1>5. chunk' \in [Ids -> ChunkType] /\ KeepsRanges
  BY <1>1, ExitKeeps DEF SendComplete
<1>6. info' \in Seq(MsgType) /\ Len(info') <= InfoCap /\ lost' \in BOOLEAN
  BY DEF SendComplete, IInv, TypeOK
<1> QED  BY <1>3, <1>4, <1>5, <1>6, KeepWorker DEF SendComplete

\* Workers told to stop after the monitor returned hold nothing that counts.
LEMMA TerminateStep ==
    ASSUME IInv, NEW i \in Ids, Terminate(i)
    PROVE  IInv'
<1>1. result' = result /\ ~Working'  BY DEF Terminate, monVars, Working
<1>2. chunk' \in [Ids -> ChunkType] /\ KeepsRanges
  BY <1>1, ExitKeeps DEF Terminate
<1> QED  BY <1>2, SilentStep DEF Terminate

\* One message m is appended to the reliable channel.
LEMMA AppendFacts ==
    ASSUME TypeOK, NEW m \in MsgType, ReliableFree, reliable' = Append(reliable, m)
    PROVE  /\ reliable' \in Seq(MsgType) /\ Len(reliable') <= ReliableCap
           /\ Len(reliable) \in Nat /\ Len(reliable') = Len(reliable) + 1
           /\ \A k \in 1 .. Len(reliable) : reliable'[k] = reliable[k]
           /\ reliable'[Len(reliable) + 1] = m
BY ReliableFacts, ConstantTypes DEF ReliableFree

\* A worker hands the rest of its range to the monitor in a ChunkFailed.
LEMMA FailSendStep ==
    ASSUME IInv, NEW i \in Ids, FailSend(i)
    PROVE  IInv'
<1> DEFINE m == Failed(i)
           n == Len(reliable) + 1
<1>1. /\ Live(i) /\ chunk[i].end < FileSize /\ chunk[i].off <= chunk[i].end + 1
      /\ chunk[i].cls # "none" /\ i < nextId /\ result' = result
      /\ UNCHANGED <<retry, delayed, pending, nextId, sent>>
  <2>1. chunk[i].pc = "failing"  BY DEF FailSend
  <2>2. UNCHANGED <<retry, delayed, pending, nextId, sent, result>>
    BY DEF FailSend, monVars, retryVars
  <2>3. nextId \in Nat /\ i \in Nat  BY ConstantTypes DEF IInv, TypeOK, Ids
  <2>4. i < nextId  BY <2>1, <2>3 DEF IInv, Safe, FreshIds
  <2> QED  BY <2>1, <2>2, <2>4 DEF IInv, Safe, RangesOK, Live
<1>2. /\ m \in MsgType /\ m.t = "failed" /\ m.id = i
      /\ m.start = chunk[i].off /\ m.end = chunk[i].end /\ m.cls = chunk[i].cls
  BY ChunkFacts DEF Failed, Msg, MsgType, IInv
<1> HIDE DEF m
<1>3. /\ reliable' \in Seq(MsgType) /\ Len(reliable') <= ReliableCap
      /\ Len(reliable) \in Nat /\ Len(reliable') = n
      /\ \A k \in 1 .. Len(reliable) : reliable'[k] = reliable[k]
      /\ reliable'[n] = m
  BY <1>2, AppendFacts DEF FailSend, IInv, m
<1>4. /\ chunk' \in [Ids -> ChunkType] /\ ~Live(i)'
      /\ \A j \in Ids \ {i} : chunk'[j] = chunk[j]
      /\ \A j \in Ids : chunk[j].pc = "none" => chunk'[j].pc = "none"
  BY ExitFacts DEF FailSend
<1>5. \A j \in Ids : Live(j)' => j # i /\ Live(j)  BY <1>4 DEF Live
<1>6. \A j \in Ids \ {i} : Live(j) => Live(j)'  BY <1>4 DEF Live
<1>7. TypeOK'  BY <1>3, <1>4, WorkerTypes DEF FailSend, IInv, TypeOK
<1>8. \A k \in 1 .. n : k \in 1 .. Len(reliable) \/ k = n  BY <1>3
<1>9. \A k \in 1 .. Len(reliable) : reliable[k].id \in Ids  BY ReliableFacts DEF IInv
<1>10. \A r \in retry \cup delayed : r.id \in Ids  BY DEF IInv, TypeOK, RangeType
<1>11. RangesOK'
  BY <1>1, <1>2, <1>3, <1>4, <1>5, <1>8 DEF IInv, Safe, RangesOK, Hands
<1>12. OnePlace'
  BY <1>1, <1>2, <1>3, <1>5, <1>8, <1>9, <1>10 DEF IInv, Safe, OnePlace, Pos, IsFailed, Retries
<1>13. FreshIds'
  BY <1>1, <1>2, <1>3, <1>4, <1>8 DEF IInv, Safe, FreshIds, Pos, IsFailed, Retries
<1>14. NoByteOrphaned'
  <2>1. SUFFICES ASSUME Working', NEW b \in Bytes \ sent PROVE Held(b)'
    BY <1>1 DEF NoByteOrphaned
  <2>2. Held(b)  BY <1>1, <2>1 DEF IInv, Safe, NoByteOrphaned, Working
  <2>3. ASSUME NEW j \in Ids, Live(j), b \in chunk[j].off .. chunk[j].end  PROVE Held(b)'
    <3>1. CASE j = i
      <4>1. n \in 1 .. Len(reliable') /\ Hands(reliable'[n]) /\ b \in Span(reliable'[n])
        BY <1>2, <1>3, <2>3, <3>1 DEF Hands, Span
      <4> QED  BY <4>1 DEF Held, Hands
    <3>2. CASE j # i  BY <1>4, <1>6, <2>3, <3>2 DEF Held
    <3> QED  BY <3>1, <3>2
  <2>4. ASSUME NEW k \in 1 .. Len(reliable), Hands(reliable[k]), b \in Span(reliable[k])
        PROVE  Held(b)'
    BY <1>3, <2>4 DEF Held, Hands
  <2> QED  BY <1>1, <2>2, <2>3, <2>4 DEF Held
<1> QED  BY <1>7, <1>11, <1>12, <1>13, <1>14 DEF IInv, Safe

\* The bytes a buffer adds to the file leave the worker's range.
LEMMA DataStep ==
    ASSUME IInv, NEW i \in Ids, NEW n \in Pieces, Data(i, n)
    PROVE  IInv'
<1> DEFINE c == chunk[i]
           w == Smaller(Size(c.off, c.end), n)
           o == c.off + w
           report == Msg("progress", i, c.start, c.end, o - c.start, "none")
<1>1. /\ c.start \in Nat /\ c.end \in Nat /\ c.off \in Nat /\ c.rep \in Nat
      /\ c.off <= c.end /\ c.end < FileSize /\ c.start <= c.off /\ c.pc = "run"
      /\ n \in Nat /\ n > 0 /\ FileSize \in Nat
  BY ChunkFacts, ConstantTypes DEF Data, IInv, Safe, RangesOK, Live
<1>2. Size(c.off, c.end) = c.end - c.off + 1  BY <1>1, ArithTypes
<1>3. /\ o \in Nat /\ c.off < o /\ o <= c.end + 1
      /\ w < n => o > c.end
  BY <1>1, <1>2 DEF Smaller
<1>4. report \in MsgType  BY <1>1, <1>3 DEF Msg, MsgType, ClsType
<1>5. /\ sent' = sent \cup (c.off .. o - 1)
      /\ UNCHANGED <<reliable, monVars, writer>>
      /\ \E send \in BOOLEAN :
          /\ IF send THEN Broadcast(report) ELSE UNCHANGED <<info, lost>>
          /\ chunk' = [chunk EXCEPT
                ![i].off = o,
                ![i].rep = IF send THEN o - c.start ELSE @,
                ![i].pc  = IF w < n THEN "finishing" ELSE "run"]
  BY DEF Data, Taken
<1>6. PICK send \in BOOLEAN :
          /\ IF send THEN Broadcast(report) ELSE UNCHANGED <<info, lost>>
          /\ chunk' = [chunk EXCEPT
                ![i].off = o,
                ![i].rep = IF send THEN o - c.start ELSE @,
                ![i].pc  = IF w < n THEN "finishing" ELSE "run"]
  BY <1>5
<1> DEFINE q == IF w < n THEN "finishing" ELSE "run"
           p == IF send THEN o - c.start ELSE c.rep
           d == [c EXCEPT !.off = o, !.rep = p, !.pc = q]
<1> HIDE DEF w, o, report
<1>7. p \in Nat /\ q \in PcType  BY <1>1, <1>3 DEF PcType
<1>8. chunk' = [chunk EXCEPT ![i] = d]
  BY <1>6, ChunkFacts DEF IInv, ChunkType
<1>9. d \in ChunkType /\ d.off = o /\ d.start = c.start /\ d.end = c.end /\ d.pc = q
  BY <1>1, <1>3, <1>7, ChunkFacts DEF IInv, ChunkType
<1> HIDE DEF d, p, q
<1>10. /\ chunk' \in [Ids -> ChunkType] /\ chunk'[i] = d
       /\ \A j \in Ids \ {i} : chunk'[j] = chunk[j]
  BY <1>8, <1>9, ChunkFacts DEF IInv
<1>11. info' \in Seq(MsgType) /\ Len(info') <= InfoCap /\ lost' \in BOOLEAN
  <2>1. CASE send  BY <1>4, <1>6, <2>1, BroadcastType DEF IInv
  <2>2. CASE ~send  BY <1>6, <2>2 DEF IInv, TypeOK
  <2> QED  BY <2>1, <2>2
<1>12. sent' \subseteq Bytes
  <2>1. c.off .. o - 1 \subseteq Bytes  BY <1>1, <1>3 DEF Bytes
  <2>2. sent \subseteq Bytes  BY DEF IInv, TypeOK
  <2> QED  BY <1>5, <2>1, <2>2
<1>13. TypeOK'  BY <1>5, <1>10, <1>11, <1>12, WorkerTypes DEF IInv, TypeOK
<1>14. UNCHANGED <<reliable, retry, delayed, pending, nextId, result>>
  BY <1>5 DEF monVars, retryVars
<1>15. Live(i) /\ Live(i)' /\ \A j \in Ids : Live(j)' <=> Live(j)
  BY <1>1, <1>9, <1>10 DEF Live, q
<1>16. /\ chunk'[i].pc \in {"finishing", "completing"} => o > c.end
       /\ chunk'[i].pc # "failing"
  BY <1>3, <1>9, <1>10 DEF q
<1>17. RangesOK'
  BY <1>1, <1>3, <1>9, <1>10, <1>14, <1>15, <1>16 DEF IInv, Safe, RangesOK, Hands
<1>18. OnePlace' /\ FreshIds'
  BY <1>1, <1>10, <1>14, <1>15, ReliableFacts
     DEF IInv, Safe, OnePlace, FreshIds, Pos, IsFailed, Retries, TypeOK, RangeType, Ids
<1>19. NoByteOrphaned'
  <2>1. SUFFICES ASSUME Working', NEW b \in Bytes \ sent' PROVE Held(b)'
    BY DEF NoByteOrphaned
  <2>2. b \in Bytes \ sent /\ b \notin c.off .. o - 1 /\ b \in Int  BY <1>1, <1>5 DEF Bytes
  <2>3. Held(b)  BY <1>14, <2>1, <2>2 DEF IInv, Safe, NoByteOrphaned, Working
  <2>4. ASSUME NEW j \in Ids, Live(j), b \in chunk[j].off .. chunk[j].end  PROVE Held(b)'
    <3>1. b \in chunk'[j].off .. chunk'[j].end
      BY <1>1, <1>3, <1>9, <1>10, <2>2, <2>4
    <3> QED  BY <1>15, <2>4, <3>1 DEF Held
  <2> QED  BY <1>14, <2>3, <2>4 DEF Held, Hands
<1> QED  BY <1>13, <1>17, <1>18, <1>19 DEF IInv, Safe

\* The split range is cut off the worker's and travels in the event.
LEMMA BisectStep ==
    ASSUME IInv, NEW i \in Ids, Bisect(i)
    PROVE  IInv'
<1> DEFINE c == chunk[i]
           mid == split_range(c.off, c.end, c.cmd = "skew")
           m == Bisected(i, mid + 1, c.end)
           n == Len(reliable) + 1
<1>1. /\ c.start \in Nat /\ c.end \in Nat /\ c.off \in Nat /\ c.pc = "run"
      /\ c.end < FileSize /\ c.start <= c.off /\ FileSize \in Nat
  BY ChunkFacts, ConstantTypes DEF Bisect, IInv, Safe, RangesOK, Live
<1>2. UNCHANGED <<info, lost, monVars, writer, sent, retry, delayed, pending, nextId, result>>
  BY DEF Bisect, monVars, retryVars
<1>3. info' \in Seq(MsgType) /\ Len(info') <= InfoCap /\ lost' \in BOOLEAN
  BY <1>2 DEF IInv, TypeOK
<1>4. CASE ~Splittable(c.off, c.end)
  <2>1. chunk' = [chunk EXCEPT ![i].cmd = "none"] /\ reliable' = reliable
    BY <1>4 DEF Bisect
  <2>2. chunk' \in [Ids -> ChunkType]  BY <2>1, ChunkFacts DEF IInv, ChunkType
  <2>3. \A j \in Ids :
        /\ chunk'[j].start = chunk[j].start /\ chunk'[j].end = chunk[j].end
        /\ chunk'[j].off = chunk[j].off /\ chunk'[j].pc = chunk[j].pc
        /\ chunk'[j].cls = chunk[j].cls
    BY <2>1, ChunkFacts DEF IInv, ChunkType
  <2>4. KeepsRanges  BY <2>3 DEF IInv, Safe, RangesOK, KeepsRanges, Live
  <2>5. AddsNoRange  BY <2>1 DEF AddsNoRange
  <2>6. reliable' \in Seq(MsgType) /\ Len(reliable') <= ReliableCap
    BY <2>1 DEF IInv, TypeOK
  <2> QED  BY <1>2, <1>3, <2>2, <2>4, <2>5, <2>6, KeepWorker
<1>5. CASE Splittable(c.off, c.end)
  <2>1. mid \in Nat /\ c.off <= mid /\ mid < c.end  BY <1>1, <1>5, SplitInside
  <2>2. /\ ReliableFree /\ reliable' = Append(reliable, m)
        /\ chunk' = [chunk EXCEPT ![i].end = mid, ![i].cmd = "none"]
    BY <1>5 DEF Bisect
  <2>3. /\ m \in MsgType /\ m.t = "bisected" /\ m.start = mid + 1 /\ m.end = c.end
    BY <1>1, <2>1 DEF Bisected, Msg, MsgType, ClsType
  <2> DEFINE d == [c EXCEPT !.end = mid, !.cmd = "none"]
  <2> HIDE DEF mid, m
  <2>4. chunk' = [chunk EXCEPT ![i] = d]  BY <2>2, ChunkFacts DEF IInv, ChunkType
  <2>5. d \in ChunkType /\ d.off = c.off /\ d.start = c.start /\ d.end = mid /\ d.pc = "run"
    BY <1>1, <2>1, ChunkFacts DEF IInv, ChunkType
  <2> HIDE DEF d
  <2>6. /\ chunk' \in [Ids -> ChunkType] /\ chunk'[i] = d
        /\ \A j \in Ids \ {i} : chunk'[j] = chunk[j]
    BY <2>4, <2>5, ChunkFacts DEF IInv
  <2>7. /\ reliable' \in Seq(MsgType) /\ Len(reliable') <= ReliableCap
        /\ Len(reliable) \in Nat /\ Len(reliable') = n
        /\ \A k \in 1 .. Len(reliable) : reliable'[k] = reliable[k]
        /\ reliable'[n] = m
    BY <2>2, <2>3, AppendFacts DEF IInv
  <2>8. TypeOK'  BY <1>2, <1>3, <2>6, <2>7, WorkerTypes DEF IInv, TypeOK
  <2>9. Live(i) /\ Live(i)' /\ \A j \in Ids : Live(j)' <=> Live(j)
    BY <1>1, <2>5, <2>6 DEF Live
  <2>10. \A k \in 1 .. n : k \in 1 .. Len(reliable) \/ k = n  BY <2>7
  <2>11. \A k \in 1 .. Len(reliable') : reliable'[k].t = "failed" =>
            k \in 1 .. Len(reliable) /\ reliable'[k] = reliable[k]
    BY <2>3, <2>7, <2>10
  <2>12. RangesOK'
    <3>1. ASSUME NEW j \in Ids, Live(j)'
          PROVE  /\ chunk'[j].end < FileSize /\ chunk'[j].off <= chunk'[j].end + 1
                 /\ chunk'[j].start <= chunk'[j].off
                 /\ chunk'[j].pc \in {"finishing", "completing"} => chunk'[j].off > chunk'[j].end
                 /\ chunk'[j].pc = "failing" => chunk'[j].cls # "none"
      <4>1. CASE j = i  BY <1>1, <2>1, <2>5, <2>6, <4>1
      <4>2. CASE j # i  BY <2>6, <2>9, <3>1, <4>2 DEF IInv, Safe, RangesOK
      <4> QED  BY <4>1, <4>2
    <3>2. ASSUME NEW k \in 1 .. Len(reliable'), Hands(reliable'[k])
          PROVE  /\ reliable'[k].end < FileSize /\ reliable'[k].start <= reliable'[k].end + 1
                 /\ reliable'[k].t = "failed" => reliable'[k].cls # "none"
                 /\ reliable'[k].t = "bisected" => reliable'[k].start >= 1
      <4>1. CASE k = n  BY <1>1, <2>1, <2>3, <2>7, <4>1
      <4>2. CASE k # n  BY <2>7, <2>10, <3>2, <4>2 DEF IInv, Safe, RangesOK, Hands
      <4> QED  BY <4>1, <4>2
    <3> QED  BY <1>2, <3>1, <3>2 DEF IInv, Safe, RangesOK, Hands
  <2>13. OnePlace' /\ FreshIds'
    <3>1. \A r \in retry \cup delayed : r.id \in Ids  BY DEF IInv, TypeOK, RangeType
    <3>2. \A k \in 1 .. Len(reliable) : reliable[k].id \in Ids  BY ReliableFacts DEF IInv
    <3>3. \A j \in Ids : chunk[j].pc = "none" => chunk'[j].pc = "none"
      BY <1>1, <2>6
    <3>4. OnePlace'
      BY <1>2, <2>7, <2>9, <2>11, <3>1, <3>2 DEF IInv, Safe, OnePlace, Pos, IsFailed, Retries
    <3>5. FreshIds'
      BY <1>2, <2>7, <2>11, <3>3 DEF IInv, Safe, FreshIds, Pos, IsFailed, Retries
    <3> QED  BY <3>4, <3>5
  <2>14. NoByteOrphaned'
    <3>1. SUFFICES ASSUME Working', NEW b \in Bytes \ sent PROVE Held(b)'
      BY <1>2 DEF NoByteOrphaned
    <3>2. Held(b) /\ b \in Int  BY <1>1, <1>2, <3>1 DEF IInv, Safe, NoByteOrphaned, Working, Bytes
    <3>3. ASSUME NEW j \in Ids, Live(j), b \in chunk[j].off .. chunk[j].end  PROVE Held(b)'
      <4>1. CASE j = i /\ b > mid
        <5>1. n \in 1 .. Len(reliable') /\ Hands(reliable'[n]) /\ b \in Span(reliable'[n])
          BY <1>1, <2>1, <2>3, <2>7, <3>2, <3>3, <4>1 DEF Hands, Span
        <5> QED  BY <5>1 DEF Held, Hands
      <4>2. CASE ~(j = i /\ b > mid)
        <5>1. b \in chunk'[j].off .. chunk'[j].end
          BY <1>1, <2>1, <2>5, <2>6, <3>2, <3>3, <4>2
        <5> QED  BY <2>9, <3>3, <5>1 DEF Held
      <4> QED  BY <4>1, <4>2
    <3>4. ASSUME NEW k \in 1 .. Len(reliable), Hands(reliable[k]), b \in Span(reliable[k])
          PROVE  Held(b)'
      BY <2>7, <3>4 DEF Held, Hands
    <3> QED  BY <1>2, <3>2, <3>3, <3>4 DEF Held
  <2> QED  BY <2>8, <2>12, <2>13, <2>14 DEF IInv, Safe
<1> QED  BY <1>4, <1>5
-----------------------------------------------------------------------------
(* The monitor's steps *)

EntryType == [on : BOOLEAN, start : Nat, end : Nat, dl : Nat]

\* The branch the biased select! owes next.
LEMMA ReadyType == Ready \in {"reliable", "join", "info", "any"}
BY DEF Ready

\* Nobody starts or ends: every worker keeps what it has.
LEMMA SameChunks ==
    ASSUME IInv, chunk' = chunk
    PROVE  chunk' \in [Ids -> ChunkType] /\ KeepsRanges
<1>1. \A j \in Ids : Live(j)' <=> Live(j)  BY DEF Live
<1>2. KeepsRanges  BY <1>1 DEF KeepsRanges, IInv, Safe, RangesOK
<1> QED  BY <1>2, ChunkFacts DEF IInv

\* The death of the file writer moves no range.
LEMMA WriterDiesStep ==
    ASSUME IInv, WriterDies  PROVE IInv'
<1>1. UNCHANGED <<chunk, reliable, info, lost, monVars, sent>> /\ writer' = "closed"
  BY DEF WriterDies, chanVars
<1>2. TypeOK'
  BY <1>1 DEF IInv, TypeOK, monVars, ledgerVars, retryVars
<1>3. AddsNoRange  BY <1>1 DEF AddsNoRange
<1>4. UNCHANGED <<retry, delayed, pending, nextId, sent, result>>
  BY <1>1 DEF monVars, retryVars
<1> QED  BY <1>1, <1>2, <1>3, <1>4, SameChunks, KeepStep DEF IInv, Working

\* Subscribing to the broadcast moves no range.
LEMMA SubscribeStep ==
    ASSUME IInv, Subscribe  PROVE IInv'
<1>1. UNCHANGED <<chunk, reliable, info, lost, st, completed, retired, lanes, pending, retry,
                  delayed, attempts, total, nextId, stall, owed, writer, sent>>
  BY DEF Subscribe, chanVars, ledgerVars, retryVars
<1>2. Working /\ Working' /\ result' = "running"  BY DEF Subscribe, Working
<1>3. TypeOK'  BY <1>1, <1>2 DEF IInv, TypeOK
<1>4. AddsNoRange  BY <1>1 DEF AddsNoRange
<1> QED  BY <1>1, <1>2, <1>3, <1>4, SameChunks, KeepStep DEF IInv

\* A stuttering step keeps the invariant.
LEMMA StutterStep ==
    ASSUME IInv, UNCHANGED vars  PROVE IInv'
<1>1. UNCHANGED <<chunk, chanVars, monVars, writer, sent>>  BY DEF vars
<1> QED  BY <1>1, SameChunks, SilentStep

\* A progress message leaves a well-formed ledger.
LEMMA OnProgressTypes ==
    ASSUME TypeOK, NEW m \in MsgType, OnProgress(m)
    PROVE  st' \in [Ids -> EntryType]
<1>1. m.id \in Ids /\ m.start \in Nat /\ m.end \in Nat /\ m.dl \in Nat  BY DEF MsgType
<1>2. st \in [Ids -> EntryType]  BY DEF TypeOK, EntryType
<1>3. st[m.id] \in EntryType  BY <1>1, <1>2
<1>4. /\ st[m.id].start \in Nat /\ st[m.id].dl \in Nat /\ st[m.id].on \in BOOLEAN
  BY <1>3 DEF EntryType
<1>5. Larger(st[m.id].dl, m.dl) \in Nat  BY <1>1, <1>4, ArithTypes
<1> DEFINE e == [on |-> TRUE, start |-> IF st[m.id].on THEN st[m.id].start ELSE m.start,
                 end |-> m.end, dl |-> Larger(st[m.id].dl, m.dl)]
<1>6. e \in EntryType  BY <1>1, <1>4, <1>5 DEF EntryType
<1>7. st' = st \/ st' = [st EXCEPT ![m.id] = e]  BY DEF OnProgress, Updated
<1> QED  BY <1>1, <1>2, <1>6, <1>7

\* A progress message read from the broadcast moves no range.
LEMMA MonInfoStep ==
    ASSUME IInv, MonInfo  PROVE IInv'
<1>1. /\ info \in Seq(MsgType) /\ info # <<>> /\ info' = Tail(info)
      /\ Len(info) <= InfoCap /\ OnProgress(Head(info))
      /\ InfoCap \in Nat
  BY ConstantTypes DEF IInv, TypeOK, MonInfo
<1>2. /\ Head(info) \in MsgType /\ info' \in Seq(MsgType) /\ Len(info') <= InfoCap
  BY <1>1
<1>3. st' \in [Ids -> EntryType]  BY <1>1, <1>2, OnProgressTypes DEF IInv
<1>4. /\ UNCHANGED <<chunk, completed, retired, lanes, pending, retry, delayed, attempts, total,
                     nextId, result, reliable, lost, stall, writer, sent>>
      /\ owed' \in {"reliable", "join", "info", "any"}
  BY <1>1, ReadyType DEF MonInfo, OnProgress, retryVars
<1>5. TypeOK'
  BY <1>2, <1>3, <1>4 DEF IInv, TypeOK, EntryType
<1>6. AddsNoRange  BY <1>4 DEF AddsNoRange
<1> QED  BY <1>4, <1>5, <1>6, SameChunks, KeepStep DEF IInv, Working

\* A joined worker had already reported: its slot holds no range.
LEMMA MonJoinStep ==
    ASSUME IInv, NEW i \in Ids, MonJoin(i)  PROVE IInv'
<1>1. /\ UNCHANGED <<reliable, info, lost, st, completed, retired, lanes, pending, retry,
                     delayed, attempts, total, nextId, stall, writer, sent>>
      /\ chunk' = [chunk EXCEPT ![i] = NoChunk] /\ chunk[i].pc = "exited"
      /\ result' \in {"ok", "running"} /\ Working
      /\ owed' \in {"reliable", "join", "info", "any"}
  BY ReadyType DEF MonJoin, chanVars, ledgerVars, retryVars, Working
<1>2. NoChunk \in ChunkType /\ NoChunk.pc = "none"
  BY DEF NoChunk, ChunkType, PcType, ClsType
<1>3. /\ chunk' \in [Ids -> ChunkType] /\ chunk'[i] = NoChunk
      /\ \A j \in Ids \ {i} : chunk'[j] = chunk[j]
  BY <1>1, <1>2, ChunkFacts DEF IInv
<1>4. TypeOK'  BY <1>1, <1>3 DEF IInv, TypeOK
<1>5. ~Live(i) /\ ~Live(i)' /\ \A j \in Ids : Live(j)' <=> Live(j)
  BY <1>1, <1>2, <1>3 DEF Live
<1>6. KeepsRanges  BY <1>2, <1>3, <1>5 DEF KeepsRanges, IInv, Safe, RangesOK
<1>7. AddsNoRange  BY <1>1 DEF AddsNoRange
<1> QED  BY <1>1, <1>4, <1>6, <1>7, KeepStep DEF IInv

\* Position k of what is left of the channel is position k + 1 of before.
LEMMA TailFacts ==
    ASSUME TypeOK, reliable # <<>>, reliable' = Tail(reliable)
    PROVE  /\ Head(reliable) = reliable[1] /\ reliable[1] \in MsgType
           /\ Len(reliable) \in Nat /\ Len(reliable) >= 1
           /\ reliable' \in Seq(MsgType)
           /\ Len(reliable') = Len(reliable) - 1 /\ Len(reliable') <= ReliableCap
           /\ \A k \in 1 .. Len(reliable') :
                 k + 1 \in 1 .. Len(reliable) /\ reliable'[k] = reliable[k + 1]
           /\ \A k \in 1 .. Len(reliable) :
                 k = 1 \/ (k - 1 \in 1 .. Len(reliable') /\ reliable'[k - 1] = reliable[k])
<1>1. reliable \in Seq(MsgType) /\ Len(reliable) \in Nat /\ Len(reliable) <= ReliableCap
  BY ReliableFacts DEF TypeOK
<1>2. Len(reliable) >= 1  BY <1>1
<1>3. reliable' \in Seq(MsgType) /\ Len(reliable') = Len(reliable) - 1
  BY <1>1, <1>2
<1>4. \A k \in 1 .. Len(reliable) - 1 : reliable'[k] = reliable[k + 1]
  BY <1>1, <1>2
<1>5. Head(reliable) = reliable[1] /\ reliable[1] \in MsgType  BY <1>1, <1>2
<1> QED  BY <1>1, <1>2, <1>3, <1>4, <1>5, ConstantTypes

\* What is left of the channel still names each failed worker once.
LEMMA TailFailedOnce ==
    ASSUME IInv, reliable # <<>>, reliable' = Tail(reliable)
    PROVE  /\ \A k, l \in 1 .. Len(reliable') :
                 reliable'[k].t = "failed" /\ reliable'[l].t = "failed" =>
                    (reliable'[k].id = reliable'[l].id => k = l)
           /\ \A k \in 1 .. Len(reliable') : reliable'[k].t = "failed" =>
                 reliable'[k].id \in Ids /\ ~Live(reliable'[k].id)
           /\ \A x \in Retries : \A k \in 1 .. Len(reliable') :
                 reliable'[k].t = "failed" => reliable'[k].id # x.id
<1>1. /\ Len(reliable) \in Nat /\ Len(reliable') = Len(reliable) - 1
      /\ \A k \in 1 .. Len(reliable') :
            k + 1 \in 1 .. Len(reliable) /\ reliable'[k] = reliable[k + 1]
  BY TailFacts DEF IInv
<1>2. /\ \A k, l \in 1 .. Len(reliable) :
            reliable[k].t = "failed" /\ reliable[l].t = "failed" =>
               (reliable[k].id = reliable[l].id => k = l)
      /\ \A k \in 1 .. Len(reliable) : reliable[k].t = "failed" => ~Live(reliable[k].id)
      /\ \A x \in Retries : \A k \in 1 .. Len(reliable) :
            reliable[k].t = "failed" => reliable[k].id # x.id
  BY DEF IInv, Safe, OnePlace, Pos, IsFailed
<1>3. \A k \in 1 .. Len(reliable) : reliable[k].id \in Ids  BY ReliableFacts DEF IInv
<1>4. ASSUME NEW k \in 1 .. Len(reliable'), NEW l \in 1 .. Len(reliable'),
             reliable'[k].t = "failed", reliable'[l].t = "failed",
             reliable'[k].id = reliable'[l].id
      PROVE  k = l
  <2>1. k + 1 = l + 1  BY <1>1, <1>2, <1>4
  <2> QED  BY <1>1, <2>1
<1>5. \A k \in 1 .. Len(reliable') : reliable'[k].t = "failed" =>
         reliable'[k].id \in Ids /\ ~Live(reliable'[k].id)
  BY <1>1, <1>2, <1>3
<1>6. \A x \in Retries : \A k \in 1 .. Len(reliable') :
         reliable'[k].t = "failed" => reliable'[k].id # x.id
  BY <1>1, <1>2
<1> QED  BY <1>4, <1>5, <1>6

\* An event that passes on no range is taken from the channel.
LEMMA TakeStep ==
    ASSUME IInv, reliable # <<>>, reliable' = Tail(reliable), ~Hands(Head(reliable)),
           UNCHANGED <<chunk, retry, delayed, pending, nextId, sent, result>>
    PROVE  Safe'
<1>1. /\ Head(reliable) = reliable[1]
      /\ Len(reliable) \in Nat /\ Len(reliable') = Len(reliable) - 1
      /\ \A k \in 1 .. Len(reliable') :
            k + 1 \in 1 .. Len(reliable) /\ reliable'[k] = reliable[k + 1]
      /\ \A k \in 1 .. Len(reliable) :
            k = 1 \/ (k - 1 \in 1 .. Len(reliable') /\ reliable'[k - 1] = reliable[k])
  BY TailFacts DEF IInv
<1>2. \A j \in Ids : Live(j)' <=> Live(j)  BY DEF Live
<1>3. \A k \in 1 .. Len(reliable) : reliable[k].id \in Ids  BY ReliableFacts DEF IInv
<1>4. \A r \in retry \cup delayed : r.id \in Ids  BY DEF IInv, TypeOK, RangeType
<1>5. RangesOK'
  BY <1>1, <1>2 DEF IInv, Safe, RangesOK, Hands
<1>6. OnePlace'
  <2>1. \A k, l \in 1 .. Len(reliable') : k + 1 = l + 1 => k = l  BY <1>1
  <2> QED  BY <1>1, <1>2, <1>3, <1>4, <2>1 DEF IInv, Safe, OnePlace, Pos, IsFailed, Retries
<1>7. FreshIds'
  BY <1>1, <1>2, <1>3, <1>4 DEF IInv, Safe, FreshIds, Pos, IsFailed, Retries
<1>8. NoByteOrphaned'
  <2>1. SUFFICES ASSUME Working', NEW b \in Bytes \ sent PROVE Held(b)'
    BY DEF NoByteOrphaned
  <2>2. Held(b)  BY <2>1 DEF IInv, Safe, NoByteOrphaned, Working
  <2>3. ASSUME NEW k \in 1 .. Len(reliable), Hands(reliable[k]), b \in Span(reliable[k])
        PROVE  Held(b)'
    <3>1. k - 1 \in 1 .. Len(reliable') /\ reliable'[k - 1] = reliable[k]  BY <1>1, <2>3
    <3> QED  BY <2>3, <3>1 DEF Held, Hands
  <2> QED  BY <1>2, <2>2, <2>3 DEF Held
<1> QED  BY <1>5, <1>6, <1>7, <1>8 DEF Safe

\* A progress message read from the mpsc moves no range.
LEMMA ProgressStep ==
    ASSUME IInv, MonReliable, Head(reliable).t = "progress"
    PROVE  IInv'
<1> DEFINE m == Head(reliable)
<1>1. /\ reliable # <<>> /\ reliable' = Tail(reliable) /\ OnProgress(m)
      /\ UNCHANGED <<info, lost, stall, writer, sent>> /\ owed' = Ready
  BY DEF MonReliable
<1>2. /\ m \in MsgType /\ reliable' \in Seq(MsgType) /\ Len(reliable') <= ReliableCap
  BY <1>1, TailFacts DEF IInv
<1> HIDE DEF m
<1>3. st' \in [Ids -> EntryType]  BY <1>1, <1>2, OnProgressTypes DEF IInv
<1>4. UNCHANGED <<chunk, completed, retired, lanes, pending, retry, delayed, attempts,
                  total, nextId, result>>
  BY <1>1 DEF OnProgress, retryVars
<1>5. TypeOK'
  BY <1>1, <1>2, <1>3, <1>4, ReadyType DEF IInv, TypeOK, EntryType
<1>6. ~Hands(Head(reliable))  BY DEF Hands
<1> QED  BY <1>1, <1>4, <1>5, <1>6, TakeStep DEF IInv

\* DownloadComplete updates the ledger and moves no range.
LEMMA CompleteStep ==
    ASSUME IInv, MonReliable, Head(reliable).t = "complete"
    PROVE  IInv'
<1> DEFINE m == Head(reliable)
<1>1. /\ reliable # <<>> /\ reliable' = Tail(reliable) /\ OnComplete(m)
      /\ UNCHANGED <<info, lost, stall, writer, sent>> /\ owed' = Ready
  BY DEF MonReliable
<1>2. /\ m \in MsgType /\ reliable' \in Seq(MsgType) /\ Len(reliable') <= ReliableCap
  BY <1>1, TailFacts DEF IInv
<1> HIDE DEF m
<1>3. m.id \in Ids  BY <1>2 DEF MsgType
<1>4. st \in [Ids -> EntryType] /\ NoEntry \in EntryType
  BY DEF IInv, TypeOK, EntryType, NoEntry
<1>5. st' \in [Ids -> EntryType]  BY <1>1, <1>3, <1>4 DEF OnComplete
<1>6. completed' \in Nat
  <2>1. st[m.id].start \in Nat /\ st[m.id].end \in Nat  BY <1>3, <1>4 DEF EntryType
  <2>2. Size(st[m.id].start, st[m.id].end) \in Nat  BY <2>1, ArithTypes
  <2>3. completed \in Nat  BY DEF IInv, TypeOK
  <2> QED  BY <1>1, <2>2, <2>3 DEF OnComplete
<1>7. /\ retired' \subseteq Ids /\ lanes' \subseteq Ids
      /\ attempts' \in [Ids -> Nat] /\ total' \in [Ids -> Nat]
  BY <1>1, <1>3 DEF OnComplete, IInv, TypeOK
<1>8. UNCHANGED <<chunk, pending, retry, delayed, nextId, result>>
  BY <1>1 DEF OnComplete
<1>9. TypeOK'
  BY <1>1, <1>2, <1>5, <1>6, <1>7, <1>8, ReadyType DEF IInv, TypeOK, EntryType
<1>10. ~Hands(Head(reliable))  BY DEF Hands
<1> QED  BY <1>1, <1>8, <1>9, <1>10, TakeStep DEF IInv

\* on_chunk_failed queues exactly the reported range, or ends the download.
LEMMA RequeueFacts ==
    ASSUME TypeOK, NEW m \in MsgType, m.cls # "none", result = "running", Requeue(m)
    PROVE  LET r == [id |-> m.id, start |-> m.start, end |-> m.end] IN
           /\ r \in RangeType
           /\ retry' \subseteq RangeType /\ delayed' \subseteq RangeType
           /\ attempts' \in [Ids -> Nat] /\ total' \in [Ids -> Nat]
           /\ result' \in {"running"} \cup Causes
           /\ \/ result' \in Causes /\ (retry \cup delayed)' = retry \cup delayed
              \/ result' = result /\ (retry \cup delayed)' = retry \cup delayed \cup {r}
           /\ (retry \cap delayed)' \subseteq (retry \cap delayed) \cup
                 (IF r \in retry \cup delayed THEN {r} ELSE {})
<1> DEFINE i == m.id
           r == [id |-> m.id, start |-> m.start, end |-> m.end]
<1>1. r \in RangeType /\ i \in Ids  BY DEF MsgType, RangeType
<1>2. /\ retry \subseteq RangeType /\ delayed \subseteq RangeType
      /\ attempts \in [Ids -> Nat] /\ total \in [Ids -> Nat]
  BY DEF TypeOK
<1>3. attempts[i] \in Nat /\ total[i] \in Nat  BY <1>1, <1>2
<1> HIDE DEF r, i
<1>4. CASE m.cls # "retry"
  <2>1. /\ result' = m.cls /\ attempts' = [attempts EXCEPT ![i] = 0]
        /\ UNCHANGED <<retry, delayed, total>>
    BY <1>4 DEF Requeue, i
  <2>2. m.cls \in Causes  BY <1>4 DEF MsgType, ClsType, Causes
  <2> QED  BY <1>1, <1>2, <2>1, <2>2 DEF r
<1>5. CASE m.cls = "retry"
  <2>1. total' = [total EXCEPT ![i] = @ + 1]  BY <1>5 DEF Requeue, Counted, i
  <2>2. total' \in [Ids -> Nat]  BY <1>1, <1>2, <1>3, <2>1
  <2>3. \/ /\ result' = "exhausted" /\ attempts' = [attempts EXCEPT ![i] = 0]
           /\ UNCHANGED <<retry, delayed>>
        \/ /\ retry' = retry \cup {r} /\ attempts' = [attempts EXCEPT ![i] = @ + 1]
           /\ UNCHANGED <<delayed, result>>
        \/ /\ delayed' = delayed \cup {r} /\ attempts' = [attempts EXCEPT ![i] = 0]
           /\ UNCHANGED <<retry, result>>
    BY <1>5 DEF Requeue, i, r
  <2>4. attempts' \in [Ids -> Nat]  BY <1>1, <1>2, <1>3, <2>3
  <2>5. retry' \subseteq RangeType /\ delayed' \subseteq RangeType  BY <1>1, <1>2, <2>3
  <2>6. \/ result' \in Causes /\ (retry \cup delayed)' = retry \cup delayed
        \/ result' = result /\ (retry \cup delayed)' = retry \cup delayed \cup {r}
    BY <2>3 DEF Causes
  <2>7. (retry \cap delayed)' \subseteq (retry \cap delayed) \cup
           (IF r \in retry \cup delayed THEN {r} ELSE {})
    BY <2>3
  <2> QED  BY <1>1, <2>2, <2>4, <2>5, <2>6, <2>7 DEF r
<1> QED  BY <1>4, <1>5

\* The failed range moves from the event to a retry queue, or the download
\* is over.
LEMMA FailedStep ==
    ASSUME IInv, MonReliable, Head(reliable).t = "failed"
    PROVE  IInv'
<1> DEFINE m == Head(reliable)
           r == [id |-> m.id, start |-> m.start, end |-> m.end]
<1>1. /\ reliable # <<>> /\ reliable' = Tail(reliable) /\ OnFailed(m) /\ result = "running"
      /\ UNCHANGED <<info, lost, stall, writer, sent>> /\ owed' = Ready
  BY DEF MonReliable
<1>2. /\ m = reliable[1] /\ m \in MsgType
      /\ reliable' \in Seq(MsgType) /\ Len(reliable') <= ReliableCap
      /\ Len(reliable) \in Nat /\ Len(reliable) >= 1 /\ Len(reliable') = Len(reliable) - 1
      /\ \A k \in 1 .. Len(reliable') :
            k + 1 \in 1 .. Len(reliable) /\ reliable'[k] = reliable[k + 1]
      /\ \A k \in 1 .. Len(reliable) :
            k = 1 \/ (k - 1 \in 1 .. Len(reliable') /\ reliable'[k - 1] = reliable[k])
  BY <1>1, TailFacts DEF IInv
<1>3. m.t = "failed" /\ 1 \in 1 .. Len(reliable) /\ Hands(m)  BY <1>2 DEF Hands
<1> HIDE DEF m
<1>4. /\ m.id \in Ids /\ m.start \in Nat /\ m.end \in Nat /\ m.cls # "none"
      /\ m.end < FileSize /\ m.start <= m.end + 1
  BY <1>2, <1>3 DEF MsgType, IInv, Safe, RangesOK
<1>5. /\ r \in RangeType
      /\ retry' \subseteq RangeType /\ delayed' \subseteq RangeType
      /\ attempts' \in [Ids -> Nat] /\ total' \in [Ids -> Nat]
      /\ result' \in {"running"} \cup Causes
      /\ \/ result' \in Causes /\ (retry \cup delayed)' = retry \cup delayed
         \/ result' = result /\ (retry \cup delayed)' = retry \cup delayed \cup {r}
      /\ (retry \cap delayed)' \subseteq (retry \cap delayed) \cup
            (IF r \in retry \cup delayed THEN {r} ELSE {})
  BY <1>1, <1>2, <1>4, RequeueFacts DEF OnFailed, IInv
<1>6. r.id = m.id /\ r.start = m.start /\ r.end = m.end  OBVIOUS
<1> HIDE DEF r
<1>7. st \in [Ids -> EntryType] /\ NoEntry \in EntryType
  BY DEF IInv, TypeOK, EntryType, NoEntry
<1>8. completed' \in Nat
  <2>1. /\ st[m.id].start \in Nat /\ st[m.id].end \in Nat /\ st[m.id].dl \in Nat
    BY <1>4, <1>7 DEF EntryType
  <2>2. Size(st[m.id].start, st[m.id].end) \in Nat /\ Minus(m.start, st[m.id].start) \in Nat
    BY <1>4, <2>1, ArithTypes
  <2>3. Smaller(Minus(m.start, st[m.id].start), Size(st[m.id].start, st[m.id].end)) \in Nat
    BY <2>2, ArithTypes
  <2>4. Preserved(st[m.id], m.start) \in Nat  BY <2>1, <2>3, ArithTypes DEF Preserved
  <2>5. completed \in Nat  BY DEF IInv, TypeOK
  <2> QED  BY <1>1, <2>4, <2>5 DEF OnFailed
<1>9. /\ st' \in [Ids -> EntryType] /\ lanes' \subseteq Ids
      /\ UNCHANGED <<chunk, retired, pending, nextId>>
  BY <1>1, <1>4, <1>7 DEF OnFailed, Freed, IInv, TypeOK
<1>10. TypeOK'
  BY <1>1, <1>2, <1>5, <1>8, <1>9, ReadyType DEF IInv, TypeOK, EntryType
<1>11. \A j \in Ids : Live(j)' <=> Live(j)  BY <1>9 DEF Live
<1>12. \A x \in (retry \cup delayed)' : x \in retry \cup delayed \/ x = r  BY <1>5
<1>13. \A k \in 1 .. Len(reliable) : reliable[k].id \in Ids  BY ReliableFacts DEF IInv
<1>14. \A x \in retry \cup delayed : x.id \in Ids  BY DEF IInv, TypeOK, RangeType
<1>15. RangesOK'
  <2>1. \A x \in (retry \cup delayed)' : x.end < FileSize /\ x.start <= x.end + 1
    BY <1>4, <1>6, <1>12 DEF IInv, Safe, RangesOK
  <2> QED  BY <1>2, <1>9, <1>11, <2>1 DEF IInv, Safe, RangesOK, Hands
<1>16. OnePlace'
  <2>1. \A k, l \in 1 .. Len(reliable') : k + 1 = l + 1 => k = l  BY <1>2
  <2>2. \A k \in 1 .. Len(reliable') : k + 1 # 1  BY <1>2
  <2>3. ~Live(m.id)  BY <1>2, <1>3 DEF IInv, Safe, OnePlace, Pos, IsFailed
  <2>4. \A k \in 1 .. Len(reliable') : reliable'[k].t = "failed" => reliable'[k].id # m.id
    BY <1>2, <1>3, <2>2 DEF IInv, Safe, OnePlace, Pos, IsFailed
  <2>5. \A x \in retry \cup delayed : x.id # m.id
    BY <1>2, <1>3 DEF IInv, Safe, OnePlace, Pos, IsFailed, Retries
  <2>6. (\A k \in Pos : IsFailed(k) => ~Live(reliable[k].id))'
    BY <1>2, <1>11, <1>13 DEF IInv, Safe, OnePlace, Pos, IsFailed
  <2>7. \A k, l \in 1 .. Len(reliable') :
           reliable'[k].t = "failed" /\ reliable'[l].t = "failed" =>
              (reliable'[k].id = reliable'[l].id => k = l)
    BY <1>1, TailFailedOnce
  <2>8. \A x \in (retry \cup delayed)' : ~Live(x.id)'
    BY <1>4, <1>6, <1>11, <1>12, <1>14, <2>3 DEF IInv, Safe, OnePlace, Retries
  <2>9. \A x \in (retry \cup delayed)' : \A k \in 1 .. Len(reliable') :
           reliable'[k].t = "failed" => reliable'[k].id # x.id
    BY <1>2, <1>6, <1>12, <2>4 DEF IInv, Safe, OnePlace, Pos, IsFailed, Retries
  <2>10. \A x, y \in (retry \cup delayed)' : x.id = y.id => x = y
    BY <1>6, <1>12, <2>5 DEF IInv, Safe, OnePlace, Retries
  <2>11. (retry \cap delayed)' = {}
    BY <1>5, <1>6, <2>5 DEF IInv, Safe, OnePlace
  <2> QED  BY <2>6, <2>7, <2>8, <2>9, <2>10, <2>11 DEF OnePlace, Pos, IsFailed, Retries
<1>17. FreshIds'
  <2>1. m.id < nextId  BY <1>2, <1>3 DEF IInv, Safe, FreshIds, Pos, IsFailed
  <2> QED  BY <1>2, <1>6, <1>9, <1>12, <2>1 DEF IInv, Safe, FreshIds, Pos, IsFailed, Retries
<1>18. NoByteOrphaned'
  <2>1. SUFFICES ASSUME Working', NEW b \in Bytes \ sent PROVE Held(b)'
    BY <1>1 DEF NoByteOrphaned
  <2>2. Held(b)  BY <1>1, <2>1 DEF IInv, Safe, NoByteOrphaned, Working
  <2>3. (retry \cup delayed)' = retry \cup delayed \cup {r}
    BY <1>5, <2>1 DEF Working, Causes
  <2>4. ASSUME NEW k \in 1 .. Len(reliable), Hands(reliable[k]), b \in Span(reliable[k])
        PROVE  Held(b)'
    <3>1. CASE k = 1
      BY <1>2, <1>6, <2>3, <2>4, <3>1 DEF Held, Span
    <3>2. CASE k # 1
      <4>1. k - 1 \in 1 .. Len(reliable') /\ reliable'[k - 1] = reliable[k]  BY <1>2, <3>2
      <4> QED  BY <2>4, <4>1 DEF Held, Hands
    <3> QED  BY <3>1, <3>2
  <2> QED  BY <1>9, <1>11, <2>2, <2>3, <2>4 DEF Held
<1> QED  BY <1>10, <1>15, <1>16, <1>17, <1>18 DEF IInv, Safe

\* The fields of a worker that has just been spawned.
LEMMA WorkerRecord ==
    ASSUME NEW s \in Nat, NEW e \in Nat
    PROVE  /\ Worker(s, e) \in ChunkType /\ Worker(s, e).pc = "req"
           /\ Worker(s, e).start = s /\ Worker(s, e).end = e /\ Worker(s, e).off = s
           /\ Worker(s, e).rep = 0
BY DEF Worker, NoChunk, ChunkType, PcType, ClsType

\* The split-off range moves from the event to a new worker or to the pending
\* buffer.
LEMMA BisectedStep ==
    ASSUME IInv, MonReliable, Head(reliable).t = "bisected"
    PROVE  IInv'
<1> DEFINE m == Head(reliable)
           r == [start |-> m.start, end |-> m.end]
<1>1. /\ reliable # <<>> /\ reliable' = Tail(reliable) /\ OnBisected(m) /\ result = "running"
      /\ UNCHANGED <<info, lost, stall, writer, sent>> /\ owed' = Ready
  BY DEF MonReliable
<1>2. /\ m = reliable[1] /\ m \in MsgType
      /\ reliable' \in Seq(MsgType) /\ Len(reliable') <= ReliableCap
      /\ Len(reliable) \in Nat /\ Len(reliable) >= 1 /\ Len(reliable') = Len(reliable) - 1
      /\ \A k \in 1 .. Len(reliable') :
            k + 1 \in 1 .. Len(reliable) /\ reliable'[k] = reliable[k + 1]
      /\ \A k \in 1 .. Len(reliable) :
            k = 1 \/ (k - 1 \in 1 .. Len(reliable') /\ reliable'[k - 1] = reliable[k])
  BY <1>1, TailFacts DEF IInv
<1>3. m.t = "bisected" /\ 1 \in 1 .. Len(reliable) /\ Hands(m)  BY <1>2 DEF Hands
<1> HIDE DEF m
<1>4. /\ m.id \in Ids /\ m.start \in Nat /\ m.end \in Nat
      /\ m.end < FileSize /\ m.start <= m.end + 1 /\ m.start >= 1
  BY <1>2, <1>3 DEF MsgType, IInv, Safe, RangesOK
<1>5. st' \in [Ids -> EntryType]
  <2>1. st \in [Ids -> EntryType] /\ st[m.id] \in EntryType
    BY <1>4 DEF IInv, TypeOK, EntryType
  <2>2. /\ st[m.id].start \in Nat /\ st[m.id].dl \in Nat /\ m.start - 1 \in Nat
    BY <1>4, <2>1 DEF EntryType
  <2>3. Smaller(st[m.id].dl, Size(st[m.id].start, m.start - 1)) \in Nat  BY <2>2, ArithTypes
  <2> DEFINE d == Smaller(st[m.id].dl, Size(st[m.id].start, m.start - 1))
             e == IF st[m.id].on THEN [st[m.id] EXCEPT !.end = m.start - 1, !.dl = d]
                  ELSE st[m.id]
  <2>4. e \in EntryType  BY <2>1, <2>2, <2>3 DEF EntryType
  <2>5. st' = [st EXCEPT ![m.id] = e]  BY <1>1 DEF OnBisected
  <2> QED  BY <1>4, <2>1, <2>4, <2>5
<1>6. UNCHANGED <<completed, retired, retry, delayed, attempts, total, result>>
  BY <1>1 DEF OnBisected, retryVars
<1>7. \A k \in 1 .. Len(reliable) : reliable[k].id \in Ids  BY ReliableFacts DEF IInv
<1>8. \A x \in retry \cup delayed : x.id \in Ids  BY DEF IInv, TypeOK, RangeType
<1>9. nextId \in Nat  BY ConstantTypes DEF IInv, TypeOK
<1>10. CASE Room > 0
  <2>1. /\ nextId \in Ids /\ lanes' = lanes \cup {nextId} /\ nextId' = nextId + 1
        /\ chunk' = [chunk EXCEPT ![nextId] = Worker(m.start, m.end)] /\ pending' = pending
    BY <1>1, <1>10 DEF OnBisected
  <2>0. PICK q \in Ids : q = nextId  BY <2>1
  <2> DEFINE w == Worker(m.start, m.end)
  <2>2. /\ w \in ChunkType /\ w.pc = "req"
        /\ w.start = m.start /\ w.end = m.end /\ w.off = m.start
    BY <1>4, WorkerRecord
  <2> HIDE DEF w
  <2>3. /\ chunk' \in [Ids -> ChunkType] /\ chunk'[q] = w
        /\ \A j \in Ids \ {q} : chunk'[j] = chunk[j]
    BY <2>0, <2>1, <2>2, ChunkFacts DEF IInv, w
  <2>4. nextId' \in 0 .. MaxIds /\ lanes' \subseteq Ids
    <3>1. nextId' \in 0 .. MaxIds  BY <1>9, <2>1, ConstantTypes DEF Ids
    <3>2. lanes' \subseteq Ids  BY <2>1 DEF IInv, TypeOK
    <3> QED  BY <3>1, <3>2
  <2>5. TypeOK'
    BY <1>1, <1>2, <1>5, <1>6, <2>1, <2>3, <2>4, ReadyType DEF IInv, TypeOK, EntryType
  <2>6. ~Live(q) /\ Live(q)' /\ \A j \in Ids \ {q} : Live(j)' <=> Live(j)
    <3>1. chunk[q].pc = "none"  BY <1>9, <2>0 DEF IInv, Safe, FreshIds
    <3> QED  BY <2>2, <2>3, <3>1 DEF Live
  <2>7. RangesOK'
    <3>1. \A j \in Ids : Live(j)' =>
            /\ chunk'[j].end < FileSize /\ chunk'[j].off <= chunk'[j].end + 1
            /\ chunk'[j].start <= chunk'[j].off
            /\ chunk'[j].pc \in {"finishing", "completing"} => chunk'[j].off > chunk'[j].end
            /\ chunk'[j].pc = "failing" => chunk'[j].cls # "none"
      BY <1>4, <2>2, <2>3, <2>6 DEF IInv, Safe, RangesOK
    <3> QED  BY <1>2, <1>6, <2>1, <3>1 DEF IInv, Safe, RangesOK, Hands
  <2>8. /\ \A k \in 1 .. Len(reliable) : reliable[k].t = "failed" => reliable[k].id < nextId
        /\ \A x \in retry \cup delayed : x.id < nextId
    BY DEF IInv, Safe, FreshIds, Pos, IsFailed, Retries
  <2>9. OnePlace'
    <3>1. \A k \in 1 .. Len(reliable') : reliable'[k].t = "failed" =>
             /\ reliable'[k].id \in Ids \ {q} /\ ~Live(reliable'[k].id)
      BY <1>1, <1>2, <1>9, <2>0, <2>8, TailFailedOnce
    <3>2. \A x \in retry \cup delayed : x.id \in Ids \ {q} /\ ~Live(x.id)
      BY <1>8, <1>9, <2>0, <2>8 DEF IInv, Safe, OnePlace, Retries
    <3>3. \A k, l \in 1 .. Len(reliable') :
             reliable'[k].t = "failed" /\ reliable'[l].t = "failed" =>
                (reliable'[k].id = reliable'[l].id => k = l)
      BY <1>1, TailFailedOnce
    <3>4. (\A k \in Pos : IsFailed(k) => ~Live(reliable[k].id))'
      BY <2>6, <3>1 DEF Pos, IsFailed
    <3>5. (\A x \in Retries : ~Live(x.id))'
      BY <1>6, <2>6, <3>2 DEF Retries
    <3>6. \A x \in retry \cup delayed : \A k \in 1 .. Len(reliable') :
             reliable'[k].t = "failed" => reliable'[k].id # x.id
      BY <1>1, TailFailedOnce DEF Retries
    <3>7. \A x, y \in retry \cup delayed : x.id = y.id => x = y
      BY DEF IInv, Safe, OnePlace, Retries
    <3>8. (retry \cap delayed)' = {}  BY <1>6 DEF IInv, Safe, OnePlace
    <3> QED  BY <1>6, <3>3, <3>4, <3>5, <3>6, <3>7, <3>8 DEF OnePlace, Pos, IsFailed, Retries
  <2>10. FreshIds'
    <3>1. \A j \in Ids : j >= nextId' => chunk'[j].pc = "none"
      BY <1>9, <2>0, <2>1, <2>3 DEF IInv, Safe, FreshIds, Ids
    <3>2. \A x \in retry \cup delayed : x.id < nextId'  BY <1>8, <1>9, <2>1, <2>8 DEF Ids
    <3>3. \A k \in 1 .. Len(reliable') : reliable'[k].t = "failed" => reliable'[k].id < nextId'
      BY <1>2, <1>7, <1>9, <2>1, <2>8 DEF Ids
    <3> QED  BY <1>6, <3>1, <3>2, <3>3 DEF FreshIds, Pos, IsFailed, Retries
  <2>11. NoByteOrphaned'
    <3>1. SUFFICES ASSUME NEW b \in Bytes \ sent PROVE Held(b)'
      BY <1>1 DEF NoByteOrphaned
    <3>2. Held(b)  BY <1>1 DEF IInv, Safe, NoByteOrphaned, Working
    <3>3. ASSUME NEW k \in 1 .. Len(reliable), Hands(reliable[k]), b \in Span(reliable[k])
          PROVE  Held(b)'
      <4>1. CASE k = 1
        BY <1>2, <2>2, <2>3, <2>6, <3>3, <4>1 DEF Held, Span
      <4>2. CASE k # 1
        <5>1. k - 1 \in 1 .. Len(reliable') /\ reliable'[k - 1] = reliable[k]  BY <1>2, <4>2
        <5> QED  BY <3>3, <5>1 DEF Held, Hands
      <4> QED  BY <4>1, <4>2
    <3>4. ASSUME NEW j \in Ids, Live(j), b \in chunk[j].off .. chunk[j].end  PROVE Held(b)'
      BY <2>3, <2>6, <3>4 DEF Held
    <3> QED  BY <1>6, <2>1, <3>2, <3>3, <3>4 DEF Held
  <2> QED  BY <2>5, <2>7, <2>9, <2>10, <2>11 DEF IInv, Safe
<1>11. CASE ~(Room > 0)
  <2>1. pending' = Append(pending, r) /\ UNCHANGED <<chunk, lanes, nextId>>
    BY <1>1, <1>11 DEF OnBisected, Buffered
  <2>2. pending \in Seq([start : Nat, end : Nat]) /\ r \in [start : Nat, end : Nat]
    BY <1>4 DEF IInv, TypeOK
  <2>3. r.start = m.start /\ r.end = m.end  OBVIOUS
  <2> HIDE DEF r
  <2> DEFINE n == Len(pending) + 1
  <2>4. /\ pending' \in Seq([start : Nat, end : Nat]) /\ Len(pending) \in Nat
        /\ Len(pending') = n /\ pending'[n] = r
        /\ \A k \in 1 .. Len(pending) : pending'[k] = pending[k]
        /\ \A k \in 1 .. n : k \in 1 .. Len(pending) \/ k = n
        /\ n \in 1 .. n
    BY <2>1, <2>2
  <2>5. TypeOK'
    BY <1>1, <1>2, <1>5, <1>6, <2>1, <2>4, ReadyType DEF IInv, TypeOK, EntryType
  <2>6. \A j \in Ids : Live(j)' <=> Live(j)  BY <2>1 DEF Live
  <2> HIDE DEF n
  <2>7. RangesOK'
    <3>1. \A k \in 1 .. Len(pending') :
             pending'[k].end < FileSize /\ pending'[k].start <= pending'[k].end + 1
      BY <1>4, <2>3, <2>4 DEF IInv, Safe, RangesOK
    <3>2. \A k \in 1 .. Len(reliable') : Hands(reliable'[k]) =>
            /\ reliable'[k].end < FileSize /\ reliable'[k].start <= reliable'[k].end + 1
            /\ reliable'[k].t = "failed" => reliable'[k].cls # "none"
            /\ reliable'[k].t = "bisected" => reliable'[k].start >= 1
      BY <1>2 DEF IInv, Safe, RangesOK, Hands
    <3>3. \A x \in (retry \cup delayed)' : x.end < FileSize /\ x.start <= x.end + 1
      BY <1>6 DEF IInv, Safe, RangesOK
    <3>4. \A j \in Ids : Live(j)' =>
            /\ chunk'[j].end < FileSize /\ chunk'[j].off <= chunk'[j].end + 1
            /\ chunk'[j].start <= chunk'[j].off
            /\ chunk'[j].pc \in {"finishing", "completing"} => chunk'[j].off > chunk'[j].end
            /\ chunk'[j].pc = "failing" => chunk'[j].cls # "none"
      BY <2>1, <2>6 DEF IInv, Safe, RangesOK
    <3> QED  BY <3>1, <3>2, <3>3, <3>4 DEF RangesOK, Hands
  <2>8. OnePlace'
    <3>1. (\A k \in Pos : IsFailed(k) => ~Live(reliable[k].id))'
      BY <1>1, <2>6, TailFailedOnce DEF Pos, IsFailed
    <3>2. /\ (\A x \in Retries : ~Live(x.id))'
          /\ (\A x, y \in Retries : x.id = y.id => x = y)'
          /\ (retry \cap delayed)' = {}
      BY <1>6, <1>8, <2>6 DEF IInv, Safe, OnePlace, Retries
    <3> QED  BY <1>1, <1>6, <3>1, <3>2, TailFailedOnce DEF OnePlace, Pos, IsFailed, Retries
  <2>9. FreshIds'
    BY <1>2, <1>6, <2>1 DEF IInv, Safe, FreshIds, Pos, IsFailed, Retries
  <2>10. NoByteOrphaned'
    <3>1. SUFFICES ASSUME NEW b \in Bytes \ sent PROVE Held(b)'
      BY <1>1 DEF NoByteOrphaned
    <3>2. Held(b)  BY <1>1 DEF IInv, Safe, NoByteOrphaned, Working
    <3>3. ASSUME NEW k \in 1 .. Len(reliable), Hands(reliable[k]), b \in Span(reliable[k])
          PROVE  Held(b)'
      <4>1. CASE k = 1
        BY <1>2, <2>3, <2>4, <3>3, <4>1 DEF Held, Span
      <4>2. CASE k # 1
        <5>1. k - 1 \in 1 .. Len(reliable') /\ reliable'[k - 1] = reliable[k]  BY <1>2, <4>2
        <5> QED  BY <3>3, <5>1 DEF Held, Hands
      <4> QED  BY <4>1, <4>2
    <3>4. ASSUME NEW k \in 1 .. Len(pending), b \in Span(pending[k])  PROVE Held(b)'
      <4>1. k \in 1 .. Len(pending') /\ pending'[k] = pending[k]  BY <2>4 DEF n
      <4> QED  BY <3>4, <4>1 DEF Held, Span
    <3> QED  BY <1>6, <2>1, <2>6, <3>2, <3>3, <3>4 DEF Held
  <2> QED  BY <2>5, <2>7, <2>8, <2>9, <2>10 DEF IInv, Safe
<1> QED  BY <1>10, <1>11

\* The four events of the reliable channel together.
LEMMA MonReliableStep ==
    ASSUME IInv, MonReliable  PROVE IInv'
BY ProgressStep, CompleteStep, FailedStep, BisectedStep DEF MonReliable

\* Buffered ranges have bounds in Nat.
LEMMA PendingFacts ==
    ASSUME TypeOK
    PROVE  \A k \in 1 .. Len(pending) : pending[k].start \in Nat /\ pending[k].end \in Nat
<1> DEFINE R == [start : Nat, end : Nat]
<1>1. pending \in Seq(R)  BY DEF TypeOK
<1> HIDE DEF R
<1>2. \A k \in 1 .. Len(pending) : pending[k] \in R  BY <1>1
<1> QED  BY <1>2 DEF R

\* Dropping the first d elements of a sequence.
LEMMA SuffixFacts ==
    ASSUME NEW S, NEW s \in Seq(S), NEW d \in Nat, d <= Len(s)
    PROVE  /\ SubSeq(s, d + 1, Len(s)) \in Seq(S)
           /\ Len(SubSeq(s, d + 1, Len(s))) = Len(s) - d
           /\ \A k \in 1 .. Len(s) - d : SubSeq(s, d + 1, Len(s))[k] = s[k + d]
OBVIOUS

\* drain_pending spawns no more workers than there are ranges and ids.
LEMMA DrainedFacts ==
    ASSUME TypeOK
    PROVE  /\ Drained \in Nat /\ Drained <= Len(pending) /\ nextId + Drained <= MaxIds
           /\ nextId \in Nat /\ MaxIds \in Nat /\ Len(pending) \in Nat
<1>1. /\ nextId \in 0 .. MaxIds /\ MaxIds \in Nat /\ Slots \in Nat
      /\ pending \in Seq([start : Nat, end : Nat]) /\ lanes \subseteq Ids
  BY ConstantTypes DEF TypeOK
<1>2. IsFiniteSet(Ids)
  <2>1. 0 \in Int /\ MaxIds - 1 \in Int  BY <1>1
  <2> QED  BY <2>1, FS_Interval DEF Ids
<1>3. IsFiniteSet(lanes)  BY <1>1, <1>2, FS_Subset
<1>4. Cardinality(lanes) \in Nat  BY <1>3, FS_CardinalityType
<1>5. Room \in Nat  BY <1>1, <1>4, ArithTypes DEF Room
<1>6. Len(pending) \in Nat /\ MaxIds - nextId \in Nat  BY <1>1
<1>7. Smaller(Len(pending), Room) \in Nat /\ Smaller(Len(pending), Room) <= Len(pending)
  BY <1>5, <1>6, ArithTypes
<1> DEFINE x == Smaller(Len(pending), Room)
<1> HIDE DEF x
<1>8. /\ Smaller(x, MaxIds - nextId) \in Nat /\ Smaller(x, MaxIds - nextId) <= x
      /\ Smaller(x, MaxIds - nextId) <= MaxIds - nextId
  BY <1>6, <1>7, ArithTypes DEF x
<1>9. Drained = Smaller(x, MaxIds - nextId)  BY DEF Drained, x
<1> QED  BY <1>1, <1>6, <1>7, <1>8, <1>9 DEF x

\* Drained ranges get fresh workers, retried ranges get their old id back;
\* every other worker keeps its state, but for a command.
LEMMA TickWorkers ==
    ASSUME IInv, NEW due, NEW go, NEW command \in Commands \cup {NoCommand},
           Tick(due, go, command)
    PROVE  LET fresh == nextId .. nextId + Drained - 1 IN
           /\ go \subseteq Retries
           /\ chunk' \in [Ids -> ChunkType]
           /\ \A j \in fresh :
                 /\ j \in Ids /\ j - nextId + 1 \in 1 .. Len(pending)
                 /\ chunk'[j].pc = "req" /\ chunk'[j].start = pending[j - nextId + 1].start
                 /\ chunk'[j].off = pending[j - nextId + 1].start
                 /\ chunk'[j].end = pending[j - nextId + 1].end /\ chunk'[j].rep = 0
           /\ \A r \in go :
                 /\ r.id \in Ids /\ r.id \notin fresh
                 /\ chunk'[r.id].pc = "req" /\ chunk'[r.id].start = r.start
                 /\ chunk'[r.id].off = r.start /\ chunk'[r.id].end = r.end /\ chunk'[r.id].rep = 0
           /\ \A j \in Ids : j \notin fresh /\ (\A r \in go : r.id # j) =>
                 /\ chunk'[j].pc = chunk[j].pc /\ chunk'[j].start = chunk[j].start
                 /\ chunk'[j].off = chunk[j].off /\ chunk'[j].end = chunk[j].end
                 /\ chunk'[j].cls = chunk[j].cls /\ chunk'[j].rep = chunk[j].rep
<1> DEFINE fresh == nextId .. nextId + Drained - 1
           again == {r.id : r \in go}
           old(i) == IF i = command[1] THEN [chunk[i] EXCEPT !.cmd = command[2]] ELSE chunk[i]
           new(i) == IF i \in fresh THEN Worker(pending[i - nextId + 1].start,
                                               pending[i - nextId + 1].end)
                     ELSE IF i \in again
                     THEN Worker((CHOOSE x \in go : x.id = i).start,
                                 (CHOOSE x \in go : x.id = i).end)
                     ELSE old(i)
<1>1. chunk' = [i \in Ids |-> new(i)]  BY DEF Tick
<1>2. go \subseteq Retries  BY DEF Tick, Retries
<1>3. /\ Drained \in Nat /\ Drained <= Len(pending) /\ nextId + Drained <= MaxIds
      /\ nextId \in Nat /\ MaxIds \in Nat /\ Len(pending) \in Nat
  BY DrainedFacts DEF IInv
<1> HIDE DEF new, old
<1>4. \A j \in fresh : j \in Ids /\ j - nextId + 1 \in 1 .. Len(pending)
  BY <1>3 DEF Ids
<1>5. \A r \in go : /\ r.id \in Ids /\ r.id < nextId /\ r.start \in Nat /\ r.end \in Nat
  BY <1>2 DEF IInv, Safe, FreshIds, TypeOK, RangeType, Retries
<1>6. \A r \in go : r.id \notin fresh  BY <1>3, <1>5 DEF Ids
<1>7. ASSUME NEW j \in fresh
      PROVE  /\ chunk'[j] \in ChunkType
             /\ chunk'[j].pc = "req" /\ chunk'[j].start = pending[j - nextId + 1].start
             /\ chunk'[j].off = pending[j - nextId + 1].start
             /\ chunk'[j].end = pending[j - nextId + 1].end /\ chunk'[j].rep = 0
  <2>3. pending[j - nextId + 1].start \in Nat /\ pending[j - nextId + 1].end \in Nat
    BY <1>4, PendingFacts DEF IInv
  <2>4. chunk'[j] = Worker(pending[j - nextId + 1].start, pending[j - nextId + 1].end)
    BY <1>1, <1>4 DEF new
  <2> QED  BY <2>3, <2>4, WorkerRecord
<1>8. ASSUME NEW r \in go
      PROVE  /\ chunk'[r.id] \in ChunkType
             /\ chunk'[r.id].pc = "req" /\ chunk'[r.id].start = r.start
             /\ chunk'[r.id].off = r.start /\ chunk'[r.id].end = r.end /\ chunk'[r.id].rep = 0
  <2>1. \A x \in go : x.id = r.id => x = r
    BY <1>2 DEF IInv, Safe, OnePlace
  <2>2. (CHOOSE x \in go : x.id = r.id) = r  BY <2>1
  <2>3. r.id \in again /\ r.id \notin fresh /\ r.id \in Ids  BY <1>5, <1>6
  <2>4. chunk'[r.id] = new(r.id)  BY <1>1, <2>3
  <2>5. new(r.id) = Worker((CHOOSE x \in go : x.id = r.id).start,
                           (CHOOSE x \in go : x.id = r.id).end)
    BY <2>3 DEF new
  <2>6. chunk'[r.id] = Worker(r.start, r.end)  BY <2>2, <2>4, <2>5
  <2> QED  BY <1>5, <2>6, WorkerRecord
<1>9. ASSUME NEW j \in Ids, j \notin fresh, \A r \in go : r.id # j
      PROVE  /\ chunk'[j] \in ChunkType
             /\ chunk'[j].pc = chunk[j].pc /\ chunk'[j].start = chunk[j].start
             /\ chunk'[j].off = chunk[j].off /\ chunk'[j].end = chunk[j].end
             /\ chunk'[j].cls = chunk[j].cls /\ chunk'[j].rep = chunk[j].rep
  <2>1. j \notin again  BY <1>9
  <2>2. chunk'[j] = old(j)  BY <1>1, <1>9, <2>1 DEF new
  <2>3. chunk[j] \in ChunkType  BY ChunkFacts DEF IInv
  <2>4. CASE j # command[1]  BY <2>2, <2>3, <2>4 DEF old
  <2>5. CASE j = command[1]
    <3>1. command \in Commands
      <4>1. NoCommand[1] = MaxIds /\ MaxIds \notin Ids  BY <1>3 DEF NoCommand, Ids
      <4> QED  BY <2>5, <4>1
    <3>2. command[2] \in {"bisect", "skew", "kill"}  BY <3>1 DEF Commands
    <3>3. chunk'[j] = [chunk[j] EXCEPT !.cmd = command[2]]  BY <2>2, <2>5 DEF old
    <3> QED  BY <2>3, <3>2, <3>3 DEF ChunkType
  <2> QED  BY <2>4, <2>5
<1>10. chunk' \in [Ids -> ChunkType]
  <2>1. ASSUME NEW j \in Ids  PROVE chunk'[j] \in ChunkType
    <3>1. CASE j \in fresh  BY <1>7, <3>1
    <3>2. CASE \E r \in go : r.id = j  BY <1>8, <3>2
    <3>3. CASE j \notin fresh /\ \A r \in go : r.id # j  BY <1>9, <3>3
    <3> QED  BY <3>1, <3>2, <3>3
  <2>2. \A j \in Ids : chunk'[j] = new(j)  BY <1>1
  <2> QED  BY <1>1, <2>1, <2>2
<1> QED  BY <1>2, <1>4, <1>5, <1>6, <1>7, <1>8, <1>9, <1>10

\* A tick moves buffered and due ranges to workers and drops none.
LEMMA TickStep ==
    ASSUME IInv, NEW due, NEW go, NEW command \in Commands \cup {NoCommand},
           Tick(due, go, command)
    PROVE  IInv'
<1> DEFINE fresh == nextId .. nextId + Drained - 1
           d == Drained
<1>1. /\ go \subseteq Retries
      /\ chunk' \in [Ids -> ChunkType]
      /\ \A j \in fresh :
            /\ j \in Ids /\ j - nextId + 1 \in 1 .. Len(pending)
            /\ chunk'[j].pc = "req" /\ chunk'[j].start = pending[j - nextId + 1].start
            /\ chunk'[j].off = pending[j - nextId + 1].start
            /\ chunk'[j].end = pending[j - nextId + 1].end
      /\ \A r \in go :
            /\ r.id \in Ids /\ r.id \notin fresh
            /\ chunk'[r.id].pc = "req" /\ chunk'[r.id].start = r.start
            /\ chunk'[r.id].off = r.start /\ chunk'[r.id].end = r.end
      /\ \A j \in Ids : j \notin fresh /\ (\A r \in go : r.id # j) =>
            /\ chunk'[j].pc = chunk[j].pc /\ chunk'[j].start = chunk[j].start
            /\ chunk'[j].off = chunk[j].off /\ chunk'[j].end = chunk[j].end
            /\ chunk'[j].cls = chunk[j].cls
  BY TickWorkers
<1>2. /\ d \in Nat /\ d <= Len(pending) /\ nextId + d <= MaxIds
      /\ nextId \in Nat /\ MaxIds \in Nat /\ Len(pending) \in Nat
  BY DrainedFacts DEF IInv
<1>3. /\ result = "running" /\ due \subseteq delayed /\ go \subseteq retry \cup due
      /\ pending' = SubSeq(pending, d + 1, Len(pending)) /\ nextId' = nextId + d
      /\ lanes' = lanes \cup fresh \cup {r.id : r \in go}
      /\ delayed' = delayed \ due /\ retry' = (retry \cup due) \ go
      /\ UNCHANGED <<reliable, info, lost, st, completed, retired, attempts, total, writer, sent>>
      /\ owed' = Ready
  BY DEF Tick, chanVars, ledgerVars
<1>4. stall' \in 0 .. StallTicks /\ result' \in {"ok", "stalled", "running"}
  <2>1. stall \in 0 .. StallTicks /\ StallTicks \in Nat  BY ConstantTypes DEF IInv, TypeOK
  <2>2. Smaller(stall + 1, StallTicks) \in 0 .. StallTicks  BY <2>1 DEF Smaller
  <2>3. stall' \in {stall, Smaller(stall + 1, StallTicks), 0}  BY DEF Tick
  <2>4. result' \in {"ok", "stalled", "running"}  BY DEF Tick
  <2> QED  BY <2>1, <2>2, <2>3, <2>4
<1> HIDE DEF d, fresh
<1>5. /\ pending' \in Seq([start : Nat, end : Nat]) /\ Len(pending') = Len(pending) - d
      /\ \A k \in 1 .. Len(pending) - d : pending'[k] = pending[k + d]
  <2>1. pending \in Seq([start : Nat, end : Nat])  BY DEF IInv, TypeOK
  <2> QED  BY <1>2, <1>3, <2>1, SuffixFacts
<1>6. \A j \in fresh : j \in Ids /\ j >= nextId /\ j < nextId + d  BY <1>1, <1>2 DEF fresh, d, Ids
<1>7. \A r \in Retries : r.id \in Ids /\ r.id < nextId
  BY DEF IInv, Safe, FreshIds, TypeOK, RangeType, Retries
<1>8. TypeOK'
  <2>1. lanes' \subseteq Ids  BY <1>1, <1>3, <1>6 DEF IInv, TypeOK
  <2>2. retry' \subseteq RangeType /\ delayed' \subseteq RangeType
    BY <1>3 DEF IInv, TypeOK
  <2>3. nextId' \in 0 .. MaxIds  BY <1>2, <1>3
  <2> QED  BY <1>1, <1>3, <1>4, <1>5, <2>1, <2>2, <2>3, ReadyType DEF IInv, TypeOK, Causes
<1>9. (retry \cup delayed)' = (retry \cup delayed) \ go
  BY <1>3 DEF IInv, Safe, OnePlace
<1>10. \A j \in Ids : Live(j)' =>
          \/ j \in fresh
          \/ \E r \in go : r.id = j
          \/ Live(j) /\ j \notin fresh /\ \A r \in go : r.id # j
  BY <1>1 DEF Live
<1>11. /\ \A j \in fresh : Live(j)'
       /\ \A r \in go : Live(r.id)'
  BY <1>1 DEF Live
<1>12. ASSUME NEW j \in Ids, Live(j)
       PROVE  j \notin fresh /\ (\A r \in go : r.id # j) /\ Live(j)'
  <2>1. j \notin fresh
    BY <1>2, <1>6, <1>12 DEF IInv, Safe, FreshIds, Live
  <2>2. \A r \in go : r.id # j  BY <1>1, <1>12 DEF IInv, Safe, OnePlace
  <2>3. Live(j)'  BY <1>1, <1>12, <2>1, <2>2 DEF Live
  <2> QED  BY <2>1, <2>2, <2>3
<1>13. RangesOK'
  <2>1. ASSUME NEW j \in Ids, Live(j)'
        PROVE  /\ chunk'[j].end < FileSize /\ chunk'[j].off <= chunk'[j].end + 1
               /\ chunk'[j].start <= chunk'[j].off
               /\ chunk'[j].pc \in {"finishing", "completing"} => chunk'[j].off > chunk'[j].end
               /\ chunk'[j].pc = "failing" => chunk'[j].cls # "none"
    <3>1. CASE j \in fresh
      <4>1. pending[j - nextId + 1].start \in Nat
        BY <1>1, <3>1, PendingFacts DEF IInv
      <4> QED  BY <1>1, <3>1, <4>1 DEF IInv, Safe, RangesOK
    <3>2. CASE \E r \in go : r.id = j
      <4>1. PICK r \in go : r.id = j  BY <3>2
      <4>2. r.start \in Nat /\ r \in retry \cup delayed
        BY <1>1, <4>1 DEF IInv, TypeOK, RangeType, Retries
      <4> QED  BY <1>1, <4>1, <4>2 DEF IInv, Safe, RangesOK
    <3>3. CASE Live(j) /\ j \notin fresh /\ \A r \in go : r.id # j
      BY <1>1, <3>3 DEF IInv, Safe, RangesOK
    <3> QED  BY <1>10, <2>1, <3>1, <3>2, <3>3
  <2>2. \A k \in 1 .. Len(pending') :
           pending'[k].end < FileSize /\ pending'[k].start <= pending'[k].end + 1
    <3>1. \A k \in 1 .. Len(pending') : k + d \in 1 .. Len(pending) /\ pending'[k] = pending[k + d]
      BY <1>2, <1>5
    <3> QED  BY <3>1 DEF IInv, Safe, RangesOK
  <2>3. \A r \in (retry \cup delayed)' : r.end < FileSize /\ r.start <= r.end + 1
    BY <1>9 DEF IInv, Safe, RangesOK
  <2> QED  BY <1>3, <2>1, <2>2, <2>3 DEF IInv, Safe, RangesOK, Hands
<1>14. OnePlace'
  <2>1. ASSUME NEW k \in 1 .. Len(reliable), reliable[k].t = "failed"
        PROVE  /\ reliable[k].id \in Ids
               /\ ~Live(reliable[k].id) /\ reliable[k].id \notin fresh
               /\ \A r \in go : r.id # reliable[k].id
    <3>1. reliable[k].id \in Ids /\ reliable[k].id < nextId
      BY <2>1, ReliableFacts DEF IInv, Safe, FreshIds, Pos, IsFailed
    <3>2. reliable[k].id \notin fresh  BY <1>2, <1>6, <3>1 DEF Ids
    <3>3. ~Live(reliable[k].id) /\ \A r \in go : r.id # reliable[k].id
      BY <1>1, <2>1 DEF IInv, Safe, OnePlace, Pos, IsFailed
    <3> QED  BY <3>1, <3>2, <3>3
  <2>2. (\A k \in Pos : IsFailed(k) => ~Live(reliable[k].id))'
    BY <1>3, <1>10, <2>1 DEF Pos, IsFailed
  <2>3. ASSUME NEW r \in (retry \cup delayed) \ go
        PROVE  r.id \in Ids /\ ~Live(r.id) /\ r.id \notin fresh /\ \A x \in go : x.id # r.id
    <3>1. r.id \in Ids /\ r.id < nextId  BY <1>7 DEF Retries
    <3>2. r.id \notin fresh  BY <1>2, <1>6, <3>1 DEF Ids
    <3>3. ~Live(r.id)  BY DEF IInv, Safe, OnePlace, Retries
    <3>4. \A x \in go : x.id # r.id  BY <1>1 DEF IInv, Safe, OnePlace, Retries
    <3> QED  BY <3>1, <3>2, <3>3, <3>4
  <2>4. (\A r \in Retries : ~Live(r.id))'
    BY <1>9, <1>10, <2>3 DEF Retries
  <2>5. (retry \cap delayed)' = {}  BY <1>3 DEF IInv, Safe, OnePlace
  <2> QED  BY <1>3, <1>9, <2>2, <2>4, <2>5 DEF IInv, Safe, OnePlace, Pos, IsFailed, Retries
<1>15. FreshIds'
  <2>1. ASSUME NEW j \in Ids, j >= nextId'  PROVE chunk'[j].pc = "none"
    <3>1. j >= nextId /\ j \notin fresh  BY <1>2, <1>3, <1>6, <2>1 DEF Ids
    <3>2. \A r \in go : r.id # j  BY <1>1, <1>2, <1>7, <3>1 DEF Ids
    <3> QED  BY <1>1, <3>1, <3>2 DEF IInv, Safe, FreshIds
  <2>2. \A r \in Retries : r.id < nextId'  BY <1>2, <1>3, <1>7 DEF Ids
  <2>3. \A k \in 1 .. Len(reliable) : reliable[k].t = "failed" => reliable[k].id < nextId'
    <3>1. \A k \in 1 .. Len(reliable) : reliable[k].t = "failed" =>
             reliable[k].id \in Ids /\ reliable[k].id < nextId
      BY ReliableFacts DEF IInv, Safe, FreshIds, Pos, IsFailed
    <3> QED  BY <1>2, <1>3, <3>1 DEF Ids
  <2> QED  BY <1>3, <1>9, <2>1, <2>2, <2>3 DEF FreshIds, Pos, IsFailed, Retries
<1>16. NoByteOrphaned'
  <2>1. SUFFICES ASSUME NEW b \in Bytes \ sent PROVE Held(b)'
    BY <1>3 DEF NoByteOrphaned
  <2>2. Held(b)  BY <1>3 DEF IInv, Safe, NoByteOrphaned, Working
  <2>3. ASSUME NEW j \in Ids, Live(j), b \in chunk[j].off .. chunk[j].end  PROVE Held(b)'
    BY <1>1, <1>12, <2>3 DEF Held
  <2>4. ASSUME NEW r \in retry \cup delayed, b \in Span(r)  PROVE Held(b)'
    <3>1. CASE r \in go
      BY <1>1, <1>11, <2>4, <3>1 DEF Held, Span
    <3>2. CASE r \notin go
      BY <1>9, <2>4, <3>2 DEF Held, Span
    <3> QED  BY <3>1, <3>2
  <2>5. ASSUME NEW k \in 1 .. Len(pending), b \in Span(pending[k])  PROVE Held(b)'
    <3>1. CASE k <= d
      <4> DEFINE j == nextId + k - 1
      <4>1. j \in fresh /\ j - nextId + 1 = k  BY <1>2, <3>1 DEF fresh, d
      <4>2. j \in Ids /\ chunk'[j].off = pending[k].start /\ chunk'[j].end = pending[k].end
        BY <1>1, <4>1
      <4>3. chunk'[j].pc = "req"  BY <1>1, <4>1
      <4>4. \E i \in Ids : chunk'[i].pc = "req" /\ b \in chunk'[i].off .. chunk'[i].end
        BY <2>5, <4>2, <4>3 DEF Span
      <4> QED  BY <4>4 DEF Held, Live
    <3>2. CASE k > d
      <4>1. k - d \in 1 .. Len(pending') /\ pending'[k - d] = pending[k]
        <5>1. k - d \in 1 .. Len(pending) - d  BY <1>2, <3>2
        <5>2. pending'[k - d] = pending[(k - d) + d]  BY <1>5, <5>1
        <5>3. (k - d) + d = k  BY <1>2
        <5> QED  BY <1>5, <5>1, <5>2, <5>3
      <4> QED  BY <2>5, <4>1 DEF Held, Span
    <3> QED  BY <1>2, <3>1, <3>2
  <2>6. ASSUME NEW k \in 1 .. Len(reliable), Hands(reliable[k]), b \in Span(reliable[k])
        PROVE  Held(b)'
    BY <1>3, <2>6 DEF Held, Hands
  <2> QED  BY <2>2, <2>3, <2>4, <2>5, <2>6 DEF Held
<1> QED  BY <1>8, <1>13, <1>14, <1>15, <1>16 DEF IInv, Safe
-----------------------------------------------------------------------------
(* The theorems *)

\* The initial ranges lie inside the file.
LEMMA InitRangeFacts ==
    \A k \in 1 .. Len(InitRanges) :
       /\ InitRanges[k].start \in Nat /\ InitRanges[k].end \in Nat
       /\ InitRanges[k].start <= InitRanges[k].end /\ InitRanges[k].end < FileSize
<1> DEFINE R == [start : Nat, end : Nat]
<1>1. InitRanges \in Seq(R)  BY InitRangesAssumption
<1> HIDE DEF R
<1>2. \A k \in 1 .. Len(InitRanges) : InitRanges[k] \in R  BY <1>1
<1> QED  BY <1>2, InitRangesAssumption DEF R

\* At the start each missing byte is in a worker's range or in the buffer.
LEMMA InitStep ==
    ASSUME Init  PROVE IInv
<1> DEFINE n == Smaller(Len(InitRanges), Slots)
           W(i) == Worker(InitRanges[i + 1].start, InitRanges[i + 1].end)
<1>1. /\ InitRanges \in Seq([start : Nat, end : Nat]) /\ Len(InitRanges) \in Nat
      /\ Len(InitRanges) <= MaxIds /\ MaxIds \in Nat /\ Slots \in Nat
  BY InitRangesAssumption, ConstantTypes
<1>2. n \in Nat /\ n <= Len(InitRanges) /\ n <= MaxIds  BY <1>1 DEF Smaller
<1> HIDE DEF n
<1>3. /\ chunk = [i \in Ids |-> IF i < n THEN W(i) ELSE NoChunk]
      /\ reliable = <<>> /\ info = <<>> /\ lost = FALSE
      /\ st = [i \in Ids |-> NoEntry]
      /\ completed = InitCompleted
      /\ retired = {} /\ lanes = 0 .. n - 1
      /\ pending = SubSeq(InitRanges, n + 1, Len(InitRanges))
      /\ retry = {} /\ delayed = {}
      /\ attempts = [i \in Ids |-> 0] /\ total = [i \in Ids |-> 0]
      /\ nextId = n /\ stall = 0 /\ owed = "any" /\ result = "starting"
      /\ writer = "open" /\ sent = Bytes \ Wanted
  BY DEF Init, n
<1>4. \A i \in Ids : i < n => i + 1 \in 1 .. Len(InitRanges)  BY <1>1, <1>2 DEF Ids
<1>5. \A i \in Ids : i < n =>
         /\ W(i) \in ChunkType /\ W(i).pc = "req"
         /\ W(i).start = InitRanges[i + 1].start /\ W(i).off = InitRanges[i + 1].start
         /\ W(i).end = InitRanges[i + 1].end
  BY <1>4, InitRangeFacts, WorkerRecord
<1> HIDE DEF W
<1>6. NoChunk \in ChunkType /\ NoChunk.pc = "none" /\ NoEntry \in EntryType
  BY DEF NoChunk, NoEntry, ChunkType, PcType, ClsType, EntryType
<1>7. \A i \in Ids : (IF i < n THEN W(i) ELSE NoChunk) \in ChunkType  BY <1>5, <1>6
<1>8. /\ chunk \in [Ids -> ChunkType]
      /\ \A i \in Ids : chunk[i] = IF i < n THEN W(i) ELSE NoChunk
  BY <1>3, <1>7
<1>9. /\ pending \in Seq([start : Nat, end : Nat]) /\ Len(pending) = Len(InitRanges) - n
      /\ \A k \in 1 .. Len(InitRanges) - n : pending[k] = InitRanges[k + n]
  BY <1>1, <1>2, <1>3, SuffixFacts
<1>10. TypeOK
  <2>1. reliable \in Seq(MsgType) /\ Len(reliable) <= ReliableCap
    BY <1>3, ConstantTypes
  <2>2. info \in Seq(MsgType) /\ Len(info) <= InfoCap  BY <1>3, ConstantTypes
  <2>3. st \in [Ids -> EntryType] /\ attempts \in [Ids -> Nat] /\ total \in [Ids -> Nat]
    BY <1>3, <1>6
  <2>4. lanes \subseteq Ids /\ retired \subseteq Ids /\ retry \subseteq RangeType
        /\ delayed \subseteq RangeType
    BY <1>1, <1>2, <1>3 DEF Ids
  <2>5. completed \in Nat  BY <1>3, InitCompletedAssumption
  <2>6. nextId \in 0 .. MaxIds /\ stall \in 0 .. StallTicks
    BY <1>1, <1>2, <1>3, ConstantTypes
  <2>7. /\ lost \in BOOLEAN /\ owed \in {"reliable", "join", "info", "any"}
        /\ result \in {"starting", "running", "ok"} \cup Causes
        /\ writer \in {"open", "closed"} /\ sent \subseteq Bytes
    BY <1>3
  <2> QED  BY <1>8, <1>9, <2>1, <2>2, <2>3, <2>4, <2>5, <2>6, <2>7 DEF TypeOK, EntryType
<1>11. \A i \in Ids : Live(i) <=> i < n  BY <1>5, <1>6, <1>8 DEF Live
<1>12. Len(reliable) = 0 /\ retry \cup delayed = {}  BY <1>3
<1>13. \A k \in 1 .. Len(pending) : k + n \in 1 .. Len(InitRanges)  BY <1>1, <1>2, <1>9
<1>14. RangesOK
  <2>1. \A i \in Ids : Live(i) =>
          /\ chunk[i].end < FileSize /\ chunk[i].off <= chunk[i].end + 1
          /\ chunk[i].start <= chunk[i].off
          /\ chunk[i].pc = "req"
    BY <1>4, <1>5, <1>8, <1>11, InitRangeFacts
  <2>2. \A k \in 1 .. Len(pending) :
          pending[k].end < FileSize /\ pending[k].start <= pending[k].end + 1
    BY <1>9, <1>13, InitRangeFacts
  <2> QED  BY <1>12, <2>1, <2>2 DEF RangesOK
<1>15. OnePlace  BY <1>3, <1>12 DEF OnePlace, Pos, Retries
<1>16. FreshIds
  <2>1. \A i \in Ids : i >= nextId => chunk[i].pc = "none"
    BY <1>2, <1>3, <1>6, <1>8 DEF Ids
  <2> QED  BY <1>12, <2>1 DEF FreshIds, Pos, Retries
<1>17. NoByteOrphaned
  <2>1. SUFFICES ASSUME NEW b \in Bytes \ sent PROVE Held(b)  BY DEF NoByteOrphaned
  <2>2. PICK k \in 1 .. Len(InitRanges) : b \in Span(InitRanges[k])  BY <1>3 DEF Wanted
  <2>3. CASE k <= n
    <3> DEFINE i == k - 1
    <3>1. i \in Ids /\ i < n /\ i + 1 = k  BY <1>1, <1>2, <2>3 DEF Ids
    <3>2. chunk[i].off = InitRanges[k].start /\ chunk[i].end = InitRanges[k].end
      BY <1>5, <1>8, <3>1
    <3>3. Live(i) /\ b \in chunk[i].off .. chunk[i].end  BY <1>11, <2>2, <3>1, <3>2 DEF Span
    <3> QED  BY <3>1, <3>3 DEF Held
  <2>4. CASE k > n
    <3>1. k - n \in 1 .. Len(InitRanges) - n  BY <1>1, <1>2, <2>4
    <3>2. pending[k - n] = InitRanges[(k - n) + n]  BY <1>9, <3>1
    <3>3. (k - n) + n = k  BY <1>2
    <3>4. k - n \in 1 .. Len(pending) /\ b \in Span(pending[k - n])
      BY <1>9, <2>2, <3>1, <3>2, <3>3
    <3> QED  BY <3>4 DEF Held
  <2> QED  BY <1>2, <2>3, <2>4
<1> QED  BY <1>10, <1>14, <1>15, <1>16, <1>17 DEF IInv, Safe

\* Every step of the system keeps the inductive invariant.
LEMMA NextStep ==
    ASSUME IInv, [Next]_vars  PROVE IInv'
<1>1. ASSUME NEW i \in Ids, WorkerStep(i)  PROVE IInv'
  <2>1. CASE \E n \in Pieces : Data(i, n)  BY <2>1, DataStep
  <2>2. CASE Bisect(i)  BY <2>2, BisectStep
  <2>3. CASE FailSend(i)  BY <2>3, FailSendStep
  <2>4. CASE FinalProgress(i)  BY <2>4, FinalProgressStep
  <2>5. CASE SendComplete(i)  BY <2>5, SendCompleteStep
  <2>6. CASE Terminate(i)  BY <2>6, TerminateStep
  <2> QED  BY <1>1, <2>1, <2>2, <2>3, <2>4, <2>5, <2>6, QuietWorkerSteps DEF WorkerStep
<1>2. ASSUME NEW i \in Ids, MonJoin(i)  PROVE IInv'  BY <1>2, MonJoinStep
<1>3. CASE WriterDies  BY <1>3, WriterDiesStep
<1>4. CASE Subscribe  BY <1>4, SubscribeStep
<1>5. CASE MonReliable  BY <1>5, MonReliableStep
<1>6. CASE MonInfo  BY <1>6, MonInfoStep
<1>7. CASE SomeTick  BY <1>7, TickStep DEF SomeTick
<1>8. CASE Finished  BY <1>8, StutterStep DEF Finished
<1>9. CASE UNCHANGED vars  BY <1>9, StutterStep
<1> QED  BY <1>1, <1>2, <1>3, <1>4, <1>5, <1>6, <1>7, <1>8, <1>9 DEF Next

\* The inductive invariant: types, well-placed ranges, one holder per range,
\* unused ids, and no byte without a holder.
THEOREM Invariance == Spec => []IInv
<1>1. Init => IInv  BY InitStep
<1>2. IInv /\ [Next]_vars => IInv'  BY NextStep
<1> QED  BY <1>1, <1>2, PTL DEF Spec

\* Types and capacities hold in every reachable state.
THEOREM TypeCorrect == Spec => []TypeOK
<1>1. IInv => TypeOK  BY DEF IInv
<1> QED  BY <1>1, Invariance, PTL

\* No interleaving of splits, failures, retries, full lanes and lost progress
\* leaves a byte that nobody will fetch while the download runs.
THEOREM NothingOrphaned == Spec => []NoByteOrphaned
<1>1. IInv => NoByteOrphaned  BY DEF IInv, Safe
<1> QED  BY <1>1, Invariance, PTL
=============================================================================

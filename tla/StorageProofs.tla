--------------------------- MODULE StorageProofs ---------------------------
(***************************************************************************)
(* Proofs about the disk side of a download, for every file size, segment  *)
(* size, buffer length, channel capacity and number of sessions and faults *)
(* of every kind but a change of the file on the server.                   *)
(***************************************************************************)
EXTENDS Storage, TLAPS, FiniteSetTheorems

\* The server gives a Content-Length and never replaces the file.
SameFile == Known /\ "remote" \notin Faults

Sealed(s) == [p \in Seg(s) |-> 1]      \* the hash of a segment as served
Good(p)   == p < len /\ data[p] = 1    \* byte p is on disk

\* A buffer holds bytes of the file as served.
Right(b) == Extent(b) \subseteq Bytes /\ \A k \in 1 .. Len(b.bytes) : b.bytes[k] = 1

\* Everything on its way to the disk is right.
BuffersRight ==
    Right(buffer) /\ Right(held.b) /\ \A k \in 1 .. Len(chan) : Right(chan[k].b)

\* No recorded hash, persisted or in memory, is of anything but served content.
HashesRight ==
    \A s \in Segs : /\ saved[s] # NoHash => saved[s] = Sealed(s)
                    /\ rec[s] # NoHash => rec[s] = Sealed(s)

\* A plan that keeps the file trusts only what is there.
PlanRight ==
    pc = "prepared" =>
        /\ \A s \in Segs : cov[s] \subseteq trusted
        /\ truncate => trusted = {}
        /\ ~truncate => exists /\ \A p \in trusted : Good(p)

\* What the writer counts as written, or was told to trust, is on disk, and the
\* recorder counts nothing else.
CoverRight ==
    pc = "running" =>
        /\ exists
        /\ \A p \in written \cup trusted : Good(p)
        /\ \A s \in Segs : cov[s] \subseteq written \cup trusted
        /\ wpc = "record" => Extent(buffer) \subseteq written
        /\ wpc = "done" /\ ~werr => Bytes \subseteq written \cup trusted

OneAtATime == (wpc # "off") <=> (pc = "running")

IInv ==
    /\ TypeOK /\ remote = 1 /\ OneAtATime
    /\ BuffersRight /\ HashesRight /\ PlanRight /\ CoverRight /\ OkIsWhole

\* TypeOK in two parts: the Boolean variables and the others.
Flags ==
    /\ exists \in BOOLEAN /\ on \in BOOLEAN /\ truncate \in BOOLEAN
    /\ werr \in BOOLEAN /\ clean \in BOOLEAN
Sized ==
    /\ len \in 0 .. MaxLen /\ data \in [Pos -> Content]
    /\ side \in {"none", "bad", "ok"}
    /\ \A s \in Segs : saved[s] = NoHash \/ saved[s] \in [Seg(s) -> Content]
    /\ pc \in {"down", "prepared", "running"} /\ session \in 0 .. MaxSessions
    /\ todo \subseteq Bytes /\ trusted \subseteq Bytes
    /\ verdict \in {"running", "ok", "err", "dropped"}
    /\ chan \in Seq(CmdType) /\ Len(chan) <= QueueCap
    /\ wpc \in {"off", "recv", "write", "record", "save", "exit", "gate", "done"}
    /\ held \in CmdType /\ buffer \in BufferType
    /\ written \subseteq Bytes
    /\ \A s \in Segs : rec[s] = NoHash \/ rec[s] \in [Seg(s) -> Content]
    /\ cov \in [Segs -> SUBSET Bytes] /\ dirty \in Nat
    /\ remote \in Versions /\ result \in {"none", "ok", "err", "aborted"}
    /\ faults \in 0 .. MaxFaults
-----------------------------------------------------------------------------
(* Facts about the operators *)

\* The two parts together.
LEMMA TypeParts == TypeOK <=> Flags /\ Sized
BY Zenon DEF TypeOK, Flags, Sized

\* The two parts together, in the next state.
LEMMA TypePartsPrime == TypeOK' <=> Flags' /\ Sized'
BY TypeParts, PTL

\* The constants are the numbers the arithmetic below needs.
LEMMA ConstantFacts ==
    /\ FileSize \in Nat /\ FileSize > 0 /\ SegSize \in Nat /\ SegSize > 0
    /\ MaxLen \in Nat /\ FileSize <= MaxLen /\ QueueCap \in Nat /\ QueueCap > 0
    /\ Lens \subseteq Nat \ {0} /\ MaxSessions \in Nat /\ MaxFaults \in Nat
    /\ Versions \subseteq Nat \ {0} /\ 1 \in Versions /\ Bytes \subseteq Pos
    /\ InitLens \subseteq 0 .. MaxLen /\ InitSides \subseteq {"none", "bad"}
BY StorageAssumption DEF Bytes, Pos

\* Segments are parts of the file.
LEMMA SegFacts ==
    ASSUME NEW s \in Segs  PROVE Seg(s) \subseteq Bytes /\ Seg(s) \subseteq Pos
<1>1. s \in Nat /\ SegSize \in Nat  BY ConstantFacts DEF Segs
<1>2. s * SegSize \in Nat  BY <1>1
<1>3. (s + 1) * SegSize \in Nat  BY <1>1
<1> DEFINE a == s * SegSize
           b == (s + 1) * SegSize
<1>4. a \in Nat /\ b \in Nat  BY <1>2, <1>3
<1> HIDE DEF a, b
<1>5. a .. Smaller(b, FileSize) - 1 \subseteq Bytes
  BY <1>4, ConstantFacts DEF Smaller, Bytes
<1> QED  BY <1>5, ConstantFacts DEF Seg, a, b

\* There are finitely many segments.
LEMMA SegsFinite == IsFiniteSet(Segs)
<1> DEFINE n == ((FileSize + SegSize - 1) \div SegSize) - 1
<1>1. n \in Int  BY ConstantFacts
<1> HIDE DEF n
<1>2. IsFiniteSet(0 .. n)  BY <1>1, FS_Interval
<1> QED  BY <1>2 DEF Segs, n

\* The bytes a ledger records are bytes of the file.
LEMMA BytesOfFacts == ASSUME NEW h  PROVE BytesOf(h) \subseteq Bytes
BY SegFacts DEF BytesOf

\* A segment that is sealed has the type of a hash.
LEMMA SealedType == ASSUME NEW s \in Segs  PROVE Sealed(s) \in [Seg(s) -> Content]
BY ConstantFacts DEF Sealed, Content

\* The empty buffer is right.
LEMMA EmptyRight ==
    /\ Right(NoBuffer) /\ Right(NoCmd.b) /\ Right(TerminateAll.b) /\ Right(Closed.b)
    /\ NoBuffer \in BufferType /\ NoCmd \in CmdType
    /\ TerminateAll \in CmdType /\ Closed \in CmdType
<1>1. <<>> \in Seq(Content) /\ Len(<<>>) = 0  OBVIOUS
<1>2. NoBuffer \in BufferType /\ Right(NoBuffer)
  BY <1>1 DEF NoBuffer, BufferType, Right, Extent
<1>3. NoCmd \in CmdType /\ TerminateAll \in CmdType /\ Closed \in CmdType
  BY <1>2 DEF NoCmd, TerminateAll, Closed, CmdType
<1>4. NoCmd.b = NoBuffer /\ TerminateAll.b = NoBuffer /\ Closed.b = NoBuffer
  BY DEF NoCmd, TerminateAll, Closed
<1> QED  BY <1>2, <1>3, <1>4

\* A step that injects a fault keeps the count within its bound.
LEMMA FaultType ==
    ASSUME TypeOK, NEW k, Fault(k)
    PROVE  faults' \in 0 .. MaxFaults /\ clean' \in BOOLEAN
<1>1. clean' \in BOOLEAN  BY Zenon DEF Fault
<1>2. faults \in 0 .. MaxFaults  BY Zenon DEF TypeOK
<1>3. faults' = faults + 1 /\ faults < MaxFaults  BY Zenon DEF Fault
<1> QED  BY <1>1, <1>2, <1>3, ConstantFacts

\* Channel and buffers are left alone.
LEMMA SameBuffers ==
    ASSUME BuffersRight, chan' = chan, held' = held, buffer' = buffer
    PROVE  BuffersRight'
BY DEF BuffersRight

\* Sidecar and recorder are left alone.
LEMMA SameHashes ==
    ASSUME HashesRight, saved' = saved, rec' = rec  PROVE HashesRight'
BY DEF HashesRight
-----------------------------------------------------------------------------
(* Starting a session *)

\* Init.
LEMMA InitStep == ASSUME Init  PROVE IInv
<1> USE DEF Init
<1>1. data \in [Pos -> Content]  BY DEF Content
<1>2. <<>> \in Seq(CmdType) /\ Len(<<>>) = 0  OBVIOUS
<1>3. \A s \in Segs : saved[s] = NoHash /\ rec[s] = NoHash  BY DEF Blank
<1>4. TypeOK
  <2>1. Flags  BY Zenon DEF Flags
  <2>2. len \in {0} \cup InitLens  OBVIOUS
  <2>3. len \in 0 .. MaxLen  BY <2>2, ConstantFacts
  <2>4. cov \in [Segs -> SUBSET Bytes]  OBVIOUS
  <2>5. Sized  BY <1>1, <1>2, <1>3, <2>3, <2>4, EmptyRight, ConstantFacts DEF Sized
  <2> QED  BY <2>1, <2>5, TypeParts
<1>5. BuffersRight  BY <1>2, EmptyRight DEF BuffersRight
<1>6. HashesRight  BY <1>3 DEF HashesRight
<1> QED  BY <1>4, <1>5, <1>6 DEF IInv, OneAtATime, PlanRight, CoverRight, OkIsWhole

\* A plan whose ledger h is right, and whose trusted bytes are on disk when the
\* file is kept.
LEMMA PlanStep ==
    ASSUME IInv, NEW enabled \in BOOLEAN, NEW trunc \in BOOLEAN, NEW h,
           Plan(enabled, trunc, h),
           \A s \in Segs : h[s] # NoHash => h[s] = Sealed(s),
           \A s \in Segs : saved'[s] # NoHash => saved'[s] = Sealed(s),
           side' \in {"none", "bad", "ok"},
           faults' \in 0 .. MaxFaults, clean' \in BOOLEAN,
           trunc => \A s \in Segs : h[s] = NoHash,
           ~trunc => exists /\ \A p \in BytesOf(h) : Good(p)
    PROVE  IInv'
<1>1. BytesOf(h) \subseteq Bytes  BY BytesOfFacts
<1>2. \A s \in Segs : h[s] # NoHash => Seg(s) \subseteq BytesOf(h)  BY DEF BytesOf
<1>3. /\ cov' \in [Segs -> SUBSET Bytes]
      /\ \A s \in Segs : cov'[s] \subseteq BytesOf(h)
  BY <1>1, <1>2, SegFacts DEF Plan
<1>4. /\ \A s \in Segs : saved'[s] = NoHash \/ saved'[s] \in [Seg(s) -> Content]
      /\ \A s \in Segs : rec'[s] = NoHash \/ rec'[s] \in [Seg(s) -> Content]
  BY SealedType DEF Plan
<1>5. TypeOK'
  BY <1>1, <1>3, <1>4, ConstantFacts DEF IInv, TypeOK, Plan, fileVars
<1>6. BuffersRight'  BY DEF IInv, BuffersRight, Plan, Right, Extent
<1>7. HashesRight'  BY DEF Plan, HashesRight, Sealed
<1>8. trunc => BytesOf(h) = {}  BY DEF BytesOf
<1>9. PlanRight'
  BY <1>3, <1>8 DEF Plan, PlanRight, fileVars, Good
<1>10. (OneAtATime /\ CoverRight /\ OkIsWhole)'
  BY DEF IInv, OneAtATime, CoverRight, OkIsWhole, Plan
<1> QED  BY <1>5, <1>6, <1>7, <1>9, <1>10 DEF IInv, Plan

\* A fresh download trusts nothing.
LEMMA FreshSteps ==
    ASSUME IInv, PrepareOff \/ PrepareFresh  PROVE IInv'
<1>1. \A s \in Segs : Blank[s] = NoHash  BY DEF Blank
<1>2. faults' \in 0 .. MaxFaults /\ clean' \in BOOLEAN
  BY FaultType DEF IInv, TypeOK, PrepareOff, PrepareFresh
<1>3. /\ \A s \in Segs : saved'[s] # NoHash => saved'[s] = Sealed(s)
      /\ side' \in {"none", "bad", "ok"}
  BY <1>1 DEF PrepareOff, PrepareFresh, sideVars, IInv, HashesRight, TypeOK
<1>4. Plan(FALSE, TRUE, Blank) \/ Plan(TRUE, TRUE, Blank)
  BY DEF PrepareOff, PrepareFresh
<1> QED  BY <1>1, <1>2, <1>3, <1>4, PlanStep

\* A resumed one trusts the segments that still have their recorded hash.
LEMMA ResumeStep ==
    ASSUME IInv, PrepareResume  PROVE IInv'
<1> DEFINE h == Intact
<1>1. Plan(TRUE, FALSE, h) /\ saved' = h /\ exists /\ side' = side
      /\ faults' = faults /\ clean' = TRUE
  BY DEF PrepareResume
<1>2. \A s \in Segs : h[s] # NoHash => h[s] = Sealed(s) /\ saved[s] = h[s] /\ Verified(s)
  BY DEF IInv, HashesRight, Intact
<1>3. ASSUME NEW s \in Segs, h[s] # NoHash, NEW p \in Seg(s)  PROVE Good(p)
  <2>1. p \in 0 .. len - 1 /\ Sealed(s) = HashOf(s, data)
    BY <1>2, <1>3 DEF Verified
  <2>2. Sealed(s)[p] = 1 /\ HashOf(s, data)[p] = data[p]
    BY DEF Sealed, HashOf
  <2>3. len \in Nat  BY DEF IInv, TypeOK
  <2> QED  BY <2>1, <2>2, <2>3 DEF Good
<1>4. \A p \in BytesOf(h) : Good(p)  BY <1>3 DEF BytesOf
<1>5. faults' \in 0 .. MaxFaults /\ clean' \in BOOLEAN /\ side' \in {"none", "bad", "ok"}
  BY <1>1 DEF IInv, TypeOK
<1> HIDE DEF h
<1> QED  BY <1>1, <1>2, <1>4, <1>5, PlanStep

\* The file is opened, and truncated when nothing of it is trusted.
LEMMA OpenStep == ASSUME IInv, Open  PROVE IInv'
<1>1. data' \in [Pos -> Content] /\ len' \in 0 .. MaxLen
  BY ConstantFacts DEF Open, IInv, TypeOK, Content
<1>2. <<>> \in Seq(CmdType) /\ Len(<<>>) = 0  OBVIOUS
<1>3. TypeOK'
  <2>1. Flags /\ Sized  BY TypeParts DEF IInv
  <2>2. Flags'
    BY <2>1, Zenon DEF Open, StartWriter, Flags, planVars, faultVars
  <2>3. Sized'
    BY <1>1, <1>2, <2>1, EmptyRight, ConstantFacts
    DEF Open, StartWriter, Sized, sideVars, planVars, recVars, faultVars
  <2> QED  BY <2>2, <2>3, TypePartsPrime
<1>4. BuffersRight'
  BY <1>2, EmptyRight DEF Open, StartWriter, BuffersRight, Right, Extent
<1>5. HashesRight'
  BY DEF Open, IInv, HashesRight, sideVars, recVars, Sealed
<1>6. \A p \in trusted : Good(p)'
  BY DEF Open, IInv, PlanRight, Good
<1>7. CoverRight'
  BY <1>6 DEF Open, StartWriter, IInv, PlanRight, CoverRight, planVars, recVars
<1>8. (OneAtATime /\ PlanRight /\ OkIsWhole)' /\ remote' = 1
  BY DEF Open, StartWriter, IInv, OneAtATime, PlanRight, OkIsWhole
<1> QED  BY <1>3, <1>4, <1>5, <1>7, <1>8 DEF IInv

\* A session that ends before the file is opened leaves the file alone and adds
\* no hash to the sidecar.
LEMMA FailedStarts ==
    ASSUME IInv, PrepareFails \/ OpenFails  PROVE IInv'
<1> USE DEF PrepareFails, OpenFails, fileVars, sideVars, planVars, writerVars, recVars,
            transferVars
<1>1. faults' \in 0 .. MaxFaults /\ clean' \in BOOLEAN  BY FaultType DEF IInv
<1>2. TypeOK'
  <2>1. Flags /\ Sized  BY TypeParts DEF IInv
  <2>2. Flags'  BY <1>1, <2>1, Zenon DEF Flags
  <2>3. /\ UNCHANGED <<len, data, side, todo, trusted, verdict, chan, wpc, held,
                       buffer, written, rec, cov, dirty, remote>>
        /\ pc' \in {"down", pc} /\ result' = "err"
    BY Zenon
  <2>4. session' = session \/ (session < MaxSessions /\ session' = session + 1)
    BY Zenon
  <2>5. session' \in 0 .. MaxSessions  BY <2>1, <2>4, ConstantFacts DEF Sized
  <2>6. saved' \in {saved, Intact}  BY Zenon
  <2>7. \A s \in Segs : saved'[s] = NoHash \/ saved'[s] = saved[s]
    BY <2>6 DEF Intact
  <2>8. \A s \in Segs : saved'[s] = NoHash \/ saved'[s] \in [Seg(s) -> Content]
    BY <2>1, <2>7 DEF Sized
  <2>9. Sized'  BY <1>1, <2>1, <2>3, <2>5, <2>8 DEF Sized, Seg
  <2> QED  BY <2>2, <2>9, TypePartsPrime
<1>3. BuffersRight' /\ HashesRight'
  <2>1. UNCHANGED <<rec, chan, held, buffer>> /\ saved' \in {saved, Intact}  BY Zenon
  <2>2. HashesRight'  BY <2>1 DEF IInv, HashesRight, Intact, Sealed
  <2> QED  BY <2>2, SameBuffers DEF IInv
<1>4. (OneAtATime /\ PlanRight /\ CoverRight /\ OkIsWhole)' /\ remote' = 1
  BY DEF IInv, OneAtATime, PlanRight, CoverRight, OkIsWhole
<1> QED  BY <1>2, <1>3, <1>4 DEF IInv
-----------------------------------------------------------------------------
(* The transfer *)

\* While the session runs, four parts of the invariant are at stake.
LEMMA MidStep ==
    ASSUME IInv, pc = "running", pc' = pc, remote' = remote, wpc' # "off",
           TypeOK', BuffersRight', HashesRight', CoverRight'
    PROVE  IInv'
BY DEF IInv, OneAtATime, PlanRight, OkIsWhole

\* File, ledger and writer's position are left alone.
LEMMA SameCover ==
    ASSUME CoverRight,
           UNCHANGED <<pc, exists, len, data, written, trusted, cov, werr, wpc, buffer>>
    PROVE  CoverRight'
BY DEF CoverRight, Good

\* The writer moves on, the file and the ledger are left alone.
LEMMA MovedCover ==
    ASSUME CoverRight,
           UNCHANGED <<pc, exists, len, data, written, trusted, cov>>,
           wpc' \notin {"record", "done"}
    PROVE  CoverRight'
BY DEF CoverRight, Good

\* One more command fits into the channel.
LEMMA AppendStep ==
    ASSUME TypeOK, BuffersRight, NEW m \in CmdType, Right(m.b), Space,
           chan' = Append(chan, m), UNCHANGED <<held, buffer>>
    PROVE  chan' \in Seq(CmdType) /\ Len(chan') <= QueueCap /\ BuffersRight'
<1>1. chan \in Seq(CmdType)  BY DEF TypeOK
<1>2. chan' \in Seq(CmdType) /\ Len(chan') <= QueueCap
  BY <1>1, ConstantFacts DEF Space
<1>3. \A k \in 1 .. Len(chan') : Right(chan'[k].b)
  BY <1>1 DEF BuffersRight
<1> QED  BY <1>2, <1>3 DEF BuffersRight

\* A worker hands over bytes as served.
LEMMA HandoverStep ==
    ASSUME IInv, NEW o \in Bytes, NEW n \in Lens, Handover(o, n)  PROVE IInv'
<1> DEFINE q == [k \in 1 .. n |-> remote]
           b == [off |-> o, bytes |-> q]
<1>1. /\ n \in Nat /\ n > 0 /\ o \in Nat /\ remote = 1 /\ remote \in Content
      /\ o .. o + n - 1 \subseteq Bytes
  BY ConstantFacts DEF IInv, TypeOK, Handover, Bytes, Content
<1>2. q \in Seq(Content) /\ Len(q) = n /\ \A k \in 1 .. n : q[k] = 1  BY <1>1
<1>3. b \in BufferType  BY <1>1, <1>2 DEF BufferType
<1>4. Right(b)  BY <1>1, <1>2 DEF Right, Extent
<1>5. WriteFile(b) \in CmdType /\ WriteFile(b).b = b  BY <1>3 DEF WriteFile, CmdType
<1>6. /\ chan' = Append(chan, WriteFile(b)) /\ Space /\ pc = "running"
      /\ UNCHANGED <<fileVars, sideVars, planVars, writerVars, verdict, sessionVars,
                     remote, faultVars>>
      /\ todo' = Rest(o, n)
  BY DEF Handover
<1>7. /\ UNCHANGED <<exists, len, data, side, saved, on, truncate, trusted>>
      /\ UNCHANGED <<wpc, held, buffer, written, werr, rec, cov, dirty>>
      /\ UNCHANGED <<verdict, pc, session, result, remote, faults, clean>>
  BY <1>6, Zenon DEF fileVars, sideVars, planVars, writerVars, recVars, sessionVars, faultVars
<1> HIDE DEF b
<1>8. chan' \in Seq(CmdType) /\ Len(chan') <= QueueCap /\ BuffersRight'
  BY <1>4, <1>5, <1>6, <1>7, AppendStep DEF IInv
<1>9. TypeOK'
  <2>1. Flags /\ Sized  BY TypeParts DEF IInv
  <2>2. Flags'  BY <1>7, <2>1, Zenon DEF Flags
  <2>3. Sized'  BY <1>6, <1>7, <1>8, <2>1 DEF Sized, Rest
  <2> QED  BY <2>2, <2>3, TypePartsPrime
<1>10. HashesRight' /\ CoverRight'
  BY <1>7, SameHashes, SameCover DEF IInv
<1>11. wpc' # "off"  BY <1>6, <1>7 DEF IInv, OneAtATime
<1> QED  BY <1>6, <1>7, <1>8, <1>9, <1>10, <1>11, MidStep

\* The verdict is known and TerminateAll goes to the writer, or the future is
\* dropped.
LEMMA EndSteps ==
    ASSUME IInv,
           \/ TransferOk \/ TransferWriterGone \/ TransferFails \/ TransferLies \/ Abort
    PROVE  IInv'
<1> USE DEF TransferOk, TransferWriterGone, TransferFails, TransferLies, Abort, End
<1>1. /\ UNCHANGED <<fileVars, sideVars, planVars, writerVars, todo, sessionVars, remote>>
      /\ pc = "running"
      /\ verdict' \in {"ok", "err", "dropped"}
      /\ chan' = chan \/ (Space /\ chan' = Append(chan, TerminateAll))
  OBVIOUS
<1>2. faults' \in 0 .. MaxFaults /\ clean' \in BOOLEAN
  BY FaultType DEF IInv, TypeOK, faultVars
<1>3. /\ UNCHANGED <<exists, len, data, side, saved, on, truncate, trusted, todo>>
      /\ UNCHANGED <<wpc, held, buffer, written, werr, rec, cov, dirty>>
      /\ UNCHANGED <<pc, session, result, remote>>
  BY <1>1, Zenon DEF fileVars, sideVars, planVars, writerVars, recVars, sessionVars
<1>4. chan' \in Seq(CmdType) /\ Len(chan') <= QueueCap /\ BuffersRight'
  <2>1. CASE chan' = chan
    BY <1>3, <2>1, SameBuffers DEF IInv, TypeOK
  <2>2. CASE Space /\ chan' = Append(chan, TerminateAll)
    BY <1>3, <2>2, AppendStep, EmptyRight DEF IInv
  <2> QED  BY <1>1, <2>1, <2>2
<1>5. TypeOK'
  <2>1. Flags /\ Sized  BY TypeParts DEF IInv
  <2>2. Flags'  BY <1>2, <1>3, <2>1, Zenon DEF Flags
  <2>3. Sized'  BY <1>1, <1>2, <1>3, <1>4, <2>1 DEF Sized
  <2> QED  BY <2>2, <2>3, TypePartsPrime
<1>6. HashesRight' /\ CoverRight'
  BY <1>3, SameHashes, SameCover DEF IInv
<1>7. wpc' # "off"  BY <1>1, <1>3 DEF IInv, OneAtATime
<1> QED  BY <1>1, <1>3, <1>4, <1>5, <1>6, <1>7, MidStep
-----------------------------------------------------------------------------
(* The writer *)

\* What the writer never touches.
LEMMA KeepsAllFacts ==
    ASSUME KeepsAll
    PROVE  UNCHANGED <<on, truncate, trusted, todo, verdict, pc, session, result, remote>>
BY Zenon DEF KeepsAll, planVars, sessionVars

\* The fields of the buffer and of the command in hand.
LEMMA BufferFacts ==
    ASSUME IInv
    PROVE  /\ buffer \in BufferType /\ held \in CmdType /\ held.b \in BufferType
           /\ buffer.off \in Nat /\ buffer.bytes \in Seq(Content)
           /\ Len(buffer.bytes) \in Nat /\ Right(buffer) /\ Right(held.b)
<1>1. buffer \in BufferType /\ held \in CmdType  BY DEF IInv, TypeOK
<1>2. buffer.off \in Nat /\ buffer.bytes \in Seq(Content) /\ held.b \in BufferType
  BY <1>1 DEF BufferType, CmdType
<1> QED  BY <1>1, <1>2 DEF IInv, BuffersRight

\* Commands leave the channel as they entered it.
LEMMA HeadFacts ==
    ASSUME IInv, chan # <<>>, chan' = Tail(chan)
    PROVE  /\ Head(chan) \in CmdType /\ Head(chan).b \in BufferType /\ Right(Head(chan).b)
           /\ chan' \in Seq(CmdType) /\ Len(chan') <= QueueCap
           /\ \A k \in 1 .. Len(chan') : Right(chan'[k].b)
<1>1. chan \in Seq(CmdType) /\ Len(chan) <= QueueCap  BY DEF IInv, TypeOK
<1>2. /\ Head(chan) \in CmdType /\ Head(chan) = chan[1] /\ 1 \in 1 .. Len(chan)
      /\ Tail(chan) \in Seq(CmdType) /\ Len(Tail(chan)) = Len(chan) - 1
      /\ \A k \in 1 .. Len(chan) - 1 : Tail(chan)[k] = chan[k + 1]
  BY <1>1
<1>3. Head(chan).b \in BufferType  BY <1>2 DEF CmdType
<1>4. \A k \in 1 .. Len(chan) : Right(chan[k].b)  BY DEF IInv, BuffersRight
<1>5. \A k \in 1 .. Len(chan') : Right(chan'[k].b)
  <2>1. ASSUME NEW k \in 1 .. Len(chan')  PROVE Right(chan'[k].b)
    <3>1. k \in 1 .. Len(chan) - 1 /\ k + 1 \in 1 .. Len(chan)  BY <1>1, <1>2
    <3> QED  BY <1>2, <1>4, <3>1
  <2> QED  BY <2>1
<1> QED  BY <1>1, <1>2, <1>3, <1>4, <1>5, ConstantFacts

\* Concatenation, element by element.
LEMMA ConcatFacts ==
    ASSUME NEW S, NEW u \in Seq(S), NEW v \in Seq(S)
    PROVE  /\ u \o v \in Seq(S) /\ Len(u \o v) = Len(u) + Len(v)
           /\ Len(u) \in Nat /\ Len(v) \in Nat
           /\ \A k \in 1 .. Len(u) + Len(v) :
                 (u \o v)[k] = IF k <= Len(u) THEN u[k] ELSE v[k - Len(u)]
OBVIOUS

\* Two adjacent right buffers make a right buffer.
LEMMA JoinFacts ==
    ASSUME IInv, NEW b \in BufferType, Right(b),
           buffer.off + Len(buffer.bytes) = b.off
    PROVE  /\ [buffer EXCEPT !.bytes = @ \o b.bytes] \in BufferType
           /\ Right([buffer EXCEPT !.bytes = @ \o b.bytes])
<1> DEFINE q == buffer.bytes \o b.bytes
           c == [buffer EXCEPT !.bytes = @ \o b.bytes]
           l == Len(buffer.bytes)
           n == Len(b.bytes)
<1>1. b.off \in Nat /\ b.bytes \in Seq(Content)  BY DEF BufferType
<1>2. /\ buffer \in BufferType /\ buffer.off \in Nat /\ buffer.bytes \in Seq(Content)
      /\ \A k \in 1 .. l : buffer.bytes[k] = 1
      /\ \A k \in 1 .. n : b.bytes[k] = 1
      /\ buffer.off .. buffer.off + l - 1 \subseteq Bytes
      /\ b.off .. b.off + n - 1 \subseteq Bytes
  BY BufferFacts DEF Right, Extent
<1>3. /\ q \in Seq(Content) /\ Len(q) = l + n /\ l \in Nat /\ n \in Nat
      /\ \A k \in 1 .. l + n : q[k] = IF k <= l THEN buffer.bytes[k] ELSE b.bytes[k - l]
  <2> DEFINE u == buffer.bytes
             v == b.bytes
  <2>1. u \in Seq(Content) /\ v \in Seq(Content)  BY <1>1, <1>2
  <2> HIDE DEF u, v
  <2>2. /\ u \o v \in Seq(Content) /\ Len(u \o v) = Len(u) + Len(v)
        /\ Len(u) \in Nat /\ Len(v) \in Nat
        /\ \A k \in 1 .. Len(u) + Len(v) :
              (u \o v)[k] = IF k <= Len(u) THEN u[k] ELSE v[k - Len(u)]
    BY ONLY <2>1, ConcatFacts, Zenon
  <2> QED  BY <2>2, Zenon DEF u, v
<1>4. c.off = buffer.off /\ c.bytes = q  BY <1>2 DEF BufferType
<1>5. c \in BufferType  BY <1>2, <1>3, <1>4 DEF BufferType
<1> HIDE DEF q, c, l, n
<1>6. \A k \in 1 .. Len(q) : q[k] = 1
  <2>1. ASSUME NEW k \in 1 .. l + n  PROVE q[k] = 1
    <3>1. CASE k <= l
      <4>1. k \in 1 .. l  BY <1>3, <3>1
      <4> QED  BY <1>2, <1>3, <3>1, <4>1
    <3>2. CASE ~(k <= l)
      <4>1. k - l \in 1 .. n  BY <1>3, <3>2
      <4> QED  BY <1>2, <1>3, <3>2, <4>1
    <3> QED  BY <3>1, <3>2
  <2> QED  BY <1>3, <2>1
<1>7. buffer.off + l = b.off  BY DEF l
<1>8. buffer.off .. buffer.off + (l + n) - 1 \subseteq Bytes
  <2> DEFINE o == buffer.off
             r == b.off
  <2>1. o \in Nat /\ r \in Nat /\ l \in Nat /\ n \in Nat /\ o + l = r
    BY <1>1, <1>2, <1>3, <1>7
  <2>2. o .. o + l - 1 \subseteq Bytes /\ r .. r + n - 1 \subseteq Bytes  BY <1>2
  <2> HIDE DEF o, r
  <2>3. ASSUME NEW p \in o .. o + (l + n) - 1  PROVE p \in Bytes
    <3>1. p \in o .. o + l - 1 \/ p \in r .. r + n - 1  BY <2>1
    <3> QED  BY <2>2, <3>1
  <2> QED  BY <2>3 DEF o
<1>9. Extent(c) \subseteq Bytes  BY <1>3, <1>4, <1>8 DEF Extent
<1>10. Right(c)  BY <1>4, <1>6, <1>9 DEF Right
<1> QED  BY <1>5, <1>10 DEF c

\* One command is taken.
LEMMA RecvStep == ASSUME IInv, Recv  PROVE IInv'
<1> DEFINE m == Head(chan)
<1>1. /\ wpc = "recv" /\ chan # <<>> /\ chan' = Tail(chan) /\ KeepsAll
      /\ UNCHANGED <<fileVars, sideVars, written, werr, recVars, faultVars>>
  BY DEF Recv
<1>2. UNCHANGED <<exists, len, data, side, saved, written, werr, rec, cov, dirty, faults, clean>>
  BY <1>1, Zenon DEF fileVars, sideVars, recVars, faultVars
<1>3. /\ m \in CmdType /\ m.b \in BufferType /\ Right(m.b)
      /\ chan' \in Seq(CmdType) /\ Len(chan') <= QueueCap
      /\ \A k \in 1 .. Len(chan') : Right(chan'[k].b)
  BY <1>1, HeadFacts
<1>4. /\ buffer' \in BufferType /\ Right(buffer') /\ held' \in CmdType /\ Right(held'.b)
      /\ wpc' \in {"recv", "write", "exit"}
  <2>1. CASE m.t = "write" /\ buffer = NoBuffer
    BY <1>1, <1>3, <2>1, BufferFacts DEF Recv
  <2>2. CASE m.t = "write" /\ buffer # NoBuffer /\ Coalesces(m.b)
    BY <1>1, <1>3, <2>2, BufferFacts, JoinFacts DEF Recv, Coalesces
  <2>3. CASE ~(m.t = "write" /\ (buffer = NoBuffer \/ Coalesces(m.b)))
    BY <1>1, <1>3, <2>3, BufferFacts DEF Recv, Stop
  <2> QED  BY <2>1, <2>2, <2>3
<1>5. TypeOK'
  <2>1. Flags /\ Sized  BY TypeParts DEF IInv
  <2>2. Flags'  BY <1>1, <1>2, <2>1, KeepsAllFacts, Zenon DEF Flags
  <2>3. Sized'  BY <1>1, <1>2, <1>3, <1>4, <2>1, KeepsAllFacts DEF Sized
  <2> QED  BY <2>2, <2>3, TypePartsPrime
<1>6. BuffersRight'  BY <1>3, <1>4 DEF BuffersRight
<1>7. HashesRight'  BY <1>2, SameHashes DEF IInv
<1>8. CoverRight'  BY <1>1, <1>2, <1>4, KeepsAllFacts, MovedCover DEF IInv
<1> QED  BY <1>1, <1>4, <1>5, <1>6, <1>7, <1>8, KeepsAllFacts, MidStep DEF IInv, OneAtATime

\* The channel is found closed.
LEMMA RecvClosedStep == ASSUME IInv, RecvClosed  PROVE IInv'
<1>1. /\ wpc = "recv" /\ held' = Closed /\ wpc' \in {"exit", "write"} /\ KeepsAll
      /\ UNCHANGED <<fileVars, sideVars, chan, buffer, written, werr, recVars, faultVars>>
  BY DEF RecvClosed, Stop
<1>2. /\ UNCHANGED <<exists, len, data, side, saved, written, werr, rec, cov, dirty>>
      /\ UNCHANGED <<chan, buffer, faults, clean>>
  BY <1>1, Zenon DEF fileVars, sideVars, recVars, faultVars
<1>3. TypeOK'
  <2>1. Flags /\ Sized  BY TypeParts DEF IInv
  <2>2. Flags'  BY <1>1, <1>2, <2>1, KeepsAllFacts, Zenon DEF Flags
  <2>3. Sized'  BY <1>1, <1>2, <2>1, KeepsAllFacts, EmptyRight DEF Sized
  <2> QED  BY <2>2, <2>3, TypePartsPrime
<1>4. BuffersRight'  BY <1>1, <1>2, EmptyRight DEF IInv, BuffersRight
<1>5. HashesRight'  BY <1>2, SameHashes DEF IInv
<1>6. CoverRight'  BY <1>1, <1>2, KeepsAllFacts, MovedCover DEF IInv
<1> QED  BY <1>1, <1>3, <1>4, <1>5, <1>6, KeepsAllFacts, MidStep DEF IInv, OneAtATime

\* A right buffer that reaches the file, in part or as a whole, spoils nothing.
LEMMA PutFacts ==
    ASSUME IInv, NEW k \in 0 .. Len(buffer.bytes), Put(k)
    PROVE  /\ data' \in [Pos -> Content] /\ len' \in 0 .. MaxLen /\ exists' = exists
           /\ \A p \in Bytes : Good(p) => Good(p)'
           /\ \A p \in buffer.off .. buffer.off + k - 1 : Good(p)'
<1> DEFINE ext == buffer.off .. buffer.off + k - 1
<1>1. /\ len \in 0 .. MaxLen /\ data \in [Pos -> Content] /\ Len(buffer.bytes) \in Nat
      /\ buffer.off \in Nat /\ k \in Nat /\ 1 \in Content
  BY BufferFacts, ConstantFacts DEF IInv, TypeOK, Content
<1>2. ext \subseteq Extent(buffer) /\ ext \subseteq Bytes
  BY <1>1, BufferFacts DEF Extent, Right
<1>3. \A p \in ext : buffer.bytes[p - buffer.off + 1] = 1
  <2>1. \A j \in 1 .. Len(buffer.bytes) : buffer.bytes[j] = 1  BY BufferFacts DEF Right
  <2>2. \A p \in ext : p - buffer.off + 1 \in 1 .. Len(buffer.bytes)  BY <1>1
  <2> QED  BY <2>1, <2>2
<1>4. /\ data' = [p \in Pos |-> IF p \in ext THEN buffer.bytes[p - buffer.off + 1] ELSE data[p]]
      /\ len' = (IF k = 0 THEN len ELSE Larger(len, buffer.off + k)) /\ exists' = exists
  BY DEF Put
<1>5. /\ data' \in [Pos -> Content]
      /\ \A p \in Pos : data'[p] = IF p \in ext THEN 1 ELSE data[p]
  BY <1>1, <1>3, <1>4
<1>6. k > 0 => buffer.off + k <= FileSize
  <2>1. CASE k > 0
    <3>1. buffer.off + k - 1 \in ext  BY <1>1, <2>1
    <3> QED  BY <1>1, <1>2, <3>1, ConstantFacts DEF Bytes
  <2> QED  BY <2>1
<1>7. len' \in 0 .. MaxLen /\ len' >= len /\ \A p \in ext : p < len'
  BY <1>1, <1>4, <1>6, ConstantFacts DEF Larger
<1>8. Bytes \subseteq Pos  BY ConstantFacts
<1>9. \A p \in Bytes : Good(p) => Good(p)'
  BY <1>1, <1>5, <1>7, <1>8 DEF Good, Bytes
<1>10. \A p \in ext : Good(p)'
  BY <1>2, <1>5, <1>7, <1>8 DEF Good
<1> QED  BY <1>4, <1>5, <1>7, <1>9, <1>10

\* The loop goes on with a right buffer.
LEMMA ProceedFacts ==
    ASSUME IInv, Proceed
    PROVE  buffer' \in BufferType /\ Right(buffer') /\ wpc' \in {"recv", "exit"}
BY BufferFacts, EmptyRight DEF Proceed

\* The buffer is written out and counted.
LEMMA WriteStep == ASSUME IInv, Write  PROVE IInv'
<1> DEFINE n == Len(buffer.bytes)
<1>1. /\ wpc = "write" /\ Put(n) /\ written' = written \cup Extent(buffer) /\ KeepsAll
      /\ UNCHANGED <<sideVars, chan, held, werr, recVars, faultVars>>
  BY DEF Write
<1>2. UNCHANGED <<side, saved, chan, held, werr, rec, cov, dirty, faults, clean>>
  BY <1>1, Zenon DEF sideVars, recVars, faultVars
<1>3. n \in 0 .. n /\ Extent(buffer) = buffer.off .. buffer.off + n - 1
      /\ Extent(buffer) \subseteq Bytes
  BY BufferFacts DEF Extent, Right
<1>4. /\ data' \in [Pos -> Content] /\ len' \in 0 .. MaxLen /\ exists' = exists
      /\ \A p \in Bytes : Good(p) => Good(p)'
      /\ \A p \in Extent(buffer) : Good(p)'
  BY <1>1, <1>3, PutFacts
<1>5. /\ buffer' \in BufferType /\ Right(buffer')
      /\ \/ wpc' = "record" /\ buffer' = buffer
         \/ wpc' \in {"recv", "exit"}
  BY <1>1, BufferFacts, ProceedFacts DEF Write
<1>6. TypeOK'
  <2>1. Flags /\ Sized  BY TypeParts DEF IInv
  <2>2. Flags'  BY <1>1, <1>2, <1>4, <2>1, KeepsAllFacts, Zenon DEF Flags
  <2>3. Sized'  BY <1>1, <1>2, <1>3, <1>4, <1>5, <2>1, KeepsAllFacts DEF Sized
  <2> QED  BY <2>2, <2>3, TypePartsPrime
<1>7. BuffersRight'  BY <1>2, <1>5 DEF IInv, BuffersRight
<1>8. HashesRight'  BY <1>2, SameHashes DEF IInv
<1>9. pc = "running" /\ pc' = pc /\ trusted' = trusted /\ trusted \subseteq Bytes
      /\ written \subseteq Bytes
  BY <1>1, KeepsAllFacts DEF IInv, OneAtATime, TypeOK
<1>10. \A p \in (written \cup trusted)' : Good(p)'
  BY <1>1, <1>4, <1>9 DEF IInv, CoverRight
<1>11. CoverRight'
  BY <1>1, <1>2, <1>4, <1>5, <1>9, <1>10 DEF IInv, CoverRight
<1> QED  BY <1>5, <1>6, <1>7, <1>8, <1>9, <1>11, <1>1, KeepsAllFacts, MidStep

\* A write that fails leaves right bytes, if any, and counts none of them.
LEMMA WriteFailsStep == ASSUME IInv, WriteFails  PROVE IInv'
<1>1. /\ wpc = "write" /\ Fault("io") /\ wpc' = "exit" /\ buffer' = NoBuffer /\ KeepsAll
      /\ \E k \in 0 .. Len(buffer.bytes) : Put(k)
      /\ UNCHANGED <<sideVars, chan, held, written, recVars>>
  BY DEF WriteFails
<1>2. UNCHANGED <<side, saved, chan, held, written, rec, cov, dirty>>
  BY <1>1, Zenon DEF sideVars, recVars
<1>3. /\ data' \in [Pos -> Content] /\ len' \in 0 .. MaxLen /\ exists' = exists
      /\ \A p \in Bytes : Good(p) => Good(p)'
  BY <1>1, PutFacts
<1>4. faults' \in 0 .. MaxFaults /\ clean' \in BOOLEAN  BY <1>1, FaultType DEF IInv
<1>5. TypeOK'
  <2>1. Flags /\ Sized  BY TypeParts DEF IInv
  <2>2. werr' \in BOOLEAN  BY <2>1, Zenon DEF WriteFails, Flags
  <2>3. Flags'  BY <1>1, <1>3, <1>4, <2>1, <2>2, KeepsAllFacts, Zenon DEF Flags
  <2>4. Sized'
    BY <1>1, <1>2, <1>3, <1>4, <2>1, KeepsAllFacts, EmptyRight DEF Sized
  <2> QED  BY <2>3, <2>4, TypePartsPrime
<1>6. BuffersRight'  BY <1>1, <1>2, EmptyRight DEF IInv, BuffersRight
<1>7. HashesRight'  BY <1>2, SameHashes DEF IInv
<1>8. pc = "running" /\ pc' = pc /\ trusted' = trusted /\ trusted \subseteq Bytes
      /\ written \subseteq Bytes
  BY <1>1, KeepsAllFacts DEF IInv, OneAtATime, TypeOK
<1>9. CoverRight'
  BY <1>1, <1>2, <1>3, <1>8 DEF IInv, CoverRight
<1> QED  BY <1>1, <1>5, <1>6, <1>7, <1>8, <1>9, KeepsAllFacts, MidStep

\* A segment is hashed only when all of it was written or verified, so its hash
\* is that of the served content.
LEMMA RecordStep == ASSUME IInv, Record  PROVE IInv'
<1> DEFINE ext == Extent(buffer)
           seen(s) == IF rec[s] = NoHash THEN cov[s] \cup (ext \cap Seg(s)) ELSE cov[s]
           new == {s \in Segs : rec[s] = NoHash /\ ext \cap Seg(s) # {} /\ seen(s) = Seg(s)}
<1>1. /\ wpc = "record" /\ KeepsAll
      /\ UNCHANGED <<fileVars, sideVars, chan, held, written, werr, faultVars>>
      /\ cov' = [s \in Segs |-> seen(s)]
      /\ rec' = [s \in Segs |-> IF s \in new THEN HashOf(s, data) ELSE rec[s]]
      /\ dirty' = dirty + Cardinality(new)
  BY DEF Record
<1>2. UNCHANGED <<exists, len, data, side, saved, chan, held, written, werr, faults, clean>>
  BY <1>1, Zenon DEF fileVars, sideVars, faultVars
<1>3. (wpc' = "save" /\ buffer' = buffer) \/ Proceed  BY DEF Record
<1>4. buffer' \in BufferType /\ Right(buffer') /\ wpc' \in {"save", "recv", "exit"}
  BY <1>3, BufferFacts, ProceedFacts
<1>5. /\ pc = "running" /\ written \subseteq Bytes /\ trusted \subseteq Bytes
      /\ cov \in [Segs -> SUBSET Bytes] /\ ext \subseteq written
      /\ \A p \in written \cup trusted : Good(p)
      /\ \A s \in Segs : cov[s] \subseteq written \cup trusted
  BY <1>1 DEF IInv, OneAtATime, TypeOK, CoverRight
<1>6. \A s \in Segs : seen(s) \subseteq written \cup trusted  BY <1>5
<1>7. cov' \in [Segs -> SUBSET Bytes] /\ \A s \in Segs : cov'[s] \subseteq written \cup trusted
  BY <1>1, <1>5, <1>6
<1>8. ASSUME NEW s \in new  PROVE s \in Segs /\ HashOf(s, data) = Sealed(s)
  <2>1. s \in Segs /\ Seg(s) \subseteq written \cup trusted  BY <1>6
  <2>2. \A p \in Seg(s) : data[p] = 1  BY <1>5, <2>1 DEF Good
  <2> QED  BY <2>1, <2>2 DEF HashOf, Sealed
<1>9. dirty' \in Nat
  <2>1. new \subseteq Segs  OBVIOUS
  <2> HIDE DEF new
  <2>2. IsFiniteSet(new)  BY <2>1, SegsFinite, FS_Subset
  <2>3. Cardinality(new) \in Nat  BY <2>2, FS_CardinalityType
  <2> QED  BY <1>1, <2>3 DEF IInv, TypeOK
<1> HIDE DEF new, seen
<1>10. HashesRight'
  BY <1>1, <1>2, <1>8 DEF IInv, HashesRight
<1>11. \A s \in Segs : rec'[s] = NoHash \/ rec'[s] \in [Seg(s) -> Content]
  BY <1>10, SealedType DEF HashesRight
<1>12. TypeOK'
  <2>1. Flags /\ Sized  BY TypeParts DEF IInv
  <2>2. Flags'  BY <1>1, <1>2, <2>1, KeepsAllFacts, Zenon DEF Flags
  <2>3. Sized'  BY <1>1, <1>2, <1>4, <1>7, <1>9, <1>11, <2>1, KeepsAllFacts DEF Sized
  <2> QED  BY <2>2, <2>3, TypePartsPrime
<1>13. BuffersRight'  BY <1>2, <1>4 DEF IInv, BuffersRight
<1>14. CoverRight'
  BY <1>1, <1>2, <1>4, <1>5, <1>7, KeepsAllFacts DEF IInv, CoverRight, Good
<1> QED  BY <1>1, <1>4, <1>5, <1>10, <1>12, <1>13, <1>14, KeepsAllFacts, MidStep

\* A failed hash or save ends the loop.
LEMMA BreakSteps == ASSUME IInv, RecordFails \/ SaveFails  PROVE IInv'
<1>1. /\ wpc \in {"record", "save"} /\ WriterBreaks /\ (Fault("io") \/ Fault("save"))
  BY DEF RecordFails, SaveFails
<1>2. /\ wpc' = "exit" /\ buffer' = NoBuffer /\ werr' = TRUE /\ KeepsAll
      /\ UNCHANGED <<exists, len, data, side, saved, chan, held, written, rec, cov, dirty>>
  BY <1>1, Zenon DEF WriterBreaks, fileVars, sideVars, recVars
<1>3. faults' \in 0 .. MaxFaults /\ clean' \in BOOLEAN  BY <1>1, FaultType DEF IInv
<1>4. TypeOK'
  <2>1. Flags /\ Sized  BY TypeParts DEF IInv
  <2>2. Flags'  BY <1>2, <1>3, <2>1, KeepsAllFacts, Zenon DEF Flags
  <2>3. Sized'  BY <1>2, <1>3, <2>1, KeepsAllFacts, EmptyRight DEF Sized
  <2> QED  BY <2>2, <2>3, TypePartsPrime
<1>5. BuffersRight'  BY <1>2, EmptyRight DEF IInv, BuffersRight
<1>6. HashesRight'  BY <1>2, SameHashes DEF IInv
<1>7. CoverRight'  BY <1>2, KeepsAllFacts, MovedCover DEF IInv
<1> QED  BY <1>1, <1>2, <1>4, <1>5, <1>6, <1>7, KeepsAllFacts, MidStep DEF IInv, OneAtATime

\* The sidecar gets the hashes of the recorder.
LEMMA SaveSteps == ASSUME IInv, Save \/ Exit  PROVE IInv'
<1>1. /\ wpc \in {"save", "exit"} /\ KeepsAll
      /\ UNCHANGED <<fileVars, chan, held, written, werr, rec, cov, faultVars>>
      /\ \/ side' = "ok" /\ saved' = rec /\ dirty' = 0
         \/ UNCHANGED <<sideVars, dirty>>
  BY DEF Save, Exit, SavedHashes
<1>2. /\ UNCHANGED <<exists, len, data, chan, held, written, werr, rec, cov, faults, clean>>
      /\ \/ side' = "ok" /\ saved' = rec /\ dirty' = 0
         \/ UNCHANGED <<side, saved, dirty>>
  BY <1>1, Zenon DEF fileVars, sideVars, faultVars
<1>3. buffer' \in BufferType /\ Right(buffer') /\ wpc' \in {"recv", "exit", "gate"}
  BY BufferFacts, ProceedFacts DEF Save, Exit
<1>4. HashesRight'  BY <1>2 DEF IInv, HashesRight
<1>5. TypeOK'
  <2>1. Flags /\ Sized  BY TypeParts DEF IInv
  <2>2. Flags'  BY <1>1, <1>2, <2>1, KeepsAllFacts, Zenon DEF Flags
  <2>3. Sized'  BY <1>1, <1>2, <1>3, <2>1, KeepsAllFacts DEF Sized
  <2> QED  BY <2>2, <2>3, TypePartsPrime
<1>6. BuffersRight'  BY <1>2, <1>3 DEF IInv, BuffersRight
<1>7. CoverRight'  BY <1>1, <1>2, <1>3, KeepsAllFacts, MovedCover DEF IInv
<1> QED  BY <1>1, <1>3, <1>4, <1>5, <1>6, <1>7, KeepsAllFacts, MidStep DEF IInv, OneAtATime

\* The last save fails.
LEMMA ExitFailsStep == ASSUME IInv, ExitFails  PROVE IInv'
<1>1. /\ wpc = "exit" /\ wpc' = "gate" /\ werr' = TRUE /\ KeepsAll /\ Fault("save")
      /\ UNCHANGED <<exists, len, data, side, saved, chan, held, buffer, written, rec, cov, dirty>>
  BY Zenon DEF ExitFails, fileVars, sideVars, recVars
<1>2. faults' \in 0 .. MaxFaults /\ clean' \in BOOLEAN  BY <1>1, FaultType DEF IInv
<1>3. TypeOK'
  <2>1. Flags /\ Sized  BY TypeParts DEF IInv
  <2>2. Flags'  BY <1>1, <1>2, <2>1, KeepsAllFacts, Zenon DEF Flags
  <2>3. Sized'  BY <1>1, <1>2, <2>1, KeepsAllFacts DEF Sized
  <2> QED  BY <2>2, <2>3, TypePartsPrime
<1>4. BuffersRight' /\ HashesRight'  BY <1>1, SameBuffers, SameHashes DEF IInv
<1>5. CoverRight'  BY <1>1, KeepsAllFacts, MovedCover DEF IInv
<1> QED  BY <1>1, <1>3, <1>4, <1>5, KeepsAllFacts, MidStep DEF IInv, OneAtATime

\* The writer succeeds only when no byte of the file is missing.
LEMMA GateStep == ASSUME IInv, Known, Gate  PROVE IInv'
<1>1. /\ wpc = "gate" /\ wpc' = "done" /\ KeepsAll
      /\ UNCHANGED <<exists, len, data, side, saved, chan, held, buffer, written, rec, cov, dirty>>
  BY Zenon DEF Gate, fileVars, sideVars, recVars
<1>2. faults' \in 0 .. MaxFaults /\ clean' \in BOOLEAN
  <2>1. CASE UNCHANGED faultVars  BY <2>1, Zenon DEF faultVars, IInv, TypeOK
  <2>2. CASE Fault("io")  BY <2>2, FaultType DEF IInv
  <2> QED  BY <2>1, <2>2 DEF Gate
<1>3. werr' \in BOOLEAN /\ (~werr' => ~Gap)
  BY Zenon DEF Gate, IInv, TypeOK
<1>4. TypeOK'
  <2>1. Flags /\ Sized  BY TypeParts DEF IInv
  <2>2. Flags'  BY <1>1, <1>2, <1>3, <2>1, KeepsAllFacts, Zenon DEF Flags
  <2>3. Sized'  BY <1>1, <1>2, <2>1, KeepsAllFacts DEF Sized
  <2> QED  BY <2>2, <2>3, TypePartsPrime
<1>5. BuffersRight' /\ HashesRight'  BY <1>1, SameBuffers, SameHashes DEF IInv
<1>6. CoverRight'
  BY <1>1, <1>3, KeepsAllFacts DEF IInv, OneAtATime, CoverRight, Good, Gap
<1> QED  BY <1>1, <1>4, <1>5, <1>6, KeepsAllFacts, MidStep DEF IInv, OneAtATime
-----------------------------------------------------------------------------
(* The end of a session, and what happens between sessions *)

\* A session that is over leaves no writer behind.
LEMMA OverStep ==
    ASSUME IInv, NEW r \in {"ok", "err", "aborted"}, Over(r),
           UNCHANGED fileVars, faults' \in 0 .. MaxFaults, clean' \in BOOLEAN,
           side' \in {"none", "bad", "ok"}, saved' = saved \/ saved' = Blank,
           r = "ok" => Whole
    PROVE  IInv'
<1>1. /\ pc' = "down" /\ result' = r /\ wpc' = "off" /\ verdict' = "running"
      /\ chan' = <<>> /\ held' = NoCmd /\ buffer' = NoBuffer
      /\ UNCHANGED <<exists, len, data, on, truncate, trusted, written, werr>>
      /\ UNCHANGED <<rec, cov, dirty, todo, session, remote>>
  BY Zenon DEF Over, fileVars, planVars, recVars
<1>2. <<>> \in Seq(CmdType) /\ Len(<<>>) = 0  OBVIOUS
<1>3. \A s \in Segs : saved'[s] = saved[s] \/ saved'[s] = NoHash  BY DEF Blank
<1>4. TypeOK'
  <2>1. Flags /\ Sized  BY TypeParts DEF IInv
  <2>2. Flags'  BY <1>1, <2>1, Zenon DEF Flags
  <2>3. Sized'  BY <1>1, <1>2, <1>3, <2>1, EmptyRight, ConstantFacts DEF Sized
  <2> QED  BY <2>2, <2>3, TypePartsPrime
<1>5. BuffersRight'  BY <1>1, <1>2, EmptyRight DEF BuffersRight
<1>6. HashesRight'  BY <1>1, <1>3 DEF IInv, HashesRight
<1>7. (OneAtATime /\ PlanRight /\ CoverRight)' /\ remote' = 1
  BY <1>1 DEF IInv, OneAtATime, PlanRight, CoverRight
<1>8. OkIsWhole'  BY <1>1 DEF OkIsWhole, Whole
<1> QED  BY <1>4, <1>5, <1>6, <1>7, <1>8 DEF IInv

\* Ok is returned only with the whole file on disk.
LEMMA FinishStep == ASSUME IInv, Known, Finish  PROVE IInv'
<1> DEFINE ok == verdict = "ok" /\ ~werr /\ (~Known \/ LengthOk)
           r  == IF verdict = "dropped" THEN "aborted" ELSE IF ok THEN "ok" ELSE "err"
<1>1. Over(r) /\ pc = "running" /\ wpc = "done" /\ UNCHANGED fileVars
  BY DEF Finish
<1>2. r \in {"ok", "err", "aborted"}  OBVIOUS
<1>3. (side' = "none" /\ saved' = Blank) \/ UNCHANGED sideVars  BY DEF Finish
<1>4. side' \in {"none", "bad", "ok"} /\ (saved' = saved \/ saved' = Blank)
  BY <1>3 DEF sideVars, IInv, TypeOK
<1>5. faults' \in 0 .. MaxFaults /\ clean' \in BOOLEAN
  <2>1. CASE UNCHANGED faultVars  BY <2>1, Zenon DEF faultVars, IInv, TypeOK
  <2>2. CASE Fault("remove")  BY <2>2, FaultType DEF IInv
  <2> QED  BY <2>1, <2>2 DEF Finish
<1>6. ASSUME r = "ok"  PROVE Whole
  <2>1. ~werr /\ len = FileSize  BY <1>6 DEF LengthOk
  <2>2. exists /\ \A p \in Bytes : Good(p)
    BY <1>1, <2>1 DEF IInv, CoverRight
  <2> QED  BY <2>1, <2>2 DEF Whole, Good, IInv
<1> HIDE DEF r
<1> QED  BY <1>1, <1>2, <1>4, <1>5, <1>6, OverStep

\* A killed process leaves the disk as it is.
LEMMA CrashStep == ASSUME IInv, Crash  PROVE IInv'
<1>1. faults' \in 0 .. MaxFaults /\ clean' \in BOOLEAN  BY FaultType DEF IInv, Crash
<1> QED  BY <1>1, OverStep DEF Crash, IInv, TypeOK, sideVars

\* Damage between sessions does not reach the recorded hashes.
LEMMA DamageStep == ASSUME IInv, Damage  PROVE IInv'
<1>1. /\ pc = "down" /\ result # "ok" /\ Fault("damage")
      /\ UNCHANGED <<side, saved, on, truncate, trusted, todo, verdict, chan>>
      /\ UNCHANGED <<wpc, held, buffer, written, werr, rec, cov, dirty>>
      /\ UNCHANGED <<pc, session, result, remote>>
  BY Zenon DEF Damage, sideVars, planVars, writerVars, recVars, transferVars, sessionVars
<1>2. faults' \in 0 .. MaxFaults /\ clean' \in BOOLEAN  BY <1>1, FaultType DEF IInv
<1>3. len \in 0 .. MaxLen /\ data \in [Pos -> Content] /\ exists \in BOOLEAN
  BY DEF IInv, TypeOK
<1>4. exists' \in BOOLEAN  BY <1>3, Zenon DEF Damage
<1>5. len' \in 0 .. MaxLen /\ data' \in [Pos -> Content]
  <2>1. 0 \in Content /\ MaxLen \in Nat  BY ConstantFacts DEF Content
  <2>2. CASE len' = 0 /\ data' = [p \in Pos |-> 0]  BY <2>1, <2>2
  <2>3. ASSUME NEW n \in 0 .. len - 1, len' = n,
               data' = [p \in Pos |-> IF p < n THEN data[p] ELSE 0]
        PROVE  len' \in 0 .. MaxLen /\ data' \in [Pos -> Content]
    BY <1>3, <2>1, <2>3
  <2>4. ASSUME NEW p \in 0 .. len - 1, len' = len, data' = [data EXCEPT ![p] = 0]
        PROVE  len' \in 0 .. MaxLen /\ data' \in [Pos -> Content]
    BY <1>3, <2>1, <2>4
  <2> QED  BY <2>2, <2>3, <2>4 DEF Damage
<1>6. TypeOK'
  <2>1. Flags /\ Sized  BY TypeParts DEF IInv
  <2>2. Flags'  BY <1>1, <1>2, <1>4, <2>1, Zenon DEF Flags
  <2>3. Sized'  BY <1>1, <1>2, <1>5, <2>1 DEF Sized
  <2> QED  BY <2>2, <2>3, TypePartsPrime
<1>7. BuffersRight' /\ HashesRight'  BY <1>1, SameBuffers, SameHashes DEF IInv
<1>8. (OneAtATime /\ PlanRight /\ CoverRight /\ OkIsWhole)' /\ remote' = 1
  BY <1>1 DEF IInv, OneAtATime, PlanRight, CoverRight, OkIsWhole
<1> QED  BY <1>6, <1>7, <1>8 DEF IInv

\* Nothing changes.
LEMMA StutterStep == ASSUME IInv, UNCHANGED vars  PROVE IInv'
<1>1. /\ UNCHANGED <<exists, len, data, side, saved, on, truncate, trusted, todo, verdict, chan>>
      /\ UNCHANGED <<wpc, held, buffer, written, werr, rec, cov, dirty>>
      /\ UNCHANGED <<pc, session, result, remote, faults, clean>>
  BY Zenon DEF vars, fileVars, sideVars, planVars, writerVars, recVars, transferVars,
               sessionVars, faultVars
<1>2. TypeOK'
  <2>1. Flags /\ Sized  BY TypeParts DEF IInv
  <2>2. Flags'  BY <1>1, <2>1, Zenon DEF Flags
  <2>3. Sized'  BY <1>1, <2>1 DEF Sized
  <2> QED  BY <2>2, <2>3, TypePartsPrime
<1>3. BuffersRight' /\ HashesRight' /\ CoverRight'
  BY <1>1, SameBuffers, SameHashes, SameCover DEF IInv
<1>4. (OneAtATime /\ PlanRight /\ OkIsWhole)' /\ remote' = 1
  BY <1>1 DEF IInv, OneAtATime, PlanRight, OkIsWhole, Whole, Good
<1> QED  BY <1>2, <1>3, <1>4 DEF IInv
-----------------------------------------------------------------------------
(* The theorems *)

\* Every step keeps the inductive invariant while the server keeps the file.
LEMMA NextStep == ASSUME SameFile, IInv, [Next]_vars  PROVE IInv'
<1>1. Known /\ ~RemoteChanges /\ ~PrepareStream
  BY DEF SameFile, RemoteChanges, Fault, PrepareStream
<1>2. CASE Prepare
  BY <1>1, <1>2, FreshSteps, ResumeStep DEF Prepare
<1>3. CASE Open \/ Deliver \/ TransferOk \/ TransferWriterGone
  BY <1>3, OpenStep, HandoverStep, EndSteps DEF Deliver
<1>4. CASE Writer
  BY <1>1, <1>4, RecvStep, RecvClosedStep, WriteStep, RecordStep, SaveSteps, GateStep
  DEF Writer
<1>5. CASE Finish  BY <1>1, <1>5, FinishStep
<1>6. CASE Failure
  BY <1>1, <1>6, FailedStarts, EndSteps, WriteFailsStep, BreakSteps, ExitFailsStep,
     CrashStep, DamageStep DEF Failure
<1>7. CASE Finished \/ UNCHANGED vars  BY <1>7, StutterStep DEF Finished
<1> QED  BY <1>2, <1>3, <1>4, <1>5, <1>6, <1>7 DEF Next

\* The inductive invariant: types, right content in every buffer and behind every
\* hash, and nothing counted as written or verified that is not on disk.
THEOREM Invariance == ASSUME SameFile  PROVE Spec => []IInv
<1>1. Init => IInv  BY InitStep
<1>2. IInv /\ [Next]_vars => IInv'  BY NextStep
<1> QED  BY <1>1, <1>2, PTL DEF Spec

\* Whatever crashes, damage, failed writes, stale sidecars and wrong verdicts of
\* the monitor came before, a session that returns Ok leaves the whole file.
THEOREM DeliveredIsWhole == ASSUME SameFile  PROVE Spec => []OkIsWhole
<1>1. IInv => OkIsWhole  BY DEF IInv
<1> QED  BY <1>1, Invariance, PTL

\* The plan never trusts a byte that the file lost, and stays right while the
\* session writes.
THEOREM ResumeIsSound == ASSUME SameFile  PROVE Spec => []TrustedIsOnDisk
<1>1. IInv => TrustedIsOnDisk
  BY DEF IInv, CoverRight, Good, TrustedIsOnDisk
<1> QED  BY <1>1, Invariance, PTL

\* After the coverage gate the file is never too short: the tail refill of
\* run_internal has nothing to do.
THEOREM GateCoversTail == ASSUME SameFile  PROVE Spec => []NoTailGap
<1>1. ASSUME IInv  PROVE NoTailGap
  <2>1. FileSize - 1 \in Bytes /\ FileSize \in Nat  BY ConstantFacts DEF Bytes
  <2>2. len \in Nat  BY <1>1 DEF IInv, TypeOK
  <2>3. ASSUME pc = "running", wpc = "done", ~werr  PROVE len >= FileSize
    <3>1. Good(FileSize - 1)  BY <1>1, <2>1, <2>3 DEF IInv, CoverRight
    <3> QED  BY <2>1, <2>2, <3>1 DEF Good
  <2> QED  BY <2>3 DEF NoTailGap
<1> QED  BY <1>1, Invariance, PTL
=============================================================================

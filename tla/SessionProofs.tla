--------------------------- MODULE SessionProofs ---------------------------
(***************************************************************************)
(* Proofs about the sessions of one output path: the sidecar never runs    *)
(* ahead of the file, a session in which nothing goes wrong succeeds, and  *)
(* all of them together implement Delivery while the server gives the      *)
(* length and keeps the file.  All build on the inductive invariant of     *)
(* StorageProofs.                                                          *)
(***************************************************************************)
EXTENDS StorageProofs

-----------------------------------------------------------------------------
(* The sidecar and the file *)

\* Nobody touches the file between sessions, and a sidecar that is to be thrown
\* away with its file can be removed.
Undamaged ==
    /\ SameFile /\ "damage" \notin Faults
    /\ FALSE \in Switches => "remove" \notin Faults

\* Every persisted hash is of a segment on disk, and none is left when the file
\* is about to be truncated; the recorder hashed only what was written or
\* verified.
SideInv ==
    /\ side # "ok" => \A s \in Segs : saved[s] = NoHash
    /\ \A s \in Segs : saved[s] # NoHash =>
          /\ exists /\ ~(pc = "prepared" /\ truncate)
          /\ \A p \in Seg(s) : Good(p)
    /\ pc = "prepared" => \A s \in Segs : rec[s] # NoHash => Seg(s) \subseteq trusted
    /\ pc = "running" => \A s \in Segs : rec[s] # NoHash => Seg(s) \subseteq written \cup trusted

\* A step that keeps the sidecar, the recorder and the plan, forgets nothing that
\* was written and spoils no byte on disk.
LEMMA SideKept ==
    ASSUME SideInv, UNCHANGED <<side, saved, exists, pc, truncate, rec, trusted>>,
           written \subseteq written', \A p \in Bytes : Good(p) => Good(p)'
    PROVE  SideInv'
<1>1. \A s \in Segs : Seg(s) \subseteq Bytes  BY SegFacts
<1>2. ASSUME NEW s \in Segs, saved'[s] # NoHash
      PROVE  exists' /\ ~(pc' = "prepared" /\ truncate') /\ \A p \in Seg(s) : Good(p)'
  BY <1>1, <1>2 DEF SideInv
<1> QED  BY <1>2 DEF SideInv

\* The same of a step that does not touch the file either.
LEMMA SideSame ==
    ASSUME SideInv,
           UNCHANGED <<side, saved, exists, len, data, pc, truncate, rec, trusted, written>>
    PROVE  SideInv'
<1>1. \A p \in Bytes : Good(p) => Good(p)'  BY DEF Good
<1> QED  BY <1>1, SideKept

\* At the start nothing is recorded.
LEMMA SideInit == ASSUME Init  PROVE SideInv
BY DEF Init, SideInv, Blank

\* A plan that truncates leaves no hash behind; one that resumes keeps the
\* segments that were verified.
LEMMA SidePrepare ==
    ASSUME Undamaged, IInv, SideInv, PrepareOff \/ PrepareFresh \/ PrepareResume
    PROVE  SideInv'
<1>1. \A s \in Segs : Blank[s] = NoHash  BY DEF Blank
<1>2. CASE PrepareOff \/ PrepareFresh
  <2>1. /\ pc = "down" /\ pc' = "prepared" /\ rec' = Blank
    BY <1>2 DEF PrepareOff, PrepareFresh, Plan
  <2>2. saved' = Blank \/ (UNCHANGED sideVars /\ (side # "ok" \/ ~exists))
    BY <1>2 DEF PrepareOff, PrepareFresh, Undamaged, Fault
  <2>3. \A s \in Segs : saved'[s] = NoHash
    BY <1>1, <2>2 DEF SideInv, sideVars
  <2> QED  BY <1>1, <2>1, <2>3 DEF SideInv
<1>3. CASE PrepareResume
  <2> DEFINE h == Intact
  <2>1. /\ saved' = h /\ rec' = h /\ trusted' = BytesOf(h) /\ truncate' = FALSE
        /\ side = "ok" /\ side' = side /\ pc' = "prepared"
        /\ exists /\ UNCHANGED <<exists, len, data>>
    BY <1>3 DEF PrepareResume, Plan, fileVars
  <2>2. \A s \in Segs : h[s] # NoHash => saved[s] # NoHash  BY DEF Intact
  <2>3. \A s \in Segs : h[s] # NoHash => Seg(s) \subseteq BytesOf(h)  BY DEF BytesOf
  <2> HIDE DEF h
  <2>4. \A s \in Segs : saved'[s] # NoHash => \A p \in Seg(s) : Good(p)'
    BY <2>1, <2>2 DEF SideInv, Good
  <2> QED  BY <2>1, <2>3, <2>4 DEF SideInv
<1> QED  BY <1>2, <1>3

\* A session that does not get as far as the transfer leaves a sidecar with the
\* hashes that were verified, at most.
LEMMA SideStarts ==
    ASSUME IInv, SideInv, PrepareFails \/ OpenFails  PROVE SideInv'
<1>1. CASE PrepareFails
  <2>1. /\ pc = "down" /\ UNCHANGED <<exists, len, data, side, pc>>
        /\ saved' = saved \/ saved' = Intact
    BY <1>1 DEF PrepareFails, fileVars
  <2>2. \A s \in Segs : saved'[s] # NoHash => saved[s] # NoHash  BY <2>1 DEF Intact
  <2>3. \A s \in Segs : saved'[s] # NoHash => exists /\ \A p \in Seg(s) : Good(p)
    BY <2>2 DEF SideInv
  <2> QED  BY <2>1, <2>2, <2>3 DEF SideInv, Good
<1>2. CASE OpenFails
  <2>1. pc' = "down" /\ UNCHANGED <<exists, len, data, side, saved>>
    BY <1>2 DEF OpenFails, fileVars, sideVars
  <2> QED  BY <2>1 DEF SideInv, Good
<1> QED  BY <1>1, <1>2

\* A file is truncated only when no hash of it is kept.
LEMMA SideOpen == ASSUME IInv, SideInv, Open  PROVE SideInv'
<1>1. /\ pc = "prepared" /\ pc' = "running" /\ exists' = TRUE
      /\ UNCHANGED <<side, saved, rec, trusted, truncate>>
      /\ truncate \/ UNCHANGED <<len, data>>
  BY DEF Open, StartWriter, sideVars, planVars, recVars
<1>2. ASSUME NEW s \in Segs, saved[s] # NoHash  PROVE \A p \in Seg(s) : Good(p)'
  BY <1>1, <1>2 DEF SideInv, Good
<1> QED  BY <1>1, <1>2 DEF SideInv

\* The recorder hashes a segment only when all of it was written or verified.
LEMMA SideRecord == ASSUME IInv, SideInv, Record  PROVE SideInv'
<1> DEFINE ext == Extent(buffer)
           seen(s) == IF rec[s] = NoHash THEN cov[s] \cup (ext \cap Seg(s)) ELSE cov[s]
           new == {s \in Segs : rec[s] = NoHash /\ ext \cap Seg(s) # {} /\ seen(s) = Seg(s)}
<1>1. /\ wpc = "record" /\ KeepsAll
      /\ UNCHANGED <<fileVars, sideVars, chan, held, written, werr, faultVars>>
      /\ rec' = [s \in Segs |-> IF s \in new THEN HashOf(s, data) ELSE rec[s]]
  BY DEF Record
<1>2. UNCHANGED <<exists, len, data, side, saved, written, pc, trusted, truncate>>
  BY <1>1, KeepsAllFacts, Zenon DEF fileVars, sideVars
<1>3. /\ pc = "running" /\ ext \subseteq written
      /\ \A s \in Segs : cov[s] \subseteq written \cup trusted
  BY <1>1 DEF IInv, OneAtATime, CoverRight
<1>4. \A s \in new : Seg(s) \subseteq written \cup trusted  BY <1>3
<1> HIDE DEF new
<1>5. \A s \in Segs : rec'[s] # NoHash => rec[s] # NoHash \/ s \in new  BY <1>1
<1>6. \A s \in Segs : rec'[s] # NoHash => Seg(s) \subseteq written \cup trusted
  BY <1>3, <1>4, <1>5 DEF SideInv
<1> QED  BY <1>2, <1>3, <1>6 DEF SideInv, Good

\* What is saved was hashed, so it is on disk.
LEMMA SideSave == ASSUME IInv, SideInv, Save \/ Exit  PROVE SideInv'
<1>1. /\ wpc \in {"save", "exit"} /\ KeepsAll
      /\ UNCHANGED <<fileVars, written, rec>>
      /\ (side' = "ok" /\ saved' = rec) \/ UNCHANGED sideVars
  BY DEF Save, Exit, SavedHashes
<1>2. /\ UNCHANGED <<exists, len, data, written, rec, pc, trusted, truncate>>
      /\ (side' = "ok" /\ saved' = rec) \/ UNCHANGED <<side, saved>>
  BY <1>1, KeepsAllFacts, Zenon DEF fileVars, sideVars
<1>3. /\ pc = "running" /\ exists /\ \A p \in written \cup trusted : Good(p)
  BY <1>1 DEF IInv, OneAtATime, CoverRight
<1>4. CASE side' = "ok" /\ saved' = rec
  <2>1. \A s \in Segs : rec[s] # NoHash => \A p \in Seg(s) : Good(p)
    BY <1>3 DEF SideInv
  <2> QED  BY <1>2, <1>3, <1>4, <2>1 DEF SideInv, Good
<1>5. CASE UNCHANGED <<side, saved>>  BY <1>2, <1>5, SideSame
<1> QED  BY <1>2, <1>4, <1>5

\* The file only gains right bytes while a session runs.
LEMMA SideWrite == ASSUME IInv, SideInv, Write \/ WriteFails  PROVE SideInv'
<1>1. /\ \E k \in 0 .. Len(buffer.bytes) : Put(k)
      /\ UNCHANGED <<sideVars, recVars>> /\ KeepsAll
      /\ written \subseteq written'
  BY BufferFacts DEF Write, WriteFails
<1>2. exists' = exists /\ \A p \in Bytes : Good(p) => Good(p)'  BY <1>1, PutFacts
<1>3. UNCHANGED <<side, saved, rec>>  BY <1>1, Zenon DEF sideVars, recVars
<1> QED  BY <1>1, <1>2, <1>3, KeepsAllFacts, SideKept

\* The end of a session changes nothing on disk but removes the sidecar.
LEMMA SideOver == ASSUME IInv, SideInv, Finish \/ Crash  PROVE SideInv'
<1>1. /\ pc' = "down" /\ UNCHANGED fileVars
      /\ (side' = "none" /\ saved' = Blank) \/ UNCHANGED sideVars
  BY DEF Finish, Crash, Over
<1>2. UNCHANGED <<exists, len, data>>  BY <1>1 DEF fileVars
<1>3. (side' = "none" /\ \A s \in Segs : saved'[s] = NoHash) \/ UNCHANGED <<side, saved>>
  BY <1>1 DEF sideVars, Blank
<1> QED  BY <1>1, <1>2, <1>3 DEF SideInv, Good

\* The other steps touch neither the file nor what is recorded of it.
LEMMA SideOthers ==
    ASSUME SideInv,
           \/ Deliver \/ TransferOk \/ TransferWriterGone \/ TransferFails \/ TransferLies
           \/ Abort \/ Recv \/ RecvClosed \/ RecordFails \/ SaveFails \/ ExitFails \/ Gate
           \/ UNCHANGED vars
    PROVE  SideInv'
<1>1. CASE \/ Deliver \/ TransferOk \/ TransferWriterGone \/ TransferFails \/ TransferLies
           \/ Abort
  <2>1. UNCHANGED <<fileVars, sideVars, planVars, writerVars, sessionVars>>
    BY <1>1 DEF Deliver, Handover, TransferOk, TransferWriterGone, TransferFails,
                TransferLies, Abort, End
  <2>2. UNCHANGED <<side, saved, exists, len, data, pc, truncate, rec, trusted, written>>
    BY <2>1, Zenon DEF fileVars, sideVars, planVars, writerVars, recVars, sessionVars
  <2> QED  BY <2>2, SideSame
<1>2. CASE Recv \/ RecvClosed \/ RecordFails \/ SaveFails \/ ExitFails \/ Gate
  <2>1. UNCHANGED <<fileVars, sideVars, written, recVars>> /\ KeepsAll
    BY <1>2 DEF Recv, RecvClosed, RecordFails, SaveFails, WriterBreaks, ExitFails, Gate
  <2>2. UNCHANGED <<side, saved, exists, len, data, rec, written>>
    BY <2>1, Zenon DEF fileVars, sideVars, recVars
  <2> QED  BY <2>1, <2>2, KeepsAllFacts, SideSame
<1>3. CASE UNCHANGED vars
  <2>1. UNCHANGED <<side, saved, exists, len, data, pc, truncate, rec, trusted, written>>
    BY <1>3, Zenon DEF vars, fileVars, sideVars, planVars, writerVars, recVars, sessionVars
  <2> QED  BY <2>1, SideSame
<1> QED  BY <1>1, <1>2, <1>3

\* Every step keeps the sidecar behind the file.
LEMMA SideStep == ASSUME Undamaged, IInv, SideInv, [Next]_vars  PROVE SideInv'
<1>1. Known /\ ~RemoteChanges /\ ~PrepareStream /\ ~Damage
  BY DEF Undamaged, SameFile, RemoteChanges, Damage, Fault, PrepareStream
<1>2. CASE Prepare  BY <1>1, <1>2, SidePrepare DEF Prepare
<1>3. CASE Writer
  BY <1>3, SideOthers, SideWrite, SideRecord, SideSave DEF Writer
<1>4. CASE Failure
  BY <1>1, <1>4, SideStarts, SideOthers, SideWrite, SideOver DEF Failure
<1>5. CASE Open \/ Finish  BY <1>5, SideOpen, SideOver
<1>6. CASE Deliver \/ TransferOk \/ TransferWriterGone \/ Finished \/ UNCHANGED vars
  BY <1>6, SideOthers DEF Finished
<1> QED  BY <1>2, <1>3, <1>4, <1>5, <1>6 DEF Next

\* Whatever fails, is aborted or killed, no hash is ever persisted of a segment
\* that is not on disk, so the next session resumes all that was recorded.
THEOREM SidecarStaysBehind == ASSUME Undamaged  PROVE Spec => []SidecarNotAhead
<1>1. SameFile  BY DEF Undamaged
<1>2. Init => SideInv  BY SideInit
<1>3. IInv /\ SideInv /\ [Next]_vars => SideInv'  BY SideStep
<1>4. ASSUME IInv, SideInv  PROVE SidecarNotAhead
  <2>1. SUFFICES ASSUME NEW s \in Segs, saved[s] # NoHash
        PROVE  Seg(s) \subseteq 0 .. len - 1 /\ saved[s] = HashOf(s, data)
    BY DEF SidecarNotAhead
  <2>2. saved[s] = Sealed(s) /\ \A p \in Seg(s) : Good(p)
    BY <1>4, <2>1 DEF IInv, HashesRight, SideInv
  <2>3. Seg(s) \subseteq Bytes /\ len \in Nat  BY <1>4, SegFacts DEF IInv, TypeOK
  <2>4. Seg(s) \subseteq 0 .. len - 1  BY <2>2, <2>3, ConstantFacts DEF Good, Bytes
  <2>5. Sealed(s) = HashOf(s, data)  BY <2>2 DEF Good, Sealed, HashOf
  <2> QED  BY <2>2, <2>4, <2>5
<1> QED  BY <1>1, <1>2, <1>3, <1>4, Invariance, PTL DEF Spec
-----------------------------------------------------------------------------
(* A session in which nothing goes wrong *)

\* No file that was there before is longer than the one to be downloaded.
NoLonger == InitLens \subseteq 0 .. FileSize

\* The writer has a command in hand that its buffer waits for.
Holding == wpc \in {"write", "record", "save"}
\* The loop of the writer is over.
Leaving == wpc \in {"exit", "gate", "done"}

\* Byte p is missing, done, or on its way to the file.
OnItsWay(p) ==
    \/ p \in todo \cup trusted \cup written \cup Extent(buffer)
    \/ Holding /\ held.t = "write" /\ p \in Extent(held.b)
    \/ \E k \in 1 .. Len(chan) : chan[k].t = "write" /\ p \in Extent(chan[k].b)

\* Without a fault the writer has not failed, TerminateAll is behind all buffers
\* and comes with the last byte, and no byte is lost on the way.
Flow ==
    /\ ~werr /\ verdict \in {"running", "ok"}
    /\ verdict = "ok" => todo = {}
    /\ \A k \in 1 .. Len(chan) :
          \/ chan[k].t = "write"
          \/ chan[k].t = "term" /\ k = Len(chan) /\ verdict = "ok"
    /\ Holding => held.t \in {"write", "term"}
    /\ Leaving \/ (Holding /\ held.t = "term") => chan = <<>> /\ verdict = "ok"
    /\ Leaving => buffer = NoBuffer
    /\ wpc \in {"record", "save"} => Extent(buffer) \subseteq written
    /\ \A p \in Bytes : OnItsWay(p)

CleanInv ==
    /\ len <= FileSize
    /\ pc = "prepared" => Bytes \subseteq todo \cup trusted
    /\ pc = "running" /\ clean => Flow
    /\ CleanSessionSucceeds

\* The empty buffer has no bytes.
LEMMA NoExtent == Extent(NoBuffer) = {}
BY DEF Extent, NoBuffer

\* Nothing is ever written behind the end of the file.
LEMMA PutLength ==
    ASSUME IInv, len <= FileSize, NEW k \in 0 .. Len(buffer.bytes), Put(k)
    PROVE  len' <= FileSize
<1> DEFINE o == buffer.off
<1>1. /\ o \in Nat /\ Len(buffer.bytes) \in Nat /\ k \in Nat /\ k <= Len(buffer.bytes)
      /\ len \in Nat /\ FileSize \in Nat
  BY BufferFacts, ConstantFacts DEF IInv, TypeOK
<1>2. o .. o + Len(buffer.bytes) - 1 \subseteq Bytes  BY BufferFacts DEF Right, Extent
<1>3. len' = IF k = 0 THEN len ELSE Larger(len, o + k)  BY DEF Put
<1> HIDE DEF o
<1>4. CASE k = 0  BY <1>3, <1>4
<1>5. CASE k > 0
  <2>1. o + k - 1 \in o .. o + Len(buffer.bytes) - 1  BY <1>1, <1>5
  <2>2. o + k - 1 \in Bytes  BY <1>2, <2>1
  <2>3. o + k <= FileSize  BY <1>1, <2>2 DEF Bytes
  <2> QED  BY <1>1, <1>3, <1>5, <2>3 DEF Larger
<1> QED  BY <1>1, <1>4, <1>5

\* The file never becomes longer than announced.
LEMMA LengthStep ==
    ASSUME SameFile, IInv, len <= FileSize, [Next]_vars  PROVE len' <= FileSize
<1>1. len \in Nat /\ FileSize \in Nat /\ Known  BY ConstantFacts DEF IInv, TypeOK, SameFile
<1>2. CASE Write \/ WriteFails
  <2>1. \E k \in 0 .. Len(buffer.bytes) : Put(k)  BY <1>2, BufferFacts DEF Write, WriteFails
  <2> QED  BY <2>1, PutLength
<1>3. CASE Open  BY <1>1, <1>3 DEF Open
<1>4. CASE Damage
  <2>1. len' = 0 \/ len' \in 0 .. len - 1 \/ len' = len  BY <1>4 DEF Damage
  <2> QED  BY <1>1, <2>1
<1>5. CASE Prepare \/ PrepareFails \/ OpenFails
  <2>1. UNCHANGED fileVars
    BY <1>5 DEF Prepare, PrepareOff, PrepareFresh, PrepareResume, PrepareStream, Plan,
                PrepareFails, OpenFails
  <2> QED  BY <1>1, <2>1 DEF fileVars
<1>6. CASE \/ Deliver \/ TransferOk \/ TransferWriterGone \/ TransferFails \/ TransferLies
           \/ Abort
  <2>1. UNCHANGED fileVars
    BY <1>6 DEF Deliver, Handover, TransferOk, TransferWriterGone, TransferFails,
                TransferLies, Abort, End
  <2> QED  BY <1>1, <2>1 DEF fileVars
<1>7. CASE \/ Recv \/ RecvClosed \/ Record \/ Save \/ Exit \/ Gate
           \/ RecordFails \/ SaveFails \/ ExitFails
  <2>1. UNCHANGED fileVars
    BY <1>7 DEF Recv, RecvClosed, Record, Save, Exit, Gate, RecordFails, SaveFails,
                WriterBreaks, ExitFails
  <2> QED  BY <1>1, <2>1 DEF fileVars
<1>8. CASE Finish \/ Crash \/ RemoteChanges
  <2>1. UNCHANGED fileVars  BY <1>8 DEF Finish, Crash, RemoteChanges
  <2> QED  BY <1>1, <2>1 DEF fileVars
<1>9. CASE Finished \/ UNCHANGED vars
  <2>1. UNCHANGED fileVars  BY <1>9 DEF Finished, vars
  <2> QED  BY <1>1, <2>1 DEF fileVars
<1> QED
  BY <1>2, <1>3, <1>4, <1>5, <1>6, <1>7, <1>8, <1>9 DEF Next, Writer, Failure

\* A fault ends the cleanness of a session, and none of them prepares one.
LEMMA FaultyStep ==
    ASSUME IInv, CleanInv, len' <= FileSize, Failure  PROVE CleanInv'
<1>1. clean' = FALSE
  BY DEF Failure, PrepareFails, OpenFails, TransferFails, TransferLies, Abort, WriteFails,
         RecordFails, SaveFails, ExitFails, Crash, Damage, RemoteChanges, Fault
<1>2. pc' # "prepared"
  <2>1. CASE PrepareFails \/ OpenFails \/ Crash \/ Damage \/ RemoteChanges
    BY <2>1 DEF PrepareFails, OpenFails, Crash, Over, Damage, RemoteChanges, sessionVars
  <2>2. CASE TransferFails \/ TransferLies \/ Abort
    BY <2>2 DEF TransferFails, TransferLies, Abort, End, sessionVars
  <2>3. CASE WriteFails \/ RecordFails \/ SaveFails \/ ExitFails
    <3>1. KeepsAll /\ wpc # "off"
      BY <2>3 DEF WriteFails, RecordFails, SaveFails, ExitFails, WriterBreaks
    <3> QED  BY <3>1, KeepsAllFacts DEF IInv, OneAtATime
  <2> QED  BY <2>1, <2>2, <2>3 DEF Failure
<1> QED  BY <1>1, <1>2 DEF CleanInv, CleanSessionSucceeds

\* A plan asks for all that it does not trust.
LEMMA CleanPrepare ==
    ASSUME len' <= FileSize, Prepare  PROVE CleanInv'
<1>1. \E e \in BOOLEAN, t \in BOOLEAN, h \in {Blank, Intact} : Plan(e, t, h)
  BY DEF Prepare, PrepareOff, PrepareFresh, PrepareResume, PrepareStream
<1>2. pc' = "prepared" /\ Bytes \subseteq todo' \cup trusted'  BY <1>1 DEF Plan
<1> QED  BY <1>2 DEF CleanInv, CleanSessionSucceeds

\* The session starts with everything missing that is not trusted.
LEMMA CleanOpen ==
    ASSUME CleanInv, len' <= FileSize, Open  PROVE CleanInv'
<1>1. /\ pc = "prepared" /\ pc' = "running" /\ verdict' = "running" /\ chan' = <<>>
      /\ wpc' = "recv" /\ held' = NoCmd /\ buffer' = NoBuffer /\ written' = {}
      /\ werr' = FALSE /\ UNCHANGED <<todo, trusted>>
  BY DEF Open, StartWriter, planVars
<1>2. Len(chan') = 0  BY <1>1
<1>3. \A p \in Bytes : OnItsWay(p)'  BY <1>1 DEF CleanInv, OnItsWay
<1>4. Flow'  BY <1>1, <1>2, <1>3 DEF Flow, Holding, Leaving
<1> QED  BY <1>1, <1>4 DEF CleanInv, CleanSessionSucceeds

\* A step of a running session that stays clean keeps the flow.
LEMMA CleanRuns ==
    ASSUME CleanInv, len' <= FileSize, pc = "running", pc' = pc, clean' => clean,
           Flow => Flow' \/ ~clean'
    PROVE  CleanInv'
BY DEF CleanInv, CleanSessionSucceeds

\* What an appended command adds to the channel.
LEMMA AppendFlow ==
    ASSUME TypeOK, NEW m \in CmdType, chan' = Append(chan, m)
    PROVE  /\ Len(chan) \in Nat /\ Len(chan') = Len(chan) + 1
           /\ chan'[Len(chan) + 1] = m
           /\ \A k \in 1 .. Len(chan) : chan'[k] = chan[k]
<1>1. chan \in Seq(CmdType)  BY DEF TypeOK
<1> QED  BY <1>1

\* Bytes that are handed over are in the channel.
LEMMA FlowHandover ==
    ASSUME IInv, Flow, NEW o \in Bytes, NEW n \in Lens, Handover(o, n)  PROVE Flow'
<1> DEFINE q == [k \in 1 .. n |-> remote]
           b == [off |-> o, bytes |-> q]
<1>1. /\ n \in Nat /\ n > 0 /\ o \in Nat /\ remote \in Content
  BY ConstantFacts DEF IInv, TypeOK, Bytes, Content
<1>2. q \in Seq(Content) /\ Len(q) = n  BY <1>1
<1>3. b \in BufferType /\ Extent(b) = o .. o + n - 1  BY <1>1, <1>2 DEF BufferType, Extent
<1>4. /\ chan' = Append(chan, WriteFile(b)) /\ verdict = "running"
      /\ UNCHANGED <<planVars, writerVars, verdict>>
      /\ todo' = todo \ (o .. o + n - 1)
  BY DEF Handover, Rest
<1> HIDE DEF b
<1>5. PICK m \in CmdType : m = WriteFile(b) /\ m.t = "write" /\ m.b = b
  <2>1. WriteFile(b) \in CmdType /\ WriteFile(b).t = "write" /\ WriteFile(b).b = b
    BY <1>3 DEF WriteFile, CmdType
  <2> QED  BY <2>1
<1>6. UNCHANGED <<trusted, wpc, held, buffer, written, werr, verdict>>
  BY <1>4, Zenon DEF planVars, writerVars
<1>7. /\ Len(chan) \in Nat /\ Len(chan') = Len(chan) + 1
      /\ chan'[Len(chan) + 1] = m
      /\ \A k \in 1 .. Len(chan) : chan'[k] = chan[k]
  BY <1>4, <1>5, AppendFlow DEF IInv
<1>8. \A k \in 1 .. Len(chan) : chan[k].t = "write"  BY <1>4 DEF Flow
<1>9. \A k \in 1 .. Len(chan') : chan'[k].t = "write"
  <2>1. \A k \in 1 .. Len(chan') : k \in 1 .. Len(chan) \/ k = Len(chan) + 1  BY <1>7
  <2> QED  BY <1>5, <1>7, <1>8, <2>1
<1>10. ASSUME NEW p \in Bytes  PROVE OnItsWay(p)'
  <2>1. OnItsWay(p)  BY DEF Flow
  <2>2. CASE p \in o .. o + n - 1
    <3>1. Len(chan) + 1 \in 1 .. Len(chan')  BY <1>7
    <3>2. chan'[Len(chan) + 1].t = "write" /\ p \in Extent(chan'[Len(chan) + 1].b)
      BY <1>3, <1>5, <1>7, <2>2
    <3> QED  BY <3>1, <3>2 DEF OnItsWay
  <2>3. CASE p \notin o .. o + n - 1
    <3>1. CASE \E k \in 1 .. Len(chan) : chan[k].t = "write" /\ p \in Extent(chan[k].b)
      <4>1. PICK k \in 1 .. Len(chan) : chan[k].t = "write" /\ p \in Extent(chan[k].b)
        BY <3>1
      <4>2. k \in 1 .. Len(chan') /\ chan'[k] = chan[k]  BY <1>7
      <4> QED  BY <4>1, <4>2 DEF OnItsWay
    <3> QED  BY <1>4, <1>6, <2>1, <2>3, <3>1 DEF OnItsWay, Holding
  <2> QED  BY <2>2, <2>3
<1>11. verdict' = "running" /\ ~Leaving /\ ~(Holding /\ held.t = "term")
  BY <1>4, <1>6 DEF Flow
<1> QED  BY <1>6, <1>9, <1>10, <1>11 DEF Flow, Holding, Leaving

\* TerminateAll follows the last buffer.
LEMMA FlowEnd ==
    ASSUME IInv, Flow, TransferOk  PROVE Flow'
<1>1. /\ todo = {} /\ todo' = todo /\ verdict = "running" /\ verdict' = "ok"
      /\ wpc # "done" => chan' = Append(chan, TerminateAll)
      /\ UNCHANGED <<planVars, writerVars>>
  BY DEF TransferOk, End
<1>2. ~Leaving /\ ~(Holding /\ held.t = "term")  BY <1>1 DEF Flow
<1>3. chan' = Append(chan, TerminateAll)  BY <1>1, <1>2 DEF Leaving
<1>4. UNCHANGED <<trusted, wpc, held, buffer, written, werr>>
  BY <1>1, Zenon DEF planVars, writerVars
<1>5. PICK m \in CmdType : m = TerminateAll /\ m.t = "term"
  BY EmptyRight DEF TerminateAll
<1>6. /\ Len(chan) \in Nat /\ Len(chan') = Len(chan) + 1
      /\ chan'[Len(chan) + 1] = m
      /\ \A k \in 1 .. Len(chan) : chan'[k] = chan[k]
  BY <1>3, <1>5, AppendFlow DEF IInv
<1>7. \A k \in 1 .. Len(chan) : chan[k].t = "write"  BY <1>1 DEF Flow
<1>8. \A k \in 1 .. Len(chan') : chan'[k].t = "write" \/ (chan'[k].t = "term" /\ k = Len(chan'))
  <2>1. \A k \in 1 .. Len(chan') : k \in 1 .. Len(chan) \/ k = Len(chan) + 1  BY <1>6
  <2> QED  BY <1>5, <1>6, <1>7, <2>1
<1>9. ASSUME NEW p \in Bytes  PROVE OnItsWay(p)'
  <2>1. OnItsWay(p)  BY DEF Flow
  <2>2. CASE \E k \in 1 .. Len(chan) : chan[k].t = "write" /\ p \in Extent(chan[k].b)
    <3>1. PICK k \in 1 .. Len(chan) : chan[k].t = "write" /\ p \in Extent(chan[k].b)  BY <2>2
    <3>2. k \in 1 .. Len(chan') /\ chan'[k] = chan[k]  BY <1>6
    <3> QED  BY <3>1, <3>2 DEF OnItsWay
  <2> QED  BY <1>1, <1>4, <2>1, <2>2 DEF OnItsWay, Holding
<1> QED  BY <1>1, <1>2, <1>4, <1>8, <1>9 DEF Flow, Holding, Leaving

\* The buffer is in the file: the loop goes on with the command in hand.
LEMMA FlowProceed ==
    ASSUME IInv, Flow, Holding, Proceed,
           UNCHANGED <<todo, trusted, verdict, chan, held, werr>>,
           written \subseteq written', Extent(buffer) \subseteq written'
    PROVE  Flow'
<1>1. held.t \in {"write", "term"}  BY DEF Flow
<1>2. CASE held.t = "write"
  <2>1. wpc' = "recv" /\ buffer' = held.b  BY <1>2 DEF Proceed
  <2>2. ASSUME NEW p \in Bytes  PROVE OnItsWay(p)'
    <3>1. OnItsWay(p)  BY DEF Flow
    <3> QED  BY <1>2, <2>1, <3>1 DEF OnItsWay
  <2> QED  BY <2>1, <2>2 DEF Flow, Holding, Leaving
<1>3. CASE held.t = "term"
  <2>1. wpc' = "exit" /\ buffer' = NoBuffer  BY <1>3 DEF Proceed
  <2>2. ASSUME NEW p \in Bytes  PROVE OnItsWay(p)'
    <3>1. OnItsWay(p)  BY DEF Flow
    <3> QED  BY <1>3, <2>1, <3>1 DEF OnItsWay
  <2> QED  BY <1>3, <2>1, <2>2 DEF Flow, Holding, Leaving
<1> QED  BY <1>1, <1>2, <1>3

\* The buffer is in the file and is looked at once more.
LEMMA FlowStays ==
    ASSUME IInv, Flow, Holding, wpc' \in {"record", "save"},
           UNCHANGED <<todo, trusted, verdict, chan, held, buffer, werr>>,
           written \subseteq written', Extent(buffer) \subseteq written'
    PROVE  Flow'
<1>1. ASSUME NEW p \in Bytes  PROVE OnItsWay(p)'
  <2>1. OnItsWay(p)  BY DEF Flow
  <2> QED  BY <2>1 DEF OnItsWay, Holding
<1> QED  BY <1>1 DEF Flow, Holding, Leaving

\* Writing out, hashing and saving.
LEMMA FlowWrites ==
    ASSUME IInv, Flow, Write \/ Record \/ Save  PROVE Flow'
<1>1. UNCHANGED <<todo, trusted, verdict>>
  BY KeepsAllFacts DEF Write, Record, Save
<1>2. UNCHANGED <<chan, held, werr>>  BY DEF Write, Record, Save
<1>3. /\ Holding /\ written \subseteq written' /\ Extent(buffer) \subseteq written'
      /\ Proceed \/ (wpc' \in {"record", "save"} /\ buffer' = buffer)
  <2>1. CASE Write  BY <2>1 DEF Write, Holding
  <2>2. CASE Record
    <3>1. wpc = "record" /\ written' = written  BY <2>2 DEF Record
    <3>2. Proceed \/ (wpc' \in {"record", "save"} /\ buffer' = buffer)  BY <2>2 DEF Record
    <3> QED  BY <3>1, <3>2 DEF Flow, Holding
  <2>3. CASE Save
    <3>1. wpc = "save" /\ written' = written /\ Proceed  BY <2>3 DEF Save
    <3> QED  BY <3>1 DEF Flow, Holding
  <2> QED  BY <2>1, <2>2, <2>3
<1>4. CASE Proceed  BY <1>1, <1>2, <1>3, <1>4, FlowProceed
<1>5. CASE wpc' \in {"record", "save"} /\ buffer' = buffer
  BY <1>1, <1>2, <1>3, <1>5, FlowStays
<1> QED  BY <1>3, <1>4, <1>5

\* Coalescing loses no byte.
LEMMA JoinExtent ==
    ASSUME IInv, NEW b \in BufferType, buffer.off + Len(buffer.bytes) = b.off,
           NEW c, c = [buffer EXCEPT !.bytes = @ \o b.bytes]
    PROVE  Extent(buffer) \cup Extent(b) \subseteq Extent(c)
<1> DEFINE l == Len(buffer.bytes)
           n == Len(b.bytes)
           o == buffer.off
<1>1. b.off \in Nat /\ b.bytes \in Seq(Content)  BY DEF BufferType
<1>2. buffer \in BufferType /\ o \in Nat /\ buffer.bytes \in Seq(Content)  BY BufferFacts
<1>3. c.off = o /\ c.bytes = buffer.bytes \o b.bytes  BY <1>2 DEF BufferType
<1>4. Len(buffer.bytes \o b.bytes) = l + n /\ l \in Nat /\ n \in Nat
  BY <1>1, <1>2, ConcatFacts
<1>5. Extent(c) = o .. o + (l + n) - 1  BY <1>3, <1>4 DEF Extent
<1>6. Extent(buffer) = o .. o + l - 1 /\ Extent(b) = o + l .. o + l + n - 1
  BY DEF Extent
<1> HIDE DEF l, n, o
<1> QED  BY <1>2, <1>4, <1>5, <1>6

\* What is left of the channel.
LEMMA TailFlow ==
    ASSUME TypeOK, chan # <<>>, chan' = Tail(chan)
    PROVE  /\ Len(chan) \in Nat \ {0} /\ Len(chan') = Len(chan) - 1
           /\ Head(chan) = chan[1] /\ Head(chan) \in CmdType
           /\ \A k \in 1 .. Len(chan') : chan'[k] = chan[k + 1]
<1>1. chan \in Seq(CmdType)  BY DEF TypeOK
<1> QED  BY <1>1

\* A command that is taken becomes the buffer, joins it, or is held back until
\* the buffer is written out.
LEMMA FlowRecv ==
    ASSUME IInv, Flow, Recv  PROVE Flow'
<1>1. /\ wpc = "recv" /\ chan # <<>> /\ chan' = Tail(chan) /\ KeepsAll
      /\ UNCHANGED <<written, werr>>
  BY DEF Recv
<1>2. UNCHANGED <<todo, trusted, verdict>>  BY <1>1, KeepsAllFacts
<1>3. /\ Len(chan) \in Nat \ {0} /\ Len(chan') = Len(chan) - 1
      /\ Head(chan) = chan[1] /\ Head(chan) \in CmdType
      /\ \A k \in 1 .. Len(chan') : chan'[k] = chan[k + 1]
  BY <1>1, TailFlow DEF IInv
<1>4. PICK m \in CmdType : m = Head(chan) /\ m = chan[1]  BY <1>3
<1>5. m.b \in BufferType  BY DEF CmdType
<1>6. \A k \in 1 .. Len(chan') : k + 1 \in 1 .. Len(chan)  BY <1>3
<1>7. \A k \in 1 .. Len(chan') :
         \/ chan'[k].t = "write"
         \/ chan'[k].t = "term" /\ k = Len(chan') /\ verdict' = "ok"
  BY <1>2, <1>3, <1>6 DEF Flow
<1>8. m.t = "write" \/ (m.t = "term" /\ Len(chan) = 1 /\ verdict = "ok")
  <2>1. 1 \in 1 .. Len(chan)  BY <1>3
  <2> QED  BY <1>4, <2>1 DEF Flow
<1>9. ASSUME NEW p \in Bytes
      PROVE  \/ p \in (todo \cup trusted \cup written)' \cup Extent(buffer)
             \/ m.t = "write" /\ p \in Extent(m.b)
             \/ \E k \in 1 .. Len(chan') : chan'[k].t = "write" /\ p \in Extent(chan'[k].b)
  <2>1. OnItsWay(p) /\ ~Holding  BY <1>1 DEF Flow, Holding
  <2>2. CASE \E k \in 1 .. Len(chan) : chan[k].t = "write" /\ p \in Extent(chan[k].b)
    <3>1. PICK k \in 1 .. Len(chan) : chan[k].t = "write" /\ p \in Extent(chan[k].b)  BY <2>2
    <3>2. CASE k = 1  BY <1>4, <3>1, <3>2
    <3>3. CASE k # 1
      <4>1. k - 1 \in 1 .. Len(chan') /\ (k - 1) + 1 = k  BY <1>3, <3>3
      <4>2. chan'[k - 1] = chan[k]  BY <1>3, <4>1
      <4> QED  BY <3>1, <4>1, <4>2
    <3> QED  BY <3>2, <3>3
  <2> QED  BY <1>1, <1>2, <2>1, <2>2 DEF OnItsWay
<1>10. CASE m.t = "write" /\ (buffer = NoBuffer \/ Coalesces(m.b))
  <2>1. /\ buffer' = IF buffer = NoBuffer THEN m.b
                     ELSE [buffer EXCEPT !.bytes = @ \o m.b.bytes]
        /\ UNCHANGED <<wpc, held>>
    BY <1>4, <1>10 DEF Recv
  <2>2. PICK c : c = buffer'  OBVIOUS
  <2>3. Extent(buffer) \cup Extent(m.b) \subseteq Extent(c)
    <3>1. CASE buffer = NoBuffer  BY <2>1, <2>2, <3>1, NoExtent
    <3>2. CASE buffer # NoBuffer
      <4>1. buffer.off + Len(buffer.bytes) = m.b.off  BY <1>10, <3>2 DEF Coalesces
      <4>2. c = [buffer EXCEPT !.bytes = @ \o m.b.bytes]  BY <2>1, <2>2, <3>2
      <4> QED  BY <1>5, <4>1, <4>2, JoinExtent
    <3> QED  BY <3>1, <3>2
  <2>4. Extent(buffer)' = Extent(c)  BY <2>2 DEF Extent
  <2>5. \A p \in Bytes : OnItsWay(p)'  BY <1>9, <2>3, <2>4 DEF OnItsWay
  <2> QED  BY <1>1, <1>2, <1>7, <2>1, <2>5 DEF Flow, Holding, Leaving
<1>11. CASE ~(m.t = "write" /\ (buffer = NoBuffer \/ Coalesces(m.b)))
  <2>1. /\ held' = m /\ buffer' = buffer
        /\ wpc' = IF buffer = NoBuffer THEN "exit" ELSE "write"
    BY <1>4, <1>11 DEF Recv, Stop
  <2>2. m.t = "write" => wpc' = "write"  BY <1>11, <2>1
  <2>3. \A p \in Bytes : OnItsWay(p)'  BY <1>9, <2>1, <2>2 DEF OnItsWay, Holding
  <2>4. m.t # "write" => chan' = <<>> /\ verdict' = "ok"
    <3>1. chan' \in Seq(CmdType)  BY <1>1, HeadFacts
    <3> QED  BY <1>2, <1>3, <1>8, <3>1
  <2> QED
    BY <1>1, <1>2, <1>7, <1>8, <2>1, <2>2, <2>3, <2>4 DEF Flow, Holding, Leaving
<1> QED  BY <1>10, <1>11

\* After the loop only the gate is left, and it finds no gap.
LEMMA FlowLeaves ==
    ASSUME IInv, Flow, Exit \/ Gate  PROVE Flow' \/ ~clean'
<1>1. /\ wpc \in {"exit", "gate"} /\ wpc' \in {"gate", "done"} /\ KeepsAll
      /\ UNCHANGED <<chan, held, buffer, written>>
  BY DEF Exit, Gate
<1>2. UNCHANGED <<todo, trusted, verdict>>  BY <1>1, KeepsAllFacts
<1>3. ASSUME NEW p \in Bytes  PROVE p \in trusted \cup written /\ OnItsWay(p)'
  <2>1. OnItsWay(p) /\ chan = <<>> /\ todo = {} /\ buffer = NoBuffer /\ ~Holding
    BY <1>1 DEF Flow, Leaving, Holding
  <2>2. p \in trusted \cup written  BY <2>1, NoExtent DEF OnItsWay
  <2> QED  BY <1>1, <1>2, <2>2 DEF OnItsWay
<1>4. ~Gap  BY <1>3 DEF Gap
<1>5. clean' => werr' = werr
  <2>1. CASE Exit  BY <2>1 DEF Exit
  <2>2. CASE Gate  BY <1>4, <2>2, Zenon DEF Gate, Fault, IInv, TypeOK
  <2> QED  BY <2>1, <2>2
<1>6. werr = FALSE  BY DEF Flow, IInv, TypeOK
<1> QED  BY <1>1, <1>2, <1>3, <1>5, <1>6 DEF Flow, Holding, Leaving

\* A clean session ends with the whole file, so with Ok.
LEMMA CleanFinish ==
    ASSUME SameFile, IInv, CleanInv, len' <= FileSize, Finish  PROVE CleanInv'
<1> DEFINE ok == verdict = "ok" /\ ~werr /\ (~Known \/ LengthOk)
           r  == IF verdict = "dropped" THEN "aborted" ELSE IF ok THEN "ok" ELSE "err"
<1>1. /\ pc = "running" /\ wpc = "done" /\ verdict # "running"
      /\ pc' = "down" /\ result' = r
      /\ UNCHANGED faultVars \/ Fault("remove")
  BY DEF Finish, Over
<1>2. ASSUME clean'  PROVE r = "ok"
  <2>1. clean  BY <1>1, <1>2 DEF faultVars, Fault
  <2>2. verdict = "ok" /\ ~werr  BY <1>1, <2>1 DEF CleanInv, Flow
  <2>3. FileSize - 1 \in Bytes /\ FileSize \in Nat /\ len \in Nat
    BY ConstantFacts DEF Bytes, IInv, TypeOK
  <2>4. Good(FileSize - 1)  BY <1>1, <2>2, <2>3 DEF IInv, CoverRight
  <2>5. len = FileSize  BY <2>3, <2>4 DEF Good, CleanInv
  <2> QED  BY <2>2, <2>5 DEF LengthOk
<1> QED  BY <1>1, <1>2 DEF CleanInv, CleanSessionSucceeds

\* Every step keeps a clean session on its way to Ok.
LEMMA CleanStep ==
    ASSUME SameFile, IInv, CleanInv, [Next]_vars  PROVE CleanInv'
<1>1. len' <= FileSize  BY LengthStep DEF CleanInv
<1>2. CASE Prepare  BY <1>1, <1>2, CleanPrepare
<1>3. CASE Open  BY <1>1, <1>3, CleanOpen
<1>4. CASE Failure  BY <1>1, <1>4, FaultyStep
<1>5. CASE Finish  BY <1>1, <1>5, CleanFinish
<1>6. CASE Deliver \/ TransferOk \/ TransferWriterGone
  <2>1. pc = "running" /\ UNCHANGED <<pc, clean>>
    BY <1>6 DEF Deliver, Handover, TransferOk, TransferWriterGone, End, sessionVars, faultVars
  <2>2. ~(Flow /\ TransferWriterGone)  BY DEF TransferWriterGone, End, Flow, Leaving
  <2>3. Flow => Flow'  BY <1>6, <2>2, FlowHandover, FlowEnd DEF Deliver
  <2> QED  BY <1>1, <2>1, <2>3, CleanRuns
<1>7. CASE Writer
  <2>1. KeepsAll /\ wpc # "off"
    BY <1>7 DEF Writer, Recv, RecvClosed, Write, Record, Save, Exit, Gate
  <2>2. pc = "running" /\ pc' = pc  BY <2>1, KeepsAllFacts DEF IInv, OneAtATime
  <2>3. clean' => clean
    BY <1>7 DEF Writer, Recv, RecvClosed, Write, Record, Save, Exit, Gate, Fault, faultVars
  <2>4. ~(Flow /\ RecvClosed)  BY DEF RecvClosed, Flow
  <2>5. Flow => Flow' \/ ~clean'
    BY <1>7, <2>4, FlowRecv, FlowWrites, FlowLeaves DEF Writer
  <2> QED  BY <1>1, <2>2, <2>3, <2>5, CleanRuns
<1>8. CASE Finished \/ UNCHANGED vars
  <2>1. /\ UNCHANGED <<trusted, todo, verdict, chan, wpc, held, buffer, written, werr>>
        /\ UNCHANGED <<pc, session, result, clean>>
    BY <1>8, Zenon DEF Finished, vars, planVars, writerVars, transferVars, sessionVars,
                       faultVars
  <2>2. Flow => Flow'
    <3>1. \A p \in Bytes : OnItsWay(p) => OnItsWay(p)'  BY <2>1 DEF OnItsWay, Holding
    <3> QED  BY <2>1, <3>1 DEF Flow, Holding, Leaving
  <2> QED  BY <1>1, <2>1, <2>2 DEF CleanInv, CleanSessionSucceeds
<1> QED  BY <1>2, <1>3, <1>4, <1>5, <1>6, <1>7, <1>8 DEF Next

\* A session without a fault returns Ok, whatever earlier sessions left behind:
\* no byte is lost between the workers, the channel, the coalesced buffer and the
\* file, TerminateAll overtakes nothing, and the gate and the length check do not
\* refuse a whole file.
THEOREM CleanSessionsSucceed ==
    ASSUME SameFile, NoLonger  PROVE Spec => []CleanSessionSucceeds
<1>1. ASSUME Init  PROVE CleanInv
  <2>1. len = 0 \/ len \in InitLens  BY <1>1 DEF Init
  <2>2. len = 0 \/ len \in 0 .. FileSize  BY <2>1 DEF NoLonger
  <2>3. len <= FileSize  BY <2>2, ConstantFacts
  <2>4. pc = "down" /\ session = 0  BY <1>1 DEF Init
  <2> QED  BY <2>3, <2>4 DEF CleanInv, CleanSessionSucceeds
<1>2. IInv /\ CleanInv /\ [Next]_vars => CleanInv'  BY CleanStep
<1>3. CleanInv => CleanSessionSucceeds  BY DEF CleanInv
<1> QED  BY <1>1, <1>2, <1>3, Invariance, PTL DEF Spec
-----------------------------------------------------------------------------
(* Storage implements Delivery: every buffer on its way to the file holds right
   bytes, and the coverage gate passed only a full file. *)

\* The same disk has the same right bytes.
LEMMA SameDisk ==
    ASSUME UNCHANGED <<exists, len, data, remote>>  PROVE OnDisk' = OnDisk
BY DEF OnDisk

\* A step that leaves the disk, the phase and the outcome alone is a stutter.
LEMMA Stutters ==
    ASSUME UNCHANGED <<exists, len, data, remote, pc, result>>
    PROVE  UNCHANGED Promise!vars
BY SameDisk DEF Promise!vars

\* A step of Storage that is none of Delivery, by the variables it leaves alone.
LEMMA InnerSteps ==
    ASSUME \/ Deliver \/ TransferOk \/ TransferWriterGone
           \/ TransferFails \/ TransferLies \/ Abort
           \/ Recv \/ RecvClosed \/ Record \/ RecordFails \/ Save \/ SaveFails
           \/ Exit \/ ExitFails \/ Gate
           \/ UNCHANGED vars
    PROVE  UNCHANGED Promise!vars
<1> USE DEF fileVars, sessionVars
<1>1. CASE Deliver \/ Abort
  BY <1>1, Stutters, Zenon DEF Deliver, Handover, Abort
<1>2. CASE TransferOk \/ TransferWriterGone \/ TransferFails \/ TransferLies
  BY <1>2, Stutters, Zenon DEF TransferOk, TransferWriterGone, TransferFails, TransferLies, End
<1>3. CASE Recv \/ RecvClosed \/ Record \/ Save
  BY <1>3, Stutters, Zenon DEF Recv, RecvClosed, Record, Save, KeepsAll
<1>4. CASE RecordFails \/ SaveFails
  BY <1>4, Stutters, Zenon DEF RecordFails, SaveFails, WriterBreaks, KeepsAll
<1>5. CASE Exit \/ ExitFails \/ Gate
  BY <1>5, Stutters, Zenon DEF Exit, ExitFails, Gate, KeepsAll
<1>6. CASE UNCHANGED vars
  BY <1>6, Stutters, Zenon DEF vars
<1> QED  BY <1>1, <1>2, <1>3, <1>4, <1>5, <1>6

\* prepare does not touch the file.
LEMMA PlanRefines ==
    ASSUME PrepareOff \/ PrepareFresh \/ PrepareResume  PROVE Promise!Plan
<1>1. /\ pc = "down" /\ pc' = "prepared" /\ result' = "none"
      /\ UNCHANGED <<exists, len, data, remote>>
  BY Zenon DEF PrepareOff, PrepareFresh, PrepareResume, Plan, fileVars
<1> QED  BY <1>1, SameDisk DEF Promise!Plan

\* The file is kept or truncated.
LEMMA OpenRefines == ASSUME IInv, Open  PROVE Promise!Open
<1>1. pc = "prepared" /\ pc' = "running" /\ result' = result /\ remote' = remote
  BY DEF Open, StartWriter
<1>2. CASE truncate
  <2>1. len' = 0  BY <1>2 DEF Open
  <2>2. OnDisk' = {}  BY <2>1, ConstantFacts DEF OnDisk, Bytes
  <2> QED  BY <1>1, <2>1, <2>2 DEF Promise!Open
<1>3. CASE ~truncate
  <2>1. len' = len /\ data' = data /\ exists' = TRUE  BY <1>3 DEF Open
  <2>2. exists  BY <1>1, <1>3 DEF IInv, PlanRight
  <2>3. OnDisk' = OnDisk  BY <1>1, <2>1, <2>2 DEF OnDisk
  <2> QED  BY <1>1, <2>1, <2>3 DEF Promise!Open
<1> QED  BY <1>2, <1>3

\* A right buffer that reaches the file, as a whole or in part, adds right bytes.
LEMMA PutRefines ==
    ASSUME IInv, NEW k \in 0 .. Len(buffer.bytes), Put(k), wpc = "write", KeepsAll
    PROVE  Promise!Gather
<1>1. pc = "running" /\ UNCHANGED <<pc, result, remote>> /\ remote = 1
  BY KeepsAllFacts DEF IInv, OneAtATime
<1>2. exists /\ exists' = exists /\ \A p \in Bytes : Good(p) => Good(p)'
  BY <1>1, PutFacts DEF IInv, CoverRight
<1>3. OnDisk = {p \in Bytes : Good(p)} /\ OnDisk' = {p \in Bytes : Good(p)'}
  BY <1>1, <1>2 DEF OnDisk, Good
<1>4. len' >= len
  <2>1. len \in Nat /\ buffer.off \in Nat /\ k \in Nat  BY BufferFacts DEF IInv, TypeOK
  <2> QED  BY <2>1 DEF Put, Larger
<1>5. OnDisk \subseteq OnDisk' /\ OnDisk' \subseteq Bytes  BY <1>2, <1>3
<1> QED  BY <1>1, <1>4, <1>5 DEF Promise!Gather, Promise!Bytes, Bytes

\* The steps of the writer that reach the file.
LEMMA WriteRefines == ASSUME IInv, Write \/ WriteFails  PROVE Promise!Gather
<1>1. wpc = "write" /\ KeepsAll  BY DEF Write, WriteFails
<1>2. CASE Write
  <2>1. Len(buffer.bytes) \in 0 .. Len(buffer.bytes)  BY BufferFacts
  <2> QED  BY <1>1, <1>2, <2>1, PutRefines DEF Write
<1>3. CASE WriteFails  BY <1>1, <1>3, PutRefines DEF WriteFails
<1> QED  BY <1>2, <1>3

\* A session that ends leaves the file alone.
LEMMA EndRefines ==
    ASSUME pc' = "down", result' \in {"ok", "err", "aborted"},
           UNCHANGED <<exists, len, data, remote>>,
           result' = "ok" => pc = "running" /\ Whole
    PROVE  Promise!End
<1>1. OnDisk' = OnDisk  BY SameDisk
<1>2. ASSUME result' = "ok"  PROVE pc = "running" /\ Promise!Complete
  <2>1. pc = "running" /\ exists /\ len = FileSize /\ \A p \in Bytes : data[p] = remote
    BY <1>2 DEF Whole
  <2>2. \A p \in Bytes : p < FileSize  BY ConstantFacts DEF Bytes
  <2>3. OnDisk = Bytes  BY <2>1, <2>2 DEF OnDisk
  <2> QED  BY <2>1, <2>3 DEF Promise!Complete, Promise!Bytes, Bytes
<1> QED  BY <1>1, <1>2 DEF Promise!End

\* Sessions that end early, or are killed, do not end with Ok.
LEMMA FailureRefines ==
    ASSUME PrepareFails \/ OpenFails \/ Crash  PROVE Promise!End
<1>1. /\ pc' = "down" /\ result' = "err" /\ UNCHANGED <<exists, len, data, remote>>
  BY Zenon DEF PrepareFails, OpenFails, Crash, Over, fileVars, sessionVars
<1> QED  BY <1>1, EndRefines

\* run_internal returns Ok only for a complete file.
LEMMA FinishRefines == ASSUME IInv, Known, Finish  PROVE Promise!End
<1>1. /\ pc = "running" /\ pc' = "down" /\ UNCHANGED <<exists, len, data, remote>>
      /\ result' \in {"ok", "err", "aborted"}
  BY DEF Finish, Over, fileVars
<1>2. ASSUME result' = "ok"  PROVE Whole
  <2>1. (OkIsWhole)'  BY FinishStep DEF IInv
  <2>2. Whole'  BY <1>1, <1>2, <2>1 DEF OkIsWhole
  <2> QED  BY <1>1, <2>2 DEF Whole
<1> QED  BY <1>1, <1>2, EndRefines

\* Damage from outside takes bytes away and adds none.
LEMMA DamageRefines == ASSUME IInv, Damage  PROVE Promise!Damage
<1>1. pc = "down" /\ result # "ok" /\ UNCHANGED <<pc, result, remote>> /\ exists /\ remote = 1
  BY Zenon DEF Damage, sessionVars, IInv
<1>2. len \in Nat /\ len \in 0 .. MaxLen /\ data \in [Pos -> Content] /\ MaxLen \in Nat
  BY ConstantFacts DEF IInv, TypeOK
<1>3. len' <= len /\ \A p \in Bytes : p < len' /\ data'[p] = 1 => p < len /\ data[p] = 1
  <2>1. Bytes \subseteq Pos /\ Bytes \subseteq Nat  BY ConstantFacts DEF Bytes
  <2>2. CASE len' = 0  BY <1>2, <2>1, <2>2
  <2>3. ASSUME NEW n \in 0 .. len - 1, len' = n,
               data' = [p \in Pos |-> IF p < n THEN data[p] ELSE 0]
        PROVE  len' <= len /\ \A p \in Bytes : p < len' /\ data'[p] = 1 => p < len /\ data[p] = 1
    BY <1>2, <2>1, <2>3
  <2>4. ASSUME NEW q \in 0 .. len - 1, len' = len, data' = [data EXCEPT ![q] = 0]
        PROVE  len' <= len /\ \A p \in Bytes : p < len' /\ data'[p] = 1 => p < len /\ data[p] = 1
    BY <1>2, <2>1, <2>4
  <2> QED  BY <2>2, <2>3, <2>4 DEF Damage
<1>4. OnDisk' \subseteq OnDisk  BY <1>1, <1>3 DEF OnDisk
<1> QED  BY <1>1, <1>3, <1>4 DEF Promise!Damage

\* Every step of Storage is a step of Delivery or changes nothing it can see.
LEMMA StepRefines ==
    ASSUME SameFile, IInv, [Next]_vars  PROVE [Promise!Next]_(Promise!vars)
<1> USE DEF Promise!Next
<1>1. Known /\ ~RemoteChanges /\ ~PrepareStream
  BY DEF SameFile, RemoteChanges, Fault, PrepareStream
<1>2. CASE Prepare  BY <1>1, <1>2, PlanRefines DEF Prepare
<1>3. CASE Open  BY <1>3, OpenRefines
<1>4. CASE Deliver \/ TransferOk \/ TransferWriterGone  BY <1>4, InnerSteps
<1>5. CASE Writer  BY <1>5, InnerSteps, WriteRefines DEF Writer
<1>6. CASE Finish  BY <1>1, <1>6, FinishRefines
<1>7. CASE Failure
  BY <1>1, <1>7, InnerSteps, FailureRefines, WriteRefines, DamageRefines DEF Failure
<1>8. CASE Finished \/ UNCHANGED vars  BY <1>8, InnerSteps DEF Finished
<1> QED  BY <1>2, <1>3, <1>4, <1>5, <1>6, <1>7, <1>8 DEF Next

\* Storage implements Delivery: no session loses a right byte after it opened the
\* file, and Ok means complete.
THEOREM Implements == ASSUME SameFile  PROVE Spec => Delivers
<1>1. Init => Promise!Init
  <2>1. SUFFICES ASSUME Init  PROVE Promise!Init  OBVIOUS
  <2>2. len \in Nat  BY <2>1, InitStep DEF IInv, TypeOK
  <2> QED  BY <2>1, <2>2 DEF Init, Promise!Init, OnDisk, Promise!Bytes, Bytes
<1>2. IInv /\ [Next]_vars => [Promise!Next]_(Promise!vars)  BY StepRefines
<1> QED  BY <1>1, <1>2, Invariance, PTL DEF Spec, Delivers, Promise!Spec

\* The types of Storage, with the bounds of its channel and of its file.
THEOREM StorageTypes == ASSUME SameFile  PROVE Spec => []TypeOK
<1>1. IInv => TypeOK  BY DEF IInv
<1> QED  BY <1>1, Invariance, PTL
=============================================================================

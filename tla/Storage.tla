------------------------------ MODULE Storage ------------------------------
(***************************************************************************)
(* The disk side of a download: the resume plan and the sidecar            *)
(* (resume.rs), the file writer task (util.rs) and the closing checks of   *)
(* run_internal (downloader.rs), over several sessions of one output path. *)
(*                                                                         *)
(* A session may be killed, aborted or fail at every await; the file and   *)
(* the sidecar are all that the next session finds.  The workers and the   *)
(* monitor (module Transfer) are seen as somebody who hands over buffers   *)
(* of the missing ranges in any order and ends with a verdict.             *)
(***************************************************************************)
EXTENDS Integers, Sequences, FiniteSets

CONSTANTS
    Known,         \* the server gives a Content-Length (else streaming_download)
    FileSize,      \* file_size; the length of the stream when it is not known
    SegSize,       \* DEFAULT_SEGMENT_SIZE
    MaxLen,        \* no file is longer (bound)
    InitLens,      \* lengths of a file that may be there before
    InitSides,     \* states of the sidecar before: "none", "bad"
    Lens,          \* lengths of the buffers handed to the writer
    CoalesceLimit, \* COALESCE_LIMIT
    QueueCap,      \* WRITER_QUEUE_CAP
    Batch,         \* newly hashed segments that force a save
    Switches,      \* values with_resume may get
    Versions,      \* contents the server may serve, 1 .. n
    MaxSessions,   \* bound on the sessions
    MaxFaults,     \* bound on the faults
    Faults         \* kinds of fault that may happen

Bytes == 0 .. FileSize - 1
Pos   == 0 .. MaxLen - 1
Segs  == 0 .. ((FileSize + SegSize - 1) \div SegSize) - 1
FaultKinds == {"io", "save", "remove", "net", "lie", "abort", "crash", "damage", "remote"}

ASSUME StorageAssumption ==
    /\ Known \in BOOLEAN /\ Switches \subseteq BOOLEAN
    /\ FileSize \in Nat \ {0} /\ SegSize \in Nat \ {0}
    /\ MaxLen \in Nat /\ FileSize <= MaxLen
    /\ InitLens \subseteq 0 .. MaxLen /\ InitSides \subseteq {"none", "bad"}
    /\ Lens \subseteq Nat \ {0}
    /\ CoalesceLimit \in Nat /\ QueueCap \in Nat \ {0} /\ Batch \in Nat \ {0}
    /\ Versions \subseteq Nat \ {0} /\ 1 \in Versions
    /\ MaxSessions \in Nat /\ MaxFaults \in Nat /\ Faults \subseteq FaultKinds

VARIABLES
    exists, len, data,  \* the output file: its length and its bytes (0: not ours)
    side, saved,        \* the sidecar: "none", "bad", "ok" and the hashes it keeps
    pc,                 \* the session: "down", "prepared", "running"
    session,            \* sessions started
    on,                 \* resume_enabled of the session
    truncate,           \* truncate_output
    todo,               \* bytes that no worker has handed to the writer
    trusted,            \* verified_ranges of the plan
    verdict,            \* of the transfer: "running", "ok", "err", "dropped"
    chan,               \* the writer's channel
    wpc,                \* the writer: "off", "recv", "write", "record", "save",
                        \* "exit", "gate", "done"
    held,               \* the command that made the writer write its buffer out
    buffer,             \* pending: the buffer being coalesced
    written,            \* bytes of the extents in written
    werr,               \* writer_err.is_some()
    rec,                \* ResumeRecorder.metadata: hash per segment
    cov,                \* covered_ranges: bytes written per segment
    dirty,              \* pending_segments
    remote,             \* content the server serves now
    result,             \* of the last session: "none", "ok", "err", "aborted"
    faults,             \* faults so far
    clean               \* no fault since the session began

fileVars    == <<exists, len, data>>
sideVars    == <<side, saved>>
planVars    == <<on, truncate, trusted>>
recVars     == <<rec, cov, dirty>>
writerVars  == <<wpc, held, buffer, written, werr, recVars>>
transferVars == <<todo, verdict, chan>>
sessionVars == <<pc, session, result>>
faultVars   == <<faults, clean>>
vars == <<fileVars, sideVars, planVars, writerVars, transferVars, sessionVars,
          remote, faultVars>>

Larger(a, b)  == IF a < b THEN b ELSE a
Smaller(a, b) == IF a < b THEN a ELSE b

NoBuffer == [off |-> 0, bytes |-> <<>>]
NoCmd    == [t |-> "none", b |-> NoBuffer]
WriteFile(b) == [t |-> "write", b |-> b]
TerminateAll == [t |-> "term", b |-> NoBuffer]
Closed       == [t |-> "closed", b |-> NoBuffer]
Extent(b) == b.off .. b.off + Len(b.bytes) - 1

Fault(k) == k \in Faults /\ faults < MaxFaults /\ faults' = faults + 1 /\ clean' = FALSE
-----------------------------------------------------------------------------
(* Segments and their hashes; distinct contents have distinct hashes *)

NoHash == <<>>
Blank  == [s \in Segs |-> NoHash]

\* ResumeMetadata::new: the s-th segment.
Seg(s) == s * SegSize .. Smaller((s + 1) * SegSize, FileSize) - 1

\* hash_bytes over what is on disk.
HashOf(s, d) == [p \in Seg(s) |-> d[p]]

\* Mutant of Verified: the hash is not compared.
VerifiedByLength(s) == saved[s] # NoHash /\ Seg(s) \subseteq 0 .. len - 1
\* verify_against_file keeps a segment that lies inside the file and still has
\* the hash the sidecar records.
Verified(s) ==
    saved[s] # NoHash /\ Seg(s) \subseteq 0 .. len - 1 /\ saved[s] = HashOf(s, data)

\* The ledger verify_against_file leaves.
Intact == [s \in Segs |-> IF Verified(s) THEN saved[s] ELSE NoHash]

\* Bytes of the segments that h records.
BytesOf(h) == UNION {Seg(s) : s \in {x \in Segs : h[x] # NoHash}}
-----------------------------------------------------------------------------
(* ResumePlan::prepare, and the output file opened by file_writer_task_impl *)

Plan(enabled, trunc, h) ==
    /\ pc = "down" /\ session < MaxSessions
    /\ session' = session + 1 /\ result' = "none" /\ pc' = "prepared"
    /\ on' = enabled /\ truncate' = trunc
    /\ trusted' = BytesOf(h) /\ todo' = Bytes \ BytesOf(h)
    /\ rec' = h /\ dirty' = 0
    /\ cov' = [s \in Segs |-> IF h[s] # NoHash THEN Seg(s) ELSE {}]
    /\ UNCHANGED <<fileVars, verdict, chan, wpc, held, buffer, written, werr, remote>>

\* with_resume(false): the sidecar is removed, the download starts afresh.
PrepareOff ==
    /\ Known /\ FALSE \in Switches
    /\ Plan(FALSE, TRUE, Blank)
    /\ \/ side' = "none" /\ saved' = Blank /\ faults' = faults /\ clean' = TRUE
       \/ Fault("remove") /\ UNCHANGED sideVars

\* No sidecar, one that does not decode or has another shape, or one whose file
\* is missing: the old one is removed and a blank one is saved; an error of
\* either is only logged.
PrepareFresh ==
    /\ Known /\ TRUE \in Switches
    /\ side # "ok" \/ ~exists
    /\ Plan(TRUE, TRUE, Blank)
    /\ \/ side' = "ok" /\ saved' = Blank /\ faults' = faults /\ clean' = TRUE
       \/ Fault("save") /\ side' = "none" /\ saved' = Blank
       \/ Fault("remove") /\ UNCHANGED sideVars

\* File and sidecar are there: what still has its recorded hash is kept.
PrepareResume ==
    /\ Known /\ TRUE \in Switches
    /\ side = "ok" /\ exists
    /\ Plan(TRUE, FALSE, Intact)
    /\ saved' = Intact
    /\ faults' = faults /\ clean' = TRUE
    /\ UNCHANGED side

\* Reading the file or saving the sidecar fails, or, after the save, bytes are
\* kept and the server has no Range support: the session ends.
PrepareFails ==
    /\ Known /\ TRUE \in Switches
    /\ side = "ok" /\ exists
    /\ pc = "down" /\ session < MaxSessions /\ Fault("save")
    /\ session' = session + 1 /\ result' = "err"
    /\ saved' \in {saved, Intact}
    /\ UNCHANGED <<fileVars, side, planVars, writerVars, transferVars, pc, remote>>

\* streaming_download: no plan and no recorder.
PrepareStream ==
    /\ ~Known
    /\ Plan(FALSE, TRUE, Blank)
    /\ faults' = faults /\ clean' = TRUE
    /\ UNCHANGED sideVars

StartWriter ==
    /\ pc' = "running" /\ verdict' = "running" /\ chan' = <<>>
    /\ wpc' = "recv" /\ held' = NoCmd /\ buffer' = NoBuffer
    /\ written' = {} /\ werr' = FALSE

Open ==
    /\ pc = "prepared"
    /\ exists' = TRUE
    /\ len' = IF truncate THEN 0 ELSE len
    /\ data' = IF truncate THEN [p \in Pos |-> 0] ELSE data
    /\ StartWriter
    /\ UNCHANGED <<sideVars, planVars, recVars, todo, session, result, remote, faultVars>>

OpenFails ==
    /\ pc = "prepared" /\ Fault("io")
    /\ pc' = "down" /\ result' = "err"
    /\ UNCHANGED <<fileVars, sideVars, planVars, writerVars, transferVars, session, remote>>
-----------------------------------------------------------------------------
(* The transfer, as the writer sees it *)

\* Mutant of Space: the channel is unbounded.
SpaceAlways == TRUE
Space == Len(chan) < QueueCap

\* Mutant of Rest: the offset is not advanced.
RestUnchanged(o, n) == todo
\* What is missing after the bytes from o on were handed over.
Rest(o, n) == todo \ (o .. o + n - 1)

\* A worker hands over the bytes it received from o on; streams are in order.
Handover(o, n) ==
    /\ pc = "running" /\ verdict = "running" /\ wpc # "done" /\ Space
    /\ o .. o + n - 1 \subseteq todo
    /\ Known \/ \A p \in todo : o <= p
    /\ chan' = Append(chan, WriteFile([off |-> o, bytes |-> [k \in 1 .. n |-> remote]]))
    /\ todo' = Rest(o, n)
    /\ UNCHANGED <<fileVars, sideVars, planVars, writerVars, verdict, sessionVars,
                   remote, faultVars>>

\* The transfer ends and TerminateAll is sent, behind what is in the channel.
End(v) ==
    /\ pc = "running" /\ verdict = "running"
    /\ Space \/ wpc = "done"
    /\ verdict' = v
    /\ chan' = IF wpc = "done" THEN chan ELSE Append(chan, TerminateAll)
    /\ UNCHANGED <<fileVars, sideVars, planVars, writerVars, todo, sessionVars, remote>>

TransferOk == todo = {} /\ End("ok") /\ UNCHANGED faultVars

\* A worker finds the channel closed.
TransferWriterGone == todo # {} /\ wpc = "done" /\ End("err") /\ UNCHANGED faultVars

\* The network gives up; or the monitor's ledger is full although bytes are
\* missing (Transfer's OkIsComplete does not hold).
TransferFails == Known /\ Fault("net") /\ End("err")
TransferLies  == Known /\ todo # {} /\ Fault("lie") /\ End("ok")

\* The future of the download is dropped (pause, cancel, or a stream error of
\* streaming_download): the writer is left with a channel that closes.
Abort ==
    /\ pc = "running" /\ verdict = "running" /\ Fault("abort")
    /\ verdict' = "dropped"
    /\ UNCHANGED <<fileVars, sideVars, planVars, writerVars, todo, chan, sessionVars, remote>>
-----------------------------------------------------------------------------
(* The file writer task *)

KeepsAll == UNCHANGED <<planVars, todo, verdict, sessionVars, remote>>

\* can_coalesce.
Coalesces(b) ==
    /\ buffer # NoBuffer
    /\ buffer.off + Len(buffer.bytes) = b.off
    /\ Len(buffer.bytes) + Len(b.bytes) <= CoalesceLimit

\* Mutant of Stop: the buffer is dropped when the loop ends.
StopAtOnce == IF held'.t = "write" THEN "write" ELSE "exit"
\* A buffer that is left is written out before the loop goes on or ends.
Stop == IF buffer = NoBuffer THEN "exit" ELSE "write"

\* One command is taken; a buffer that is in the way is written out first.
Recv ==
    LET m == Head(chan) IN
    /\ wpc = "recv" /\ chan # <<>>
    /\ chan' = Tail(chan)
    /\ IF m.t = "write" /\ (buffer = NoBuffer \/ Coalesces(m.b))
       THEN /\ buffer' = IF buffer = NoBuffer THEN m.b
                         ELSE [buffer EXCEPT !.bytes = @ \o m.b.bytes]
            /\ UNCHANGED <<wpc, held>>
       ELSE /\ held' = m
            /\ wpc' = Stop
            /\ UNCHANGED buffer
    /\ KeepsAll /\ UNCHANGED <<fileVars, sideVars, written, werr, recVars, faultVars>>

\* The channel is closed and empty.
RecvClosed ==
    /\ wpc = "recv" /\ chan = <<>> /\ verdict = "dropped"
    /\ held' = Closed
    /\ wpc' = Stop
    /\ KeepsAll
    /\ UNCHANGED <<fileVars, sideVars, chan, buffer, written, werr, recVars, faultVars>>

\* Mutant of Put: the file ends with the buffer.
PutCut(k) ==
    LET ext == buffer.off .. buffer.off + k - 1 IN
    /\ data' = [p \in Pos |-> IF p \in ext THEN buffer.bytes[p - buffer.off + 1] ELSE data[p]]
    /\ len' = IF k = 0 THEN len ELSE buffer.off + k
    /\ UNCHANGED exists
\* The first k bytes of the buffer reach the file.
Put(k) ==
    LET ext == buffer.off .. buffer.off + k - 1 IN
    /\ data' = [p \in Pos |-> IF p \in ext THEN buffer.bytes[p - buffer.off + 1] ELSE data[p]]
    /\ len' = IF k = 0 THEN len ELSE Larger(len, buffer.off + k)
    /\ UNCHANGED exists

\* What the loop goes on with after the buffer was written out.
Proceed ==
    IF held.t = "write" THEN wpc' = "recv" /\ buffer' = held.b
    ELSE wpc' = "exit" /\ buffer' = NoBuffer

\* seek, write_all, flush, mark_written.
Write ==
    /\ wpc = "write"
    /\ Put(Len(buffer.bytes))
    /\ written' = written \cup Extent(buffer)
    /\ IF on THEN wpc' = "record" /\ UNCHANGED buffer ELSE Proceed
    /\ KeepsAll /\ UNCHANGED <<sideVars, chan, held, werr, recVars, faultVars>>

\* The one error that is logged but not kept: write_all on TerminateAll.
Ignored == held.t = "term"

\* One of them fails; some bytes may have reached the file.
WriteFails ==
    /\ wpc = "write" /\ Fault("io")
    /\ \E k \in 0 .. Len(buffer.bytes) : Put(k)
    /\ \/ werr' = TRUE
       \/ Ignored /\ UNCHANGED werr
    /\ wpc' = "exit" /\ buffer' = NoBuffer
    /\ KeepsAll /\ UNCHANGED <<sideVars, chan, held, written, recVars>>

\* record_write: segments that are now covered are read back and hashed; the
\* sidecar is saved when Batch of them are new or a second has passed.
Record ==
    LET ext  == Extent(buffer)
        seen(s) == IF rec[s] = NoHash THEN cov[s] \cup (ext \cap Seg(s)) ELSE cov[s]
        new  == {s \in Segs : rec[s] = NoHash /\ ext \cap Seg(s) # {} /\ seen(s) = Seg(s)}
        n    == dirty + Cardinality(new)
    IN
    /\ wpc = "record"
    /\ cov' = [s \in Segs |-> seen(s)]
    /\ rec' = [s \in Segs |-> IF s \in new THEN HashOf(s, data) ELSE rec[s]]
    /\ dirty' = n
    /\ \/ new # {} /\ wpc' = "save" /\ UNCHANGED buffer
       \/ (new = {} \/ n < Batch) /\ Proceed
    /\ KeepsAll /\ UNCHANGED <<fileVars, sideVars, chan, held, written, werr, faultVars>>

WriterBreaks ==
    /\ werr' = TRUE /\ wpc' = "exit" /\ buffer' = NoBuffer
    /\ KeepsAll /\ UNCHANGED <<fileVars, sideVars, chan, held, written, recVars>>

RecordFails == wpc = "record" /\ Fault("io") /\ WriterBreaks

\* Mutant of SavedHashes: segments that are covered only in part count as done.
SavedHashesEarly == [s \in Segs |-> IF cov[s] = {} THEN NoHash ELSE HashOf(s, [p \in Pos |-> remote])]
SavedHashes == rec

\* save_atomic_async: temporary file, fsync, rename.
Save ==
    /\ wpc = "save"
    /\ side' = "ok" /\ saved' = SavedHashes /\ dirty' = 0
    /\ Proceed
    /\ KeepsAll
    /\ UNCHANGED <<fileVars, chan, held, written, werr, rec, cov, faultVars>>

SaveFails == wpc = "save" /\ Fault("save") /\ WriterBreaks

\* recorder.flush, whether or not the writer failed before.
Exit ==
    /\ wpc = "exit"
    /\ IF on /\ dirty > 0
       THEN side' = "ok" /\ saved' = SavedHashes /\ dirty' = 0
       ELSE UNCHANGED <<sideVars, dirty>>
    /\ wpc' = "gate"
    /\ KeepsAll
    /\ UNCHANGED <<fileVars, chan, held, buffer, written, werr, rec, cov, faultVars>>

ExitFails ==
    /\ wpc = "exit" /\ on /\ dirty > 0 /\ Fault("save")
    /\ werr' = TRUE /\ wpc' = "gate"
    /\ KeepsAll /\ UNCHANGED <<fileVars, sideVars, chan, held, buffer, written, recVars>>

\* Mutants of Gap: only the end of the file is looked at; the end is not looked
\* at; what the resume plan verified counts as a hole.
GapAtEnd == FileSize - 1 \notin written \cup trusted
GapInside ==
    \E p \in Bytes \ (written \cup trusted), q \in written \cup trusted : p < q
GapUntrusted == ~(Bytes \subseteq written)
\* coverage_gap: a byte neither written in this session nor verified.
Gap == ~(Bytes \subseteq written \cup trusted)

\* The last flush, which may fail, and the coverage gate; then the receiver is
\* dropped with the task.
Gate ==
    /\ wpc = "gate"
    /\ \/ werr' = (werr \/ (Known /\ Gap)) /\ UNCHANGED faultVars
       \/ ~werr /\ Fault("io") /\ werr' = TRUE
    /\ wpc' = "done"
    /\ KeepsAll
    /\ UNCHANGED <<fileVars, sideVars, chan, held, buffer, written, recVars>>
-----------------------------------------------------------------------------
(* The end of run_internal *)

Over(r) ==
    /\ pc' = "down" /\ result' = r /\ wpc' = "off" /\ verdict' = "running"
    /\ chan' = <<>> /\ held' = NoCmd /\ buffer' = NoBuffer
    /\ UNCHANGED <<planVars, written, werr, recVars, todo, session, remote>>

\* The length on disk against file_size.
LengthOk == len = FileSize

\* The writer is joined; Ok needs both results and the length on disk; then the
\* sidecar is removed, or stays when that fails.
Finish ==
    LET ok == verdict = "ok" /\ ~werr /\ (~Known \/ LengthOk) IN
    /\ pc = "running" /\ wpc = "done" /\ verdict # "running"
    /\ Over(IF verdict = "dropped" THEN "aborted" ELSE IF ok THEN "ok" ELSE "err")
    /\ \/ /\ IF ok /\ Known THEN side' = "none" /\ saved' = Blank ELSE UNCHANGED sideVars
          /\ UNCHANGED faultVars
       \/ ok /\ Known /\ Fault("remove") /\ UNCHANGED sideVars
    /\ UNCHANGED fileVars

\* The process is killed.
Crash ==
    /\ pc # "down" /\ Fault("crash")
    /\ Over("err")
    /\ UNCHANGED <<fileVars, sideVars>>

\* Data that was never synced is lost with a power failure, or somebody edits,
\* cuts or deletes the file between sessions.
Damage ==
    /\ pc = "down" /\ exists /\ result # "ok" /\ Fault("damage")
    /\ \/ exists' = FALSE /\ len' = 0 /\ data' = [p \in Pos |-> 0]
       \/ \E n \in 0 .. len - 1 :
             /\ len' = n /\ data' = [p \in Pos |-> IF p < n THEN data[p] ELSE 0]
             /\ UNCHANGED exists
       \/ \E p \in 0 .. len - 1 :
             /\ data' = [data EXCEPT ![p] = 0]
             /\ UNCHANGED <<exists, len>>
    /\ UNCHANGED <<sideVars, planVars, writerVars, transferVars, sessionVars, remote>>

\* The file on the server is replaced by another of the same size.
RemoteChanges ==
    /\ pc = "down" /\ result # "ok" /\ Fault("remote")
    /\ remote' \in Versions \ {remote}
    /\ UNCHANGED <<fileVars, sideVars, planVars, writerVars, transferVars, sessionVars>>
-----------------------------------------------------------------------------
(* Specification *)

Init ==
    /\ data = [p \in Pos |-> 0]
    /\ \/ exists = FALSE /\ len = 0
       \/ exists = TRUE /\ len \in InitLens
    /\ side \in InitSides /\ saved = Blank
    /\ pc = "down" /\ session = 0 /\ on = FALSE /\ truncate = FALSE
    /\ todo = {} /\ trusted = {} /\ verdict = "running" /\ chan = <<>>
    /\ wpc = "off" /\ held = NoCmd /\ buffer = NoBuffer /\ written = {} /\ werr = FALSE
    /\ rec = Blank /\ cov = [s \in Segs |-> {}] /\ dirty = 0
    /\ remote = 1 /\ result = "none" /\ faults = 0 /\ clean = TRUE

Prepare == PrepareOff \/ PrepareFresh \/ PrepareResume \/ PrepareStream
Writer  == Recv \/ RecvClosed \/ Write \/ Record \/ Save \/ Exit \/ Gate
Deliver == \E o \in Bytes, n \in Lens : Handover(o, n)

Failure ==
    \/ PrepareFails \/ OpenFails \/ TransferFails \/ TransferLies \/ Abort
    \/ WriteFails \/ RecordFails \/ SaveFails \/ ExitFails
    \/ Crash \/ Damage \/ RemoteChanges

\* No session is left.
Finished == pc = "down" /\ session = MaxSessions /\ UNCHANGED vars

Next ==
    \/ Prepare \/ Open \/ Deliver \/ TransferOk \/ TransferWriterGone
    \/ Writer \/ Finish \/ Failure \/ Finished

Spec == Init /\ [][Next]_vars

\* The scheduler runs the session's tasks; the network delivers what is missing
\* or fails.
FairSpec ==
    /\ Spec
    /\ WF_vars(Open \/ Deliver \/ TransferOk \/ TransferWriterGone \/ Finish)
    /\ WF_vars(Writer)
-----------------------------------------------------------------------------
(* Properties *)

Content == {0} \cup Versions
BufferType == [off : Nat, bytes : Seq(Content)]
CmdType == [t : {"none", "write", "term", "closed"}, b : BufferType]

\* Types; the channel keeps its capacity.
TypeOK ==
    /\ exists \in BOOLEAN /\ len \in 0 .. MaxLen /\ data \in [Pos -> Content]
    /\ side \in {"none", "bad", "ok"}
    /\ \A s \in Segs : saved[s] = NoHash \/ saved[s] \in [Seg(s) -> Content]
    /\ pc \in {"down", "prepared", "running"} /\ session \in 0 .. MaxSessions
    /\ on \in BOOLEAN /\ truncate \in BOOLEAN
    /\ todo \subseteq Bytes /\ trusted \subseteq Bytes
    /\ verdict \in {"running", "ok", "err", "dropped"}
    /\ chan \in Seq(CmdType) /\ Len(chan) <= QueueCap
    /\ wpc \in {"off", "recv", "write", "record", "save", "exit", "gate", "done"}
    /\ held \in CmdType /\ buffer \in BufferType
    /\ written \subseteq Bytes /\ werr \in BOOLEAN
    /\ \A s \in Segs : rec[s] = NoHash \/ rec[s] \in [Seg(s) -> Content]
    /\ cov \in [Segs -> SUBSET Bytes] /\ dirty \in Nat
    /\ remote \in Versions /\ result \in {"none", "ok", "err", "aborted"}
    /\ faults \in 0 .. MaxFaults /\ clean \in BOOLEAN

Whole == exists /\ len = FileSize /\ \A p \in Bytes : data[p] = remote

\* A session that returns Ok leaves the whole file, whatever crashes, damage,
\* write errors, stale sidecars and wrong verdicts of the monitor came before.
OkIsWhole == pc = "down" /\ result = "ok" => Whole

\* What a session does not fetch again is on disk while it runs: the plan trusts
\* no byte that the file lost.
TrustedIsOnDisk ==
    pc = "running" => \A p \in trusted : p < len /\ data[p] = remote

\* The sidecar is never ahead of the file: without damage, a segment whose hash
\* was persisted is on disk, so the next session resumes all of them.
SidecarNotAhead ==
    side = "ok" /\ exists => \A s \in Segs :
        saved[s] # NoHash => Seg(s) \subseteq 0 .. len - 1 /\ saved[s] = HashOf(s, data)

\* The coverage gate makes the closing length check find a file that is too
\* short: the tail refill has nothing to do.
NoTailGap ==
    pc = "running" /\ wpc = "done" /\ verdict = "ok" /\ ~werr => len >= FileSize

\* A session in which nothing went wrong returns Ok.
CleanSessionSucceeds == pc = "down" /\ session > 0 /\ clean => result = "ok"

\* The sessions of a path gather one file: while a session runs no byte that is
\* right on disk is lost again, whatever is written, coalesced, retried or fails,
\* and it ends with Ok only with all of them and the exact length.
OnDisk == {p \in Bytes : exists /\ p < len /\ data[p] = remote}
Promise == INSTANCE Delivery
    WITH phase <- pc, outcome <- result, have <- OnDisk, length <- len
Delivers == Promise!Spec

\* Every session comes to an end: no deadlock between a full channel, a writer
\* that died and the TerminateAll behind the buffers.
SessionEnds == pc # "down" ~> pc = "down"
-----------------------------------------------------------------------------
(* What the repository says of the code and the code does not keep *)

\* The file of a session that returns Ok has one version of the content.
OneVersion ==
    pc = "down" /\ result = "ok" => \A p, q \in Bytes : data[p] = data[q]

\* A session that finds a sidecar but no file does not download.
MissingTargetStops ==
    [][side = "ok" /\ ~exists /\ pc = "down" => pc' = "down"]_vars
=============================================================================

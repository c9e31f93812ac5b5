------------------------------ MODULE Ranges ------------------------------
(***************************************************************************)
(* The lists of byte ranges a download is accounted in: what the resume    *)
(* plan asks for and trusts (resume.rs), how it is split among workers     *)
(* (downloader.rs, chunk.rs), what the writer has written and what the     *)
(* recorder has covered (util.rs, resume.rs), and the coverage gate.       *)
(*                                                                         *)
(* Ranges are inclusive pairs <<start, end>>, as in the code.  Storage and *)
(* Transfer account in sets of bytes; here the list algorithms are checked *)
(* against those sets over the sessions of a download.                     *)
(***************************************************************************)
EXTENDS Integers, SequencesExt

CONSTANTS
    FileSizes,    \* sizes of the file
    SegSize,      \* segment_size
    MinChunk,     \* MIN_CHUNK_SIZE
    Workers,      \* workers
    MaxRanges,    \* ranges of one session (bound)
    MaxSessions   \* sessions (bound)

ASSUME RangesAssumption ==
    /\ FileSizes \subseteq Nat \ {0} /\ SegSize \in Nat \ {0} /\ MinChunk \in Nat \ {0}
    /\ Workers \in Nat \ {0} /\ MaxRanges \in Nat /\ MaxSessions \in Nat

VARIABLES
    size,      \* file_size
    session,   \* sessions started
    hashed,    \* segments with a hash
    trusted,   \* trusted_ranges of the writer
    ranges,    \* of the workers: from the next byte to the end
    written,   \* written: ranges on disk in this session
    covered,   \* covered_ranges of each segment
    put        \* history: the bytes written in this session

vars == <<size, session, hashed, trusted, ranges, written, covered, put>>

Larger(a, b)  == IF a < b THEN b ELSE a
Smaller(a, b) == IF a < b THEN a ELSE b

Bytes    == 0 .. size - 1
BytesOf(r)  == r[1] .. r[2]
BytesIn(rs) == UNION {BytesOf(rs[k]) : k \in DOMAIN rs}
SizeOf(r) == r[2] - r[1] + 1
-----------------------------------------------------------------------------
(* Lists of ranges *)

\* Mutant of Touches: ranges that only meet are not joined.
TouchesOverlap(r, last) == r[1] <= last[2]
Touches(r, last) == r[1] <= last[2] + 1

\* collect_contiguous_ranges: a range that touches the last one extends it.
Joined(acc, r) ==
    IF acc # <<>> /\ Touches(r, Last(acc))
    THEN [acc EXCEPT ![Len(acc)][2] = Larger(@, r[2])]
    ELSE Append(acc, r)
Collected(rs) == FoldLeft(Joined, <<>>, rs)

\* mark_written and add_covered_range: the new range is sorted in, the list
\* joined again.
Added(rs, r) ==
    LET before == SelectSeq(rs, LAMBDA x : x[1] <= r[1])
        after  == SelectSeq(rs, LAMBDA x : x[1] > r[1])
    IN  Collected(Append(before, r) \o after)

\* Mutant of Covers: the end is left out.
CoversShort(rs, seg) ==
    \E k \in DOMAIN rs : rs[k][1] <= seg[1] /\ rs[k][2] + 1 >= seg[2]
\* covers_segment.
Covers(rs, seg) ==
    \E k \in DOMAIN rs : rs[k][1] <= seg[1] /\ rs[k][2] >= seg[2]

NoGap == <<>>

\* The first range of the sorted list that begins behind the cursor, the end of
\* what the ranges before it reach.
Reach(ext, k) == Max({0} \cup {ext[j][2] + 1 : j \in 1 .. k - 1})

\* Mutant of Holes: the range has to begin one byte further.
HolesWide(ext) == {k \in DOMAIN ext : ext[k][1] > Reach(ext, k) + 1}
Holes(ext) == {k \in DOMAIN ext : ext[k][1] > Reach(ext, k)}

\* coverage_gap: the first hole that neither list covers.
CoverageGap(w, t) ==
    LET ext == SortSeq(w \o t, LAMBDA a, b : a[1] < b[1])
        all == Reach(ext, Len(ext) + 1)
    IN  IF Holes(ext) # {}
        THEN LET k == Min(Holes(ext)) IN <<Reach(ext, k), ext[k][1] - 1>>
        ELSE IF all < size THEN <<all, size - 1>> ELSE NoGap
-----------------------------------------------------------------------------
(* The plan *)

\* ResumeMetadata::new.
SegCount == (size + SegSize - 1) \div SegSize
Segment(s) == <<s * SegSize, Smaller((s + 1) * SegSize - 1, size - 1)>>
Segs == 0 .. SegCount - 1

\* remaining_ranges: the segments without a hash, joined.
Remaining(h) ==
    Collected(SelectSeq([k \in 1 .. SegCount |-> Segment(k - 1)],
                        LAMBDA r : r[1] \div SegSize \notin h))

\* Mutant of Cursor: one byte behind.
CursorBehind(rs, k) == IF k = 1 THEN 0 ELSE rs[k - 1][2]
Cursor(rs, k) == IF k = 1 THEN 0 ELSE rs[k - 1][2] + 1

\* ResumePlan::verified_ranges: what lies between the remaining ranges.
VerifiedRanges(rs) ==
    LET gaps == [k \in 1 .. Len(rs) + 1 |->
                    <<Cursor(rs, k), IF k > Len(rs) THEN size - 1 ELSE rs[k][1] - 1>>]
    IN  SelectSeq(gaps, LAMBDA r : r[1] <= r[2])

\* A range cut after its first keep bytes.
Halved(r, keep) == <<<<r[1], r[1] + keep - 1>>, <<r[1] + keep, r[2]>>>>
CutAt(rs, k, keep) ==
    SubSeq(rs, 1, k - 1) \o Halved(rs[k], keep) \o SubSeq(rs, k + 1, Len(rs))

TooSmall(r) == SizeOf(r) < 2 * MinChunk

\* split_resume_ranges: while there are fewer ranges than workers, the last of
\* the largest is halved, unless it is too small.
SplitLargest(rs) ==
    LET k == Max({j \in DOMAIN rs : \A i \in DOMAIN rs : SizeOf(rs[i]) <= SizeOf(rs[j])})
    IN  IF rs = <<>> \/ Len(rs) >= Workers \/ TooSmall(rs[k]) THEN rs
        ELSE CutAt(rs, k, SizeOf(rs[k]) \div 2)
SplitRanges(rs) == FoldLeft(LAMBDA acc, k : SplitLargest(acc), rs, [k \in 1 .. Workers |-> k])

\* prepare: verify_against_file may have discarded some of the hashes.
Plan(h) ==
    /\ hashed' = h
    /\ trusted' = VerifiedRanges(Remaining(h))
    /\ ranges' = SplitRanges(Remaining(h))
    /\ written' = <<>> /\ put' = {}
    /\ covered' = [s \in Segs |-> IF s \in h THEN <<Segment(s)>> ELSE <<>>]
-----------------------------------------------------------------------------
(* Workers, writer and recorder *)

\* record_write: the segments the range meets and that have no hash yet.
Met(r) == {s \in Segs \ hashed : s \in r[1] \div SegSize .. r[2] \div SegSize}
Overlap(r, seg) == <<Larger(r[1], seg[1]), Smaller(r[2], seg[2])>>

\* A worker hands over n bytes, which are written, marked and recorded.
\* The writer has flushed them, so a covered segment can be read and is hashed.
Write(k, n) ==
    LET r == <<ranges[k][1], ranges[k][1] + n - 1>> IN
    /\ n <= SizeOf(ranges[k])
    /\ ranges' = IF n = SizeOf(ranges[k]) THEN RemoveAt(ranges, k)
                 ELSE [ranges EXCEPT ![k][1] = @ + n]
    /\ written' = Added(written, r)
    /\ covered' = [s \in Segs |->
          IF s \in Met(r) THEN Added(covered[s], Overlap(r, Segment(s))) ELSE covered[s]]
    /\ hashed' = hashed \cup {s \in Met(r) : Covers(covered'[s], Segment(s))}
    /\ put' = put \cup BytesOf(r)
    /\ UNCHANGED <<size, session, trusted>>

\* split_range_skewed: the worker keeps half of what is left, or an eighth but
\* not less than a minimal chunk.
Keeps(r, skewed) ==
    IF skewed THEN Smaller(Larger(SizeOf(r) \div 8, MinChunk), SizeOf(r) - MinChunk)
    ELSE SizeOf(r) \div 2

Bisect(k, skewed) ==
    /\ Len(ranges) < MaxRanges /\ ~TooSmall(ranges[k])
    /\ ranges' = CutAt(ranges, k, Keeps(ranges[k], skewed))
    /\ UNCHANGED <<size, session, hashed, trusted, written, covered, put>>

\* The session ends at any point; the next one starts from the hashes.
Resume ==
    /\ session < MaxSessions /\ session' = session + 1
    /\ \E h \in SUBSET hashed : Plan(h)
    /\ UNCHANGED size

Done == session = MaxSessions /\ ranges = <<>> /\ UNCHANGED vars
-----------------------------------------------------------------------------
(* Specification *)

Init ==
    /\ size \in FileSizes /\ session = 0 /\ hashed = {}
    /\ trusted = <<>> /\ ranges = <<>> /\ written = <<>> /\ put = {}
    /\ covered = [s \in Segs |-> <<>>]

Next ==
    \/ Resume \/ Done
    \/ \E k \in DOMAIN ranges :
          \/ \E n \in 1 .. SizeOf(ranges[k]) : Write(k, n)
          \/ \E skewed \in BOOLEAN : Bisect(k, skewed)

Spec == Init /\ [][Next]_vars
-----------------------------------------------------------------------------
(* Properties *)

IsRange(r) == r[1] \in Bytes /\ r[2] \in Bytes /\ r[1] <= r[2]
TypeOK ==
    /\ size \in FileSizes /\ session \in 0 .. MaxSessions /\ hashed \subseteq Segs
    /\ \A r \in ToSet(trusted) \cup ToSet(ranges) \cup ToSet(written) : IsRange(r)
    /\ \A s \in Segs : \A r \in ToSet(covered[s]) : IsRange(r)
    /\ put \subseteq Bytes

\* Through plans, splits and writes every byte of the file has exactly one owner:
\* it is trusted, written in this session, or in the range of one worker.
OneOwner ==
    session > 0 => \A p \in Bytes :
        Cardinality({k \in DOMAIN ranges : p \in BytesOf(ranges[k])})
          + (IF p \in BytesIn(trusted) THEN 1 ELSE 0)
          + (IF p \in put THEN 1 ELSE 0) = 1

\* The list of written ranges is the set of written bytes in its shortest form:
\* in order, with a hole between any two ranges.
LedgerExact ==
    /\ BytesIn(written) = put
    /\ \A k \in 1 .. Len(written) - 1 : written[k][2] + 1 < written[k + 1][1]

\* A segment has a hash exactly when all of its bytes were verified or written:
\* none too early, and none is forgotten whatever the order of the writes.
RecordedExact ==
    \A s \in Segs : s \in hashed <=> BytesOf(Segment(s)) \subseteq put \cup BytesIn(trusted)

\* The coverage gate passes exactly the files without a hole, and reports the
\* first hole in full.
GateExact ==
    LET gap == CoverageGap(written, trusted)
        missing == Bytes \ (put \cup BytesIn(trusted))
    IN  IF missing = {} THEN gap = NoGap
        ELSE /\ gap[1] = Min(missing) /\ BytesOf(gap) \subseteq missing
             /\ gap[2] + 1 \notin missing
=============================================================================

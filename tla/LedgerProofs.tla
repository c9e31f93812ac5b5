--------------------------- MODULE LedgerProofs ---------------------------
(***************************************************************************)
(* What the ledger of the monitor shows: the downloaded total never goes   *)
(* back, and a download whose messages all arrive is never short of bytes  *)
(* at the end.  Progress travels on two channels and may be overtaken by a *)
(* failure, a split or the retry of its own id; the invariant relates, for *)
(* each id, its ledger entry, its messages on both channels and whoever    *)
(* holds the rest of its range.                                            *)
(***************************************************************************)
EXTENDS ClaimProofs

\* The events that end a worker, and the messages in a channel.
Ends == {"failed", "complete"}
Queued(q) == {q[k] : k \in 1 .. Len(q)}

\* The messages of id i that the monitor has not read, and which are progress.
Mail(i) == {m \in Queued(reliable) : m.id = i}
News(i) == {m \in Queued(info) : m.id = i}
Reports(i) == {m \in Mail(i) : m.t = "progress"} \cup News(i)

\* Bytes s .. e of the range of id i are still to be fetched.
Rest(i, s, e) ==
    \/ Live(i) /\ s = chunk[i].off /\ e = chunk[i].end
    \/ \E m \in Mail(i) : m.t = "failed" /\ s = m.start /\ e = m.end
    \/ \E r \in Retries : r.id = i /\ s = r.start /\ e = r.end

\* How far the entry or a message of id i says it came, and the ends (exclusive)
\* that an entry or a message sets to its range.
Reach(i, x) ==
    \/ st[i].on /\ x = st[i].start + st[i].dl
    \/ \E m \in Reports(i) : x = m.start + m.dl
Limit(i, y) ==
    \/ st[i].on /\ y = st[i].end + 1
    \/ \E m \in Reports(i) : y = m.end + 1
    \/ \E m \in Mail(i) : m.t = "bisected" /\ y = m.start

\* No report goes past an end, or past the first byte still to be fetched.
InBounds(i) ==
    /\ \A x, y \in Nat : Reach(i, x) /\ Limit(i, y) => x <= y
    /\ \A s, e \in Nat : Rest(i, s, e) =>
          \A x \in Nat : (Reach(i, x) => x <= s) /\ (Limit(i, x) => e < x)
    /\ ~st[i].on => st[i].dl = 0

\* The reports on their way are of one run of worker i, the entry of this run
\* or of an earlier one.
SameStart(i) ==
    /\ \A m, n \in Reports(i) : m.start = n.start
    /\ \A m \in Reports(i) : /\ st[i].on => st[i].start <= m.start
                             /\ Live(i) => m.start = chunk[i].start
    /\ st[i].on /\ Live(i) => st[i].start <= chunk[i].start

\* An id that reported its end is gone; one that waits for a retry has no event
\* on its way, nor progress when the monitor is idle; a new id has nothing.
Standing(i) ==
    /\ EndReported(i) => ~Live(i)
    /\ (\E r \in Retries : r.id = i) => Mail(i) = {} /\ (owed = "any" => News(i) = {})
    /\ Expected(i) => i \notin retired
    /\ i >= nextId => ~st[i].on /\ i \notin retired /\ Mail(i) = {} /\ News(i) = {}
    /\ Live(i) /\ chunk[i].pc = "req" => chunk[i].off = chunk[i].start /\ chunk[i].rep = 0

\* Unless messages were lost, what a worker believes reported is in the ledger
\* or on its way; a worker that failed has reported everything.
Told(i) == ~lost /\ Live(i) =>
    ((chunk[i].rep > 0 \/ (chunk[i].pc = "failing" /\ chunk[i].off > chunk[i].start)) =>
        (st[i].on \/ Reports(i) # {}))

\* The end of worker i is its last event, and the final progress follows every
\* split and precedes the completion.
ProgressAt(k, i) == reliable[k].t = "progress" /\ reliable[k].id = i
Finishing(i) ==
    chunk[i].pc = "completing" \/ \E m \in Mail(i) : m.t = "complete"
LastIsEnd(i) ==
    \A j, k \in Pos :
        reliable[j].id = i /\ reliable[k].id = i /\ reliable[k].t \in Ends => j <= k
FinalKept(i) == Finishing(i) =>
    /\ st[i].on \/ \E k \in Pos : ProgressAt(k, i)
    /\ \A j \in Pos : reliable[j].t = "bisected" /\ reliable[j].id = i =>
          \E k \in Pos : j < k /\ ProgressAt(k, i)

\* The inductive invariant, per id: numbers and places, then the order of events.
Consistent(i) == InBounds(i) /\ SameStart(i) /\ Standing(i) /\ Told(i)
Ordered(i) == LastIsEnd(i) /\ FinalKept(i)
LedgerInv == Working => \A i \in Ids : Consistent(i) /\ Ordered(i)
-----------------------------------------------------------------------------
(* The channels as sets of messages *)

\* A message is appended.
LEMMA QueuedAppend ==
    ASSUME NEW q \in Seq(MsgType), NEW m \in MsgType
    PROVE  Queued(Append(q, m)) = Queued(q) \cup {m}
<1>1. /\ Len(q) \in Nat /\ Len(Append(q, m)) = Len(q) + 1
      /\ \A k \in 1 .. Len(q) : Append(q, m)[k] = q[k]
      /\ Append(q, m)[Len(q) + 1] = m
  OBVIOUS
<1>2. ASSUME NEW x \in Queued(Append(q, m))  PROVE x \in Queued(q) \cup {m}
  <2>1. PICK k \in 1 .. Len(q) + 1 : x = Append(q, m)[k]  BY <1>1 DEF Queued
  <2>2. k = Len(q) + 1 \/ k \in 1 .. Len(q)  BY <1>1
  <2> QED  BY <1>1, <2>1, <2>2 DEF Queued
<1>3. ASSUME NEW x \in Queued(q)  PROVE x \in Queued(Append(q, m))
  <2>1. PICK k \in 1 .. Len(q) : x = q[k]  BY DEF Queued
  <2>2. k \in 1 .. Len(q) + 1  BY <1>1
  <2> QED  BY <1>1, <2>1, <2>2 DEF Queued
<1>4. m \in Queued(Append(q, m))
  <2>1. Len(q) + 1 \in 1 .. Len(q) + 1  BY <1>1
  <2> QED  BY <1>1, <2>1 DEF Queued
<1> QED  BY <1>2, <1>3, <1>4

\* The first message is taken.
LEMMA QueuedTail ==
    ASSUME NEW q \in Seq(MsgType), q # <<>>
    PROVE  /\ Queued(q) = Queued(Tail(q)) \cup {Head(q)}
           /\ Head(q) \in MsgType /\ Head(q) = q[1]
<1>1. /\ Len(q) \in Nat /\ Len(q) >= 1 /\ Len(Tail(q)) = Len(q) - 1 /\ Head(q) = q[1]
      /\ \A k \in 1 .. Len(q) - 1 : Tail(q)[k] = q[k + 1]
      /\ q[1] \in MsgType
  OBVIOUS
<1>2. ASSUME NEW x \in Queued(q)  PROVE x \in Queued(Tail(q)) \cup {Head(q)}
  <2>1. PICK k \in 1 .. Len(q) : x = q[k]  BY DEF Queued
  <2>2. CASE k = 1  BY <1>1, <2>1, <2>2
  <2>3. CASE k # 1
    <3>1. k - 1 \in 1 .. Len(q) - 1 /\ Tail(q)[k - 1] = q[k]  BY <1>1, <2>3
    <3> QED  BY <1>1, <2>1, <3>1 DEF Queued
  <2> QED  BY <2>2, <2>3
<1>3. ASSUME NEW x \in Queued(Tail(q))  PROVE x \in Queued(q)
  <2>1. PICK k \in 1 .. Len(q) - 1 : x = Tail(q)[k]  BY <1>1 DEF Queued
  <2>2. k + 1 \in 1 .. Len(q) /\ x = q[k + 1]  BY <1>1, <2>1
  <2> QED  BY <2>2 DEF Queued
<1>4. Head(q) \in Queued(q)
  <2>1. 1 \in 1 .. Len(q)  BY <1>1
  <2> QED  BY <1>1, <2>1 DEF Queued
<1> QED  BY <1>1, <1>2, <1>3, <1>4

\* The messages of an id have the type of messages, their fields and those of
\* an entry are numbers.
MailOK ==
    /\ \A i : \A m \in Mail(i) : m \in MsgType /\ m.id = i
    /\ \A i : \A m \in News(i) : m \in MsgType /\ m.id = i
    /\ \A i : \A m \in Reports(i) : m \in MsgType /\ m.id = i
    /\ \A i : EndReported(i) <=> \E m \in Mail(i) : m.t \in Ends
NumbersOK ==
    /\ \A i : \A m \in Mail(i) : m.start \in Nat /\ m.end \in Nat /\ m.dl \in Nat
    /\ \A i : \A m \in Reports(i) : m.start \in Nat /\ m.end \in Nat /\ m.dl \in Nat
    /\ \A i \in Ids : /\ st[i].start \in Nat /\ st[i].end \in Nat /\ st[i].dl \in Nat
                      /\ st[i].on \in BOOLEAN
    /\ \A r \in Retries : r.id \in Ids /\ r.start \in Nat /\ r.end \in Nat
    /\ \A i \in Ids : i \in Nat
    /\ nextId \in Nat

\* The typed queues give all of this.
LEMMA MailTypes == TypeOK => MailOK
<1> SUFFICES ASSUME TypeOK  PROVE MailOK  OBVIOUS
<1>1. reliable \in Seq(MsgType) /\ info \in Seq(MsgType)  BY DEF TypeOK
<1>2. \A m \in Queued(reliable) : m \in MsgType  BY <1>1 DEF Queued
<1>3. \A m \in Queued(info) : m \in MsgType  BY <1>1 DEF Queued
<1>4. DOMAIN reliable = 1 .. Len(reliable)  BY <1>1
<1>5. \A i : EndReported(i) <=> \E m \in Mail(i) : m.t \in Ends
  BY <1>4 DEF EndReported, Mail, Queued, Ends
<1> QED  BY <1>2, <1>3, <1>5 DEF Mail, News, Reports, MailOK

\* The same after a step.
LEMMA MailTypesNext == TypeOK' => MailOK'
BY MailTypes, PTL

\* So do the typed records.
LEMMA Numbers == TypeOK => NumbersOK
<1> SUFFICES ASSUME TypeOK  PROVE NumbersOK  OBVIOUS
<1>1. \A m \in MsgType : m.start \in Nat /\ m.end \in Nat /\ m.dl \in Nat  BY DEF MsgType
<1>2. \A i \in Ids : st[i] \in EntryType  BY DEF TypeOK, EntryType
<1>3. \A e \in EntryType : e.start \in Nat /\ e.end \in Nat /\ e.dl \in Nat /\ e.on \in BOOLEAN
  BY DEF EntryType
<1>4. \A r \in Retries : r.id \in Ids /\ r.start \in Nat /\ r.end \in Nat
  BY DEF TypeOK, Retries, RangeType
<1>5. nextId \in Nat /\ \A i \in Ids : i \in Nat  BY ConstantTypes DEF TypeOK, Ids
<1> QED  BY <1>1, <1>2, <1>3, <1>4, <1>5, MailTypes DEF NumbersOK, MailOK

\* The same after a step.
LEMMA NumbersNext == TypeOK' => NumbersOK'
BY Numbers, PTL
-----------------------------------------------------------------------------
(* Ids that a step leaves alone *)

\* The step concerns id j in nothing but perhaps a command.
Same(j) ==
    /\ Mail(j)' = Mail(j) /\ News(j)' = News(j) /\ st'[j] = st[j]
    /\ Live(j)' <=> Live(j)
    /\ Live(j) => /\ chunk'[j].pc = chunk[j].pc /\ chunk'[j].start = chunk[j].start
                  /\ chunk'[j].end = chunk[j].end /\ chunk'[j].off = chunk[j].off
                  /\ chunk'[j].rep = chunk[j].rep
    /\ \A r : r.id = j => (r \in Retries' <=> r \in Retries)
    /\ j \in retired' <=> j \in retired
    /\ j >= nextId' => j >= nextId

\* The monitor is idle only if it was before or has read everything.
Attentive == owed' = "any" => owed = "any" \/ info' = <<>>

\* Everything said of such an id stays true.
LEMMA SameFacts ==
    ASSUME NEW j, Same(j)
    PROVE  /\ Reports(j)' = Reports(j)
           /\ \A x : Reach(j, x)' <=> Reach(j, x)
           /\ \A x : Limit(j, x)' <=> Limit(j, x)
           /\ \A s, e : Rest(j, s, e)' <=> Rest(j, s, e)
<1>1. Reports(j)' = Reports(j)  BY DEF Same, Reports
<1>2. \A x : Reach(j, x)' <=> Reach(j, x)  BY <1>1 DEF Same, Reach
<1>3. \A x : Limit(j, x)' <=> Limit(j, x)  BY <1>1 DEF Same, Limit
<1>4. \A s, e : Rest(j, s, e)' <=> Rest(j, s, e)  BY DEF Same, Rest
<1> QED  BY <1>1, <1>2, <1>3, <1>4

\* An empty broadcast holds no news.
LEMMA NoNews == ASSUME info' = <<>>, NEW j  PROVE News(j)' = {}
<1>1. Len(info') = 0  OBVIOUS
<1> QED  BY <1>1 DEF News, Queued

\* Such an id stays consistent.
LEMMA SameConsistent ==
    ASSUME TypeOK, TypeOK', NEW j \in Ids, Same(j), Attentive, lost => lost', Consistent(j)
    PROVE  Consistent(j)'
<1>1. InBounds(j)'  BY SameFacts DEF Consistent, InBounds, Same
<1>2. SameStart(j)'  BY SameFacts DEF Consistent, SameStart, Same
<1>3. EndReported(j)' <=> EndReported(j)
  <2>1. EndReported(j) <=> \E m \in Mail(j) : m.t \in Ends  BY MailTypes DEF MailOK
  <2>2. EndReported(j)' <=> \E m \in Mail(j)' : m.t \in Ends  BY MailTypesNext DEF MailOK
  <2> QED  BY <2>1, <2>2 DEF Same
<1>4. (\E r \in Retries' : r.id = j) <=> (\E r \in Retries : r.id = j)  BY DEF Same
<1>5. Expected(j)' <=> Expected(j)  BY <1>3, <1>4 DEF Expected, Reporting, Same
<1>6. Standing(j)'
  <2>1. (\E r \in Retries' : r.id = j) => Mail(j)' = {} /\ (owed' = "any" => News(j)' = {})
    BY <1>4, NoNews DEF Consistent, Standing, Same, Attentive
  <2> QED  BY <1>3, <1>5, <2>1 DEF Consistent, Standing, Same
<1>7. Told(j)'  BY SameFacts DEF Consistent, Told, Same
<1> QED  BY <1>1, <1>2, <1>6, <1>7 DEF Consistent
-----------------------------------------------------------------------------
(* A worker reports *)

\* Worker i moves on inside its range and may put its position m on the
\* channels; a position it believes reported was reported, unless it was lost.
Tells(i, m) ==
    /\ Live(i) /\ Live(i)' /\ chunk[i].pc # "completing" /\ chunk'[i].pc # "req"
    /\ chunk'[i].start = chunk[i].start /\ chunk'[i].end = chunk[i].end
    /\ chunk[i].off <= chunk'[i].off
    /\ \A j \in Ids \ {i} : chunk'[j] = chunk[j]
    /\ UNCHANGED monVars /\ (lost => lost')
    /\ m.t = "progress" /\ m.id = i /\ m.start = chunk[i].start /\ m.end = chunk[i].end
    /\ m.start + m.dl = chunk'[i].off
    /\ reliable' = reliable \/ reliable' = Append(reliable, m)
    /\ info' = info \/ info' = Append(info, m)
    /\ chunk'[i].pc = "completing" => reliable' = Append(reliable, m)
    /\ \/ lost' \/ info' = Append(info, m) \/ chunk[i].rep > 0
       \/ chunk'[i].rep = 0 /\ (chunk'[i].pc = "failing" => chunk'[i].off = chunk[i].start)

\* Progress(i) names the position of worker i.
LEMMA ProgressFields ==
    ASSUME IInv, NEW i \in Ids, Live(i)
    PROVE  /\ Progress(i) \in MsgType /\ Progress(i).t = "progress" /\ Progress(i).id = i
           /\ Progress(i).start = chunk[i].start /\ Progress(i).end = chunk[i].end
           /\ Progress(i).start + Progress(i).dl = chunk[i].off
<1>1. chunk[i].start <= chunk[i].off  BY DEF IInv, Safe, RangesOK
<1>2. Progress(i) \in MsgType /\ Progress(i).t = "progress"  BY <1>1, ProgressType DEF IInv
<1>3. chunk[i].start \in Nat /\ chunk[i].off \in Nat  BY ChunkFacts DEF IInv
<1> QED  BY <1>2, <1>3 DEF Progress, Msg

\* A failure inside the stream loop reports what was not reported yet.
LEMMA AbortTells ==
    ASSUME IInv, NEW i \in Ids, chunk[i].pc = "run", NEW c, chunk' = Abort(i, c),
           BestEffort(i), UNCHANGED monVars
    PROVE  \E m \in MsgType : Tells(i, m)
<1>1. Live(i)  BY DEF Live
<1>2. PICK m \in MsgType : /\ m = Progress(i) /\ m.t = "progress" /\ m.id = i
                           /\ m.start = chunk[i].start /\ m.end = chunk[i].end
                           /\ m.start + m.dl = chunk[i].off
  BY <1>1, ProgressFields
<1>3. chunk \in [Ids -> ChunkType] /\ chunk[i].rep \in Nat /\ chunk[i].off \in Nat
      /\ chunk[i].start \in Nat
  BY ChunkFacts DEF IInv
<1>4. /\ chunk'[i].pc = "failing" /\ chunk'[i].start = chunk[i].start
      /\ chunk'[i].end = chunk[i].end /\ chunk'[i].off = chunk[i].off
      /\ chunk'[i].rep = chunk[i].rep
      /\ \A j \in Ids \ {i} : chunk'[j] = chunk[j]
  BY <1>3 DEF Abort, ChunkType
<1>5. Live(i)'  BY <1>4 DEF Live
<1>6. CASE chunk[i].off - chunk[i].start = chunk[i].rep
  <2>1. reliable' = reliable /\ info' = info /\ lost' = lost
    BY <1>6 DEF BestEffort, chanVars
  <2>2. chunk[i].rep > 0 \/ (chunk'[i].rep = 0 /\ chunk'[i].off = chunk[i].start)
    BY <1>3, <1>4, <1>6
  <2>3. chunk[i].off <= chunk'[i].off  BY <1>3, <1>4
  <2> QED  BY <1>1, <1>2, <1>4, <1>5, <2>1, <2>2, <2>3 DEF Tells
<1>7. CASE chunk[i].off - chunk[i].start # chunk[i].rep
  <2>1. reliable' = reliable \/ reliable' = Append(reliable, m)
    BY <1>2, <1>7 DEF BestEffort
  <2>2. Broadcast(m)  BY <1>2, <1>7 DEF BestEffort
  <2>3. \/ info' = Append(info, m) /\ lost' = lost
        \/ lost' = TRUE /\ info' = info
    BY <2>2, Zenon DEF Broadcast
  <2>4. chunk[i].off <= chunk'[i].off  BY <1>3, <1>4
  <2>5. (lost => lost') /\ (lost' \/ info' = Append(info, m))
        /\ (info' = info \/ info' = Append(info, m))
    <3>1. CASE info' = Append(info, m) /\ lost' = lost  BY <3>1
    <3>2. CASE lost' = TRUE /\ info' = info  BY <3>2
    <3> QED  BY <2>3, <3>1, <3>2
  <2> QED  BY <1>1, <1>2, <1>4, <1>5, <2>1, <2>4, <2>5 DEF Tells
<1> QED  BY <1>6, <1>7

\* The steps of a worker that send nothing, or only the final progress.
LEMMA GotoTells ==
    ASSUME IInv, NEW i \in Ids, NEW p \in {"run", "finishing", "completing"}, Live(i),
           chunk[i].pc # "completing", chunk' = Goto(i, p), info' = info, lost' = lost,
           UNCHANGED monVars, chunk[i].pc = "req" => chunk[i].rep = 0,
           \/ reliable' = reliable /\ p # "completing"
           \/ reliable' = Append(reliable, Progress(i))
    PROVE  \E m \in MsgType : Tells(i, m)
<1>2. PICK m \in MsgType : /\ m = Progress(i) /\ m.t = "progress" /\ m.id = i
                           /\ m.start = chunk[i].start /\ m.end = chunk[i].end
                           /\ m.start + m.dl = chunk[i].off
  BY ProgressFields
<1>3. chunk \in [Ids -> ChunkType] /\ chunk[i].rep \in Nat /\ chunk[i].off \in Nat
  BY ChunkFacts DEF IInv
<1>4. /\ chunk'[i].pc = p /\ chunk'[i].start = chunk[i].start
      /\ chunk'[i].end = chunk[i].end /\ chunk'[i].off = chunk[i].off
      /\ chunk'[i].rep = chunk[i].rep
      /\ \A j \in Ids \ {i} : chunk'[j] = chunk[j]
  BY <1>3 DEF Goto, ChunkType
<1>5. Live(i)' /\ chunk[i].off <= chunk'[i].off  BY <1>3, <1>4 DEF Live
<1>6. chunk[i].rep > 0 \/ chunk'[i].rep = 0  BY <1>3, <1>4
<1> QED  BY <1>2, <1>4, <1>5, <1>6, Zenon DEF Tells

\* A buffer arrives.
LEMMA DataTells ==
    ASSUME IInv, NEW i \in Ids, NEW n \in Pieces, Data(i, n)
    PROVE  /\ \E m \in MsgType : Tells(i, m)
           /\ sent' = sent \cup (chunk[i].off .. chunk'[i].off - 1)
<1> DEFINE c == chunk[i]
           w == Taken(c, n)
           o == c.off + w
           report == Msg("progress", i, c.start, c.end, o - c.start, "none")
<1>1. /\ c.start \in Nat /\ c.end \in Nat /\ c.off \in Nat /\ c.rep \in Nat
      /\ c.off <= c.end /\ c.start <= c.off /\ c.pc = "run" /\ n \in Nat /\ n > 0
  BY ChunkFacts, ConstantTypes DEF Data, IInv, Safe, RangesOK, Live
<1>2. w \in Nat /\ w > 0
  <2>1. Size(c.off, c.end) = c.end - c.off + 1  BY <1>1, ArithTypes
  <2> QED  BY <1>1, <2>1 DEF Taken, Smaller
<1>3. o \in Nat /\ c.off < o /\ o - c.start \in Nat /\ o - c.start > 0  BY <1>1, <1>2
<1>4. /\ report \in MsgType /\ report.t = "progress" /\ report.id = i
      /\ report.start = c.start /\ report.end = c.end /\ report.dl = o - c.start
  BY <1>1, <1>3 DEF Msg, MsgType, ClsType
<1>5. PICK m \in MsgType : /\ m = report /\ m.t = "progress" /\ m.id = i
                           /\ m.start = c.start /\ m.end = c.end /\ m.dl = o - c.start
  BY <1>4
<1>6. /\ sent' = sent \cup (c.off .. o - 1) /\ reliable' = reliable /\ UNCHANGED monVars
      /\ \E send \in BOOLEAN :
            /\ IF send THEN Broadcast(m) ELSE UNCHANGED <<info, lost>>
            /\ chunk' = [chunk EXCEPT
                  ![i].off = o,
                  ![i].rep = IF send THEN o - c.start ELSE @,
                  ![i].pc  = IF w < n THEN "finishing" ELSE "run"]
  BY <1>5 DEF Data
<1> HIDE DEF w, o, report
<1>7. PICK send \in BOOLEAN :
            /\ IF send THEN Broadcast(m) ELSE UNCHANGED <<info, lost>>
            /\ chunk' = [chunk EXCEPT
                  ![i].off = o,
                  ![i].rep = IF send THEN o - c.start ELSE @,
                  ![i].pc  = IF w < n THEN "finishing" ELSE "run"]
  BY <1>6
<1>8. /\ chunk'[i].off = o /\ chunk'[i].start = c.start /\ chunk'[i].end = c.end
      /\ chunk'[i].pc \in {"run", "finishing"}
      /\ chunk'[i].rep = IF send THEN o - c.start ELSE c.rep
      /\ \A j \in Ids \ {i} : chunk'[j] = chunk[j]
  <2>1. chunk \in [Ids -> ChunkType] /\ chunk[i] \in ChunkType  BY ChunkFacts DEF IInv
  <2> QED  BY <1>7, <2>1 DEF ChunkType
<1>9. /\ Live(i) /\ Live(i)' /\ c.off <= chunk'[i].off /\ m.start + m.dl = chunk'[i].off
      /\ c.pc # "completing" /\ chunk'[i].pc # "req" /\ chunk'[i].pc # "completing"
      /\ chunk'[i].pc # "failing"
  BY <1>1, <1>3, <1>5, <1>8 DEF Live
<1>10. CASE ~send
  <2>1. info' = info /\ lost' = lost  BY <1>7, <1>10
  <2>2. c.rep > 0 \/ chunk'[i].rep = 0  BY <1>1, <1>8, <1>10
  <2>3. lost => lost'  BY <2>1
  <2> QED  BY <1>5, <1>6, <1>8, <1>9, <2>1, <2>2, <2>3 DEF Tells
<1>11. CASE send
  <2>1. Broadcast(m)  BY <1>7, <1>11
  <2>2. \/ info' = Append(info, m) /\ lost' = lost
        \/ lost' = TRUE /\ info' = info
    BY <2>1, Zenon DEF Broadcast
  <2>3. (lost => lost') /\ (lost' \/ info' = Append(info, m))
        /\ (info' = info \/ info' = Append(info, m))
    <3>1. CASE info' = Append(info, m) /\ lost' = lost  BY <3>1
    <3>2. CASE lost' = TRUE /\ info' = info  BY <3>2
    <3> QED  BY <2>2, <3>1, <3>2
  <2> QED  BY <1>5, <1>6, <1>8, <1>9, <2>3 DEF Tells
<1> QED  BY <1>10, <1>11

\* The requests: no byte was received, so there is nothing to report.
LEMMA RequestTells ==
    ASSUME IInv, NEW i \in Ids, Standing(i), RequestFailed(i)
    PROVE  \E m \in MsgType : Tells(i, m)
<1>1. /\ Live(i) /\ chunk[i].pc = "req" /\ UNCHANGED <<reliable, info, lost>> /\ UNCHANGED monVars
  BY DEF RequestFailed, Live, chanVars
<1>2. PICK c : chunk' = Abort(i, c)  BY DEF RequestFailed
<1>3. PICK m \in MsgType : /\ m = Progress(i) /\ m.t = "progress" /\ m.id = i
                           /\ m.start = chunk[i].start /\ m.end = chunk[i].end
                           /\ m.start + m.dl = chunk[i].off
  BY <1>1, ProgressFields
<1>4. chunk \in [Ids -> ChunkType] /\ chunk[i].off \in Nat  BY ChunkFacts DEF IInv
<1>5. /\ chunk'[i].pc = "failing" /\ chunk'[i].start = chunk[i].start
      /\ chunk'[i].end = chunk[i].end /\ chunk'[i].off = chunk[i].off
      /\ chunk'[i].rep = chunk[i].rep
      /\ \A j \in Ids \ {i} : chunk'[j] = chunk[j]
  BY <1>2, <1>4 DEF Abort, ChunkType
<1>6. chunk[i].off = chunk[i].start /\ chunk[i].rep = 0  BY <1>1 DEF Standing
<1>7. Live(i)' /\ chunk[i].off <= chunk'[i].off  BY <1>4, <1>5 DEF Live
<1>8. lost => lost'  BY <1>1
<1> QED  BY <1>1, <1>3, <1>5, <1>6, <1>7, <1>8 DEF Tells

\* A command that finds too little to split is dropped.
LEMMA UnsplitTells ==
    ASSUME IInv, NEW i \in Ids, Bisect(i), ~Splittable(chunk[i].off, chunk[i].end)
    PROVE  \E m \in MsgType : Tells(i, m)
<1>1. /\ Live(i) /\ chunk[i].pc = "run" /\ UNCHANGED <<reliable, info, lost>> /\ UNCHANGED monVars
      /\ chunk' = [chunk EXCEPT ![i].cmd = "none"]
  BY DEF Bisect, Live
<1>3. PICK m \in MsgType : /\ m = Progress(i) /\ m.t = "progress" /\ m.id = i
                           /\ m.start = chunk[i].start /\ m.end = chunk[i].end
                           /\ m.start + m.dl = chunk[i].off
  BY <1>1, ProgressFields
<1>4. chunk \in [Ids -> ChunkType] /\ chunk[i].off \in Nat /\ chunk[i].rep \in Nat
  BY ChunkFacts DEF IInv
<1>5. /\ chunk'[i].pc = "run" /\ chunk'[i].start = chunk[i].start
      /\ chunk'[i].end = chunk[i].end /\ chunk'[i].off = chunk[i].off
      /\ chunk'[i].rep = chunk[i].rep
      /\ \A j \in Ids \ {i} : chunk'[j] = chunk[j]
  BY <1>1, <1>4 DEF ChunkType
<1>6. chunk[i].rep > 0 \/ chunk'[i].rep = 0  BY <1>4, <1>5
<1>7. Live(i)' /\ chunk[i].off <= chunk'[i].off  BY <1>4, <1>5 DEF Live
<1>8. lost => lost'  BY <1>1
<1> QED  BY <1>1, <1>3, <1>5, <1>6, <1>7, <1>8 DEF Tells

\* All steps of a worker that keep its range in its hands.
LEMMA QuietTells ==
    ASSUME IInv, NEW i \in Ids, Standing(i),
           \/ Respond(i) \/ RequestFailed(i) \/ Overrun(i) \/ WriterClosed(i)
           \/ Eof(i) \/ StreamError(i) \/ IdleTimeout(i) \/ Kill(i) \/ FinalProgress(i)
    PROVE  \E m \in MsgType : Tells(i, m)
<1>1. CASE RequestFailed(i)  BY <1>1, RequestTells
<1>2. CASE Respond(i)
  <2>1. /\ Live(i) /\ chunk[i].pc = "req" /\ chunk' = Goto(i, "run")
        /\ UNCHANGED <<reliable, info, lost>> /\ UNCHANGED monVars
    BY <1>2 DEF Respond, chanVars, Live
  <2>2. chunk[i].rep = 0  BY <2>1 DEF Standing
  <2> QED  BY <2>1, <2>2, GotoTells
<1>3. CASE chunk[i].off > chunk[i].end /\ (Overrun(i) \/ Eof(i))
  <2>1. /\ Live(i) /\ chunk[i].pc = "run" /\ chunk' = Goto(i, "finishing")
        /\ UNCHANGED <<reliable, info, lost>> /\ UNCHANGED monVars
    BY <1>3 DEF Overrun, Eof, chanVars, Live
  <2> QED  BY <2>1, GotoTells
<1>4. CASE FinalProgress(i)
  <2>1. /\ Live(i) /\ chunk[i].pc = "finishing" /\ chunk' = Goto(i, "completing")
        /\ UNCHANGED <<info, lost>> /\ UNCHANGED monVars
        /\ reliable' = Append(reliable, Progress(i))
    BY <1>4 DEF FinalProgress, Live
  <2> QED  BY <2>1, GotoTells
<1>5. CASE \/ WriterClosed(i) \/ StreamError(i) \/ IdleTimeout(i) \/ Kill(i)
           \/ Eof(i) /\ ~(chunk[i].off > chunk[i].end)
  <2>1. PICK c \in {"writer", "retry", TimeoutClass(chunk[i].off, chunk[i].end)} :
           chunk' = Abort(i, c)
    BY <1>5 DEF WriterClosed, StreamError, IdleTimeout, Kill, Eof
  <2>2. BestEffort(i) /\ chunk[i].pc = "run" /\ UNCHANGED monVars
    BY <1>5 DEF WriterClosed, StreamError, IdleTimeout, Kill, Eof
  <2> QED  BY <2>1, <2>2, AbortTells
<1>6. Overrun(i) => chunk[i].off > chunk[i].end  BY DEF Overrun
<1> QED  BY <1>1, <1>2, <1>3, <1>4, <1>5, <1>6

\* What one more message does to the messages of each id.
LEMMA AppendMail ==
    ASSUME TypeOK, NEW m \in MsgType, reliable' = reliable \/ reliable' = Append(reliable, m)
    PROVE  /\ \A j : j # m.id => Mail(j)' = Mail(j)
           /\ \A j : Mail(j) \subseteq Mail(j)' /\ Mail(j)' \subseteq Mail(j) \cup {m}
           /\ reliable' = Append(reliable, m) => \A j : j = m.id => m \in Mail(j)'
<1>1. CASE reliable' = Append(reliable, m)
  <2>1. Queued(reliable') = Queued(reliable) \cup {m}  BY <1>1, QueuedAppend DEF TypeOK
  <2> QED  BY <2>1 DEF Mail
<1>2. CASE reliable' = reliable /\ reliable' # Append(reliable, m)  BY <1>2 DEF Mail
<1> QED  BY <1>1, <1>2

\* The same of the broadcast.
LEMMA AppendNews ==
    ASSUME TypeOK, NEW m \in MsgType, info' = info \/ info' = Append(info, m)
    PROVE  /\ \A j : j # m.id => News(j)' = News(j)
           /\ \A j : News(j) \subseteq News(j)' /\ News(j)' \subseteq News(j) \cup {m}
           /\ info' = Append(info, m) => \A j : j = m.id => m \in News(j)'
<1>1. CASE info' = Append(info, m)
  <2>1. Queued(info') = Queued(info) \cup {m}  BY <1>1, QueuedAppend DEF TypeOK
  <2> QED  BY <2>1 DEF News
<1>2. CASE info' = info /\ info' # Append(info, m)  BY <1>2 DEF News
<1> QED  BY <1>1, <1>2

\* One more event keeps the order of the events of id j.
LEMMA AppendOrdered ==
    ASSUME TypeOK, NEW m \in MsgType, reliable' = reliable \/ reliable' = Append(reliable, m),
           NEW j \in Ids, Ordered(j), st'[j] = st[j],
           m.id = j => reliable' = reliable \/ ~EndReported(j),
           Finishing(j)' =>
               Finishing(j) \/ (m.id = j /\ m.t = "progress" /\ reliable' # reliable),
           m.id = j /\ m.t = "bisected" => ~Finishing(j)
    PROVE  Ordered(j)'
<1>1. CASE reliable' = reliable
  BY <1>1 DEF Ordered, LastIsEnd, FinalKept, Pos, ProgressAt
<1>2. CASE reliable' # reliable
  <2>1. reliable' = Append(reliable, m)  BY <1>2
  <2>2. /\ Len(reliable) \in Nat /\ Len(reliable') = Len(reliable) + 1
        /\ \A k \in 1 .. Len(reliable) : reliable'[k] = reliable[k]
        /\ reliable'[Len(reliable) + 1] = m
    BY <2>1, AppendKeepsEnds
  <2>3. PICK n \in Nat : n = Len(reliable)  BY <2>2
  <2>4. /\ Pos = 1 .. n /\ Pos' = 1 .. n + 1 /\ reliable'[n + 1] = m
        /\ \A k \in 1 .. n : reliable'[k] = reliable[k]
        /\ \A k \in 1 .. n + 1 : k = n + 1 \/ k \in 1 .. n
        /\ n + 1 \in 1 .. n + 1 /\ \A k \in 1 .. n : k < n + 1 /\ k \in 1 .. n + 1
    BY <2>2, <2>3 DEF Pos
  <2>5. LastIsEnd(j)'
    <3>1. SUFFICES ASSUME NEW k \in 1 .. n + 1, NEW l \in 1 .. n + 1, reliable'[k].id = j,
                          reliable'[l].id = j, reliable'[l].t \in Ends
                   PROVE  k <= l
      BY <2>4 DEF LastIsEnd
    <3>2. CASE l = n + 1  BY <3>2
    <3>3. CASE l \in 1 .. n
      <4>1. reliable[l].id = j /\ reliable[l].t \in Ends  BY <2>4, <3>1, <3>3
      <4>2. EndReported(j)
        <5>1. DOMAIN reliable = 1 .. n  BY <2>3 DEF TypeOK
        <5> QED  BY <3>3, <4>1, <5>1 DEF EndReported, Ends
      <4>3. k \in 1 .. n  BY <1>2, <2>4, <3>1, <4>2
      <4> QED  BY <2>4, <3>1, <3>3, <4>1, <4>3 DEF Ordered, LastIsEnd
    <3> QED  BY <2>4, <3>2, <3>3
  <2>6. FinalKept(j)'
    <3>1. SUFFICES ASSUME Finishing(j)'
                   PROVE  /\ st'[j].on \/ \E k \in Pos' : ProgressAt(k, j)'
                          /\ \A l \in Pos' : reliable'[l].t = "bisected" /\ reliable'[l].id = j =>
                                \E k \in Pos' : l < k /\ ProgressAt(k, j)'
      BY DEF FinalKept
    <3>2. CASE Finishing(j)
      <4>1. \A k \in 1 .. n : ProgressAt(k, j) => ProgressAt(k, j)'  BY <2>4 DEF ProgressAt
      <4>2. st'[j].on \/ \E k \in Pos' : ProgressAt(k, j)'
        BY <2>4, <3>2, <4>1 DEF Ordered, FinalKept
      <4>3. ASSUME NEW l \in Pos', reliable'[l].t = "bisected", reliable'[l].id = j
            PROVE  \E k \in Pos' : l < k /\ ProgressAt(k, j)'
        <5>1. l \in 1 .. n  BY <2>4, <3>2, <4>3
        <5>2. PICK k \in 1 .. n : l < k /\ ProgressAt(k, j)
          BY <2>4, <3>2, <4>3, <5>1 DEF Ordered, FinalKept
        <5> QED  BY <2>4, <4>1, <5>2
      <4> QED  BY <4>2, <4>3
    <3>3. CASE ~Finishing(j)
      <4>1. ProgressAt(n + 1, j)'  BY <2>4, <3>1, <3>3 DEF ProgressAt
      <4>2. reliable'[n + 1].t # "bisected"  BY <4>1 DEF ProgressAt
      <4> QED  BY <2>4, <4>1, <4>2
    <3> QED  BY <3>2, <3>3
  <2> QED  BY <2>5, <2>6 DEF Ordered
<1> QED  BY <1>1, <1>2

\* A worker's step concerns no id but its own.
LEMMA WorkerOthers ==
    ASSUME TypeOK, NEW i \in Ids, NEW m \in MsgType, m.id = i,
           reliable' = reliable \/ reliable' = Append(reliable, m),
           info' = info \/ info' = Append(info, m),
           \A j \in Ids \ {i} : chunk'[j] = chunk[j], UNCHANGED monVars
    PROVE  /\ \A j \in Ids \ {i} : Same(j)
           /\ Attentive
           /\ UNCHANGED <<st, completed, retired, retry, delayed, Retries, nextId, owed, result>>
<1>1. /\ UNCHANGED <<st, completed, retired, retry, delayed, Retries, nextId, owed, result>>
  BY DEF monVars, ledgerVars, retryVars, Retries
<1>2. ASSUME NEW j \in Ids \ {i}  PROVE Same(j)
  <2>1. Mail(j)' = Mail(j) /\ News(j)' = News(j)  BY AppendMail, AppendNews
  <2>2. chunk'[j] = chunk[j]  OBVIOUS
  <2>3. Live(j)' <=> Live(j)  BY <2>2 DEF Live
  <2> QED  BY <1>1, <2>1, <2>2, <2>3 DEF Same
<1> QED  BY <1>1, <1>2 DEF Attentive

\* A live worker is the only holder of its rest and has sent no end event.
LEMMA LiveRest ==
    ASSUME IInv, NEW i \in Ids, Live(i), Standing(i)
    PROVE  /\ \A s, e : Rest(i, s, e) <=> s = chunk[i].off /\ e = chunk[i].end
           /\ \A m \in Mail(i) : m.t \notin Ends
           /\ \A r \in Retries : r.id # i
           /\ ~EndReported(i) /\ i \notin retired /\ i < nextId
<1>1. \A r \in Retries : r.id # i  BY DEF IInv, Safe, OnePlace
<1>2. ~EndReported(i)  BY DEF Standing
<1>3. \A m \in Mail(i) : m.t \notin Ends  BY <1>2, MailTypes DEF MailOK, IInv
<1>4. \A s, e : Rest(i, s, e) <=> s = chunk[i].off /\ e = chunk[i].end
  BY <1>1, <1>3 DEF Rest, Ends
<1>5. i \notin retired  BY DEF Standing, Expected, Reporting
<1>6. i < nextId
  <2>1. chunk[i].pc # "none"  BY DEF Live
  <2> QED  BY <2>1, Numbers DEF NumbersOK, IInv, Safe, FreshIds
<1> QED  BY <1>1, <1>2, <1>3, <1>4, <1>5, <1>6

\* A worker that reports keeps what is said of its id.
LEMMA TellsConsistent ==
    ASSUME IInv, IInv', NEW i \in Ids, NEW m \in MsgType, Tells(i, m),
           Consistent(i), Ordered(i)
    PROVE  Consistent(i)' /\ Ordered(i)'
<1>1. /\ Live(i) /\ Live(i)' /\ chunk[i].pc # "completing" /\ chunk'[i].pc # "req"
      /\ chunk'[i].start = chunk[i].start /\ chunk'[i].end = chunk[i].end
      /\ chunk[i].off <= chunk'[i].off
      /\ UNCHANGED monVars /\ (lost => lost')
      /\ m.t = "progress" /\ m.id = i /\ m.start = chunk[i].start /\ m.end = chunk[i].end
      /\ m.start + m.dl = chunk'[i].off
      /\ reliable' = reliable \/ reliable' = Append(reliable, m)
      /\ info' = info \/ info' = Append(info, m)
      /\ chunk'[i].pc = "completing" => reliable' = Append(reliable, m)
  BY DEF Tells
<1>2. /\ UNCHANGED <<st, retired, Retries, nextId, owed>>
      /\ chunk[i].off \in Nat /\ chunk[i].end \in Nat /\ chunk'[i].off \in Nat
      /\ chunk'[i].off <= chunk[i].end + 1 /\ chunk[i].rep \in Nat /\ chunk'[i].rep \in Nat
  <2>1. UNCHANGED <<st, retired, Retries, nextId, owed>>
    BY <1>1 DEF monVars, ledgerVars, retryVars, Retries
  <2>2. chunk[i].off \in Nat /\ chunk[i].end \in Nat /\ chunk[i].rep \in Nat
    BY ChunkFacts DEF IInv
  <2>3. chunk' \in [Ids -> ChunkType]  BY DEF IInv, TypeOK
  <2>4. chunk'[i].off \in Nat /\ chunk'[i].rep \in Nat  BY <2>3 DEF ChunkType
  <2>5. chunk'[i].off <= chunk'[i].end + 1  BY <1>1 DEF IInv, Safe, RangesOK
  <2> QED  BY <1>1, <2>1, <2>2, <2>4, <2>5
<1>3. /\ Mail(i) \subseteq Mail(i)' /\ Mail(i)' \subseteq Mail(i) \cup {m}
      /\ News(i) \subseteq News(i)' /\ News(i)' \subseteq News(i) \cup {m}
      /\ reliable' = Append(reliable, m) => m \in Mail(i)'
      /\ info' = Append(info, m) => m \in News(i)'
  BY <1>1, AppendMail, AppendNews DEF IInv
<1>4. Reports(i) \subseteq Reports(i)' /\ Reports(i)' \subseteq Reports(i) \cup {m}
  BY <1>1, <1>3 DEF Reports
<1>5. /\ \A s, e : Rest(i, s, e) <=> s = chunk[i].off /\ e = chunk[i].end
      /\ \A n \in Mail(i) : n.t \notin Ends
      /\ \A r \in Retries : r.id # i
      /\ ~EndReported(i) /\ i \notin retired /\ i < nextId
  BY <1>1, LiveRest DEF Consistent
<1>6. ~EndReported(i)'
  <2>1. \A n \in Mail(i)' : n.t \notin Ends  BY <1>1, <1>3, <1>5 DEF Ends
  <2> QED  BY <2>1, MailTypesNext DEF MailOK, IInv
<1>7. Standing(i)'
  <2>1. ~(i >= nextId)  BY <1>5, Numbers DEF NumbersOK, IInv
  <2> QED  BY <1>1, <1>2, <1>5, <1>6, <2>1 DEF Standing, Retries
<1>8. \A s, e : Rest(i, s, e)' => s = chunk'[i].off /\ e = chunk[i].end
  <2>1. \A n \in Mail(i)' : n.t # "failed"  BY <1>1, <1>3, <1>5 DEF Ends
  <2>2. \A r \in Retries' : r.id # i  BY <1>2, <1>5
  <2> QED  BY <1>1, <2>1, <2>2 DEF Rest
<1>9. InBounds(i)'
  <2>1. PICK f \in Nat : f = chunk[i].off  BY <1>2
  <2>2. PICK o \in Nat : o = chunk'[i].off  BY <1>2
  <2>3. PICK e \in Nat : e = chunk[i].end  BY <1>2
  <2>4. f <= o /\ o <= e + 1  BY <1>1, <1>2, <2>1, <2>2, <2>3
  <2>5. \A x : Reach(i, x)' => Reach(i, x) \/ x = o
    BY <1>1, <1>2, <1>4, <2>2 DEF Reach
  <2>6. \A y : Limit(i, y)' => Limit(i, y) \/ y = e + 1
    BY <1>1, <1>2, <1>3, <1>4, <2>3 DEF Limit
  <2>7. \A x \in Nat : (Reach(i, x) => x <= f) /\ (Limit(i, x) => e < x)
    BY <1>5, <2>1, <2>3 DEF Consistent, InBounds
  <2>8. \A x, y \in Nat : Reach(i, x)' /\ Limit(i, y)' => x <= y
    <3>1. SUFFICES ASSUME NEW x \in Nat, NEW y \in Nat, Reach(i, x)', Limit(i, y)'
                   PROVE  x <= y
      OBVIOUS
    <3>2. x <= o  BY <2>4, <2>5, <2>7, <3>1
    <3>3. e < y  BY <2>4, <2>6, <2>7, <3>1
    <3> QED  BY <2>4, <3>2, <3>3
  <2>9. ASSUME NEW s \in Nat, NEW z \in Nat, Rest(i, s, z)', NEW x \in Nat
        PROVE  (Reach(i, x)' => x <= s) /\ (Limit(i, x)' => z < x)
    <3>1. s = o /\ z = e  BY <1>8, <2>2, <2>3, <2>9
    <3>2. Reach(i, x)' => x <= o  BY <2>4, <2>5, <2>7
    <3>3. Limit(i, x)' => e < x  BY <2>4, <2>6, <2>7
    <3> QED  BY <3>1, <3>2, <3>3
  <2>10. ~st'[i].on => st'[i].dl = 0  BY <1>2 DEF Consistent, InBounds
  <2> QED  BY <2>8, <2>9, <2>10 DEF InBounds
<1>10. SameStart(i)'
  BY <1>1, <1>2, <1>4 DEF Consistent, SameStart
<1>11. Told(i)'
  <2>1. \/ lost' \/ info' = Append(info, m) \/ chunk[i].rep > 0
        \/ chunk'[i].rep = 0 /\ (chunk'[i].pc = "failing" => chunk'[i].off = chunk[i].start)
    BY DEF Tells
  <2>2. info' = Append(info, m) => Reports(i)' # {}  BY <1>3 DEF Reports
  <2>3. chunk[i].rep > 0 /\ ~lost => st[i].on \/ Reports(i) # {}
    BY <1>1 DEF Consistent, Told
  <2>4. chunk[i].start \in Nat  BY ChunkFacts DEF IInv
  <2> QED  BY <1>1, <1>2, <1>4, <2>1, <2>2, <2>3, <2>4 DEF Told
<1>12. Ordered(i)'
  <2>1. Finishing(i)' => Finishing(i) \/ reliable' = Append(reliable, m)
    BY <1>1, <1>3 DEF Finishing
  <2>2. reliable' = Append(reliable, m) => reliable' # reliable
    BY DEF IInv, TypeOK
  <2> QED  BY <1>1, <1>2, <1>5, <2>1, <2>2, AppendOrdered DEF IInv
<1> QED  BY <1>7, <1>9, <1>10, <1>11, <1>12 DEF Consistent

\* A worker's step keeps what is said of the other ids.
LEMMA OthersConsistent ==
    ASSUME IInv, IInv', NEW i \in Ids, NEW m \in MsgType, m.id = i,
           reliable' = reliable \/ reliable' = Append(reliable, m),
           info' = info \/ info' = Append(info, m), lost => lost',
           \A j \in Ids \ {i} : chunk'[j] = chunk[j], UNCHANGED monVars,
           NEW j \in Ids \ {i}, Consistent(j), Ordered(j)
    PROVE  Consistent(j)' /\ Ordered(j)'
<1>1. Same(j) /\ Attentive /\ st' = st  BY WorkerOthers DEF IInv
<1>2. Consistent(j)'  BY <1>1, SameConsistent DEF IInv
<1>3. Finishing(j)' => Finishing(j)
  <2>1. chunk'[j] = chunk[j]  OBVIOUS
  <2> QED  BY <1>1, <2>1 DEF Finishing, Same
<1>4. Ordered(j)'  BY <1>1, <1>3, AppendOrdered DEF IInv
<1> QED  BY <1>2, <1>4

\* A split sets a new end to the range, past everything reported.
LEMMA SplitConsistent ==
    ASSUME IInv, IInv', NEW i \in Ids, Bisect(i), Splittable(chunk[i].off, chunk[i].end),
           \A j \in Ids : Consistent(j) /\ Ordered(j)
    PROVE  /\ \A j \in Ids : Consistent(j)' /\ Ordered(j)'
           /\ \A s, e : Rest(i, s, e) => \E z \in Nat : Rest(i, s, z)'
           /\ Reports(i)' = Reports(i) /\ Mail(i) \subseteq Mail(i)'
           /\ \A n \in Mail(i)' : n.t = "complete" => n \in Mail(i)
           /\ chunk'[i].start = chunk[i].start /\ Live(i) /\ Live(i)'
           /\ \A j \in Ids \ {i} : Same(j)
           /\ UNCHANGED <<st, completed, lost, sent>>
<1> DEFINE c == chunk[i]
           mid == split_range(c.off, c.end, c.cmd = "skew")
<1>1. /\ c.start \in Nat /\ c.end \in Nat /\ c.off \in Nat /\ c.pc = "run" /\ Live(i)
  BY ChunkFacts DEF Bisect, IInv, Safe, RangesOK, Live
<1>2. PICK e \in Nat : e = mid /\ c.off <= e /\ e < c.end  BY <1>1, SplitInside
<1>3. PICK m \in MsgType : /\ m = Bisected(i, e + 1, c.end) /\ m.id = i
                           /\ m.t = "bisected" /\ m.start = e + 1
  <2> DEFINE b == Bisected(i, e + 1, c.end)
  <2>1. b \in MsgType /\ b.id = i /\ b.t = "bisected" /\ b.start = e + 1
    BY <1>1, <1>2 DEF Bisected, Msg, MsgType, ClsType
  <2> HIDE DEF b
  <2> QED  BY <2>1 DEF b
<1>4. /\ reliable' = Append(reliable, m) /\ info' = info /\ lost' = lost /\ UNCHANGED monVars
      /\ chunk' = [chunk EXCEPT ![i].end = e, ![i].cmd = "none"] /\ sent' = sent
  BY <1>2, <1>3 DEF Bisect
<1> HIDE DEF mid
<1>5. /\ chunk'[i].pc = "run" /\ chunk'[i].start = c.start /\ chunk'[i].end = e
      /\ chunk'[i].off = c.off /\ chunk'[i].rep = c.rep
      /\ \A j \in Ids \ {i} : chunk'[j] = chunk[j]
  <2>1. chunk \in [Ids -> ChunkType] /\ chunk[i] \in ChunkType  BY ChunkFacts DEF IInv
  <2> QED  BY <1>1, <1>4, <2>1 DEF ChunkType
<1>6. /\ \A j \in Ids \ {i} : Same(j)
      /\ UNCHANGED <<st, completed, retired, Retries, nextId, owed>>
  BY <1>3, <1>4, <1>5, WorkerOthers DEF IInv
<1>7. /\ Mail(i) \subseteq Mail(i)' /\ Mail(i)' \subseteq Mail(i) \cup {m}
      /\ News(i)' = News(i) /\ Reports(i)' = Reports(i)
  <2>1. Mail(i) \subseteq Mail(i)' /\ Mail(i)' \subseteq Mail(i) \cup {m}
    BY <1>4, AppendMail DEF IInv
  <2>2. News(i)' = News(i)  BY <1>4 DEF News
  <2> QED  BY <1>3, <2>1, <2>2 DEF Reports
<1>8. /\ \A s, z : Rest(i, s, z) <=> s = c.off /\ z = c.end
      /\ \A n \in Mail(i) : n.t \notin Ends
      /\ \A r \in Retries : r.id # i
      /\ ~EndReported(i) /\ i \notin retired /\ i < nextId
  BY <1>1, LiveRest DEF Consistent
<1>9. Live(i)'  BY <1>5 DEF Live
<1>10. \A n \in Mail(i)' : n.t \notin Ends  BY <1>3, <1>7, <1>8 DEF Ends
<1>11. ~EndReported(i)'  BY <1>10, MailTypesNext DEF MailOK, IInv
<1>12. Standing(i)'
  <2>1. ~(i >= nextId)  BY <1>8, Numbers DEF NumbersOK, IInv
  <2> QED  BY <1>5, <1>6, <1>8, <1>9, <1>11, <2>1 DEF Standing, Retries
<1>13. \A s, z : Rest(i, s, z)' <=> s = c.off /\ z = e
  <2>1. \A r \in Retries' : r.id # i  BY <1>6, <1>8
  <2> QED  BY <1>5, <1>9, <1>10, <2>1 DEF Rest, Ends
<1>14. InBounds(i)'
  <2>1. \A x : Reach(i, x)' => Reach(i, x)  BY <1>6, <1>7 DEF Reach
  <2>2. \A y : Limit(i, y)' => Limit(i, y) \/ y = e + 1  BY <1>3, <1>6, <1>7 DEF Limit
  <2>3. \A x \in Nat : (Reach(i, x) => x <= c.off) /\ (Limit(i, x) => c.end < x)
    BY <1>1, <1>8 DEF Consistent, InBounds
  <2>4. \A x \in Nat : (Reach(i, x)' => x <= c.off) /\ (Limit(i, x)' => e < x)
    BY <1>1, <1>2, <2>1, <2>2, <2>3
  <2>5. \A x, y \in Nat : Reach(i, x)' /\ Limit(i, y)' => x <= y  BY <1>1, <1>2, <2>4
  <2>6. ~st'[i].on => st'[i].dl = 0  BY <1>6 DEF Consistent, InBounds
  <2> QED  BY <1>13, <2>4, <2>5, <2>6 DEF InBounds
<1>15. SameStart(i)'  BY <1>1, <1>5, <1>6, <1>7 DEF Consistent, SameStart
<1>16. Told(i)'  BY <1>1, <1>4, <1>5, <1>6, <1>7 DEF Consistent, Told
<1>17. Ordered(i)'
  <2>1. ~Finishing(i)' /\ ~Finishing(i)
    BY <1>1, <1>5, <1>8, <1>10 DEF Finishing, Ends
  <2>2. reliable' # reliable  BY <1>4 DEF IInv, TypeOK
  <2> QED  BY <1>3, <1>4, <1>6, <1>8, <2>1, AppendOrdered DEF IInv
<1>18. \A j \in Ids \ {i} : Consistent(j)' /\ Ordered(j)'
  BY <1>3, <1>4, <1>5, OthersConsistent
<1>19. \A j \in Ids : Consistent(j)' /\ Ordered(j)'
  BY <1>12, <1>14, <1>15, <1>16, <1>17, <1>18 DEF Consistent
<1>20. \A s, z : Rest(i, s, z) => \E y \in Nat : Rest(i, s, y)'  BY <1>8, <1>13
<1>21. \A n \in Mail(i)' : n.t = "complete" => n \in Mail(i)  BY <1>10 DEF Ends
<1> QED  BY <1>1, <1>4, <1>5, <1>6, <1>7, <1>9, <1>19, <1>20, <1>21

\* Worker i leaves with its last event m.
Leaves(i, m) ==
    /\ Live(i) /\ ~Live(i)' /\ chunk'[i].pc = "exited"
    /\ \A j \in Ids \ {i} : chunk'[j] = chunk[j]
    /\ reliable' = Append(reliable, m) /\ m.id = i
    /\ UNCHANGED <<info, lost, sent>> /\ UNCHANGED monVars
    /\ \/ m.t = "failed" /\ chunk[i].pc = "failing"
          /\ m.start = chunk[i].off /\ m.end = chunk[i].end
       \/ m.t = "complete" /\ chunk[i].pc = "completing"

\* The two awaited sends at the end of a worker are of this kind.
LEMMA SendsLeave ==
    ASSUME IInv, NEW i \in Ids, FailSend(i) \/ SendComplete(i)
    PROVE  \E m \in MsgType : Leaves(i, m)
<1>1. /\ Live(i) /\ chunk[i].pc # "none" /\ chunk' = Exit(i)
      /\ UNCHANGED <<info, lost, sent>> /\ UNCHANGED monVars
  BY DEF FailSend, SendComplete, Live
<1>2. ~Live(i)' /\ \A j \in Ids \ {i} : chunk'[j] = chunk[j]  BY <1>1, ExitFacts
<1>3. chunk'[i].pc = "exited"
  <2>1. chunk' = [chunk EXCEPT ![i] = [NoChunk EXCEPT !.pc = "exited"]]  BY <1>1 DEF Exit
  <2> QED  BY <2>1, ChunkFacts DEF IInv, NoChunk
<1>4. CASE FailSend(i)
  <2>1. PICK m \in MsgType : /\ m = Failed(i) /\ m.t = "failed" /\ m.id = i
                             /\ m.start = chunk[i].off /\ m.end = chunk[i].end
    <3>1. /\ Failed(i) \in MsgType /\ Failed(i).t = "failed" /\ Failed(i).id = i
          /\ Failed(i).start = chunk[i].off /\ Failed(i).end = chunk[i].end
      BY ChunkFacts DEF Failed, Msg, MsgType, IInv
    <3> QED  BY <3>1
  <2>2. reliable' = Append(reliable, m) /\ chunk[i].pc = "failing"  BY <1>4, <2>1 DEF FailSend
  <2> QED  BY <1>1, <1>2, <1>3, <2>1, <2>2 DEF Leaves
<1>5. CASE SendComplete(i)
  <2>1. PICK m \in MsgType : m = Complete(i) /\ m.t = "complete" /\ m.id = i
    <3>1. Complete(i) \in MsgType /\ Complete(i).t = "complete" /\ Complete(i).id = i
      BY DEF Complete, Msg, MsgType, ClsType
    <3> QED  BY <3>1
  <2>2. reliable' = Append(reliable, m) /\ chunk[i].pc = "completing"
    BY <1>5, <2>1 DEF SendComplete
  <2> QED  BY <1>1, <1>2, <1>3, <2>1, <2>2 DEF Leaves
<1> QED  BY <1>4, <1>5

\* The last event takes the rest of the range along.
LEMMA LeaveFacts ==
    ASSUME IInv, IInv', NEW i \in Ids, NEW m \in MsgType, Leaves(i, m), Consistent(i)
    PROVE  /\ \A s, e : Rest(i, s, e)' => Rest(i, s, e)
           /\ m.t = "failed" => \A s, e : Rest(i, s, e) => Rest(i, s, e)'
           /\ Reports(i)' = Reports(i) /\ Mail(i)' = Mail(i) \cup {m} /\ News(i)' = News(i)
           /\ \A j \in Ids \ {i} : Same(j)
           /\ \A n \in Mail(i) : n.t \notin Ends
           /\ ~EndReported(i) /\ i \notin retired /\ i < nextId
           /\ \A s, e : Rest(i, s, e) <=> s = chunk[i].off /\ e = chunk[i].end
           /\ UNCHANGED <<st, completed, retired, Retries, nextId, owed>>
<1>1. /\ Live(i) /\ ~Live(i)' /\ m.id = i /\ info' = info /\ UNCHANGED monVars
      /\ reliable' = Append(reliable, m)
      /\ \A j \in Ids \ {i} : chunk'[j] = chunk[j]
      /\ \/ m.t = "failed" /\ m.start = chunk[i].off /\ m.end = chunk[i].end
         \/ m.t = "complete"
  BY DEF Leaves
<1>2. /\ \A j \in Ids \ {i} : Same(j)
      /\ UNCHANGED <<st, completed, retired, Retries, nextId, owed>>
  BY <1>1, WorkerOthers DEF IInv
<1>3. Mail(i)' = Mail(i) \cup {m}  BY <1>1, AppendMail DEF IInv
<1>4. News(i)' = News(i)  BY <1>1 DEF News
<1>5. Reports(i)' = Reports(i)  BY <1>1, <1>3, <1>4 DEF Reports
<1>6. /\ \A s, e : Rest(i, s, e) <=> s = chunk[i].off /\ e = chunk[i].end
      /\ \A n \in Mail(i) : n.t \notin Ends
      /\ \A r \in Retries : r.id # i
      /\ ~EndReported(i) /\ i \notin retired /\ i < nextId
  BY <1>1, LiveRest DEF Consistent
<1>7. \A r \in Retries' : r.id # i  BY <1>2, <1>6
<1>8. \A s, e : Rest(i, s, e)' <=> m.t = "failed" /\ s = m.start /\ e = m.end
  BY <1>1, <1>3, <1>6, <1>7 DEF Rest, Ends
<1> QED  BY <1>1, <1>2, <1>3, <1>4, <1>5, <1>6, <1>8

\* A worker that leaves keeps its id consistent.
LEMMA LeaveConsistent ==
    ASSUME IInv, IInv', NEW i \in Ids, NEW m \in MsgType, Leaves(i, m),
           \A j \in Ids : Consistent(j) /\ Ordered(j)
    PROVE  \A j \in Ids : Consistent(j)' /\ Ordered(j)'
<1>1. /\ Live(i) /\ ~Live(i)' /\ m.id = i /\ info' = info /\ lost' = lost /\ UNCHANGED monVars
      /\ reliable' = Append(reliable, m) /\ chunk'[i].pc = "exited"
      /\ \A j \in Ids \ {i} : chunk'[j] = chunk[j]
      /\ m.t = "failed" \/ (m.t = "complete" /\ chunk[i].pc = "completing")
  BY DEF Leaves
<1>2. /\ \A s, e : Rest(i, s, e)' => Rest(i, s, e)
      /\ Reports(i)' = Reports(i) /\ Mail(i)' = Mail(i) \cup {m} /\ News(i)' = News(i)
      /\ \A n \in Mail(i) : n.t \notin Ends
      /\ ~EndReported(i) /\ i \notin retired /\ i < nextId
      /\ UNCHANGED <<st, completed, retired, Retries, nextId, owed>>
  BY LeaveFacts
<1>3. InBounds(i)'
  <2>1. \A x : Reach(i, x)' => Reach(i, x)  BY <1>2 DEF Reach
  <2>2. \A y : Limit(i, y)' => Limit(i, y)  BY <1>1, <1>2 DEF Limit
  <2> QED  BY <1>2, <2>1, <2>2 DEF Consistent, InBounds
<1>4. SameStart(i)'  BY <1>1, <1>2 DEF Consistent, SameStart
<1>5. Told(i)'  BY <1>1 DEF Told
<1>6. Standing(i)'
  <2>1. ~(i >= nextId)  BY <1>2, Numbers DEF NumbersOK, IInv
  <2>2. \A r \in Retries' : r.id # i  BY <1>1, <1>2, LiveRest DEF Consistent
  <2> QED  BY <1>1, <1>2, <2>1, <2>2 DEF Standing
<1>7. Ordered(i)'
  <2>1. Finishing(i)' => Finishing(i)
    BY <1>1, <1>2 DEF Finishing, Ends
  <2>2. reliable' # reliable  BY <1>1 DEF IInv, TypeOK
  <2> QED  BY <1>1, <1>2, <2>1, AppendOrdered DEF IInv
<1>8. \A j \in Ids \ {i} : Consistent(j)' /\ Ordered(j)'
  <2>1. lost => lost'  BY <1>1
  <2> QED  BY <1>1, <2>1, OthersConsistent
<1> QED  BY <1>3, <1>4, <1>5, <1>6, <1>7, <1>8 DEF Consistent

\* Every step of a worker keeps what is said of the ids.
LEMMA WorkerConsistent ==
    ASSUME IInv, IInv', NEW i \in Ids, WorkerStep(i), Working,
           \A j \in Ids : Consistent(j) /\ Ordered(j)
    PROVE  \A j \in Ids : Consistent(j)' /\ Ordered(j)'
<1>1. ASSUME NEW m \in MsgType, Tells(i, m)  PROVE \A j \in Ids : Consistent(j)' /\ Ordered(j)'
  <2>1. Consistent(i)' /\ Ordered(i)'  BY <1>1, TellsConsistent
  <2>2. \A j \in Ids \ {i} : Consistent(j)' /\ Ordered(j)'
    BY <1>1, OthersConsistent DEF Tells
  <2> QED  BY <2>1, <2>2
<1>2. CASE \E n \in Pieces : Data(i, n)  BY <1>1, <1>2, DataTells
<1>3. CASE Bisect(i)  BY <1>1, <1>3, UnsplitTells, SplitConsistent
<1>4. CASE FailSend(i) \/ SendComplete(i)  BY <1>4, SendsLeave, LeaveConsistent
<1>5. ~Terminate(i)  BY DEF Terminate
<1>6. Standing(i)  BY DEF Consistent
<1> QED  BY <1>1, <1>2, <1>3, <1>4, <1>5, <1>6, QuietTells DEF WorkerStep
-----------------------------------------------------------------------------
(* The monitor reads *)

\* What taking the first message does to the messages of each id.
LEMMA TakeMail ==
    ASSUME TypeOK, reliable # <<>>, reliable' = Tail(reliable)
    PROVE  \E h \in MsgType :
              /\ h = Head(reliable) /\ h = reliable[1]
              /\ \A j : j # h.id => Mail(j)' = Mail(j)
              /\ \A j : Mail(j)' \subseteq Mail(j) /\ Mail(j) \subseteq Mail(j)' \cup {h}
              /\ \A j : j = h.id => h \in Mail(j)
<1>1. /\ Queued(reliable) = Queued(reliable') \cup {Head(reliable)}
      /\ Head(reliable) \in MsgType /\ Head(reliable) = reliable[1]
  BY QueuedTail DEF TypeOK
<1>2. PICK h \in MsgType : h = Head(reliable)  BY <1>1
<1>3. \A j : j # h.id => Mail(j)' = Mail(j)  BY <1>1, <1>2 DEF Mail
<1>4. \A j : Mail(j)' \subseteq Mail(j) /\ Mail(j) \subseteq Mail(j)' \cup {h}
  BY <1>1, <1>2 DEF Mail
<1>5. \A j : j = h.id => h \in Mail(j)  BY <1>1, <1>2 DEF Mail
<1> QED  BY <1>1, <1>2, <1>3, <1>4, <1>5

\* The same of the broadcast.
LEMMA TakeNews ==
    ASSUME TypeOK, info # <<>>, info' = Tail(info)
    PROVE  \E h \in MsgType :
              /\ h = Head(info)
              /\ \A j : j # h.id => News(j)' = News(j)
              /\ \A j : News(j)' \subseteq News(j) /\ News(j) \subseteq News(j)' \cup {h}
              /\ \A j : j = h.id => h \in News(j)
<1>1. /\ Queued(info) = Queued(info') \cup {Head(info)}
      /\ Head(info) \in MsgType
  BY QueuedTail DEF TypeOK
<1>2. PICK h \in MsgType : h = Head(info)  BY <1>1
<1>3. \A j : j # h.id => News(j)' = News(j)  BY <1>1, <1>2 DEF News
<1>4. \A j : News(j)' \subseteq News(j) /\ News(j) \subseteq News(j)' \cup {h}
  BY <1>1, <1>2 DEF News
<1>5. \A j : j = h.id => h \in News(j)  BY <1>1, <1>2 DEF News
<1> QED  BY <1>2, <1>3, <1>4, <1>5

\* After the end of an id nothing of it is left on the channel.
LEMMA EndLeavesNothing ==
    ASSUME TypeOK, reliable # <<>>, reliable' = Tail(reliable), NEW i \in Ids,
           reliable[1].id = i, reliable[1].t \in Ends, LastIsEnd(i)
    PROVE  Mail(i)' = {}
<1>1. /\ Len(reliable) \in Nat /\ Len(reliable) >= 1
      /\ \A k \in 1 .. Len(reliable') :
            k + 1 \in 1 .. Len(reliable) /\ reliable'[k] = reliable[k + 1]
  BY TailFacts
<1>2. ASSUME NEW k \in 1 .. Len(reliable'), reliable'[k].id = i  PROVE FALSE
  <2>1. k + 1 \in Pos /\ 1 \in Pos /\ reliable[k + 1].id = i  BY <1>1, <1>2 DEF Pos
  <2>2. k + 1 <= 1  BY <2>1 DEF LastIsEnd
  <2> QED  BY <1>1, <2>2
<1> QED  BY <1>2 DEF Mail, Queued

\* Taking the first event keeps the order of the others.
LEMMA TailOrdered ==
    ASSUME TypeOK, reliable # <<>>, reliable' = Tail(reliable), NEW j \in Ids, Ordered(j),
           Finishing(j)' => /\ Finishing(j)
                            /\ st[j].on => st'[j].on
                            /\ ProgressAt(1, j) => st'[j].on
    PROVE  Ordered(j)'
<1>1. /\ Len(reliable) \in Nat /\ Len(reliable) >= 1 /\ Len(reliable') = Len(reliable) - 1
      /\ \A k \in 1 .. Len(reliable') :
            k + 1 \in 1 .. Len(reliable) /\ reliable'[k] = reliable[k + 1]
      /\ \A k \in 1 .. Len(reliable) :
            k = 1 \/ (k - 1 \in 1 .. Len(reliable') /\ reliable'[k - 1] = reliable[k])
  BY TailFacts
<1>2. LastIsEnd(j)'
  <2>1. SUFFICES ASSUME NEW k \in 1 .. Len(reliable'), NEW l \in 1 .. Len(reliable'),
                        reliable'[k].id = j, reliable'[l].id = j, reliable'[l].t \in Ends
                 PROVE  k <= l
    BY DEF LastIsEnd, Pos
  <2>2. k + 1 \in Pos /\ l + 1 \in Pos  BY <1>1 DEF Pos
  <2>3. k + 1 <= l + 1  BY <1>1, <2>1, <2>2 DEF Ordered, LastIsEnd
  <2> QED  BY <1>1, <2>3
<1>3. FinalKept(j)'
  <2>1. SUFFICES ASSUME Finishing(j)'
                 PROVE  /\ st'[j].on \/ \E k \in Pos' : ProgressAt(k, j)'
                        /\ \A l \in Pos' : reliable'[l].t = "bisected" /\ reliable'[l].id = j =>
                              \E k \in Pos' : l < k /\ ProgressAt(k, j)'
    BY DEF FinalKept
  <2>2. \A k \in 1 .. Len(reliable) : k # 1 /\ ProgressAt(k, j) =>
           k - 1 \in Pos' /\ ProgressAt(k - 1, j)'
    BY <1>1 DEF Pos, ProgressAt
  <2>3. st'[j].on \/ \E k \in Pos' : ProgressAt(k, j)'
    <3>1. CASE st[j].on  BY <2>1, <3>1
    <3>2. CASE ~st[j].on
      <4>1. PICK k \in 1 .. Len(reliable) : ProgressAt(k, j)
        BY <2>1, <3>2 DEF Ordered, FinalKept, Pos
      <4> QED  BY <2>1, <2>2, <4>1
    <3> QED  BY <3>1, <3>2
  <2>4. ASSUME NEW l \in Pos', reliable'[l].t = "bisected", reliable'[l].id = j
        PROVE  \E k \in Pos' : l < k /\ ProgressAt(k, j)'
    <3>1. l + 1 \in Pos /\ reliable[l + 1].t = "bisected" /\ reliable[l + 1].id = j /\ l \in Nat
          /\ l >= 1
      BY <1>1, <2>4 DEF Pos
    <3>2. PICK k \in 1 .. Len(reliable) : l + 1 < k /\ ProgressAt(k, j)
      BY <2>1, <3>1 DEF Ordered, FinalKept, Pos
    <3>3. k # 1 /\ l < k - 1  BY <1>1, <3>1, <3>2
    <3> QED  BY <2>2, <3>2, <3>3
  <2> QED  BY <2>3, <2>4
<1> QED  BY <1>2, <1>3 DEF Ordered

\* A step that leaves the channel alone keeps the order.
LEMMA SameOrdered ==
    ASSUME NEW j \in Ids, Ordered(j), reliable' = reliable,
           Finishing(j)' => Finishing(j) /\ (st[j].on => st'[j].on)
    PROVE  Ordered(j)'
<1>1. Pos' = Pos /\ \A k : ProgressAt(k, j)' <=> ProgressAt(k, j)  BY DEF Pos, ProgressAt
<1>2. LastIsEnd(j)'  BY <1>1 DEF Ordered, LastIsEnd
<1>3. FinalKept(j)'  BY <1>1 DEF Ordered, FinalKept
<1> QED  BY <1>2, <1>3 DEF Ordered

\* The monitor is idle only when it has read all of the broadcast.
LEMMA ReadyAttentive == ASSUME owed' = Ready  PROVE Attentive
BY DEF Attentive, Ready

\* A step after which the reports reach no further and the ends are no closer.
LEMMA BoundsKept ==
    ASSUME NEW i, InBounds(i), ~st'[i].on => st'[i].dl = 0,
           \A x \in Nat : Reach(i, x)' => \E z \in Nat : x <= z /\ Reach(i, z),
           \A y \in Nat : Limit(i, y)' => \E z \in Nat : z <= y /\ Limit(i, z),
           \A s, e \in Nat : Rest(i, s, e)' => Rest(i, s, e)
    PROVE  InBounds(i)'
<1>1. \A x, y \in Nat : Reach(i, x)' /\ Limit(i, y)' => x <= y
  <2>1. SUFFICES ASSUME NEW x \in Nat, NEW y \in Nat, Reach(i, x)', Limit(i, y)'
                 PROVE  x <= y
    OBVIOUS
  <2>2. PICK u \in Nat : x <= u /\ Reach(i, u)  BY <2>1
  <2>3. PICK v \in Nat : v <= y /\ Limit(i, v)  BY <2>1
  <2>4. u <= v  BY <2>2, <2>3 DEF InBounds
  <2> QED  BY <2>2, <2>3, <2>4
<1>2. ASSUME NEW s \in Nat, NEW e \in Nat, Rest(i, s, e)', NEW x \in Nat
      PROVE  (Reach(i, x)' => x <= s) /\ (Limit(i, x)' => e < x)
  <2>1. Rest(i, s, e)  BY <1>2
  <2>2. ASSUME Reach(i, x)'  PROVE x <= s
    <3>1. PICK u \in Nat : x <= u /\ Reach(i, u)  BY <2>2
    <3>2. u <= s  BY <2>1, <3>1 DEF InBounds
    <3> QED  BY <3>1, <3>2
  <2>3. ASSUME Limit(i, x)'  PROVE e < x
    <3>1. PICK v \in Nat : v <= x /\ Limit(i, v)  BY <2>3
    <3>2. e < v  BY <2>1, <3>1 DEF InBounds
    <3> QED  BY <3>1, <3>2
  <2> QED  BY <2>2, <2>3
<1> QED  BY <1>1, <1>2 DEF InBounds
-----------------------------------------------------------------------------
(* What the monitor makes of a message *)

\* A progress message of id i is read from one of the channels.
Reads(i, h) ==
    /\ h.id = i /\ h \in Reports(i) /\ (h.t = "progress" \/ Mail(i)' = Mail(i))
    /\ Mail(i)' \subseteq Mail(i) /\ Mail(i) \subseteq Mail(i)' \cup {h}
    /\ News(i)' \subseteq News(i) /\ News(i) \subseteq News(i)' \cup {h}
    /\ \A j \in Ids \ {i} : Mail(j)' = Mail(j) /\ News(j)' = News(j)
    /\ OnProgress(h) /\ lost' = lost /\ Attentive

\* The entry after a progress message.
LEMMA EntryAfter ==
    ASSUME TypeOK, NEW i \in Ids, NEW h \in MsgType, h.id = i, OnProgress(h)
    PROVE  /\ i \in retired => st'[i] = st[i]
           /\ i \notin retired =>
                 /\ st'[i].on /\ st'[i].end = h.end
                 /\ st'[i].start = IF st[i].on THEN st[i].start ELSE h.start
                 /\ st'[i].dl = Larger(st[i].dl, h.dl)
           /\ \A j \in Ids \ {i} : st'[j] = st[j]
           /\ UNCHANGED <<chunk, completed, retired, retry, delayed, Retries, nextId, result>>
<1>1. st' = IF i \in retired THEN st ELSE [st EXCEPT ![i] = Updated(@, h)]
  BY DEF OnProgress
<1>2. DOMAIN st = Ids  BY DEF TypeOK
<1>3. UNCHANGED <<chunk, completed, retired, retry, delayed, Retries, nextId, result>>
  BY DEF OnProgress, retryVars, Retries
<1>4. CASE i \in retired  BY <1>1, <1>3, <1>4
<1>5. CASE i \notin retired
  <2>1. st'[i] = Updated(st[i], h) /\ \A j \in Ids \ {i} : st'[j] = st[j]
    BY <1>1, <1>2, <1>5
  <2> QED  BY <1>3, <1>5, <2>1 DEF Updated
<1> QED  BY <1>4, <1>5

\* The entry reaches no further than its reports did.
LEMMA ReadBounds ==
    ASSUME IInv, IInv', NEW i \in Ids, NEW h \in MsgType, Reads(i, h), Consistent(i)
    PROVE  InBounds(i)'
<1>1. /\ h.id = i /\ h \in Reports(i) /\ OnProgress(h)
      /\ Mail(i)' \subseteq Mail(i) /\ News(i)' \subseteq News(i)
  BY DEF Reads
<1>2. /\ i \in retired => st'[i] = st[i]
      /\ i \notin retired =>
            /\ st'[i].on /\ st'[i].end = h.end
            /\ st'[i].start = IF st[i].on THEN st[i].start ELSE h.start
            /\ st'[i].dl = Larger(st[i].dl, h.dl)
      /\ UNCHANGED <<chunk, Retries>>
  BY <1>1, EntryAfter DEF IInv
<1>3. /\ h.start \in Nat /\ h.end \in Nat /\ h.dl \in Nat
      /\ st[i].start \in Nat /\ st[i].end \in Nat /\ st[i].dl \in Nat
  BY <1>1, Numbers DEF NumbersOK, IInv
<1>4. Reports(i)' \subseteq Reports(i)  BY <1>1 DEF Reports
<1>5. \A s, e \in Nat : Rest(i, s, e)' => Rest(i, s, e)
  <2>1. Live(i)' <=> Live(i)  BY <1>2 DEF Live
  <2> QED  BY <1>1, <1>2, <2>1 DEF Rest
<1>6. (st[i].on => st[i].start <= h.start) /\ (~st[i].on => st[i].dl = 0)
  BY <1>1 DEF Consistent, SameStart, InBounds
<1>7. ASSUME NEW x \in Nat, Reach(i, x)'  PROVE \E z \in Nat : x <= z /\ Reach(i, z)
  <2>1. CASE \E m \in Reports(i)' : x = m.start + m.dl  BY <1>4, <2>1 DEF Reach
  <2>2. CASE st'[i].on /\ x = st'[i].start + st'[i].dl
    <3>1. CASE i \in retired  BY <1>2, <2>2, <3>1 DEF Reach
    <3>2. CASE i \notin retired
      <4>1. x <= h.start + h.dl \/ (st[i].on /\ x = st[i].start + st[i].dl)
        BY <1>2, <1>3, <1>6, <2>2, <3>2 DEF Larger
      <4>2. Reach(i, h.start + h.dl) /\ h.start + h.dl \in Nat  BY <1>1, <1>3 DEF Reach
      <4> QED  BY <4>1, <4>2 DEF Reach
    <3> QED  BY <3>1, <3>2
  <2> QED  BY <1>7, <2>1, <2>2 DEF Reach
<1>8. \A y : Limit(i, y)' => Limit(i, y)
  BY <1>1, <1>2, <1>4 DEF Limit
<1>9. ~st'[i].on => st'[i].dl = 0  BY <1>2, <1>6
<1> QED  BY <1>5, <1>7, <1>8, <1>9, BoundsKept DEF Consistent

\* Reading a report keeps what is said of every id.
LEMMA ReadConsistent ==
    ASSUME IInv, IInv', NEW i \in Ids, NEW h \in MsgType, Reads(i, h),
           \A j \in Ids : Consistent(j)
    PROVE  /\ \A j \in Ids : Consistent(j)' /\ (Finishing(j)' => Finishing(j))
           /\ \A j \in Ids \ {i} : Same(j)
           /\ i \notin retired => st'[i].on
           /\ \A j \in Ids : st[j].on => st'[j].on
           /\ i \in retired => ~Live(i) /\ ~Expected(i)
<1>1. /\ h.id = i /\ h \in Reports(i) /\ OnProgress(h)
      /\ h.t = "progress" \/ Mail(i)' = Mail(i)
      /\ Mail(i)' \subseteq Mail(i) /\ Mail(i) \subseteq Mail(i)' \cup {h}
      /\ News(i)' \subseteq News(i)
      /\ \A j \in Ids \ {i} : Mail(j)' = Mail(j) /\ News(j)' = News(j)
      /\ lost' = lost /\ Attentive
  BY DEF Reads
<1>2. /\ i \in retired => st'[i] = st[i]
      /\ i \notin retired =>
            /\ st'[i].on /\ st'[i].end = h.end
            /\ st'[i].start = IF st[i].on THEN st[i].start ELSE h.start
      /\ \A j \in Ids \ {i} : st'[j] = st[j]
      /\ UNCHANGED <<chunk, retired, Retries, nextId>>
  BY <1>1, EntryAfter DEF IInv
<1>3. \A j \in Ids : Live(j)' <=> Live(j)  BY <1>2 DEF Live
<1>4. \A j \in Ids \ {i} : Same(j)
  <2> SUFFICES ASSUME NEW j \in Ids \ {i}  PROVE Same(j)  OBVIOUS
  <2>1. Mail(j)' = Mail(j) /\ News(j)' = News(j)  BY <1>1
  <2>2. st'[j] = st[j] /\ chunk'[j] = chunk[j]  BY <1>2
  <2> QED  BY <1>2, <1>3, <2>1, <2>2 DEF Same
<1>5. lost => lost'  BY <1>1
<1>6. \A j \in Ids \ {i} : Consistent(j)'  BY <1>1, <1>4, <1>5, SameConsistent DEF IInv
<1>7. EndReported(i)' <=> EndReported(i)
  <2>1. EndReported(i) <=> \E m \in Mail(i) : m.t \in Ends  BY MailTypes DEF MailOK, IInv
  <2>2. EndReported(i)' <=> \E m \in Mail(i)' : m.t \in Ends  BY MailTypesNext DEF MailOK, IInv
  <2>3. h.t \notin Ends \/ Mail(i)' = Mail(i)  BY <1>1 DEF Ends
  <2> QED  BY <1>1, <2>1, <2>2, <2>3
<1>8. Expected(i)' <=> Expected(i)  BY <1>2, <1>3, <1>7 DEF Expected, Reporting
<1>9. Reports(i)' \subseteq Reports(i)  BY <1>1 DEF Reports
<1>10. Standing(i)'
  <2>1. ~(i >= nextId)  BY <1>1 DEF Consistent, Standing, Reports
  <2>2. (\E r \in Retries' : r.id = i) => Mail(i)' = {} /\ (owed' = "any" => News(i)' = {})
    BY <1>1, <1>2, NoNews DEF Consistent, Standing, Attentive
  <2> QED  BY <1>2, <1>3, <1>7, <1>8, <2>1, <2>2 DEF Consistent, Standing
<1>11. i \in retired => ~Live(i) /\ ~Expected(i)
  BY DEF Consistent, Standing, Expected, Reporting
<1>12. SameStart(i)'
  <2>1. CASE i \in retired
    BY <1>2, <1>3, <1>9, <1>11, <2>1 DEF Consistent, SameStart
  <2>2. CASE i \notin retired
    <3>1. \A m \in Reports(i) : m.start = h.start  BY <1>1 DEF Consistent, SameStart
    <3>2. h.start \in Nat  BY <1>1, Numbers DEF NumbersOK, IInv
    <3>3. \A m \in Reports(i)' : st'[i].start <= m.start
      BY <1>1, <1>2, <1>9, <2>2, <3>1, <3>2 DEF Consistent, SameStart
    <3>4. Live(i) => st'[i].start <= chunk[i].start
      BY <1>1, <1>2, <2>2, <3>2 DEF Consistent, SameStart
    <3> QED  BY <1>2, <1>3, <1>9, <3>1, <3>3, <3>4 DEF Consistent, SameStart
  <2> QED  BY <2>1, <2>2
<1>13. Told(i)'  BY <1>2, <1>3, <1>11 DEF Told
<1>14. Consistent(i)'  BY <1>10, <1>12, <1>13, ReadBounds DEF Consistent
<1>15. \A j \in Ids : Mail(j)' \subseteq Mail(j)  BY <1>1
<1>16. \A j \in Ids : Finishing(j)' => Finishing(j)  BY <1>2, <1>15 DEF Finishing
<1>17. \A j \in Ids : st[j].on => st'[j].on  BY <1>2
<1> QED  BY <1>2, <1>4, <1>6, <1>11, <1>14, <1>16, <1>17

\* A report is read from the broadcast.
LEMMA InfoReads ==
    ASSUME IInv, MonInfo
    PROVE  \E i \in Ids : \E h \in MsgType : Reads(i, h)
<1>1. /\ info # <<>> /\ info' = Tail(info) /\ OnProgress(Head(info)) /\ reliable' = reliable
      /\ lost' = lost /\ owed' = Ready
  BY DEF MonInfo
<1>2. PICK h \in MsgType :
              /\ h = Head(info)
              /\ \A j : j # h.id => News(j)' = News(j)
              /\ \A j : News(j)' \subseteq News(j) /\ News(j) \subseteq News(j)' \cup {h}
              /\ \A j : j = h.id => h \in News(j)
  BY <1>1, TakeNews DEF IInv
<1>3. PICK i \in Ids : i = h.id  BY DEF MsgType
<1>4. \A j : Mail(j)' = Mail(j)  BY <1>1 DEF Mail
<1>5. h \in Reports(i)  BY <1>2, <1>3 DEF Reports
<1>6. OnProgress(h) /\ Attentive  BY <1>1, <1>2, ReadyAttentive
<1>7. Reads(i, h)  BY <1>1, <1>2, <1>3, <1>4, <1>5, <1>6 DEF Reads
<1> QED  BY <1>7

\* A report is read from the reliable channel.
LEMMA ReliableReads ==
    ASSUME IInv, MonReliable, Head(reliable).t = "progress"
    PROVE  \E i \in Ids : \E h \in MsgType : Reads(i, h) /\ h = reliable[1]
<1>1. /\ reliable # <<>> /\ reliable' = Tail(reliable) /\ OnProgress(Head(reliable))
      /\ info' = info /\ lost' = lost /\ owed' = Ready
  BY DEF MonReliable
<1>2. PICK h \in MsgType :
              /\ h = Head(reliable) /\ h = reliable[1]
              /\ \A j : j # h.id => Mail(j)' = Mail(j)
              /\ \A j : Mail(j)' \subseteq Mail(j) /\ Mail(j) \subseteq Mail(j)' \cup {h}
              /\ \A j : j = h.id => h \in Mail(j)
  BY <1>1, TakeMail DEF IInv
<1>3. PICK i \in Ids : i = h.id  BY DEF MsgType
<1>4. \A j : News(j)' = News(j)  BY <1>1 DEF News
<1>5. h.t = "progress"  BY <1>2
<1>6. h \in Reports(i)  BY <1>2, <1>3, <1>5 DEF Reports
<1>7. OnProgress(h) /\ Attentive  BY <1>1, <1>2, ReadyAttentive
<1>8. Reads(i, h)  BY <1>1, <1>2, <1>3, <1>4, <1>5, <1>6, <1>7 DEF Reads
<1> QED  BY <1>2, <1>8

\* The monitor reads a report, from either channel.
LEMMA ProgressConsistent ==
    ASSUME IInv, IInv', MonInfo \/ (MonReliable /\ Head(reliable).t = "progress"),
           \A j \in Ids : Consistent(j) /\ Ordered(j)
    PROVE  \A j \in Ids : Consistent(j)' /\ Ordered(j)'
<1>1. CASE MonInfo
  <2>1. PICK i \in Ids, h \in MsgType : Reads(i, h)  BY <1>1, InfoReads
  <2>2. \A j \in Ids : Consistent(j)' /\ (Finishing(j)' => Finishing(j))
                       /\ (st[j].on => st'[j].on)
    BY <2>1, ReadConsistent
  <2>3. reliable' = reliable  BY <1>1 DEF MonInfo
  <2> QED  BY <2>2, <2>3, SameOrdered
<1>2. CASE MonReliable /\ Head(reliable).t = "progress"
  <2>1. PICK i \in Ids, h \in MsgType : Reads(i, h) /\ h = reliable[1]  BY <1>2, ReliableReads
  <2>2. /\ \A j \in Ids : Consistent(j)' /\ (Finishing(j)' => Finishing(j))
        /\ i \notin retired => st'[i].on
        /\ \A j \in Ids : st[j].on => st'[j].on
        /\ i \in retired => ~Live(i) /\ ~Expected(i)
    BY <2>1, ReadConsistent
  <2>3. reliable # <<>> /\ reliable' = Tail(reliable)  BY <1>2 DEF MonReliable
  <2>4. \A j \in Ids : ProgressAt(1, j) => j = i  BY <2>1 DEF ProgressAt, Reads
  <2>5. ~Expected(i) /\ ~Live(i) => ~Finishing(i)
    <3>1. EndReported(i) <=> \E m \in Mail(i) : m.t \in Ends  BY MailTypes DEF MailOK, IInv
    <3> QED  BY <3>1 DEF Finishing, Live, Expected, Reporting, Ends
  <2>6. \A j \in Ids : Finishing(j)' => (ProgressAt(1, j) => st'[j].on)
    BY <2>2, <2>4, <2>5
  <2> QED  BY <2>2, <2>3, <2>6, TailOrdered DEF IInv
<1> QED  BY <1>1, <1>2

\* The end h of id i is read: its entry goes, a failed range waits for its retry.
Ended(i, h) ==
    /\ h = reliable[1] /\ h.id = i /\ h \in Mail(i) /\ Mail(i)' = {} /\ News(i)' = News(i)
    /\ ~Live(i) /\ ~Live(i)' /\ EndReported(i) /\ ~EndReported(i)' /\ i < nextId
    /\ i \notin retired /\ \A r \in Retries : r.id # i
    /\ st'[i] = NoEntry /\ (\A j \in Ids \ {i} : Same(j)) /\ chunk' = chunk
    /\ reliable # <<>> /\ reliable' = Tail(reliable)
    /\ UNCHANGED <<nextId, sent, lost>> /\ owed' = Ready
    /\ \/ /\ h.t = "complete" /\ Retries' = Retries
          /\ completed' = IF st[i].on THEN completed + Size(st[i].start, st[i].end) ELSE completed
       \/ /\ h.t = "failed" /\ retired' = retired
          /\ completed' = completed + Preserved(st[i], h.start)
          /\ \E r \in RangeType : /\ r.id = i /\ r.start = h.start /\ r.end = h.end
                                  /\ Retries' = Retries \cup {r}

\* on_chunk_failed and complete_chunk are of this kind.
LEMMA EndIsRead ==
    ASSUME IInv, IInv', MonReliable, Head(reliable).t \in Ends, Working',
           \A j \in Ids : Consistent(j) /\ Ordered(j)
    PROVE  \E i \in Ids : \E h \in MsgType : Ended(i, h)
<1>1. /\ reliable # <<>> /\ reliable' = Tail(reliable) /\ result = "running"
      /\ UNCHANGED <<info, lost, sent>> /\ owed' = Ready
  BY DEF MonReliable
<1>2. PICK h \in MsgType :
              /\ h = Head(reliable) /\ h = reliable[1]
              /\ \A j : j # h.id => Mail(j)' = Mail(j)
              /\ \A j : Mail(j)' \subseteq Mail(j) /\ Mail(j) \subseteq Mail(j)' \cup {h}
              /\ \A j : j = h.id => h \in Mail(j)
  BY <1>1, TakeMail DEF IInv
<1>3. PICK i \in Ids : i = h.id  BY DEF MsgType
<1>4. \A j : News(j)' = News(j)  BY <1>1 DEF News
<1>5. h.t \in Ends /\ h \in Mail(i)  BY <1>2, <1>3
<1>6. Mail(i)' = {}  BY <1>1, <1>2, <1>3, <1>5, EndLeavesNothing DEF Ordered, IInv
<1>7. EndReported(i) /\ ~EndReported(i)'
  <2>1. EndReported(i) <=> \E m \in Mail(i) : m.t \in Ends  BY MailTypes DEF MailOK, IInv
  <2>2. EndReported(i)' <=> \E m \in Mail(i)' : m.t \in Ends  BY MailTypesNext DEF MailOK, IInv
  <2> QED  BY <1>5, <1>6, <2>1, <2>2
<1>8. /\ ~Live(i) /\ i \notin retired /\ \A r \in Retries : r.id # i
  BY <1>5, <1>7 DEF Consistent, Standing, Expected, Reporting
<1>9. i < nextId
  <2>1. ~(i >= nextId)  BY <1>5 DEF Consistent, Standing
  <2> QED  BY <2>1, Numbers DEF NumbersOK, IInv
<1>10. DOMAIN st = Ids  BY DEF IInv, TypeOK
<1>11. CASE OnComplete(h) /\ h.t = "complete"
  <2>1. /\ st' = [st EXCEPT ![i] = NoEntry] /\ retired' = retired \cup {i}
        /\ UNCHANGED <<chunk, retry, delayed, nextId>>
        /\ completed' = IF st[i].on THEN completed + Size(st[i].start, st[i].end) ELSE completed
    BY <1>3, <1>11 DEF OnComplete
  <2>2. Retries' = Retries  BY <2>1 DEF Retries
  <2>3. st'[i] = NoEntry /\ \A j \in Ids \ {i} : st'[j] = st[j]  BY <1>10, <2>1
  <2>4. \A j \in Ids : Live(j)' <=> Live(j)  BY <2>1 DEF Live
  <2>5. \A j \in Ids \ {i} : Same(j)
    BY <1>2, <1>3, <1>4, <2>1, <2>2, <2>3, <2>4 DEF Same
  <2>6. Ended(i, h)
    BY <1>1, <1>2, <1>3, <1>4, <1>5, <1>6, <1>7, <1>8, <1>9, <1>11, <2>1, <2>2, <2>3, <2>4, <2>5
    DEF Ended
  <2> QED  BY <2>6
<1>12. CASE OnFailed(h) /\ h.t = "failed"
  <2>1. /\ st' = [st EXCEPT ![i] = NoEntry] /\ Requeue(h)
        /\ UNCHANGED <<chunk, retired, nextId>>
        /\ completed' = completed + Preserved(st[i], h.start)
    BY <1>3, <1>12 DEF OnFailed
  <2>2. h.cls # "none"
    <3>1. 1 \in 1 .. Len(reliable)  BY <1>1, TailFacts DEF IInv
    <3> QED  BY <1>2, <1>12, <3>1 DEF IInv, Safe, RangesOK, Hands
  <2> DEFINE r == [id |-> h.id, start |-> h.start, end |-> h.end]
  <2>3. /\ r \in RangeType
        /\ \/ result' \in Causes
           \/ (retry \cup delayed)' = retry \cup delayed \cup {r}
    BY <1>1, <2>1, <2>2, RequeueFacts DEF IInv
  <2>4. result' \notin Causes  BY DEF Working, Causes
  <2>5. r.id = i /\ r.start = h.start /\ r.end = h.end  BY <1>3
  <2>6. Retries' = Retries \cup {r}  BY <2>3, <2>4 DEF Retries
  <2>7. PICK q \in RangeType : /\ q = r /\ q.id = i /\ q.start = h.start /\ q.end = h.end
                               /\ Retries' = Retries \cup {q}
    BY <2>3, <2>5, <2>6
  <2> HIDE DEF r
  <2>8. st'[i] = NoEntry /\ \A j \in Ids \ {i} : st'[j] = st[j]  BY <1>10, <2>1
  <2>9. \A j \in Ids : Live(j)' <=> Live(j)  BY <2>1 DEF Live
  <2>10. \A j \in Ids \ {i} : Same(j)
    BY <1>2, <1>3, <1>4, <2>1, <2>7, <2>8, <2>9 DEF Same
  <2>11. Ended(i, h)
    BY <1>1, <1>2, <1>3, <1>4, <1>5, <1>6, <1>7, <1>8, <1>9, <1>12, <2>1, <2>7, <2>8, <2>9, <2>10
    DEF Ended
  <2> QED  BY <2>11
<1>13. h.t = "complete" \/ h.t = "failed"  BY <1>5 DEF Ends
<1>14. (h.t = "complete" => OnComplete(h)) /\ (h.t = "failed" => OnFailed(h))
  BY <1>2 DEF MonReliable
<1> QED  BY <1>11, <1>12, <1>13, <1>14

\* The end of an id leaves nothing behind but the rest of its range.
LEMMA EndedConsistent ==
    ASSUME IInv, IInv', NEW i \in Ids, NEW h \in MsgType, Ended(i, h),
           \A j \in Ids : Consistent(j) /\ Ordered(j)
    PROVE  /\ \A j \in Ids : Consistent(j)' /\ Ordered(j)'
           /\ h.t = "failed" => \A s, e : Rest(i, s, e)' <=> s = h.start /\ e = h.end
           /\ \A s, e : Rest(i, s, e)' => Rest(i, s, e)
           /\ Reports(i)' \subseteq Reports(i)
<1>1. /\ h = reliable[1] /\ h.id = i /\ h \in Mail(i) /\ Mail(i)' = {} /\ News(i)' = News(i)
      /\ ~Live(i) /\ ~Live(i)' /\ ~EndReported(i)' /\ i < nextId /\ i \notin retired
      /\ \A r \in Retries : r.id # i
      /\ st'[i] = NoEntry /\ (\A j \in Ids \ {i} : Same(j)) /\ chunk' = chunk
      /\ reliable # <<>> /\ reliable' = Tail(reliable)
      /\ UNCHANGED <<nextId, lost>> /\ owed' = Ready /\ h.t \in Ends
      /\ \/ h.t = "complete" /\ Retries' = Retries
         \/ /\ h.t = "failed" /\ retired' = retired
            /\ \E r \in RangeType : /\ r.id = i /\ r.start = h.start /\ r.end = h.end
                                    /\ Retries' = Retries \cup {r}
  BY DEF Ended, Ends
<1>2. ~st'[i].on /\ st'[i].dl = 0  BY <1>1 DEF NoEntry
<1>3. Reports(i)' \subseteq Reports(i)  BY <1>1 DEF Reports
<1>4. h.t = "failed" => \A s, e : Rest(i, s, e)' <=> s = h.start /\ e = h.end
  BY <1>1 DEF Rest
<1>5. \A s, e : Rest(i, s, e)' => Rest(i, s, e)
  <2>1. CASE h.t = "failed"  BY <1>1, <1>4, <2>1 DEF Rest
  <2>2. CASE h.t # "failed"  BY <1>1, <2>2 DEF Rest
  <2> QED  BY <2>1, <2>2
<1>6. InBounds(i)'
  <2>1. \A x : Reach(i, x)' => Reach(i, x)  BY <1>2, <1>3 DEF Reach
  <2>2. \A y : Limit(i, y)' => Limit(i, y)  BY <1>1, <1>2, <1>3 DEF Limit
  <2> QED  BY <1>2, <1>5, <2>1, <2>2 DEF Consistent, InBounds
<1>7. SameStart(i)'  BY <1>1, <1>2, <1>3 DEF Consistent, SameStart
<1>8. Standing(i)'
  <2>1. ~(i >= nextId)  BY <1>1, Numbers DEF NumbersOK, IInv
  <2>2. owed' = "any" => News(i)' = {}
    <3>1. owed' = "any" => info' = <<>>  BY <1>1 DEF Ready
    <3> QED  BY <3>1, NoNews
  <2>3. Expected(i)' => i \notin retired'
    BY <1>1 DEF Expected, Reporting
  <2> QED  BY <1>1, <2>1, <2>2, <2>3 DEF Standing
<1>9. Told(i)'  BY <1>1 DEF Told
<1>10. ~Finishing(i)'  BY <1>1 DEF Finishing, Live
<1>11. \A j \in Ids \ {i} : Consistent(j)'
  <2>1. Attentive  BY <1>1, ReadyAttentive
  <2>2. lost => lost'  BY <1>1
  <2> QED  BY <1>1, <2>1, <2>2, SameConsistent DEF IInv
<1>12. ASSUME NEW j \in Ids  PROVE Ordered(j)'
  <2>1. CASE j = i  BY <1>1, <1>10, <2>1, TailOrdered DEF IInv
  <2>2. CASE j # i
    <3>1. Finishing(j)' => Finishing(j)  BY <1>1, <2>2 DEF Finishing, Same
    <3>2. st'[j] = st[j]  BY <1>1, <2>2 DEF Same
    <3>3. ~ProgressAt(1, j)  BY <1>1 DEF ProgressAt, Ends
    <3> QED  BY <1>1, <3>1, <3>2, <3>3, TailOrdered DEF IInv
  <2> QED  BY <2>1, <2>2
<1> QED  BY <1>3, <1>4, <1>5, <1>6, <1>7, <1>8, <1>9, <1>11, <1>12 DEF Consistent

\* A new worker starts with an id that was never used.
Starts(j) ==
    /\ j >= nextId /\ j < nextId' /\ Live(j)' /\ chunk'[j].pc = "req"
    /\ chunk'[j].off = chunk'[j].start /\ chunk'[j].rep = 0
    /\ Mail(j)' = Mail(j) /\ News(j)' = News(j) /\ st'[j] = st[j]
    /\ j \in retired' => j \in retired
    /\ \A r \in Retries' : r.id # j

\* Nothing was said of it yet.
LEMMA StartConsistent ==
    ASSUME IInv, IInv', NEW j \in Ids, Starts(j), Consistent(j)
    PROVE  Consistent(j)' /\ ~Finishing(j)'
<1>1. /\ Mail(j)' = {} /\ News(j)' = {} /\ ~st'[j].on /\ j \notin retired'
      /\ st'[j] = st[j] /\ Live(j)' /\ chunk'[j].pc = "req" /\ chunk'[j].rep = 0
      /\ \A r \in Retries' : r.id # j
      /\ chunk'[j].off = chunk'[j].start
  BY DEF Starts, Consistent, Standing
<1>2. Reports(j)' = {}  BY <1>1 DEF Reports
<1>3. \A x : ~Reach(j, x)' /\ ~Limit(j, x)'  BY <1>1, <1>2 DEF Reach, Limit
<1>4. InBounds(j)'  BY <1>1, <1>3 DEF InBounds, Consistent
<1>5. SameStart(j)'  BY <1>1, <1>2 DEF SameStart
<1>6. ~(j >= nextId)'
  <2>1. j < nextId'  BY DEF Starts
  <2> QED  BY <2>1, NumbersNext DEF NumbersOK, IInv
<1>7. ~EndReported(j)'
  <2>1. EndReported(j)' <=> \E m \in Mail(j)' : m.t \in Ends  BY MailTypesNext DEF MailOK, IInv
  <2> QED  BY <1>1, <2>1
<1>8. Standing(j)'  BY <1>1, <1>6, <1>7 DEF Standing
<1>9. Told(j)'  BY <1>1 DEF Told
<1> QED  BY <1>1, <1>4, <1>5, <1>8, <1>9 DEF Consistent, Finishing

\* The split h of id i is read: its entry shrinks, a new worker may start.
Shrinks(i, h) ==
    /\ h = reliable[1] /\ h.id = i /\ h.t = "bisected" /\ h \in Mail(i) /\ h.start >= 1
    /\ Mail(i)' \subseteq Mail(i) /\ Mail(i) \subseteq Mail(i)' \cup {h} /\ News(i)' = News(i)
    /\ chunk'[i] = chunk[i] /\ i < nextId /\ i < nextId'
    /\ \/ ~st[i].on /\ st'[i] = st[i]
       \/ /\ st[i].on /\ st'[i].on /\ st'[i].start = st[i].start /\ st'[i].end = h.start - 1
          /\ st'[i].dl = Smaller(st[i].dl, Size(st[i].start, h.start - 1))
    /\ \A j \in Ids \ {i} : Same(j) \/ Starts(j)
    /\ reliable # <<>> /\ reliable' = Tail(reliable)
    /\ UNCHANGED <<completed, retired, Retries, sent, lost>> /\ owed' = Ready

\* The handler of a split is of this kind.
LEMMA SplitIsRead ==
    ASSUME IInv, IInv', MonReliable, Head(reliable).t = "bisected",
           \A j \in Ids : Consistent(j)
    PROVE  \E i \in Ids : \E h \in MsgType : Shrinks(i, h)
<1>1. /\ reliable # <<>> /\ reliable' = Tail(reliable) /\ OnBisected(Head(reliable))
      /\ UNCHANGED <<info, lost, sent>> /\ owed' = Ready
  BY DEF MonReliable
<1>2. PICK h \in MsgType :
              /\ h = Head(reliable) /\ h = reliable[1]
              /\ \A j : j # h.id => Mail(j)' = Mail(j)
              /\ \A j : Mail(j)' \subseteq Mail(j) /\ Mail(j) \subseteq Mail(j)' \cup {h}
              /\ \A j : j = h.id => h \in Mail(j)
  BY <1>1, TakeMail DEF IInv
<1>3. PICK i \in Ids : i = h.id  BY DEF MsgType
<1>4. \A j : News(j)' = News(j)  BY <1>1 DEF News
<1>5. h.t = "bisected" /\ h \in Mail(i) /\ OnBisected(h)  BY <1>1, <1>2, <1>3
<1>6. h.start >= 1
  <2>1. 1 \in 1 .. Len(reliable)  BY <1>1, TailFacts DEF IInv
  <2> QED  BY <1>2, <1>5, <2>1 DEF IInv, Safe, RangesOK, Hands
<1>7. i < nextId /\ nextId \in Nat /\ i \in Nat
  <2>1. ~(i >= nextId)  BY <1>5 DEF Consistent, Standing
  <2> QED  BY <2>1, Numbers DEF NumbersOK, IInv
<1>8. UNCHANGED <<completed, retired, Retries>>
  BY <1>5 DEF OnBisected, retryVars, Retries
<1>9. /\ \/ ~st[i].on /\ st'[i] = st[i]
         \/ /\ st[i].on /\ st'[i].on /\ st'[i].start = st[i].start /\ st'[i].end = h.start - 1
            /\ st'[i].dl = Smaller(st[i].dl, Size(st[i].start, h.start - 1))
      /\ \A j \in Ids \ {i} : st'[j] = st[j]
  <2>1. st \in [Ids -> EntryType] /\ st[i] \in EntryType  BY DEF IInv, TypeOK, EntryType
  <2> DEFINE d == Smaller(st[i].dl, Size(st[i].start, h.start - 1))
             e == IF st[i].on THEN [st[i] EXCEPT !.end = h.start - 1, !.dl = d] ELSE st[i]
  <2>2. st' = [st EXCEPT ![i] = e]  BY <1>3, <1>5 DEF OnBisected
  <2>3. st'[i] = e /\ \A j \in Ids \ {i} : st'[j] = st[j]  BY <2>1, <2>2
  <2> HIDE DEF d
  <2>4. st[i].on => e.on /\ e.start = st[i].start /\ e.end = h.start - 1 /\ e.dl = d
    BY <2>1 DEF EntryType
  <2>5. ~st[i].on => e = st[i]  OBVIOUS
  <2> QED  BY <2>3, <2>4, <2>5 DEF d
<1>10. ASSUME NEW j \in Ids \ {i}, chunk'[j] = chunk[j], j >= nextId' => j >= nextId
       PROVE  Same(j)
  <2>1. Live(j)' <=> Live(j)  BY <1>10 DEF Live
  <2> QED  BY <1>2, <1>3, <1>4, <1>8, <1>9, <1>10, <2>1 DEF Same
<1>11. CASE Room > 0
  <2>1. PICK q \in Ids : q = nextId  BY <1>5, <1>11 DEF OnBisected
  <2>2. nextId' = q + 1 /\ chunk' = [chunk EXCEPT ![q] = Worker(h.start, h.end)]
    BY <1>5, <1>11, <2>1 DEF OnBisected
  <2>3. /\ chunk'[q] = Worker(h.start, h.end)
        /\ \A j \in Ids \ {q} : chunk'[j] = chunk[j]
    BY <2>2, ChunkFacts DEF IInv
  <2>4. h.start \in Nat /\ h.end \in Nat  BY DEF MsgType
  <2>5. /\ chunk'[q].pc = "req" /\ chunk'[q].off = chunk'[q].start /\ chunk'[q].rep = 0
    BY <2>3, <2>4, WorkerRecord
  <2>6. q # i /\ q \in Nat /\ i < nextId'  BY <1>7, <2>1, <2>2
  <2>7. Starts(q)
    <3>1. Live(q)'  BY <2>5 DEF Live
    <3>2. q >= nextId /\ q < nextId'  BY <1>7, <2>1, <2>2
    <3>3. \A r \in Retries : r.id # q
      BY <1>7, <2>1, Numbers DEF NumbersOK, IInv, Safe, FreshIds
    <3>4. Mail(q)' = Mail(q) /\ News(q)' = News(q) /\ st'[q] = st[q]
      BY <1>2, <1>3, <1>4, <1>9, <2>6
    <3> QED  BY <1>8, <2>5, <3>1, <3>2, <3>3, <3>4 DEF Starts
  <2>8. \A j \in Ids \ {i} : Same(j) \/ Starts(j)
    <3> SUFFICES ASSUME NEW j \in Ids \ {i}, j # q  PROVE Same(j)  BY <2>7
    <3>1. j >= nextId' => j >= nextId
      <4>1. j \in Nat  BY Numbers DEF NumbersOK, IInv
      <4> QED  BY <1>7, <2>1, <2>2, <4>1
    <3> QED  BY <1>10, <2>3, <3>1
  <2>9. chunk'[i] = chunk[i]  BY <2>3, <2>6
  <2>10. Shrinks(i, h)
    BY <1>1, <1>2, <1>3, <1>4, <1>5, <1>6, <1>7, <1>8, <1>9, <2>6, <2>8, <2>9 DEF Shrinks
  <2> QED  BY <2>10
<1>12. CASE ~(Room > 0)
  <2>1. chunk' = chunk /\ nextId' = nextId  BY <1>5, <1>12 DEF OnBisected
  <2>2. \A j \in Ids \ {i} : Same(j)  BY <1>10, <2>1
  <2>3. Shrinks(i, h)
    BY <1>1, <1>2, <1>3, <1>4, <1>5, <1>6, <1>7, <1>8, <1>9, <2>1, <2>2 DEF Shrinks
  <2> QED  BY <2>3
<1> QED  BY <1>11, <1>12

\* A split that is read keeps what is said of every id.
LEMMA ShrinkConsistent ==
    ASSUME IInv, IInv', NEW i \in Ids, NEW h \in MsgType, Shrinks(i, h),
           \A j \in Ids : Consistent(j) /\ Ordered(j)
    PROVE  /\ \A j \in Ids : Consistent(j)' /\ Ordered(j)'
           /\ Reports(i)' = Reports(i) /\ (Live(i)' <=> Live(i))
           /\ \A s, e : Rest(i, s, e)' <=> Rest(i, s, e)
           /\ \A m \in Mail(i) : m.t = "complete" => m \in Mail(i)'
<1>1. /\ h = reliable[1] /\ h.id = i /\ h.t = "bisected" /\ h \in Mail(i) /\ h.start >= 1
      /\ Mail(i)' \subseteq Mail(i) /\ Mail(i) \subseteq Mail(i)' \cup {h} /\ News(i)' = News(i)
      /\ chunk'[i] = chunk[i] /\ i < nextId /\ i < nextId'
      /\ \/ ~st[i].on /\ st'[i] = st[i]
         \/ /\ st[i].on /\ st'[i].on /\ st'[i].start = st[i].start /\ st'[i].end = h.start - 1
            /\ st'[i].dl = Smaller(st[i].dl, Size(st[i].start, h.start - 1))
      /\ \A j \in Ids \ {i} : Same(j) \/ Starts(j)
      /\ reliable # <<>> /\ reliable' = Tail(reliable)
      /\ UNCHANGED <<retired, Retries, lost>> /\ owed' = Ready
  BY DEF Shrinks
<1>2. /\ h.start \in Nat /\ h.start - 1 \in Nat
      /\ st[i].start \in Nat /\ st[i].dl \in Nat
  BY <1>1, Numbers DEF NumbersOK, IInv
<1>3. Reports(i)' = Reports(i)  BY <1>1 DEF Reports
<1>4. Live(i)' <=> Live(i)  BY <1>1 DEF Live
<1>5. \A s, e : Rest(i, s, e)' <=> Rest(i, s, e)  BY <1>1, <1>4 DEF Rest
<1>6. EndReported(i)' <=> EndReported(i)
  <2>1. EndReported(i) <=> \E m \in Mail(i) : m.t \in Ends  BY MailTypes DEF MailOK, IInv
  <2>2. EndReported(i)' <=> \E m \in Mail(i)' : m.t \in Ends  BY MailTypesNext DEF MailOK, IInv
  <2>3. h.t \notin Ends  BY <1>1 DEF Ends
  <2> QED  BY <1>1, <2>1, <2>2, <2>3
<1>7. InBounds(i)'
  <2>1. Smaller(st[i].dl, Size(st[i].start, h.start - 1)) \in Nat
        /\ Smaller(st[i].dl, Size(st[i].start, h.start - 1)) <= st[i].dl
    BY <1>2, ArithTypes
  <2>2. ASSUME NEW x \in Nat, Reach(i, x)'  PROVE \E z \in Nat : x <= z /\ Reach(i, z)
    <3>1. CASE \E m \in Reports(i)' : x = m.start + m.dl  BY <1>3, <3>1 DEF Reach
    <3>2. CASE st'[i].on /\ x = st'[i].start + st'[i].dl
      <4>1. st[i].on /\ x <= st[i].start + st[i].dl  BY <1>1, <1>2, <2>1, <3>2
      <4>2. st[i].start + st[i].dl \in Nat  BY <1>2
      <4> QED  BY <4>1, <4>2 DEF Reach
    <3> QED  BY <2>2, <3>1, <3>2 DEF Reach
  <2>3. \A y : Limit(i, y)' => Limit(i, y)
    <3>1. st'[i].on => st'[i].end + 1 = h.start  BY <1>1, <1>2
    <3> QED  BY <1>1, <1>3, <3>1 DEF Limit
  <2>4. ~st'[i].on => st'[i].dl = 0  BY <1>1 DEF Consistent, InBounds
  <2> QED  BY <1>5, <2>2, <2>3, <2>4, BoundsKept DEF Consistent
<1>8. SameStart(i)'  BY <1>1, <1>3, <1>4 DEF Consistent, SameStart
<1>9. Standing(i)'
  <2>1. ~(i >= nextId)'  BY <1>1, NumbersNext DEF NumbersOK, IInv
  <2>2. \A r \in Retries' : r.id # i  BY <1>1 DEF Consistent, Standing
  <2>3. Expected(i)' => Expected(i)  BY <1>1, <1>4, <1>6 DEF Expected, Reporting
  <2> QED  BY <1>1, <1>4, <1>6, <2>1, <2>2, <2>3 DEF Consistent, Standing
<1>10. Told(i)'  BY <1>1, <1>3, <1>4 DEF Consistent, Told
<1>11. Attentive /\ (lost => lost')  BY <1>1, ReadyAttentive
<1>12. \A j \in Ids : Consistent(j)'
  BY <1>1, <1>7, <1>8, <1>9, <1>10, <1>11, SameConsistent, StartConsistent DEF IInv, Consistent
<1>13. ASSUME NEW j \in Ids  PROVE Ordered(j)'
  <2>1. Finishing(j)' => Finishing(j)
    <3>1. CASE j = i  BY <1>1, <3>1 DEF Finishing
    <3>2. CASE j # i /\ Same(j)  BY <3>2 DEF Same, Finishing, Live
    <3>3. CASE j # i /\ Starts(j)  BY <3>3, StartConsistent
    <3> QED  BY <1>1, <3>1, <3>2, <3>3
  <2>2. st[j].on => st'[j].on  BY <1>1 DEF Same, Starts
  <2>3. ~ProgressAt(1, j)  BY <1>1 DEF ProgressAt
  <2> QED  BY <1>1, <2>1, <2>2, <2>3, TailOrdered DEF IInv
<1> QED  BY <1>1, <1>3, <1>4, <1>5, <1>12, <1>13
-----------------------------------------------------------------------------
(* The ticks and the other steps *)

\* Id j gets a worker again, for the range of its retry r.
Resumes(j, r) ==
    /\ r \in Retries /\ r.id = j /\ owed = "any" /\ j < nextId'
    /\ Live(j)' /\ chunk'[j].pc = "req" /\ chunk'[j].rep = 0
    /\ chunk'[j].start = r.start /\ chunk'[j].off = r.start /\ chunk'[j].end = r.end
    /\ Mail(j)' = Mail(j) /\ News(j)' = News(j) /\ st'[j] = st[j]
    /\ j \in retired' => j \in retired
    /\ \A x \in Retries' : x.id # j

\* Every report of the run before was read by then.
LEMMA ResumeConsistent ==
    ASSUME IInv, IInv', NEW j \in Ids, NEW r, Resumes(j, r), Consistent(j)
    PROVE  /\ Consistent(j)' /\ ~Finishing(j)'
           /\ Mail(j)' = Mail(j) /\ News(j)' = News(j) /\ st'[j] = st[j]
           /\ Mail(j) = {} /\ News(j) = {} /\ Rest(j, r.start, r.end)'
           /\ \A s, e : Rest(j, s, e) => s = r.start /\ e = r.end
<1>1. /\ r \in Retries /\ r.id = j /\ owed = "any" /\ j < nextId'
      /\ Live(j)' /\ chunk'[j].pc = "req" /\ chunk'[j].rep = 0
      /\ chunk'[j].start = r.start /\ chunk'[j].off = r.start /\ chunk'[j].end = r.end
      /\ Mail(j)' = Mail(j) /\ News(j)' = News(j) /\ st'[j] = st[j]
      /\ j \in retired' => j \in retired
      /\ \A x \in Retries' : x.id # j
  BY DEF Resumes
<1>2. Mail(j) = {} /\ News(j) = {} /\ j \notin retired
  BY <1>1 DEF Consistent, Standing, Expected
<1>3. Reports(j) = {} /\ Reports(j)' = {}  BY <1>1, <1>2 DEF Reports
<1>4. ~Live(j) /\ \A x \in Retries : x.id = j => x = r
  BY <1>1 DEF IInv, Safe, OnePlace
<1>5. \A s, e : Rest(j, s, e) <=> s = r.start /\ e = r.end  BY <1>1, <1>2, <1>4 DEF Rest
<1>6. \A s, e : Rest(j, s, e)' <=> s = r.start /\ e = r.end  BY <1>1, <1>2 DEF Rest
<1>7. InBounds(j)'
  <2>1. \A x : Reach(j, x)' => Reach(j, x)  BY <1>1, <1>3 DEF Reach
  <2>2. \A y : Limit(j, y)' => Limit(j, y)  BY <1>1, <1>2, <1>3 DEF Limit
  <2> QED  BY <1>1, <1>5, <1>6, <2>1, <2>2 DEF Consistent, InBounds
<1>8. SameStart(j)'
  <2>1. ASSUME st[j].on  PROVE st[j].start <= r.start
    <3>1. /\ st[j].start \in Nat /\ st[j].dl \in Nat /\ r.start \in Nat /\ r.end \in Nat
          /\ st[j].start + st[j].dl \in Nat
      BY <1>1, Numbers DEF NumbersOK, IInv
    <3>2. Reach(j, st[j].start + st[j].dl) /\ Rest(j, r.start, r.end)
      BY <1>5, <2>1 DEF Reach
    <3>3. st[j].start + st[j].dl <= r.start  BY <3>1, <3>2 DEF Consistent, InBounds
    <3> QED  BY <3>1, <3>3
  <2> QED  BY <1>1, <1>3, <2>1 DEF SameStart
<1>9. ~EndReported(j)'
  <2>1. EndReported(j)' <=> \E m \in Mail(j)' : m.t \in Ends  BY MailTypesNext DEF MailOK, IInv
  <2> QED  BY <1>1, <1>2, <2>1
<1>10. Standing(j)'
  <2>1. ~(j >= nextId)'  BY <1>1, NumbersNext DEF NumbersOK, IInv
  <2> QED  BY <1>1, <1>2, <1>9, <2>1 DEF Standing
<1>11. Told(j)'  BY <1>1 DEF Told
<1>12. ~Finishing(j)'  BY <1>1, <1>2 DEF Finishing
<1> QED  BY <1>1, <1>2, <1>5, <1>6, <1>7, <1>8, <1>10, <1>11, <1>12 DEF Consistent

\* A tick leaves an id alone, starts it or resumes it.
LEMMA TickIds ==
    ASSUME IInv, NEW due, NEW go, NEW command \in Commands \cup {NoCommand},
           Tick(due, go, command)
    PROVE  /\ \A j \in Ids : Same(j) \/ Starts(j) \/ \E r : Resumes(j, r)
           /\ UNCHANGED <<reliable, info, lost, st, completed, sent>> /\ Attentive
<1> DEFINE fresh == nextId .. nextId + Drained - 1
<1>1. /\ go \subseteq Retries
      /\ \A j \in fresh :
            /\ j \in Ids
            /\ chunk'[j].pc = "req" /\ chunk'[j].start = pending[j - nextId + 1].start
            /\ chunk'[j].off = pending[j - nextId + 1].start /\ chunk'[j].rep = 0
      /\ \A r \in go :
            /\ r.id \in Ids /\ r.id \notin fresh
            /\ chunk'[r.id].pc = "req" /\ chunk'[r.id].start = r.start
            /\ chunk'[r.id].off = r.start /\ chunk'[r.id].end = r.end /\ chunk'[r.id].rep = 0
      /\ \A j \in Ids : j \notin fresh /\ (\A r \in go : r.id # j) =>
            /\ chunk'[j].pc = chunk[j].pc /\ chunk'[j].start = chunk[j].start
            /\ chunk'[j].off = chunk[j].off /\ chunk'[j].end = chunk[j].end
            /\ chunk'[j].rep = chunk[j].rep
  BY TickWorkers
<1>2. /\ UNCHANGED <<reliable, info, lost, st, completed, retired, sent>> /\ owed = "any"
      /\ nextId' = nextId + Drained /\ owed' = Ready
      /\ due \subseteq delayed /\ delayed' = delayed \ due /\ retry' = (retry \cup due) \ go
  BY DEF Tick, chanVars, ledgerVars
<1>3. Retries' = Retries \ go
  <2>1. due \cap retry = {} /\ retry \cap delayed = {}
    BY <1>2 DEF IInv, Safe, OnePlace
  <2>2. \A r \in go : r \in retry \cup due  BY DEF Tick
  <2>3. \A r \in go : r \notin delayed'  BY <1>2, <2>1, <2>2
  <2>4. \A r : r \in Retries' <=> r \in Retries /\ r \notin go
    BY <1>2, <2>3 DEF Retries
  <2> QED  BY <2>4
<1>4. \A j : Mail(j)' = Mail(j) /\ News(j)' = News(j)  BY <1>2 DEF Mail, News
<1>5. nextId \in Nat /\ Drained \in Nat /\ \A j \in Ids : j \in Nat
  BY DrainedFacts, Numbers DEF NumbersOK, IInv
<1>6. \A r \in Retries : r.id < nextId /\ r.id \in Ids
  BY Numbers DEF NumbersOK, IInv, Safe, FreshIds
<1>7. ASSUME NEW j \in fresh  PROVE Starts(j)
  <2>1. j \in Ids /\ j >= nextId /\ j < nextId'  BY <1>1, <1>2, <1>5
  <2>2. \A r \in Retries' : r.id # j  BY <1>3, <1>5, <1>6, <2>1
  <2>3. Live(j)'  BY <1>1 DEF Live
  <2>4. chunk'[j].pc = "req" /\ chunk'[j].off = chunk'[j].start /\ chunk'[j].rep = 0  BY <1>1
  <2> QED  BY <1>2, <1>4, <2>1, <2>2, <2>3, <2>4 DEF Starts
<1>8. ASSUME NEW r \in go  PROVE Resumes(r.id, r)
  <2>1. PICK j \in Ids : j = r.id  BY <1>1
  <2>2. r \in Retries /\ j < nextId'  BY <1>1, <1>2, <1>5, <1>6, <2>1
  <2>3. Live(j)'  BY <1>1, <2>1 DEF Live
  <2>4. \A x \in Retries' : x.id # j
    BY <1>3, <2>1, <2>2 DEF IInv, Safe, OnePlace
  <2>5. chunk'[j].pc = "req" /\ chunk'[j].start = r.start /\ chunk'[j].rep = 0
        /\ chunk'[j].off = r.start /\ chunk'[j].end = r.end
    BY <1>1, <2>1
  <2>6. Resumes(j, r)  BY <1>2, <1>4, <2>1, <2>2, <2>3, <2>4, <2>5 DEF Resumes
  <2> QED  BY <2>1, <2>6
<1>9. ASSUME NEW j \in Ids, j \notin fresh, \A r \in go : r.id # j
      PROVE  Same(j)
  <2>1. Live(j)' <=> Live(j)  BY <1>1, <1>9 DEF Live
  <2>2. \A r : r.id = j => (r \in Retries' <=> r \in Retries)  BY <1>3, <1>9
  <2>3. j >= nextId' => j >= nextId  BY <1>2, <1>5
  <2>4. chunk'[j].pc = chunk[j].pc /\ chunk'[j].start = chunk[j].start
        /\ chunk'[j].off = chunk[j].off /\ chunk'[j].end = chunk[j].end
        /\ chunk'[j].rep = chunk[j].rep
    BY <1>1, <1>9
  <2> QED  BY <1>2, <1>4, <2>1, <2>2, <2>3, <2>4 DEF Same
<1>10. Attentive  BY <1>2, ReadyAttentive
<1> QED  BY <1>2, <1>7, <1>8, <1>9, <1>10

\* A step that leaves the channels and the ledger alone.
LEMMA CalmConsistent ==
    ASSUME IInv, IInv', UNCHANGED <<reliable, st>>, Attentive, lost => lost',
           \A j \in Ids : Same(j) \/ Starts(j) \/ \E r : Resumes(j, r),
           \A j \in Ids : Consistent(j) /\ Ordered(j)
    PROVE  \A j \in Ids : Consistent(j)' /\ Ordered(j)'
<1> SUFFICES ASSUME NEW j \in Ids  PROVE Consistent(j)' /\ Ordered(j)'  OBVIOUS
<1>1. CASE Same(j)
  <2>1. Finishing(j)' => Finishing(j)  BY <1>1 DEF Same, Finishing, Live
  <2> QED  BY <1>1, <2>1, SameConsistent, SameOrdered DEF IInv
<1>2. CASE Starts(j)  BY <1>2, StartConsistent, SameOrdered
<1>3. CASE \E r : Resumes(j, r)
  <2>1. PICK r : Resumes(j, r)  BY <1>3
  <2> QED  BY <2>1, ResumeConsistent, SameOrdered
<1> QED  BY <1>1, <1>2, <1>3

\* The steps that concern no id: a worker is joined, the monitor subscribes, the
\* writer dies, nothing happens.
LEMMA CalmSteps ==
    ASSUME IInv, \/ \E i \in Ids : MonJoin(i)
                 \/ WriterDies \/ Subscribe \/ UNCHANGED vars
    PROVE  /\ \A j \in Ids : Same(j)
           /\ UNCHANGED <<reliable, info, lost, st, completed, retry, delayed, sent>>
           /\ Attentive
<1>1. CASE \E i \in Ids : MonJoin(i)
  <2>1. PICK i \in Ids : MonJoin(i)  BY <1>1
  <2>2. /\ \A j \in Ids : Live(j)' <=> Live(j)
        /\ \A j \in Ids \ {i} : chunk'[j] = chunk[j]
        /\ UNCHANGED <<st, retired, info, reliable, retry, delayed, nextId, sent>>
    BY <2>1, JoinMoves
  <2>3. lost' = lost /\ completed' = completed /\ owed' = Ready /\ chunk[i].pc = "exited"
    BY <2>1 DEF MonJoin, chanVars, ledgerVars
  <2>4. \A j \in Ids : Live(j) => chunk'[j] = chunk[j]  BY <2>2, <2>3 DEF Live
  <2>5. \A j \in Ids : Same(j)  BY <2>2, <2>4 DEF Same, Mail, News, Retries
  <2> QED  BY <2>2, <2>3, <2>5, ReadyAttentive
<1>2. CASE WriterDies \/ Subscribe \/ UNCHANGED vars
  <2>1. UNCHANGED <<chunk, st, retired, info, reliable, retry, delayed, nextId, sent, owed>>
    BY <1>2, IdleMoves
  <2>2. lost' = lost /\ completed' = completed
    BY <1>2 DEF WriterDies, Subscribe, vars, chanVars, monVars, ledgerVars
  <2>3. \A j \in Ids : Same(j)  BY <2>1 DEF Same, Mail, News, Retries, Live
  <2> QED  BY <2>1, <2>2, <2>3 DEF Attentive
<1> QED  BY <1>1, <1>2

\* Every step keeps the invariant.
LEMMA LedgerStep ==
    ASSUME IInv, IInv', LedgerInv, [Next]_vars  PROVE LedgerInv'
<1>1. SUFFICES ASSUME Working'  PROVE \A j \in Ids : Consistent(j)' /\ Ordered(j)'
  BY DEF LedgerInv
<1>2. ASSUME Working  PROVE \A j \in Ids : Consistent(j) /\ Ordered(j)
  BY <1>2 DEF LedgerInv
<1>3. CASE \E i \in Ids : WorkerStep(i)
  <2>1. PICK i \in Ids : WorkerStep(i)  BY <1>3
  <2>2. Working
    <3>1. result' = result
      BY <2>1 DEF WorkerStep, Respond, RequestFailed, Data, Overrun, WriterClosed, Eof,
         StreamError, IdleTimeout, Kill, Bisect, FailSend, FinalProgress, SendComplete,
         Terminate, monVars
    <3> QED  BY <1>1, <3>1 DEF Working
  <2> QED  BY <1>2, <2>1, <2>2, WorkerConsistent
<1>4. CASE (\E i \in Ids : MonJoin(i)) \/ WriterDies \/ Subscribe \/ UNCHANGED vars
  <2>1. Working  BY <1>1, <1>4 DEF MonJoin, WriterDies, Subscribe, vars, monVars, Working
  <2>2. /\ \A j \in Ids : Same(j)
        /\ UNCHANGED <<reliable, lost, st>> /\ Attentive
    BY <1>4, CalmSteps
  <2>3. lost => lost'  BY <2>2
  <2> QED  BY <1>2, <2>1, <2>2, <2>3, CalmConsistent
<1>5. CASE MonInfo
  <2>1. Working  BY <1>5 DEF MonInfo, Working
  <2> QED  BY <1>2, <1>5, <2>1, ProgressConsistent
<1>6. CASE MonReliable
  <2>1. Working  BY <1>6 DEF MonReliable, Working
  <2>2. CASE Head(reliable).t = "progress"  BY <1>2, <1>6, <2>1, <2>2, ProgressConsistent
  <2>3. CASE Head(reliable).t \in Ends
    BY <1>1, <1>2, <1>6, <2>1, <2>3, EndIsRead, EndedConsistent
  <2>4. CASE Head(reliable).t = "bisected"
    BY <1>2, <1>6, <2>1, <2>4, SplitIsRead, ShrinkConsistent
  <2> QED  BY <1>6, <2>2, <2>3, <2>4 DEF MonReliable, Ends
<1>7. CASE SomeTick
  <2>1. PICK due \in SUBSET delayed :
           \E go \in SUBSET (retry \cup due) :
              \E command \in Commands \cup {NoCommand} : Tick(due, go, command)
    BY <1>7 DEF SomeTick
  <2>2. PICK go \in SUBSET (retry \cup due) :
           \E command \in Commands \cup {NoCommand} : Tick(due, go, command)
    BY <2>1
  <2>3. PICK command \in Commands \cup {NoCommand} : Tick(due, go, command)  BY <2>2
  <2>4. Working  BY <2>3 DEF Tick, Working
  <2>5. /\ \A j \in Ids : Same(j) \/ Starts(j) \/ \E r : Resumes(j, r)
        /\ UNCHANGED <<reliable, lost, st>> /\ Attentive
    BY <2>3, TickIds
  <2>6. lost => lost'  BY <2>5
  <2> QED  BY <1>2, <2>4, <2>5, <2>6, CalmConsistent
<1> QED  BY <1>3, <1>4, <1>5, <1>6, <1>7 DEF Next, Finished

\* At the start nothing was said of any id.
LEMMA InitLedger ==
    ASSUME Init  PROVE LedgerInv
<1>1. /\ reliable = <<>> /\ info = <<>> /\ retry = {} /\ delayed = {} /\ retired = {}
      /\ st = [i \in Ids |-> NoEntry]
  BY DEF Init
<1>2. Len(reliable) = 0 /\ Len(info) = 0 /\ DOMAIN reliable = {}  BY <1>1
<1>3. \A i : Mail(i) = {} /\ News(i) = {} /\ Reports(i) = {} /\ ~EndReported(i)
  BY <1>2 DEF Mail, News, Reports, Queued, EndReported
<1>4. \A i \in Ids : ~st[i].on /\ st[i].dl = 0  BY <1>1 DEF NoEntry
<1>5. IInv  BY InitStep
<1>6. ASSUME NEW i \in Ids
      PROVE  Live(i) => /\ chunk[i].pc = "req" /\ chunk[i].rep = 0
                        /\ chunk[i].off = chunk[i].start
  <2> DEFINE k == Smaller(Len(InitRanges), Slots)
  <2>1. chunk[i] = IF i < k THEN Worker(InitRanges[i + 1].start, InitRanges[i + 1].end)
                   ELSE NoChunk
    BY DEF Init
  <2>2. ~Live(i) \/ chunk[i] = Worker(InitRanges[i + 1].start, InitRanges[i + 1].end)
    <3>1. chunk[i] = NoChunk => ~Live(i)  BY DEF NoChunk, Live
    <3> QED  BY <2>1, <3>1
  <2> QED  BY <2>2 DEF Worker, NoChunk
<1>7. ASSUME NEW i \in Ids  PROVE Consistent(i) /\ Ordered(i)
  <2>1. \A x : ~Reach(i, x) /\ ~Limit(i, x)  BY <1>3, <1>4 DEF Reach, Limit
  <2>2. InBounds(i)  BY <1>4, <2>1 DEF InBounds
  <2>3. SameStart(i)  BY <1>3, <1>4 DEF SameStart
  <2>4. Standing(i)  BY <1>1, <1>3, <1>4, <1>6 DEF Standing, Retries
  <2>5. Told(i)
    <3>1. Live(i) => chunk[i].pc # "failing" /\ ~(chunk[i].rep > 0)  BY <1>6
    <3> QED  BY <3>1 DEF Told
  <2>6. Ordered(i)
    <3>1. Pos = {}  BY <1>2 DEF Pos
    <3>2. ~Finishing(i)
      <4>1. chunk[i].pc = "completing" => Live(i)  BY DEF Live
      <4> QED  BY <1>3, <1>6, <4>1 DEF Finishing
    <3> QED  BY <3>1, <3>2 DEF Ordered, LastIsEnd, FinalKept
  <2> QED  BY <2>2, <2>3, <2>4, <2>5, <2>6 DEF Consistent
<1> QED  BY <1>7 DEF LedgerInv

\* The ledger, the messages and the workers agree in every reachable state.
THEOREM LedgerConsistent == Spec => []LedgerInv
<1>1. Init => LedgerInv  BY InitLedger
<1>2. IInv /\ IInv' /\ LedgerInv /\ [Next]_vars => LedgerInv'  BY LedgerStep
<1> QED  BY <1>1, <1>2, Invariance, PTL DEF Spec
-----------------------------------------------------------------------------
(* The total never goes back *)

\* The pairs counted by the total are finitely many.
LEMMA DownloadedFinite ==
    TypeOK => IsFiniteSet(Downloaded(st)) /\ Cardinality(Downloaded(st)) \in Nat
<1> SUFFICES ASSUME TypeOK
             PROVE  IsFiniteSet(Downloaded(st)) /\ Cardinality(Downloaded(st)) \in Nat
  OBVIOUS
<1> DEFINE part(i) == {i} \X (1 .. st[i].dl)
           parts == {part(i) : i \in Ids}
           f == [i \in Ids |-> part(i)]
<1>1. IsFiniteSet(Ids)
  <2>1. MaxIds - 1 \in Int /\ 0 \in Int  BY ConstantTypes
  <2> QED  BY <2>1, FS_Interval DEF Ids
<1>2. f \in Surjection(Ids, parts)  BY DEF Surjection
<1>3. IsFiniteSet(parts)
  <2> HIDE DEF f, parts
  <2> QED  BY <1>1, <1>2, FS_Surjection
<1>4. ASSUME NEW i \in Ids  PROVE IsFiniteSet(part(i))
  <2>1. 1 \in Int /\ st[i].dl \in Int  BY Numbers DEF NumbersOK
  <2>2. IsFiniteSet(1 .. st[i].dl) /\ IsFiniteSet({i})  BY <2>1, FS_Interval, FS_Singleton
  <2> QED  BY <2>2, FS_Product
<1>5. \A T \in parts : IsFiniteSet(T)  BY <1>4
<1>6. IsFiniteSet(UNION parts)
  <2> HIDE DEF parts
  <2> QED  BY <1>3, <1>5, FS_UNION
<1>7. Downloaded(st) = UNION parts  BY DEF Downloaded
<1> QED  BY <1>6, <1>7, FS_CardinalityType

\* The same after a step.
LEMMA DownloadedFiniteNext ==
    TypeOK' => IsFiniteSet(Downloaded(st')) /\ Cardinality(Downloaded(st')) \in Nat
<1>1. (TypeOK => IsFiniteSet(Downloaded(st)) /\ Cardinality(Downloaded(st)) \in Nat)'
  BY DownloadedFinite, PTL
<1> QED  BY <1>1

\* What id i loses in the ledger is credited to the completed bytes.
LEMMA TotalGrows ==
    ASSUME TypeOK, TypeOK', NEW i \in Ids, NEW n \in Nat, completed' >= completed + n,
           st'[i].dl >= st[i].dl \/ n >= st[i].dl,
           \A j \in Ids \ {i} : st'[j].dl >= st[j].dl
    PROVE  total_downloaded(st', completed') >= total_downloaded(st, completed)
<1> DEFINE D == Downloaded(st)
           E == Downloaded(st')
           A == {i} \X (1 .. n)
<1>1. \A j \in Ids : st[j].dl \in Nat /\ st'[j].dl \in Nat
  BY Numbers, NumbersNext DEF NumbersOK
<1>2. D \subseteq E \cup A
  <2>1. SUFFICES ASSUME NEW j \in Ids, NEW x \in {j} \X (1 .. st[j].dl)  PROVE x \in E \cup A
    BY DEF Downloaded
  <2>2. PICK k \in 1 .. st[j].dl : x = <<j, k>>  OBVIOUS
  <2>3. k \in 1 .. st'[j].dl \/ (j = i /\ k \in 1 .. n)  BY <1>1
  <2>4. k \in 1 .. st'[j].dl => x \in E  BY <2>2 DEF Downloaded
  <2> QED  BY <2>2, <2>3, <2>4
<1>3. /\ IsFiniteSet(D) /\ IsFiniteSet(E)
      /\ Cardinality(D) \in Nat /\ Cardinality(E) \in Nat
  BY DownloadedFinite, DownloadedFiniteNext
<1>4. IsFiniteSet(A) /\ Cardinality(A) = n
  <2>1. IsFiniteSet(1 .. n) /\ Cardinality(1 .. n) = n  BY FS_Interval
  <2>2. IsFiniteSet({i}) /\ Cardinality({i}) = 1  BY FS_Singleton
  <2>3. IsFiniteSet(A) /\ Cardinality(A) = Cardinality({i}) * Cardinality(1 .. n)
    BY <2>1, <2>2, FS_Product
  <2> QED  BY <2>1, <2>2, <2>3
<1> HIDE DEF D, E, A
<1>5. IsFiniteSet(E \cup A) /\ Cardinality(E \cup A) <= Cardinality(E) + n
  <2>1. /\ IsFiniteSet(E \cup A)
        /\ Cardinality(E \cup A) = Cardinality(E) + Cardinality(A) - Cardinality(E \cap A)
    BY <1>3, <1>4, FS_Union
  <2>2. Cardinality(E \cap A) \in Nat
    BY <1>3, FS_Intersection, FS_CardinalityType
  <2> QED  BY <1>3, <1>4, <2>1, <2>2
<1>6. Cardinality(D) <= Cardinality(E \cup A)  BY <1>2, <1>5, FS_Subset
<1>7. Cardinality(E \cup A) \in Nat  BY <1>5, FS_CardinalityType
<1>8. completed \in Nat /\ completed' \in Nat /\ FileSize \in Nat
  BY ConstantTypes DEF TypeOK
<1>9. completed + Cardinality(D) <= completed' + Cardinality(E)
  BY <1>3, <1>5, <1>6, <1>7, <1>8
<1>10. Smaller(completed' + Cardinality(E), FileSize) >= Smaller(completed + Cardinality(D), FileSize)
  BY <1>3, <1>8, <1>9 DEF Smaller
<1> QED  BY <1>10 DEF total_downloaded, D, E

\* An entry counts no more bytes than its range has, before and after a split
\* that is on its way.
LEMMA EntryFits ==
    ASSUME IInv, NEW i \in Ids, InBounds(i)
    PROVE  /\ st[i].on => st[i].dl <= Size(st[i].start, st[i].end)
           /\ ~st[i].on => st[i].dl = 0
           /\ \A m \in Mail(i) : st[i].on /\ m.t = "bisected" /\ m.start >= 1 =>
                 st[i].dl <= Size(st[i].start, m.start - 1)
<1>1. /\ st[i].start \in Nat /\ st[i].end \in Nat /\ st[i].dl \in Nat
      /\ \A m \in Mail(i) : m.start \in Nat
  BY Numbers DEF NumbersOK, IInv
<1>2. ASSUME NEW y \in Nat, st[i].on, Limit(i, y)  PROVE st[i].start + st[i].dl <= y
  <2>1. st[i].start + st[i].dl \in Nat  BY <1>1
  <2>2. Reach(i, st[i].start + st[i].dl)  BY <1>2 DEF Reach
  <2> QED  BY <1>2, <2>1, <2>2 DEF InBounds
<1>3. ASSUME st[i].on  PROVE st[i].dl <= Size(st[i].start, st[i].end)
  <2>1. Limit(i, st[i].end + 1) /\ st[i].end + 1 \in Nat  BY <1>1, <1>3 DEF Limit
  <2>2. st[i].start + st[i].dl <= st[i].end + 1  BY <1>2, <1>3, <2>1
  <2> QED  BY <1>1, <2>2 DEF Size, Minus
<1>4. ASSUME NEW m \in Mail(i), st[i].on, m.t = "bisected", m.start >= 1
      PROVE  st[i].dl <= Size(st[i].start, m.start - 1)
  <2>1. Limit(i, m.start) /\ m.start \in Nat  BY <1>1, <1>4 DEF Limit
  <2>2. st[i].start + st[i].dl <= m.start  BY <1>2, <1>4, <2>1
  <2> QED  BY <1>1, <1>4, <2>1, <2>2 DEF Size, Minus
<1> QED  BY <1>3, <1>4 DEF InBounds

\* The monitor's handlers keep the total.
LEMMA ReadTotal ==
    ASSUME IInv, IInv', LedgerInv, MonInfo \/ MonReliable
    PROVE  total_downloaded(st', completed') >= total_downloaded(st, completed)
<1>1. \A j \in Ids : Consistent(j) /\ Ordered(j) /\ InBounds(j)
  BY DEF MonInfo, MonReliable, Working, LedgerInv, Consistent
<1>2. completed \in Nat /\ \A j \in Ids : st[j].dl \in Nat /\ st[j].start \in Nat /\ st[j].end \in Nat
  BY Numbers DEF NumbersOK, IInv, TypeOK
<1>3. CASE MonInfo \/ (MonReliable /\ Head(reliable).t = "progress")
  <2>1. PICK i \in Ids, h \in MsgType : Reads(i, h)  BY <1>3, InfoReads, ReliableReads
  <2>2. /\ i \in retired => st'[i] = st[i]
        /\ i \notin retired => st'[i].dl = Larger(st[i].dl, h.dl)
        /\ \A j \in Ids \ {i} : st'[j] = st[j]
        /\ completed' = completed
    BY <2>1, EntryAfter DEF Reads, IInv
  <2>3. h.dl \in Nat  BY DEF MsgType
  <2>4. st'[i].dl >= st[i].dl /\ \A j \in Ids \ {i} : st'[j].dl >= st[j].dl
    BY <1>2, <2>2, <2>3 DEF Larger
  <2>5. completed' >= completed + 0 /\ 0 \in Nat  BY <1>2, <2>2
  <2> QED  BY <2>4, <2>5, TotalGrows DEF IInv
<1>4. CASE MonReliable /\ Head(reliable).t \in Ends
  <2>1. PICK h \in MsgType : h = Head(reliable)
    BY <1>4, TailFacts DEF IInv, MonReliable
  <2>2. PICK i \in Ids : i = h.id  BY DEF MsgType
  <2>3. /\ h.t = "complete" => OnComplete(h)
        /\ h.t = "failed" => OnFailed(h)
        /\ h.t = "complete" \/ h.t = "failed"
    BY <1>4, <2>1 DEF MonReliable, Ends
  <2>4. st' = [st EXCEPT ![i] = NoEntry]  BY <2>2, <2>3 DEF OnComplete, OnFailed
  <2>5. \A j \in Ids \ {i} : st'[j] = st[j]  BY <2>4 DEF IInv, TypeOK
  <2>6. \A j \in Ids \ {i} : st'[j].dl >= st[j].dl  BY <1>2, <2>5
  <2>7. completed' >= completed + st[i].dl
    <3>1. /\ st[i].on => st[i].dl <= Size(st[i].start, st[i].end)
          /\ ~st[i].on => st[i].dl = 0
      BY <1>1, EntryFits
    <3>2. Size(st[i].start, st[i].end) \in Nat  BY <1>2, ArithTypes
    <3>3. CASE h.t = "complete"
      <4>1. completed' = IF st[i].on THEN completed + Size(st[i].start, st[i].end) ELSE completed
        BY <2>2, <2>3, <3>3 DEF OnComplete
      <4> QED  BY <1>2, <3>1, <3>2, <4>1
    <3>4. CASE h.t = "failed"
      <4>1. completed' = completed + Preserved(st[i], h.start)
        BY <2>2, <2>3, <3>4 DEF OnFailed
      <4>2. h.start \in Nat  BY DEF MsgType
      <4>3. /\ Minus(h.start, st[i].start) \in Nat
            /\ Smaller(Minus(h.start, st[i].start), Size(st[i].start, st[i].end)) \in Nat
        BY <1>2, <3>2, <4>2 DEF Minus, Smaller
      <4>4. Preserved(st[i], h.start) >= st[i].dl /\ Preserved(st[i], h.start) \in Nat
        <5>1. PICK z \in Nat :
                 z = Smaller(Minus(h.start, st[i].start), Size(st[i].start, st[i].end))
          BY <4>3
        <5>2. Preserved(st[i], h.start) = IF st[i].on THEN Larger(st[i].dl, z) ELSE 0
          BY <5>1 DEF Preserved
        <5> QED  BY <1>2, <3>1, <5>2 DEF Larger
      <4> QED  BY <1>2, <4>1, <4>4
    <3> QED  BY <2>3, <3>3, <3>4
  <2>8. PICK n \in Nat : n = st[i].dl  BY <1>2
  <2> QED  BY <1>2, <2>6, <2>7, <2>8, TotalGrows DEF IInv
<1>5. CASE MonReliable /\ Head(reliable).t = "bisected"
  <2>1. PICK i \in Ids, h \in MsgType : Shrinks(i, h)  BY <1>1, <1>5, SplitIsRead
  <2>2. /\ h \in Mail(i) /\ h.t = "bisected" /\ h.start >= 1 /\ completed' = completed
        /\ \/ ~st[i].on /\ st'[i] = st[i]
           \/ /\ st[i].on
              /\ st'[i].dl = Smaller(st[i].dl, Size(st[i].start, h.start - 1))
        /\ \A j \in Ids \ {i} : st'[j] = st[j]
    BY <2>1 DEF Shrinks, Same, Starts
  <2>3. st[i].on => st[i].dl <= Size(st[i].start, h.start - 1)  BY <1>1, <2>2, EntryFits
  <2>4. h.start - 1 \in Nat  BY <2>2 DEF MsgType
  <2>5. Size(st[i].start, h.start - 1) \in Nat  BY <1>2, <2>4, ArithTypes
  <2>6. st'[i].dl >= st[i].dl /\ \A j \in Ids \ {i} : st'[j].dl >= st[j].dl
    BY <1>2, <2>2, <2>3, <2>5 DEF Smaller
  <2>7. completed' >= completed + 0 /\ 0 \in Nat  BY <1>2, <2>2
  <2> QED  BY <2>6, <2>7, TotalGrows DEF IInv
<1> QED  BY <1>3, <1>4, <1>5 DEF MonReliable, Ends

\* No step makes the downloaded total go back.
LEMMA StepTotal ==
    ASSUME IInv, IInv', LedgerInv, [Next]_vars
    PROVE  total_downloaded(st', completed') >= total_downloaded(st, completed)
<1>1. CASE MonInfo \/ MonReliable  BY <1>1, ReadTotal
<1>2. CASE UNCHANGED <<st, completed>>
  <2>1. PICK i \in Ids : TRUE
    <3>1. 0 \in Ids  BY ConstantTypes DEF Ids
    <3> QED  BY <3>1
  <2>2. \A j \in Ids : st'[j].dl >= st[j].dl
    <3>1. \A j \in Ids : st[j].dl \in Nat  BY Numbers DEF NumbersOK, IInv
    <3> QED  BY <1>2, <3>1
  <2>3. completed' >= completed + 0 /\ 0 \in Nat  BY <1>2 DEF IInv, TypeOK
  <2> QED  BY <2>2, <2>3, TotalGrows DEF IInv
<1>3. CASE \E i \in Ids : WorkerStep(i)
  <2>1. UNCHANGED monVars
    BY <1>3 DEF WorkerStep, Respond, RequestFailed, Data, Overrun, WriterClosed, Eof,
       StreamError, IdleTimeout, Kill, Bisect, FailSend, FinalProgress, SendComplete, Terminate
  <2> QED  BY <1>2, <2>1 DEF monVars, ledgerVars
<1>4. CASE (\E i \in Ids : MonJoin(i)) \/ WriterDies \/ Subscribe \/ UNCHANGED vars
  BY <1>2, <1>4, CalmSteps
<1>5. CASE SomeTick
  BY <1>2, <1>5 DEF SomeTick, Tick, ledgerVars
<1> QED  BY <1>1, <1>3, <1>4, <1>5 DEF Next, Finished

\* The total shown to the user never goes back, whatever progress is lost,
\* overtaken by a failure, a split or a completion, or read after them.
THEOREM TotalMonotone == Spec => ProgressNeverRegresses
<1>1. IInv /\ IInv' /\ LedgerInv /\ [Next]_vars =>
         [total_downloaded(st, completed)' >= total_downloaded(st, completed)]_vars
  BY StepTotal
<1> QED  BY <1>1, Invariance, LedgerConsistent, PTL DEF Spec, ProgressNeverRegresses
-----------------------------------------------------------------------------
(* Every byte that reached the writer is credited, or will be *)

\* The entry of id i, or the one its worker or its reports will make, starts at
\* byte b or before it.
From(i, b) ==
    \/ st[i].on /\ st[i].start <= b
    \/ Live(i) /\ chunk[i].start <= b
    \/ \E m \in Reports(i) : m.start <= b

\* Byte b precedes what is still to be fetched of the range of id i.
Before(i, b) == \E s, e \in Nat : Rest(i, s, e) /\ b < s

\* Worker i completed and byte b is inside the range its entry will have when
\* the completion is read.
Closing(i, b) ==
    /\ \E m \in Mail(i) : m.t = "complete"
    /\ \A m \in Reports(i) : b <= m.end
    /\ \/ \E m \in Mail(i) : m.t = "progress"
       \/ st[i].on /\ b <= st[i].end

\* The end of id i will credit byte b.
DueTo(i, b) == From(i, b) /\ (Before(i, b) \/ Closing(i, b))

\* Unless messages were lost, the completed bytes pay for all bytes handed to
\* the writer but those that the end of some id will still credit.
Booked ==
    Working /\ ~lost =>
        \E C \in SUBSET Bytes :
            /\ Cardinality(C) <= completed
            /\ \A b \in sent \ C : \E i \in Ids : DueTo(i, b)

\* Bytes X are credited with n.
LEMMA Credit ==
    ASSUME NEW C \in SUBSET Bytes, NEW X, NEW n \in Nat, NEW c \in Nat, IsFiniteSet(X),
           Cardinality(X) <= n, Cardinality(C) <= c
    PROVE  \E D \in SUBSET Bytes : /\ Cardinality(D) <= c + n
                                   /\ \A b \in Bytes : b \in C \/ b \in X => b \in D
<1>1. IsFiniteSet(Bytes)
  <2>1. FileSize - 1 \in Int /\ 0 \in Int  BY ConstantTypes
  <2> QED  BY <2>1, FS_Interval DEF Bytes
<1>2. IsFiniteSet(C)  BY <1>1, FS_Subset
<1>3. PICK Y : Y = X \cap Bytes  OBVIOUS
<1>4. IsFiniteSet(Y) /\ Cardinality(Y) <= Cardinality(X)  BY <1>3, FS_Intersection
<1>5. /\ IsFiniteSet(C \cup Y)
      /\ Cardinality(C \cup Y) = Cardinality(C) + Cardinality(Y) - Cardinality(C \cap Y)
  BY <1>2, <1>4, FS_Union
<1>6. IsFiniteSet(C \cap Y)  BY <1>2, FS_Intersection
<1>7. /\ Cardinality(C) \in Nat /\ Cardinality(Y) \in Nat /\ Cardinality(C \cap Y) \in Nat
      /\ Cardinality(X) \in Nat
  BY <1>2, <1>4, <1>6, FS_CardinalityType
<1>8. Cardinality(C \cup Y) <= c + n  BY <1>4, <1>5, <1>7
<1>9. C \cup Y \in SUBSET Bytes  BY <1>3
<1>10. \A b \in Bytes : b \in C \/ b \in X => b \in C \cup Y  BY <1>3
<1> QED  BY <1>8, <1>9, <1>10

\* Credited bytes are kept by a step that credits none and gives every other
\* byte to an id.
LEMMA KeepBooked ==
    ASSUME TypeOK', Booked, Working, lost => lost', completed' = completed,
           ~lost => \A b \in sent' : (b \in sent => \E i \in Ids : DueTo(i, b)) =>
                                        \E i \in Ids : DueTo(i, b)'
    PROVE  Booked'
<1>1. SUFFICES ASSUME ~lost'
               PROVE  \E C \in SUBSET Bytes :
                         /\ Cardinality(C) <= completed'
                         /\ \A b \in sent' \ C : \E i \in Ids : DueTo(i, b)'
  BY DEF Booked
<1>2. ~lost  BY <1>1
<1>3. PICK C \in SUBSET Bytes : /\ Cardinality(C) <= completed
                                /\ \A b \in sent \ C : \E i \in Ids : DueTo(i, b)
  BY <1>2 DEF Booked
<1>4. \A b \in sent' \ C : \E i \in Ids : DueTo(i, b)'  BY <1>2, <1>3
<1> QED  BY <1>3, <1>4

\* An id that a step leaves alone owes what it owed.
LEMMA SameDue ==
    ASSUME NEW j \in Ids, Same(j), NEW b, DueTo(j, b)
    PROVE  DueTo(j, b)'
<1>1. From(j, b)'  BY SameFacts DEF DueTo, From, Same
<1>2. Before(j, b) => Before(j, b)'  BY SameFacts DEF Before
<1>3. Closing(j, b) => Closing(j, b)'  BY SameFacts DEF Closing, Same
<1> QED  BY <1>1, <1>2, <1>3 DEF DueTo

\* An id that owes something will be heard of again, and is in use.
LEMMA DueExpected ==
    ASSUME IInv, NEW i \in Ids, NEW b, DueTo(i, b)
    PROVE  Expected(i)
<1>1. EndReported(i) <=> \E m \in Mail(i) : m.t \in Ends  BY MailTypes DEF MailOK, IInv
<1>2. Before(i, b) => Expected(i)  BY <1>1 DEF Before, Rest, Expected, Reporting, Ends
<1>3. Closing(i, b) => Expected(i)  BY <1>1 DEF Closing, Expected, Reporting, Ends
<1> QED  BY <1>2, <1>3 DEF DueTo

\* A worker that goes on owes what it owed and what it received.
LEMMA TellsDue ==
    ASSUME IInv, IInv', NEW i \in Ids, NEW m \in MsgType, Tells(i, m), Consistent(i), NEW b \in Nat,
           DueTo(i, b) \/ b \in chunk[i].off .. chunk'[i].off - 1
    PROVE  DueTo(i, b)'
<1>1. /\ Live(i) /\ Live(i)' /\ chunk'[i].start = chunk[i].start /\ chunk'[i].end = chunk[i].end
      /\ chunk[i].off <= chunk'[i].off /\ UNCHANGED monVars /\ m.id = i /\ m.t = "progress"
      /\ reliable' = reliable \/ reliable' = Append(reliable, m)
      /\ info' = info \/ info' = Append(info, m)
  BY DEF Tells
<1>2. st' = st  BY <1>1 DEF monVars, ledgerVars
<1>3. /\ \A s, e : Rest(i, s, e) <=> s = chunk[i].off /\ e = chunk[i].end
      /\ \A n \in Mail(i) : n.t \notin Ends
  BY <1>1, LiveRest DEF Consistent
<1>4. Reports(i) \subseteq Reports(i)'
  BY <1>1, AppendMail, AppendNews DEF IInv, Reports
<1>5. /\ chunk[i].start \in Nat /\ chunk[i].off \in Nat /\ chunk[i].start <= chunk[i].off
      /\ chunk'[i].off \in Nat /\ chunk'[i].end \in Nat
  <2>1. chunk[i].start \in Nat /\ chunk[i].off \in Nat  BY ChunkFacts DEF IInv
  <2>2. chunk' \in [Ids -> ChunkType]  BY DEF IInv, TypeOK
  <2>3. chunk'[i].off \in Nat /\ chunk'[i].end \in Nat  BY <2>2 DEF ChunkType
  <2> QED  BY <1>1, <2>1, <2>3 DEF IInv, Safe, RangesOK
<1>6. ~Closing(i, b)  BY <1>3 DEF Closing, Ends
<1>7. b < chunk'[i].off
  <2>1. DueTo(i, b) => b < chunk[i].off  BY <1>3, <1>6 DEF DueTo, Before
  <2> QED  BY <1>1, <1>5, <2>1
<1>8. From(i, b)'
  <2>1. From(i, b) => From(i, b)'  BY <1>1, <1>2, <1>4 DEF From
  <2>2. b \in chunk[i].off .. chunk'[i].off - 1 => chunk'[i].start <= b  BY <1>1, <1>5
  <2> QED  BY <1>1, <2>1, <2>2 DEF DueTo, From
<1>9. PICK s \in Nat, e \in Nat : s = chunk'[i].off /\ e = chunk'[i].end  BY <1>5
<1>10. Rest(i, s, e)'  BY <1>1, <1>9 DEF Rest
<1>11. Before(i, b)'  BY <1>7, <1>9, <1>10 DEF Before
<1> QED  BY <1>8, <1>11 DEF DueTo

\* The last event of a worker takes along what it owes.
LEMMA LeaveDue ==
    ASSUME IInv, IInv', NEW i \in Ids, NEW m \in MsgType, Leaves(i, m), Consistent(i),
           Ordered(i), ~lost, NEW b \in Nat, DueTo(i, b)
    PROVE  DueTo(i, b)'
<1>1. /\ Live(i) /\ m.id = i
      /\ \/ m.t = "failed" /\ chunk[i].pc = "failing"
         \/ m.t = "complete" /\ chunk[i].pc = "completing"
  BY DEF Leaves
<1>2. /\ m.t = "failed" => \A s, e : Rest(i, s, e) => Rest(i, s, e)'
      /\ Reports(i)' = Reports(i) /\ Mail(i)' = Mail(i) \cup {m} /\ News(i)' = News(i)
      /\ \A n \in Mail(i) : n.t \notin Ends
      /\ \A s, e : Rest(i, s, e) <=> s = chunk[i].off /\ e = chunk[i].end
      /\ st' = st
  BY LeaveFacts
<1>3. /\ chunk[i].start \in Nat /\ chunk[i].off \in Nat /\ chunk[i].end \in Nat
  BY ChunkFacts DEF IInv
<1>4. ~Closing(i, b)  BY <1>2 DEF Closing, Ends
<1>5. b < chunk[i].off  BY <1>2, <1>4 DEF DueTo, Before
<1>6. chunk[i].start <= b => st[i].on \/ Reports(i) # {}
  <2>1. SUFFICES ASSUME chunk[i].start <= b  PROVE st[i].on \/ Reports(i) # {}  OBVIOUS
  <2>2. CASE chunk[i].pc = "failing"
    <3>1. chunk[i].off > chunk[i].start  BY <1>3, <1>5, <2>1
    <3> QED  BY <1>1, <2>2, <3>1 DEF Consistent, Told
  <2>3. CASE chunk[i].pc = "completing"
    <3>1. Finishing(i)  BY <2>3 DEF Finishing
    <3>2. st[i].on \/ \E k \in Pos : ProgressAt(k, i)  BY <3>1 DEF Ordered, FinalKept
    <3>3. (\E k \in Pos : ProgressAt(k, i)) => Reports(i) # {}
      BY DEF Pos, ProgressAt, Reports, Mail, Queued
    <3> QED  BY <3>2, <3>3
  <2> QED  BY <1>1, <2>2, <2>3
<1>7. From(i, b)'
  <2>1. CASE Live(i) /\ chunk[i].start <= b
    <3>1. st[i].on \/ Reports(i) # {}  BY <1>6, <2>1
    <3>2. CASE st[i].on
      <4>1. st[i].start <= chunk[i].start  BY <1>1, <3>2 DEF Consistent, SameStart
      <4>2. st[i].start \in Nat  BY Numbers DEF NumbersOK, IInv
      <4>3. st[i].start <= b  BY <1>3, <2>1, <4>1, <4>2
      <4> QED  BY <1>2, <3>2, <4>3 DEF From
    <3>3. CASE Reports(i) # {}
      <4>1. PICK n \in Reports(i) : n.start = chunk[i].start
        BY <1>1, <3>3 DEF Consistent, SameStart
      <4> QED  BY <1>2, <2>1, <4>1 DEF From
    <3> QED  BY <3>1, <3>2, <3>3
  <2>2. CASE ~(Live(i) /\ chunk[i].start <= b)  BY <1>2, <2>2 DEF DueTo, From
  <2> QED  BY <2>1, <2>2
<1>8. CASE m.t = "failed"
  <2>1. Before(i, b)'  BY <1>2, <1>4, <1>8 DEF DueTo, Before
  <2> QED  BY <1>7, <2>1 DEF DueTo
<1>9. CASE m.t = "complete"
  <2>1. chunk[i].pc = "completing" /\ chunk[i].off > chunk[i].end /\ chunk[i].off <= chunk[i].end + 1
    BY <1>1, <1>9 DEF IInv, Safe, RangesOK
  <2>2. b <= chunk[i].end  BY <1>3, <1>5, <2>1
  <2>3. Rest(i, chunk[i].off, chunk[i].end)  BY <1>2
  <2>4. \A y \in Nat : Limit(i, y) => chunk[i].end < y
    BY <1>3, <2>3 DEF Consistent, InBounds
  <2>5. ASSUME NEW n \in Reports(i)  PROVE b <= n.end
    <3>1. n.end \in Nat /\ n.end + 1 \in Nat  BY Numbers DEF NumbersOK, IInv
    <3>2. Limit(i, n.end + 1)  BY DEF Limit
    <3>3. chunk[i].end < n.end + 1  BY <2>4, <3>1, <3>2
    <3> QED  BY <1>3, <2>2, <3>1, <3>3
  <2>6. st[i].on => b <= st[i].end
    <3>1. st[i].end \in Nat /\ st[i].end + 1 \in Nat  BY Numbers DEF NumbersOK, IInv
    <3>2. st[i].on => Limit(i, st[i].end + 1)  BY DEF Limit
    <3>3. st[i].on => chunk[i].end < st[i].end + 1  BY <2>4, <3>1, <3>2
    <3> QED  BY <1>3, <2>2, <3>1, <3>3
  <2>7. st[i].on \/ \E n \in Mail(i) : n.t = "progress"
    <3>1. Finishing(i)  BY <2>1 DEF Finishing
    <3>2. st[i].on \/ \E k \in Pos : ProgressAt(k, i)  BY <3>1 DEF Ordered, FinalKept
    <3>3. (\E k \in Pos : ProgressAt(k, i)) => \E n \in Mail(i) : n.t = "progress"
      BY DEF Pos, ProgressAt, Mail, Queued
    <3> QED  BY <3>2, <3>3
  <2>8. Closing(i, b)'  BY <1>2, <1>9, <2>5, <2>6, <2>7 DEF Closing
  <2> QED  BY <1>7, <2>8 DEF DueTo
<1> QED  BY <1>1, <1>8, <1>9

\* A worker's step keeps the books.
LEMMA WorkerBooked ==
    ASSUME IInv, IInv', NEW i \in Ids, WorkerStep(i), Working, Booked,
           \A j \in Ids : Consistent(j) /\ Ordered(j)
    PROVE  Booked'
<1>1. \A b \in sent' : b \in Nat
  <2>1. \A b \in Bytes : b \in Nat  BY ConstantTypes DEF Bytes
  <2> QED  BY <2>1 DEF IInv, TypeOK
<1>2. ASSUME NEW m \in MsgType, Tells(i, m),
             sent' \subseteq sent \cup (chunk[i].off .. chunk'[i].off - 1)
      PROVE  Booked'
  <2>1. /\ reliable' = reliable \/ reliable' = Append(reliable, m)
        /\ info' = info \/ info' = Append(info, m)
        /\ \A j \in Ids \ {i} : chunk'[j] = chunk[j]
        /\ UNCHANGED monVars /\ m.id = i /\ (lost => lost')
    BY <1>2 DEF Tells
  <2>2. (\A j \in Ids \ {i} : Same(j)) /\ completed' = completed
    BY <2>1, WorkerOthers DEF IInv
  <2>3. ASSUME NEW b \in sent', b \in sent => \E j \in Ids : DueTo(j, b)
        PROVE  \E j \in Ids : DueTo(j, b)'
    <3>1. b \in Nat  BY <1>1
    <3>2. CASE b \in chunk[i].off .. chunk'[i].off - 1  BY <1>2, <3>1, <3>2, TellsDue
    <3>3. CASE b \in sent
      <4>1. PICK j \in Ids : DueTo(j, b)  BY <2>3, <3>3
      <4>2. CASE j = i  BY <1>2, <3>1, <4>1, <4>2, TellsDue
      <4>3. CASE j # i  BY <2>2, <4>1, <4>3, SameDue
      <4> QED  BY <4>2, <4>3
    <3> QED  BY <1>2, <3>2, <3>3
  <2> QED  BY <2>1, <2>2, <2>3, KeepBooked DEF IInv
<1>3. CASE \E n \in Pieces : Data(i, n)
  <2>1. /\ \E m \in MsgType : Tells(i, m)
        /\ sent' = sent \cup (chunk[i].off .. chunk'[i].off - 1)
    BY <1>3, DataTells
  <2> QED  BY <1>2, <2>1
<1>4. CASE Bisect(i) /\ ~Splittable(chunk[i].off, chunk[i].end)
  <2>1. sent' = sent  BY <1>4 DEF Bisect
  <2> QED  BY <1>2, <1>4, <2>1, UnsplitTells
<1>5. CASE Bisect(i) /\ Splittable(chunk[i].off, chunk[i].end)
  <2>1. /\ \A s, e : Rest(i, s, e) => \E z \in Nat : Rest(i, s, z)'
        /\ Reports(i)' = Reports(i)
        /\ chunk'[i].start = chunk[i].start /\ Live(i) /\ Live(i)'
        /\ \A j \in Ids \ {i} : Same(j)
        /\ UNCHANGED <<st, completed, lost, sent>>
    BY <1>5, SplitConsistent
  <2>2. \A m \in Mail(i) : m.t \notin Ends  BY <2>1, LiveRest DEF Consistent
  <2>3. ASSUME NEW b, DueTo(i, b)  PROVE DueTo(i, b)'
    <3>1. From(i, b)'  BY <2>1, <2>3 DEF DueTo, From
    <3>2. ~Closing(i, b)  BY <2>2 DEF Closing, Ends
    <3>3. Before(i, b)'  BY <2>1, <2>3, <3>2 DEF DueTo, Before
    <3> QED  BY <3>1, <3>3 DEF DueTo
  <2>4. \A b : \A j \in Ids : DueTo(j, b) => DueTo(j, b)'  BY <2>1, <2>3, SameDue
  <2>5. lost => lost'  BY <2>1
  <2> QED  BY <2>1, <2>4, <2>5, KeepBooked DEF IInv
<1>6. CASE FailSend(i) \/ SendComplete(i)
  <2>1. PICK m \in MsgType : Leaves(i, m)  BY <1>6, SendsLeave
  <2>2. (\A j \in Ids \ {i} : Same(j)) /\ completed' = completed
    BY <2>1, LeaveFacts
  <2>3. UNCHANGED <<lost, sent>>  BY <2>1 DEF Leaves
  <2>4. ASSUME ~lost, NEW b \in sent', NEW j \in Ids, DueTo(j, b)  PROVE DueTo(j, b)'
    <3>1. CASE j = i  BY <1>1, <2>1, <2>4, <3>1, LeaveDue
    <3>2. CASE j # i  BY <2>2, <2>4, <3>2, SameDue
    <3> QED  BY <3>1, <3>2
  <2>5. lost => lost'  BY <2>3
  <2> QED  BY <2>2, <2>3, <2>4, <2>5, KeepBooked DEF IInv
<1>7. CASE \/ Respond(i) \/ RequestFailed(i) \/ Overrun(i) \/ WriterClosed(i)
           \/ Eof(i) \/ StreamError(i) \/ IdleTimeout(i) \/ Kill(i) \/ FinalProgress(i)
  <2>1. sent' = sent
    BY <1>7 DEF Respond, RequestFailed, Overrun, WriterClosed, Eof, StreamError, IdleTimeout,
       Kill, FinalProgress
  <2>2. Standing(i)  BY DEF Consistent
  <2> QED  BY <1>2, <1>7, <2>1, <2>2, QuietTells
<1>8. ~Terminate(i)  BY DEF Terminate
<1> QED  BY <1>3, <1>4, <1>5, <1>6, <1>7, <1>8 DEF WorkerStep

\* A report that is read leaves its id owing what it owed: the entry starts no
\* later and ends no earlier.
LEMMA ReadDue ==
    ASSUME IInv, IInv', NEW i \in Ids, NEW h \in MsgType, Reads(i, h), Consistent(i),
           NEW b \in Nat, DueTo(i, b)
    PROVE  DueTo(i, b)'
<1>1. /\ h.id = i /\ h \in Reports(i) /\ OnProgress(h)
      /\ h.t = "progress" \/ Mail(i)' = Mail(i)
      /\ Mail(i)' \subseteq Mail(i) /\ Mail(i) \subseteq Mail(i)' \cup {h}
      /\ News(i)' \subseteq News(i) /\ News(i) \subseteq News(i)' \cup {h}
  BY DEF Reads
<1>2. /\ i \notin retired =>
            /\ st'[i].on /\ st'[i].end = h.end
            /\ st'[i].start = IF st[i].on THEN st[i].start ELSE h.start
      /\ UNCHANGED <<chunk, Retries>>
  BY <1>1, EntryAfter DEF IInv
<1>3. i \notin retired  BY DueExpected DEF Consistent, Standing
<1>4. Live(i)' <=> Live(i)  BY <1>2 DEF Live
<1>5. \A m \in Mail(i) : m.t # "progress" => m \in Mail(i)'  BY <1>1
<1>6. \A m \in Reports(i) : m = h \/ m \in Reports(i)'  BY <1>1 DEF Reports
<1>7. st[i].on => st[i].start <= h.start  BY <1>1 DEF Consistent, SameStart
<1>8. h.start \in Nat /\ st[i].start \in Nat  BY <1>1, Numbers DEF NumbersOK, IInv
<1>9. From(i, b)'
  <2>1. h.start <= b => st'[i].start <= b  BY <1>2, <1>3, <1>7, <1>8
  <2> QED  BY <1>2, <1>3, <1>4, <1>6, <2>1 DEF DueTo, From
<1>10. \A s, e : Rest(i, s, e) => Rest(i, s, e)'  BY <1>2, <1>4, <1>5 DEF Rest
<1>11. Before(i, b) => Before(i, b)'  BY <1>10 DEF Before
<1>12. Closing(i, b) => Closing(i, b)'
  <2>1. Reports(i)' \subseteq Reports(i)  BY <1>1 DEF Reports
  <2> QED  BY <1>1, <1>2, <1>3, <1>5, <2>1 DEF Closing
<1> QED  BY <1>9, <1>11, <1>12 DEF DueTo

\* Reading a report keeps the books.
LEMMA ReadBooked ==
    ASSUME IInv, IInv', NEW i \in Ids, NEW h \in MsgType, Reads(i, h), sent' = sent,
           Working, Booked, \A j \in Ids : Consistent(j)
    PROVE  Booked'
<1>1. \A j \in Ids \ {i} : Same(j)  BY ReadConsistent
<1>2. completed' = completed /\ lost' = lost  BY EntryAfter DEF Reads, IInv
<1>3. \A b \in sent : b \in Nat
  <2>1. \A b \in Bytes : b \in Nat  BY ConstantTypes DEF Bytes
  <2> QED  BY <2>1 DEF IInv, TypeOK
<1>4. \A b \in sent : \A j \in Ids : DueTo(j, b) => DueTo(j, b)'
  BY <1>1, <1>3, ReadDue, SameDue
<1>5. lost => lost'  BY <1>2
<1> QED  BY <1>2, <1>4, <1>5, KeepBooked DEF IInv

\* Reading a split keeps the books: a worker that completed has its final
\* progress behind the split.
LEMMA ShrinkBooked ==
    ASSUME IInv, IInv', NEW i \in Ids, NEW h \in MsgType, Shrinks(i, h),
           Working, Booked, \A j \in Ids : Consistent(j) /\ Ordered(j)
    PROVE  Booked'
<1>1. /\ h = reliable[1] /\ h.id = i /\ h.t = "bisected"
      /\ Mail(i) \subseteq Mail(i)' \cup {h} /\ chunk'[i] = chunk[i]
      /\ st[i].on => st'[i].on /\ st'[i].start = st[i].start
      /\ \A j \in Ids \ {i} : Same(j) \/ Starts(j)
      /\ UNCHANGED <<completed, sent, lost>> /\ reliable # <<>>
  BY DEF Shrinks
<1>2. /\ Reports(i)' = Reports(i) /\ (Live(i)' <=> Live(i))
      /\ \A s, e : Rest(i, s, e)' <=> Rest(i, s, e)
      /\ \A m \in Mail(i) : m.t = "complete" => m \in Mail(i)'
  BY ShrinkConsistent
<1>3. ASSUME NEW b, DueTo(i, b)  PROVE DueTo(i, b)'
  <2>1. From(i, b)'  BY <1>1, <1>2, <1>3 DEF DueTo, From
  <2>2. Before(i, b) => Before(i, b)'  BY <1>2 DEF Before
  <2>3. ASSUME Closing(i, b)  PROVE Closing(i, b)'
    <3>1. PICK m \in Mail(i) : m.t = "complete"  BY <2>3 DEF Closing
    <3>2. Finishing(i)  BY <3>1 DEF Finishing
    <3>3. 1 \in Pos
      <4>1. reliable \in Seq(MsgType)  BY DEF IInv, TypeOK
      <4> QED  BY <1>1, <4>1 DEF Pos
    <3>4. PICK k \in Pos : ProgressAt(k, i)
      BY <1>1, <3>2, <3>3 DEF Ordered, FinalKept
    <3>5. reliable[k] \in Mail(i) /\ reliable[k].t = "progress"
      BY <3>4 DEF Pos, ProgressAt, Mail, Queued
    <3>6. reliable[k] \in Mail(i)'  BY <1>1, <3>5
    <3> QED  BY <1>2, <2>3, <3>1, <3>5, <3>6 DEF Closing
  <2> QED  BY <1>3, <2>1, <2>2, <2>3 DEF DueTo
<1>4. ASSUME NEW j \in Ids, Starts(j), NEW b  PROVE ~DueTo(j, b)
  <2>1. /\ ~st[j].on /\ Mail(j) = {} /\ News(j) = {}
    BY <1>4 DEF Starts, Consistent, Standing
  <2>2. ~Live(j)  BY <1>4 DEF Starts, IInv, Safe, FreshIds, Live
  <2> QED  BY <2>1, <2>2 DEF DueTo, From, Reports
<1>5. \A b : \A j \in Ids : DueTo(j, b) => DueTo(j, b)'  BY <1>1, <1>3, <1>4, SameDue
<1>6. lost => lost'  BY <1>1
<1> QED  BY <1>1, <1>5, <1>6, KeepBooked DEF IInv

\* The interval a .. z has at most Size(a, z) members, and none past z.
LEMMA IntervalCredit ==
    ASSUME NEW a \in Nat, NEW z \in Int
    PROVE  /\ IsFiniteSet(a .. z) /\ Cardinality(a .. z) = IF a > z THEN 0 ELSE z - a + 1
           /\ z \in Nat => Size(a, z) \in Nat /\ Cardinality(a .. z) <= Size(a, z)
<1>1. IsFiniteSet(a .. z) /\ Cardinality(a .. z) = IF a > z THEN 0 ELSE z - a + 1
  BY FS_Interval
<1>2. z \in Nat => Size(a, z) \in Nat /\ Cardinality(a .. z) <= Size(a, z)
  BY <1>1 DEF Size, Minus
<1> QED  BY <1>1, <1>2

\* What id i owed is inside the range its entry had when the completion is read.
LEMMA CompleteDue ==
    ASSUME IInv, NEW i \in Ids, NEW h, Ended(i, h), h.t = "complete", Mail(i) \subseteq {h},
           Consistent(i), NEW b \in Nat, DueTo(i, b)
    PROVE  st[i].on /\ st[i].start <= b /\ b <= st[i].end
<1>1. ~Live(i) /\ \A r \in Retries : r.id # i  BY DEF Ended
<1>2. \A s, e : ~Rest(i, s, e)  BY <1>1 DEF Rest
<1>3. Closing(i, b)  BY <1>2 DEF DueTo, Before
<1>4. st[i].on /\ b <= st[i].end  BY <1>3 DEF Closing
<1>5. st[i].start <= b
  <2>1. CASE \E m \in Reports(i) : m.start <= b
    <3>1. PICK m \in Reports(i) : m.start <= b  BY <2>1
    <3>2. st[i].start <= m.start  BY <1>4 DEF Consistent, SameStart
    <3>3. m.start \in Nat /\ st[i].start \in Nat  BY Numbers DEF NumbersOK, IInv
    <3> QED  BY <3>1, <3>2, <3>3
  <2> QED  BY <1>1, <2>1 DEF DueTo, From
<1> QED  BY <1>4, <1>5

\* What id i owed lies between the start of its entry and that of the retry.
LEMMA FailedDue ==
    ASSUME IInv, NEW i \in Ids, NEW h, Ended(i, h), h.t = "failed", Mail(i) \subseteq {h},
           Consistent(i), NEW b \in Nat, DueTo(i, b)
    PROVE  b < h.start /\ (st[i].on => st[i].start <= b)
<1>1. ~Live(i) /\ \A r \in Retries : r.id # i  BY DEF Ended
<1>2. \A s, e : Rest(i, s, e) => s = h.start  BY <1>1 DEF Rest
<1>3. ~Closing(i, b)  BY DEF Closing
<1>4. b < h.start  BY <1>2, <1>3 DEF DueTo, Before
<1>5. st[i].on => st[i].start <= b
  <2>1. SUFFICES ASSUME st[i].on  PROVE st[i].start <= b  OBVIOUS
  <2>2. CASE \E m \in Reports(i) : m.start <= b
    <3>1. PICK m \in Reports(i) : m.start <= b  BY <2>2
    <3>2. st[i].start <= m.start  BY <2>1 DEF Consistent, SameStart
    <3>3. m.start \in Nat /\ st[i].start \in Nat  BY Numbers DEF NumbersOK, IInv
    <3> QED  BY <3>1, <3>2, <3>3
  <2> QED  BY <1>1, <2>2 DEF DueTo, From
<1> QED  BY <1>4, <1>5

\* The end of an id credits what it owed, or leaves it to its reports and retry.
LEMMA EndedBooked ==
    ASSUME IInv, IInv', NEW i \in Ids, NEW h \in MsgType, Ended(i, h),
           Working, Booked, \A j \in Ids : Consistent(j) /\ Ordered(j)
    PROVE  Booked'
<1>1. /\ h = reliable[1] /\ h.id = i /\ h \in Mail(i) /\ Mail(i)' = {} /\ News(i)' = News(i)
      /\ ~Live(i) /\ \A r \in Retries : r.id # i
      /\ \A j \in Ids \ {i} : Same(j)
      /\ reliable # <<>> /\ reliable' = Tail(reliable) /\ UNCHANGED <<sent, lost>>
      /\ h.t \in Ends
  BY DEF Ended, Ends
<1>2. Mail(i) \subseteq {h}
  <2>1. PICK x \in MsgType : x = reliable[1] /\ \A j : Mail(j) \subseteq Mail(j)' \cup {x}
    BY <1>1, TakeMail DEF IInv
  <2> QED  BY <1>1, <2>1
<1>3. \A b \in sent : b \in Nat /\ b \in Bytes
  <2>1. \A b \in Bytes : b \in Nat  BY ConstantTypes DEF Bytes
  <2> QED  BY <2>1 DEF IInv, TypeOK
<1>4. /\ st[i].start \in Nat /\ st[i].end \in Nat /\ st[i].dl \in Nat /\ completed \in Nat
      /\ h.start \in Nat /\ h.end \in Nat
  <2>1. completed \in Nat  BY DEF IInv, TypeOK
  <2> QED  BY <2>1, Numbers DEF NumbersOK, IInv, MsgType
<1>5. \A b : \A j \in Ids \ {i} : DueTo(j, b) => DueTo(j, b)'  BY <1>1, SameDue
<1>6. lost => lost'  BY <1>1
\* The entry of i pays for the bytes of X.
<1>7. ASSUME NEW X, NEW n \in Nat, IsFiniteSet(X), Cardinality(X) <= n,
             completed' = completed + n, \A b \in Nat : DueTo(i, b) => b \in X
      PROVE  Booked'
  <2>1. SUFFICES ASSUME ~lost
                 PROVE  \E D \in SUBSET Bytes : /\ Cardinality(D) <= completed'
                                                /\ \A b \in sent' \ D : \E j \in Ids : DueTo(j, b)'
    BY <1>6 DEF Booked
  <2>2. PICK C \in SUBSET Bytes : /\ Cardinality(C) <= completed
                                  /\ \A b \in sent \ C : \E j \in Ids : DueTo(j, b)
    BY <2>1 DEF Booked
  <2>3. PICK c \in Nat : c = completed  BY <1>4
  <2>4. PICK D \in SUBSET Bytes : /\ Cardinality(D) <= c + n
                                  /\ \A b \in Bytes : b \in C \/ b \in X => b \in D
    BY <1>7, <2>2, <2>3, Credit
  <2>5. ASSUME NEW b \in sent \ D  PROVE \E j \in Ids : DueTo(j, b)'
    <3>1. b \in Nat /\ b \in sent /\ b \notin C /\ b \notin X  BY <1>3, <2>4
    <3>2. PICK j \in Ids : DueTo(j, b)  BY <2>2, <3>1
    <3>3. j # i  BY <1>7, <3>1, <3>2
    <3> QED  BY <1>5, <3>2, <3>3
  <2> QED  BY <1>1, <1>7, <2>3, <2>4, <2>5
\* The end of i credits nothing, and i goes on owing what it owed.
<1>8. ASSUME completed' = completed, \A b \in Nat : DueTo(i, b) => DueTo(i, b)'
      PROVE  Booked'
  <2>1. \A b \in sent : \A j \in Ids : DueTo(j, b) => DueTo(j, b)'  BY <1>3, <1>5, <1>8
  <2> QED  BY <1>1, <1>6, <1>8, <2>1, KeepBooked DEF IInv
<1>9. CASE h.t = "complete"
  <2>1. completed' = IF st[i].on THEN completed + Size(st[i].start, st[i].end) ELSE completed
    BY <1>9 DEF Ended
  <2>2. \A b \in Nat : DueTo(i, b) => st[i].on /\ st[i].start <= b /\ b <= st[i].end
    BY <1>2, <1>9, CompleteDue
  <2>3. CASE st[i].on
    <3>1. PICK s \in Nat : s = st[i].start  BY <1>4
    <3>2. PICK e \in Nat : e = st[i].end  BY <1>4
    <3>3. e \in Int  OBVIOUS
    <3>4. IsFiniteSet(s .. e) /\ Size(s, e) \in Nat /\ Cardinality(s .. e) <= Size(s, e)
      BY <3>3, IntervalCredit
    <3>5. \A b \in Nat : DueTo(i, b) => b \in s .. e  BY <2>2, <3>1, <3>2
    <3>6. PICK X : X = s .. e  OBVIOUS
    <3>7. PICK n \in Nat : n = Size(s, e)  BY <3>4
    <3>8. completed' = completed + n  BY <2>1, <2>3, <3>1, <3>2, <3>7
    <3> QED  BY <1>7, <3>4, <3>5, <3>6, <3>7, <3>8
  <2>4. CASE ~st[i].on  BY <1>8, <2>1, <2>2, <2>4
  <2> QED  BY <2>3, <2>4
<1>10. CASE h.t = "failed"
  <2>1. completed' = completed + Preserved(st[i], h.start)  BY <1>10 DEF Ended
  <2>2. \A b \in Nat : DueTo(i, b) => b < h.start /\ (st[i].on => st[i].start <= b)
    BY <1>2, <1>10, FailedDue
  <2>3. CASE st[i].on
    <3>1. h.start <= st[i].end + 1
      <4>1. Rest(i, h.start, h.end)  BY <1>1, <1>10 DEF Rest
      <4>2. st[i].end + 1 \in Nat  BY <1>4
      <4>3. Limit(i, st[i].end + 1)  BY <2>3 DEF Limit
      <4>4. h.end < st[i].end + 1  BY <1>4, <4>1, <4>2, <4>3 DEF Consistent, InBounds
      <4>5. h.start <= h.end + 1
        <5>1. 1 \in 1 .. Len(reliable)  BY <1>1, TailFacts DEF IInv
        <5> QED  BY <1>1, <1>10, <5>1 DEF IInv, Safe, RangesOK, Hands
      <4> QED  BY <1>4, <4>4, <4>5
    <3>2. PICK s \in Nat : s = st[i].start  BY <1>4
    <3>3. PICK z \in Int : z = h.start - 1  BY <1>4
    <3>4. IsFiniteSet(s .. z) /\ Cardinality(s .. z) = IF s > z THEN 0 ELSE z - s + 1
      BY IntervalCredit
    <3>5. /\ Preserved(st[i], h.start) \in Nat
          /\ (IF s > z THEN 0 ELSE z - s + 1) <= Preserved(st[i], h.start)
      BY <1>4, <2>3, <3>1, <3>2, <3>3 DEF Preserved, Larger, Smaller, Minus, Size
    <3>6. PICK n \in Nat : n = Preserved(st[i], h.start)  BY <3>5
    <3>7. \A b \in Nat : DueTo(i, b) => b \in s .. z  BY <1>4, <2>2, <2>3, <3>2, <3>3
    <3>8. PICK X : X = s .. z  OBVIOUS
    <3> QED  BY <1>7, <2>1, <3>4, <3>5, <3>6, <3>7, <3>8
  <2>4. CASE ~st[i].on
    <3>1. completed' = completed  BY <1>4, <2>1, <2>4 DEF Preserved
    <3>2. Reports(i)' = Reports(i)
      <4>1. \A m \in Mail(i) : m.t # "progress"  BY <1>2, <1>10
      <4> QED  BY <1>1, <4>1 DEF Reports
    <3>3. Rest(i, h.start, h.end)'  BY <1>10, EndedConsistent
    <3>4. ASSUME NEW b \in Nat, DueTo(i, b)  PROVE DueTo(i, b)'
      <4>1. From(i, b)'  BY <1>1, <2>4, <3>2, <3>4 DEF DueTo, From
      <4>2. Before(i, b)'  BY <1>4, <2>2, <3>3, <3>4 DEF Before
      <4> QED  BY <4>1, <4>2 DEF DueTo
    <3> QED  BY <1>8, <3>1, <3>4
  <2> QED  BY <2>3, <2>4
<1> QED  BY <1>1, <1>9, <1>10 DEF Ends

\* A step that leaves the channels and the ledger alone keeps the books: a worker
\* that resumes a range owes what its retry owed.
LEMMA CalmBooked ==
    ASSUME IInv, IInv', UNCHANGED <<completed, sent, lost>>, Working, Booked,
           \A j \in Ids : Same(j) \/ Starts(j) \/ \E r : Resumes(j, r),
           \A j \in Ids : Consistent(j)
    PROVE  Booked'
<1>1. ASSUME NEW j \in Ids, NEW b, DueTo(j, b), Starts(j)  PROVE FALSE
  <2>1. ~st[j].on /\ Mail(j) = {} /\ News(j) = {}
    BY <1>1 DEF Starts, Consistent, Standing
  <2>2. ~Live(j)  BY <1>1 DEF Starts, IInv, Safe, FreshIds, Live
  <2> QED  BY <1>1, <2>1, <2>2 DEF DueTo, From, Reports
<1>2. ASSUME NEW j \in Ids, NEW b, DueTo(j, b), NEW r, Resumes(j, r)  PROVE DueTo(j, b)'
  <2>1. /\ Mail(j)' = Mail(j) /\ News(j)' = News(j) /\ st'[j] = st[j]
        /\ Mail(j) = {} /\ News(j) = {} /\ Rest(j, r.start, r.end)'
        /\ \A s, e : Rest(j, s, e) => s = r.start /\ e = r.end
    BY <1>2, ResumeConsistent
  <2>2. r.start \in Nat /\ r.end \in Nat /\ ~Live(j)
    BY <1>2, Numbers DEF Resumes, NumbersOK, IInv, Safe, OnePlace
  <2>3. Reports(j) = {} /\ ~Closing(j, b)  BY <2>1 DEF Reports, Closing
  <2>4. From(j, b)'  BY <1>2, <2>1, <2>2, <2>3 DEF DueTo, From
  <2>5. b < r.start  BY <1>2, <2>1, <2>3 DEF DueTo, Before
  <2>6. Before(j, b)'  BY <2>1, <2>2, <2>5 DEF Before
  <2> QED  BY <2>4, <2>6 DEF DueTo
<1>3. \A b : \A j \in Ids : DueTo(j, b) => DueTo(j, b)'  BY <1>1, <1>2, SameDue
<1>4. lost => lost'  OBVIOUS
<1> QED  BY <1>3, <1>4, KeepBooked DEF IInv

\* Every step keeps the books.
LEMMA BookedStep ==
    ASSUME IInv, IInv', LedgerInv, Booked, [Next]_vars  PROVE Booked'
<1>1. SUFFICES ASSUME Working'  PROVE Booked'  BY DEF Booked
<1>2. ASSUME Working  PROVE \A j \in Ids : Consistent(j) /\ Ordered(j)
  BY <1>2 DEF LedgerInv
<1>3. CASE \E i \in Ids : WorkerStep(i)
  <2>1. PICK i \in Ids : WorkerStep(i)  BY <1>3
  <2>2. Working
    <3>1. result' = result
      BY <2>1 DEF WorkerStep, Respond, RequestFailed, Data, Overrun, WriterClosed, Eof,
         StreamError, IdleTimeout, Kill, Bisect, FailSend, FinalProgress, SendComplete,
         Terminate, monVars
    <3> QED  BY <1>1, <3>1 DEF Working
  <2> QED  BY <1>2, <2>1, <2>2, WorkerBooked
<1>4. CASE (\E i \in Ids : MonJoin(i)) \/ WriterDies \/ Subscribe \/ UNCHANGED vars
  <2>1. Working  BY <1>1, <1>4 DEF MonJoin, WriterDies, Subscribe, vars, monVars, Working
  <2>2. (\A j \in Ids : Same(j)) /\ UNCHANGED <<completed, sent, lost>>
    BY <1>4, CalmSteps
  <2> QED  BY <1>2, <2>1, <2>2, CalmBooked
<1>5. CASE MonInfo
  <2>1. Working /\ sent' = sent  BY <1>5 DEF MonInfo, Working
  <2> QED  BY <1>2, <1>5, <2>1, InfoReads, ReadBooked
<1>6. CASE MonReliable
  <2>1. Working /\ sent' = sent  BY <1>6 DEF MonReliable, Working
  <2>2. CASE Head(reliable).t = "progress"
    BY <1>2, <1>6, <2>1, <2>2, ReliableReads, ReadBooked
  <2>3. CASE Head(reliable).t \in Ends
    BY <1>1, <1>2, <1>6, <2>1, <2>3, EndIsRead, EndedBooked
  <2>4. CASE Head(reliable).t = "bisected"
    BY <1>2, <1>6, <2>1, <2>4, SplitIsRead, ShrinkBooked
  <2> QED  BY <1>6, <2>2, <2>3, <2>4 DEF MonReliable, Ends
<1>7. CASE SomeTick
  <2>1. PICK due \in SUBSET delayed :
           \E go \in SUBSET (retry \cup due) :
              \E command \in Commands \cup {NoCommand} : Tick(due, go, command)
    BY <1>7 DEF SomeTick
  <2>2. PICK go \in SUBSET (retry \cup due) :
           \E command \in Commands \cup {NoCommand} : Tick(due, go, command)
    BY <2>1
  <2>3. PICK command \in Commands \cup {NoCommand} : Tick(due, go, command)  BY <2>2
  <2>4. Working  BY <2>3 DEF Tick, Working
  <2>5. /\ \A j \in Ids : Same(j) \/ Starts(j) \/ \E r : Resumes(j, r)
        /\ UNCHANGED <<completed, sent, lost>>
    BY <2>3, TickIds
  <2> QED  BY <1>2, <2>4, <2>5, CalmBooked
<1> QED  BY <1>3, <1>4, <1>5, <1>6, <1>7 DEF Next, Finished

\* At the start the bytes verified by resume are the completed ones.
LEMMA InitBooked ==
    ASSUME Init  PROVE Booked
<1>1. completed = InitCompleted /\ sent = Bytes \ Wanted  BY DEF Init
<1>2. InitCompleted \in Nat /\ InitCompleted = Cardinality(Bytes \ Wanted)
  BY InitCompletedAssumption
<1>3. PICK C \in SUBSET Bytes : C = Bytes \ Wanted  OBVIOUS
<1>4. Cardinality(C) <= completed  BY <1>1, <1>2, <1>3
<1>5. sent \ C = {}  BY <1>1, <1>3
<1> QED  BY <1>4, <1>5 DEF Booked
-----------------------------------------------------------------------------
(* The dead end *)

\* A tick that finds nothing left to do and no message lost finds the file
\* complete in the ledger, so it does not stall.
LEMMA TickStalls ==
    ASSUME IInv, IInv', OkInv, Booked, NEW due, NEW go, NEW command \in Commands \cup {NoCommand},
           Tick(due, go, command), result' = "stalled"
    PROVE  lost
<1>1. SUFFICES ASSUME ~lost  PROVE FALSE  OBVIOUS
<1>2. /\ pending' = SubSeq(pending, Drained + 1, Len(pending)) /\ nextId' = nextId + Drained
      /\ owed = "any" /\ sent' = sent /\ UNCHANGED <<st, reliable>>
      /\ due \subseteq delayed /\ delayed' = delayed \ due /\ retry' = (retry \cup due) \ go
      /\ DeadEnd /\ ~TripleGate /\ Working
  BY DEF Tick, chanVars, ledgerVars, Working
<1>3. tasks' = {} /\ retry' = {} /\ delayed' = {} /\ pending' = <<>> /\ \A i \in Ids : ~st[i].on
  BY <1>2 DEF DeadEnd, Quiet
<1>4. \A j \in Ids : chunk'[j].pc = "none"  BY <1>3 DEF tasks
<1>5. Drained \in Nat /\ nextId \in Nat  BY DrainedFacts, Numbers DEF NumbersOK, IInv
<1> DEFINE fresh == nextId .. nextId + Drained - 1
<1>6. /\ go \subseteq Retries
      /\ \A j \in fresh : j \in Ids /\ chunk'[j].pc = "req"
      /\ \A r \in go : r.id \in Ids /\ chunk'[r.id].pc = "req"
      /\ \A j \in Ids : j \notin fresh /\ (\A r \in go : r.id # j) => chunk'[j].pc = chunk[j].pc
  BY TickWorkers
<1>7. fresh = {} /\ go = {}  BY <1>4, <1>6
<1>8. Drained = 0
  <2>1. nextId \notin fresh  BY <1>7
  <2> QED  BY <1>5, <2>1
<1> HIDE DEF fresh
<1>9. \A j \in Ids : chunk[j].pc = "none"  BY <1>4, <1>6, <1>7
<1>10. tasks = {}  BY <1>9 DEF tasks
<1>11. reliable = <<>>  BY <1>2, <1>10 DEF OkInv, NothingMissed
<1>12. pending = <<>>  BY <1>2, <1>8, <1>10, NothingBuffered
<1>13. Retries = {}  BY <1>2, <1>3, <1>7 DEF Retries
<1>14. \A j \in Ids : ~Live(j) /\ Mail(j) = {}
  <2>1. Len(reliable) = 0  BY <1>11
  <2> QED  BY <1>9, <2>1 DEF Live, Mail, Queued
<1>15. \A b : \A j \in Ids : ~DueTo(j, b)
  BY <1>13, <1>14 DEF DueTo, Before, Rest, Closing
<1>16. Bytes \subseteq sent
  <2>1. Len(reliable) = 0 /\ Len(pending) = 0  BY <1>11, <1>12
  <2>2. \A b \in Bytes \ sent : Held(b)  BY <1>2 DEF IInv, Safe, NoByteOrphaned
  <2> QED  BY <1>13, <1>14, <2>1, <2>2 DEF Held, Retries
<1>17. PICK C \in SUBSET Bytes : /\ Cardinality(C) <= completed
                                 /\ \A b \in sent \ C : \E i \in Ids : DueTo(i, b)
  BY <1>1, <1>2 DEF Booked
<1>18. C = Bytes  BY <1>15, <1>16, <1>17
<1>19. Cardinality(Bytes) = FileSize
  <2>1. FileSize \in Nat /\ 0 \in Int /\ FileSize - 1 \in Int  BY ConstantTypes
  <2> QED  BY <2>1, FS_Interval DEF Bytes
<1>20. is_download_finished(completed)
  <2>1. completed \in Nat /\ FileSize \in Nat  BY ConstantTypes DEF IInv, TypeOK
  <2> QED  BY <1>17, <1>18, <1>19, <2>1 DEF is_download_finished
<1>21. are_all_tasks_done(st)'  BY <1>2, <1>3 DEF are_all_tasks_done
<1> QED  BY <1>2, <1>3, <1>20, <1>21 DEF TripleGate

\* No other step stalls.
LEMMA StalledStep ==
    ASSUME IInv, IInv', OkInv, Booked, StalledOnlyAfterLoss, [Next]_vars
    PROVE  StalledOnlyAfterLoss'
<1>1. lost => lost'
  <2>1. ASSUME NEW i \in Ids, WorkerStep(i)  PROVE lost => lost'
    <3>1. BestEffort(i) => (lost => lost')  BY DEF BestEffort, Broadcast, chanVars
    <3>2. CASE \E n \in Pieces : Data(i, n)
      <4>1. PICK n \in Pieces : Data(i, n)  BY <3>2
      <4>2. (\E m : Broadcast(m)) \/ lost' = lost  BY <4>1 DEF Data
      <4> QED  BY <4>2 DEF Broadcast
    <3>3. CASE WriterClosed(i) \/ Eof(i) \/ StreamError(i) \/ IdleTimeout(i) \/ Kill(i)
      BY <3>1, <3>3 DEF WriterClosed, Eof, StreamError, IdleTimeout, Kill, chanVars
    <3>4. CASE \/ Respond(i) \/ RequestFailed(i) \/ Overrun(i) \/ Bisect(i) \/ FailSend(i)
               \/ FinalProgress(i) \/ SendComplete(i) \/ Terminate(i)
      BY <3>4 DEF Respond, RequestFailed, Overrun, Bisect, FailSend, FinalProgress, SendComplete,
         Terminate, chanVars
    <3> QED  BY <2>1, <3>2, <3>3, <3>4 DEF WorkerStep
  <2>2. CASE ~\E i \in Ids : WorkerStep(i)
    BY <2>2 DEF Next, MonJoin, WriterDies, Subscribe, MonReliable, MonInfo, SomeTick, Tick,
       Finished, vars, chanVars
  <2> QED  BY <2>1, <2>2
<1>2. ASSUME result' = result  PROVE StalledOnlyAfterLoss'
  BY <1>1, <1>2 DEF StalledOnlyAfterLoss
<1>3. CASE \E i \in Ids : WorkerStep(i)
  <2>1. result' = result
    BY <1>3 DEF WorkerStep, Respond, RequestFailed, Data, Overrun, WriterClosed, Eof,
       StreamError, IdleTimeout, Kill, Bisect, FailSend, FinalProgress, SendComplete,
       Terminate, monVars
  <2> QED  BY <1>2, <2>1
<1>4. CASE WriterDies \/ MonInfo \/ Finished \/ UNCHANGED vars
  <2>1. result' = result  BY <1>4 DEF WriterDies, MonInfo, OnProgress, Finished, vars, monVars
  <2> QED  BY <1>2, <2>1
<1>5. CASE Subscribe \/ \E i \in Ids : MonJoin(i)
  BY <1>5 DEF Subscribe, MonJoin, StalledOnlyAfterLoss
<1>6. CASE MonReliable
  <2>1. reliable # <<>> /\ result = "running" /\ reliable' = Tail(reliable)
    BY <1>6 DEF MonReliable
  <2>2. PICK h \in MsgType : h = Head(reliable)  BY <2>1, TailFacts DEF IInv
  <2>3. result' # "stalled"
    <3>1. CASE OnProgress(h) \/ OnComplete(h) \/ OnBisected(h)
      BY <2>1, <3>1 DEF OnProgress, OnComplete, OnBisected
    <3>2. CASE OnFailed(h)
      <4>1. Requeue(h)  BY <3>2 DEF OnFailed
      <4>2. h.cls # "stalled"  BY DEF MsgType, ClsType
      <4>3. result' \in {result, h.cls, "exhausted"}  BY <4>1 DEF Requeue
      <4> QED  BY <2>1, <4>2, <4>3
    <3> QED  BY <1>6, <2>2, <3>1, <3>2 DEF MonReliable
  <2> QED  BY <2>3 DEF StalledOnlyAfterLoss
<1>7. CASE SomeTick
  <2>1. result' = "stalled" => lost  BY <1>7, TickStalls DEF SomeTick
  <2> QED  BY <1>1, <2>1 DEF StalledOnlyAfterLoss
<1> QED  BY <1>3, <1>4, <1>5, <1>6, <1>7 DEF Next

\* The dead-end escape of the monitor is taken only after a progress message was
\* lost: while every message arrives, the completed bytes account for the whole
\* file by the time no worker, event or retry is left, and the gates end the
\* download with Ok.
THEOREM StallNeedsLoss == Spec => []StalledOnlyAfterLoss
<1>1. Init => OkInv /\ Booked  BY InitOk, InitBooked
<1>2. Init => StalledOnlyAfterLoss  BY DEF Init, StalledOnlyAfterLoss
<1>3. IInv /\ OkInv /\ [Next]_vars => OkInv'  BY OkStep
<1>4. IInv /\ IInv' /\ LedgerInv /\ Booked /\ [Next]_vars => Booked'  BY BookedStep
<1>5. IInv /\ IInv' /\ OkInv /\ Booked /\ StalledOnlyAfterLoss /\ [Next]_vars
         => StalledOnlyAfterLoss'
  BY StalledStep
<1> QED  BY <1>1, <1>2, <1>3, <1>4, <1>5, Invariance, LedgerConsistent, PTL DEF Spec
=============================================================================

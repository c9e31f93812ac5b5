--------------------------- MODULE DispatchProofs ---------------------------
(***************************************************************************)
(* Theorems about Dispatch for every number of chunks, sources, lanes and  *)
(* every setting of the limits, budgets and times.                         *)
(***************************************************************************)
EXTENDS Dispatch, SequenceTheorems, FiniteSetTheorems, WellFoundedInduction, TLAPS

\* The counters and bindings are functions over the chunks.
Tables ==
    /\ total \in [Chunks -> Nat]
    /\ DOMAIN binding = Chunks

BudgetInv == Tables /\ BudgetKept

\* The budget holds at the start.
LEMMA BudgetInit == Init => BudgetInv
  BY RetryAssumption DEF Init, RetryInit, BudgetInv, Tables, BudgetKept

\* Until the download has failed no budget is overdrawn.
LEMMA Within ==
  ASSUME BudgetInv, phase # "failed", NEW c \in Chunks
  PROVE  total[c] <= MaxTotalAttempts
  BY RetryAssumption DEF BudgetInv, Tables, BudgetKept

\* A step that leaves the counters alone while the download goes on.
LEMMA Untouched ==
  ASSUME BudgetInv, phase # "failed", total' = total, DOMAIN binding' = Chunks
  PROVE  BudgetInv'
  BY Within, RetryAssumption DEF BudgetInv, Tables, BudgetKept

\* The probes end before anything is counted.
LEMMA ProbingKeeps == BudgetInv /\ Probing => BudgetInv'
  <1> SUFFICES ASSUME BudgetInv, Probing PROVE BudgetInv'
    OBVIOUS
  <1>1. phase # "failed"
    BY DEF Probing, Probe, ProbedRange, ProbedPlain, ProbedSkipped, ProbeFailed, Answered,
           Build, NoSources
  <1>2. total' = total /\ binding' = binding
    BY DEF Probing, retryVars, monitorVars
  <1> QED
    BY <1>1, <1>2, Untouched DEF BudgetInv, Tables

\* No step of start and tick counts an attempt.
LEMMA MonitorKeeps == BudgetInv /\ Monitor => BudgetInv'
  <1> SUFFICES ASSUME BudgetInv, Monitor PROVE BudgetInv'
    OBVIOUS
  <1> USE DEF retryVars, monitorVars
  <1>1. phase # "failed"
    BY DEF Monitor, Start, Tick, Drain, DrainEnds, RetryStarts, RetryDeferred, TickEnds
  <1>2. total' = total
    BY DEF Monitor, Start, Tick, Drain, DrainEnds, RetryStarts, RetryDeferred, TickEnds,
           RetryWaits, ProcessQueues, PopReady, PushBack
  <1>3. DOMAIN binding' = Chunks
    BY DEF Monitor, Start, Tick, Drain, DrainEnds, RetryStarts, RetryDeferred, TickEnds,
           Spawn, BudgetInv, Tables
  <1> QED
    BY <1>1, <1>2, <1>3, Untouched

\* An event counts an attempt only if the budget allows it, else it ends the
\* download.
LEMMA EndsKeeps == ASSUME NEW c \in Chunks PROVE BudgetInv /\ Ends(c) => BudgetInv'
  <1> SUFFICES ASSUME BudgetInv, Ends(c) PROVE BudgetInv'
    OBVIOUS
  <1>1. phase # "failed" /\ DOMAIN binding' = Chunks /\ binding'[c] = NoLane
    BY DEF Ends, Complete, FailsForGood, FailsAgain, Fails, Running, Unbound, BudgetInv, Tables
  <1>2. \A d \in Chunks : total[d] <= MaxTotalAttempts /\ total[d] \in Nat
    BY <1>1, Within DEF BudgetInv, Tables
  <1>3. CASE Complete(c)
    <2>1. total' = [total EXCEPT ![c] = 0]
      BY <1>3 DEF Complete, Succeeded
    <2> QED
      BY <2>1, <1>1, <1>2, RetryAssumption DEF BudgetInv, Tables, BudgetKept
  <1>4. CASE FailsAgain(c)
    <2>1. total' = [total EXCEPT ![c] = @ + 1] /\ ~(total[c] + 1 > MaxTotalAttempts)
      BY <1>4 DEF FailsAgain, FailedAgain, Spent
    <2> QED
      BY <2>1, <1>1, <1>2, RetryAssumption DEF BudgetInv, Tables, BudgetKept
  <1>5. CASE FailsForGood(c)
    <2>1. phase' = "failed" /\ permanent' = permanent \cup {c}
      BY <1>5 DEF FailsForGood, FailedForGood, FailedTooOften, GiveUp
    <2>2. total' = total \/ total' = [total EXCEPT ![c] = @ + 1]
      BY <1>5 DEF FailsForGood, FailedForGood, FailedTooOften
    <2> QED
      BY <2>1, <2>2, <1>1, <1>2, RetryAssumption DEF BudgetInv, Tables, BudgetKept
  <1> QED
    BY <1>3, <1>4, <1>5 DEF Ends

\* A split starts or buffers a range and counts nothing.
LEMMA SplitKeeps ==
  ASSUME NEW c \in Chunks, NEW n \in Chunks PROVE BudgetInv /\ Split(c, n) => BudgetInv'
  <1> SUFFICES ASSUME BudgetInv, Split(c, n) PROVE BudgetInv'
    OBVIOUS
  <1>1. phase # "failed" /\ total' = total
    BY DEF Split, Running, retryVars
  <1>2. DOMAIN binding' = Chunks
    BY DEF Split, Spawn, BudgetInv, Tables
  <1> QED
    BY <1>1, <1>2, Untouched

\* Whatever the number of chunks, lanes and retries, the attempts of a chunk over
\* all its cycles through the queues stay within MAX_TOTAL_ATTEMPTS, or the
\* download has failed with the chunk among the permanent failures.
THEOREM Budget == Spec => []BudgetKept
  <1>1. BudgetInv /\ [Next]_vars => BudgetInv'
    <2> SUFFICES ASSUME BudgetInv, [Next]_vars PROVE BudgetInv'
      OBVIOUS
    <2>1. CASE UNCHANGED vars
      BY <2>1 DEF vars, retryVars, monitorVars, BudgetInv, Tables, BudgetKept
    <2>2. CASE Next
      <3>1. CASE Over
        BY <3>1, <2>1 DEF Over
      <3> QED
        BY <2>2, <3>1, ProbingKeeps, MonitorKeeps, EndsKeeps, SplitKeeps DEF Next
    <2> QED
      BY <2>1, <2>2
  <1> QED
    BY <1>1, BudgetInit, PTL DEF Spec, BudgetInv
-----------------------------------------------------------------------------
(* Least elements and sequences *)

\* A set of numbers has a least element, which is what Min picks.
LEMMA MinIn ==
    ASSUME NEW S, S \subseteq Nat, S # {} PROVE Min(S) \in S /\ \A y \in S : Min(S) <= y
<1>1. IsWellFoundedOn(OpToRel(<, Nat), Nat)
  BY NatLessThanWellFounded
<1>2. \E x \in S : \A y \in S : ~(<<y, x>> \in OpToRel(<, Nat))
  BY <1>1, WFMin
<1>3. PICK x \in S : \A y \in S : ~(<<y, x>> \in OpToRel(<, Nat))
  BY <1>2
<1>4. ASSUME NEW y \in S PROVE x <= y
  <2>1. x \in Nat /\ y \in Nat
    OBVIOUS
  <2>2. ASSUME y < x PROVE FALSE
    <3>1. <<y, x>> \in Nat \X Nat /\ <<y, x>>[1] < <<y, x>>[2]
      BY <2>1, <2>2
    <3>2. <<y, x>> \in OpToRel(<, Nat)
      BY <3>1, Zenon DEF OpToRel
    <3> QED BY <3>2, <1>3
  <2> QED BY <2>1, <2>2
<1> QED BY <1>4 DEF Min

\* The elements of a concatenation, and where they are.
LEMMA Concat ==
    ASSUME NEW S, NEW q \in Seq(S), NEW r \in Seq(S)
    PROVE  /\ q \o r \in Seq(S) /\ DOMAIN (q \o r) = 1 .. Len(q) + Len(r)
           /\ \A k \in 1 .. Len(q) + Len(r) :
                 (q \o r)[k] = IF k <= Len(q) THEN q[k] ELSE r[k - Len(q)]
           /\ ToSet(q \o r) = ToSet(q) \cup ToSet(r)
<1>1. /\ q \o r \in Seq(S) /\ Len(q \o r) = Len(q) + Len(r)
      /\ \A k \in 1 .. Len(q) + Len(r) :
            (q \o r)[k] = IF k <= Len(q) THEN q[k] ELSE r[k - Len(q)]
  BY ConcatProperties
<1> DEFINE a == q \o r
<1>2. /\ DOMAIN a = 1 .. Len(q) + Len(r) /\ DOMAIN q = 1 .. Len(q) /\ DOMAIN r = 1 .. Len(r)
      /\ Len(q) \in Nat /\ Len(r) \in Nat
  BY <1>1
<1>3. \A k \in DOMAIN a : a[k] = IF k <= Len(q) THEN q[k] ELSE r[k - Len(q)]
  BY <1>1, <1>2
<1> HIDE DEF a
<1>4. ToSet(a) \subseteq ToSet(q) \cup ToSet(r)
  BY <1>2, <1>3 DEF ToSet
<1>5. ToSet(q) \subseteq ToSet(a)
  BY <1>2, <1>3 DEF ToSet
<1>6. ToSet(r) \subseteq ToSet(a)
  <2> SUFFICES ASSUME NEW k \in DOMAIN r PROVE r[k] \in ToSet(a)
    BY DEF ToSet
  <2>1. k + Len(q) \in DOMAIN a /\ ~(k + Len(q) <= Len(q)) /\ (k + Len(q)) - Len(q) = k
    BY <1>2
  <2>2. a[k + Len(q)] = r[k]
    BY <1>3, <2>1
  <2> QED BY <2>1, <2>2 DEF ToSet
<1> QED BY <1>1, <1>2, <1>4, <1>5, <1>6 DEF a

\* Appending adds one element at the end.
LEMMA AppendOne ==
    ASSUME NEW S, NEW q \in Seq(S), NEW x \in S
    PROVE  /\ Append(q, x) \in Seq(S) /\ DOMAIN Append(q, x) = 1 .. Len(q) + 1
           /\ \A k \in 1 .. Len(q) : Append(q, x)[k] = q[k]
           /\ Append(q, x)[Len(q) + 1] = x
           /\ ToSet(Append(q, x)) = ToSet(q) \cup {x}
<1> DEFINE a == Append(q, x)
<1>1. /\ a \in Seq(S) /\ DOMAIN a = 1 .. Len(q) + 1 /\ a[Len(q) + 1] = x
      /\ \A k \in 1 .. Len(q) : a[k] = q[k]
  BY AppendProperties
<1>2. DOMAIN q = 1 .. Len(q) /\ Len(q) \in Nat
  OBVIOUS
<1> HIDE DEF a
<1>3. ToSet(a) = ToSet(q) \cup {x}
  BY <1>1, <1>2 DEF ToSet
<1> QED BY <1>1, <1>3 DEF a

\* Both ends of a sequence that is cut after n elements.
LEMMA Cut ==
    ASSUME NEW S, NEW q \in Seq(S), NEW n \in 0 .. Len(q)
    PROVE  LET b == SubSeq(q, 1, n)
               c == SubSeq(q, n + 1, Len(q))
           IN
           /\ b \in Seq(S) /\ DOMAIN b = 1 .. n /\ Len(b) = n
           /\ \A k \in 1 .. n : b[k] = q[k]
           /\ c \in Seq(S) /\ DOMAIN c = 1 .. Len(q) - n /\ Len(c) = Len(q) - n
           /\ \A k \in 1 .. Len(q) - n : c[k] = q[n + k]
<1> DEFINE b == SubSeq(q, 1, n)
           c == SubSeq(q, n + 1, Len(q))
<1>1. b \in Seq(S) /\ Len(b) = n /\ \A k \in 1 .. n : b[k] = q[k]
  BY SubSeqProperties
<1>2. c \in Seq(S) /\ Len(c) = Len(q) - n /\ \A k \in 1 .. Len(q) - n : c[k] = q[n + k]
  BY SubSeqProperties
<1>3. DOMAIN b = 1 .. n /\ DOMAIN c = 1 .. Len(q) - n
  <2> HIDE DEF b, c
  <2> QED BY <1>1, <1>2
<1> QED BY <1>1, <1>2, <1>3

\* Removing a position.
LEMMA Removing ==
    ASSUME NEW S, NEW q \in Seq(S), NEW i \in 1 .. Len(q)
    PROVE  /\ RemoveAt(q, i) \in Seq(S) /\ DOMAIN RemoveAt(q, i) = 1 .. Len(q) - 1
           /\ \A k \in 1 .. Len(q) - 1 :
                 RemoveAt(q, i)[k] = IF k < i THEN q[k] ELSE q[k + 1]
<1> DEFINE b == SubSeq(q, 1, i - 1)
           c == SubSeq(q, i + 1, Len(q))
           a == b \o c
<1>0. Len(q) \in Nat /\ i - 1 \in 0 .. Len(q)
  OBVIOUS
<1>1. b \in Seq(S) /\ Len(b) = i - 1 /\ \A k \in 1 .. i - 1 : b[k] = q[k]
  BY <1>0, Cut
<1>2. c \in Seq(S) /\ Len(c) = Len(q) - i /\ \A k \in 1 .. Len(q) - i : c[k] = q[i + k]
  BY Cut
<1>3. a = RemoveAt(q, i)
  BY DEF RemoveAt
<1> HIDE DEF b, c
<1>4. /\ a \in Seq(S) /\ DOMAIN a = 1 .. Len(b) + Len(c)
      /\ \A k \in 1 .. Len(b) + Len(c) : a[k] = IF k <= Len(b) THEN b[k] ELSE c[k - Len(b)]
  BY <1>1, <1>2, Concat
<1>5. Len(b) + Len(c) = Len(q) - 1
  BY <1>0, <1>1, <1>2
<1>6. ASSUME NEW k \in 1 .. Len(q) - 1 PROVE a[k] = IF k < i THEN q[k] ELSE q[k + 1]
  <2>1. CASE k < i
    <3>1. k <= Len(b) /\ k \in 1 .. i - 1
      BY <1>1, <2>1
    <3> QED BY <3>1, <2>1, <1>4, <1>5, <1>1
  <2>2. CASE ~(k < i)
    <3>1. ~(k <= Len(b)) /\ k - Len(b) \in 1 .. Len(q) - i /\ i + (k - Len(b)) = k + 1
      BY <1>0, <1>1, <2>2
    <3>2. a[k] = c[k - Len(b)]
      BY <3>1, <1>4, <1>5
    <3>3. c[k - Len(b)] = q[k + 1]
      BY <3>1, <1>2
    <3> QED BY <3>2, <3>3, <2>2
  <2> QED BY <2>1, <2>2
<1> QED BY <1>3, <1>4, <1>5, <1>6
-----------------------------------------------------------------------------
(* The queues: which chunks they hold, and that they hold none twice *)

Once(q) == \A j, k \in DOMAIN q : q[j].id = q[k].id => j = k

\* An entry is in the queue's set of ids, and an id has its entry.
LEMMA IdsOf ==
    ASSUME NEW q \in Seq(Entry)
    PROVE  /\ Ids(q) \subseteq Chunks
           /\ \A c : c \in Ids(q) <=> \E e \in ToSet(q) : e.id = c
           /\ ToSet(q) \subseteq Entry
<1>1. \A k \in DOMAIN q : q[k] \in Entry
  <2> DEFINE T == Entry
  <2> HIDE DEF T
  <2>1. q \in Seq(T)
    BY DEF T
  <2>2. \A k \in DOMAIN q : q[k] \in T
    BY <2>1
  <2> QED BY <2>2 DEF T
<1>2. \A e \in Entry : e.id \in Chunks
  BY DEF Entry
<1> QED BY <1>1, <1>2 DEF Ids, ToSet

\* One queue behind another.
LEMMA JoinQueues ==
    ASSUME NEW q \in Seq(Entry), NEW r \in Seq(Entry), Once(q), Once(r),
           Ids(q) \cap Ids(r) = {}
    PROVE  /\ q \o r \in Seq(Entry) /\ Once(q \o r) /\ Ids(q \o r) = Ids(q) \cup Ids(r)
           /\ ToSet(q \o r) = ToSet(q) \cup ToSet(r)
<1> DEFINE a == q \o r
<1>1. /\ a \in Seq(Entry) /\ DOMAIN a = 1 .. Len(q) + Len(r)
      /\ \A k \in 1 .. Len(q) + Len(r) : a[k] = IF k <= Len(q) THEN q[k] ELSE r[k - Len(q)]
      /\ ToSet(a) = ToSet(q) \cup ToSet(r)
  BY Concat
<1>2. /\ DOMAIN q = 1 .. Len(q) /\ DOMAIN r = 1 .. Len(r)
      /\ Len(q) \in Nat /\ Len(r) \in Nat
  OBVIOUS
<1> HIDE DEF a
<1>3. Ids(a) = Ids(q) \cup Ids(r)
  BY <1>1, IdsOf
<1>4. Once(a)
  <2> SUFFICES ASSUME NEW j \in DOMAIN a, NEW k \in DOMAIN a, a[j].id = a[k].id PROVE j = k
    BY DEF Once
  <2>1. ASSUME NEW i \in DOMAIN a, i <= Len(q)
        PROVE  i \in DOMAIN q /\ a[i] = q[i] /\ a[i].id \in Ids(q)
    <3>1. i \in DOMAIN q /\ a[i] = q[i]
      BY <2>1, <1>1, <1>2
    <3> QED BY <3>1 DEF Ids
  <2>2. ASSUME NEW i \in DOMAIN a, ~(i <= Len(q))
        PROVE  i - Len(q) \in DOMAIN r /\ a[i] = r[i - Len(q)] /\ a[i].id \in Ids(r)
    <3>1. i - Len(q) \in DOMAIN r /\ a[i] = r[i - Len(q)]
      BY <2>2, <1>1, <1>2
    <3> QED BY <3>1 DEF Ids
  <2>3. CASE j <= Len(q) /\ k <= Len(q)
    BY <2>1, <2>3 DEF Once
  <2>4. CASE ~(j <= Len(q)) /\ ~(k <= Len(q))
    <3>1. j - Len(q) = k - Len(q)
      BY <2>2, <2>4 DEF Once
    <3> QED BY <3>1, <1>1, <1>2
  <2> QED BY <2>1, <2>2, <2>3, <2>4
<1> QED BY <1>1, <1>3, <1>4 DEF a

\* One entry more.
LEMMA AppendQueue ==
    ASSUME NEW q \in Seq(Entry), NEW e \in Entry, Once(q), e.id \notin Ids(q)
    PROVE  /\ Append(q, e) \in Seq(Entry) /\ Once(Append(q, e))
           /\ Ids(Append(q, e)) = Ids(q) \cup {e.id}
           /\ ToSet(Append(q, e)) = ToSet(q) \cup {e}
<1> DEFINE a == Append(q, e)
<1>1. /\ a \in Seq(Entry) /\ DOMAIN a = 1 .. Len(q) + 1
      /\ \A k \in 1 .. Len(q) : a[k] = q[k]
      /\ a[Len(q) + 1] = e /\ ToSet(a) = ToSet(q) \cup {e}
  BY AppendOne
<1>2. DOMAIN q = 1 .. Len(q) /\ Len(q) \in Nat
  OBVIOUS
<1> HIDE DEF a
<1>3. Ids(a) = Ids(q) \cup {e.id}
  BY <1>1, IdsOf
<1>4. Once(a)
  BY <1>1, <1>2 DEF Once, Ids
<1> QED BY <1>1, <1>3, <1>4 DEF a

\* One entry less.
LEMMA RemoveQueue ==
    ASSUME NEW q \in Seq(Entry), Once(q), NEW i \in DOMAIN q
    PROVE  /\ RemoveAt(q, i) \in Seq(Entry) /\ Once(RemoveAt(q, i))
           /\ Ids(RemoveAt(q, i)) = Ids(q) \ {q[i].id}
           /\ ToSet(RemoveAt(q, i)) \subseteq ToSet(q)
<1> DEFINE a == RemoveAt(q, i)
           At(k) == IF k < i THEN k ELSE k + 1
<1>1. /\ a \in Seq(Entry) /\ DOMAIN a = 1 .. Len(q) - 1
      /\ \A k \in 1 .. Len(q) - 1 : a[k] = IF k < i THEN q[k] ELSE q[k + 1]
  BY Removing
<1>2. DOMAIN q = 1 .. Len(q) /\ Len(q) \in Nat /\ i \in 1 .. Len(q)
  OBVIOUS
<1> HIDE DEF a
<1>3. ASSUME NEW k \in DOMAIN a PROVE At(k) \in DOMAIN q /\ a[k] = q[At(k)] /\ At(k) # i
  BY <1>1, <1>2
<1>4. \A j, k \in DOMAIN a : At(j) = At(k) => j = k
  BY <1>1, <1>2
<1>5. ASSUME NEW j \in DOMAIN q, j # i PROVE \E k \in DOMAIN a : At(k) = j
  <2>1. CASE j < i
    BY <2>1, <1>1, <1>2
  <2>2. CASE ~(j < i)
    <3>1. j - 1 \in DOMAIN a /\ At(j - 1) = j
      BY <2>2, <1>5, <1>1, <1>2
    <3> QED BY <3>1
  <2> QED BY <2>1, <2>2
<1> HIDE DEF At
<1>6. Once(a)
  BY <1>3, <1>4 DEF Once
<1>7. Ids(a) = Ids(q) \ {q[i].id}
  BY <1>3, <1>5 DEF Ids, Once
<1>8. ToSet(a) \subseteq ToSet(q)
  BY <1>3 DEF ToSet
<1> QED BY <1>1, <1>6, <1>7, <1>8 DEF a

\* A queue that is cut in two.
LEMMA CutQueue ==
    ASSUME NEW q \in Seq(Entry), Once(q), NEW n \in 0 .. Len(q)
    PROVE  LET b == SubSeq(q, 1, n)
               c == SubSeq(q, n + 1, Len(q))
           IN
           /\ b \in Seq(Entry) /\ c \in Seq(Entry) /\ Once(b) /\ Once(c)
           /\ Ids(b) \cup Ids(c) = Ids(q) /\ Ids(b) \cap Ids(c) = {}
           /\ ToSet(b) \subseteq ToSet(q) /\ ToSet(c) \subseteq ToSet(q)
<1> DEFINE b == SubSeq(q, 1, n)
           c == SubSeq(q, n + 1, Len(q))
<1>1. /\ b \in Seq(Entry) /\ DOMAIN b = 1 .. n /\ \A k \in 1 .. n : b[k] = q[k]
      /\ c \in Seq(Entry) /\ DOMAIN c = 1 .. Len(q) - n
      /\ \A k \in 1 .. Len(q) - n : c[k] = q[n + k]
  BY Cut
<1>2. DOMAIN q = 1 .. Len(q) /\ Len(q) \in Nat /\ n \in Nat
  OBVIOUS
<1> HIDE DEF b, c
<1>3. ASSUME NEW k \in DOMAIN b PROVE k \in DOMAIN q /\ b[k] = q[k] /\ k <= n
  BY <1>1, <1>2
<1>4. ASSUME NEW k \in DOMAIN c PROVE n + k \in DOMAIN q /\ c[k] = q[n + k] /\ ~(n + k <= n)
  BY <1>1, <1>2
<1>5. \A j, k \in DOMAIN c : n + j = n + k => j = k
  BY <1>1, <1>2
<1>6. ASSUME NEW j \in DOMAIN q
      PROVE  (j \in DOMAIN b /\ b[j] = q[j]) \/ \E k \in DOMAIN c : n + k = j
  <2>1. CASE j <= n
    BY <2>1, <1>1, <1>2
  <2>2. CASE ~(j <= n)
    <3>1. j - n \in DOMAIN c /\ n + (j - n) = j
      BY <2>2, <1>1, <1>2
    <3> QED BY <3>1
  <2> QED BY <2>1, <2>2
<1>7. Once(b)
  BY <1>3 DEF Once
<1>8. Once(c)
  BY <1>4, <1>5 DEF Once
<1>9. ToSet(b) \subseteq ToSet(q) /\ ToSet(c) \subseteq ToSet(q)
  BY <1>3, <1>4 DEF ToSet
<1>10. Ids(b) \cup Ids(c) = Ids(q)
  BY <1>3, <1>4, <1>6 DEF Ids
<1>11. Ids(b) \cap Ids(c) = {}
  <2> SUFFICES ASSUME NEW j \in DOMAIN b, NEW k \in DOMAIN c, b[j].id = c[k].id PROVE FALSE
    BY DEF Ids
  <2>1. q[j].id = q[n + k].id /\ j \in DOMAIN q /\ n + k \in DOMAIN q
    BY <1>3, <1>4
  <2>2. j = n + k
    BY <2>1 DEF Once
  <2> QED BY <2>2, <1>3, <1>4
<1> QED BY <1>1, <1>7, <1>8, <1>9, <1>10, <1>11 DEF b, c

\* Time passes over a queue: the same chunks wait, for as long as is left.
LEMMA LaterQueue ==
    ASSUME NEW q \in Seq(Entry), Once(q), NEW ms \in Nat
    PROVE  /\ Later(q, ms) \in Seq(Entry) /\ Once(Later(q, ms)) /\ Ids(Later(q, ms)) = Ids(q)
           /\ \A x \in ToSet(Later(q, ms)) :
                 \E e \in ToSet(q) : x.id = e.id /\ x.wait = Left(e.wait, ms)
<1> DEFINE a == Later(q, ms)
<1>1. ASSUME NEW e \in Entry
      PROVE  LET x == [e EXCEPT !.wait = Left(@, ms)] IN
             x \in Entry /\ x.id = e.id /\ x.wait = Left(e.wait, ms)
  BY DEF Entry, Left
<1>2. \A k \in DOMAIN q : q[k] \in Entry
  BY IdsOf DEF ToSet
<1>3. DOMAIN a = DOMAIN q /\ \A k \in DOMAIN q : a[k] = [q[k] EXCEPT !.wait = Left(@, ms)]
  BY DEF Later
<1>4. \A k \in DOMAIN q : a[k] \in Entry /\ a[k].id = q[k].id /\ a[k].wait = Left(q[k].wait, ms)
  BY <1>1, <1>2, <1>3
<1>5. a \in Seq(Entry)
  <2> DEFINE T == Entry
  <2>1. Len(q) \in Nat /\ DOMAIN q = 1 .. Len(q)
    OBVIOUS
  <2>2. a = [k \in 1 .. Len(q) |-> a[k]] /\ \A k \in 1 .. Len(q) : a[k] \in T
    BY <2>1, <1>4 DEF Later
  <2> HIDE DEF T, a
  <2>3. a \in [1 .. Len(q) -> T]
    BY <2>2
  <2> QED BY <2>1, <2>3, SeqDef DEF T
<1> HIDE DEF a
<1>6. Once(a) /\ Ids(a) = Ids(q)
  BY <1>3, <1>4 DEF Once, Ids
<1>7. \A x \in ToSet(a) : \E e \in ToSet(q) : x.id = e.id /\ x.wait = Left(e.wait, ms)
  BY <1>3, <1>4 DEF ToSet
<1> QED BY <1>5, <1>6, <1>7 DEF a

\* The deferred chunks as entries without a wait.
LEMMA DeferredEntries ==
    ASSUME NEW cs \in Seq(Chunks), IsInjective(cs)
    PROVE  LET a == [k \in DOMAIN cs |-> [id |-> cs[k], wait |-> 0]] IN
           /\ a \in Seq(Entry) /\ Once(a) /\ Ids(a) = ToSet(cs)
           /\ \A x \in ToSet(a) : x.id \in ToSet(cs) /\ x.wait = 0
<1> DEFINE a == [k \in DOMAIN cs |-> [id |-> cs[k], wait |-> 0]]
<1>1. Len(cs) \in Nat /\ DOMAIN cs = 1 .. Len(cs) /\ \A k \in DOMAIN cs : cs[k] \in Chunks
  OBVIOUS
<1>2. \A k \in DOMAIN cs : a[k] \in Entry /\ a[k].id = cs[k] /\ a[k].wait = 0
  BY <1>1 DEF Entry
<1>3. DOMAIN a = DOMAIN cs /\ a = [k \in 1 .. Len(cs) |-> a[k]]
  BY <1>1
<1> HIDE DEF a
<1>4. a \in Seq(Entry)
  <2> DEFINE T == Entry
  <2>1. \A k \in 1 .. Len(cs) : a[k] \in T
    BY <1>1, <1>2
  <2> HIDE DEF T
  <2>2. a \in [1 .. Len(cs) -> T]
    BY <2>1, <1>3
  <2> QED BY <2>2, <1>1, SeqDef DEF T
<1>5. Once(a)
  <2> SUFFICES ASSUME NEW j \in DOMAIN a, NEW k \in DOMAIN a, a[j].id = a[k].id PROVE j = k
    BY DEF Once
  <2>1. cs[j] = cs[k]
    BY <1>2, <1>3
  <2> QED BY <2>1, <1>3 DEF IsInjective
<1>6. Ids(a) = ToSet(cs)
  <2>1. \A k \in DOMAIN a : a[k].id = cs[k]
    BY <1>2, <1>3
  <2>2. Ids(a) \subseteq ToSet(cs)
    BY <2>1, <1>3 DEF Ids, ToSet
  <2>3. ToSet(cs) \subseteq Ids(a)
    BY <2>1, <1>3 DEF Ids, ToSet
  <2> QED BY <2>2, <2>3
<1>7. \A x \in ToSet(a) : x.id \in ToSet(cs) /\ x.wait = 0
  BY <1>2, <1>3 DEF ToSet
<1> QED BY <1>4, <1>5, <1>6, <1>7 DEF a

\* The buffered ranges: one more, or the first one less.
LEMMA Buffering ==
    ASSUME NEW q \in Seq(Chunks), IsInjective(q)
    PROVE  /\ \A c \in Chunks \ ToSet(q) :
                 /\ Append(q, c) \in Seq(Chunks) /\ IsInjective(Append(q, c))
                 /\ ToSet(Append(q, c)) = ToSet(q) \cup {c}
           /\ q # <<>> =>
                 /\ Tail(q) \in Seq(Chunks) /\ IsInjective(Tail(q)) /\ Head(q) \in Chunks
                 /\ Head(q) \in ToSet(q) /\ ToSet(Tail(q)) = ToSet(q) \ {Head(q)}
<1>0. DOMAIN q = 1 .. Len(q) /\ Len(q) \in Nat
  OBVIOUS
<1>1. ASSUME NEW c \in Chunks, c \notin ToSet(q)
      PROVE  /\ Append(q, c) \in Seq(Chunks) /\ IsInjective(Append(q, c))
             /\ ToSet(Append(q, c)) = ToSet(q) \cup {c}
  <2> DEFINE a == Append(q, c)
  <2>1. /\ a \in Seq(Chunks) /\ DOMAIN a = 1 .. Len(q) + 1
        /\ \A k \in 1 .. Len(q) : a[k] = q[k]
        /\ a[Len(q) + 1] = c /\ ToSet(a) = ToSet(q) \cup {c}
    BY AppendOne
  <2> HIDE DEF a
  <2>2. IsInjective(a)
    BY <1>0, <1>1, <2>1 DEF IsInjective, ToSet
  <2> QED BY <2>1, <2>2 DEF a
<1>2. ASSUME q # <<>>
      PROVE  /\ Tail(q) \in Seq(Chunks) /\ IsInjective(Tail(q)) /\ Head(q) \in Chunks
             /\ Head(q) \in ToSet(q) /\ ToSet(Tail(q)) = ToSet(q) \ {Head(q)}
  <2> DEFINE a == Tail(q)
  <2>1. /\ a \in Seq(Chunks) /\ Len(a) = Len(q) - 1 /\ \A i \in 1 .. Len(a) : a[i] = q[i + 1]
        /\ Head(q) = q[1] /\ Head(q) \in Chunks /\ Len(q) # 0
    BY <1>2, HeadTailProperties
  <2>2. DOMAIN a = 1 .. Len(q) - 1 /\ 1 \in DOMAIN q
    BY <1>0, <2>1
  <2> HIDE DEF a
  <2>3. ASSUME NEW k \in DOMAIN a PROVE k + 1 \in DOMAIN q /\ a[k] = q[k + 1] /\ k + 1 # 1
    BY <1>0, <2>1, <2>2
  <2>4. \A j, k \in DOMAIN a : j + 1 = k + 1 => j = k
    BY <2>2, <1>0
  <2>5. ASSUME NEW j \in DOMAIN q, j # 1 PROVE \E k \in DOMAIN a : k + 1 = j
    <3>1. j - 1 \in DOMAIN a /\ (j - 1) + 1 = j
      BY <2>5, <1>0, <2>2
    <3> QED BY <3>1
  <2>6. IsInjective(a)
    BY <2>3, <2>4 DEF IsInjective
  <2>7. ToSet(a) = ToSet(q) \ {q[1]}
    <3>1. ToSet(a) \subseteq ToSet(q) \ {q[1]}
      BY <2>2, <2>3 DEF ToSet, IsInjective
    <3>2. ToSet(q) \ {q[1]} \subseteq ToSet(a)
      BY <2>3, <2>5 DEF ToSet
    <3> QED BY <3>1, <3>2
  <2>8. q[1] \in ToSet(q)
    BY <2>2 DEF ToSet
  <2> QED BY <2>1, <2>6, <2>7, <2>8 DEF a
<1> QED BY <1>1, <1>2
-----------------------------------------------------------------------------
(* The lanes *)

Candidate == [rt : Runtimes, speed : Speeds]

\* What the lanes are made of.
LaneTypes ==
    /\ perSource \in Models /\ rangeC \in Seq(Candidate) /\ plainC \in Seq(Candidate)
    /\ order \in Seq(LaneIds)
    /\ active \in [LaneIds -> Nat] /\ failures \in [LaneIds -> Nat]
    /\ black \in [LaneIds -> BOOLEAN] /\ cool \in [LaneIds -> Nat]

\* The lanes of a list of candidates are finitely many lanes.
LEMMA CandidateLanes ==
    ASSUME NEW cs \in Seq(Candidate), perSource \in Models
    PROVE  Candidates(cs) \subseteq LaneIds /\ Cardinality(Candidates(cs)) \in Nat
<1> DEFINE f == [k \in 1 .. Len(cs) |-> LaneOf(cs[k].rt, perSource)]
<1>1. DOMAIN cs = 1 .. Len(cs) /\ Len(cs) \in Nat
  OBVIOUS
<1>2. \A k \in DOMAIN cs : cs[k].rt \in Runtimes
  <2> DEFINE T == Candidate
  <2> HIDE DEF T
  <2>1. cs \in Seq(T)
    BY DEF T
  <2>2. \A k \in DOMAIN cs : cs[k] \in T
    BY <2>1
  <2>3. \A x \in T : x.rt \in Runtimes
    BY DEF T, Candidate
  <2> QED BY <2>2, <2>3
<1>3. Candidates(cs) \subseteq LaneIds
  BY <1>2 DEF Candidates, LaneIds
<1>4. \A l \in Candidates(cs) : \E k \in 1 .. Len(cs) : f[k] = l
  BY <1>1 DEF Candidates
<1>5. f \in [1 .. Len(cs) -> Candidates(cs)]
  BY <1>1 DEF Candidates
<1>6. f \in Surjection(1 .. Len(cs), Candidates(cs))
  <2> HIDE DEF f
  <2> QED BY <1>4, <1>5 DEF Surjection
<1>7. IsFiniteSet(1 .. Len(cs))
  BY <1>1, FS_Interval
<1>8. IsFiniteSet(Candidates(cs))
  BY <1>6, <1>7, FS_Surjection
<1> QED BY <1>3, <1>8, FS_CardinalityType

\* The lane that best_lane finds has room, and is the healthiest that has.
LEMMA BestLaneFits ==
    ASSUME LaneTypes
    PROVE  /\ InUse \subseteq LaneIds
           /\ BestLane = NoLane => \A l \in InUse : ~HasCapacity(l)
           /\ BestLane # NoLane =>
                 /\ BestLane \in InUse /\ HasCapacity(BestLane)
                 /\ StillBlack(BestLane) =>
                       \A l \in InUse : HasCapacity(l) => StillBlack(l)
<1> DEFINE free == {k \in DOMAIN order : HasCapacity(order[k])}
           healthy == {k \in free : ~StillBlack(order[k])}
<1>1. DOMAIN order \subseteq Nat /\ \A k \in DOMAIN order : order[k] \in LaneIds
  BY DEF LaneTypes
<1>2. InUse \subseteq LaneIds /\ NoLane \notin LaneIds
  BY <1>1, LanesAssumption DEF InUse
<1>3. BestLane = IF free = {} THEN NoLane
                 ELSE IF healthy = {} THEN order[Min(free)] ELSE order[Min(healthy)]
  BY DEF BestLane
<1>4. free # {} => Min(free) \in free
  BY <1>1, MinIn
<1>5. healthy # {} => Min(healthy) \in healthy
  BY <1>1, MinIn
<1>6. CASE free = {}
  BY <1>2, <1>3, <1>6 DEF InUse
<1>7. CASE free # {} /\ healthy = {}
  <2>1. BestLane = order[Min(free)] /\ Min(free) \in free
    BY <1>3, <1>4, <1>7
  <2>2. BestLane \in InUse /\ HasCapacity(BestLane)
    BY <2>1 DEF InUse
  <2>3. \A l \in InUse : HasCapacity(l) => StillBlack(l)
    BY <1>7 DEF InUse
  <2> QED BY <1>2, <2>2, <2>3
<1>8. CASE healthy # {}
  <2>1. BestLane = order[Min(healthy)] /\ Min(healthy) \in healthy
    BY <1>3, <1>5, <1>8
  <2>2. BestLane \in InUse /\ HasCapacity(BestLane) /\ ~StillBlack(BestLane)
    BY <2>1 DEF InUse
  <2> QED BY <1>2, <2>2
<1> QED BY <1>6, <1>7, <1>8

\* The scheduler's operations keep the types of its tables.
LEMMA LaneStep ==
    ASSUME LaneTypes, UNCHANGED <<perSource, rangeC, plainC>>,
           \/ Claim \/ Refused
           \/ \E l \in LaneIds : Success(l) \/ Failure(l)
    PROVE  LaneTypes'
<1> USE DEF LaneTypes
<1>1. ASSUME Decay PROVE /\ order' = order /\ cool' = cool
                         /\ black' \in [LaneIds -> BOOLEAN]
                         /\ failures' \in [LaneIds -> Nat]
  BY <1>1 DEF Decay, StillBlack, Expired
<1>2. CASE Claim
  <2>1. BestLane \in LaneIds
    BY <1>2, BestLaneFits DEF Claim
  <2>2. active' \in [LaneIds -> Nat]
    BY <1>2, <2>1 DEF Claim
  <2> QED BY <1>1, <1>2, <2>2 DEF Claim
<1>3. CASE Refused
  BY <1>1, <1>3 DEF Refused
<1>4. ASSUME NEW l \in LaneIds PROVE Released(l) \in [LaneIds -> Nat]
  BY DEF Released
<1>5. ASSUME NEW l \in LaneIds, Success(l) PROVE LaneTypes'
  BY <1>4, <1>5 DEF Success
<1>6. ASSUME NEW l \in LaneIds, Failure(l) PROVE LaneTypes'
  <2>1. /\ active' \in [LaneIds -> Nat] /\ order' = order
        /\ failures' \in [LaneIds -> Nat]
    BY <1>4, <1>6 DEF Failure
  <2>2. /\ black' = black \/ black' = [black EXCEPT ![l] = TRUE]
        /\ cool' = cool \/ cool' = [cool EXCEPT ![l] = Blacklist]
    BY <1>6 DEF Failure
  <2>3. black' \in [LaneIds -> BOOLEAN] /\ cool' \in [LaneIds -> Nat]
    BY <2>2, LanesAssumption
  <2> QED BY <2>1, <2>3
<1> QED BY <1>2, <1>3, <1>5, <1>6
-----------------------------------------------------------------------------
(* The retry handler *)

Waiting == Ids(queue) \cup Ids(delayed)
Entries == ToSet(queue) \cup ToSet(delayed)

\* Its tables, and that a chunk waits at most once.
RetryTypes ==
    /\ queue \in Seq(Entry) /\ delayed \in Seq(Entry)
    /\ attempts \in [Chunks -> Nat] /\ total \in [Chunks -> Nat]
    /\ permanent \subseteq Chunks /\ quiet \in Nat
    /\ Once(queue) /\ Once(delayed) /\ Ids(queue) \cap Ids(delayed) = {}

\* pop_ready_chunk takes out one chunk, whose time has come.
LEMMA PopReadyFacts ==
    ASSUME RetryTypes, PopReady
    PROVE  /\ RetryTypes' /\ permanent' = permanent
           /\ NextReady \in Ids(queue) /\ NextReady \in Chunks
           /\ \E e \in ToSet(queue) : e.id = NextReady /\ e.wait = 0
           /\ Waiting' = Waiting \ {NextReady} /\ Entries' \subseteq Entries
<1> DEFINE i == Min(Ready)
<1>1. /\ Ready # {} /\ queue' = RemoveAt(queue, i)
      /\ UNCHANGED <<delayed, attempts, total, permanent, quiet>>
  BY DEF PopReady
<1>2. Ready \subseteq DOMAIN queue /\ DOMAIN queue \subseteq Nat /\ queue \in Seq(Entry)
  BY DEF Ready, RetryTypes
<1>3. i \in Ready /\ i \in DOMAIN queue
  BY <1>1, <1>2, MinIn
<1>4. NextReady = queue[i].id /\ queue[i].wait = 0
  BY <1>3 DEF NextReady, Ready
<1> HIDE DEF i
<1>5. /\ queue' \in Seq(Entry) /\ Once(queue') /\ Ids(queue') = Ids(queue) \ {NextReady}
      /\ ToSet(queue') \subseteq ToSet(queue)
  BY <1>1, <1>2, <1>3, <1>4, RemoveQueue DEF RetryTypes
<1>6. queue[i] \in ToSet(queue)
  BY <1>3 DEF ToSet
<1>7. NextReady \in Ids(queue) /\ NextReady \in Chunks
  BY <1>2, <1>4, <1>6, IdsOf
<1>8. RetryTypes'
  BY <1>1, <1>5 DEF RetryTypes
<1>9. Waiting' = Waiting \ {NextReady}
  BY <1>1, <1>5, <1>7 DEF Waiting, RetryTypes
<1> QED BY <1>1, <1>4, <1>5, <1>6, <1>7, <1>8, <1>9 DEF Entries

\* process_queues finds where to stop.
LEMMA DueInRange ==
    ASSUME delayed \in Seq(Entry) PROVE Due \in 0 .. Len(delayed)
<1> DEFINE late == {k \in 1 .. Len(delayed) : delayed[k].wait > 0}
           Stops(n) == /\ \A k \in 1 .. n : delayed[k].wait = 0
                       /\ n < Len(delayed) => delayed[n + 1].wait > 0
<1>0. Len(delayed) \in Nat /\ DOMAIN delayed = 1 .. Len(delayed)
  OBVIOUS
<1>1. \A k \in 1 .. Len(delayed) : delayed[k].wait \in Nat
  <2>1. \A e \in Entry : e.wait \in Nat
    BY DEF Entry
  <2> QED BY <1>0, <2>1, IdsOf DEF ToSet
<1>2. CASE late = {}
  <2>1. Len(delayed) \in 0 .. Len(delayed) /\ Stops(Len(delayed))
    BY <1>0, <1>1, <1>2
  <2> QED BY <2>1 DEF Due
<1>3. CASE late # {}
  <2> DEFINE m == Min(late)
  <2>1. m \in late /\ \A y \in late : m <= y
    <3>1. late \subseteq Nat
      BY <1>0
    <3> HIDE DEF late
    <3> QED BY <3>1, <1>3, MinIn
  <2> HIDE DEF m
  <2>2. m \in 1 .. Len(delayed) /\ delayed[m].wait > 0
    BY <2>1
  <2>3. ASSUME NEW k \in 1 .. m - 1 PROVE delayed[k].wait = 0
    <3>1. k \in 1 .. Len(delayed) /\ ~(m <= k)
      BY <2>2, <1>0
    <3>2. ~(delayed[k].wait > 0)
      BY <2>1, <3>1
    <3> QED BY <3>1, <3>2, <1>1
  <2>4. (m - 1) + 1 = m /\ m - 1 \in 0 .. Len(delayed)
    BY <2>2, <1>0
  <2>5. m - 1 \in 0 .. Len(delayed) /\ Stops(m - 1)
    BY <2>2, <2>3, <2>4
  <2> QED BY <2>5 DEF Due
<1> QED BY <1>2, <1>3

\* process_queues moves chunks from one queue to the other.
LEMMA ProcessFacts ==
    ASSUME RetryTypes, ProcessQueues
    PROVE  /\ RetryTypes' /\ permanent' = permanent
           /\ Waiting' = Waiting /\ Entries' \subseteq Entries
<1> DEFINE b == SubSeq(delayed, 1, Due)
           c == SubSeq(delayed, Due + 1, Len(delayed))
<1>1. queue' = queue \o b /\ delayed' = c /\ UNCHANGED <<attempts, total, permanent, quiet>>
  BY DEF ProcessQueues
<1>2. queue \in Seq(Entry) /\ delayed \in Seq(Entry) /\ Due \in 0 .. Len(delayed)
  BY DueInRange DEF RetryTypes
<1>3. /\ b \in Seq(Entry) /\ c \in Seq(Entry) /\ Once(b) /\ Once(c)
      /\ Ids(b) \cup Ids(c) = Ids(delayed) /\ Ids(b) \cap Ids(c) = {}
      /\ ToSet(b) \subseteq ToSet(delayed) /\ ToSet(c) \subseteq ToSet(delayed)
  BY <1>2, CutQueue DEF RetryTypes
<1> HIDE DEF b, c
<1>4. Ids(queue) \cap Ids(b) = {} /\ Ids(queue) \cap Ids(c) = {}
  BY <1>3 DEF RetryTypes
<1>5. /\ queue' \in Seq(Entry) /\ Once(queue') /\ Ids(queue') = Ids(queue) \cup Ids(b)
      /\ ToSet(queue') = ToSet(queue) \cup ToSet(b)
  BY <1>1, <1>2, <1>3, <1>4, JoinQueues DEF RetryTypes
<1>6. RetryTypes'
  BY <1>1, <1>3, <1>4, <1>5 DEF RetryTypes
<1>7. Waiting' = Waiting
  BY <1>1, <1>3, <1>5 DEF Waiting
<1>8. Entries' \subseteq Entries
  BY <1>1, <1>3, <1>5 DEF Entries
<1> QED BY <1>1, <1>6, <1>7, <1>8

\* push_back_retry_with_backoff queues the deferred chunks.
LEMMA PushBackFacts ==
    ASSUME RetryTypes, NEW cs \in Seq(Chunks), IsInjective(cs), ToSet(cs) \cap Waiting = {},
           PushBack(cs)
    PROVE  /\ RetryTypes' /\ permanent' = permanent
           /\ Waiting' = Waiting \cup ToSet(cs)
           /\ \A e \in Entries' : e \in Entries \/ (e.id \in ToSet(cs) /\ e.wait = 0)
<1> DEFINE a == [k \in DOMAIN cs |-> [id |-> cs[k], wait |-> 0]]
<1>1. queue' = queue \o a /\ UNCHANGED <<delayed, attempts, total, permanent, quiet>>
  BY DEF PushBack
<1>2. /\ a \in Seq(Entry) /\ Once(a) /\ Ids(a) = ToSet(cs)
      /\ \A x \in ToSet(a) : x.id \in ToSet(cs) /\ x.wait = 0
  BY DeferredEntries
<1> HIDE DEF a
<1>3. /\ queue \in Seq(Entry) /\ Once(queue) /\ Ids(queue) \cap Ids(a) = {}
      /\ Ids(delayed) \cap Ids(a) = {}
  BY <1>2 DEF RetryTypes, Waiting
<1>4. /\ queue' \in Seq(Entry) /\ Once(queue') /\ Ids(queue') = Ids(queue) \cup Ids(a)
      /\ ToSet(queue') = ToSet(queue) \cup ToSet(a)
  BY <1>1, <1>2, <1>3, JoinQueues
<1>5. RetryTypes'
  BY <1>1, <1>3, <1>4 DEF RetryTypes
<1>6. Waiting' = Waiting \cup ToSet(cs)
  BY <1>1, <1>2, <1>4 DEF Waiting
<1>7. \A e \in Entries' : e \in Entries \/ (e.id \in ToSet(cs) /\ e.wait = 0)
  BY <1>1, <1>2, <1>4 DEF Entries
<1> QED BY <1>1, <1>5, <1>6, <1>7

\* Time passes for all that wait.
LEMMA WaitFacts ==
    ASSUME RetryTypes, NEW ms \in Nat, RetryWaits(ms)
    PROVE  /\ RetryTypes' /\ permanent' = permanent /\ Waiting' = Waiting
           /\ \A x \in Entries' : \E e \in Entries : x.id = e.id /\ x.wait = Left(e.wait, ms)
<1>1. /\ queue' = Later(queue, ms) /\ delayed' = Later(delayed, ms)
      /\ quiet' = Min({BatchWindow, quiet + ms})
      /\ UNCHANGED <<attempts, total, permanent>>
  BY DEF RetryWaits
<1>2. /\ queue \in Seq(Entry) /\ delayed \in Seq(Entry) /\ Once(queue) /\ Once(delayed)
  BY DEF RetryTypes
<1>3. /\ queue' \in Seq(Entry) /\ Once(queue') /\ Ids(queue') = Ids(queue)
      /\ \A x \in ToSet(queue') : \E e \in ToSet(queue) : x.id = e.id /\ x.wait = Left(e.wait, ms)
  BY <1>1, <1>2, LaterQueue
<1>4. /\ delayed' \in Seq(Entry) /\ Once(delayed') /\ Ids(delayed') = Ids(delayed)
      /\ \A x \in ToSet(delayed') :
            \E e \in ToSet(delayed) : x.id = e.id /\ x.wait = Left(e.wait, ms)
  BY <1>1, <1>2, LaterQueue
<1>5. quiet' \in Nat
  <2>1. {BatchWindow, quiet + ms} \subseteq Nat
    BY RetryAssumption DEF RetryTypes
  <2>2. quiet' \in {BatchWindow, quiet + ms}
    BY <2>1, <1>1, MinIn
  <2> QED BY <2>1, <2>2
<1>6. RetryTypes'
  BY <1>1, <1>3, <1>4, <1>5 DEF RetryTypes
<1> QED BY <1>1, <1>3, <1>4, <1>6 DEF Waiting, Entries

\* The back-off grows with the failures and is never shorter than its base.
LEMMA WaitLong ==
    ASSUME RetryTypes, NEW a \in Nat
    PROVE  Base(a) \in Nat /\ Wait(a) \in Nat /\ Wait(a) >= Base(a)
<1>1. Base(a) \in Nat
  <2>1. CASE a >= 3
    BY <2>1 DEF Base
  <2>2. CASE a = 0
    BY <2>2 DEF Base
  <2>3. CASE a = 1
    BY <2>3 DEF Base
  <2>4. CASE a = 2
    BY <2>4 DEF Base
  <2> QED BY <2>1, <2>2, <2>3, <2>4
<1>2. Delay(a) \in Nat /\ Delay(a) >= Base(a)
  <2>1. 73 * a \in Nat
    OBVIOUS
  <2>2. (73 * a) % 200 \in Nat
    BY <2>1
  <2> QED BY <1>1, <2>2 DEF Delay
<1>3. Len(queue) \in Nat
  BY DEF RetryTypes
<1> QED BY <1>1, <1>2, <1>3 DEF Wait

\* A chunk that failed and is to be tried again waits for its rest, or longer.
LEMMA FailedAgainFacts ==
    ASSUME RetryTypes, NEW c \in Chunks, c \notin Waiting, FailedAgain(c)
    PROVE  /\ RetryTypes' /\ permanent' = permanent /\ Waiting' = Waiting \cup {c}
           /\ Rest(attempts[c] + 1) \in Nat
           /\ \A x \in Entries' : \/ x \in Entries
                                  \/ x.id = c /\ x.wait >= Rest(attempts[c] + 1)
<1> DEFINE a == attempts[c] + 1
<1>0. a \in Nat /\ MaxRetries \in Nat /\ DelayedWait \in Nat
  BY RetryAssumption DEF RetryTypes
<1>1. /\ total' = [total EXCEPT ![c] = @ + 1] /\ quiet' = 0 /\ permanent' = permanent
      /\ \/ /\ a <= MaxRetries /\ attempts' = [attempts EXCEPT ![c] = a]
            /\ queue' = Append(queue, [id |-> c, wait |-> Wait(a)]) /\ delayed' = delayed
         \/ /\ a > MaxRetries /\ attempts' = [attempts EXCEPT ![c] = 0]
            /\ delayed' = Append(delayed, [id |-> c, wait |-> DelayedWait]) /\ queue' = queue
  BY DEF FailedAgain
<1>2. Wait(a) \in Nat /\ Base(a) \in Nat /\ Wait(a) >= Base(a)
  BY <1>0, WaitLong
<1> HIDE DEF a
<1>3. total' \in [Chunks -> Nat] /\ attempts' \in [Chunks -> Nat] /\ quiet' \in Nat
  <2>1. attempts \in [Chunks -> Nat] /\ total \in [Chunks -> Nat]
    BY DEF RetryTypes
  <2>2. attempts' = [attempts EXCEPT ![c] = a] \/ attempts' = [attempts EXCEPT ![c] = 0]
    BY <1>1
  <2>3. attempts' \in [Chunks -> Nat]
    BY <2>1, <2>2, <1>0
  <2>4. total' \in [Chunks -> Nat]
    BY <2>1, <1>1
  <2> QED BY <2>3, <2>4, <1>1
<1>4. /\ queue \in Seq(Entry) /\ delayed \in Seq(Entry) /\ Once(queue) /\ Once(delayed)
      /\ Ids(queue) \cap Ids(delayed) = {} /\ c \notin Ids(queue) /\ c \notin Ids(delayed)
  BY DEF RetryTypes, Waiting
<1>5. CASE a <= MaxRetries
  <2> DEFINE e == [id |-> c, wait |-> Wait(a)]
  <2>1. e \in Entry /\ e.id = c /\ e.wait = Wait(a)
    BY <1>2 DEF Entry
  <2>2. queue' = Append(queue, e) /\ delayed' = delayed
    BY <1>0, <1>1, <1>5
  <2> HIDE DEF e
  <2>3. /\ queue' \in Seq(Entry) /\ Once(queue') /\ Ids(queue') = Ids(queue) \cup {c}
        /\ ToSet(queue') = ToSet(queue) \cup {e}
    BY <2>1, <2>2, <1>4, AppendQueue
  <2>4. RetryTypes'
    BY <1>1, <1>3, <1>4, <2>2, <2>3 DEF RetryTypes
  <2>5. Waiting' = Waiting \cup {c}
    BY <2>2, <2>3 DEF Waiting
  <2>6. Rest(a) = Base(a)
    BY <1>0, <1>5 DEF Rest
  <2> QED BY <1>1, <1>2, <2>1, <2>2, <2>3, <2>4, <2>5, <2>6 DEF Entries, a
<1>6. CASE a > MaxRetries
  <2> DEFINE e == [id |-> c, wait |-> DelayedWait]
  <2>1. e \in Entry /\ e.id = c /\ e.wait = DelayedWait
    BY <1>0 DEF Entry
  <2>2. delayed' = Append(delayed, e) /\ queue' = queue
    BY <1>0, <1>1, <1>6
  <2> HIDE DEF e
  <2>3. /\ delayed' \in Seq(Entry) /\ Once(delayed') /\ Ids(delayed') = Ids(delayed) \cup {c}
        /\ ToSet(delayed') = ToSet(delayed) \cup {e}
    BY <2>1, <2>2, <1>4, AppendQueue
  <2>4. RetryTypes'
    BY <1>1, <1>3, <1>4, <2>2, <2>3 DEF RetryTypes
  <2>5. Waiting' = Waiting \cup {c}
    BY <2>2, <2>3 DEF Waiting
  <2>6. Rest(a) = DelayedWait /\ DelayedWait >= DelayedWait
    BY <1>0, <1>6 DEF Rest
  <2> QED BY <1>0, <1>1, <2>1, <2>2, <2>3, <2>4, <2>5, <2>6 DEF Entries, a
<1> QED BY <1>0, <1>5, <1>6
-----------------------------------------------------------------------------
(* Where the chunks are *)

\* The monitor's tables; no range is buffered twice and no chunk deferred twice.
MonitorTypes ==
    /\ phase \in {"probing", "ready", "running", "streaming", "finished", "failed"}
    /\ step \in {"idle", "drain", "retry"}
    /\ unborn \subseteq Chunks /\ done \subseteq Chunks
    /\ pending \in Seq(Chunks) /\ IsInjective(pending)
    /\ deferred \in Seq(Chunks) /\ IsInjective(deferred)
    /\ binding \in [Chunks -> LaneIds \cup {NoLane}]
    /\ due \in [Chunks -> Nat]

Early == phase \in {"probing", "ready", "streaming"}

\* Before the download starts.
Unstarted ==
    /\ unborn = Chunks \ ToSet(InitChunks)
    /\ pending = <<>> /\ queue = <<>> /\ delayed = <<>> /\ deferred = <<>>
    /\ done = {} /\ permanent = {}
    /\ \A c \in Chunks : binding[c] = NoLane

\* The chunk is in one of seven places, and in one only.
One(c) ==
    /\ \/ c \in unborn \/ c \in ToSet(pending) \/ binding[c] # NoLane \/ c \in Waiting
       \/ c \in ToSet(deferred) \/ c \in done \/ c \in permanent
    /\ c \in unborn => c \notin ToSet(pending) /\ binding[c] = NoLane
    /\ c \in unborn \cup ToSet(pending) => c \notin Waiting /\ c \notin ToSet(deferred)
    /\ c \in Waiting => c \notin ToSet(deferred)
    /\ binding[c] # NoLane => c \notin ToSet(pending) /\ c \notin Waiting /\ c \notin ToSet(deferred)
    /\ c \in done \cup permanent =>
          /\ c \notin unborn /\ c \notin ToSet(pending) /\ binding[c] = NoLane
          /\ c \notin Waiting /\ c \notin ToSet(deferred)
    /\ c \notin done \cap permanent

Placement == (Early => Unstarted) /\ (~Early => \A c \in Chunks : One(c))

\* What waits has not finished its rest before its entry's time has come.
Patient ==
    /\ \A e \in Entries : e.wait >= due[e.id]
    /\ \A c \in ToSet(deferred) : due[c] = 0

DInv == LaneTypes /\ RetryTypes /\ MonitorTypes /\ Placement /\ Patient

\* An empty queue holds nothing.
LEMMA EmptyQueues ==
    ASSUME queue = <<>>, delayed = <<>> PROVE Waiting = {} /\ Entries = {}
<1>1. DOMAIN queue = {} /\ DOMAIN delayed = {}
  OBVIOUS
<1> QED BY <1>1 DEF Waiting, Entries, Ids, ToSet

\* It holds at the start.
LEMMA DispatchInit == Init => DInv
<1> SUFFICES ASSUME Init PROVE DInv
  OBVIOUS
<1> USE DEF Init, ProbeInit, RetryInit
<1>1. LaneTypes
  BY DEF LaneTypes
<1>2. DOMAIN queue = {} /\ DOMAIN delayed = {} /\ queue = <<>> /\ delayed = <<>>
  OBVIOUS
<1>3. RetryTypes
  BY <1>2, RetryAssumption DEF RetryTypes, Once, Ids
<1>4. DOMAIN pending = {} /\ DOMAIN deferred = {}
  OBVIOUS
<1>5. MonitorTypes
  BY <1>4 DEF MonitorTypes, IsInjective
<1>6. Placement
  BY <1>2 DEF Placement, Early, Unstarted
<1>7. Patient
  BY <1>2, <1>4, EmptyQueues DEF Patient, ToSet
<1> QED BY <1>1, <1>3, <1>5, <1>6, <1>7 DEF DInv

\* Lists of candidates grow by candidates.
LEMMA MoreCandidates ==
    ASSUME NEW cs \in Seq(Candidate), NEW r \in Runtimes, NEW v \in Speeds
    PROVE  Append(cs, [rt |-> r, speed |-> v]) \in Seq(Candidate)
<1>1. [rt |-> r, speed |-> v] \in Candidate
  BY DEF Candidate
<1> QED BY <1>1, AppendOne

\* Probing.
LEMMA ProbingPlaces ==
    ASSUME DInv, Probing PROVE DInv'
<1>0. UNCHANGED <<retryVars, monitorVars>> /\ Probe
  BY DEF Probing
<1>1. /\ UNCHANGED <<queue, delayed, attempts, total, permanent, quiet>>
      /\ UNCHANGED <<unborn, pending, binding, done, step, deferred, due>>
  BY <1>0 DEF retryVars, monitorVars
<1>2. phase = "probing" /\ phase' \in {"probing", "ready", "streaming"}
  BY <1>0 DEF Probe, ProbedRange, ProbedPlain, ProbedSkipped, ProbeFailed, Answered, Build,
              NoSources
<1>3. UNCHANGED <<perSource, active, failures, black, cool>>
  BY <1>0 DEF Probe, ProbedRange, ProbedPlain, ProbedSkipped, ProbeFailed, Answered, Build,
              NoSources, laneVars, probeVars
<1>4. rangeC' \in Seq(Candidate)
  <2>1. rangeC \in Seq(Candidate)
    BY DEF DInv, LaneTypes
  <2>2. \/ rangeC' = rangeC
        \/ \E r \in Runtimes, v \in Speeds : rangeC' = Append(rangeC, [rt |-> r, speed |-> v])
    BY <1>0 DEF Probe, ProbedRange, ProbedPlain, ProbedSkipped, ProbeFailed, Build, NoSources,
                probeVars
  <2> QED BY <2>1, <2>2, MoreCandidates
<1>5. plainC' \in Seq(Candidate)
  <2>1. plainC \in Seq(Candidate) /\ <<>> \in Seq(Candidate)
    BY DEF DInv, LaneTypes
  <2>2. \/ plainC' = plainC \/ plainC' = <<>>
        \/ \E r \in Runtimes, v \in Speeds : plainC' = Append(plainC, [rt |-> r, speed |-> v])
    BY <1>0 DEF Probe, ProbedRange, ProbedPlain, ProbedSkipped, ProbeFailed, Build, NoSources,
                probeVars
  <2> QED BY <2>1, <2>2, MoreCandidates
<1>6. order' \in Seq(LaneIds)
  <2>1. \/ order' = order \/ order' \in Sorted(Chosen)
    BY <1>0 DEF Probe, ProbedRange, ProbedPlain, ProbedSkipped, ProbeFailed, Answered, Build,
                NoSources, laneVars
  <2>2. Chosen \in Seq(Candidate) /\ perSource \in Models
    BY DEF Chosen, DInv, LaneTypes
  <2>3. Candidates(Chosen) \subseteq LaneIds /\ Cardinality(Candidates(Chosen)) \in Nat
    BY <2>2, CandidateLanes
  <2>4. ASSUME order' \in Sorted(Chosen) PROVE order' \in Seq(LaneIds)
    <3>1. order' \in [1 .. Cardinality(Candidates(Chosen)) -> Candidates(Chosen)]
      BY <2>4 DEF Sorted
    <3>2. order' \in [1 .. Cardinality(Candidates(Chosen)) -> LaneIds]
      BY <2>3, <3>1
    <3> QED BY <2>3, <3>2, SeqDef
  <2> QED BY <2>1, <2>4 DEF DInv, LaneTypes
<1>7. LaneTypes'
  BY <1>3, <1>4, <1>5, <1>6 DEF DInv, LaneTypes
<1>8. RetryTypes'
  BY <1>1 DEF DInv, RetryTypes
<1>9. MonitorTypes'
  BY <1>1, <1>2 DEF DInv, MonitorTypes
<1>10. Placement'
  BY <1>1, <1>2 DEF DInv, Placement, Early, Unstarted
<1>11. Patient'
  BY <1>1 DEF DInv, Patient, Entries
<1> QED BY <1>7, <1>8, <1>9, <1>10, <1>11 DEF DInv

\* orchestrate_downloads.
LEMMA StartPlaces ==
    ASSUME DInv, Start PROVE DInv'
<1>0. /\ phase = "ready" /\ phase' = "running" /\ pending' = InitChunks /\ step' = "drain"
      /\ UNCHANGED <<order, active, failures, black, cool, perSource>>
      /\ rangeC' = <<>> /\ plainC' = <<>>
      /\ UNCHANGED <<queue, delayed, attempts, total, permanent, quiet>>
      /\ UNCHANGED <<unborn, binding, done, deferred, due>>
  BY DEF Start, Forget, laneVars, retryVars
<1>1. LaneTypes'
  BY <1>0 DEF DInv, LaneTypes
<1>2. RetryTypes'
  BY <1>0 DEF DInv, RetryTypes
<1>3. MonitorTypes'
  BY <1>0, DispatchAssumption DEF DInv, MonitorTypes
<1>4. Unstarted /\ Waiting' = {} /\ Entries' = {} /\ ToSet(deferred') = {}
  <2>1. Unstarted
    BY <1>0 DEF DInv, Placement, Early
  <2>2. DOMAIN deferred' = {}
    BY <1>0, <2>1 DEF Unstarted
  <2>3. queue' = <<>> /\ delayed' = <<>>
    BY <1>0, <2>1 DEF Unstarted
  <2>4. Waiting' = {} /\ Entries' = {}
    <3>1. DOMAIN queue' = {} /\ DOMAIN delayed' = {}
      BY <2>3
    <3> QED BY <3>1 DEF Waiting, Entries, Ids, ToSet
  <2> QED BY <2>1, <2>2, <2>4 DEF ToSet
<1>5. Placement'
  <2> SUFFICES ASSUME NEW c \in Chunks PROVE One(c)'
    BY <1>0 DEF Placement, Early
  <2> QED BY <1>0, <1>4 DEF Unstarted, One
<1>6. Patient'
  BY <1>4 DEF Patient
<1> QED BY <1>1, <1>2, <1>3, <1>5, <1>6 DEF DInv

\* The download goes on.
LEMMA OnesKept ==
    ASSUME phase' \in {"running", "finished", "failed"}, \A c \in Chunks : One(c)'
    PROVE  Placement'
BY DEF Placement, Early

\* A worker is spawned on a lane.
LEMMA SpawnFacts ==
    ASSUME DInv, NEW c \in Chunks, Spawn(c), UNCHANGED probeVars
    PROVE  /\ LaneTypes' /\ BestLane \in InUse /\ BestLane # NoLane
           /\ binding' \in [Chunks -> LaneIds \cup {NoLane}]
           /\ \A d \in Chunks : binding'[d] = IF d = c THEN BestLane ELSE binding[d]
<1>1. LaneTypes /\ binding \in [Chunks -> LaneIds \cup {NoLane}]
  BY DEF DInv, MonitorTypes
<1>2. Claim /\ binding' = [binding EXCEPT ![c] = BestLane]
  BY DEF Spawn
<1>3. BestLane # NoLane /\ BestLane \in InUse /\ BestLane \in LaneIds
  BY <1>1, <1>2, BestLaneFits DEF Claim
<1>4. LaneTypes'
  BY <1>1, <1>2, LaneStep DEF probeVars
<1> QED BY <1>1, <1>2, <1>3, <1>4

\* handle_tick begins.
LEMMA TickPlaces ==
    ASSUME DInv, Tick PROVE DInv'
<1>0. /\ phase = "running" /\ step' = "drain" /\ RetryWaits(TickMs)
      /\ cool' = [l \in LaneIds |-> Left(cool[l], TickMs)]
      /\ due' = [c \in Chunks |-> Left(due[c], TickMs)]
      /\ UNCHANGED <<phase, perSource, rangeC, plainC, order, active, failures, black>>
      /\ UNCHANGED <<unborn, pending, binding, done, deferred>>
  BY DEF Tick, probeVars
<1>1. TickMs \in Nat
  BY DispatchAssumption
<1>2. /\ RetryTypes' /\ permanent' = permanent /\ Waiting' = Waiting
      /\ \A x \in Entries' : \E e \in Entries : x.id = e.id /\ x.wait = Left(e.wait, TickMs)
  BY <1>0, <1>1, WaitFacts DEF DInv
<1>3. LaneTypes'
  BY <1>0, <1>1 DEF DInv, LaneTypes, Left
<1>4. due' \in [Chunks -> Nat]
  BY <1>0, <1>1 DEF DInv, MonitorTypes, Left
<1>5. MonitorTypes'
  BY <1>0, <1>4 DEF DInv, MonitorTypes
<1>6. \A c \in Chunks : One(c)'
  BY <1>0, <1>2 DEF DInv, Placement, Early, One
<1>7. Patient'
  <2>1. ASSUME NEW x \in Entries' PROVE x.wait >= due'[x.id]
    <3>1. PICK e \in Entries : x.id = e.id /\ x.wait = Left(e.wait, TickMs)
      BY <1>2
    <3>2. e.id \in Chunks /\ e.wait \in Nat
      <4>1. e \in Entry
        BY IdsOf DEF Entries, DInv, RetryTypes
      <4> QED BY <4>1 DEF Entry
    <3>3. e.wait >= due[e.id] /\ due[e.id] \in Nat
      BY <3>2 DEF DInv, Patient, MonitorTypes
    <3>4. due'[x.id] = Left(due[e.id], TickMs)
      BY <1>0, <3>1, <3>2
    <3> QED BY <1>1, <3>1, <3>2, <3>3, <3>4 DEF Left
  <2>2. ASSUME NEW c \in ToSet(deferred) PROVE due'[c] = 0
    <3>1. due[c] = 0 /\ c \in Chunks
      BY DEF DInv, Patient, MonitorTypes, ToSet
    <3> QED BY <1>0, <1>1, <3>1 DEF Left
  <2> QED BY <1>0, <2>1, <2>2 DEF Patient
<1> QED BY <1>0, <1>2, <1>3, <1>5, <1>6, <1>7, OnesKept DEF DInv

\* drain_pending starts a buffered range.
LEMMA DrainPlaces ==
    ASSUME DInv, Drain PROVE DInv'
<1> DEFINE c == Head(pending)
<1>0. /\ phase = "running" /\ pending # <<>> /\ Spawn(c) /\ pending' = Tail(pending)
      /\ UNCHANGED probeVars
      /\ UNCHANGED <<phase, queue, delayed, attempts, total, permanent, quiet>>
      /\ UNCHANGED <<unborn, done, step, deferred, due>>
  BY DEF Drain, retryVars
<1>1. pending \in Seq(Chunks) /\ IsInjective(pending)
  BY DEF DInv, MonitorTypes
<1>2. /\ pending' \in Seq(Chunks) /\ IsInjective(pending') /\ c \in Chunks
      /\ c \in ToSet(pending) /\ ToSet(pending') = ToSet(pending) \ {c}
  BY <1>0, <1>1, Buffering
<1> HIDE DEF c
<1>3. /\ LaneTypes' /\ BestLane # NoLane /\ binding' \in [Chunks -> LaneIds \cup {NoLane}]
      /\ \A d \in Chunks : binding'[d] = IF d = c THEN BestLane ELSE binding[d]
  BY <1>0, <1>2, SpawnFacts
<1>4. RetryTypes' /\ Waiting' = Waiting /\ Entries' = Entries
  BY <1>0 DEF DInv, RetryTypes, Waiting, Entries
<1>5. MonitorTypes'
  BY <1>0, <1>2, <1>3 DEF DInv, MonitorTypes
<1>6. \A d \in Chunks : One(d)'
  BY <1>0, <1>2, <1>3, <1>4 DEF DInv, Placement, Early, One
<1>7. Patient'
  BY <1>0, <1>4 DEF DInv, Patient
<1> QED BY <1>0, <1>3, <1>4, <1>5, <1>6, <1>7, OnesKept DEF DInv

\* drain_pending ends, process_queues.
LEMMA DrainEndsPlaces ==
    ASSUME DInv, DrainEnds PROVE DInv'
<1>0. /\ phase = "running" /\ ProcessQueues /\ step' = "retry" /\ UNCHANGED probeVars
      /\ UNCHANGED laneVars \/ Refused
      /\ UNCHANGED <<phase, unborn, pending, binding, done, deferred, due>>
  BY DEF DrainEnds
<1>1. LaneTypes'
  <2>1. CASE UNCHANGED laneVars
    BY <1>0, <2>1 DEF DInv, LaneTypes, laneVars, probeVars
  <2>2. CASE Refused
    BY <1>0, <2>2, LaneStep DEF DInv, probeVars
  <2> QED BY <1>0, <2>1, <2>2
<1>2. RetryTypes' /\ permanent' = permanent /\ Waiting' = Waiting /\ Entries' \subseteq Entries
  BY <1>0, ProcessFacts DEF DInv
<1>3. MonitorTypes'
  BY <1>0 DEF DInv, MonitorTypes
<1>4. \A d \in Chunks : One(d)'
  BY <1>0, <1>2 DEF DInv, Placement, Early, One
<1>5. Patient'
  BY <1>0, <1>2 DEF DInv, Patient
<1> QED BY <1>0, <1>1, <1>2, <1>3, <1>4, <1>5, OnesKept DEF DInv

\* A ready chunk gets a worker.
LEMMA RetryStartsPlaces ==
    ASSUME DInv, RetryStarts PROVE DInv'
<1> DEFINE c == NextReady
<1>0. /\ phase = "running" /\ PopReady /\ Spawn(c) /\ UNCHANGED probeVars
      /\ UNCHANGED <<phase, unborn, pending, done, step, deferred, due>>
  BY DEF RetryStarts
<1>1. /\ RetryTypes' /\ permanent' = permanent /\ c \in Waiting /\ c \in Chunks
      /\ Waiting' = Waiting \ {c} /\ Entries' \subseteq Entries
  BY <1>0, PopReadyFacts DEF DInv, Waiting
<1> HIDE DEF c
<1>2. /\ LaneTypes' /\ BestLane # NoLane /\ binding' \in [Chunks -> LaneIds \cup {NoLane}]
      /\ \A d \in Chunks : binding'[d] = IF d = c THEN BestLane ELSE binding[d]
  BY <1>0, <1>1, SpawnFacts
<1>3. MonitorTypes'
  BY <1>0, <1>2 DEF DInv, MonitorTypes
<1>4. \A d \in Chunks : One(d)'
  BY <1>0, <1>1, <1>2 DEF DInv, Placement, Early, One
<1>5. Patient'
  BY <1>0, <1>1 DEF DInv, Patient
<1> QED BY <1>0, <1>1, <1>2, <1>3, <1>4, <1>5, OnesKept DEF DInv

\* A ready chunk finds no lane.
LEMMA RetryDeferredPlaces ==
    ASSUME DInv, RetryDeferred PROVE DInv'
<1> DEFINE c == NextReady
<1>0. /\ phase = "running" /\ PopReady /\ Refused /\ deferred' = Append(deferred, c)
      /\ UNCHANGED probeVars
      /\ UNCHANGED <<phase, unborn, pending, binding, done, step, due>>
  BY DEF RetryDeferred, Deferred
<1>1. /\ RetryTypes' /\ permanent' = permanent /\ c \in Waiting /\ c \in Chunks
      /\ \E e \in Entries : e.id = c /\ e.wait = 0
      /\ Waiting' = Waiting \ {c} /\ Entries' \subseteq Entries
  BY <1>0, PopReadyFacts DEF DInv, Waiting, Entries
<1> HIDE DEF c
<1>2. LaneTypes'
  BY <1>0, LaneStep DEF DInv, probeVars
<1>3. c \notin ToSet(deferred) /\ deferred \in Seq(Chunks) /\ IsInjective(deferred)
  BY <1>0, <1>1 DEF DInv, Placement, Early, One, MonitorTypes
<1>4. /\ deferred' \in Seq(Chunks) /\ IsInjective(deferred')
      /\ ToSet(deferred') = ToSet(deferred) \cup {c}
  BY <1>0, <1>1, <1>3, Buffering
<1>5. MonitorTypes'
  BY <1>0, <1>4 DEF DInv, MonitorTypes
<1>6. \A d \in Chunks : One(d)'
  BY <1>0, <1>1, <1>4 DEF DInv, Placement, Early, One
<1>7. due[c] = 0
  BY <1>1 DEF DInv, Patient, MonitorTypes
<1>8. Patient'
  BY <1>0, <1>1, <1>4, <1>7 DEF DInv, Patient
<1> QED BY <1>0, <1>1, <1>2, <1>5, <1>6, <1>8, OnesKept DEF DInv

\* handle_tick ends: the deferred chunks are queued again.
LEMMA TickEndsPlaces ==
    ASSUME DInv, TickEnds PROVE DInv'
<1>0. /\ phase = "running" /\ PushBack(deferred) /\ deferred' = <<>> /\ step' = "idle"
      /\ phase' \in {"running", "finished"}
      /\ UNCHANGED probeVars /\ UNCHANGED laneVars
      /\ UNCHANGED <<unborn, pending, binding, done, due>>
  BY DEF TickEnds
<1>1. deferred \in Seq(Chunks) /\ IsInjective(deferred) /\ ToSet(deferred) \subseteq Chunks
  BY DEF DInv, MonitorTypes, ToSet
<1>2. ToSet(deferred) \cap Waiting = {}
  BY <1>0, <1>1 DEF DInv, Placement, Early, One
<1>3. /\ RetryTypes' /\ permanent' = permanent /\ Waiting' = Waiting \cup ToSet(deferred)
      /\ \A e \in Entries' : e \in Entries \/ (e.id \in ToSet(deferred) /\ e.wait = 0)
  BY <1>0, <1>1, <1>2, PushBackFacts DEF DInv
<1>4. LaneTypes'
  BY <1>0 DEF DInv, LaneTypes, laneVars, probeVars
<1>5. DOMAIN deferred' = {} /\ ToSet(deferred') = {}
  <2>1. DOMAIN deferred' = {}
    BY <1>0
  <2> QED BY <2>1 DEF ToSet
<1>6. MonitorTypes'
  BY <1>0, <1>5 DEF DInv, MonitorTypes, IsInjective
<1>7. \A d \in Chunks : One(d)'
  BY <1>0, <1>3, <1>5 DEF DInv, Placement, Early, One
<1>8. Patient'
  BY <1>0, <1>3, <1>5 DEF DInv, Patient
<1> QED BY <1>0, <1>3, <1>4, <1>6, <1>7, <1>8, OnesKept DEF DInv

\* The lane of a chunk is released and the chunk has no worker any more.
LEMMA EndFacts ==
    ASSUME DInv, NEW c \in Chunks, Running(c), Unbound(c), UNCHANGED probeVars,
           Success(binding[c]) \/ Failure(binding[c])
    PROVE  /\ LaneTypes' /\ binding' \in [Chunks -> LaneIds \cup {NoLane}]
           /\ \A d \in Chunks : binding'[d] = IF d = c THEN NoLane ELSE binding[d]
           /\ c \notin Waiting /\ c \notin ToSet(deferred) /\ One(c)
<1>1. LaneTypes /\ binding \in [Chunks -> LaneIds \cup {NoLane}]
  BY DEF DInv, MonitorTypes
<1>2. phase = "running" /\ binding[c] # NoLane /\ binding' = [binding EXCEPT ![c] = NoLane]
  BY DEF Running, Unbound
<1>3. binding[c] \in LaneIds
  BY <1>1, <1>2
<1>4. LaneTypes'
  BY <1>1, <1>3, LaneStep DEF probeVars
<1>5. One(c)
  BY <1>2 DEF DInv, Placement, Early
<1> QED BY <1>1, <1>2, <1>4, <1>5 DEF One

\* DownloadComplete.
LEMMA CompletePlaces ==
    ASSUME DInv, NEW c \in Chunks, Complete(c) PROVE DInv'
<1>0. /\ phase = "running" /\ Running(c) /\ Unbound(c) /\ Success(binding[c])
      /\ attempts' = [attempts EXCEPT ![c] = 0] /\ total' = [total EXCEPT ![c] = 0]
      /\ UNCHANGED <<queue, delayed, permanent, quiet>>
      /\ done' = done \cup {c} /\ UNCHANGED probeVars
      /\ UNCHANGED <<phase, unborn, pending, step, deferred, due>>
  BY DEF Complete, Succeeded, Running
<1>1. /\ LaneTypes' /\ binding' \in [Chunks -> LaneIds \cup {NoLane}]
      /\ \A d \in Chunks : binding'[d] = IF d = c THEN NoLane ELSE binding[d]
      /\ binding[c] # NoLane
  BY <1>0, EndFacts DEF Running
<1>2. RetryTypes' /\ Waiting' = Waiting /\ Entries' = Entries
  BY <1>0 DEF DInv, RetryTypes, Waiting, Entries
<1>3. MonitorTypes'
  BY <1>0, <1>1 DEF DInv, MonitorTypes
<1>4. \A d \in Chunks : One(d)'
  BY <1>0, <1>1, <1>2 DEF DInv, Placement, Early, One
<1>5. Patient'
  BY <1>0, <1>2 DEF DInv, Patient
<1> QED BY <1>0, <1>1, <1>2, <1>3, <1>4, <1>5, OnesKept DEF DInv

\* ChunkFailed for good.
LEMMA FailsForGoodPlaces ==
    ASSUME DInv, NEW c \in Chunks, FailsForGood(c) PROVE DInv'
<1>0. /\ phase = "running" /\ Running(c) /\ Unbound(c) /\ Failure(binding[c])
      /\ permanent' = permanent \cup {c} /\ attempts' = [attempts EXCEPT ![c] = 0]
      /\ total' = total \/ total' = [total EXCEPT ![c] = @ + 1]
      /\ UNCHANGED <<queue, delayed, quiet>>
      /\ phase' = "failed" /\ UNCHANGED probeVars
      /\ UNCHANGED <<unborn, pending, done, step, deferred, due>>
  BY DEF FailsForGood, Fails, FailedForGood, FailedTooOften, GiveUp, Running
<1>1. /\ LaneTypes' /\ binding' \in [Chunks -> LaneIds \cup {NoLane}]
      /\ \A d \in Chunks : binding'[d] = IF d = c THEN NoLane ELSE binding[d]
      /\ binding[c] # NoLane
  BY <1>0, EndFacts DEF Running
<1>2. RetryTypes' /\ Waiting' = Waiting /\ Entries' = Entries
  BY <1>0 DEF DInv, RetryTypes, Waiting, Entries
<1>3. MonitorTypes'
  BY <1>0, <1>1 DEF DInv, MonitorTypes
<1>4. \A d \in Chunks : One(d)'
  BY <1>0, <1>1, <1>2 DEF DInv, Placement, Early, One
<1>5. Patient'
  BY <1>0, <1>2 DEF DInv, Patient
<1> QED BY <1>0, <1>1, <1>2, <1>3, <1>4, <1>5, OnesKept DEF DInv

\* ChunkFailed, to be tried again.
LEMMA FailsAgainPlaces ==
    ASSUME DInv, NEW c \in Chunks, FailsAgain(c) PROVE DInv'
<1> DEFINE rest == Rest(attempts[c] + 1)
<1>0. /\ phase = "running" /\ Running(c) /\ Unbound(c) /\ Failure(binding[c])
      /\ FailedAgain(c) /\ due' = [due EXCEPT ![c] = rest]
      /\ UNCHANGED probeVars
      /\ UNCHANGED <<phase, unborn, pending, done, step, deferred>>
  BY DEF FailsAgain, Fails, Running
<1>1. /\ LaneTypes' /\ binding' \in [Chunks -> LaneIds \cup {NoLane}]
      /\ \A d \in Chunks : binding'[d] = IF d = c THEN NoLane ELSE binding[d]
      /\ binding[c] # NoLane /\ c \notin Waiting /\ c \notin ToSet(deferred)
  BY <1>0, EndFacts DEF Running
<1>2. /\ RetryTypes' /\ permanent' = permanent /\ Waiting' = Waiting \cup {c} /\ rest \in Nat
      /\ \A x \in Entries' : x \in Entries \/ (x.id = c /\ x.wait >= rest)
  BY <1>0, <1>1, FailedAgainFacts DEF DInv
<1> HIDE DEF rest
<1>3. due' \in [Chunks -> Nat] /\ \A d \in Chunks : due'[d] = IF d = c THEN rest ELSE due[d]
  BY <1>0, <1>2 DEF DInv, MonitorTypes
<1>4. MonitorTypes'
  BY <1>0, <1>1, <1>3 DEF DInv, MonitorTypes
<1>5. \A d \in Chunks : One(d)'
  BY <1>0, <1>1, <1>2 DEF DInv, Placement, Early, One
<1>6. Patient'
  <2>1. ASSUME NEW x \in Entries' PROVE x.wait >= due'[x.id]
    <3>1. CASE x.id = c /\ x.wait >= rest
      BY <3>1, <1>3
    <3>2. CASE x \in Entries
      <4>1. x.id \in Waiting /\ x.id \in Chunks
        BY <3>2, IdsOf DEF Entries, Waiting, DInv, RetryTypes
      <4> QED BY <3>2, <4>1, <1>1, <1>3 DEF DInv, Patient
    <3> QED BY <3>1, <3>2, <1>2
  <2>2. ASSUME NEW d \in ToSet(deferred) PROVE due'[d] = 0
    <3>1. d \in Chunks /\ d # c /\ due[d] = 0
      BY <1>1 DEF DInv, MonitorTypes, Patient, ToSet
    <3> QED BY <3>1, <1>3
  <2> QED BY <1>0, <2>1, <2>2 DEF Patient
<1> QED BY <1>0, <1>1, <1>2, <1>4, <1>5, <1>6, OnesKept DEF DInv

\* ChunkBisected.
LEMMA SplitPlaces ==
    ASSUME DInv, NEW c \in Chunks, NEW n \in Chunks, Split(c, n) PROVE DInv'
<1>0. /\ phase = "running" /\ n \in unborn /\ unborn' = unborn \ {n}
      /\ \/ Spawn(n) /\ pending' = pending
         \/ Refused /\ pending' = Append(pending, n) /\ binding' = binding
      /\ UNCHANGED probeVars
      /\ UNCHANGED <<phase, queue, delayed, attempts, total, permanent, quiet>>
      /\ UNCHANGED <<done, step, deferred, due>>
  BY DEF Split, Running, Buffered, retryVars
<1>1. RetryTypes' /\ Waiting' = Waiting /\ Entries' = Entries
  BY <1>0 DEF DInv, RetryTypes, Waiting, Entries
<1>2. Patient'
  BY <1>0, <1>1 DEF DInv, Patient
<1>3. CASE Spawn(n) /\ pending' = pending
  <2>1. /\ LaneTypes' /\ BestLane # NoLane /\ binding' \in [Chunks -> LaneIds \cup {NoLane}]
        /\ \A d \in Chunks : binding'[d] = IF d = n THEN BestLane ELSE binding[d]
    BY <1>0, <1>3, SpawnFacts
  <2>2. MonitorTypes'
    BY <1>0, <1>3, <2>1 DEF DInv, MonitorTypes
  <2>3. \A d \in Chunks : One(d)'
    BY <1>0, <1>1, <1>3, <2>1 DEF DInv, Placement, Early, One
  <2> QED BY <1>0, <1>1, <1>2, <2>1, <2>2, <2>3, OnesKept DEF DInv
<1>4. CASE Refused /\ pending' = Append(pending, n) /\ binding' = binding
  <2>1. n \notin ToSet(pending) /\ pending \in Seq(Chunks) /\ IsInjective(pending)
    BY <1>0 DEF DInv, Placement, Early, One, MonitorTypes
  <2>2. /\ pending' \in Seq(Chunks) /\ IsInjective(pending')
        /\ ToSet(pending') = ToSet(pending) \cup {n}
    BY <1>4, <2>1, Buffering
  <2>3. LaneTypes'
    BY <1>0, <1>4, LaneStep DEF DInv, probeVars
  <2>4. MonitorTypes'
    BY <1>0, <1>4, <2>2 DEF DInv, MonitorTypes
  <2>5. \A d \in Chunks : One(d)'
    BY <1>0, <1>1, <1>4, <2>2 DEF DInv, Placement, Early, One
  <2> QED BY <1>0, <1>1, <1>2, <2>3, <2>4, <2>5, OnesKept DEF DInv
<1> QED BY <1>0, <1>3, <1>4

\* Every step keeps the invariant.
LEMMA DispatchNext == DInv /\ [Next]_vars => DInv'
<1> SUFFICES ASSUME DInv, [Next]_vars PROVE DInv'
  OBVIOUS
<1>1. CASE UNCHANGED vars
  <2>1. LaneTypes' /\ RetryTypes' /\ MonitorTypes'
    BY <1>1 DEF vars, probeVars, laneVars, retryVars, monitorVars, DInv, LaneTypes, RetryTypes,
                MonitorTypes
  <2>2. UNCHANGED <<phase, queue, delayed, permanent, unborn, pending, binding, done, deferred, due>>
    BY <1>1 DEF vars, retryVars, monitorVars
  <2>3. Placement' /\ Patient'
    BY <2>2 DEF DInv, Placement, Early, Unstarted, One, Waiting, Patient, Entries
  <2> QED BY <2>1, <2>3 DEF DInv
<1>2. CASE Next
  <2>1. CASE Over
    BY <2>1, <1>1 DEF Over
  <2>2. CASE Monitor
    BY <2>2, StartPlaces, TickPlaces, DrainPlaces, DrainEndsPlaces, RetryStartsPlaces,
       RetryDeferredPlaces, TickEndsPlaces DEF Monitor
  <2>3. ASSUME NEW c \in Chunks, Ends(c) PROVE DInv'
    BY <2>3, CompletePlaces, FailsForGoodPlaces, FailsAgainPlaces DEF Ends
  <2> QED BY <1>2, <2>1, <2>2, <2>3, ProbingPlaces, SplitPlaces DEF Next
<1> QED BY <1>1, <1>2

\* The lanes, the retry queues and the monitor's tables keep their types, every
\* chunk is in one place, and none waits less than its back-off.
THEOREM DispatchInvariant == Spec => []DInv
BY DispatchInit, DispatchNext, PTL DEF Spec

\* The types of the state.
THEOREM DispatchTypes == Spec => []TypeOK
<1>1. DInv => TypeOK
  BY DEF DInv, TypeOK, LaneTypes, RetryTypes, MonitorTypes
<1> QED BY <1>1, DispatchInvariant, PTL

\* Through starts, splits, failures, retries, deferrals and the moves between the
\* queues no chunk is lost and none is in two places.
THEOREM ChunksPlacedOnce == Spec => []OnePlace
<1>1. DInv => OnePlace
  <2> SUFFICES ASSUME DInv, phase \in {"running", "finished", "failed"} PROVE
                  /\ \A c \in Chunks : Cardinality({k \in 1 .. 8 : Places(c)[k]}) = 1
                  /\ ~Twice(queue) /\ ~Twice(delayed)
                  /\ IsInjective(pending) /\ IsInjective(deferred)
    BY DEF OnePlace
  <2>1. IsInjective(pending) /\ IsInjective(deferred)
    BY DEF DInv, MonitorTypes
  <2>2. ~Twice(queue) /\ ~Twice(delayed)
    BY DEF DInv, RetryTypes, Once, Twice
  <2>3. ASSUME NEW c \in Chunks PROVE Cardinality({k \in 1 .. 8 : Places(c)[k]}) = 1
    <3> DEFINE K == {k \in 1 .. 8 : Places(c)[k]}
    <3>1. One(c) /\ Ids(queue) \cap Ids(delayed) = {}
      BY DEF DInv, Placement, Early, RetryTypes
    <3>2. \E i \in 1 .. 8 : K = {i}
      <4>1. \A k \in 1 .. 8 : k \in K <=> Places(c)[k]
        OBVIOUS
      <4>2. /\ Places(c)[1] <=> c \in unborn
            /\ Places(c)[2] <=> c \in ToSet(pending)
            /\ Places(c)[3] <=> binding[c] # NoLane
            /\ Places(c)[4] <=> c \in Ids(queue)
            /\ Places(c)[5] <=> c \in Ids(delayed)
            /\ Places(c)[6] <=> c \in ToSet(deferred)
            /\ Places(c)[7] <=> c \in done
            /\ Places(c)[8] <=> c \in permanent
        BY DEF Places
      <4>3. /\ 1 \in K <=> c \in unborn
            /\ 2 \in K <=> c \in ToSet(pending)
            /\ 3 \in K <=> binding[c] # NoLane
            /\ 4 \in K <=> c \in Ids(queue)
            /\ 5 \in K <=> c \in Ids(delayed)
            /\ 6 \in K <=> c \in ToSet(deferred)
            /\ 7 \in K <=> c \in done
            /\ 8 \in K <=> c \in permanent
            /\ K \subseteq 1 .. 8
        BY <4>1, <4>2
      <4> HIDE DEF K
      <4>4. \E i \in 1 .. 8 : i \in K
        BY <3>1, <4>3 DEF One, Waiting
      <4>5. \A i, j \in 1 .. 8 : i \in K /\ j \in K => i = j
        BY <3>1, <4>3 DEF One, Waiting
      <4> QED BY <4>3, <4>4, <4>5
    <3> HIDE DEF K
    <3>3. Cardinality(K) = 1
      BY <3>2, FS_Singleton
    <3> QED BY <3>3 DEF K
  <2> QED BY <2>1, <2>2, <2>3
<1> QED BY <1>1, DispatchInvariant, PTL
-----------------------------------------------------------------------------
(* Who gets a worker, and on which lane *)

\* A chunk that gets a worker was buffered, split off just now, or waited until
\* its time had come; its lane is the one best_lane found.
LEMMA Assigned ==
    ASSUME DInv, [Next]_vars, NEW c \in Chunks, binding[c] = NoLane, binding'[c] # NoLane
    PROVE  /\ Claim /\ binding'[c] = BestLane
           /\ \/ c \in ToSet(pending) \/ c \in unborn
              \/ \E e \in ToSet(queue) : e.id = c /\ e.wait = 0
<1>0. binding \in [Chunks -> LaneIds \cup {NoLane}] /\ pending \in Seq(Chunks) /\ RetryTypes
      /\ IsInjective(pending)
  BY DEF DInv, MonitorTypes
<1>1. ASSUME NEW d \in Chunks, Spawn(d) PROVE d = c /\ Claim /\ binding'[c] = BestLane
  BY <1>0, <1>1 DEF Spawn
<1>2. CASE Drain
  <2>1. Spawn(Head(pending)) /\ Head(pending) \in Chunks /\ Head(pending) \in ToSet(pending)
    BY <1>0, <1>2, Buffering DEF Drain
  <2> QED BY <2>1, <1>1
<1>3. CASE RetryStarts
  <2>1. PopReady /\ Spawn(NextReady)
    BY <1>3 DEF RetryStarts
  <2>2. NextReady \in Chunks /\ \E e \in ToSet(queue) : e.id = NextReady /\ e.wait = 0
    BY <1>0, <2>1, PopReadyFacts
  <2> QED BY <2>1, <2>2, <1>1
<1>4. ASSUME NEW d \in Chunks, NEW n \in Chunks, Split(d, n)
      PROVE  c \in unborn /\ Claim /\ binding'[c] = BestLane
  <2>1. Spawn(n) /\ n \in unborn
    BY <1>4 DEF Split
  <2> QED BY <2>1, <1>1
<1>5. ASSUME NEW d \in Chunks, Ends(d) PROVE FALSE
  <2>1. binding' = [binding EXCEPT ![d] = NoLane]
    BY <1>5 DEF Ends, Complete, FailsForGood, FailsAgain, Fails, Unbound
  <2> QED BY <2>1, <1>0
<1>6. CASE UNCHANGED binding
  BY <1>6
<1>7. CASE Probing \/ Start \/ Tick \/ DrainEnds \/ RetryDeferred \/ TickEnds \/ Over
           \/ UNCHANGED vars
  BY <1>6, <1>7 DEF Probing, Start, Tick, DrainEnds, RetryDeferred, TickEnds, Over, vars,
                    monitorVars
<1> QED BY <1>2, <1>3, <1>4, <1>5, <1>7 DEF Next, Monitor

\* Deferred for want of a lane, moved between the queues or pushed back: a chunk
\* that waits for its retry is not tried before retry_delay, or the delayed
\* queue's rest, has passed since its failure.
THEOREM BackOffIsKept == Spec => BackOffKept
<1>1. DInv /\ [Next]_vars =>
         [\A c \in Chunks : c \in Ids(queue) /\ binding'[c] # NoLane => due[c] = 0]_vars
  <2> SUFFICES ASSUME DInv, [Next]_vars, NEW c \in Chunks, c \in Ids(queue), binding'[c] # NoLane
               PROVE  due[c] = 0
    OBVIOUS
  <2>1. ~Early
    <3>1. CASE Early
      <4>1. DOMAIN queue = {}
        BY <3>1 DEF DInv, Placement, Unstarted
      <4> QED BY <4>1 DEF Ids
    <3> QED BY <3>1
  <2>2. binding[c] = NoLane /\ c \notin ToSet(pending) /\ c \notin unborn
    BY <2>1 DEF DInv, Placement, One, Waiting
  <2>3. PICK e \in ToSet(queue) : e.id = c /\ e.wait = 0
    BY <2>2, Assigned
  <2>4. 0 >= due[c] /\ due[c] \in Nat
    BY <2>3 DEF DInv, Patient, Entries, MonitorTypes
  <2> QED BY <2>4
<1> QED BY <1>1, DispatchInvariant, PTL DEF Spec, BackOffKept

\* Blacklisted lanes serve only when no healthy lane has room, and a retry is put
\* off only when no lane at all has room.
THEOREM HealthyLanesFirst == Spec => HealthyFirst
<1> DEFINE Fair == /\ \A c \in Chunks : binding[c] = NoLane /\ binding'[c] # NoLane
                                        /\ Banned(binding'[c]) =>
                          \A l \in InUse : HasCapacity(l) => Banned(l)
                   /\ deferred' # deferred /\ deferred' # <<>> =>
                          \A l \in InUse : ~HasCapacity(l)
<1>1. DInv /\ [Next]_vars => [Fair]_vars
  <2> SUFFICES ASSUME DInv, [Next]_vars PROVE Fair
    OBVIOUS
  <2>0. LaneTypes /\ InUse \subseteq LaneIds
    BY BestLaneFits DEF DInv
  <2>1. \A l \in LaneIds : Banned(l) <=> StillBlack(l)
    BY <2>0 DEF LaneTypes, Banned, StillBlack, Expired
  <2>2. ASSUME NEW c \in Chunks, binding[c] = NoLane, binding'[c] # NoLane, Banned(binding'[c])
        PROVE  \A l \in InUse : HasCapacity(l) => Banned(l)
    <3>1. BestLane # NoLane /\ binding'[c] = BestLane
      BY <2>2, Assigned DEF Claim
    <3>2. BestLane \in InUse /\ StillBlack(BestLane)
      BY <2>0, <2>1, <2>2, <3>1, BestLaneFits
    <3> QED BY <2>0, <2>1, <3>1, <3>2, BestLaneFits
  <2>3. ASSUME deferred' # deferred, deferred' # <<>> PROVE \A l \in InUse : ~HasCapacity(l)
    <3>1. RetryDeferred
      BY <2>3 DEF Next, Probing, Monitor, Start, Tick, Drain, DrainEnds, RetryStarts, TickEnds,
                  Ends, Complete, FailsForGood, FailsAgain, Fails, Split, Over, vars, monitorVars
    <3>2. BestLane = NoLane
      BY <3>1 DEF RetryDeferred, Refused
    <3> QED BY <2>0, <3>2, BestLaneFits
  <2> QED BY <2>2, <2>3
<1> QED BY <1>1, DispatchInvariant, PTL DEF Spec, HealthyFirst
-----------------------------------------------------------------------------
(* The scheduler's counters *)

\* The slots of some lanes under the counters a.
SlotsOf(a, S) == UNION {{l} \X (1 .. a[l]) : l \in S}

\* What is a slot.
LEMMA SlotMembers ==
    ASSUME NEW S, NEW a
    PROVE  \A x : x \in SlotsOf(a, S) <=> \E l \in S : \E k \in 1 .. a[l] : x = <<l, k>>
<1> SUFFICES ASSUME NEW x PROVE x \in SlotsOf(a, S) <=> \E l \in S : \E k \in 1 .. a[l] : x = <<l, k>>
  OBVIOUS
<1>1. x \in SlotsOf(a, S) <=> \E l \in S : x \in {l} \X (1 .. a[l])
  BY DEF SlotsOf
<1>2. ASSUME NEW l PROVE x \in {l} \X (1 .. a[l]) <=> \E k \in 1 .. a[l] : x = <<l, k>>
  OBVIOUS
<1> QED BY <1>1, <1>2

\* A claim takes one slot.
LEMMA OneSlotMore ==
    ASSUME active \in [LaneIds -> Nat], NEW l \in LaneIds, NEW S \in SUBSET LaneIds,
           IsFiniteSet(SlotsOf(active, S)),
           active'[l] = active[l] + 1, \A m \in LaneIds : m # l => active'[m] = active[m]
    PROVE  /\ IsFiniteSet(SlotsOf(active', S))
           /\ Cardinality(SlotsOf(active', S)) =
                 Cardinality(SlotsOf(active, S)) + (IF l \in S THEN 1 ELSE 0)
<1> DEFINE x == <<l, active[l] + 1>>
<1>0. Cardinality(SlotsOf(active, S)) \in Nat
  BY FS_CardinalityType
<1>1. active[l] \in Nat /\ active'[l] = active[l] + 1 /\ \A m \in LaneIds : m # l => active'[m] = active[m]
  OBVIOUS
<1>2. CASE l \notin S
  <2>1. SlotsOf(active', S) = SlotsOf(active, S)
    BY <1>1, <1>2 DEF SlotsOf
  <2> QED BY <2>1, <1>0, <1>2
<1>3. CASE l \in S
  <2>1. x \notin SlotsOf(active, S)
    <3>1. ASSUME NEW m \in S, NEW k \in 1 .. active[m], x = <<m, k>> PROVE FALSE
      <4>1. m = l /\ k = active[l] + 1
        BY <3>1
      <4> QED BY <4>1, <1>1
    <3> QED BY <3>1, SlotMembers
  <2>2. SlotsOf(active', S) = SlotsOf(active, S) \cup {x}
    <3>1. ASSUME NEW y \in SlotsOf(active', S) PROVE y \in SlotsOf(active, S) \cup {x}
      <4>0. PICK m \in S : \E k \in 1 .. active'[m] : y = <<m, k>>
        BY <3>1, SlotMembers
      <4>1. PICK k \in 1 .. active'[m] : y = <<m, k>>
        BY <4>0
      <4>2. (m = l /\ k = active[l] + 1) \/ k \in 1 .. active[m]
        BY <1>1, <4>1
      <4> QED BY <4>1, <4>2, SlotMembers
    <3>2. ASSUME NEW y \in SlotsOf(active, S) PROVE y \in SlotsOf(active', S)
      <4>0. PICK m \in S : \E k \in 1 .. active[m] : y = <<m, k>>
        BY <3>2, SlotMembers
      <4>1. PICK k \in 1 .. active[m] : y = <<m, k>>
        BY <4>0
      <4>2. k \in 1 .. active'[m]
        BY <1>1, <4>1
      <4> QED BY <4>1, <4>2, SlotMembers
    <3>3. x \in SlotsOf(active', S)
      <4>1. active[l] + 1 \in 1 .. active'[l]
        BY <1>1
      <4> QED BY <1>3, <4>1, SlotMembers
    <3> QED BY <3>1, <3>2, <3>3
  <2> DEFINE A == SlotsOf(active, S)
  <2> HIDE DEF x, A
  <2>3. IsFiniteSet(A \cup {x}) /\ Cardinality(A \cup {x}) = Cardinality(A) + 1
    BY <2>1, FS_AddElement DEF A
  <2> QED BY <2>2, <2>3, <1>3 DEF A
<1> QED BY <1>2, <1>3

\* A release gives one back, if there is one.
LEMMA OneSlotLess ==
    ASSUME active \in [LaneIds -> Nat], NEW l \in LaneIds, active[l] > 0, NEW S \in SUBSET LaneIds,
           IsFiniteSet(SlotsOf(active, S)),
           active'[l] = active[l] - 1, \A m \in LaneIds : m # l => active'[m] = active[m]
    PROVE  /\ IsFiniteSet(SlotsOf(active', S))
           /\ Cardinality(SlotsOf(active', S)) =
                 Cardinality(SlotsOf(active, S)) - (IF l \in S THEN 1 ELSE 0)
<1> DEFINE x == <<l, active[l]>>
<1>0. Cardinality(SlotsOf(active, S)) \in Nat
  BY FS_CardinalityType
<1>1. active[l] \in Nat /\ active'[l] = active[l] - 1 /\ \A m \in LaneIds : m # l => active'[m] = active[m]
  OBVIOUS
<1>2. CASE l \notin S
  <2>1. SlotsOf(active', S) = SlotsOf(active, S)
    BY <1>1, <1>2 DEF SlotsOf
  <2> QED BY <2>1, <1>0, <1>2
<1>3. CASE l \in S
  <2>1. x \in SlotsOf(active, S)
    <3>1. active[l] \in 1 .. active[l]
      BY <1>1
    <3> QED BY <1>3, <3>1, SlotMembers
  <2>2. SlotsOf(active', S) = SlotsOf(active, S) \ {x}
    <3>1. ASSUME NEW y \in SlotsOf(active', S) PROVE y \in SlotsOf(active, S) /\ y # x
      <4>0. PICK m \in S : \E k \in 1 .. active'[m] : y = <<m, k>>
        BY <3>1, SlotMembers
      <4>1. PICK k \in 1 .. active'[m] : y = <<m, k>>
        BY <4>0
      <4>2. k \in 1 .. active[m] /\ ~(m = l /\ k = active[l])
        BY <1>1, <4>1
      <4> QED BY <4>1, <4>2, SlotMembers
    <3>2. ASSUME NEW y \in SlotsOf(active, S), y # x PROVE y \in SlotsOf(active', S)
      <4>0. PICK m \in S : \E k \in 1 .. active[m] : y = <<m, k>>
        BY <3>2, SlotMembers
      <4>1. PICK k \in 1 .. active[m] : y = <<m, k>>
        BY <4>0
      <4>2. k \in 1 .. active'[m]
        BY <1>1, <4>1, <3>2
      <4> QED BY <4>1, <4>2, SlotMembers
    <3> QED BY <3>1, <3>2
  <2> DEFINE A == SlotsOf(active, S)
  <2> HIDE DEF x, A
  <2>3. IsFiniteSet(A \ {x}) /\ Cardinality(A \ {x}) = Cardinality(A) - 1
    BY <2>1, FS_RemoveElement DEF A
  <2> QED BY <2>2, <2>3, <1>3 DEF A
<1> QED BY <1>2, <1>3

\* The slots of one lane are as many as its counter says.
LEMMA LaneSlots ==
    ASSUME NEW a \in [LaneIds -> Nat], NEW l \in LaneIds
    PROVE  Cardinality(SlotsOf(a, {l})) = a[l]
<1>1. SlotsOf(a, {l}) = {l} \X (1 .. a[l])
  BY DEF SlotsOf
<1>2. IsFiniteSet({l}) /\ Cardinality({l}) = 1
  BY FS_Singleton
<1>3. a[l] \in Nat /\ IsFiniteSet(1 .. a[l]) /\ Cardinality(1 .. a[l]) = a[l]
  BY FS_Interval
<1>4. Cardinality({l} \X (1 .. a[l])) = Cardinality({l}) * Cardinality(1 .. a[l])
  BY <1>2, <1>3, FS_Product
<1>5. Cardinality(SlotsOf(a, {l})) = 1 * a[l]
  BY <1>1, <1>2, <1>3, <1>4, Zenon
<1> QED BY <1>3, <1>5

\* The chunks that lanes of S serve under the bindings b.
FedBy(b, S) == {c \in Chunks : b[c] \in S}

\* They are finitely many, and a binding changes their number by one.
LEMMA FedFinite ==
    ASSUME NEW b, NEW S
    PROVE  IsFiniteSet(FedBy(b, S)) /\ Cardinality(FedBy(b, S)) \in Nat
<1>1. FedBy(b, S) \in SUBSET Chunks /\ IsFiniteSet(Chunks)
  BY DispatchAssumption DEF FedBy
<1>2. IsFiniteSet(FedBy(b, S))
  BY <1>1, FS_Subset
<1> QED BY <1>2, FS_CardinalityType

\* A chunk gets a worker.
LEMMA OneFedMore ==
    ASSUME NEW c \in Chunks, NEW l \in LaneIds, NEW S \in SUBSET LaneIds, binding[c] = NoLane,
           \A x \in Chunks : binding'[x] = IF x = c THEN l ELSE binding[x]
    PROVE  Cardinality(FedBy(binding', S)) =
              Cardinality(FedBy(binding, S)) + (IF l \in S THEN 1 ELSE 0)
<1> DEFINE F == FedBy(binding, S)
<1>0. c \notin F /\ IsFiniteSet(F) /\ Cardinality(F) \in Nat
  BY FedFinite, LanesAssumption DEF FedBy
<1>1. CASE l \in S
  <2>1. FedBy(binding', S) = F \cup {c}
    BY <1>1 DEF FedBy
  <2> QED BY <1>0, <1>1, <2>1, FS_AddElement
<1>2. CASE l \notin S
  <2>1. FedBy(binding', S) = F
    BY <1>0, <1>2 DEF FedBy
  <2> QED BY <1>0, <1>2, <2>1
<1> QED BY <1>1, <1>2

\* A chunk loses its worker.
LEMMA OneFedLess ==
    ASSUME NEW c \in Chunks, NEW l \in LaneIds, NEW S \in SUBSET LaneIds, binding[c] = l,
           \A x \in Chunks : binding'[x] = IF x = c THEN NoLane ELSE binding[x]
    PROVE  /\ Cardinality(FedBy(binding', S)) =
                 Cardinality(FedBy(binding, S)) - (IF l \in S THEN 1 ELSE 0)
           /\ l \in S => Cardinality(FedBy(binding, S)) > 0
<1> DEFINE F == FedBy(binding, S)
<1>0. IsFiniteSet(F) /\ Cardinality(F) \in Nat
  BY FedFinite
<1>1. CASE l \in S
  <2>1. FedBy(binding', S) = F \ {c} /\ c \in F
    BY <1>1, LanesAssumption DEF FedBy
  <2>2. Cardinality(F) # 0
    BY <1>0, <2>1, FS_EmptySet
  <2>3. Cardinality(F \ {c}) = Cardinality(F) - 1
    BY <1>0, <2>1, FS_RemoveElement
  <2>4. Cardinality(F) > 0
    BY <1>0, <2>2
  <2>5. Cardinality(FedBy(binding', S)) = Cardinality(F) - 1
    BY <2>1, <2>3, Zenon
  <2> QED BY <1>1, <2>4, <2>5
<1>2. CASE l \notin S
  <2>1. FedBy(binding', S) = F
    BY <1>2, LanesAssumption DEF FedBy
  <2> QED BY <1>0, <1>2, <2>1
<1> QED BY <1>1, <1>2

\* What a step does to the counters: nothing, before the download starts nothing
\* but to sort the lanes, or it takes or gives back one slot with one binding.
Takes(c) ==
    /\ binding[c] = NoLane /\ BestLane \in InUse /\ HasCapacity(BestLane)
    /\ active' = [active EXCEPT ![BestLane] = @ + 1]
    /\ binding' = [binding EXCEPT ![c] = BestLane]
    /\ UNCHANGED <<order, perSource>>
Gives(c) ==
    /\ binding[c] \in LaneIds
    /\ active' = Released(binding[c])
    /\ binding' = [binding EXCEPT ![c] = NoLane]
    /\ UNCHANGED <<order, perSource>>

\* There are no other steps.
LEMMA SlotSteps ==
    ASSUME DInv, [Next]_vars
    PROVE  \/ UNCHANGED <<active, binding, order, perSource>>
           \/ phase = "probing" /\ UNCHANGED <<active, binding, perSource>>
           \/ \E c \in Chunks : Takes(c) \/ Gives(c)
<1>0. /\ LaneTypes /\ binding \in [Chunks -> LaneIds \cup {NoLane}] /\ pending \in Seq(Chunks)
      /\ IsInjective(pending) /\ RetryTypes
  BY DEF DInv, MonitorTypes
<1>1. CASE Probing
  <2>1. phase = "probing" /\ UNCHANGED <<active, perSource>>
    BY <1>1 DEF Probing, Probe, ProbedRange, ProbedPlain, ProbedSkipped, ProbeFailed, Answered,
                Build, NoSources, laneVars, probeVars
  <2> QED BY <1>1, <2>1 DEF Probing, monitorVars
<1>2. ASSUME NEW c \in Chunks, Spawn(c), UNCHANGED perSource, binding[c] = NoLane
      PROVE  Takes(c)
  <2>1. BestLane \in InUse /\ HasCapacity(BestLane)
    BY <1>0, <1>2, BestLaneFits DEF Spawn, Claim
  <2> QED BY <1>2, <2>1 DEF Spawn, Claim, Decay, Takes
<1>3. CASE Start \/ Tick \/ TickEnds \/ Over \/ UNCHANGED vars
  BY <1>3 DEF Start, Forget, Tick, TickEnds, Over, vars, probeVars, laneVars, monitorVars
<1>4. CASE DrainEnds \/ RetryDeferred
  BY <1>4 DEF DrainEnds, RetryDeferred, Refused, Decay, probeVars, laneVars
<1>5. CASE Drain
  <2>1. /\ Head(pending) \in Chunks /\ Head(pending) \in ToSet(pending) /\ phase = "running"
        /\ Spawn(Head(pending)) /\ UNCHANGED perSource
    BY <1>0, <1>5, Buffering DEF Drain, probeVars
  <2>2. binding[Head(pending)] = NoLane
    BY <2>1 DEF DInv, Placement, Early, One
  <2> QED BY <2>1, <2>2, <1>2
<1>6. CASE RetryStarts
  <2>1. phase = "running" /\ PopReady /\ Spawn(NextReady) /\ UNCHANGED perSource
    BY <1>6 DEF RetryStarts, probeVars
  <2>2. NextReady \in Chunks /\ NextReady \in Waiting
    BY <1>0, <2>1, PopReadyFacts DEF Waiting
  <2>3. binding[NextReady] = NoLane
    BY <2>1, <2>2 DEF DInv, Placement, Early, One
  <2> QED BY <2>1, <2>2, <2>3, <1>2
<1>7. ASSUME NEW c \in Chunks, NEW n \in Chunks, Split(c, n)
      PROVE  UNCHANGED <<active, binding, order, perSource>> \/ Takes(n)
  <2>1. phase = "running" /\ n \in unborn /\ UNCHANGED perSource
    BY <1>7 DEF Split, Running, probeVars
  <2>2. binding[n] = NoLane
    BY <2>1 DEF DInv, Placement, Early, One
  <2>3. CASE Spawn(n)
    BY <2>1, <2>2, <2>3, <1>2
  <2>4. CASE Refused /\ UNCHANGED binding
    BY <2>1, <2>4 DEF Refused, Decay
  <2> QED BY <1>7, <2>3, <2>4 DEF Split
<1>8. ASSUME NEW c \in Chunks, Ends(c) PROVE Gives(c)
  <2>1. /\ binding[c] # NoLane /\ UNCHANGED perSource
        /\ Success(binding[c]) \/ Failure(binding[c])
        /\ binding' = [binding EXCEPT ![c] = NoLane]
    BY <1>8 DEF Ends, Complete, FailsForGood, FailsAgain, Fails, Running, Unbound, probeVars
  <2> QED BY <1>0, <2>1 DEF Success, Failure, Gives
<1> QED BY <1>1, <1>3, <1>4, <1>5, <1>6, <1>7, <1>8 DEF Next, Monitor

\* Every worker is on a lane in use; for any set of lanes the slots in use are the
\* workers; and the limits hold.
SlotInv ==
    /\ \A c \in Chunks : binding[c] \in InUse \cup {NoLane}
    /\ \A S \in SUBSET LaneIds :
          IsFiniteSet(Slots(S)) /\ Cardinality(Slots(S)) = Cardinality(FedBy(binding, S))
    /\ \A l \in LaneIds : Cardinality(FedBy(binding, {l})) <= LaneMax
    /\ Cardinality(FedBy(binding, LaneIds)) <= MaxWorkers
    /\ perSource => \A l \in InUse :
          Cardinality(FedBy(binding, {m \in LaneIds : m[1] = l[1]})) <= SourceMax

\* Without workers there is nothing to count.
LEMMA NoWorkers ==
    ASSUME \A c \in Chunks : binding[c] = NoLane, NEW S \in SUBSET LaneIds
    PROVE  Cardinality(FedBy(binding, S)) = 0
<1>1. FedBy(binding, S) = {}
  BY LanesAssumption DEF FedBy
<1> QED BY <1>1, FS_EmptySet

\* The counters start at zero.
LEMMA SlotInit == Init => SlotInv
<1> SUFFICES ASSUME Init PROVE SlotInv
  OBVIOUS
<1>1. /\ \A c \in Chunks : binding[c] = NoLane
      /\ active = [l \in LaneIds |-> 0]
  BY DEF Init, ProbeInit
<1>2. ASSUME NEW S \in SUBSET LaneIds
      PROVE  IsFiniteSet(Slots(S)) /\ Cardinality(Slots(S)) = 0
  <2>1. \A l \in S : 1 .. active[l] = {}
    BY <1>1
  <2>2. Slots(S) = {}
    BY <2>1 DEF Slots
  <2> QED BY <2>2, FS_EmptySet
<1>3. \A S \in SUBSET LaneIds : Cardinality(FedBy(binding, S)) = 0
  BY <1>1, NoWorkers
<1>4. \A l \in LaneIds : Cardinality(FedBy(binding, {l})) <= LaneMax
  BY <1>3, LanesAssumption
<1>5. Cardinality(FedBy(binding, LaneIds)) <= MaxWorkers
  BY <1>3, LanesAssumption
<1>6. \A l : Cardinality(FedBy(binding, {m \in LaneIds : m[1] = l[1]})) <= SourceMax
  BY <1>3, LanesAssumption
<1> QED BY <1>1, <1>2, <1>3, <1>4, <1>5, <1>6 DEF SlotInv

\* Only what is in use is served, so it does not matter which other lanes are
\* looked at.
LEMMA FedInUse ==
    ASSUME LaneTypes, \A c \in Chunks : binding[c] \in InUse \cup {NoLane}, NEW S \in SUBSET LaneIds
    PROVE  FedBy(binding, S) = FedBy(binding, S \cap InUse)
BY LanesAssumption DEF FedBy

\* A claim.
LEMMA TakesKeeps ==
    ASSUME DInv, SlotInv, NEW c \in Chunks, Takes(c) PROVE SlotInv'
<1> DEFINE l == BestLane
           Of(m) == {k \in LaneIds : k[1] = m[1]}
           More(S) == Cardinality(FedBy(binding, S)) + (IF l \in S THEN 1 ELSE 0)
<1>0. /\ LaneTypes /\ binding \in [Chunks -> LaneIds \cup {NoLane}] /\ l \in InUse /\ l \in LaneIds
      /\ active \in [LaneIds -> Nat] /\ InUse \subseteq LaneIds
      /\ binding[c] = NoLane /\ binding' = [binding EXCEPT ![c] = l]
      /\ active' = [active EXCEPT ![l] = @ + 1]
      /\ UNCHANGED <<order, perSource>> /\ InUse' = InUse
  BY BestLaneFits DEF DInv, LaneTypes, MonitorTypes, Takes, InUse
<1>1. /\ Cardinality(Slots(InUse)) < MaxWorkers /\ active[l] < LaneMax
      /\ perSource => Cardinality(Slots({m \in InUse : m[1] = l[1]})) < SourceMax
  BY DEF Takes, HasCapacity, TotalActive, SourceActive
<1> HIDE DEF l
<1>2. ASSUME NEW S \in SUBSET LaneIds
      PROVE  /\ Cardinality(FedBy(binding', S)) = More(S)
             /\ Cardinality(FedBy(binding, S)) \in Nat
  <2>1. \A x \in Chunks : binding'[x] = IF x = c THEN l ELSE binding[x]
    BY <1>0
  <2>2. Cardinality(FedBy(binding', S)) = More(S)
    BY <1>0, <2>1, OneFedMore
  <2> QED BY <2>2, FedFinite
<1>3. ASSUME NEW S \in SUBSET LaneIds
      PROVE  IsFiniteSet(Slots(S)') /\ Cardinality(Slots(S)') = Cardinality(FedBy(binding', S))
  <2>1. Slots(S) = SlotsOf(active, S) /\ Slots(S)' = SlotsOf(active', S)
    BY DEF Slots, SlotsOf
  <2>2. IsFiniteSet(Slots(S)) /\ Cardinality(Slots(S)) = Cardinality(FedBy(binding, S))
    BY DEF SlotInv
  <2>3. /\ IsFiniteSet(SlotsOf(active', S))
        /\ Cardinality(SlotsOf(active', S)) =
              Cardinality(SlotsOf(active, S)) + (IF l \in S THEN 1 ELSE 0)
    <3>1. active'[l] = active[l] + 1 /\ \A m \in LaneIds : m # l => active'[m] = active[m]
      BY <1>0
    <3>2. IsFiniteSet(SlotsOf(active, S))
      BY <2>1, <2>2, Zenon
    <3> QED BY <1>0, <3>1, <3>2, OneSlotMore
  <2> QED BY <1>2, <2>1, <2>2, <2>3
<1>4. Cardinality(FedBy(binding, {l})) < LaneMax
  <2>1. Cardinality(Slots({l})) = active[l]
    BY <1>0, LaneSlots DEF Slots, SlotsOf
  <2> QED BY <1>0, <1>1, <2>1 DEF SlotInv
<1>5. Cardinality(FedBy(binding, LaneIds)) < MaxWorkers
  <2>1. Cardinality(Slots(InUse)) = Cardinality(FedBy(binding, InUse))
    BY <1>0 DEF SlotInv
  <2>2. FedBy(binding, LaneIds) = FedBy(binding, InUse)
    <3>1. LaneIds \cap InUse = InUse
      BY <1>0
    <3> QED BY <1>0, <3>1, FedInUse DEF SlotInv
  <2> QED BY <1>1, <2>1, <2>2
<1>6. perSource => Cardinality(FedBy(binding, Of(l))) < SourceMax
  <2> DEFINE T == {m \in InUse : m[1] = l[1]}
  <2>1. T = Of(l) \cap InUse /\ T \in SUBSET LaneIds /\ Of(l) \in SUBSET LaneIds
    BY <1>0
  <2>2. FedBy(binding, Of(l)) = FedBy(binding, T)
    <3> HIDE DEF T, Of
    <3> QED BY <1>0, <2>1, FedInUse DEF SlotInv
  <2>3. Cardinality(Slots(T)) = Cardinality(FedBy(binding, T))
    BY <2>1 DEF SlotInv
  <2> QED BY <1>1, <2>2, <2>3
<1>7. \A m \in LaneIds : Cardinality(FedBy(binding', {m})) <= LaneMax
  <2> SUFFICES ASSUME NEW m \in LaneIds PROVE Cardinality(FedBy(binding', {m})) <= LaneMax
    OBVIOUS
  <2>1. Cardinality(FedBy(binding, {m})) <= LaneMax /\ {m} \in SUBSET LaneIds
    BY DEF SlotInv
  <2>2. Cardinality(FedBy(binding', {m})) = More({m}) /\ Cardinality(FedBy(binding, {m})) \in Nat
    BY <1>2, <2>1
  <2> QED BY <1>4, <2>1, <2>2, LanesAssumption
<1>8. Cardinality(FedBy(binding', LaneIds)) <= MaxWorkers
  <2>1. Cardinality(FedBy(binding', LaneIds)) = More(LaneIds)
        /\ Cardinality(FedBy(binding, LaneIds)) \in Nat
    BY <1>2
  <2> QED BY <1>0, <1>5, <2>1, LanesAssumption
<1>9. perSource => \A m \in InUse : Cardinality(FedBy(binding', Of(m))) <= SourceMax
  <2> SUFFICES ASSUME perSource, NEW m \in InUse
               PROVE  Cardinality(FedBy(binding', Of(m))) <= SourceMax
    OBVIOUS
  <2>0. Of(m) \in SUBSET LaneIds
    OBVIOUS
  <2>1. Cardinality(FedBy(binding', Of(m))) = More(Of(m))
        /\ Cardinality(FedBy(binding, Of(m))) \in Nat
    BY <1>2, <2>0
  <2>2. Cardinality(FedBy(binding, Of(m))) <= SourceMax
    BY DEF SlotInv
  <2>3. l \in Of(m) => Of(m) = Of(l)
    OBVIOUS
  <2> HIDE DEF Of
  <2> QED BY <1>6, <2>1, <2>2, <2>3, LanesAssumption
<1>10. \A d \in Chunks : binding'[d] \in InUse \cup {NoLane}
  BY <1>0 DEF SlotInv
<1> QED BY <1>0, <1>3, <1>7, <1>8, <1>9, <1>10 DEF SlotInv

\* A release.
LEMMA GivesKeeps ==
    ASSUME DInv, SlotInv, NEW c \in Chunks, Gives(c) PROVE SlotInv'
<1> DEFINE Less(l, S) == Cardinality(FedBy(binding, S)) - (IF l \in S THEN 1 ELSE 0)
<1>0. PICK l \in LaneIds : binding[c] = l
  BY DEF Gives
<1>1. /\ binding \in [Chunks -> LaneIds \cup {NoLane}]
      /\ active \in [LaneIds -> Nat]
      /\ binding' = [binding EXCEPT ![c] = NoLane]
      /\ active' = [active EXCEPT ![l] = IF @ = 0 THEN 0 ELSE @ - 1]
      /\ UNCHANGED <<order, perSource>> /\ InUse' = InUse
  BY <1>0 DEF DInv, LaneTypes, MonitorTypes, Gives, Released, InUse
<1>2. ASSUME NEW S \in SUBSET LaneIds
      PROVE  /\ Cardinality(FedBy(binding', S)) = Less(l, S)
             /\ Cardinality(FedBy(binding, S)) \in Nat
             /\ l \in S => Cardinality(FedBy(binding, S)) > 0
  <2>1. \A x \in Chunks : binding'[x] = IF x = c THEN NoLane ELSE binding[x]
    BY <1>1
  <2>2. /\ Cardinality(FedBy(binding', S)) = Less(l, S)
        /\ l \in S => Cardinality(FedBy(binding, S)) > 0
    BY <1>0, <1>1, <2>1, OneFedLess
  <2> QED BY <2>2, FedFinite
<1>3. active[l] > 0
  <2>1. Cardinality(Slots({l})) = active[l]
    BY <1>1, LaneSlots DEF Slots, SlotsOf
  <2>2. {l} \in SUBSET LaneIds
    OBVIOUS
  <2>3. Cardinality(FedBy(binding, {l})) > 0
    BY <1>2, <2>2
  <2> QED BY <2>1, <2>2, <2>3 DEF SlotInv
<1>4. ASSUME NEW S \in SUBSET LaneIds
      PROVE  IsFiniteSet(Slots(S)') /\ Cardinality(Slots(S)') = Cardinality(FedBy(binding', S))
  <2>1. Slots(S) = SlotsOf(active, S) /\ Slots(S)' = SlotsOf(active', S)
    BY DEF Slots, SlotsOf
  <2>2. IsFiniteSet(Slots(S)) /\ Cardinality(Slots(S)) = Cardinality(FedBy(binding, S))
    BY DEF SlotInv
  <2>3. /\ IsFiniteSet(SlotsOf(active', S))
        /\ Cardinality(SlotsOf(active', S)) =
              Cardinality(SlotsOf(active, S)) - (IF l \in S THEN 1 ELSE 0)
    <3>1. active'[l] = active[l] - 1 /\ \A m \in LaneIds : m # l => active'[m] = active[m]
      BY <1>1, <1>3
    <3>2. IsFiniteSet(SlotsOf(active, S))
      BY <2>1, <2>2, Zenon
    <3> QED BY <1>1, <1>3, <3>1, <3>2, OneSlotLess
  <2> QED BY <1>2, <2>1, <2>2, <2>3
<1>5. ASSUME NEW S \in SUBSET LaneIds, NEW n \in Nat, Cardinality(FedBy(binding, S)) <= n
      PROVE  Cardinality(FedBy(binding', S)) <= n
  BY <1>2, <1>5
<1>6. /\ \A m \in LaneIds : Cardinality(FedBy(binding', {m})) <= LaneMax
      /\ Cardinality(FedBy(binding', LaneIds)) <= MaxWorkers
  <2>1. ASSUME NEW m \in LaneIds PROVE {m} \in SUBSET LaneIds
    OBVIOUS
  <2> QED BY <1>5, <2>1, LanesAssumption DEF SlotInv
<1>7. perSource => \A m \in InUse :
         Cardinality(FedBy(binding', {k \in LaneIds : k[1] = m[1]})) <= SourceMax
  BY <1>5, LanesAssumption DEF SlotInv
<1>8. \A d \in Chunks : binding'[d] \in InUse \cup {NoLane}
  BY <1>1 DEF SlotInv
<1> QED BY <1>1, <1>4, <1>6, <1>7, <1>8 DEF SlotInv

\* Probing and sorting the lanes while nothing is bound.
LEMMA BuildKeeps ==
    ASSUME DInv, SlotInv, phase = "probing", UNCHANGED <<active, binding, perSource>>
    PROVE  SlotInv'
<1>1. \A c \in Chunks : binding[c] = NoLane
  BY DEF DInv, Placement, Early, Unstarted
<1>2. \A S \in SUBSET LaneIds : Cardinality(FedBy(binding, S)) = 0
  BY <1>1, NoWorkers
<1>3. \A l : Cardinality(FedBy(binding, {m \in LaneIds : m[1] = l[1]})) <= SourceMax
  BY <1>2, LanesAssumption
<1> QED BY <1>1, <1>3 DEF SlotInv, Slots

\* Whatever completes, fails or is refused, in any order: the counters are the
\* workers of each lane, and the limits per lane, per source and for the whole
\* download hold.
THEOREM SlotsStayAccounted == Spec => []SlotsAccounted
<1>1. DInv /\ SlotInv /\ [Next]_vars => SlotInv'
  <2> SUFFICES ASSUME DInv, SlotInv, [Next]_vars PROVE SlotInv'
    OBVIOUS
  <2>1. CASE UNCHANGED <<active, binding, order, perSource>>
    BY <2>1 DEF SlotInv, InUse, Slots
  <2> QED BY <2>1, SlotSteps, TakesKeeps, GivesKeeps, BuildKeeps
<1>2. DInv /\ SlotInv => SlotsAccounted
  <2> SUFFICES ASSUME DInv, SlotInv PROVE SlotsAccounted
    OBVIOUS
  <2>1. ASSUME NEW l \in LaneIds PROVE active[l] = Fed({l}) /\ Fed({l}) <= LaneMax
    <3>1. Fed({l}) = Cardinality(FedBy(binding, {l}))
      BY DEF Fed, FedBy
    <3>2. Cardinality(Slots({l})) = active[l]
      BY LaneSlots DEF Slots, SlotsOf, DInv, LaneTypes
    <3>3. Cardinality(Slots({l})) = Cardinality(FedBy(binding, {l}))
      BY DEF SlotInv
    <3> QED BY <3>1, <3>2, <3>3 DEF SlotInv
  <2> QED BY <2>1 DEF SlotInv, SlotsAccounted, Fed, FedBy
<1> QED BY <1>1, <1>2, SlotInit, DispatchInvariant, PTL DEF Spec
-----------------------------------------------------------------------------
(* The probes *)

Kept(cs) == {cs[k].rt : k \in DOMAIN cs}
Answer == [size : Int, ranges : BOOLEAN]

\* While probes are out, what is kept of the answers: the candidates answered with
\* the size that was settled on, and no source with Range support was passed over
\* for its size unless another one came first.
ProbeInv ==
    /\ answers \in [Runtimes -> Answer] /\ waiting \subseteq Runtimes
    /\ rangeSize \in Int /\ plainSize \in Int
    /\ rangeSize = NoSize <=> rangeC = <<>>
    /\ plainSize = NoSize => plainC = <<>>
    /\ \A r \in waiting : answers[r] = NoAnswer /\ r \notin Kept(rangeC) /\ r \notin Kept(plainC)
    /\ \A r \in Kept(rangeC) : r \in Runtimes /\ answers[r] = [size |-> rangeSize, ranges |-> TRUE]
    /\ \A r \in Kept(plainC) : r \in Runtimes /\ answers[r] = [size |-> plainSize, ranges |-> FALSE]
    /\ \A r \in Runtimes : answers[r].ranges =>
          rangeC # <<>> /\ (answers[r].size = rangeSize => r \in Kept(rangeC))

SourcesInv == (phase = "probing" => ProbeInv) /\ SourcesAgree

\* One more candidate.
LEMMA KeptMore ==
    ASSUME NEW cs \in Seq(Candidate), NEW r \in Runtimes, NEW v \in Speeds
    PROVE  LET a == Append(cs, [rt |-> r, speed |-> v]) IN Kept(a) = Kept(cs) \cup {r} /\ a # <<>>
<1> DEFINE e == [rt |-> r, speed |-> v]
           a == Append(cs, e)
<1>1. e \in Candidate /\ e.rt = r
  BY DEF Candidate
<1> HIDE DEF e
<1>2. /\ DOMAIN a = 1 .. Len(cs) + 1 /\ \A k \in 1 .. Len(cs) : a[k] = cs[k]
      /\ a[Len(cs) + 1] = e
  BY <1>1, AppendOne
<1>3. DOMAIN cs = 1 .. Len(cs) /\ Len(cs) \in Nat
  OBVIOUS
<1> HIDE DEF a
<1>4. Kept(a) \subseteq Kept(cs) \cup {r}
  BY <1>1, <1>2, <1>3 DEF Kept
<1>5. Kept(cs) \subseteq Kept(a) /\ r \in Kept(a)
  BY <1>1, <1>2, <1>3 DEF Kept
<1>6. DOMAIN a # {}
  BY <1>2, <1>3
<1>7. a # <<>>
  BY <1>6
<1> QED BY <1>4, <1>5, <1>7 DEF a, e

\* Nothing is kept of an empty list.
LEMMA KeptNone == Kept(<<>>) = {}
BY DEF Kept

\* Nothing was answered at the start.
LEMMA SourcesInit == Init => SourcesInv
<1> SUFFICES ASSUME Init PROVE SourcesInv
  OBVIOUS
<1> USE DEF Init, ProbeInit
<1>1. Kept(rangeC) = {} /\ Kept(plainC) = {}
  BY KeptNone
<1>2. answers \in [Runtimes -> Answer] /\ \A r \in Runtimes : answers[r] = NoAnswer /\ ~answers[r].ranges
  BY DEF NoAnswer, NoSize, Answer
<1>3. ProbeInv
  BY <1>1, <1>2 DEF ProbeInv, NoSize
<1> QED BY <1>3 DEF SourcesInv, SourcesAgree

\* The answer of one source is noted.
LEMMA AnsweredFacts ==
    ASSUME ProbeInv, NEW r \in Runtimes, NEW n \in Int, NEW g \in BOOLEAN, Answered(r, n, g)
    PROVE  /\ r \in waiting /\ waiting' = waiting \ {r} /\ phase' = "probing"
           /\ answers' \in [Runtimes -> Answer]
           /\ answers'[r] = [size |-> n, ranges |-> g]
           /\ answers'[r].size = n /\ answers'[r].ranges = g
           /\ \A x \in Runtimes : x # r => answers'[x] = answers[x]
           /\ r \notin Kept(rangeC) /\ r \notin Kept(plainC)
<1>1. [size |-> n, ranges |-> g] \in Answer
  BY DEF Answer
<1>2. /\ r \in waiting /\ waiting' = waiting \ {r} /\ phase' = "probing"
      /\ answers' = [answers EXCEPT ![r] = [size |-> n, ranges |-> g]]
  BY DEF Answered
<1>3. answers \in [Runtimes -> Answer]
  BY DEF ProbeInv
<1>4. answers' \in [Runtimes -> Answer] /\ answers'[r] = [size |-> n, ranges |-> g]
      /\ \A x \in Runtimes : x # r => answers'[x] = answers[x]
  <2> DEFINE w == [size |-> n, ranges |-> g]
             T == Answer
  <2> HIDE DEF w, T
  <2>1. w \in T /\ answers' = [answers EXCEPT ![r] = w] /\ answers \in [Runtimes -> T]
    BY <1>1, <1>2, <1>3 DEF w, T
  <2>2. answers' \in [Runtimes -> T] /\ answers'[r] = w
        /\ \A x \in Runtimes : x # r => answers'[x] = answers[x]
    BY <2>1
  <2> QED BY <2>2 DEF w, T
<1> QED BY <1>2, <1>4 DEF ProbeInv

\* Whatever probe ends next, the invariant of the probes is kept.
LEMMA ProbeKeeps ==
    ASSUME DInv, ProbeInv, phase = "probing", Probe, phase' = "probing" PROVE ProbeInv'
<1>0. /\ rangeC \in Seq(Candidate) /\ plainC \in Seq(Candidate) /\ Sizes \subseteq Nat
      /\ \A n \in Sizes : n \in Int /\ n # NoSize
      /\ NoSize \in Int
  BY LanesAssumption DEF DInv, LaneTypes, NoSize
<1>1. ASSUME NEW r \in Runtimes, NEW n \in Sizes, NEW v \in Speeds, ProbedRange(r, n, v)
      PROVE  ProbeInv'
  <2>1. /\ Answered(r, n, TRUE) /\ rangeSize \in {NoSize, n} /\ rangeSize' = n
        /\ rangeC' = Append(rangeC, [rt |-> r, speed |-> v])
        /\ \/ plainSize' = NoSize /\ plainC' = <<>>
           \/ UNCHANGED <<plainSize, plainC>>
    BY <1>1 DEF ProbedRange, Fits
  <2>2. Kept(rangeC') = Kept(rangeC) \cup {r} /\ rangeC' # <<>>
    BY <1>0, <2>1, KeptMore
  <2>3. Kept(plainC') = {} \/ (Kept(plainC') = Kept(plainC) /\ plainSize' = plainSize)
    BY <2>1, KeptNone
  <2>4. /\ r \in waiting /\ waiting' = waiting \ {r}
        /\ answers' \in [Runtimes -> Answer]
        /\ answers'[r] = [size |-> n, ranges |-> TRUE]
        /\ \A x \in Runtimes : x # r => answers'[x] = answers[x]
        /\ r \notin Kept(rangeC) /\ r \notin Kept(plainC)
    BY <1>0, <2>1, AnsweredFacts
  <2>5. rangeSize = NoSize => Kept(rangeC) = {}
    BY KeptNone DEF ProbeInv
  <2>6. ASSUME NEW x \in waiting'
        PROVE  answers'[x] = NoAnswer /\ x \notin Kept(rangeC') /\ x \notin Kept(plainC')
    BY <2>2, <2>3, <2>4 DEF ProbeInv
  <2>7. ASSUME NEW x \in Kept(rangeC')
        PROVE  x \in Runtimes /\ answers'[x] = [size |-> rangeSize', ranges |-> TRUE]
    BY <2>1, <2>2, <2>4, <2>5 DEF ProbeInv
  <2>8. ASSUME NEW x \in Kept(plainC')
        PROVE  x \in Runtimes /\ answers'[x] = [size |-> plainSize', ranges |-> FALSE]
    BY <2>3, <2>4 DEF ProbeInv
  <2>9. ASSUME NEW x \in Runtimes, answers'[x].ranges, answers'[x].size = rangeSize'
        PROVE  x \in Kept(rangeC')
    <3>1. CASE x = r
      BY <2>2, <3>1
    <3>2. CASE x # r
      <4>1. answers'[x] = answers[x] /\ answers[x].ranges
        BY <2>4, <2>9, <3>2
      <4>2. rangeSize # NoSize
        BY <4>1 DEF ProbeInv
      <4> QED BY <2>1, <2>2, <2>9, <4>1, <4>2 DEF ProbeInv
    <3> QED BY <3>1, <3>2
  <2>10. plainSize' \in Int /\ rangeSize' \in Int /\ rangeSize' # NoSize /\ waiting' \subseteq Runtimes
    BY <1>0, <2>1, <2>4 DEF ProbeInv
  <2>11. plainSize' = NoSize => plainC' = <<>>
    BY <2>1 DEF ProbeInv
  <2> QED BY <2>2, <2>4, <2>6, <2>7, <2>8, <2>9, <2>10, <2>11 DEF ProbeInv
<1>2. ASSUME NEW r \in Runtimes, NEW n \in Sizes, NEW v \in Speeds, ProbedPlain(r, n, v)
      PROVE  ProbeInv'
  <2>1. /\ Answered(r, n, FALSE) /\ plainSize \in {NoSize, n} /\ rangeSize = NoSize /\ plainSize' = n
        /\ plainC' = Append(plainC, [rt |-> r, speed |-> v])
        /\ UNCHANGED <<rangeSize, rangeC>>
    BY <1>2 DEF ProbedPlain, Fits
  <2>2. Kept(plainC') = Kept(plainC) \cup {r}
    BY <1>0, <2>1, KeptMore
  <2>3. rangeC = <<>> /\ Kept(rangeC) = {} /\ (plainSize = NoSize => Kept(plainC) = {})
    BY <2>1, KeptNone DEF ProbeInv
  <2>4. /\ r \in waiting /\ waiting' = waiting \ {r}
        /\ answers' \in [Runtimes -> Answer]
        /\ answers'[r] = [size |-> n, ranges |-> FALSE] /\ ~answers'[r].ranges
        /\ \A x \in Runtimes : x # r => answers'[x] = answers[x]
    BY <1>0, <2>1, AnsweredFacts
  <2>5. ASSUME NEW x \in waiting'
        PROVE  answers'[x] = NoAnswer /\ x \notin Kept(rangeC') /\ x \notin Kept(plainC')
    BY <2>1, <2>2, <2>4 DEF ProbeInv
  <2>6. ASSUME NEW x \in Kept(plainC')
        PROVE  x \in Runtimes /\ answers'[x] = [size |-> plainSize', ranges |-> FALSE]
    <3>1. CASE x = r
      BY <2>1, <2>4, <3>1
    <3>2. CASE x # r
      <4>1. x \in Kept(plainC) /\ plainSize = n
        BY <2>1, <2>2, <2>3, <3>2
      <4> QED BY <2>1, <2>4, <3>2, <4>1 DEF ProbeInv
    <3> QED BY <3>1, <3>2
  <2>7. \A x \in Runtimes : ~answers'[x].ranges
    BY <2>3, <2>4 DEF ProbeInv
  <2>8. plainSize' \in Int /\ plainSize' # NoSize /\ waiting' \subseteq Runtimes
    BY <1>0, <2>1, <2>4 DEF ProbeInv
  <2>9. UNCHANGED <<rangeSize, rangeC>> /\ Kept(rangeC') = {}
    BY <2>1, <2>3
  <2> QED BY <2>4, <2>5, <2>6, <2>7, <2>8, <2>9 DEF ProbeInv
<1>3. ASSUME NEW r \in Runtimes, NEW n \in Int, NEW g \in BOOLEAN, Answered(r, n, g),
             UNCHANGED <<rangeSize, rangeC, plainSize, plainC>>,
             g => rangeSize # NoSize /\ rangeSize # n
      PROVE  ProbeInv'
  <2>1. /\ r \in waiting /\ waiting' = waiting \ {r}
        /\ answers' \in [Runtimes -> Answer]
        /\ answers'[r].size = n /\ answers'[r].ranges = g
        /\ \A x \in Runtimes : x # r => answers'[x] = answers[x]
        /\ r \notin Kept(rangeC) /\ r \notin Kept(plainC)
    BY <1>3, AnsweredFacts
  <2> QED BY <1>3, <2>1 DEF ProbeInv
<1>4. ASSUME NEW r \in Runtimes, NEW n \in Sizes, NEW g \in BOOLEAN, ProbedSkipped(r, n, g)
      PROVE  ProbeInv'
  <2>1. /\ Answered(r, n, g) /\ UNCHANGED <<rangeSize, rangeC, plainSize, plainC>>
        /\ g => rangeSize # NoSize /\ rangeSize # n
    BY <1>4 DEF ProbedSkipped, Fits
  <2> QED BY <1>0, <1>3, <2>1
<1>5. ASSUME NEW r \in Runtimes, ProbeFailed(r) PROVE ProbeInv'
  <2>1. Answered(r, NoSize, FALSE) /\ UNCHANGED <<rangeSize, rangeC, plainSize, plainC>>
    BY <1>5 DEF ProbeFailed
  <2> QED BY <1>0, <1>3, <2>1
<1>6. ~Build /\ ~NoSources
  BY DEF Build, NoSources
<1> QED BY <1>1, <1>2, <1>4, <1>5, <1>6 DEF Probe

\* When the lanes are built, they agree.
LEMMA BuildAgrees ==
    ASSUME ProbeInv, Build PROVE SourcesAgree'
<1>1. /\ Chosen # <<>> /\ used' = Kept(Chosen) /\ answers' = answers
      /\ size' = (IF rangeC # <<>> THEN rangeSize ELSE plainSize)
      /\ ranges' = (rangeC # <<>>)
  BY DEF Build, Kept
<1>2. CASE rangeC # <<>>
  <2>1. used' = Kept(rangeC) /\ size' = rangeSize /\ ranges' = TRUE
    BY <1>1, <1>2 DEF Chosen
  <2> QED BY <1>1, <2>1 DEF ProbeInv, SourcesAgree
<1>3. CASE rangeC = <<>>
  <2>1. used' = Kept(plainC) /\ size' = plainSize /\ ranges' = FALSE
    BY <1>1, <1>3 DEF Chosen
  <2>2. \A r \in Runtimes : ~answers[r].ranges
    BY <1>3 DEF ProbeInv
  <2> QED BY <1>1, <2>1, <2>2 DEF ProbeInv, SourcesAgree
<1> QED BY <1>2, <1>3

\* Whichever of the concurrent probes ends first, the lanes that are used serve
\* the same size the same way, and no source with Range support of that size is
\* left out.
THEOREM SourcesDoAgree == Spec => []SourcesAgree
<1>1. DInv /\ SourcesInv /\ [Next]_vars => SourcesInv'
  <2> SUFFICES ASSUME DInv, SourcesInv, [Next]_vars PROVE SourcesInv'
    OBVIOUS
  <2>1. CASE UNCHANGED vars
    BY <2>1 DEF vars, probeVars, SourcesInv, ProbeInv, SourcesAgree
  <2>2. CASE Probing
    <3>1. Probe /\ phase = "probing" /\ ProbeInv
      BY <2>2 DEF Probing, Probe, ProbedRange, ProbedPlain, ProbedSkipped, ProbeFailed, Answered,
                  Build, NoSources, SourcesInv
    <3>2. CASE phase' = "probing"
      BY <3>1, <3>2, ProbeKeeps DEF SourcesInv, SourcesAgree
    <3>3. CASE Build
      <4>1. phase' = "ready"
        BY <3>3 DEF Build
      <4> QED BY <3>1, <3>3, <4>1, BuildAgrees DEF SourcesInv
    <3>4. CASE NoSources
      BY <3>4 DEF NoSources, SourcesInv, SourcesAgree
    <3> QED BY <3>1, <3>2, <3>3, <3>4 DEF Probe, ProbedRange, ProbedPlain, ProbedSkipped,
                                          ProbeFailed, Answered
  <2>3. CASE Next /\ ~Probing
    <3>1. phase' \notin {"probing", "ready"} \/ UNCHANGED vars
      BY <2>3 DEF Next, Monitor, Start, Tick, Drain, DrainEnds, RetryStarts, RetryDeferred,
                  TickEnds, Ends, Complete, FailsForGood, FailsAgain, Fails, Running, Split, Over
    <3> QED BY <3>1, <2>1 DEF SourcesInv, SourcesAgree
  <2> QED BY <2>1, <2>2, <2>3
<1>2. SourcesInv => SourcesAgree
  BY DEF SourcesInv
<1> QED BY <1>1, <1>2, SourcesInit, DispatchInvariant, PTL DEF Spec
=============================================================================

------------------------- MODULE LogIngestionProofs -------------------------
(***************************************************************************)
(* Between the cursor and the backend, for any number of agents, any file  *)
(* and any buffer: no csvlog row is lost and the variables keep their      *)
(* types; until a read stops at MaxRows no row is skipped and none gets    *)
(* two line numbers.                                                       *)
(*                                                                         *)
(* The first needs no fact about Offset, so there a pending directory is a *)
(* sequence of whatever it holds.  For the others Offset is a sum over the *)
(* rows read: that the recursive function exists, and bounds on what it    *)
(* adds up to, are shown by a least counterexample.                        *)
(***************************************************************************)
EXTENDS LogIngestion, SequenceTheorems, WellFoundedInduction, TLAPS

Elements(s) == {s[i] : i \in DOMAIN s}
IsSequence(s) == s \in Seq(Elements(s))

LEMMA AppendIsSequence ==
    ASSUME NEW s, NEW x, IsSequence(s)
    PROVE  /\ IsSequence(Append(s, x))
           /\ Elements(Append(s, x)) = Elements(s) \cup {x}
<1> DEFINE B == Elements(s) \cup {x}
<1>1. s \in Seq(B)
  BY SeqMonotonic, Elements(s) \subseteq B DEF IsSequence
<1>2. /\ Append(s, x) \in Seq(B)
      /\ DOMAIN Append(s, x) = 1..Len(s) + 1
      /\ \A i \in 1..Len(s) : Append(s, x)[i] = s[i]
      /\ Append(s, x)[Len(s) + 1] = x
  <2> HIDE DEF B
  <2> QED BY <1>1, x \in B DEF B
<1>3. Elements(Append(s, x)) = B
  BY <1>1, <1>2, DOMAIN s = 1..Len(s), Len(s) \in Nat DEF Elements
<1> QED
  BY <1>2, <1>3 DEF IsSequence

LEMMA TailIsSequence ==
    ASSUME NEW s, IsSequence(s), s # <<>>
    PROVE  /\ IsSequence(Tail(s))
           /\ Elements(s) = {Head(s)} \cup Elements(Tail(s))
<1> DEFINE A == Elements(s)
           B == Elements(Tail(s))
<1>1. s \in Seq(A) /\ Len(s) \in Nat /\ Len(s) > 0 /\ DOMAIN s = 1..Len(s)
  <2>1. s \in Seq(A)
    BY DEF IsSequence
  <2> HIDE DEF A
  <2> QED BY <2>1
<1>2. /\ Head(s) = s[1]
      /\ Tail(s) \in Seq(A) /\ DOMAIN Tail(s) = 1..Len(s) - 1
      /\ Len(Tail(s)) = Len(s) - 1
      /\ \A i \in 1..Len(s) - 1 : Tail(s)[i] = s[i + 1]
  <2> HIDE DEF A
  <2> QED BY <1>1
<1>3. Elements(s) = {Head(s)} \cup Elements(Tail(s))
  <2>1. \A i \in DOMAIN s : s[i] \in {Head(s)} \cup B
    <3> TAKE i \in DOMAIN s
    <3>1. CASE i = 1
      BY <1>2, <3>1
    <3>2. CASE i # 1
      <4>1. i - 1 \in DOMAIN Tail(s) /\ s[i] = Tail(s)[i - 1]
        BY <1>1, <1>2, <3>2
      <4> QED
        BY <4>1 DEF Elements
    <3> QED
      BY <3>1, <3>2
  <2>2. Head(s) \in Elements(s)
    BY <1>1, <1>2 DEF Elements
  <2>3. \A i \in DOMAIN Tail(s) : Tail(s)[i] \in Elements(s)
    <3> TAKE i \in DOMAIN Tail(s)
    <3>1. i + 1 \in DOMAIN s /\ Tail(s)[i] = s[i + 1]
      BY <1>1, <1>2
    <3> QED
      BY <3>1 DEF Elements
  <2> QED
    BY <2>1, <2>2, <2>3, Zenon DEF Elements
<1>4. Tail(s) \in [1..Len(Tail(s)) -> A]
  BY <1>2, LenProperties
<1>5. \A i \in 1..Len(Tail(s)) : Tail(s)[i] \in B
  BY <1>2 DEF Elements
<1>6. Tail(s) \in Seq(B)
  <2> HIDE DEF A, B
  <2>1. Len(Tail(s)) \in Nat
    BY <1>1, <1>2
  <2>2. Tail(s) \in [1..Len(Tail(s)) -> B]
    BY <1>4, <1>5, Zenon
  <2> QED
    BY <2>1, <2>2, SeqDef
<1> QED
  BY <1>3, <1>6 DEF IsSequence

-----------------------------------------------------------------------------
(* What the reader computes.                                               *)

\* A set of numbers has a least one: induction, as the next lemmas use it.
LEMMA LeastNumber ==
    ASSUME NEW S \in SUBSET Nat, S # {}
    PROVE  \E m \in S : \A x \in S : m <= x
<1> DEFINE R == {ss \in Nat \X Nat : ss[1] < ss[2]}
<1>1. IsWellFoundedOn(R, Nat)
  BY NatLessThanWellFounded, Zenon DEF OpToRel
<1> HIDE DEF R
<1>2. \E m \in S : \A x \in S : <<x, m>> \notin R
  BY <1>1, WFMin, Zenon
<1>3. PICK m \in S : \A x \in S : <<x, m>> \notin R
  BY <1>2
<1>4. \A x \in S : ~ (x < m)
  BY <1>3 DEF R
<1> QED
  BY <1>4

\* f adds up b, c[1], c[2], ...
AddsUp(f, n, b, c) == f = [k \in 0..n |-> IF k = 0 THEN b ELSE f[k - 1] + c[k]]

LEMMA SumExists ==
    ASSUME NEW b, NEW c, NEW n \in Nat
    PROVE  \E f : AddsUp(f, n, b, c)
<1> DEFINE S == {m \in Nat : ~ \E f : AddsUp(f, m, b, c)}
<1> SUFFICES ASSUME S # {} PROVE FALSE
  OBVIOUS
<1>1. PICK m \in S : \A x \in S : m <= x
  BY LeastNumber
<1>2. CASE m = 0
  <2> DEFINE f == [k \in 0..0 |-> b]
  <2>1. AddsUp(f, 0, b, c)
    BY DEF AddsUp
  <2> QED
    BY <1>1, <1>2, <2>1
<1>3. CASE m # 0
  <2>1. m - 1 \in Nat /\ m - 1 \notin S
    BY <1>1, <1>3
  <2>2. PICK g : AddsUp(g, m - 1, b, c)
    BY <2>1
  <2> DEFINE f == [k \in 0..m |-> IF k = m THEN g[m - 1] + c[m] ELSE g[k]]
  <2>3. ASSUME NEW k \in 0..m PROVE f[k] = IF k = 0 THEN b ELSE f[k - 1] + c[k]
    <3>1. \A j \in 0..(m - 1) : f[j] = g[j]
      BY <1>1
    <3>2. \A j \in 0..(m - 1) : g[j] = IF j = 0 THEN b ELSE g[j - 1] + c[j]
      BY <2>2 DEF AddsUp
    <3>3. CASE k = m
      <4>1. f[k] = g[m - 1] + c[m] /\ m - 1 \in 0..(m - 1)
        BY <1>1, <1>3, <3>3
      <4> HIDE DEF f
      <4> QED BY <1>3, <3>1, <3>3, <4>1
    <3>4. CASE k # m
      <4>1. k \in 0..(m - 1) /\ (k # 0 => k - 1 \in 0..(m - 1))
        BY <1>1, <3>4
      <4> HIDE DEF f
      <4> QED BY <3>1, <3>2, <4>1
    <3> QED
      BY <3>3, <3>4
  <2>4. f = [k \in 0..m |-> f[k]]
    OBVIOUS
  <2> HIDE DEF f
  <2>5. AddsUp(f, m, b, c)
    BY <2>3, <2>4 DEF AddsUp
  <2> QED
    BY <1>1, <2>5
<1> QED
  BY <1>2, <1>3

LEMMA SumOfNumbers ==
    ASSUME NEW n \in Nat, NEW b \in Nat, NEW c, \A k \in 1..n : c[k] \in Nat,
           NEW f, AddsUp(f, n, b, c)
    PROVE  \A k \in 0..n : f[k] \in Nat /\ f[k] >= b
<1> DEFINE S == {k \in 0..n : ~(f[k] \in Nat /\ f[k] >= b)}
<1> SUFFICES ASSUME S # {} PROVE FALSE
  OBVIOUS
<1>0. S \in SUBSET Nat
  OBVIOUS
<1>1. PICK m \in S : \A x \in S : m <= x
  <2> HIDE DEF S
  <2> QED BY <1>0, LeastNumber
<1>2. f[m] = IF m = 0 THEN b ELSE f[m - 1] + c[m]
  BY <1>1 DEF AddsUp
<1>3. m # 0 /\ m \in 1..n /\ m - 1 \in 0..n /\ m - 1 \notin S
  BY <1>1, <1>2
<1> QED
  BY <1>1, <1>2, <1>3

LEMMA DivisionGrows ==
    ASSUME NEW d \in Nat \ {0}, NEW m \in Nat, NEW n \in Nat, m <= n
    PROVE  m \div d \in Nat /\ d * (m \div d) <= d * (n \div d)
<1>1. m \div d \in Nat /\ n \div d \in Nat
  OBVIOUS
<1>2. m \div d <= n \div d
  OBVIOUS
<1> QED
  BY <1>1, <1>2

LEMMA FetchedGrows ==
    ASSUME NEW rest \in Nat, NEW m \in Nat, NEW n \in Nat, m <= n
    PROVE  /\ Fetched(rest, m) \in 0..rest
           /\ Fetched(rest, m) <= Fetched(rest, n)
<1> DEFINE u == Buffer * ((m + Buffer - 1) \div Buffer)
           v == Buffer * ((n + Buffer - 1) \div Buffer)
<1>1. Buffer \in Nat \ {0} /\ m + Buffer - 1 \in Nat /\ n + Buffer - 1 \in Nat
  BY IngestionAssumption
<1>2. u <= v /\ u \in Nat /\ v \in Nat
  BY <1>1, DivisionGrows
<1>3. Fetched(rest, m) = Least(rest, u) /\ Fetched(rest, n) = Least(rest, v)
  BY DEF Fetched
<1> HIDE DEF u, v
<1> QED
  BY <1>2, <1>3 DEF Least

\* A rest that fits the buffer is fetched at once.
\* The reader has fetched at least what was consumed.
LEMMA FetchedAll ==
    ASSUME NEW rest \in Nat
    PROVE  Fetched(rest, rest) = rest
<1> DEFINE q == (rest + Buffer - 1) \div Buffer
<1>1. Buffer \in Nat \ {0}
  BY IngestionAssumption
<1>2. q \in Nat /\ Buffer * q >= rest
  BY <1>1
<1>3. Fetched(rest, rest) = Least(rest, Buffer * q)
  BY DEF Fetched
<1> HIDE DEF q
<1>4. Buffer * q \in Nat
  BY <1>1, <1>2
<1> QED
  BY <1>2, <1>3, <1>4 DEF Least

\* The position of the reader is where its sum ends.
LEMMA OffsetIsSum ==
    ASSUME NEW a,
           NEW rest, rest = Readable(a) - From(a).offset,
           NEW b, b = From(a).offset + HeaderFetched(a),
           NEW c, \A k \in 0..MaxRows :
                     c[k] = Fetched(rest, HeaderLength(a) + k) - HeaderFetched(a)
    PROVE  \E f : AddsUp(f, MaxRows, b, c) /\ Offset(a) = f[RowCount(a)]
<1> DEFINE Last(f) == f = [k \in 0..MaxRows |->
                 IF k = 0 THEN From(a).offset + HeaderFetched(a)
                 ELSE f[k - 1] + (Fetched(Readable(a) - From(a).offset, HeaderLength(a) + k) - HeaderFetched(a))]
<1>1. Offset(a) = (CHOOSE f : Last(f))[RowCount(a)]
  BY DEF Offset
<1>2. \A f : AddsUp(f, MaxRows, b, c) <=> Last(f)
  BY DEF AddsUp
<1>3. \E f : AddsUp(f, MaxRows, b, c)
  BY SumExists, IngestionAssumption
<1> HIDE DEF Last
<1>4. Last(CHOOSE f : Last(f))
  BY <1>2, <1>3
<1> QED
  BY <1>1, <1>2, <1>4

-----------------------------------------------------------------------------
\* Where a row is that the agents still vouch for.
Covered(r) ==
    \/ r \in RowsOf(received)
    \/ \E a \in Agents : \E p \in Elements(pending[a]) : r \in RowsOf(p.events)
    \/ \E a \in Agents : r \in RowsOf(payload[a].events)
    \/ r \in given

LEMMA KeptMeansCovered == PassedRowsAreKept <=> \A r \in taken : Covered(r)
<1> DEFINE InFiles(a) == UNION {RowsOf(pending[a][i].events) : i \in DOMAIN pending[a]}
<1>1. ASSUME NEW a \in Agents, NEW r
      PROVE  r \in InFiles(a) <=> \E p \in Elements(pending[a]) : r \in RowsOf(p.events)
  <2>1. r \in InFiles(a) <=> \E i \in DOMAIN pending[a] : r \in RowsOf(pending[a][i].events)
    OBVIOUS
  <2>2. \A p : p \in Elements(pending[a]) <=> \E i \in DOMAIN pending[a] : p = pending[a][i]
    BY DEF Elements
  <2> QED
    BY <2>1, <2>2, Zenon
<1>2. ASSUME NEW r
      PROVE  r \in Queued <=>
               \E a \in Agents : \E p \in Elements(pending[a]) : r \in RowsOf(p.events)
  <2>1. Queued = UNION {InFiles(a) : a \in Agents}
    BY DEF Queued
  <2> HIDE DEF InFiles
  <2>2. r \in Queued <=> \E a \in Agents : r \in InFiles(a)
    BY <2>1
  <2> QED
    BY <1>1, <2>2, Zenon
<1>3. \A r : r \in InHand <=> \E a \in Agents : r \in RowsOf(payload[a].events)
  BY Zenon DEF InHand
<1> QED
  BY <1>2, <1>3, Zenon DEF PassedRowsAreKept, Covered

\* Between Collect and WriteResults the result is in hand; otherwise there is
\* none, so that a new one never replaces rows that were not written.
HandEmpty == \A a \in Agents : pc[a] # "write" => payload[a].events = {}

Shape ==
    /\ pc = [a \in Agents |-> pc[a]]
    /\ pending = [a \in Agents |-> pending[a]]
    /\ payload = [a \in Agents |-> payload[a]]
    /\ \A a \in Agents : IsSequence(pending[a])

KeptInv == Shape /\ HandEmpty /\ \A r \in taken : Covered(r)

LEMMA InitKeptInv == Init => KeptInv
<1> SUFFICES ASSUME Init PROVE KeptInv
  OBVIOUS
<1>1. IsSequence(<<>>)
  BY DEF IsSequence
<1> QED
  BY <1>1 DEF Init, KeptInv, Shape, HandEmpty, Nothing

\* The backend forgets nothing.
LEMMA AcceptKeeps ==
    ASSUME NEW a, NEW p, Accept(a, p)
    PROVE  received' = received \cup p.events
  BY DEF Accept

\* Rows stay covered when the backend and the lost rows grow and the pending
\* files and results in hand stay.
LEMMA StillCovered ==
    ASSUME received \subseteq received', given \subseteq given',
           pending' = pending, payload' = payload,
           NEW r, Covered(r)
    PROVE  Covered(r)'
  BY Zenon DEF Covered, RowsOf

-----------------------------------------------------------------------------
\* A step that touches neither result nor pending files, of an agent that has
\* no result in hand.
LEMMA QuietStep ==
    ASSUME KeptInv, NEW a \in Agents, pc[a] # "write",
           NEW to, pc' = [pc EXCEPT ![a] = to],
           UNCHANGED <<pending, payload, taken, given>>,
           received \subseteq received'
    PROVE  KeptInv'
<1>1. Shape'
  BY DEF KeptInv, Shape
<1>2. HandEmpty'
  <2>1. \A b \in Agents : b # a => pc'[b] = pc[b]
    BY DEF KeptInv, Shape
  <2> QED
    BY <2>1 DEF KeptInv, HandEmpty
<1>3. \A r \in taken' : Covered(r)'
  BY StillCovered DEF KeptInv
<1> QED
  BY <1>1, <1>2, <1>3 DEF KeptInv

\* The end of a run: every row of the result is at the backend, in a pending
\* file, or given up.
LEMMA EndStep ==
    ASSUME KeptInv, NEW a \in Agents,
           pc' = [pc EXCEPT ![a] = "idle"], EndRun({a}),
           taken' = taken, received \subseteq received', given \subseteq given',
           pending' = [b \in Agents |-> pending'[b]],
           \A b \in Agents : /\ IsSequence(pending'[b])
                             /\ Elements(pending[b]) \subseteq Elements(pending'[b]),
           \A r \in RowsOf(payload[a].events) :
               \/ r \in RowsOf(received') \/ r \in given'
               \/ \E p \in Elements(pending'[a]) : r \in RowsOf(p.events)
    PROVE  KeptInv'
<1>1. /\ payload' = [b \in Agents |-> payload'[b]]
      /\ payload'[a].events = {}
      /\ \A b \in Agents : b # a => payload'[b] = payload[b] /\ pc'[b] = pc[b]
  BY DEF EndRun, Nothing, KeptInv, Shape
<1>2. Shape'
  BY <1>1 DEF KeptInv, Shape, IsSequence, Elements
<1>3. HandEmpty'
  BY <1>1 DEF KeptInv, HandEmpty
<1>4. ASSUME NEW r \in taken' PROVE Covered(r)'
  <2>1. Covered(r)
    BY <1>4 DEF KeptInv
  <2>2. CASE r \in RowsOf(received) \/ r \in given
    BY <2>2 DEF Covered, RowsOf
  <2>3. CASE \E b \in Agents : \E p \in Elements(pending[b]) : r \in RowsOf(p.events)
    BY <2>3, Zenon DEF Covered, Elements
  <2>4. CASE \E b \in Agents : r \in RowsOf(payload[b].events)
    <3>1. PICK b \in Agents : r \in RowsOf(payload[b].events)
      BY <2>4
    <3>2. CASE b = a
      BY <3>1, <3>2, Zenon DEF Covered, RowsOf, Elements
    <3>3. CASE b # a
      BY <1>1, <3>1, <3>3, Zenon DEF Covered, RowsOf
    <3> QED
      BY <3>2, <3>3
  <2> QED
    BY <2>1, <2>2, <2>3, <2>4, Zenon DEF Covered
<1> QED
  BY <1>2, <1>3, <1>4 DEF KeptInv

LEMMA UploadOneKeeps ==
    ASSUME KeptInv, NEW a \in Agents, UploadOne(a)
    PROVE  KeptInv'
<1>1. /\ pending[a] # <<>> /\ IsSequence(pending[a])
      /\ pending' = [pending EXCEPT ![a] = Tail(@)]
      /\ received' = received \cup Head(pending[a]).events
      /\ UNCHANGED <<pc, payload, taken, given>>
  BY AcceptKeeps DEF UploadOne, history, KeptInv, Shape
<1>2. /\ IsSequence(Tail(pending[a]))
      /\ Elements(pending[a]) = {Head(pending[a])} \cup Elements(Tail(pending[a]))
  BY <1>1, TailIsSequence
<1>3. /\ pending'[a] = Tail(pending[a])
      /\ \A b \in Agents : b # a => pending'[b] = pending[b]
      /\ pending' = [b \in Agents |-> pending'[b]]
  BY <1>1 DEF KeptInv, Shape
<1>4. Shape' /\ HandEmpty'
  <2>1. \A b \in Agents : IsSequence(pending'[b])
    BY <1>2, <1>3 DEF KeptInv, Shape
  <2> QED
    BY <1>1, <1>3, <2>1 DEF KeptInv, Shape, HandEmpty, IsSequence, Elements
<1>5. ASSUME NEW r \in taken' PROVE Covered(r)'
  <2>1. Covered(r)
    BY <1>1, <1>5 DEF KeptInv
  <2>2. CASE \/ r \in RowsOf(received) \/ r \in given
             \/ \E b \in Agents : r \in RowsOf(payload[b].events)
    BY <1>1, <2>2 DEF Covered, RowsOf
  <2>3. CASE \E b \in Agents : \E p \in Elements(pending[b]) : r \in RowsOf(p.events)
    <3>0. PICK b \in Agents : \E p \in Elements(pending[b]) : r \in RowsOf(p.events)
      BY <2>3
    <3>1. PICK p \in Elements(pending[b]) : r \in RowsOf(p.events)
      BY <3>0
    <3>2. CASE b = a /\ p = Head(pending[a])
      BY <1>1, <3>1, <3>2 DEF Covered, RowsOf
    <3>3. CASE ~(b = a /\ p = Head(pending[a]))
      <4>1. p \in Elements(pending'[b])
        BY <1>2, <1>3, <3>1, <3>3
      <4> QED
        BY <3>1, <4>1, Zenon DEF Covered, Elements
    <3> QED
      BY <3>2, <3>3
  <2> QED
    BY <2>1, <2>2, <2>3, Zenon DEF Covered
<1> QED
  BY <1>4, <1>5 DEF KeptInv

\* A row below the new cursor is in the result in hand.
LEMMA ReadKeeps ==
    ASSUME KeptInv, NEW a \in Agents, Read(a)
    PROVE  KeptInv'
<1>1. /\ pc[a] = "read" /\ pc' = [pc EXCEPT ![a] = "write"]
      /\ payload' = [payload EXCEPT ![a] = payload'[a]]
      /\ payload'[a].events = Collected(a)
      /\ taken' = taken \cup RowsOf(Collected(a))
      /\ UNCHANGED <<pending, received, given>>
  BY DEF Read, Goto, backend, KeptInv, Shape
<1>2. /\ \A b \in Agents : b # a => pc'[b] = pc[b] /\ payload'[b] = payload[b]
      /\ pc'[a] = "write" /\ payload[a].events = {}
  BY <1>1 DEF KeptInv, Shape, HandEmpty
<1>3. Shape' /\ HandEmpty'
  BY <1>1, <1>2 DEF KeptInv, Shape, HandEmpty
<1>4. ASSUME NEW r \in taken' PROVE Covered(r)'
  <2>1. CASE r \in RowsOf(Collected(a))
    BY <1>1, <2>1, Zenon DEF Covered, RowsOf
  <2>2. CASE r \in taken
    <3>1. Covered(r)
      BY <2>2 DEF KeptInv
    <3>2. ~ r \in RowsOf(payload[a].events)
      BY <1>2 DEF RowsOf
    <3> QED
      BY <1>1, <1>2, <3>1, <3>2, Zenon DEF Covered, RowsOf, Elements
  <2> QED
    BY <1>1, <1>4, <2>1, <2>2
<1> QED
  BY <1>3, <1>4 DEF KeptInv

\* WriteResults, and a crash in the middle of a run.
LEMMA WriteKeeps ==
    ASSUME KeptInv, NEW a \in Agents,
           PostOK(a) \/ Queue(a) \/ QueueRefused(a) \/ Crash(a)
    PROVE  KeptInv'
<1> DEFINE Ended == pc' = [pc EXCEPT ![a] = "idle"] /\ EndRun({a}) /\ taken' = taken
<1>1. /\ pending = [b \in Agents |-> pending[b]]
      /\ \A b \in Agents : IsSequence(pending[b])
  BY DEF KeptInv, Shape
<1>2. CASE PostOK(a)
  <2>1. /\ Ended /\ given' = given /\ pending' = pending
        /\ received' = received \cup payload[a].events
    BY <1>2, AcceptKeeps DEF PostOK, Goto, stores, history
  <2>2. \A r \in RowsOf(payload[a].events) : r \in RowsOf(received')
    BY <2>1 DEF RowsOf
  <2> QED
    BY <1>1, <2>1, <2>2, EndStep
<1>3. CASE Queue(a)
  <2>1. /\ Ended /\ given' = given
        /\ pending' = [pending EXCEPT ![a] = Append(@, payload[a])]
        /\ received \subseteq received'
    BY <1>3, AcceptKeeps DEF Queue, Goto, backend, history
  <2>2. /\ IsSequence(pending'[a])
        /\ Elements(pending'[a]) = Elements(pending[a]) \cup {payload[a]}
    BY <1>1, <2>1, AppendIsSequence
  <2>3. \A b \in Agents : b # a => pending'[b] = pending[b]
    BY <2>1, <1>1
  <2>4. \A b \in Agents : /\ IsSequence(pending'[b])
                          /\ Elements(pending[b]) \subseteq Elements(pending'[b])
    BY <1>1, <2>2, <2>3
  <2>5. pending' = [b \in Agents |-> pending'[b]]
    BY <1>1, <2>1
  <2>6. \A r \in RowsOf(payload[a].events) :
          \E p \in Elements(pending'[a]) : r \in RowsOf(p.events)
    BY <2>2
  <2> QED
    BY <2>1, <2>4, <2>5, <2>6, EndStep
<1>4. CASE QueueRefused(a) \/ Crash(a)
  <2>1. /\ Ended /\ given' = given \cup RowsOf(payload[a].events) /\ pending' = pending
        /\ received \subseteq received'
    BY <1>4, AcceptKeeps DEF QueueRefused, Crash, Goto, backend, stores
  <2> QED
    BY <1>1, <2>1, EndStep
<1> QED
  BY <1>2, <1>3, <1>4

LEMMA NextKeptInv == KeptInv /\ [Next]_vars => KeptInv'
<1> SUFFICES ASSUME KeptInv, [Next]_vars PROVE KeptInv'
  OBVIOUS
<1>1. ASSUME UNCHANGED <<pc, pending, payload, taken, given, received>> PROVE KeptInv'
  <2>1. \A r \in taken' : Covered(r)'
    BY <1>1, StillCovered DEF KeptInv
  <2> QED
    BY <1>1, <2>1 DEF KeptInv, Shape, HandEmpty, IsSequence, Elements
<1>2. CASE AppendRow \/ Rotate \/ LeaseExpires \/ UNCHANGED vars
  BY <1>1, <1>2 DEF AppendRow, Rotate, LeaseExpires, vars, env, backend, stores, run, history
<1>3. ASSUME NEW a \in Agents,
             \/ StartOffline(a) \/ StartOnline(a) \/ UploadStops(a) \/ UploadDone(a)
             \/ Lease(a) \/ NoLease(a) \/ Open(a) \/ ReadFails(a)
      PROVE  KeptInv'
  <2>1. /\ pc[a] # "write" /\ received \subseteq received'
        /\ \E to \in Pc : pc' = [pc EXCEPT ![a] = to]
        /\ UNCHANGED <<pending, payload, taken, given>>
    BY <1>3, AcceptKeeps DEF StartOffline, StartOnline, UploadStops, UploadDone, Lease,
       NoLease, Open, ReadFails, Goto, Pc, backend, stores, history
  <2> QED
    BY <2>1, QuietStep
<1>4. ASSUME NEW a \in Agents, UploadOne(a) PROVE KeptInv'
  BY <1>4, UploadOneKeeps
<1>5. ASSUME NEW a \in Agents, Read(a) PROVE KeptInv'
  BY <1>5, ReadKeeps
<1>6. ASSUME NEW a \in Agents, PostOK(a) \/ Queue(a) \/ QueueRefused(a) \/ Crash(a)
      PROVE  KeptInv'
  BY <1>6, WriteKeeps
<1> QED
  BY <1>2, <1>3, <1>4, <1>5, <1>6, Zenon DEF Next, AgentStep

-----------------------------------------------------------------------------
(* Types.                                                                  *)

\* The file as an agent saw it is the one that is there, or an older one.
FileInv ==
    /\ file \in Files /\ opened \in [Agents -> Files]
    /\ file.gen <= file.stamp
    /\ \A a \in Agents :
          /\ opened[a].gen <= file.gen /\ opened[a].stamp <= file.stamp
          /\ opened[a].gen = file.gen => opened[a].size <= file.size
          /\ pc[a] = "read" /\ opened[a].stamp = file.stamp => opened[a] = file

StoresTyped ==
    /\ cursor \in [Agents -> Positions] /\ known \in Positions
    /\ base \in [Agents -> Positions]
    /\ pending \in [Agents -> Seq(Payloads)] /\ payload \in [Agents -> Payloads]
    /\ received \subseteq Events
    /\ taken \subseteq RowIds /\ given \subseteq RowIds

ControlTyped ==
    /\ lease \in Agents \cup {Nobody}
    /\ pc \in [Agents -> Pc]
    /\ online \in [Agents -> BOOLEAN] /\ leased \in [Agents -> BOOLEAN]
    /\ uploads \in [Agents -> 0..UploadMaxFilesPerRun]
    /\ cut \in BOOLEAN /\ falseReset \in BOOLEAN
    /\ faults \in 0..MaxFaults

\* What Collect reads, while the agent's file is open.
LEMMA ReaderTypes ==
    ASSUME FileInv, StoresTyped, ControlTyped, NEW a \in Agents, Readable(a) > 0
    PROVE  /\ Loaded(a) \in Positions /\ opened[a] \in Files
           /\ From(a) \in Positions /\ From(a).offset <= opened[a].size
           /\ opened[a].size <= Readable(a) /\ Readable(a) \in 1..MaxSize
           /\ HeaderLength(a) \in {0, 1}
           /\ HeaderLength(a) <= Readable(a) - From(a).offset
           /\ RowCount(a) \in 0..MaxRows
           /\ RowCount(a) <= Readable(a) - From(a).offset - HeaderLength(a)
<1>1. Loaded(a) \in Positions /\ opened[a] \in Files /\ file \in Files
  BY DEF Loaded, FileInv, StoresTyped
<1>2. opened[a].size \in Nat /\ Loaded(a).offset \in Nat /\ MaxSize \in Nat /\ MaxRows \in Nat
  BY <1>1, IngestionAssumption DEF Files, Positions
<1>3. From(a) \in Positions
  BY <1>1 DEF From, Positions
<1>4. From(a).offset <= opened[a].size
  <2>1. CASE Rotated(a) \/ Truncated(a)
    BY <1>1, <1>2, <2>1 DEF From, Positions
  <2>2. CASE ~(Rotated(a) \/ Truncated(a))
    BY <1>2, <2>2 DEF From, Truncated
  <2> QED
    BY <2>1, <2>2
<1>5. opened[a].size <= Readable(a) /\ Readable(a) \in 1..MaxSize
  BY <1>1, <1>2 DEF Readable, FileInv, Files
<1>6. From(a).offset \in Nat
  BY <1>3 DEF Positions
<1>7. /\ HeaderLength(a) \in {0, 1}
      /\ HeaderLength(a) <= Readable(a) - From(a).offset
  BY <1>2, <1>4, <1>5, <1>6 DEF HeaderLength
<1>8. /\ RowCount(a) \in 0..MaxRows
      /\ RowCount(a) <= Readable(a) - From(a).offset - HeaderLength(a)
  BY <1>2, <1>4, <1>5, <1>6, <1>7 DEF RowCount, RowsLeft, Least
<1> QED
  BY <1>1, <1>3, <1>4, <1>5, <1>7, <1>8

LEMMA OffsetIsNumber ==
    ASSUME FileInv, StoresTyped, ControlTyped, NEW a \in Agents, Readable(a) > 0
    PROVE  /\ Offset(a) \in Nat
           /\ From(a).offset + HeaderLength(a) + RowCount(a) = Readable(a) =>
                  Offset(a) >= Readable(a)
<1> DEFINE rest == Readable(a) - From(a).offset
           b    == From(a).offset + HeaderFetched(a)
           c    == [k \in 0..MaxRows |-> Fetched(rest, HeaderLength(a) + k) - HeaderFetched(a)]
<1>1. /\ rest \in Nat /\ From(a).offset \in Nat
      /\ HeaderLength(a) \in Nat /\ RowCount(a) \in 0..MaxRows /\ MaxRows \in Nat
  BY ReaderTypes, IngestionAssumption DEF Positions
<1>2. HeaderFetched(a) = Fetched(rest, HeaderLength(a))
  BY DEF HeaderFetched
<1>3. PICK f : AddsUp(f, MaxRows, b, c) /\ Offset(a) = f[RowCount(a)]
  BY OffsetIsSum
<1>0. /\ Readable(a) = From(a).offset + rest /\ Readable(a) \in Nat
      /\ HeaderLength(a) <= rest /\ RowCount(a) <= rest - HeaderLength(a)
  BY <1>1, ReaderTypes DEF Positions
<1> HIDE DEF rest
<1>4. \A m, n \in Nat : m <= n => /\ Fetched(rest, m) \in Nat
                                 /\ Fetched(rest, m) <= Fetched(rest, n)
  <2> SUFFICES ASSUME NEW m \in Nat, NEW n \in Nat, m <= n
               PROVE  Fetched(rest, m) \in 0..rest /\ Fetched(rest, m) <= Fetched(rest, n)
    BY <1>1
  <2> QED
    BY <1>1, FetchedGrows
<1>5. b \in Nat
  BY <1>1, <1>2, <1>4
<1>6. ASSUME NEW k \in 1..MaxRows PROVE c[k] \in Nat
  <2>1. HeaderLength(a) + k \in Nat /\ HeaderLength(a) <= HeaderLength(a) + k
    BY <1>1
  <2>2. /\ Fetched(rest, HeaderLength(a)) \in Nat
        /\ Fetched(rest, HeaderLength(a) + k) \in Nat
        /\ Fetched(rest, HeaderLength(a)) <= Fetched(rest, HeaderLength(a) + k)
    BY <1>1, <1>4, <2>1
  <2>3. c[k] = Fetched(rest, HeaderLength(a) + k) - HeaderFetched(a)
    BY <1>1
  <2> QED
    BY <1>2, <2>2, <2>3
<1>7. RowCount(a) > 0 =>
          c[RowCount(a)] = Fetched(rest, HeaderLength(a) + RowCount(a)) - HeaderFetched(a)
  BY <1>1
<1>8. b = From(a).offset + HeaderFetched(a) /\ HeaderFetched(a) \in Nat
  BY <1>1, <1>2, <1>4
<1> HIDE DEF b, c
<1>9. \A k \in 0..MaxRows : f[k] \in Nat /\ f[k] >= b
  BY <1>1, <1>3, <1>5, <1>6, SumOfNumbers
<1>10. ASSUME HeaderLength(a) + RowCount(a) = rest PROVE Offset(a) >= From(a).offset + rest
  <2>1. Fetched(rest, HeaderLength(a) + RowCount(a)) = rest
    BY <1>1, <1>10, FetchedAll
  <2>2. CASE RowCount(a) = 0
    <3>1. HeaderFetched(a) = rest
      BY <1>1, <1>2, <2>1, <2>2
    <3> QED
      BY <1>1, <1>3, <1>8, <1>9, <2>2, <3>1
  <2>3. CASE RowCount(a) > 0
    <3>1. RowCount(a) - 1 \in 0..MaxRows
      BY <1>1, <2>3
    <3>2. f[RowCount(a)] = f[RowCount(a) - 1] + c[RowCount(a)]
      BY <1>1, <1>3, <2>3 DEF AddsUp
    <3> QED
      BY <1>1, <1>3, <1>7, <1>8, <1>9, <2>1, <2>3, <3>1, <3>2
  <2> QED
    BY <1>1, <2>2, <2>3
<1>11. Offset(a) \in Nat
  BY <1>1, <1>3, <1>9
<1> QED
  BY <1>0, <1>1, <1>10, <1>11

\* The event of the k-th row.
Event(a, k) == [row  |-> <<opened[a].gen, From(a).offset + HeaderLength(a) + k>>,
                line |-> From(a).line + k]

LEMMA CollectedTypes ==
    ASSUME FileInv, StoresTyped, ControlTyped, NEW a \in Agents, Readable(a) > 0
    PROVE  Collected(a) \subseteq Events /\ RowsOf(Collected(a)) \subseteq RowIds
<1>1. Collected(a) = {Event(a, k) : k \in 1..RowCount(a)}
  BY DEF Collected, Event
<1>2. ASSUME NEW k \in 1..RowCount(a) PROVE Event(a, k) \in Events
  <2> DEFINE n == From(a).offset + HeaderLength(a) + k
             l == From(a).line + k
  <2>1. n \in 1..MaxSize /\ l \in Nat
    BY ReaderTypes, IngestionAssumption DEF Positions
  <2>2. opened[a].gen \in 1..MaxStamp
    BY ReaderTypes DEF Files
  <2>3. Event(a, k) = [row |-> <<opened[a].gen, n>>, line |-> l]
    BY DEF Event
  <2> HIDE DEF n, l
  <2> QED
    BY <2>1, <2>2, <2>3 DEF Events, RowIds
<1>3. Collected(a) \subseteq Events
  BY <1>1, <1>2
<1> HIDE DEF RowIds
<1> QED
  BY <1>3, Zenon DEF RowsOf, Events

LEMMA FileStep ==
    ASSUME FileInv, ControlTyped, [Next]_vars
    PROVE  FileInv'
<1>0. pc \in [Agents -> Pc]
  BY DEF ControlTyped
<1>1. CASE AppendRow
  <2>1. /\ file' = [file EXCEPT !.size = @ + 1, !.stamp = @ + 1]
        /\ file.stamp < MaxStamp /\ file.size < MaxSize /\ UNCHANGED <<pc, opened>>
    BY <1>1 DEF AppendRow, run
  <2>2. /\ file' \in Files /\ file'.gen = file.gen
        /\ file'.size = file.size + 1 /\ file'.stamp = file.stamp + 1
    <3> DEFINE Gens == 1..MaxStamp
               Sizes == 0..MaxSize
    <3>1. file \in [gen : Gens, size : Sizes, stamp : Gens]
      BY DEF FileInv, Files
    <3>2. file.size + 1 \in Sizes /\ file.stamp + 1 \in Gens
      BY <2>1, IngestionAssumption DEF FileInv, Files
    <3> HIDE DEF Gens, Sizes
    <3>3. /\ file' \in [gen : Gens, size : Sizes, stamp : Gens] /\ file'.gen = file.gen
          /\ file'.size = file.size + 1 /\ file'.stamp = file.stamp + 1
      BY <2>1, <3>1, <3>2
    <3> QED
      BY <3>3 DEF Files, Gens, Sizes
  <2>3. /\ {file.gen, file.size, file.stamp} \subseteq Nat
        /\ \A b \in Agents : {opened[b].gen, opened[b].size, opened[b].stamp} \subseteq Nat
    BY DEF FileInv, Files
  <2> HIDE DEF Files
  <2>4. /\ file'.gen <= file'.stamp /\ opened' = opened
        /\ \A b \in Agents : /\ opened[b].gen <= file'.gen /\ opened[b].stamp < file'.stamp
                             /\ opened[b].gen = file'.gen => opened[b].size <= file'.size
    BY <2>1, <2>2, <2>3 DEF FileInv
  <2> QED
    BY <2>2, <2>3, <2>4 DEF FileInv
<1>2. CASE Rotate
  <2>1. PICK n \in 1..MaxSize :
           file' = [gen |-> file.gen + 1, size |-> n, stamp |-> file.stamp + 1]
    BY <1>2 DEF Rotate
  <2>2. file.stamp < MaxStamp /\ UNCHANGED <<pc, opened>>
    BY <1>2 DEF Rotate, run
  <2> QED
    BY <2>1, <2>2, IngestionAssumption DEF FileInv, Files
<1>3. ASSUME UNCHANGED <<file, opened>>, \A b \in Agents : pc'[b] = "read" => pc[b] = "read"
      PROVE  FileInv'
  BY <1>3 DEF FileInv
<1>4. ASSUME NEW a \in Agents, file' = file, EndRun({a}), pc' = [pc EXCEPT ![a] = "idle"]
      PROVE  FileInv'
  <2>1. NewFile \in Files /\ NewFile.gen = 1 /\ NewFile.stamp = 1 /\ NewFile.size = 0
    BY IngestionAssumption DEF NewFile, Files
  <2>2. /\ opened' = [b \in Agents |-> IF b = a THEN NewFile ELSE opened[b]]
        /\ \A b \in Agents : pc'[b] = IF b = a THEN "idle" ELSE pc[b]
    BY <1>0, <1>4 DEF EndRun
  <2> HIDE DEF NewFile
  <2> QED
    BY <1>4, <2>1, <2>2 DEF FileInv, Files
<1>5. ASSUME NEW a \in Agents, Open(a) PROVE FileInv'
  <2>1. /\ opened' = [b \in Agents |-> IF b = a THEN file ELSE opened[b]]
        /\ \A b \in Agents : pc'[b] = IF b = a THEN "read" ELSE pc[b]
        /\ file' = file
    BY <1>0, <1>5 DEF Open, Goto, env, FileInv
  <2> QED
    BY <2>1 DEF FileInv, Files
<1>6. CASE LeaseExpires \/ UNCHANGED vars
  BY <1>3, <1>6 DEF LeaseExpires, vars, env, run
<1>7. ASSUME NEW a \in Agents,
             \/ StartOffline(a) \/ StartOnline(a) \/ UploadOne(a) \/ UploadStops(a)
             \/ UploadDone(a) \/ Lease(a) \/ NoLease(a) \/ Read(a) \/ ReadFails(a)
      PROVE  FileInv'
  <2>1. UNCHANGED <<file, opened>>
    BY <1>7 DEF StartOffline, StartOnline, UploadOne, UploadStops, UploadDone, Lease, NoLease,
       Read, ReadFails, env
  <2>2. pc' = pc \/ \E to \in {"open", "upload", "lease", "write"} : pc' = [pc EXCEPT ![a] = to]
    BY <1>7 DEF StartOffline, StartOnline, UploadOne, UploadStops, UploadDone, Lease, NoLease,
       Read, ReadFails, Goto
  <2> QED
    BY <1>0, <1>3, <2>1, <2>2
<1>8. ASSUME NEW a \in Agents, PostOK(a) \/ Queue(a) \/ QueueRefused(a) \/ Crash(a)
      PROVE  FileInv'
  BY <1>4, <1>8 DEF PostOK, Queue, QueueRefused, Crash, Goto, env
<1> QED
  BY <1>1, <1>2, <1>5, <1>6, <1>7, <1>8, Zenon DEF Next, AgentStep

LEMMA AcceptControl ==
    ASSUME NEW a, NEW p, Accept(a, p)
    PROVE  lease' \in {lease, Nobody}
BY DEF Accept

\* The end of a run resets what the run had.
LEMMA EndControl ==
    ASSUME ControlTyped, NEW a \in Agents, EndRun({a}), pc' = [pc EXCEPT ![a] = "idle"],
           lease' \in {lease, Nobody}, UNCHANGED <<cut, falseReset>>, faults' \in 0..MaxFaults
    PROVE  ControlTyped'
<1>1. UploadMaxFilesPerRun \in Nat
  BY IngestionAssumption
<1>2. uploads' = [b \in Agents |-> IF b = a THEN 0 ELSE uploads[b]]
  BY DEF EndRun
<1>3. uploads' \in [Agents -> 0..UploadMaxFilesPerRun]
  BY <1>1, <1>2 DEF ControlTyped
<1>4. /\ online' = [b \in Agents |-> b # a /\ online[b]]
      /\ leased' = [b \in Agents |-> b # a /\ leased[b]]
  BY Zenon DEF EndRun
<1>5. online' \in [Agents -> BOOLEAN] /\ leased' \in [Agents -> BOOLEAN]
  BY <1>4, Zenon
<1>6. pc' \in [Agents -> Pc] /\ lease' \in Agents \cup {Nobody}
  BY DEF ControlTyped, Pc
<1> QED
  BY <1>3, <1>5, <1>6, Zenon DEF ControlTyped

LEMMA ControlStep ==
    ASSUME ControlTyped, [Next]_vars
    PROVE  ControlTyped'
<1>0. /\ {UploadMaxFilesPerRun, MaxFaults} \subseteq Nat
      /\ faults \in 0..MaxFaults /\ (Fault => faults' \in 0..MaxFaults)
  BY IngestionAssumption DEF ControlTyped, Fault
<1>1. CASE AppendRow \/ Rotate \/ UNCHANGED vars
  BY <1>1, Zenon DEF AppendRow, Rotate, vars, backend, run, history, ControlTyped
<1>2. CASE LeaseExpires
  BY <1>2 DEF LeaseExpires, run, history, ControlTyped
<1>3. ASSUME NEW a \in Agents, NEW to \in Pc, pc' = [pc EXCEPT ![a] = to] \/ pc' = pc,
             UNCHANGED <<online, leased, cut, falseReset>>,
             lease' \in {lease, Nobody, a}, faults' \in 0..MaxFaults,
             uploads' \in [Agents -> 0..UploadMaxFilesPerRun]
      PROVE  ControlTyped'
  BY <1>3 DEF ControlTyped
<1>4. ASSUME NEW a \in Agents,
             \/ StartOffline(a) \/ UploadDone(a) \/ UploadStops(a) \/ NoLease(a)
             \/ Open(a) \/ ReadFails(a)
      PROVE  ControlTyped'
  <2>1. /\ \E to \in Pc : pc' = [pc EXCEPT ![a] = to]
        /\ UNCHANGED <<online, leased, cut, falseReset, uploads>>
        /\ lease' \in {lease, Nobody, a}
    BY <1>4, AcceptControl DEF StartOffline, UploadDone, UploadStops, NoLease, Open, ReadFails,
       Goto, Pc, backend, history
  <2>2. faults' \in 0..MaxFaults
    BY <1>0, <1>4 DEF StartOffline, UploadDone, UploadStops, NoLease, Open, ReadFails
  <2>3. uploads' \in [Agents -> 0..UploadMaxFilesPerRun]
    BY <2>1 DEF ControlTyped
  <2> QED
    BY <1>3, <2>1, <2>2, <2>3
<1>5. ASSUME NEW a \in Agents, UploadOne(a) PROVE ControlTyped'
  <2>1. /\ pc' = pc /\ UNCHANGED <<online, leased, cut, falseReset, faults>>
        /\ lease' \in {lease, Nobody, a}
    BY <1>5, AcceptControl DEF UploadOne, history
  <2>2. uploads[a] > 0 /\ uploads' = [uploads EXCEPT ![a] = @ - 1]
    BY <1>5 DEF UploadOne
  <2>3. uploads' \in [Agents -> 0..UploadMaxFilesPerRun]
    BY <1>0, <2>2 DEF ControlTyped
  <2> QED
    BY <1>0, <2>1, <2>3 DEF ControlTyped
<1>6. ASSUME NEW a \in Agents, StartOnline(a) PROVE ControlTyped'
  <2>1. /\ pc' = [pc EXCEPT ![a] = "upload"] /\ online' = [online EXCEPT ![a] = TRUE]
        /\ uploads' = [uploads EXCEPT ![a] = UploadMaxFilesPerRun]
        /\ UNCHANGED <<lease, leased, cut, falseReset, faults>>
    BY <1>6 DEF StartOnline, Goto, backend, history
  <2>2. uploads' \in [Agents -> 0..UploadMaxFilesPerRun] /\ pc' \in [Agents -> Pc]
    BY <1>0, <2>1 DEF ControlTyped, Pc
  <2>3. online' \in [Agents -> BOOLEAN]
    BY <2>1, Zenon DEF ControlTyped
  <2> QED
    BY <2>1, <2>2, <2>3, Zenon DEF ControlTyped
<1>7. ASSUME NEW a \in Agents, Lease(a) PROVE ControlTyped'
  <2>1. /\ pc' = [pc EXCEPT ![a] = "open"] /\ leased' = [leased EXCEPT ![a] = TRUE]
        /\ lease' = a
        /\ UNCHANGED <<online, uploads, cut, falseReset, faults>>
    BY <1>7 DEF Lease, Goto, history
  <2>2. pc' \in [Agents -> Pc] /\ lease' \in Agents \cup {Nobody}
    BY <2>1 DEF ControlTyped, Pc
  <2>3. leased' \in [Agents -> BOOLEAN]
    BY <2>1, Zenon DEF ControlTyped
  <2> QED
    BY <2>1, <2>2, <2>3, Zenon DEF ControlTyped
<1>8. ASSUME NEW a \in Agents, Read(a) PROVE ControlTyped'
  <2>1. /\ pc' = [pc EXCEPT ![a] = "write"]
        /\ UNCHANGED <<lease, online, leased, uploads, faults>>
    BY <1>8 DEF Read, Goto, backend
  <2>2. cut' \in BOOLEAN /\ falseReset' \in BOOLEAN
    BY <1>8, Zenon DEF Read, ControlTyped
  <2>3. pc' \in [Agents -> Pc]
    BY <2>1 DEF ControlTyped, Pc
  <2> QED
    BY <2>1, <2>2, <2>3, Zenon DEF ControlTyped
<1>9. ASSUME NEW a \in Agents, PostOK(a) \/ Queue(a) \/ QueueRefused(a) \/ Crash(a)
      PROVE  ControlTyped'
  <2>1. /\ pc' = [pc EXCEPT ![a] = "idle"] /\ EndRun({a}) /\ UNCHANGED <<cut, falseReset>>
    BY <1>9 DEF PostOK, Queue, QueueRefused, Crash, Goto, history
  <2>2. lease' \in {lease, Nobody}
    BY <1>9, AcceptControl DEF PostOK, Queue, QueueRefused, Crash, backend
  <2>3. faults' \in 0..MaxFaults
    BY <1>0, <1>9 DEF PostOK, Queue, QueueRefused, Crash
  <2> QED
    BY <2>1, <2>2, <2>3, EndControl
<1> QED
  BY <1>1, <1>2, <1>4, <1>5, <1>6, <1>7, <1>8, <1>9, Zenon DEF Next, AgentStep

LEMMA AcceptTyped ==
    ASSUME StoresTyped, NEW a, NEW p \in Payloads, Accept(a, p)
    PROVE  known' \in Positions /\ received' \subseteq Events
<1>1. p.events \subseteq Events /\ p.position \in Positions
  BY Zenon DEF Payloads
<1> QED
  BY <1>1, Zenon DEF Accept, StoresTyped

LEMMA StartTyped == Start \in Positions /\ Nothing \in Payloads
<1>1. Start \in Positions
  BY IngestionAssumption DEF Start, Positions
<1> HIDE DEF Start
<1> QED
  BY <1>1 DEF Nothing, Payloads

LEMMA StoresStep ==
    ASSUME StoresTyped, FileInv, ControlTyped, [Next]_vars
    PROVE  StoresTyped'
<1>1. CASE AppendRow \/ Rotate \/ LeaseExpires \/ UNCHANGED vars
  BY <1>1, Zenon DEF AppendRow, Rotate, LeaseExpires, vars, backend, stores, run, history, StoresTyped
<1>2. ASSUME NEW a \in Agents,
             StartOffline(a) \/ StartOnline(a) \/ UploadDone(a) \/ NoLease(a) \/ Open(a) \/ ReadFails(a)
      PROVE  StoresTyped'
  <2>1. UNCHANGED <<cursor, known, base, pending, payload, received, taken, given>>
    BY <1>2, Zenon DEF StartOffline, StartOnline, UploadDone, NoLease, Open, ReadFails, backend, stores, history
  <2> QED
    BY <2>1, Zenon DEF StoresTyped
<1>3. ASSUME NEW a \in Agents, UploadOne(a) \/ UploadStops(a) PROVE StoresTyped'
  <2>1. pending[a] \in Seq(Payloads) /\ pending[a] # <<>>
    BY <1>3 DEF UploadOne, UploadStops, StoresTyped
  <2>2. Head(pending[a]) \in Payloads /\ Tail(pending[a]) \in Seq(Payloads)
    <3> HIDE DEF Payloads
    <3> QED BY <2>1
  <2>3. known' \in Positions /\ received' \subseteq Events
    BY <1>3, <2>2, AcceptTyped, Zenon DEF UploadOne, UploadStops, backend, StoresTyped
  <2>4. pending' \in [Agents -> Seq(Payloads)]
    <3> HIDE DEF Payloads
    <3>1. pending' = [pending EXCEPT ![a] = Tail(pending[a])] \/ pending' = pending
      BY <1>3 DEF UploadOne, UploadStops, stores
    <3> QED BY <2>2, <3>1 DEF StoresTyped
  <2>5. UNCHANGED <<cursor, base, payload, taken, given>>
    BY <1>3, Zenon DEF UploadOne, UploadStops, stores, history
  <2> QED
    BY <2>3, <2>4, <2>5, Zenon DEF StoresTyped
<1>4. ASSUME NEW a \in Agents, Lease(a) PROVE StoresTyped'
  <2>1. /\ UNCHANGED <<cursor, known, pending, payload, received, taken, given>>
        /\ base' = [base EXCEPT ![a] = known]
    BY <1>4, Zenon DEF Lease, stores, history
  <2>2. base' \in [Agents -> Positions]
    BY <2>1 DEF StoresTyped
  <2> QED
    BY <2>1, <2>2, Zenon DEF StoresTyped
<1>5. ASSUME NEW a \in Agents, Read(a) PROVE StoresTyped'
  <2> DEFINE position == [stamp |-> opened[a].stamp, offset |-> Offset(a),
                          line |-> From(a).line + RowCount(a)]
             sent     == IF leased[a] THEN position ELSE Start
             result   == [events |-> Collected(a), leased |-> leased[a], position |-> sent]
  <2>1. Readable(a) > 0 /\ leased[a] \in BOOLEAN
    BY <1>5 DEF Read, ControlTyped
  <2>2. position \in Positions
    <3>1. opened[a].stamp \in 0..MaxStamp /\ From(a).line \in Nat /\ RowCount(a) \in Nat
      BY <2>1, ReaderTypes, IngestionAssumption DEF Files, Positions
    <3> QED
      BY <2>1, <3>1, OffsetIsNumber DEF Positions
  <2>3. Collected(a) \subseteq Events /\ RowsOf(Collected(a)) \subseteq RowIds
    BY <2>1, CollectedTypes
  <2>4. /\ cursor' = [cursor EXCEPT ![a] = position]
        /\ payload' = [payload EXCEPT ![a] = result]
        /\ taken' = taken \cup RowsOf(Collected(a))
        /\ UNCHANGED <<known, base, pending, received, given>>
    BY <1>5 DEF Read, backend
  <2> HIDE DEF position
  <2>5. sent \in Positions
    BY <2>2, StartTyped
  <2> HIDE DEF sent
  <2>6. result \in Payloads
    BY <2>1, <2>3, <2>5, Zenon DEF Payloads
  <2> HIDE DEF result
  <2>7. cursor' \in [Agents -> Positions] /\ payload' \in [Agents -> Payloads]
    BY <2>2, <2>4, <2>6, Zenon DEF StoresTyped
  <2>8. taken' \subseteq RowIds
    BY <2>3, <2>4, Zenon DEF StoresTyped
  <2> QED
    BY <2>4, <2>7, <2>8, Zenon DEF StoresTyped
<1>6. ASSUME NEW a \in Agents, PostOK(a) \/ Queue(a) \/ QueueRefused(a) \/ Crash(a)
      PROVE  StoresTyped'
  <2>1. payload[a] \in Payloads /\ payload[a].events \subseteq Events
    BY Zenon DEF StoresTyped, Payloads
  <2>2. RowsOf(payload[a].events) \subseteq RowIds
    BY <2>1, Zenon DEF RowsOf, Events
  <2>3. pending[a] \in Seq(Payloads)
    BY DEF StoresTyped
  <2>4. pending[a] # <<>> => Head(pending[a]) \in Payloads
    <3> HIDE DEF Payloads
    <3> QED BY <2>3
  <2>5. known' \in Positions /\ received' \subseteq Events
    BY <1>6, <2>1, <2>4, AcceptTyped, Zenon DEF PostOK, Queue, QueueRefused, Crash, backend, StoresTyped
  <2>6. pending' \in [Agents -> Seq(Payloads)]
    <3>1. pending' = [pending EXCEPT ![a] = Append(pending[a], payload[a])] \/ pending' = pending
      BY <1>6 DEF PostOK, Queue, QueueRefused, Crash, stores
    <3>2. Append(pending[a], payload[a]) \in Seq(Payloads)
      <4> HIDE DEF Payloads
      <4> QED BY <2>1, <2>3
    <3> HIDE DEF Payloads
    <3> QED BY <3>1, <3>2 DEF StoresTyped
  <2>7. EndRun({a}) /\ cursor' = cursor /\ taken' = taken
    BY <1>6, Zenon DEF PostOK, Queue, QueueRefused, Crash, stores, history
  <2>8. /\ base' = [b \in Agents |-> IF b = a THEN Start ELSE base[b]]
        /\ payload' = [b \in Agents |-> IF b = a THEN Nothing ELSE payload[b]]
    BY <2>7 DEF EndRun
  <2>9. base' \in [Agents -> Positions] /\ payload' \in [Agents -> Payloads]
    BY <2>8, StartTyped DEF StoresTyped
  <2>10. given' = given \/ given' = given \cup RowsOf(payload[a].events)
    BY <1>6, Zenon DEF PostOK, Queue, QueueRefused, Crash, history
  <2>11. given' \subseteq RowIds
    BY <2>2, <2>10, Zenon DEF StoresTyped
  <2> QED
    BY <2>5, <2>6, <2>7, <2>9, <2>11, Zenon DEF StoresTyped
<1> QED
  BY <1>1, <1>2, <1>3, <1>4, <1>5, <1>6, Zenon DEF Next, AgentStep

LEMMA TypeInit == Init => FileInv /\ ControlTyped /\ StoresTyped
<1> SUFFICES ASSUME Init PROVE FileInv /\ ControlTyped /\ StoresTyped
  OBVIOUS
<1>1. FileInv
  BY IngestionAssumption DEF Init, FileInv, NewFile, Files
<1>2. ControlTyped
  <2>1. uploads \in [Agents -> 0..UploadMaxFilesPerRun] /\ faults \in 0..MaxFaults
    BY IngestionAssumption DEF Init
  <2> QED
    BY <2>1, Zenon DEF Init, ControlTyped, Pc
<1>3. <<>> \in Seq(Payloads)
  BY Zenon, EmptySeq
<1>4. StoresTyped
  BY <1>3, StartTyped, Zenon DEF Init, StoresTyped
<1> QED
  BY <1>1, <1>2, <1>4

\* Files, positions, events and results are what the code takes them for,
\* however the files change between the Stat and the end of the reading; the
\* offset, a sum of what the reader has fetched, is one that can be sought
\* (csvlog.go:106-181).
THEOREM IngestionTypes == Spec => []TypeOK
<1> DEFINE I == FileInv /\ ControlTyped /\ StoresTyped
<1>1. I /\ [Next]_vars => I'
  BY FileStep, ControlStep, StoresStep
<1>2. I => TypeOK
  BY Zenon DEF FileInv, ControlTyped, StoresTyped, TypeOK
<1> QED
  BY TypeInit, <1>1, <1>2, PTL DEF Spec

\* A row that a saved cursor has passed is at the backend, in a pending file or
\* in the result being written, unless a crash or a pending directory that
\* refused the result lost it (csvlog.go:181, output.go:108-193): for any number
\* of agents, whatever the lease, the log and the network do.
THEOREM NoPassedRowLost == Spec => []PassedRowsAreKept
<1>1. KeptInv => PassedRowsAreKept
  BY KeptMeansCovered DEF KeptInv
<1> QED
  BY <1>1, InitKeptInv, NextKeptInv, PTL DEF Spec

-----------------------------------------------------------------------------
(* Positions and line numbers.                                             *)

\* The offset may be past the end, because what was fetched is added again with
\* every row; if that file is opened again, it counts as truncated.
AtEnd(p, f) == f.size > 0 /\ p.offset >= f.size /\ p.line + 1 = f.size

\* A position belongs to the file as it is now, and then to its end with all the
\* rows taken, or to one that nobody will open again.
Right(p, f, rows) ==
    /\ p.stamp <= f.stamp
    /\ p.stamp = 0 => p = Start
    /\ p.stamp = f.stamp => AtEnd(p, f) /\ \A i \in 2..f.size : <<f.gen, i>> \in rows

Numbered(e) == e.line + 1 = e.row[2]

\* The results an agent still has.
Held(a) == Elements(pending[a]) \cup {payload[a]}

Around(p) ==
    \/ p = known
    \/ \E a \in Agents : p \in {cursor[a], base[a]} \/ \E r \in Held(a) : p = r.position

Seen(e) == e \in received \/ \E a \in Agents : \E r \in Held(a) : e \in r.events

PositionInv ==
    /\ \A p : Around(p) => Right(p, file, taken)
    /\ \A e : Seen(e) => Numbered(e)
    /\ \A a \in Agents :
          pc[a] = "read" /\ Loaded(a).stamp = opened[a].stamp => AtEnd(Loaded(a), opened[a])

LEMMA AroundTyped ==
    ASSUME StoresTyped, NEW p, Around(p)
    PROVE  p \in Positions
<1>1. ASSUME NEW a \in Agents, NEW r \in Held(a) PROVE r.position \in Positions
  <2>1. pending[a] \in Seq(Payloads) /\ payload[a] \in Payloads
    BY DEF StoresTyped
  <2>2. \A i \in DOMAIN pending[a] : pending[a][i] \in Payloads
    <3> HIDE DEF Payloads
    <3> QED BY <2>1
  <2>3. r \in Payloads
    BY <2>1, <2>2, Zenon DEF Held, Elements
  <2> QED
    BY <2>3, Zenon DEF Payloads
<1> QED
  BY <1>1 DEF Around, StoresTyped

LEMMA StartIsRight ==
    ASSUME FileInv, NEW rows
    PROVE  Right(Start, file, rows)
BY DEF FileInv, Files, Start, Right

\* With every write to the file, all positions are those of an older one.
LEMMA RightAges ==
    ASSUME NEW p \in Positions, NEW f, NEW g, NEW rows, Right(p, f, rows),
           f.stamp \in Nat, g.stamp = f.stamp + 1
    PROVE  Right(p, g, rows)
BY DEF Right, Positions

LEMMA RightStays ==
    ASSUME NEW p, NEW f, NEW rows, NEW more, Right(p, f, rows), rows \subseteq more
    PROVE  Right(p, f, more)
BY Zenon DEF Right

-----------------------------------------------------------------------------
(* The reader again, on a file whose rows it all takes.                    *)

LoadedAtEnd(a) == Loaded(a).stamp = opened[a].stamp => AtEnd(Loaded(a), opened[a])

\* Reading starts at the top or at the end of what Stat saw.
LEMMA FromShape ==
    ASSUME FileInv, StoresTyped, ControlTyped, NEW a \in Agents, Readable(a) > 0,
           Right(Loaded(a), file, taken), LoadedAtEnd(a)
    PROVE  \/ From(a).offset = 0 /\ From(a).line = 0
           \/ /\ From(a) = Loaded(a) /\ Loaded(a).stamp = opened[a].stamp
              /\ From(a).offset = opened[a].size /\ From(a).line + 1 = opened[a].size
              /\ opened[a].size > 0
<1>1. Loaded(a) \in Positions
  BY ReaderTypes
<1>2. CASE Rotated(a) \/ Truncated(a)
  BY <1>1, <1>2 DEF From, Positions
<1>3. CASE ~(Rotated(a) \/ Truncated(a))
  <2>1. From(a) = Loaded(a) /\ Loaded(a).stamp \in {0, opened[a].stamp}
    BY <1>3 DEF From, Rotated
  <2>2. CASE Loaded(a).stamp = 0
    BY <2>1, <2>2 DEF Right, Start
  <2>3. CASE Loaded(a).stamp = opened[a].stamp
    <3>1. From(a).offset <= opened[a].size /\ opened[a].size \in Nat
      BY ReaderTypes DEF Files
    <3> QED
      BY <1>1, <2>1, <2>3, <3>1 DEF LoadedAtEnd, AtEnd, Positions
  <2> QED
    BY <2>1, <2>2, <2>3
<1> QED
  BY <1>2, <1>3

LEMMA CollectedNumbered ==
    ASSUME FileInv, StoresTyped, ControlTyped, NEW a \in Agents, Readable(a) > 0,
           Right(Loaded(a), file, taken), LoadedAtEnd(a),
           NEW e \in Collected(a)
    PROVE  Numbered(e)
<1>1. PICK k \in 1..RowCount(a) : e = Event(a, k)
  BY DEF Collected, Event
<1> DEFINE n == From(a).offset + HeaderLength(a) + k
           l == From(a).line + k
<1>2. /\ From(a).offset \in Nat /\ From(a).line \in Nat /\ k \in Nat
  BY ReaderTypes DEF Positions
<1>3. l + 1 = n
  BY <1>2, FromShape DEF HeaderLength
<1>4. e = [row |-> <<opened[a].gen, n>>, line |-> l]
  BY <1>1 DEF Event
<1> HIDE DEF n, l
<1> QED
  BY <1>3, <1>4 DEF Numbered

LEMMA RowsToTheEnd ==
    ASSUME FileInv, StoresTyped, ControlTyped, NEW a \in Agents, RowsLeft(a) <= MaxRows,
           Readable(a) > 0, Right(Loaded(a), file, taken), LoadedAtEnd(a),
           opened[a] = file
    PROVE  /\ Readable(a) = file.size
           /\ From(a).offset + HeaderLength(a) + RowCount(a) = file.size
           /\ From(a).line + RowCount(a) + 1 = file.size
           /\ \/ /\ From(a).offset = 0 /\ HeaderLength(a) = 1
                 /\ RowCount(a) = file.size - 1
              \/ /\ From(a).offset = file.size /\ HeaderLength(a) = 0
                 /\ RowCount(a) = 0 /\ Loaded(a).stamp = file.stamp
<1>1. /\ Readable(a) = file.size /\ file.size \in 1..MaxSize
      /\ From(a).offset \in Nat /\ From(a).line \in Nat
      /\ MaxRows \in Nat
      /\ file.size - From(a).offset - HeaderLength(a) <= MaxRows
  <2>1. Readable(a) = file.size
    BY DEF Readable
  <2> QED
    BY <2>1, ReaderTypes, IngestionAssumption DEF RowsLeft, Positions
<1>2. RowCount(a) = Least(MaxRows, file.size - From(a).offset - HeaderLength(a))
  BY <1>1 DEF RowCount, RowsLeft
<1>3. CASE From(a).offset = 0 /\ From(a).line = 0
  <2>1. HeaderLength(a) = 1
    BY <1>3 DEF HeaderLength
  <2> QED
    BY <1>1, <1>2, <1>3, <2>1 DEF Least
<1>4. CASE /\ From(a).offset = file.size /\ From(a).line + 1 = file.size
           /\ Loaded(a).stamp = file.stamp
  <2>1. HeaderLength(a) = 0
    BY <1>1, <1>4 DEF HeaderLength
  <2> QED
    BY <1>1, <1>2, <1>4, <2>1 DEF Least
<1> QED
  BY <1>3, <1>4, FromShape

\* The position of a file that is still the one that was read.
LEMMA ReadIsRight ==
    ASSUME FileInv, StoresTyped, ControlTyped, NEW a \in Agents, RowsLeft(a) <= MaxRows,
           pc[a] = "read", Readable(a) > 0, Right(Loaded(a), file, taken), LoadedAtEnd(a),
           NEW p, p = [stamp |-> opened[a].stamp, offset |-> Offset(a),
                       line |-> From(a).line + RowCount(a)],
           NEW rows, rows = taken \cup RowsOf(Collected(a))
    PROVE  Right(p, file, rows)
<1>1. /\ opened[a].stamp \in Nat /\ opened[a].stamp # 0 /\ opened[a].stamp <= file.stamp
      /\ file.size \in Nat
  BY DEF FileInv, Files
<1>2. CASE opened[a].stamp # file.stamp
  BY <1>1, <1>2 DEF Right
<1>3. CASE opened[a].stamp = file.stamp
  <2>1. opened[a] = file
    BY <1>3 DEF FileInv
  <2>2. /\ Readable(a) = file.size
        /\ From(a).offset + HeaderLength(a) + RowCount(a) = file.size
        /\ From(a).line + RowCount(a) + 1 = file.size
        /\ From(a).offset = 0 => RowCount(a) = file.size - 1 /\ HeaderLength(a) = 1
        /\ From(a).offset # 0 => Loaded(a).stamp = file.stamp
    BY <2>1, <1>1, RowsToTheEnd
  <2>3. Offset(a) >= file.size
    BY <2>2, OffsetIsNumber
  <2>4. AtEnd(p, file)
    BY <2>2, <2>3 DEF AtEnd
  <2>5. ASSUME NEW i \in 2..file.size PROVE <<file.gen, i>> \in rows
    <3>1. CASE From(a).offset # 0
      BY <2>2, <2>5, <3>1 DEF Right
    <3>2. CASE From(a).offset = 0
      <4>1. i - 1 \in 1..RowCount(a) /\ From(a).offset + HeaderLength(a) + (i - 1) = i
        BY <1>1, <2>2, <3>2
      <4>2. Event(a, i - 1) \in Collected(a)
        BY <4>1 DEF Collected, Event
      <4>3. Event(a, i - 1).row = <<file.gen, i>>
        BY <2>1, <4>1 DEF Event
      <4> QED
        BY <4>2, <4>3 DEF RowsOf
    <3> QED
      BY <3>1, <3>2
  <2> QED
    BY <1>1, <2>4, <2>5 DEF Right
<1> QED
  BY <1>2, <1>3

-----------------------------------------------------------------------------
(* The steps.                                                              *)

\* Only Collect makes positions and events; all others pass them on.
PassedOn ==
    /\ \A p : Around(p)' => Around(p) \/ p = Start
    /\ \A e : Seen(e)' => Seen(e)

LEMMA PassingOn ==
    ASSUME cursor' = cursor,
           known' = known \/ \E a \in Agents : \E r \in Held(a) : known' = r.position,
           \A a \in Agents : base'[a] \in {base[a], known, Start},
           \A a \in Agents : \A r \in Held(a)' : r \in Held(a) \/ r = Nothing,
           \A e \in received' :
               e \in received \/ \E a \in Agents : \E r \in Held(a) : e \in r.events
    PROVE  PassedOn
<1>1. Nothing.position = Start /\ Nothing.events = {}
  BY DEF Nothing
<1> HIDE DEF Start, Nothing
<1>2. ASSUME NEW p, Around(p)' PROVE Around(p) \/ p = Start
  <2>1. CASE p = known'
    BY <2>1, Zenon DEF Around
  <2>2. ASSUME NEW a \in Agents, p \in {cursor'[a], base'[a]} PROVE Around(p) \/ p = Start
    BY <2>2, Zenon DEF Around
  <2>3. ASSUME NEW a \in Agents, NEW r \in Held(a)', p = r.position
        PROVE  Around(p) \/ p = Start
    BY <1>1, <2>3, Zenon DEF Around
  <2> QED
    BY <1>2, <2>1, <2>2, <2>3, Zenon DEF Around
<1>3. ASSUME NEW e, Seen(e)' PROVE Seen(e)
  <2>1. CASE e \in received'
    BY <2>1, Zenon DEF Seen
  <2>2. ASSUME NEW a \in Agents, NEW r \in Held(a)', e \in r.events PROVE Seen(e)
    <3>1. r \in Held(a)
      BY <1>1, <2>2, Zenon
    <3> QED
      BY <2>2, <3>1, Zenon DEF Seen
  <2> QED
    BY <1>3, <2>1, <2>2, Zenon DEF Seen
<1> QED
  BY <1>2, <1>3 DEF PassedOn

LEMMA StepsPassOn ==
    ASSUME StoresTyped, KeptInv, [Next]_vars, \A a \in Agents : ~Read(a)
    PROVE  PassedOn
<1>0. /\ \A a \in Agents : IsSequence(pending[a])
      /\ pending = [a \in Agents |-> pending[a]]
      /\ payload = [a \in Agents |-> payload[a]]
      /\ base = [a \in Agents |-> base[a]]
  BY DEF KeptInv, Shape, StoresTyped
<1>1. ASSUME UNCHANGED <<cursor, known, base, pending, payload, received>> PROVE PassedOn
  <2>1. \A a : Held(a)' = Held(a)
    BY <1>1 DEF Held, Elements
  <2> QED
    BY <1>1, <2>1, PassingOn, Zenon
<1>2. CASE AppendRow \/ Rotate \/ LeaseExpires \/ UNCHANGED vars
  BY <1>1, <1>2, Zenon DEF AppendRow, Rotate, LeaseExpires, vars, backend, stores, run
<1>3. ASSUME NEW a \in Agents,
             StartOffline(a) \/ StartOnline(a) \/ UploadDone(a) \/ NoLease(a) \/ Open(a) \/ ReadFails(a)
      PROVE  PassedOn
  BY <1>1, <1>3, Zenon DEF StartOffline, StartOnline, UploadDone, NoLease, Open, ReadFails,
     backend, stores
<1>4. ASSUME NEW a \in Agents, UploadOne(a) \/ UploadStops(a) PROVE PassedOn
  <2>1. /\ pending[a] # <<>> /\ UNCHANGED <<cursor, base, payload>>
        /\ Accept(a, Head(pending[a])) \/ UNCHANGED <<known, received>>
        /\ pending' \in {pending, [pending EXCEPT ![a] = Tail(@)]}
    BY <1>4 DEF UploadOne, UploadStops, backend, stores
  <2>2. Elements(pending[a]) = {Head(pending[a])} \cup Elements(Tail(pending[a]))
    BY <1>0, <2>1, TailIsSequence
  <2>3. Head(pending[a]) \in Held(a)
    BY <2>2 DEF Held
  <2>4. ASSUME NEW b \in Agents, NEW r \in Held(b)' PROVE r \in Held(b)
    <3>1. pending'[b] = pending[b] \/ (b = a /\ pending'[b] = Tail(pending[b]))
      BY <1>0, <2>1
    <3>2. r \in Elements(pending'[b]) \/ r = payload[b]
      BY <2>1, <2>4 DEF Held, Elements
    <3> QED
      BY <2>2, <3>1, <3>2 DEF Held
  <2>5. /\ known' = known \/ known' = Head(pending[a]).position
        /\ \A e \in received' : e \in received \/ e \in Head(pending[a]).events
    BY <2>1, Zenon DEF Accept
  <2> QED
    BY <2>1, <2>3, <2>4, <2>5, PassingOn, Zenon
<1>5. ASSUME NEW a \in Agents, Lease(a) PROVE PassedOn
  <2>1. /\ UNCHANGED <<cursor, known, pending, payload, received>>
        /\ base' = [base EXCEPT ![a] = known]
    BY <1>5, Zenon DEF Lease, stores
  <2>2. \A b : Held(b)' = Held(b)
    BY <2>1 DEF Held, Elements
  <2>3. \A b \in Agents : base'[b] \in {base[b], known, Start}
    <3> HIDE DEF Start
    <3> QED BY <1>0, <2>1
  <2> QED
    BY <2>1, <2>2, <2>3, PassingOn, Zenon
<1>6. ASSUME NEW a \in Agents, PostOK(a) \/ Queue(a) \/ QueueRefused(a) \/ Crash(a)
      PROVE  PassedOn
  <2>1. cursor' = cursor /\ EndRun({a})
    BY <1>6, Zenon DEF PostOK, Queue, QueueRefused, Crash, stores
  <2>2. pending' = pending \/ pending' = [pending EXCEPT ![a] = Append(@, payload[a])]
    BY <1>6, Zenon DEF PostOK, Queue, QueueRefused, Crash, stores
  <2>3. \/ UNCHANGED <<known, received>>
        \/ \E r \in Held(a) : Accept(a, r)
    <3>1. payload[a] \in Held(a)
      BY DEF Held
    <3>2. pending[a] # <<>> => Head(pending[a]) \in Held(a)
      BY <1>0, TailIsSequence DEF Held
    <3> QED
      BY <1>6, <3>1, <3>2, Zenon DEF PostOK, Queue, QueueRefused, Crash, backend
  <2>4. /\ \A b \in Agents : base'[b] \in {base[b], known, Start}
        /\ \A b \in Agents : payload'[b] \in {payload[b], Nothing}
    <3> HIDE DEF Start, Nothing
    <3> QED BY <2>1 DEF EndRun
  <2>5. ASSUME NEW b \in Agents, NEW r \in Held(b)' PROVE r \in Held(b) \/ r = Nothing
    <3>1. Elements(pending'[b]) \subseteq Elements(pending[b]) \cup {payload[b]}
      <4>1. CASE pending'[b] = pending[b]
        BY <4>1
      <4>2. CASE pending'[b] # pending[b]
        <5>1. b = a /\ pending'[b] = Append(pending[b], payload[b])
          BY <1>0, <2>2, <4>2
        <5> QED
          BY <1>0, <5>1, AppendIsSequence
      <4> QED
        BY <4>1, <4>2
    <3>2. r \in Elements(pending'[b]) \/ r = payload'[b]
      BY <2>5 DEF Held, Elements
    <3> QED
      BY <2>4, <3>1, <3>2, Zenon DEF Held
  <2>6. /\ known' = known \/ \E r \in Held(a) : known' = r.position
        /\ \A e \in received' : e \in received \/ \E r \in Held(a) : e \in r.events
    BY <2>3, Zenon DEF Accept
  <2> QED
    BY <2>1, <2>4, <2>5, <2>6, PassingOn, Zenon
<1> QED
  BY <1>2, <1>3, <1>4, <1>5, <1>6, Zenon DEF Next, AgentStep

\* What Collect makes is right.
LEMMA ReadPassesOn ==
    ASSUME FileInv, StoresTyped, ControlTyped, PositionInv,
           NEW a \in Agents, Read(a), RowsLeft(a) <= MaxRows
    PROVE  /\ \A p : Around(p)' => Right(p, file, taken')
           /\ \A e : Seen(e)' => Numbered(e)
<1> DEFINE position == [stamp |-> opened[a].stamp, offset |-> Offset(a),
                        line |-> From(a).line + RowCount(a)]
           sent     == IF leased[a] THEN position ELSE Start
           result   == [events |-> Collected(a), leased |-> leased[a], position |-> sent]
<1>1. /\ pc[a] = "read" /\ Readable(a) > 0
      /\ cursor' = [cursor EXCEPT ![a] = position]
      /\ payload' = [payload EXCEPT ![a] = result]
      /\ taken' = taken \cup RowsOf(Collected(a))
      /\ UNCHANGED <<known, base, pending, received, file>>
  BY DEF Read, backend, env, Goto
<1>2. Right(Loaded(a), file, taken) /\ LoadedAtEnd(a)
  <2>1. Around(Loaded(a))
    BY DEF Around, Loaded
  <2> QED
    BY <1>1, <2>1 DEF PositionInv, LoadedAtEnd
<1>3. Right(position, file, taken')
  BY <1>1, <1>2, ReadIsRight
<1>4. \A e \in Collected(a) : Numbered(e)
  BY <1>1, <1>2, CollectedNumbered
<1>5. result.events = Collected(a) /\ result.position = sent
  OBVIOUS
<1> HIDE DEF position
<1>6. Right(sent, file, taken')
  BY <1>3, StartIsRight
<1> HIDE DEF sent, result
<1>7. \A p : Around(p) => Right(p, file, taken')
  BY <1>1, RightStays, Zenon DEF PositionInv
<1>8. /\ \A b \in Agents : cursor'[b] \in {cursor[b], position}
      /\ \A b \in Agents : payload'[b] \in {payload[b], result}
  BY <1>1 DEF StoresTyped
<1>9. ASSUME NEW b \in Agents, NEW r \in Held(b)' PROVE r \in Held(b) \/ r = result
  <2>1. r \in Elements(pending[b]) \/ r = payload'[b]
    BY <1>1, <1>9 DEF Held, Elements
  <2> QED
    BY <1>8, <2>1, Zenon DEF Held
<1>10. ASSUME NEW p, Around(p)' PROVE Right(p, file, taken')
  <2>1. Around(p) \/ p = position \/ p = sent
    <3>1. CASE p = known'
      BY <1>1, <3>1, Zenon DEF Around
    <3>2. ASSUME NEW b \in Agents, p \in {cursor'[b], base'[b]} PROVE Around(p) \/ p = position
      BY <1>1, <1>8, <3>2, Zenon DEF Around
    <3>3. ASSUME NEW b \in Agents, NEW r \in Held(b)', p = r.position PROVE Around(p) \/ p = sent
      BY <1>5, <1>9, <3>3, Zenon DEF Around
    <3> QED
      BY <1>10, <3>1, <3>2, <3>3, Zenon DEF Around
  <2> QED
    BY <1>3, <1>6, <1>7, <2>1
<1>11. ASSUME NEW e, Seen(e)' PROVE Numbered(e)
  <2>1. Seen(e) \/ e \in Collected(a)
    <3>1. CASE e \in received'
      BY <1>1, <3>1, Zenon DEF Seen
    <3>2. ASSUME NEW b \in Agents, NEW r \in Held(b)', e \in r.events
          PROVE  Seen(e) \/ e \in Collected(a)
      BY <1>5, <1>9, <3>2, Zenon DEF Seen
    <3> QED
      BY <1>11, <3>1, <3>2, Zenon DEF Seen
  <2> QED
    BY <1>4, <2>1 DEF PositionInv
<1> QED
  BY <1>1, <1>10, <1>11

\* An agent that has its file open starts from the same position until it reads.
LEMMA OpenedStep ==
    ASSUME FileInv, StoresTyped, ControlTyped, PositionInv, [Next]_vars,
           NEW a \in Agents, pc'[a] = "read"
    PROVE  LoadedAtEnd(a)'
<1>0. pc \in [Agents -> Pc] /\ cursor \in [Agents -> Positions] /\ base \in [Agents -> Positions]
  BY DEF ControlTyped, StoresTyped
<1>1. ASSUME pc[a] = "read", leased'[a] = leased[a],
             cursor'[a] = cursor[a], base'[a] = base[a], opened'[a] = opened[a]
      PROVE  LoadedAtEnd(a)'
  BY <1>1 DEF PositionInv, LoadedAtEnd, Loaded
<1>2. CASE AppendRow \/ Rotate \/ LeaseExpires \/ UNCHANGED vars
  BY <1>1, <1>2 DEF AppendRow, Rotate, LeaseExpires, vars, stores, run
<1>3. ASSUME NEW b \in Agents, b # a, AgentStep(b) \/ Crash(b)
      PROVE  LoadedAtEnd(a)'
  <2>1. pc'[a] = pc[a] /\ cursor'[a] = cursor[a]
    BY <1>0, <1>3 DEF AgentStep, StartOffline, StartOnline, UploadOne, UploadStops, UploadDone,
       Lease, NoLease, Open, Read, ReadFails, PostOK, Queue, QueueRefused, Crash, Goto, stores
  <2>2. base'[a] = base[a]
    BY <1>0, <1>3 DEF AgentStep, StartOffline, StartOnline, UploadOne, UploadStops, UploadDone,
       Lease, NoLease, Open, Read, ReadFails, PostOK, Queue, QueueRefused, Crash, EndRun
  <2>3. leased'[a] = leased[a]
    <3>1. leased' \in {leased, [leased EXCEPT ![b] = TRUE]} \/ EndRun({b})
      BY <1>3, Zenon DEF AgentStep, StartOffline, StartOnline, UploadOne, UploadStops, UploadDone,
         Lease, NoLease, Open, Read, ReadFails, PostOK, Queue, QueueRefused, Crash
    <3>2. leased \in [Agents -> BOOLEAN]
      BY DEF ControlTyped
    <3>3. ASSUME EndRun({b}) PROVE leased'[a] = leased[a]
      <4>1. leased'[a] = (a \notin {b} /\ leased[a])
        BY <3>3, Zenon DEF EndRun
      <4>2. a \notin {b} /\ leased[a] \in BOOLEAN
        BY <1>3, <3>2
      <4> QED
        BY <4>1, <4>2, Zenon
    <3>4. ASSUME leased' = [leased EXCEPT ![b] = TRUE] PROVE leased'[a] = leased[a]
      BY <1>3, <3>2, <3>4, Zenon
    <3> QED
      BY <3>1, <3>3, <3>4
  <2>4. opened'[a] = opened[a]
    BY <1>3 DEF AgentStep, StartOffline, StartOnline, UploadOne, UploadStops, UploadDone,
       Lease, NoLease, Open, Read, ReadFails, PostOK, Queue, QueueRefused, Crash, EndRun, FileInv
  <2> QED
    BY <1>1, <2>1, <2>2, <2>3, <2>4
<1>4. CASE Open(a)
  <2>1. /\ UNCHANGED <<leased, cursor, base>> /\ opened'[a] = file /\ Around(Loaded(a))
        /\ Loaded(a)' = Loaded(a)
    BY <1>4 DEF Open, stores, FileInv, Around, Loaded
  <2>2. Right(Loaded(a), file, taken)
    BY <2>1 DEF PositionInv
  <2> QED
    BY <2>1, <2>2 DEF LoadedAtEnd, Right
<1>5. ASSUME AgentStep(a) \/ Crash(a), ~Open(a) PROVE FALSE
  <2>1. ASSUME NEW from, NEW to, pc' = [pc EXCEPT ![a] = to], to # "read" PROVE FALSE
    BY <1>0, <2>1
  <2>2. ~UploadOne(a)
    BY <1>0 DEF UploadOne
  <2> QED
    BY <1>5, <2>1, <2>2 DEF AgentStep, StartOffline, StartOnline, UploadStops, UploadDone,
       Lease, NoLease, Read, ReadFails, PostOK, Queue, QueueRefused, Crash, Goto
<1> QED
  BY <1>2, <1>3, <1>4, <1>5, Zenon DEF Next

LEMMA PositionStep ==
    ASSUME FileInv, StoresTyped, ControlTyped, KeptInv, PositionInv, [Next]_vars, ~cut'
    PROVE  PositionInv'
<1>1. /\ \A p : Around(p)' => Right(p, file', taken')
      /\ \A e : Seen(e)' => Numbered(e)
  <2>1. CASE \E a \in Agents : Read(a)
    <3>1. PICK a \in Agents : Read(a)
      BY <2>1
    <3>2. file' = file /\ ~(RowsLeft(a) > MaxRows)
      BY <3>1 DEF Read, env
    <3>3. RowsLeft(a) <= MaxRows
      <4>1. From(a).offset \in Nat /\ Readable(a) \in Nat /\ MaxRows \in Nat
        BY <3>1, ReaderTypes, IngestionAssumption DEF Read, Positions
      <4> QED
        BY <3>2, <4>1 DEF RowsLeft, HeaderLength
    <3> QED
      BY <3>1, <3>2, <3>3, ReadPassesOn
  <2>2. CASE \A a \in Agents : ~Read(a)
    <3>1. PassedOn
      BY <2>2, StepsPassOn
    <3>2. taken' = taken
      BY <2>2, Zenon DEF Next, AgentStep, AppendRow, Rotate, LeaseExpires, StartOffline,
         StartOnline, UploadOne, UploadStops, UploadDone, Lease, NoLease, Open, ReadFails, PostOK,
         Queue, QueueRefused, Crash, vars, history
    <3>3. ASSUME NEW p, Around(p) \/ p = Start PROVE Right(p, file, taken)
      BY <3>3, StartIsRight DEF PositionInv
    <3>4. ASSUME NEW p, Around(p) \/ p = Start PROVE Right(p, file', taken)
      <4>1. CASE file' = file
        BY <3>3, <3>4, <4>1
      <4>2. CASE file' # file
        <5>1. AppendRow \/ Rotate
          BY <4>2, Zenon DEF Next, AgentStep, LeaseExpires, StartOffline, StartOnline, UploadOne,
             UploadStops, UploadDone, Lease, NoLease, Open, Read, ReadFails, PostOK, Queue,
             QueueRefused, Crash, vars, env
        <5>2. file.stamp \in Nat /\ file'.stamp = file.stamp + 1
          <6>1. file \in Files /\ file.stamp \in Nat
            BY DEF FileInv, Files
          <6>2. CASE AppendRow
            BY <6>1, <6>2 DEF AppendRow, Files
          <6>3. CASE Rotate
            BY <6>1, <6>3 DEF Rotate
          <6> QED
            BY <5>1, <6>1, <6>2, <6>3
        <5>3. p \in Positions /\ Right(p, file, taken)
          BY <3>3, <3>4, AroundTyped, StartTyped
        <5> QED
          BY <5>2, <5>3, RightAges
      <4> QED
        BY <4>1, <4>2
    <3> QED
      BY <3>1, <3>2, <3>4 DEF PassedOn, PositionInv
  <2> QED
    BY <2>1, <2>2
<1>2. \A a \in Agents : pc'[a] = "read" => LoadedAtEnd(a)'
  BY OpenedStep
<1> QED
  BY <1>1, <1>2 DEF PositionInv, LoadedAtEnd

LEMMA PositionInit == Init => PositionInv
<1> SUFFICES ASSUME Init PROVE PositionInv
  OBVIOUS
<1>1. /\ \A a \in Agents : Held(a) = {Nothing} /\ cursor[a] = Start /\ base[a] = Start
      /\ known = Start /\ received = {}
  BY DEF Init, Held, Elements
<1>2. Nothing.position = Start /\ Nothing.events = {}
  BY DEF Nothing
<1>3. FileInv
  BY TypeInit
<1> HIDE DEF Start, Nothing
<1>4. ASSUME NEW p, Around(p) PROVE Right(p, file, taken)
  <2>1. p = Start
    BY <1>1, <1>2, <1>4 DEF Around
  <2> QED
    BY <1>3, <2>1, StartIsRight
<1>5. \A e : ~Seen(e)
  BY <1>1, <1>2 DEF Seen
<1>6. \A a \in Agents : pc[a] # "read"
  BY DEF Init
<1> QED
  BY <1>4, <1>5, <1>6 DEF PositionInv

IngestionInv ==
    /\ FileInv /\ ControlTyped /\ StoresTyped /\ KeptInv
    /\ cut \/ PositionInv

\* Once a read was cut off, that stays on record.
LEMMA CutStays == [Next]_vars /\ cut => cut'
BY Zenon DEF Next, AgentStep, AppendRow, Rotate, LeaseExpires, StartOffline, StartOnline, UploadOne,
   UploadStops, UploadDone, Lease, NoLease, Open, Read, ReadFails, PostOK, Queue, QueueRefused,
   Crash, vars, history

LEMMA IngestionInvariance == Spec => []IngestionInv
<1>1. Init => IngestionInv
  BY TypeInit, InitKeptInv, PositionInit DEF IngestionInv
<1>2. IngestionInv /\ [Next]_vars => IngestionInv'
  <2> SUFFICES ASSUME IngestionInv, [Next]_vars PROVE IngestionInv'
    OBVIOUS
  <2>1. FileInv' /\ ControlTyped' /\ StoresTyped' /\ KeptInv'
    BY FileStep, ControlStep, StoresStep, NextKeptInv DEF IngestionInv
  <2>2. cut' \/ PositionInv'
    BY CutStays, PositionStep DEF IngestionInv
  <2> QED
    BY <2>1, <2>2, Zenon DEF IngestionInv
<1> QED
  BY <1>1, <1>2, PTL DEF Spec

\* No row is skipped: below the cursor of a file that did not change, every row
\* was collected, by this agent or by the one whose position came with the
\* lease, however far ahead the reader fetches, as long as every read reached
\* the end of the file.  After one that stopped at MaxRows there is
\* PassedRowsAreKept (csvlog.go:106-128, 139-172).
THEOREM NoRowSkipped == Spec => []NoRowBehindTheCursor
<1>1. IngestionInv => NoRowBehindTheCursor
  <2> SUFFICES ASSUME IngestionInv, ~cut, NEW a \in Agents, cursor[a].stamp = file.stamp,
                      NEW i \in 2..Least(cursor[a].offset, file.size)
               PROVE  <<file.gen, i>> \in taken
    BY DEF NoRowBehindTheCursor
  <2>1. Right(cursor[a], file, taken)
    BY DEF IngestionInv, PositionInv, Around
  <2>2. i \in 2..file.size
    <3>1. cursor[a].offset \in Nat /\ file.size \in Nat
      BY DEF IngestionInv, FileInv, StoresTyped, Files, Positions
    <3> QED
      BY <3>1 DEF Least
  <2> QED
    BY <2>1, <2>2 DEF Right
<1> QED
  BY IngestionInvariance, <1>1, PTL

\* A row has one line number and so one EventHash, however often and by
\* whichever agents it is collected, rotations, rows written while it is read,
\* lost leases and repeated uploads included: the backend can tell that it is
\* the same event, as long as no read stopped at MaxRows.  A cursor past the end of
\* the file has it read again from the top, with the same numbers (csvlog.go:114-128,
\* 164, 311).
THEOREM OneHash == Spec => []OneHashPerRow
<1>1. IngestionInv => OneHashPerRow
  <2> SUFFICES ASSUME IngestionInv, ~cut, NEW e1 \in received, NEW e2 \in received, e1.row = e2.row
               PROVE  e1.line = e2.line
    BY DEF OneHashPerRow
  <2>1. Numbered(e1) /\ Numbered(e2)
    BY DEF IngestionInv, PositionInv, Seen
  <2>2. e1.line \in Nat /\ e2.line \in Nat
    <3>1. e1 \in Events /\ e2 \in Events
      BY DEF IngestionInv, StoresTyped
    <3> HIDE DEF RowIds
    <3> QED
      BY <3>1 DEF Events
  <2> QED
    BY <2>1, <2>2 DEF Numbered
<1> QED
  BY IngestionInvariance, <1>1, PTL
=============================================================================

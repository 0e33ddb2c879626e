--------------------------- MODULE FreqIndexProofs ---------------------------
(***************************************************************************)
(* An opened list of freq_index answers for its documents and frequencies  *)
(* what the input has.                                                     *)
(***************************************************************************)
EXTENDS FreqIndex, SortedSequencesProofs, SequenceTheorems

-----------------------------------------------------------------------------
(* The ones of a ranked bit vector *)

\* A strictly ascending sequence below its universe.
IsAscending(s, n, u) ==
  /\ n \in Nat /\ u \in Nat
  /\ s \in [0..(n - 1) -> Nat]
  /\ \A i \in 0..(n - 1) : s[i] < u
  /\ \A i, j \in 0..(n - 1) : i < j => s[i] < s[j]

RowOK(rb) ==
  /\ IsAscending(rb.values, rb.n, rb.universe)
  /\ rb.r \in Nat /\ rb.s1 \in Nat

\* The walk goes on with the p-th one.
ReadsFrom(rb, h, p) == RB!OnesFrom(RB!Ones(rb), h) = Listed(rb.values, p, rb.n - 1)

\* The walk that has just read the p-th one.
Consumed(rb, p) == [pos |-> rb.values[p], used |-> TRUE]

LEMMA RowIs ==
  ASSUME NEW rb, RowOK(rb)
  PROVE  /\ rb.n \in Nat /\ rb.universe \in Nat
         /\ DOMAIN rb.values = 0..(rb.n - 1)
         /\ \A i \in 0..(rb.n - 1) : rb.values[i] \in Nat /\ rb.values[i] < rb.universe
         /\ \A i, j \in 0..(rb.n - 1) : i < j => rb.values[i] < rb.values[j]
         /\ \A i, j \in 0..(rb.n - 1) : i <= j => rb.values[i] <= rb.values[j]
         /\ SizeOf(rb.values) = rb.n
         /\ rb.r \in Nat /\ rb.s1 \in Nat
<1>1. /\ rb.n \in Nat /\ rb.universe \in Nat
      /\ DOMAIN rb.values = 0..(rb.n - 1)
      /\ \A i \in 0..(rb.n - 1) : rb.values[i] \in Nat /\ rb.values[i] < rb.universe
      /\ \A i, j \in 0..(rb.n - 1) : i < j => rb.values[i] < rb.values[j]
      /\ rb.r \in Nat /\ rb.s1 \in Nat
  BY DEF RowOK, IsAscending
<1>2. SizeOf(rb.values) = rb.n
  BY <1>1, SizeOfSequence
<1>3. \A i, j \in 0..(rb.n - 1) : i <= j => rb.values[i] <= rb.values[j]
  <2> SUFFICES ASSUME NEW i \in 0..(rb.n - 1), NEW j \in 0..(rb.n - 1), i <= j
               PROVE  rb.values[i] <= rb.values[j]
    OBVIOUS
  <2>1. i = j \/ i < j
    BY <1>1
  <2> QED
    BY <1>1, <2>1
<1> QED
  BY <1>1, <1>2, <1>3

\* The p-th one and those behind it are a row.
LEMMA RowFrom ==
  ASSUME NEW rb, RowOK(rb), NEW p \in Nat, NEW k \in Nat, p + k < rb.n
  PROVE  /\ RB!Nth(Listed(rb.values, p, rb.n - 1), k) = rb.values[p + k]
         /\ p + k \in 0..(rb.n - 1)
<1> DEFINE m == rb.n - 1
           f == [i \in p..m |-> rb.values[i]]
           S == Listed(f, p, m)
<1>0. rb.n \in Nat /\ m \in Int /\ p \in Int /\ p + k <= m
  BY RowIs
<1>1. \A i \in p..m : i \in 0..m
  BY <1>0
<1>2. IsRow(f, p, m)
  BY <1>0, <1>1, RowIs DEF IsRow
<1>3. S = Listed(rb.values, p, m)
  BY DEF Listed
<1>4. f[p + k] = rb.values[p + k]
  BY <1>0
<1> HIDE DEF f, m
<1>5. /\ f[p + k] \in S /\ Cardinality(Lower(S, f[p + k])) = k
      /\ \A x \in S : Cardinality(Lower(S, x)) = k => x = f[p + k]
  BY <1>0, <1>2, RankInAscending
<1> HIDE DEF S
<1>6. \A T : RB!Cardinality(T) = Cardinality(T)
  BY DEF RB!Cardinality, Cardinality
<1>7. RB!Nth(S, k) = CHOOSE q \in S : Cardinality(Lower(S, q)) = k
  BY <1>6 DEF RB!Nth, Lower
<1>8. RB!Nth(S, k) = f[p + k]
  BY <1>5, <1>7
<1>9. p + k \in 0..(rb.n - 1)
  BY <1>0 DEF m
<1> QED
  BY <1>3, <1>4, <1>8, <1>9 DEF m

\* Where a walk reads from: the elements before p are passed, the others not.
LEMMA ReadsFromIs ==
  ASSUME NEW rb, RowOK(rb), NEW p \in 0..rb.n, NEW h, h.pos \in Int,
         \A j \in 0..(rb.n - 1) :
           j < p => rb.values[j] < h.pos \/ (rb.values[j] = h.pos /\ h.used),
         \A j \in 0..(rb.n - 1) :
           p <= j => rb.values[j] > h.pos \/ (rb.values[j] = h.pos /\ ~h.used)
  PROVE  ReadsFrom(rb, h, p)
<1>0. /\ rb.n \in Nat /\ DOMAIN rb.values = 0..(rb.n - 1)
      /\ \A j \in 0..(rb.n - 1) : rb.values[j] \in Int
  BY RowIs
<1>1. RB!Ones(rb) = {rb.values[j] : j \in 0..(rb.n - 1)}
  BY <1>0 DEF RB!Ones
<1>2. \A j \in 0..(rb.n - 1) :
        (rb.values[j] > h.pos \/ (rb.values[j] = h.pos /\ ~h.used)) <=> p <= j
  BY <1>0
<1>3. \A j \in p..(rb.n - 1) : j \in 0..(rb.n - 1) /\ p <= j
  BY <1>0
<1>4. \A j \in 0..(rb.n - 1) : p <= j => j \in p..(rb.n - 1)
  BY <1>0
<1> QED
  BY <1>1, <1>2, <1>3, <1>4 DEF ReadsFrom, RB!OnesFrom, Listed

LEMMA WalksRead ==
  ASSUME NEW rb, RowOK(rb), NEW i \in 0..(rb.n - 1)
  PROVE  /\ ReadsFrom(rb, Consumed(rb, i), i + 1)
         /\ ReadsFrom(rb, RB!At(rb.values[i]), i)
<1>0. /\ rb.n \in Nat /\ i \in 0..rb.n /\ i + 1 \in 0..rb.n
      /\ \A j \in 0..(rb.n - 1) : rb.values[j] \in Nat
  BY RowIs
<1>1. ReadsFrom(rb, Consumed(rb, i), i + 1)
  <2> DEFINE h == Consumed(rb, i)
  <2>1. h.pos = rb.values[i] /\ h.used = TRUE
    BY DEF Consumed
  <2>2. \A j \in 0..(rb.n - 1) : j < i + 1 => rb.values[j] < h.pos \/ rb.values[j] = h.pos
    BY <1>0, <2>1, RowIs
  <2>3. \A j \in 0..(rb.n - 1) : i + 1 <= j => rb.values[j] > h.pos
    BY <1>0, <2>1, RowIs
  <2>4. /\ h.pos \in Int
        /\ \A j \in 0..(rb.n - 1) :
             j < i + 1 => rb.values[j] < h.pos \/ (rb.values[j] = h.pos /\ h.used)
        /\ \A j \in 0..(rb.n - 1) :
             i + 1 <= j => rb.values[j] > h.pos \/ (rb.values[j] = h.pos /\ ~h.used)
    BY <1>0, <2>1, <2>2, <2>3
  <2> HIDE DEF h
  <2>5. ReadsFrom(rb, h, i + 1)
    BY <1>0, <2>4, ReadsFromIs
  <2> QED
    BY <2>5 DEF h
<1>2. ReadsFrom(rb, RB!At(rb.values[i]), i)
  <2> DEFINE h == RB!At(rb.values[i])
  <2>1. h.pos = rb.values[i] /\ h.used = FALSE
    BY DEF RB!At
  <2>2. \A j \in 0..(rb.n - 1) : j < i => rb.values[j] < h.pos
    BY <1>0, <2>1, RowIs
  <2>3. \A j \in 0..(rb.n - 1) : i <= j => rb.values[j] > h.pos \/ rb.values[j] = h.pos
    BY <1>0, <2>1, RowIs
  <2>4. /\ h.pos \in Int
        /\ \A j \in 0..(rb.n - 1) :
             j < i => rb.values[j] < h.pos \/ (rb.values[j] = h.pos /\ h.used)
        /\ \A j \in 0..(rb.n - 1) :
             i <= j => rb.values[j] > h.pos \/ (rb.values[j] = h.pos /\ ~h.used)
    BY <1>0, <2>1, <2>2, <2>3
  <2> HIDE DEF h
  <2>5. ReadsFrom(rb, h, i)
    BY <1>0, <2>4, ReadsFromIs
  <2> QED
    BY <2>5 DEF h
<1> QED
  BY <1>1, <1>2

\* From a position that as many elements are below as come before the p-th.
LEMMA WalkAt ==
  ASSUME NEW rb, RowOK(rb), NEW b \in Nat, NEW p \in 0..rb.n,
         \A j \in 0..(rb.n - 1) : j < p => rb.values[j] < b,
         \A j \in 0..(rb.n - 1) : p <= j => rb.values[j] >= b
  PROVE  ReadsFrom(rb, RB!At(b), p)
<1> DEFINE h == RB!At(b)
<1>1. h.pos = b /\ h.used = FALSE
  BY DEF RB!At
<1>2. \A j \in 0..(rb.n - 1) : rb.values[j] \in Nat
  BY RowIs
<1> HIDE DEF h
<1>3. ReadsFrom(rb, h, p)
  BY <1>1, <1>2, ReadsFromIs
<1> QED
  BY <1>3 DEF h

LEMMA WalkFromStart ==
  ASSUME NEW rb, RowOK(rb)
  PROVE  ReadsFrom(rb, RB!At(0), 0)
<1>1. rb.n \in Nat /\ 0 \in 0..rb.n /\ 0 \in Nat
  BY RowIs
<1>2. ASSUME NEW b \in Nat, NEW p \in 0..rb.n, b = 0, p = 0
      PROVE  ReadsFrom(rb, RB!At(b), p)
  <2>1. \A j \in 0..(rb.n - 1) : j < p => rb.values[j] < b
    BY <1>1, <1>2
  <2>2. \A j \in 0..(rb.n - 1) : rb.values[j] \in Nat
    BY RowIs
  <2>3. \A j \in 0..(rb.n - 1) : p <= j => rb.values[j] >= b
    BY <1>2, <2>2
  <2> QED
    BY <2>1, <2>3, WalkAt
<1> QED
  BY <1>1, <1>2

LEMMA AdvanceReads ==
  ASSUME NEW rb, RowOK(rb), NEW h, NEW p \in Nat, ReadsFrom(rb, h, p),
         NEW k \in Nat, k > 0, p + k <= rb.n
  PROVE  /\ RB!Advance(RB!Ones(rb), h, k) = Consumed(rb, p + k - 1)
         /\ p + k - 1 \in 0..(rb.n - 1)
<1>1. rb.n \in Nat /\ k - 1 \in Nat /\ p + (k - 1) < rb.n /\ p + (k - 1) = p + k - 1
  BY RowIs
<1>2. /\ RB!Nth(RB!OnesFrom(RB!Ones(rb), h), k - 1) = rb.values[p + (k - 1)]
      /\ p + (k - 1) \in 0..(rb.n - 1)
  BY <1>1, RowFrom DEF ReadsFrom
<1>3. /\ RB!Nth(RB!OnesFrom(RB!Ones(rb), h), k - 1) = rb.values[p + k - 1]
      /\ p + k - 1 \in 0..(rb.n - 1)
  BY <1>1, <1>2
<1>4. k # 0
  OBVIOUS
<1> QED
  BY <1>3, <1>4 DEF RB!Advance, Consumed

LEMMA SkipReads ==
  ASSUME NEW rb, RowOK(rb), NEW h, NEW p \in Nat, ReadsFrom(rb, h, p),
         NEW k \in Nat, p + k < rb.n
  PROVE  ReadsFrom(rb, RB!skip(RB!Ones(rb), h, k), p + k)
<1>1. /\ RB!Nth(RB!OnesFrom(RB!Ones(rb), h), k) = rb.values[p + k]
      /\ p + k \in 0..(rb.n - 1)
  BY RowFrom DEF ReadsFrom
<1>2. RB!skip(RB!Ones(rb), h, k) = RB!At(rb.values[p + k])
  BY <1>1 DEF RB!skip, RB!At
<1> QED
  BY <1>1, <1>2, WalksRead

-----------------------------------------------------------------------------
(* compact_ranked_bitvector *)

\* The cursor is on its p-th element, or at the end; there its walk may be
\* anywhere.
OnElement(rb, c, p) ==
  /\ p \in 0..rb.n
  /\ c.position = p
  /\ c.value = IF p = rb.n THEN rb.universe ELSE rb.values[p]
  /\ p < rb.n => c.he = Consumed(rb, p)

LEMMA ReadAtLands ==
  ASSUME NEW rb, RowOK(rb), NEW p \in 0..(rb.n - 1), NEW h, ReadsFrom(rb, h, p)
  PROVE  OnElement(rb, RB!ReadAt(rb, p, h), p)
<1>1. rb.n \in Nat /\ p \in Nat /\ p + 1 <= rb.n /\ p + 1 - 1 = p
  BY RowIs
<1>2. RB!Advance(RB!Ones(rb), h, 1) = Consumed(rb, p)
  BY <1>1, AdvanceReads
<1>3. p \in 0..rb.n /\ p # rb.n
  BY <1>1
<1> QED
  BY <1>2, <1>3 DEF RB!ReadAt, OnElement, Consumed

LEMMA AtEndLands ==
  ASSUME NEW rb, RowOK(rb), NEW h
  PROVE  OnElement(rb, RB!AtEnd(rb, rb.n, h), rb.n)
<1>1. rb.n \in 0..rb.n /\ ~(rb.n < rb.n)
  BY RowIs
<1> QED
  BY <1>1 DEF RB!AtEnd, OnElement

\* The sampled pointers: a walk from one of them reads the p-th one next.
LEMMA SampledOne ==
  ASSUME NEW rb, RowOK(rb), NEW p \in 0..(rb.n - 1)
  PROVE  LET ptr == RB!Shr(p, rb.s1)
         IN ReadsFrom(rb, RB!skip(RB!Ones(rb), RB!At(RB!pointer1(rb, ptr)),
                                  p - ptr * 2^rb.s1), p)
<1> DEFINE s == 2^rb.s1
           k == RB!Shr(p, rb.s1)
           z == k * s
<1>0. rb.n \in Nat /\ rb.s1 \in Nat /\ p \in Nat /\ s \in Nat \ {0}
  BY RowIs, PowerOfTwo
<1>1. k = p \div s
  BY DEF RB!Shr
<1>2. k \in Nat /\ z \in Nat /\ p = z + (p % s) /\ p % s \in 0..(s - 1)
  BY <1>0, <1>1, Division
<1>3. z \in 0..(rb.n - 1) /\ p - z \in Nat /\ z + (p - z) = p
  <2> HIDE DEF z, s
  <2> QED
    BY <1>0, <1>2
<1>4. ReadsFrom(rb, RB!At(RB!pointer1(rb, k)), z)
  <2>1. CASE k = 0
    <3>1. z = 0
      BY <1>0, <2>1
    <3> QED
      BY <2>1, <3>1, WalkFromStart DEF RB!pointer1
  <2>2. CASE k # 0
    <3>1. z < rb.n
      BY <1>0, <1>3
    <3>2. RB!pointer1(rb, k) = rb.values[z]
      BY <2>2, <3>1 DEF RB!pointer1, RB!Pointer1
    <3> HIDE DEF z
    <3> QED
      BY <1>3, <3>2, WalksRead
  <2> QED
    BY <2>1, <2>2
<1> HIDE DEF z, k
<1>5. ReadsFrom(rb, RB!skip(RB!Ones(rb), RB!At(RB!pointer1(rb, k)), p - z), z + (p - z))
  BY <1>0, <1>3, <1>4, SkipReads
<1> QED
  BY <1>3, <1>5 DEF z, k, s

LEMMA MoveLands ==
  ASSUME NEW rb, RowOK(rb), linear_scan_threshold \in Nat,
         NEW c, NEW q, OnElement(rb, c, q), NEW p \in 0..rb.n
  PROVE  OnElement(rb, RB!Move(rb, c, p), p)
<1>0. rb.n \in Nat /\ rb.s1 \in Nat /\ q \in 0..rb.n /\ c.position = q
  BY RowIs DEF OnElement
<1>1. CASE p = q
  BY <1>0, <1>1 DEF RB!Move
<1>2. CASE p # q /\ p = rb.n
  BY <1>0, <1>2, AtEndLands DEF RB!Move
<1>3. CASE p # q /\ p < rb.n
  <2>0. p \in 0..(rb.n - 1) /\ p \in Nat /\ p # rb.n
    BY <1>0, <1>3
  <2>1. ASSUME p > q
        PROVE  /\ q \in 0..(rb.n - 1) /\ p - q - 1 \in Nat
               /\ ReadsFrom(rb, c.he, q + 1) /\ (q + 1) + (p - q - 1) = p
    <3>1. q \in 0..(rb.n - 1) /\ q < rb.n
      BY <1>0, <2>0, <2>1
    <3>2. c.he = Consumed(rb, q)
      BY <3>1 DEF OnElement
    <3> QED
      BY <1>0, <2>0, <2>1, <3>1, <3>2, WalksRead
  <2>2. CASE p > q /\ p - q <= linear_scan_threshold
    <3> DEFINE h == RB!Advance(RB!Ones(rb), c.he, p - q - 1)
    <3>1. RB!Move(rb, c, p) = RB!ReadAt(rb, p, h)
      BY <1>0, <1>3, <2>2 DEF RB!Move
    <3>2. ReadsFrom(rb, h, p)
      <4>1. CASE p - q - 1 = 0
        <5>1. h = c.he /\ p = q + 1
          BY <1>0, <2>0, <4>1 DEF RB!Advance
        <5> QED
          BY <2>1, <2>2, <5>1
      <4>2. CASE p - q - 1 # 0
        <5>1. /\ q + 1 \in Nat /\ p - q - 1 \in Nat /\ p - q - 1 > 0
              /\ (q + 1) + (p - q - 1) <= rb.n
              /\ (q + 1) + (p - q - 1) - 1 = p - 1
          BY <1>0, <2>0, <2>1, <2>2, <4>2
        <5>2. h = Consumed(rb, p - 1) /\ p - 1 \in 0..(rb.n - 1)
          BY <2>1, <2>2, <5>1, AdvanceReads
        <5>3. p - 1 + 1 = p
          BY <2>0
        <5> QED
          BY <5>2, <5>3, WalksRead
      <4> QED
        BY <4>1, <4>2
    <3> QED
      BY <2>0, <3>1, <3>2, ReadAtLands
  <2>3. CASE ~(p > q /\ p - q <= linear_scan_threshold)
    <3>1. RB!Move(rb, c, p) = RB!slow_move(rb, c, p)
      BY <1>0, <1>3, <2>0, <2>3 DEF RB!Move
    <3>2. CASE p > q /\ RB!Shr(p - q, rb.s1) = 0
      <4> DEFINE h == RB!skip(RB!Ones(rb), c.he, p - q - 1)
      <4>1. RB!slow_move(rb, c, p) = RB!ReadAt(rb, p, h)
        BY <1>0, <3>2 DEF RB!slow_move
      <4>2. ReadsFrom(rb, h, (q + 1) + (p - q - 1))
        <5>1. q + 1 \in Nat /\ (q + 1) + (p - q - 1) < rb.n
          BY <1>0, <1>3, <2>1, <3>2
        <5> QED
          BY <2>1, <3>2, <5>1, SkipReads
      <4> HIDE DEF h
      <4> QED
        BY <2>0, <2>1, <3>1, <3>2, <4>1, <4>2, ReadAtLands
    <3>3. CASE ~(p > q /\ RB!Shr(p - q, rb.s1) = 0)
      <4> DEFINE ptr == RB!Shr(p, rb.s1)
                 h == RB!skip(RB!Ones(rb), RB!At(RB!pointer1(rb, ptr)), p - ptr * 2^rb.s1)
      <4>1. RB!slow_move(rb, c, p) = RB!ReadAt(rb, p, h)
        BY <1>0, <3>3 DEF RB!slow_move
      <4>2. ReadsFrom(rb, h, p)
        BY <2>0, SampledOne
      <4> HIDE DEF h
      <4> QED
        BY <2>0, <3>1, <4>1, <4>2, ReadAtLands
    <3> QED
      BY <3>2, <3>3
  <2> QED
    BY <2>2, <2>3
<1> QED
  BY <1>0, <1>1, <1>2, <1>3

LEMMA NextLands ==
  ASSUME NEW rb, RowOK(rb), NEW c, NEW q, OnElement(rb, c, q), q < rb.n
  PROVE  OnElement(rb, RB!Next(rb, c), q + 1)
<1>0. rb.n \in Nat /\ q \in 0..rb.n /\ c.position = q /\ q \in 0..(rb.n - 1)
  BY RowIs DEF OnElement
<1>1. ReadsFrom(rb, c.he, q + 1)
  BY <1>0, WalksRead DEF OnElement
<1>2. CASE q + 1 < rb.n
  <2>1. q + 1 \in 0..(rb.n - 1) /\ RB!Next(rb, c) = RB!ReadAt(rb, q + 1, c.he)
    BY <1>0, <1>2 DEF RB!Next
  <2> QED
    BY <1>1, <2>1, ReadAtLands
<1>3. CASE ~(q + 1 < rb.n)
  <2>1. q + 1 = rb.n /\ RB!Next(rb, c) = RB!AtEnd(rb, q + 1, c.he)
    BY <1>0, <1>3 DEF RB!Next
  <2> QED
    BY <2>1, AtEndLands
<1> QED
  BY <1>2, <1>3

\* The first element that is at least a bound, which divides the elements.
LEMMA FirstDivides ==
  ASSUME NEW rb, RowOK(rb), NEW b \in Int
  PROVE  LET g == FirstAtLeast(rb.values, b)
         IN  /\ g \in 0..rb.n
             /\ \A j \in 0..(rb.n - 1) : j < g => rb.values[j] < b
             /\ \A j \in 0..(rb.n - 1) : g <= j => rb.values[j] >= b
<1> DEFINE g == FirstAtLeast(rb.values, b)
<1>1. /\ rb.n \in Nat /\ DOMAIN rb.values = 0..(rb.n - 1)
      /\ \A j \in 0..(rb.n - 1) : rb.values[j] \in Int
  BY RowIs
<1>2. /\ g \in 0..rb.n
      /\ g = rb.n \/ rb.values[g] >= b
      /\ \A q \in 0..(g - 1) : rb.values[q] < b
  BY <1>1, FirstAtLeastFound
<1> HIDE DEF g
<1>3. \A j \in 0..(rb.n - 1) : j < g => rb.values[j] < b
  BY <1>1, <1>2
<1>4. \A j \in 0..(rb.n - 1) : g <= j => rb.values[j] >= b
  <2> SUFFICES ASSUME NEW j \in 0..(rb.n - 1), g <= j PROVE rb.values[j] >= b
    OBVIOUS
  <2>1. g \in 0..(rb.n - 1) /\ rb.values[g] >= b
    BY <1>1, <1>2
  <2>2. rb.values[g] <= rb.values[j]
    BY <2>1, RowIs
  <2> QED
    BY <1>1, <2>1, <2>2
<1> QED
  BY <1>2, <1>3, <1>4 DEF g

\* It is the only place that does.
LEMMA DividesIsFirst ==
  ASSUME NEW rb, RowOK(rb), NEW b \in Int, NEW p \in 0..rb.n,
         \A j \in 0..(rb.n - 1) : j < p => rb.values[j] < b,
         \A j \in 0..(rb.n - 1) : p <= j => rb.values[j] >= b
  PROVE  FirstAtLeast(rb.values, b) = p
<1>1. /\ rb.n \in Nat /\ DOMAIN rb.values = 0..(rb.n - 1)
      /\ \A j \in 0..(rb.n - 1) : rb.values[j] \in Int
  BY RowIs
<1>2. p = rb.n \/ rb.values[p] >= b
  BY <1>1
<1>3. \A q \in 0..(p - 1) : rb.values[q] < b
  BY <1>1
<1> QED
  BY <1>1, <1>2, <1>3, FirstAtLeastIs

\* The small skips stop on the first element that is not below the bound.
LEMMA SmallNextGeqLands ==
  ASSUME NEW rb, RowOK(rb), NEW c, NEW q, OnElement(rb, c, q),
         NEW b \in 0..rb.universe, b > c.value
  PROVE  OnElement(rb, RB!SmallNextGeq(rb, c, b), FirstAtLeast(rb.values, b))
<1> DEFINE g == FirstAtLeast(rb.values, b)
           P(i) == /\ RB!StopsAfter(rb, c, i, b)
                   /\ \A j \in 1..(i - 1) : ~RB!StopsAfter(rb, c, j, b)
           k == CHOOSE i \in 1..(rb.n + 1) : P(i)
           h == RB!Advance(RB!Ones(rb), c.he, k - 1)
<1>0. rb.n \in Nat /\ rb.universe \in Nat /\ b \in Int /\ q \in 0..rb.n /\ c.position = q
  BY RowIs DEF OnElement
<1>1. q \in 0..(rb.n - 1) /\ q < rb.n /\ c.value = rb.values[q] /\ c.he = Consumed(rb, q)
  <2>1. q # rb.n
    BY <1>0 DEF OnElement
  <2>2. q \in 0..(rb.n - 1) /\ q < rb.n
    BY <1>0, <2>1
  <2> QED
    BY <2>1, <2>2 DEF OnElement
<1>2. /\ g \in 0..rb.n
      /\ \A j \in 0..(rb.n - 1) : j < g => rb.values[j] < b
      /\ \A j \in 0..(rb.n - 1) : g <= j => rb.values[j] >= b
  BY <1>0, FirstDivides
<1> HIDE DEF g
<1>3. q < g
  BY <1>0, <1>1, <1>2, RowIs
<1>4. ReadsFrom(rb, c.he, q + 1)
  BY <1>1, WalksRead
<1>5. ASSUME NEW i \in Nat, i > 0
      PROVE  RB!StopsAfter(rb, c, i, b) <=> q + i >= g
  <2>1. CASE q + i >= rb.n
    BY <1>0, <1>2, <2>1 DEF RB!StopsAfter
  <2>2. CASE q + i < rb.n
    <3>1. q + 1 \in Nat /\ (q + 1) + i - 1 = q + i /\ (q + 1) + i <= rb.n /\ q + i \in 0..(rb.n - 1)
      BY <1>0, <1>5, <2>2
    <3>2. RB!Advance(RB!Ones(rb), c.he, i) = Consumed(rb, q + i)
      <4>1. RB!Advance(RB!Ones(rb), c.he, i) = Consumed(rb, (q + 1) + i - 1)
        BY <1>4, <1>5, <3>1, AdvanceReads
      <4> QED
        BY <3>1, <4>1
    <3>3. RB!Advance(RB!Ones(rb), c.he, i).pos = rb.values[q + i]
      BY <3>2 DEF Consumed
    <3>4. rb.values[q + i] >= b <=> q + i >= g
      <4>1. rb.values[q + i] \in Int
        BY <3>1, RowIs
      <4> QED
        BY <1>0, <1>2, <3>1, <4>1
    <3> QED
      BY <1>0, <2>2, <3>3, <3>4 DEF RB!StopsAfter
  <2> QED
    BY <1>0, <2>1, <2>2
<1>6. g - q \in 1..(rb.n + 1) /\ P(g - q)
  <2>1. g - q \in 1..(rb.n + 1) /\ g - q \in Nat /\ g - q > 0 /\ q + (g - q) >= g
    BY <1>0, <1>2, <1>3
  <2>2. RB!StopsAfter(rb, c, g - q, b)
    BY <1>5, <2>1
  <2>3. ASSUME NEW j \in 1..(g - q - 1) PROVE ~RB!StopsAfter(rb, c, j, b)
    <3>1. j \in Nat /\ j > 0 /\ ~(q + j >= g)
      BY <1>0, <1>2
    <3> QED
      BY <1>5, <3>1
  <2> QED
    BY <2>1, <2>2, <2>3
<1>7. ASSUME NEW i \in 1..(rb.n + 1), P(i) PROVE i = g - q
  <2>1. i \in Nat /\ i > 0 /\ q + i >= g
    BY <1>5, <1>7
  <2>2. CASE i > g - q
    <3>1. g - q \in 1..(i - 1) /\ g - q \in Nat /\ g - q > 0 /\ q + (g - q) >= g
      BY <1>0, <1>2, <1>3, <2>1, <2>2
    <3> QED
      BY <1>5, <1>7, <3>1
  <2> QED
    BY <1>0, <1>2, <2>1, <2>2
<1> HIDE DEF P
<1>8. k = g - q
  BY <1>6, <1>7
<1>9. RB!SmallNextGeq(rb, c, b)
        = IF q + k >= rb.n THEN RB!AtEnd(rb, q + k, h) ELSE RB!ReadAt(rb, q + k, h)
  BY <1>0 DEF RB!SmallNextGeq, P
<1> HIDE DEF k, h
<1>10. q + k = g
  BY <1>0, <1>2, <1>8
<1>11. CASE g >= rb.n
  <2>1. g = rb.n /\ RB!SmallNextGeq(rb, c, b) = RB!AtEnd(rb, rb.n, h)
    BY <1>0, <1>2, <1>9, <1>10, <1>11
  <2>2. OnElement(rb, RB!AtEnd(rb, rb.n, h), rb.n)
    BY AtEndLands
  <2> QED
    BY <2>1, <2>2 DEF g
<1>12. CASE ~(g >= rb.n)
  <2>1. g \in 0..(rb.n - 1) /\ RB!SmallNextGeq(rb, c, b) = RB!ReadAt(rb, g, h)
    BY <1>0, <1>2, <1>9, <1>10, <1>12
  <2>2. ReadsFrom(rb, h, g)
    <3>1. CASE k = 1
      <4>1. h = c.he /\ g = q + 1
        BY <1>10, <3>1 DEF h, RB!Advance
      <4> QED
        BY <1>4, <4>1
    <3>2. CASE k # 1
      <4>1. /\ q + 1 \in Nat /\ k - 1 \in Nat /\ k - 1 > 0 /\ (q + 1) + (k - 1) <= rb.n
            /\ (q + 1) + (k - 1) - 1 = g - 1 /\ g - 1 \in 0..(rb.n - 1) /\ g - 1 + 1 = g
        BY <1>0, <1>2, <1>3, <1>8, <1>12, <3>2
      <4>2. h = Consumed(rb, (q + 1) + (k - 1) - 1)
        BY <1>4, <4>1, AdvanceReads DEF h
      <4>3. ReadsFrom(rb, Consumed(rb, g - 1), g - 1 + 1)
        BY <4>1, WalksRead
      <4> QED
        BY <4>1, <4>2, <4>3
    <3> QED
      BY <3>1, <3>2
  <2>3. OnElement(rb, RB!ReadAt(rb, g, h), g)
    BY <2>1, <2>2, ReadAtLands
  <2> QED
    BY <2>1, <2>3 DEF g
<1> QED
  BY <1>11, <1>12

\* How many elements there are from one bound up to another.
LEMMA CountBetween ==
  ASSUME NEW rb, RowOK(rb), NEW x \in Nat, NEW y \in Nat, x <= y
  PROVE  LET a == FirstAtLeast(rb.values, x)
             g == FirstAtLeast(rb.values, y)
         IN  /\ a \in 0..rb.n /\ g \in 0..rb.n
             /\ a + Cardinality(RB!Ones(rb) \cap (x..(y - 1))) = g
<1> DEFINE a == FirstAtLeast(rb.values, x)
           g == FirstAtLeast(rb.values, y)
           f == [i \in a..(g - 1) |-> rb.values[i]]
           S == RB!Ones(rb) \cap (x..(y - 1))
<1>0. /\ rb.n \in Nat /\ DOMAIN rb.values = 0..(rb.n - 1)
      /\ \A j \in 0..(rb.n - 1) : rb.values[j] \in Nat
      /\ \A i, j \in 0..(rb.n - 1) : i < j => rb.values[i] < rb.values[j]
      /\ x \in Int /\ y \in Int
  BY RowIs
<1>1. /\ a \in 0..rb.n
      /\ \A j \in 0..(rb.n - 1) : j < a => rb.values[j] < x
      /\ \A j \in 0..(rb.n - 1) : a <= j => rb.values[j] >= x
  BY <1>0, FirstDivides
<1>2. /\ g \in 0..rb.n
      /\ \A j \in 0..(rb.n - 1) : j < g => rb.values[j] < y
      /\ \A j \in 0..(rb.n - 1) : g <= j => rb.values[j] >= y
  BY <1>0, FirstDivides
<1> HIDE DEF a, g
<1>3. a <= g
  <2> SUFFICES ASSUME g < a PROVE FALSE
    BY <1>1, <1>2
  <2>1. g \in 0..(rb.n - 1)
    BY <1>0, <1>1, <1>2
  <2> QED
    BY <1>0, <1>1, <1>2, <2>1
<1>4. S = {f[i] : i \in a..(g - 1)}
  <2>1. \A i \in a..(g - 1) : i \in 0..(rb.n - 1) /\ a <= i /\ i < g
    BY <1>0, <1>1, <1>2
  <2>2. \A i \in a..(g - 1) : f[i] \in S
    BY <1>0, <1>1, <1>2, <2>1 DEF RB!Ones
  <2>3. ASSUME NEW b \in S PROVE \E i \in a..(g - 1) : b = f[i]
    <3>1. PICK j \in 0..(rb.n - 1) : b = rb.values[j]
      BY <1>0 DEF RB!Ones
    <3>2. a <= j /\ j < g
      BY <1>0, <1>1, <1>2, <3>1
    <3>3. j \in a..(g - 1)
      BY <1>1, <1>2, <3>2
    <3> QED
      BY <3>1, <3>3
  <2> HIDE DEF S, f
  <2> QED
    BY <2>2, <2>3
<1>5. \A i, j \in a..(g - 1) : f[i] = f[j] => i = j
  <2>1. \A i \in a..(g - 1) : i \in 0..(rb.n - 1) /\ i \in Int
    BY <1>0, <1>1, <1>2
  <2> SUFFICES ASSUME NEW i \in a..(g - 1), NEW j \in a..(g - 1), f[i] = f[j], i < j \/ j < i
               PROVE  FALSE
    BY <2>1
  <2> QED
    BY <1>0, <2>1
<1>6. f \in Bijection(a..(g - 1), S)
  <2>1. f \in [a..(g - 1) -> S]
    BY <1>4
  <2> HIDE DEF f, S
  <2> QED
    BY <1>4, <1>5, <2>1 DEF Bijection, Injection, IsInjective, Surjection
<1>7. IsFiniteSet(a..(g - 1)) /\ Cardinality(a..(g - 1)) = g - a
  <2>1. a \in Int /\ g - 1 \in Int
    BY <1>1, <1>2
  <2> DEFINE z == g - 1
  <2>2. /\ IsFiniteSet(a..z)
        /\ Cardinality(a..z) = IF a > z THEN 0 ELSE z - a + 1
    <3> HIDE DEF z
    <3> QED
      BY <2>1, FS_Interval DEF z
  <2>3. (IF a > z THEN 0 ELSE z - a + 1) = g - a
    BY <1>1, <1>2, <1>3
  <2> QED
    BY <2>2, <2>3
<1>8. Cardinality(S) = g - a
  <2> HIDE DEF f, S
  <2> QED
    BY <1>6, <1>7, FS_Bijection DEF ExistsBijection
<1> HIDE DEF S
<1>9. a + Cardinality(S) = g
  BY <1>1, <1>2, <1>8
<1> QED
  BY <1>1, <1>2, <1>9 DEF a, g, S

\* A rank sample is the number of ones before its bit.
LEMMA SampledRank ==
  ASSUME NEW rb, RowOK(rb), NEW k \in Nat, k * 2^rb.r < rb.universe
  PROVE  RB!rank1_sample(rb, k) = FirstAtLeast(rb.values, k * 2^rb.r)
<1> DEFINE x == k * 2^rb.r
           a == FirstAtLeast(rb.values, x)
           ranks == {i \in 0..rb.n : RB!FirstBit(rb, i) <= x /\ x < RB!EndBit(rb, i)}
<1>0. /\ rb.n \in Nat /\ rb.universe \in Nat /\ rb.r \in Nat
      /\ \A j \in 0..(rb.n - 1) : rb.values[j] \in Nat
  BY RowIs
<1>1. x \in Nat /\ (k # 0 => x >= 1) /\ (k = 0 => x = 0)
  <2>1. 2^rb.r \in Nat \ {0}
    BY <1>0, PowerOfTwo
  <2> DEFINE z == 2^rb.r
  <2> HIDE DEF z
  <2>2. k * z \in Nat /\ (k # 0 => k * z >= 1) /\ (k = 0 => k * z = 0)
    <3>1. z \in Nat /\ z >= 1
      BY <2>1 DEF z
    <3>2. k # 0 => k * z >= 1 * z
      BY <3>1, TimesMonotone
    <3> QED
      BY <3>1, <3>2
  <2> QED
    BY <2>2 DEF z
<1>2. /\ a \in 0..rb.n
      /\ \A j \in 0..(rb.n - 1) : j < a => rb.values[j] < x
      /\ \A j \in 0..(rb.n - 1) : a <= j => rb.values[j] >= x
  <2>1. x \in Int
    BY <1>1
  <2> HIDE DEF x
  <2> QED
    BY <2>1, FirstDivides
<1>3. CASE k = 0
  <2>1. a = 0
    <3> SUFFICES ASSUME a # 0 PROVE FALSE
      OBVIOUS
    <3>1. 0 \in 0..(rb.n - 1) /\ 0 < a /\ x = 0
      BY <1>0, <1>1, <1>2, <1>3
    <3> HIDE DEF x, a
    <3>2. rb.values[0] < x /\ rb.values[0] \in Nat
      BY <1>0, <1>2, <3>1
    <3> QED
      BY <3>1, <3>2
  <2> QED
    BY <1>3, <2>1 DEF RB!rank1_sample
<1>4. CASE k # 0
  <2> HIDE DEF x, a
  <2>1. ASSUME NEW i \in 0..rb.n
        PROVE  /\ RB!FirstBit(rb, i) <= x <=> i <= a
               /\ x < RB!EndBit(rb, i) <=> i >= a
    <3>1. RB!FirstBit(rb, i) <= x <=> i <= a
      <4>1. CASE i = 0
        BY <1>1, <1>2, <1>4, <4>1 DEF RB!FirstBit
      <4>2. CASE i # 0
        <5>1. i - 1 \in 0..(rb.n - 1) /\ RB!FirstBit(rb, i) = rb.values[i - 1] + 1
          BY <1>0, <4>2 DEF RB!FirstBit
        <5>2. rb.values[i - 1] \in Nat /\ (i - 1 < a <=> i <= a)
          BY <1>0, <1>2, <5>1
        <5>3. rb.values[i - 1] < x <=> i - 1 < a
          BY <1>0, <1>1, <1>2, <5>1, <5>2
        <5> QED
          BY <1>1, <5>1, <5>2, <5>3
      <4> QED
        BY <4>1, <4>2
    <3>2. x < RB!EndBit(rb, i) <=> i >= a
      <4>1. CASE i = rb.n
        BY <1>0, <1>2, <4>1 DEF RB!EndBit, x
      <4>2. CASE i # rb.n
        <5>1. i \in 0..(rb.n - 1) /\ RB!EndBit(rb, i) = rb.values[i] + 1
          BY <1>0, <4>2 DEF RB!EndBit
        <5>2. rb.values[i] \in Nat
          BY <1>0, <5>1
        <5>3. rb.values[i] >= x <=> i >= a
          BY <1>0, <1>1, <1>2, <5>1, <5>2
        <5> QED
          BY <1>1, <5>1, <5>2, <5>3
      <4> QED
        BY <4>1, <4>2
    <3> QED
      BY <3>1, <3>2
  <2>2. ranks = {a}
    <3>1. a \in ranks
      BY <1>2, <2>1
    <3>2. ASSUME NEW i \in ranks PROVE i = a
      <4>1. i \in 0..rb.n /\ i <= a /\ i >= a
        BY <2>1
      <4> QED
        BY <1>2, <4>1
    <3> HIDE DEF ranks
    <3> QED
      BY <3>1, <3>2
  <2>3. RB!Max({a}) = a
    <3>1. \A y \in {a} : a >= y
      BY <1>2
    <3> QED
      BY <3>1 DEF RB!Max
  <2>4. RB!Rank1(rb, k) = IF ranks = {} THEN 0 ELSE RB!Max(ranks)
    BY DEF RB!Rank1, x
  <2> HIDE DEF ranks
  <2>5. RB!Rank1(rb, k) = a
    BY <2>2, <2>3, <2>4
  <2> QED
    BY <1>4, <2>5 DEF RB!rank1_sample, a, x
<1> QED
  BY <1>3, <1>4

\* Wherever the ones before a bound are counted from, there are as many.
LEMMA RankIs ==
  ASSUME NEW rb, RowOK(rb), NEW c, NEW q, OnElement(rb, c, q),
         NEW b \in 0..rb.universe, b < rb.universe
  PROVE  RB!Rank(rb, c, b) = FirstAtLeast(rb.values, b)
<1> DEFINE block == RB!Shr(b, rb.r)
           near == b > c.value /\ RB!Shr(b - c.value, rb.r) = 0
           from == IF near THEN c.value ELSE block * 2^rb.r
           start == IF near THEN c.position ELSE RB!rank1_sample(rb, block)
<1>0. /\ rb.n \in Nat /\ rb.universe \in Nat /\ rb.r \in Nat /\ b \in Nat
      /\ q \in 0..rb.n /\ c.position = q
      /\ \A j \in 0..(rb.n - 1) : rb.values[j] \in Nat
      /\ \A i, j \in 0..(rb.n - 1) : i < j => rb.values[i] < rb.values[j]
      /\ \A i, j \in 0..(rb.n - 1) : i <= j => rb.values[i] <= rb.values[j]
  BY RowIs DEF OnElement
<1>1. from \in Nat /\ from <= b /\ start = FirstAtLeast(rb.values, from)
  <2>1. CASE near
    <3>1. q # rb.n
      BY <1>0, <2>1 DEF OnElement
    <3>2. q \in 0..(rb.n - 1) /\ c.value = rb.values[q]
      BY <1>0, <3>1 DEF OnElement
    <3>3. /\ \A j \in 0..(rb.n - 1) : j < q => rb.values[j] < rb.values[q]
          /\ \A j \in 0..(rb.n - 1) : q <= j => rb.values[j] >= rb.values[q]
      BY <1>0, <3>2
    <3>4. FirstAtLeast(rb.values, rb.values[q]) = q
      <4>1. rb.values[q] \in Int
        BY <1>0, <3>2
      <4> QED
        BY <1>0, <3>3, <4>1, DividesIsFirst
    <3>5. from = rb.values[q] /\ start = q /\ from \in Nat /\ from <= b
      BY <1>0, <2>1, <3>2
    <3> QED
      BY <3>4, <3>5
  <2>2. CASE ~near
    <3> DEFINE s == 2^rb.r
               k == RB!Shr(b, rb.r)
               z == k * s
    <3>1. s \in Nat \ {0} /\ k = b \div s
      BY <1>0, PowerOfTwo DEF RB!Shr
    <3>2. k \in Nat /\ z \in Nat /\ b = z + (b % s) /\ b % s \in 0..(s - 1)
      BY <1>0, <3>1, Division
    <3>3. z <= b /\ z < rb.universe
      <4> HIDE DEF z, s
      <4> QED
        BY <1>0, <3>1, <3>2
    <3>4. RB!rank1_sample(rb, k) = FirstAtLeast(rb.values, k * 2^rb.r)
      <4> HIDE DEF k
      <4> QED
        BY <3>2, <3>3, SampledRank
    <3>5. from = z /\ start = RB!rank1_sample(rb, k)
      BY <2>2
    <3> QED
      BY <3>2, <3>3, <3>4, <3>5
  <2> QED
    BY <2>1, <2>2
<1> HIDE DEF from, start
<1>2. start + Cardinality(RB!Ones(rb) \cap (from..(b - 1))) = FirstAtLeast(rb.values, b)
  BY <1>0, <1>1, CountBetween
<1>3. \A T : RB!Cardinality(T) = Cardinality(T)
  BY DEF RB!Cardinality, Cardinality
<1>4. RB!Rank(rb, c, b) = start + RB!Cardinality(RB!Ones(rb) \cap (from..(b - 1)))
  BY DEF RB!Rank, start, from
<1> QED
  BY <1>2, <1>3, <1>4

LEMMA NextGeqLands ==
  ASSUME NEW rb, RowOK(rb), linear_scan_threshold \in Nat,
         NEW c, NEW q, OnElement(rb, c, q), NEW b \in 0..rb.universe
  PROVE  OnElement(rb, RB!NextGeq(rb, c, b), FirstAtLeast(rb.values, b))
<1> DEFINE g == FirstAtLeast(rb.values, b)
<1>0. /\ rb.n \in Nat /\ rb.universe \in Nat /\ b \in Int /\ b \in Nat /\ rb.n \in 0..rb.n
      /\ q \in 0..rb.n /\ c.position = q /\ c.value \in Nat
      /\ \A j \in 0..(rb.n - 1) : rb.values[j] \in Nat /\ rb.values[j] < rb.universe
      /\ \A i, j \in 0..(rb.n - 1) : i < j => rb.values[i] < rb.values[j]
      /\ \A i, j \in 0..(rb.n - 1) : i <= j => rb.values[i] <= rb.values[j]
  <2>1. /\ rb.n \in Nat /\ rb.universe \in Nat
        /\ q \in 0..rb.n /\ c.position = q
        /\ \A j \in 0..(rb.n - 1) : rb.values[j] \in Nat /\ rb.values[j] < rb.universe
        /\ \A i, j \in 0..(rb.n - 1) : i < j => rb.values[i] < rb.values[j]
        /\ \A i, j \in 0..(rb.n - 1) : i <= j => rb.values[i] <= rb.values[j]
    BY RowIs DEF OnElement
  <2>2. q # rb.n => q \in 0..(rb.n - 1)
    BY <2>1
  <2>3. c.value \in Nat
    BY <2>1, <2>2 DEF OnElement
  <2> QED
    BY <2>1, <2>3
<1>1. /\ g \in 0..rb.n
      /\ \A j \in 0..(rb.n - 1) : j < g => rb.values[j] < b
      /\ \A j \in 0..(rb.n - 1) : g <= j => rb.values[j] >= b
  BY <1>0, FirstDivides
<1>2. CASE b = c.value
  <2>1. /\ \A j \in 0..(rb.n - 1) : j < q => rb.values[j] < b
        /\ \A j \in 0..(rb.n - 1) : q <= j => rb.values[j] >= b
    <3>1. CASE q = rb.n
      BY <1>0, <1>2, <3>1 DEF OnElement
    <3>2. CASE q # rb.n
      <4>1. q \in 0..(rb.n - 1) /\ b = rb.values[q]
        BY <1>0, <1>2, <3>2 DEF OnElement
      <4> QED
        BY <1>0, <4>1
    <3> QED
      BY <3>1, <3>2
  <2>2. g = q
    BY <1>0, <2>1, DividesIsFirst
  <2>3. RB!NextGeq(rb, c, b) = c
    BY <1>2 DEF RB!NextGeq
  <2> QED
    BY <2>2, <2>3
<1>3. CASE b > c.value /\ b - c.value <= linear_scan_threshold
  <2>1. RB!NextGeq(rb, c, b) = RB!SmallNextGeq(rb, c, b)
    BY <1>0, <1>3 DEF RB!NextGeq
  <2> QED
    BY <1>3, <2>1, SmallNextGeqLands
<1>4. CASE ~(b = c.value) /\ ~(b > c.value /\ b - c.value <= linear_scan_threshold)
  <2>1. RB!NextGeq(rb, c, b) = RB!SlowNextGeq(rb, c, b)
    BY <1>4 DEF RB!NextGeq
  <2>2. CASE b >= rb.universe
    <3>1. g = rb.n
      <4> SUFFICES ASSUME g # rb.n PROVE FALSE
        OBVIOUS
      <4>1. g \in 0..(rb.n - 1) /\ g <= g
        BY <1>0, <1>1
      <4>2. rb.values[g] >= b /\ rb.values[g] < rb.universe /\ rb.values[g] \in Nat
        BY <1>0, <1>1, <4>1
      <4> HIDE DEF g
      <4> QED
        BY <1>0, <2>2, <4>2
    <3>2. RB!SlowNextGeq(rb, c, b) = RB!Move(rb, c, rb.n)
      BY <1>0, <2>2 DEF RB!SlowNextGeq
    <3> HIDE DEF g
    <3>3. OnElement(rb, RB!Move(rb, c, rb.n), rb.n)
      BY <1>0, MoveLands
    <3> QED
      BY <2>1, <3>1, <3>2, <3>3 DEF g
  <2>3. CASE ~(b >= rb.universe)
    <3>1. RB!Rank(rb, c, b) = g /\ b < rb.universe
      BY <1>0, <2>3, RankIs
    <3> HIDE DEF g
    <3>2. CASE g < rb.n
      <4>1. RB!SlowNextGeq(rb, c, b) = RB!ReadAt(rb, g, RB!At(b))
        BY <1>0, <2>3, <3>1, <3>2 DEF RB!SlowNextGeq
      <4>2. ReadsFrom(rb, RB!At(b), g)
        BY <1>0, <1>1, WalkAt
      <4>3. g \in 0..(rb.n - 1)
        BY <1>0, <1>1, <3>2
      <4>4. OnElement(rb, RB!ReadAt(rb, g, RB!At(b)), g)
        BY <4>2, <4>3, ReadAtLands
      <4> QED
        BY <2>1, <4>1, <4>4 DEF g
    <3>3. CASE ~(g < rb.n)
      <4>1. g = rb.n
        BY <1>0, <1>1, <3>3
      <4>2. RB!SlowNextGeq(rb, c, b) = RB!AtEnd(rb, rb.n, RB!At(b))
        BY <1>0, <2>3, <3>1, <3>3, <4>1 DEF RB!SlowNextGeq
      <4>3. OnElement(rb, RB!AtEnd(rb, rb.n, RB!At(b)), rb.n)
        BY AtEndLands
      <4> QED
        BY <2>1, <4>1, <4>2, <4>3 DEF g
    <3> QED
      BY <3>2, <3>3
  <2> QED
    BY <2>2, <2>3
<1> QED
  BY <1>2, <1>3, <1>4

\* prev_value() finds the element before the cursor in the bits.
LEMMA PrevValueFinds ==
  ASSUME NEW rb, RowOK(rb), NEW c, NEW q, OnElement(rb, c, q)
  PROVE  RB!prev_value(rb, c) = ValueBefore(rb.values, q)
<1> DEFINE from == IF c.position < rb.n THEN c.he.pos - 1 ELSE rb.universe - 1
           S == {b \in RB!Ones(rb) : b <= from}
<1>0. /\ rb.n \in Nat /\ rb.universe \in Nat
      /\ q \in 0..rb.n /\ c.position = q
      /\ DOMAIN rb.values = 0..(rb.n - 1)
      /\ \A j \in 0..(rb.n - 1) : rb.values[j] \in Nat /\ rb.values[j] < rb.universe
      /\ \A i, j \in 0..(rb.n - 1) : i < j => rb.values[i] < rb.values[j]
      /\ \A i, j \in 0..(rb.n - 1) : i <= j => rb.values[i] <= rb.values[j]
  BY RowIs DEF OnElement
<1>1. CASE q = 0
  BY <1>0, <1>1 DEF RB!prev_value, ValueBefore
<1>2. CASE q # 0
  <2>0. q - 1 \in 0..(rb.n - 1) /\ q \in Int
    BY <1>0, <1>2
  <2>1. \A j \in 0..(rb.n - 1) : rb.values[j] <= from <=> j < q
    <3>1. CASE q < rb.n
      <4>1. q \in 0..(rb.n - 1) /\ from = rb.values[q] - 1
        BY <1>0, <3>1 DEF OnElement, Consumed
      <4> QED
        BY <1>0, <4>1
    <3>2. CASE ~(q < rb.n)
      <4>1. q = rb.n /\ from = rb.universe - 1
        BY <1>0, <3>2
      <4> QED
        BY <1>0, <4>1
    <3> QED
      BY <3>1, <3>2
  <2>2. rb.values[q - 1] \in S
    <3>1. rb.values[q - 1] \in RB!Ones(rb)
      BY <1>0, <2>0 DEF RB!Ones
    <3>2. q - 1 < q
      BY <2>0
    <3>3. rb.values[q - 1] <= from
      BY <2>0, <2>1, <3>2
    <3> QED
      BY <3>1, <3>3
  <2>3. \A b \in S : b \in Nat /\ b <= rb.values[q - 1]
    <3> SUFFICES ASSUME NEW j \in 0..(rb.n - 1), rb.values[j] <= from
                 PROVE  rb.values[j] \in Nat /\ rb.values[j] <= rb.values[q - 1]
      BY <1>0 DEF RB!Ones
    <3>1. j < q
      BY <2>1
    <3>2. j <= q - 1
      BY <2>0, <3>1
    <3> QED
      BY <1>0, <2>0, <3>2
  <2>4. RB!prev_value(rb, c) = RB!Max(S)
    BY <1>0, <1>2 DEF RB!prev_value
  <2> DEFINE M == rb.values[q - 1]
  <2>5. M \in S /\ M \in Nat /\ \A b \in S : b \in Nat /\ b <= M
    BY <2>2, <2>3
  <2> HIDE DEF S, M
  <2>6. \A x \in S : (\A y \in S : x >= y) <=> x = M
    BY <2>5
  <2>7. RB!Max(S) = M
    BY <2>5, <2>6 DEF RB!Max
  <2> QED
    BY <1>2, <2>4, <2>7 DEF M, ValueBefore
<1> QED
  BY <1>1, <1>2

-----------------------------------------------------------------------------
(* indexed_sequence and strict_sequence *)

RatesOK == params \in [s0 : Nat, s1 : Nat, r : Nat, rb_s1 : Nat]

\* A sequence that was opened is a form of s.
Opened(e, s, n, u) ==
  /\ IsAscending(s, n, u)
  /\ e.n = n
  /\ e.type \in {"all_ones", "ranked_bitvector", "elias_fano"}
  /\ e.type = "all_ones" => n = u
  /\ e.type = "ranked_bitvector" =>
       e.values = s /\ e.universe = u /\ e.r \in Nat /\ e.s1 \in Nat
  /\ e.type = "elias_fano" /\ ~e.shifted => e.values = s
  /\ ~e.shifted => e.universe = u
  /\ e.shifted \in BOOLEAN
  /\ e.shifted => /\ e.type = "elias_fano"
                  /\ e.values = [i \in 0..(n - 1) |-> s[i] - i]

\* The cursor c of e is on the p-th element.
InPlace(e, c, p) ==
  /\ p \in 0..e.n
  /\ IF e.type = "ranked_bitvector" THEN OnElement(e, c, p) ELSE c = Land(e, p)

LEMMA AscendingIs ==
  ASSUME NEW s, NEW n, NEW u, IsAscending(s, n, u)
  PROVE  /\ n \in Nat /\ u \in Nat
         /\ DOMAIN s = 0..(n - 1)
         /\ \A i \in 0..(n - 1) : s[i] \in Nat /\ s[i] < u
         /\ \A i, j \in 0..(n - 1) : i < j => s[i] < s[j]
         /\ SizeOf(s) = n
<1>1. /\ n \in Nat /\ u \in Nat
      /\ DOMAIN s = 0..(n - 1)
      /\ \A i \in 0..(n - 1) : s[i] \in Nat /\ s[i] < u
      /\ \A i, j \in 0..(n - 1) : i < j => s[i] < s[j]
  BY DEF IsAscending
<1>2. SizeOf(s) = n
  BY <1>1, SizeOfSequence
<1> QED
  BY <1>1, <1>2

\* An element is at least its place, so there are no more than the universe.
LEMMA AscendingAtLeast ==
  ASSUME NEW s, NEW n, NEW u, IsAscending(s, n, u)
  PROVE  /\ \A i \in 0..(n - 1) : s[i] >= i
         /\ n <= u
<1>0. /\ n \in Nat /\ u \in Nat
      /\ \A j \in 0..(n - 1) : s[j] \in Nat /\ s[j] < u
      /\ \A j, k \in 0..(n - 1) : j < k => s[j] < s[k]
  BY AscendingIs
<1>1. \A i \in 0..(n - 1) : s[i] >= i
  <2> DEFINE S == {j \in 0..(n - 1) : s[j] < j}
  <2>1. SUFFICES ASSUME S # {} PROVE FALSE
    BY <1>0
  <2>2. S \in SUBSET Nat
    BY <1>0
  <2>3. PICK j \in S : \A k \in S : j <= k
    BY <2>1, <2>2, LeastElement
  <2>4. j \in 0..(n - 1) /\ s[j] < j /\ s[j] \in Nat
    BY <1>0, <2>3
  <2>5. j - 1 \in 0..(n - 1) /\ j - 1 < j /\ ~(j <= j - 1)
    BY <1>0, <2>4
  <2>6. j - 1 \notin S
    BY <2>3, <2>5
  <2>7. s[j - 1] \in Nat /\ s[j - 1] >= j - 1
    BY <1>0, <2>5, <2>6
  <2>8. s[j - 1] < s[j]
    BY <1>0, <2>4, <2>5
  <2> QED
    BY <2>4, <2>7, <2>8
<1>2. n <= u
  <2>1. n # 0 => n - 1 \in 0..(n - 1)
    BY <1>0
  <2>2. n # 0 => s[n - 1] >= n - 1 /\ s[n - 1] < u /\ s[n - 1] \in Nat
    BY <1>0, <1>1, <2>1
  <2> QED
    BY <1>0, <2>2
<1> QED
  BY <1>1, <1>2

\* As many elements as numbers below the universe are those numbers.
LEMMA AllOnes ==
  ASSUME NEW s, NEW n, IsAscending(s, n, n), NEW i \in 0..(n - 1)
  PROVE  s[i] = i
<1>0. /\ n \in Nat
      /\ \A j \in 0..(n - 1) : s[j] \in Nat /\ s[j] < n
      /\ \A j, k \in 0..(n - 1) : j < k => s[j] < s[k]
  BY AscendingIs
<1>1. s[i] >= i
  BY AscendingAtLeast
<1>2. s[i] <= i
  <2> DEFINE S == {j \in 0..(n - 1) : s[j] > j}
  <2>1. SUFFICES ASSUME S # {} PROVE FALSE
    BY <1>0
  <2>2. PICK j \in S : \A k \in S : k <= j
    <3>1. S \in SUBSET (0..(n - 1))
      OBVIOUS
    <3>2. n - 1 \in Nat
      BY <1>0
    <3> HIDE DEF S
    <3> QED
      BY <2>1, <3>1, <3>2, GreatestElement
  <2>3. j \in 0..(n - 1) /\ s[j] > j /\ s[j] \in Nat /\ s[j] < n
    BY <1>0, <2>2
  <2>4. j + 1 \in 0..(n - 1) /\ j < j + 1 /\ ~(j + 1 <= j)
    BY <1>0, <2>3
  <2>5. j + 1 \notin S
    BY <2>2, <2>4
  <2>6. s[j + 1] \in Nat /\ s[j + 1] <= j + 1
    BY <1>0, <2>4, <2>5
  <2>7. s[j] < s[j + 1]
    BY <1>0, <2>3, <2>4
  <2> QED
    BY <2>3, <2>6, <2>7
<1> QED
  BY <1>0, <1>1, <1>2

\* What was written is opened as it was written.
LEMMA Opens ==
  ASSUME NEW strict \in BOOLEAN, NEW s, NEW n, NEW u, IsAscending(s, n, u), RatesOK
  PROVE  /\ Opened(open(strict, write(strict, s, u), u, n), s, n, u)
         /\ ~strict => ~open(strict, write(strict, s, u), u, n).shifted
<1> DEFINE w == write(strict, s, u)
           e == open(strict, w, u, n)
           p == IF strict THEN strict_params ELSE params
<1>0. /\ n \in Nat /\ u \in Nat /\ DOMAIN s = 0..(n - 1) /\ SizeOf(s) = n
      /\ \A i \in 0..(n - 1) : s[i] \in Nat
      /\ s \in [0..(n - 1) -> Nat]
  <2>1. s \in [0..(n - 1) -> Nat]
    BY DEF IsAscending
  <2> QED
    BY <2>1, AscendingIs
<1>1. p.r \in Nat /\ p.rb_s1 \in Nat
  BY DEF RatesOK, strict_params, Unsampled
<1> HIDE DEF p
<1> DEFINE f == Form(strict, u, n)
<1>2. /\ w.type = f
      /\ w.values = IF f = "elias_fano" THEN EFValues(strict, s) ELSE s
  BY <1>0 DEF write
<1>3. /\ f \in {"all_ones", "ranked_bitvector", "elias_fano"}
      /\ u = n <=> f = "all_ones"
  <2>1. CASE u = n
    BY <2>1 DEF Form
  <2>2. CASE u # n /\ rb_cost(strict, u, n) < ef_cost(strict, u, n)
    BY <2>2 DEF Form
  <2>3. CASE u # n /\ ~(rb_cost(strict, u, n) < ef_cost(strict, u, n))
    BY <2>3 DEF Form
  <2> QED
    BY <2>1, <2>2, <2>3
<1> HIDE DEF w, f
<1>4. /\ e.type = f /\ e.values = w.values /\ e.n = n
      /\ e.universe = IF f = "elias_fano" THEN EFUniverse(strict, u, n) ELSE u
      /\ e.shifted = (strict /\ f = "elias_fano")
      /\ e.r = p.r /\ e.s1 = p.rb_s1
  <2>1. (IF u = n THEN "all_ones" ELSE w.type) = f
    BY <1>2, <1>3
  <2> QED
    BY <2>1 DEF open, p
<1> HIDE DEF e
<1>5. ASSUME f = "elias_fano"
      PROVE  e.values = IF strict THEN [i \in 0..(n - 1) |-> s[i] - i] ELSE s
  <2>1. e.values = [i \in 0..(n - 1) |-> IF strict THEN s[i] - i ELSE s[i]]
    BY <1>0, <1>2, <1>4, <1>5 DEF EFValues
  <2>2. CASE strict
    BY <2>1, <2>2
  <2>3. CASE ~strict
    BY <1>0, <2>1, <2>3
  <2> QED
    BY <2>2, <2>3
<1>6. e.shifted \in BOOLEAN /\ (e.shifted <=> strict /\ f = "elias_fano")
  BY <1>4
<1>7. ~e.shifted => e.universe = u
  BY <1>4, <1>6 DEF EFUniverse
<1>8. e.type = "ranked_bitvector" => e.values = s /\ e.universe = u
  BY <1>2, <1>4
<1>9. Opened(e, s, n, u)
  BY <1>1, <1>3, <1>4, <1>5, <1>6, <1>7, <1>8 DEF Opened
<1> QED
  BY <1>6, <1>9 DEF e, w

LEMMA OpenedRow ==
  ASSUME NEW e, NEW s, NEW n, NEW u, Opened(e, s, n, u), e.type = "ranked_bitvector"
  PROVE  RowOK(e) /\ e.values = s /\ e.n = n /\ e.universe = u
BY DEF Opened, RowOK

LEMMA OpenedSize ==
  ASSUME NEW e, NEW s, NEW n, NEW u, Opened(e, s, n, u)
  PROVE  e.n = n /\ n \in Nat /\ u \in Nat /\ SizeOf(s) = n /\ IsAscending(s, n, u)
BY AscendingIs DEF Opened

\* Where Elias-Fano cursors land.
LEMMA LandedValue ==
  ASSUME NEW e, NEW s, NEW n, NEW u, Opened(e, s, n, u), NEW p \in 0..n,
         e.type = "elias_fano"
  PROVE  Land(e, p).value = IF p = n THEN e.universe
                            ELSE IF e.shifted THEN s[p] - p ELSE s[p]
<1>1. /\ n \in Nat /\ SizeOf(s) = n /\ DOMAIN s = 0..(n - 1)
  BY AscendingIs DEF Opened
<1>2. DOMAIN e.values = 0..(n - 1)
  BY <1>1 DEF Opened
<1>3. SizeOf(e.values) = n
  BY <1>1, <1>2, SizeOfSequence
<1>4. Land(e, p).value = IF p = n THEN e.universe ELSE e.values[p]
  BY <1>3 DEF Land, ValueIn
<1>5. p # n => p \in 0..(n - 1)
  BY <1>1
<1>6. p # n => e.values[p] = IF e.shifted THEN s[p] - p ELSE s[p]
  BY <1>5 DEF Opened
<1> QED
  BY <1>4, <1>6

LEMMA StartInPlace ==
  ASSUME NEW e, NEW s, NEW n, NEW u, Opened(e, s, n, u)
  PROVE  InPlace(e, Start(e), n)
<1>0. e.n = n /\ n \in Nat /\ n \in 0..n
  BY OpenedSize
<1>1. CASE e.type = "ranked_bitvector"
  BY <1>0, <1>1 DEF InPlace, OnElement, Start
<1>2. CASE e.type = "all_ones"
  <2>1. e.universe = n /\ ~e.shifted
    BY <1>2 DEF Opened
  <2> QED
    BY <1>0, <1>2, <2>1 DEF InPlace, Land, Start
<1>3. CASE e.type = "elias_fano"
  <2>1. Land(e, n).value = e.universe
    BY <1>0, <1>3, LandedValue
  <2>2. Land(e, n) = Start(e)
    BY <1>0, <1>3, <2>1 DEF Land, Start
  <2> QED
    BY <1>0, <1>3, <2>2 DEF InPlace
<1> QED
  BY <1>1, <1>2, <1>3 DEF Opened

LEMMA MoveInPlace ==
  ASSUME NEW e, NEW s, NEW n, NEW u, Opened(e, s, n, u), linear_scan_threshold \in Nat,
         NEW c, NEW q, InPlace(e, c, q), NEW p \in 0..n
  PROVE  InPlace(e, Move(e, c, p), p)
<1>0. e.n = n /\ n \in Nat
  BY OpenedSize
<1>1. CASE e.type = "ranked_bitvector"
  <2>1. OnElement(e, RB!Move(e, c, p), p)
    BY <1>0, <1>1, OpenedRow, MoveLands DEF InPlace
  <2> QED
    BY <1>0, <1>1, <2>1 DEF InPlace, Move
<1>2. CASE e.type # "ranked_bitvector"
  BY <1>0, <1>2 DEF InPlace, Move
<1> QED
  BY <1>1, <1>2

LEMMA NextInPlace ==
  ASSUME NEW e, NEW s, NEW n, NEW u, Opened(e, s, n, u),
         NEW c, NEW q, InPlace(e, c, q), q < n
  PROVE  InPlace(e, Next(e, c), q + 1)
<1>0. e.n = n /\ n \in Nat /\ q + 1 \in 0..n
  BY OpenedSize DEF InPlace
<1>1. CASE e.type = "ranked_bitvector"
  <2>1. OnElement(e, RB!Next(e, c), q + 1)
    BY <1>0, <1>1, OpenedRow, NextLands DEF InPlace
  <2> QED
    BY <1>0, <1>1, <2>1 DEF InPlace, Next
<1>2. CASE e.type # "ranked_bitvector"
  BY <1>0, <1>2 DEF InPlace, Next, Land
<1> QED
  BY <1>1, <1>2

LEMMA NextGeqInPlace ==
  ASSUME NEW e, NEW s, NEW n, NEW u, Opened(e, s, n, u), ~e.shifted,
         linear_scan_threshold \in Nat,
         NEW c, NEW q, InPlace(e, c, q), NEW b \in 0..u
  PROVE  InPlace(e, NextGeq(e, c, b), FirstAtLeast(s, b))
<1> DEFINE g == FirstAtLeast(s, b)
<1>0. /\ e.n = n /\ n \in Nat /\ u \in Nat /\ b \in Int /\ q \in 0..n /\ u \in Int
      /\ DOMAIN s = 0..(n - 1)
      /\ \A i \in 0..(n - 1) : s[i] \in Nat /\ s[i] < u
      /\ \A i \in 0..(n - 1) : s[i] \in Int
      /\ \A i, j \in 0..(n - 1) : i < j => s[i] < s[j]
  <2>1. e.n = n /\ n \in Nat /\ u \in Nat /\ IsAscending(s, n, u)
    BY OpenedSize
  <2> QED
    BY <2>1, AscendingIs DEF InPlace
<1>1. g \in 0..n
  BY <1>0, FirstAtLeastFound
<1>2. CASE e.type = "ranked_bitvector"
  <2>0. RowOK(e) /\ e.values = s /\ e.universe = u
    BY <1>2, OpenedRow
  <2>1. OnElement(e, RB!NextGeq(e, c, b), FirstAtLeast(e.values, b))
    BY <1>0, <1>2, <2>0, NextGeqLands DEF InPlace
  <2> QED
    BY <1>0, <1>1, <1>2, <2>0, <2>1 DEF InPlace, NextGeq
<1>3. CASE e.type = "all_ones"
  <2>1. n = u
    BY <1>3 DEF Opened
  <2>2. \A i \in 0..(n - 1) : s[i] = i
    BY <2>1, AllOnes DEF Opened
  <2>3. b \in 0..n /\ (b = n \/ s[b] >= b) /\ \A i \in 0..(b - 1) : s[i] < b
    <3>1. b \in 0..n /\ (b # n => b \in 0..(n - 1))
      BY <1>0, <2>1
    <3>2. \A i \in 0..(b - 1) : i \in 0..(n - 1)
      BY <1>0, <2>1
    <3> QED
      BY <1>0, <2>2, <3>1, <3>2
  <2>4. g = b
    BY <1>0, <2>3, FirstAtLeastIs
  <2>5. NextGeq(e, c, b) = Land(e, b)
    BY <1>3 DEF NextGeq
  <2> QED
    BY <1>0, <1>1, <1>3, <2>4, <2>5 DEF InPlace
<1>4. CASE e.type = "elias_fano"
  <2>1. e.values = s /\ e.universe = u
    BY <1>4 DEF Opened
  <2>2. c.position = q
    BY <1>4 DEF InPlace, Land
  <2>3. Landing(s, u, q, b) = g
    BY <1>0, LandingIsFirst
  <2>4. NextGeq(e, c, b) = Land(e, g)
    BY <1>4, <2>1, <2>2, <2>3 DEF NextGeq
  <2> QED
    BY <1>0, <1>1, <1>4, <2>4 DEF InPlace
<1> QED
  BY <1>2, <1>3, <1>4 DEF Opened

LEMMA ValueInPlace ==
  ASSUME NEW e, NEW s, NEW n, NEW u, Opened(e, s, n, u),
         NEW c, NEW p, InPlace(e, c, p), p < n \/ ~e.shifted
  PROVE  c.position = p /\ ValueOf(e, c) = ValueIn(s, u, p)
<1>0. e.n = n /\ n \in Nat /\ p \in 0..n /\ SizeOf(s) = n
  BY OpenedSize DEF InPlace
<1>1. CASE e.type = "ranked_bitvector"
  <2>1. e.values = s /\ e.universe = u /\ ~e.shifted
    BY <1>1 DEF Opened
  <2> QED
    BY <1>0, <1>1, <2>1 DEF InPlace, OnElement, ValueOf, ValueIn
<1>2. CASE e.type = "all_ones"
  <2>1. n = u /\ ~e.shifted
    BY <1>2 DEF Opened
  <2>2. c = Land(e, p)
    BY <1>2 DEF InPlace
  <2>3. ValueOf(e, c) = p /\ c.position = p
    BY <1>2, <2>1, <2>2 DEF ValueOf, Land
  <2>4. p # n => s[p] = p
    <3>1. p # n => p \in 0..(n - 1)
      BY <1>0
    <3> QED
      BY <2>1, <3>1, AllOnes DEF Opened
  <2> QED
    BY <1>0, <2>1, <2>3, <2>4 DEF ValueIn
<1>3. CASE e.type = "elias_fano"
  <2>1. c = Land(e, p)
    BY <1>3 DEF InPlace
  <2>2. c.position = p
    BY <2>1 DEF Land
  <2>3. c.value = IF p = n THEN e.universe ELSE IF e.shifted THEN s[p] - p ELSE s[p]
    BY <1>0, <1>3, <2>1, LandedValue
  <2>4. CASE ~e.shifted
    BY <1>0, <2>2, <2>3, <2>4 DEF ValueOf, ValueIn, Opened
  <2>5. CASE e.shifted
    <3>1. p # n /\ p \in 0..(n - 1)
      BY <1>0, <2>5
    <3>2. s[p] \in Nat
      BY <3>1, AscendingIs DEF Opened
    <3> QED
      BY <1>0, <2>2, <2>3, <2>5, <3>1, <3>2 DEF ValueOf, ValueIn
  <2> QED
    BY <2>4, <2>5
<1> QED
  BY <1>1, <1>2, <1>3 DEF Opened

LEMMA PrevInPlace ==
  ASSUME NEW e, NEW s, NEW n, NEW u, Opened(e, s, n, u),
         NEW c, NEW p, InPlace(e, c, p)
  PROVE  prev_value(e, c) = ValueBefore(s, p)
<1>0. e.n = n /\ n \in Nat /\ p \in 0..n /\ SizeOf(s) = n /\ IsAscending(s, n, u)
  BY OpenedSize DEF InPlace
<1>1. CASE e.type = "ranked_bitvector"
  <2>1. RB!prev_value(e, c) = ValueBefore(e.values, p)
    BY <1>1, OpenedRow, PrevValueFinds DEF InPlace
  <2> QED
    BY <1>1, <2>1, OpenedRow DEF prev_value
<1>2. CASE e.type # "ranked_bitvector"
  <2>1. c.position = p
    BY <1>2 DEF InPlace, Land
  <2>2. p # 0 => p - 1 \in 0..(n - 1)
    BY <1>0
  <2>3. CASE e.type = "all_ones"
    <3>1. n = u
      BY <2>3 DEF Opened
    <3>2. p # 0 => s[p - 1] = p - 1
      BY <1>0, <2>2, <3>1, AllOnes
    <3> QED
      BY <2>1, <2>3, <3>2 DEF prev_value, ValueBefore
  <2>4. CASE e.type = "elias_fano" /\ ~e.shifted
    BY <2>1, <2>4 DEF prev_value, Opened
  <2>5. CASE e.type = "elias_fano" /\ e.shifted
    <3>1. p # 0 => e.values[p - 1] = s[p - 1] - (p - 1)
      BY <2>2, <2>5 DEF Opened
    <3>2. p # 0 => s[p - 1] \in Nat
      BY <1>0, <2>2, AscendingIs
    <3> QED
      BY <1>0, <2>1, <2>5, <3>1, <3>2 DEF prev_value, ValueBefore
  <2> QED
    BY <1>2, <2>3, <2>4, <2>5 DEF Opened
<1> QED
  BY <1>1, <1>2

-----------------------------------------------------------------------------
(* positive_sequence *)

IsSums(sums, f) ==
  sums = [i \in DOMAIN f |-> IF i = 0 THEN f[0] ELSE sums[i - 1] + f[i]]

\* The table of sums exists: one that is right up to some place, and no
\* further, could be continued.
LEMMA SumsExist ==
  ASSUME NEW m \in Nat, NEW f \in [0..(m - 1) -> Nat]
  PROVE  \E sums \in [0..(m - 1) -> Nat] : IsSums(sums, f)
<1> DEFINE D == 0..(m - 1)
           After(sums, i) == IF i = 0 THEN f[0] ELSE sums[i - 1] + f[i]
           Partial(k, sums) == \A i \in D : i < k => sums[i] = After(sums, i)
           Good(k) == \E sums \in [D -> Nat] : Partial(k, sums)
           Bad == {k \in Nat : ~Good(k)}
<1>1. Good(0)
  <2> DEFINE zero == [i \in D |-> 0]
  <2>1. zero \in [D -> Nat] /\ \A i \in D : ~(i < 0)
    OBVIOUS
  <2>2. Partial(0, zero)
    BY <2>1
  <2> HIDE DEF zero, Partial
  <2> QED
    BY <2>1, <2>2
<1>2. ASSUME NEW k \in Nat, Good(k) PROVE Good(k + 1)
  <2>1. PICK sums \in [D -> Nat] : Partial(k, sums)
    BY <1>2
  <2> DEFINE more == [i \in D |-> After(sums, i)]
  <2>2. \A i \in D : After(sums, i) \in Nat /\ (i # 0 => i - 1 \in D)
    <3> SUFFICES ASSUME NEW i \in D PROVE After(sums, i) \in Nat /\ (i # 0 => i - 1 \in D)
      OBVIOUS
    <3>1. i # 0 => i - 1 \in D
      OBVIOUS
    <3>2. f[i] \in Nat /\ (i # 0 => sums[i - 1] \in Nat)
      BY <2>1, <3>1
    <3> QED
      BY <3>1, <3>2
  <2>3. more \in [D -> Nat]
    BY <2>2
  <2>4. \A i \in D : i < k => more[i] = sums[i]
    BY <2>1
  <2>5. ASSUME NEW i \in D, i < k + 1 PROVE more[i] = After(more, i)
    <3>1. CASE i = 0
      BY <3>1
    <3>2. CASE i # 0
      <4>1. i - 1 \in D /\ i - 1 < k
        BY <2>5, <3>2
      <4>2. more[i - 1] = sums[i - 1]
        BY <2>4, <4>1
      <4> QED
        BY <3>2, <4>2
    <3> QED
      BY <3>1, <3>2
  <2>6. Partial(k + 1, more)
    BY <2>5
  <2> HIDE DEF more, Partial
  <2> QED
    BY <2>3, <2>6
<1>3. Good(m)
  <2>1. SUFFICES ASSUME Bad # {} PROVE FALSE
    OBVIOUS
  <2> HIDE DEF Good
  <2>2. PICK k \in Bad : \A j \in Bad : k <= j
    BY <2>1, LeastElement
  <2>3. k # 0 /\ k - 1 \in Nat /\ ~(k - 1 \in Bad) /\ k = k - 1 + 1
    BY <1>1, <2>2
  <2> QED
    BY <1>2, <2>2, <2>3
<1>4. PICK sums \in [D -> Nat] : Partial(m, sums)
  BY <1>3
<1>5. \A i \in D : sums[i] = After(sums, i)
  BY <1>4
<1>6. sums = [i \in D |-> sums[i]]
  BY <1>4
<1>7. sums = [i \in D |-> After(sums, i)]
  <2> HIDE DEF After
  <2> QED
    BY <1>5, <1>6
<1>8. IsSums(sums, f)
  BY <1>7 DEF IsSums
<1> QED
  BY <1>4, <1>8

\* Of positive numbers the sums ascend strictly, and faster than the positions.
LEMMA SumsAscend ==
  ASSUME NEW m \in Nat, NEW f \in [0..(m - 1) -> Nat], \A i \in 0..(m - 1) : f[i] >= 1
  PROVE  LET sums == Cumulative(f)
         IN  /\ sums \in [0..(m - 1) -> Nat]
             /\ m # 0 => sums[0] = f[0]
             /\ \A i \in 1..(m - 1) : sums[i] = sums[i - 1] + f[i]
             /\ \A i \in 0..(m - 1) : sums[i] >= i + 1
             /\ \A i, j \in 0..(m - 1) : i < j => sums[i] < sums[j]
<1> DEFINE sums == Cumulative(f)
<1>1. sums = CHOOSE any : IsSums(any, f)
  BY DEF Cumulative, IsSums
<1>2. IsSums(sums, f)
  <2>1. \E any : IsSums(any, f)
    BY SumsExist
  <2> QED
    BY <1>1, <2>1
<1> HIDE DEF sums
<1>3. /\ DOMAIN sums = 0..(m - 1)
      /\ \A i \in 0..(m - 1) : sums[i] = IF i = 0 THEN f[0] ELSE sums[i - 1] + f[i]
      /\ sums = [i \in 0..(m - 1) |-> sums[i]]
  <2>1. sums = [i \in 0..(m - 1) |-> IF i = 0 THEN f[0] ELSE sums[i - 1] + f[i]]
    BY <1>2 DEF IsSums
  <2> QED
    BY <2>1
<1>4. \A i \in 0..(m - 1) : sums[i] \in Nat
  <2> DEFINE S == {i \in 0..(m - 1) : ~(sums[i] \in Nat)}
  <2>1. SUFFICES ASSUME S # {} PROVE FALSE
    OBVIOUS
  <2>2. PICK i \in S : \A k \in S : i <= k
    <3>1. S \in SUBSET Nat
      OBVIOUS
    <3> QED
      BY <2>1, <3>1, LeastElement
  <2>3. CASE i = 0
    BY <1>3, <2>2, <2>3
  <2>4. CASE i # 0
    <3>1. i - 1 \in 0..(m - 1) /\ ~(i <= i - 1)
      BY <2>2, <2>4
    <3>2. sums[i - 1] \in Nat
      BY <2>2, <3>1
    <3>3. i \in 0..(m - 1) /\ ~(sums[i] \in Nat) /\ f[i] \in Nat
      BY <2>2
    <3>4. sums[i] = sums[i - 1] + f[i]
      BY <1>3, <2>4, <3>3
    <3> QED
      BY <3>2, <3>3, <3>4
  <2> QED
    BY <2>3, <2>4
<1>5. \A i \in 1..(m - 1) : sums[i] = sums[i - 1] + f[i] /\ sums[i - 1] < sums[i]
  <2> SUFFICES ASSUME NEW i \in 1..(m - 1)
               PROVE  sums[i] = sums[i - 1] + f[i] /\ sums[i - 1] < sums[i]
    OBVIOUS
  <2>1. i \in 0..(m - 1) /\ i - 1 \in 0..(m - 1) /\ i # 0
    OBVIOUS
  <2>2. sums[i] = sums[i - 1] + f[i] /\ f[i] \in Nat /\ f[i] >= 1 /\ sums[i - 1] \in Nat
    BY <1>3, <1>4, <2>1
  <2> QED
    BY <2>2
<1>6. \A i \in 0..(m - 1) : sums[i] >= i + 1
  <2> DEFINE S == {i \in 0..(m - 1) : ~(sums[i] >= i + 1)}
  <2>1. SUFFICES ASSUME S # {} PROVE FALSE
    OBVIOUS
  <2>2. PICK i \in S : \A k \in S : i <= k
    <3>1. S \in SUBSET Nat
      OBVIOUS
    <3> QED
      BY <2>1, <3>1, LeastElement
  <2>3. CASE i = 0
    <3>1. i \in 0..(m - 1) /\ ~(sums[i] >= i + 1) /\ f[i] \in Nat /\ f[i] >= 1
      BY <2>2
    <3>2. sums[i] = f[i]
      BY <1>3, <2>3, <3>1
    <3> QED
      BY <2>3, <3>1, <3>2
  <2>4. CASE i # 0
    <3>1. i - 1 \in 0..(m - 1) /\ ~(i <= i - 1) /\ i \in 1..(m - 1)
      BY <2>2, <2>4
    <3>2. sums[i - 1] >= i - 1 + 1 /\ sums[i - 1] \in Nat /\ sums[i] \in Nat
      BY <1>4, <2>2, <3>1
    <3> QED
      BY <1>5, <2>2, <3>1, <3>2
  <2> QED
    BY <2>3, <2>4
<1>7. \A i, j \in 0..(m - 1) : i < j => sums[i] < sums[j]
  <2> SUFFICES ASSUME NEW i \in 0..(m - 1) PROVE \A j \in 0..(m - 1) : i < j => sums[i] < sums[j]
    OBVIOUS
  <2> DEFINE S == {j \in 0..(m - 1) : i < j /\ ~(sums[i] < sums[j])}
  <2>1. SUFFICES ASSUME S # {} PROVE FALSE
    OBVIOUS
  <2>2. PICK j \in S : \A k \in S : j <= k
    <3>1. S \in SUBSET Nat
      OBVIOUS
    <3> QED
      BY <2>1, <3>1, LeastElement
  <2>3. j \in 1..(m - 1) /\ j - 1 \in 0..(m - 1) /\ i <= j - 1 /\ ~(j <= j - 1)
    BY <2>2
  <2>4. sums[j - 1] < sums[j] /\ sums[j - 1] \in Nat /\ sums[j] \in Nat /\ sums[i] \in Nat
    BY <1>4, <1>5, <2>2, <2>3
  <2>5. i < j - 1 => sums[i] < sums[j - 1]
    BY <2>2, <2>3
  <2>6. i = j - 1 \/ i < j - 1
    BY <2>3
  <2>7. ~(sums[i] < sums[j])
    BY <2>2
  <2>8. sums[i] < sums[j]
    BY <2>4, <2>5, <2>6
  <2> QED
    BY <2>7, <2>8
<1>8. sums \in [0..(m - 1) -> Nat]
  BY <1>3, <1>4
<1>9. m # 0 => sums[0] = f[0]
  <2>1. m # 0 => 0 \in 0..(m - 1)
    OBVIOUS
  <2> QED
    BY <1>3, <2>1
<1> QED
  BY <1>5, <1>6, <1>7, <1>8, <1>9 DEF sums

\* The cache of a positive_sequence: the sum at its position, unless it is past
\* the last one.
PositiveInPlace(e, s, c, p) ==
  /\ InPlace(e, c.base, p)
  /\ c.position = p
  /\ p < e.n => c.cur = s[p]

LEMMA PositiveStarts ==
  ASSUME NEW e, NEW s, NEW n, NEW u, Opened(e, s, n, u)
  PROVE  PositiveInPlace(e, s, positive_start(e), n)
<1>1. e.n = n /\ n \in Nat
  BY OpenedSize
<1> QED
  BY <1>1, StartInPlace DEF PositiveInPlace, positive_start

\* Cached or not, what is answered is the difference of two sums.
LEMMA PositiveMoves ==
  ASSUME NEW e, NEW s, NEW n, NEW u, Opened(e, s, n, u), linear_scan_threshold \in Nat,
         NEW c, NEW q, PositiveInPlace(e, s, c, q), NEW p \in 0..(n - 1)
  PROVE  /\ PositiveInPlace(e, s, positive_move(e, c, p), p)
         /\ positive_move(e, c, p).answer = IF p = 0 THEN s[0] ELSE s[p] - s[p - 1]
<1>0. /\ e.n = n /\ n \in Nat /\ q \in 0..n /\ SizeOf(s) = n
      /\ InPlace(e, c.base, q) /\ c.position = q /\ (q < n => c.cur = s[q])
  BY OpenedSize DEF PositiveInPlace, InPlace
<1> DEFINE first == ~Cached(c, p) /\ p = 0
           before == IF Cached(c, p) THEN c.base ELSE Move(e, c.base, p - 1)
           prev == IF Cached(c, p) THEN c.cur ELSE ValueOf(e, before)
           base == IF first THEN Move(e, c.base, 0) ELSE Next(e, before)
           cur == ValueOf(e, base)
           result == [base |-> base, position |-> p, cur |-> cur,
                      answer |-> IF first THEN cur ELSE cur - prev]
<1>1. positive_move(e, c, p) = result
  BY DEF positive_move
<1>2. /\ InPlace(e, base, p)
      /\ first => p = 0
      /\ ~first => p # 0 /\ prev = s[p - 1]
  <2>1. CASE first
    <3>1. 0 \in 0..n /\ p = 0
      BY <1>0, <2>1
    <3>2. InPlace(e, Move(e, c.base, 0), 0)
      BY <1>0, <3>1, MoveInPlace
    <3> QED
      BY <2>1, <3>1, <3>2
  <2>2. CASE Cached(c, p)
    <3>1. p = q + 1 /\ q < n /\ p # 0 /\ q = p - 1
      BY <1>0, <2>2 DEF Cached
    <3>2. InPlace(e, Next(e, c.base), q + 1)
      BY <1>0, <3>1, NextInPlace
    <3> QED
      BY <1>0, <2>2, <3>1, <3>2
  <2>3. CASE ~first /\ ~Cached(c, p)
    <3> DEFINE m == Move(e, c.base, p - 1)
    <3>1. p # 0 /\ p - 1 \in 0..n /\ p - 1 < n /\ p - 1 + 1 = p
      BY <1>0, <2>3
    <3>2. InPlace(e, m, p - 1)
      BY <1>0, <3>1, MoveInPlace
    <3> HIDE DEF m
    <3>3. InPlace(e, Next(e, m), p - 1 + 1)
      BY <3>1, <3>2, NextInPlace
    <3>4. ValueOf(e, m) = ValueIn(s, u, p - 1)
      BY <3>1, <3>2, ValueInPlace
    <3>5. ValueOf(e, m) = s[p - 1]
      BY <1>0, <3>1, <3>4 DEF ValueIn
    <3>6. base = Next(e, m) /\ prev = ValueOf(e, m)
      BY <2>3 DEF m
    <3> QED
      BY <2>3, <3>1, <3>3, <3>5, <3>6
  <2> QED
    BY <2>1, <2>2, <2>3
<1> HIDE DEF first, base, prev
<1>3. p < n /\ p # n
  BY <1>0
<1>4. cur = s[p]
  <2>1. ValueOf(e, base) = ValueIn(s, u, p)
    BY <1>2, <1>3, ValueInPlace
  <2> QED
    BY <1>0, <1>3, <2>1 DEF ValueIn
<1> HIDE DEF cur
<1>5. /\ result.base = base /\ result.position = p /\ result.cur = cur
      /\ result.answer = IF first THEN cur ELSE cur - prev
  OBVIOUS
<1> HIDE DEF result
<1>6. PositiveInPlace(e, s, result, p)
  BY <1>2, <1>4, <1>5 DEF PositiveInPlace
<1> QED
  BY <1>1, <1>2, <1>4, <1>5, <1>6

-----------------------------------------------------------------------------
(* Sizes *)

LEMMA TimesIsNat ==
  ASSUME NEW x \in Nat, NEW y \in Nat
  PROVE  x * y \in Nat
OBVIOUS

LEMMA ShrIsNat ==
  ASSUME NEW x \in Nat, NEW k \in Nat
  PROVE  RB!Shr(x, k) \in Nat
<1>1. 2^k \in Nat \ {0}
  BY PowerOfTwo
<1>2. ASSUME NEW d \in Nat \ {0} PROVE x \div d \in Nat
  BY Division
<1> QED
  BY <1>1, <1>2 DEF RB!Shr

\* The highest bit of a number, and the bits it takes.
LEMMA HighestBit ==
  ASSUME NEW x \in Nat \ {0}
  PROVE  /\ RB!msb(x) \in 0..30
         /\ x < 2^30 => x < 2^(RB!msb(x) + 1)
<1> DEFINE S == {k \in 0..30 : 2^k <= x}
<1>1. 0 \in S
  <2>1. 2^0 = 1
    BY SMT
  <2> QED
    BY <2>1
<1>2. \A k \in 0..30 : k \notin S => ~(2^k <= x)
  OBVIOUS
<1>3. S \in SUBSET (0..30)
  OBVIOUS
<1>4. RB!msb(x) = RB!Max(S)
  BY DEF RB!msb
<1> HIDE DEF S
<1>5. PICK g \in S : \A e \in S : g >= e
  BY <1>1, <1>3, GreatestElement
<1>6. \A m \in S : (\A e \in S : m >= e) <=> m = g
  BY <1>3, <1>5
<1>7. RB!msb(x) = g
  BY <1>4, <1>5, <1>6 DEF RB!Max
<1>8. ASSUME x < 2^30 PROVE x < 2^(g + 1)
  <2>1. g # 30
    <3>1. x < 2^30 /\ 2^30 \in Nat
      BY <1>8, PowerOfTwo
    <3>2. 30 \notin S
      BY <1>8 DEF S
    <3> QED
      BY <1>5, <3>2
  <2>2. CASE g # 30
    <3>1. g + 1 \in 0..30 /\ g + 1 \notin S /\ g + 1 \in Nat
      BY <1>3, <1>5, <2>2
    <3>2. ~(2^(g + 1) <= x) /\ 2^(g + 1) \in Nat
      BY <1>2, <3>1, PowerOfTwo
    <3> QED
      BY <3>2
  <2> QED
    BY <2>1, <2>2
<1> QED
  BY <1>3, <1>5, <1>7, <1>8

LEMMA CeilLogIs ==
  ASSUME NEW x \in Nat
  PROVE  /\ RB!ceil_log2(x) \in Nat
         /\ x > 1 => RB!ceil_log2(x) = RB!msb(x - 1) + 1
<1>1. CASE x > 1
  <2>1. x - 1 \in Nat \ {0}
    BY <1>1
  <2>2. RB!msb(x - 1) \in 0..30
    BY <2>1, HighestBit
  <2> QED
    BY <1>1, <2>2 DEF RB!ceil_log2
<1>2. CASE ~(x > 1)
  BY <1>2 DEF RB!ceil_log2
<1> QED
  BY <1>1, <1>2

\* A length fits the bits that its bound takes.
LEMMA LengthFits ==
  ASSUME NEW n \in Nat, NEW occurrences \in Nat, n <= occurrences,
         occurrences > 1, occurrences < 2^30
  PROVE  n % 2^RB!ceil_log2(occurrences + 1) = n
<1> DEFINE k == RB!ceil_log2(occurrences + 1)
           d == 2^k
<1>1. /\ k = RB!msb(occurrences) + 1 /\ k \in Nat
      /\ occurrences \in Nat \ {0}
  <2>1. /\ occurrences + 1 \in Nat /\ occurrences + 1 > 1 /\ occurrences + 1 - 1 = occurrences
        /\ occurrences \in Nat \ {0}
    OBVIOUS
  <2> QED
    BY <2>1, CeilLogIs
<1>2. occurrences < d
  BY <1>1, HighestBit
<1> HIDE DEF k
<1>3. d \in Nat \ {0}
  BY <1>1, PowerOfTwo
<1> HIDE DEF d
<1>4. n % d = n
  BY <1>2, <1>3
<1> QED
  BY <1>4 DEF d, k

LEMMA RankedSize ==
  ASSUME NEW universe \in Nat, NEW n \in Nat, NEW r \in Nat, NEW s1 \in Nat
  PROVE  RB!bitsize(universe, n, r, s1) \in Nat
<1>1. /\ RB!rank1_samples(universe, r) \in Nat /\ RB!pointers1(n, s1) \in Nat
      /\ RB!ceil_log2(n + 1) \in Nat /\ RB!ceil_log2(universe) \in Nat
  <2>1. RB!Shr(universe, r) \in Nat /\ RB!Shr(n, s1) \in Nat
    BY ShrIsNat
  <2>2. n + 1 \in Nat
    OBVIOUS
  <2>3. RB!ceil_log2(n + 1) \in Nat
    BY <2>2, CeilLogIs
  <2>4. RB!ceil_log2(universe) \in Nat
    BY CeilLogIs
  <2> QED
    BY <2>1, <2>3, <2>4 DEF RB!rank1_samples, RB!pointers1
<1>2. /\ RB!rank1_samples(universe, r) * RB!ceil_log2(n + 1) \in Nat
      /\ RB!pointers1(n, s1) * RB!ceil_log2(universe) \in Nat
  BY <1>1, TimesIsNat
<1> QED
  BY <1>2 DEF RB!bitsize

LEMMA EliasFanoSize ==
  ASSUME NEW universe \in Nat, NEW n \in Nat \ {0}, NEW p, p.s0 \in Nat, p.s1 \in Nat
  PROVE  ef_bitsize(universe, n, p) \in Nat
<1> DEFINE lower_bits == IF universe > n THEN RB!msb(universe \div n) ELSE 0
           high == RB!Shr(universe, lower_bits)
           higher_bits_length == n + high + 2
           pointers == RB!Shr(higher_bits_length - n, p.s0) + RB!Shr(n, p.s1)
           width == RB!ceil_log2(higher_bits_length)
<1>1. lower_bits \in Nat
  <2>1. CASE universe > n
    <3>1. universe \div n \in Nat /\ universe \div n >= 1
      <4> DEFINE d == universe \div n
                 z == d * n
      <4>1. d \in Nat /\ z \in Nat /\ universe = z + (universe % n) /\ universe % n \in 0..(n - 1)
        BY Division
      <4>2. d # 0
        <5> SUFFICES ASSUME d = 0 PROVE FALSE
          OBVIOUS
        <5>1. z = 0
          BY <4>1
        <5> HIDE DEF d, z
        <5> QED
          BY <2>1, <4>1, <5>1
      <4> QED
        BY <4>1, <4>2
    <3>2. RB!msb(universe \div n) \in 0..30
      <4>1. ASSUME NEW d \in Nat, d >= 1 PROVE RB!msb(d) \in 0..30
        BY <4>1, HighestBit
      <4> QED
        BY <3>1, <4>1
    <3> QED
      BY <2>1, <3>2
  <2>2. CASE ~(universe > n)
    BY <2>2
  <2> QED
    BY <2>1, <2>2
<1> HIDE DEF lower_bits
<1>2. high \in Nat
  BY <1>1, ShrIsNat
<1> HIDE DEF high
<1>3. higher_bits_length \in Nat /\ higher_bits_length - n \in Nat
  BY <1>2
<1> HIDE DEF higher_bits_length
<1>4. pointers \in Nat
  <2>1. RB!Shr(higher_bits_length - n, p.s0) \in Nat
    BY <1>3, ShrIsNat
  <2>2. RB!Shr(n, p.s1) \in Nat
    BY ShrIsNat
  <2> QED
    BY <2>1, <2>2
<1>5. width \in Nat
  BY <1>3, CeilLogIs
<1>6. ef_bitsize(universe, n, p)
        = pointers * width + higher_bits_length + n * lower_bits
  BY DEF ef_bitsize, higher_bits_length, lower_bits, high
<1> HIDE DEF pointers, width
<1>7. pointers * width \in Nat /\ n * lower_bits \in Nat
  BY <1>1, <1>4, <1>5, TimesIsNat
<1> QED
  BY <1>3, <1>6, <1>7

\* Only the form that is known without a bit takes no bits.
LEMMA FormSize ==
  ASSUME NEW strict \in BOOLEAN, NEW n \in Nat \ {0}, NEW u \in Nat, n <= u, RatesOK
  PROVE  /\ bitsize(strict, u, n) \in Nat
         /\ u # n => bitsize(strict, u, n) >= 1
<1>1. /\ params.s0 \in Nat /\ params.s1 \in Nat /\ params.r \in Nat /\ params.rb_s1 \in Nat
      /\ strict_params.s0 \in Nat /\ strict_params.s1 \in Nat
  BY DEF RatesOK, strict_params, Unsampled
<1>2. rb_cost(strict, u, n) \in Nat /\ rb_cost(strict, u, n) >= 1
  <2> DEFINE r == IF strict THEN Unsampled ELSE params.r
  <2>1. r \in Nat
    BY <1>1 DEF Unsampled
  <2>2. rb_cost(strict, u, n) = RB!bitsize(u, n, r, params.rb_s1) + 1
    BY DEF rb_cost
  <2> HIDE DEF r
  <2>3. RB!bitsize(u, n, r, params.rb_s1) \in Nat
    BY <1>1, <2>1, RankedSize
  <2> QED
    BY <2>2, <2>3
<1>3. ef_cost(strict, u, n) \in Nat /\ ef_cost(strict, u, n) >= 1
  <2> DEFINE p == IF strict THEN strict_params ELSE params
             v == EFUniverse(strict, u, n)
  <2>1. p.s0 \in Nat /\ p.s1 \in Nat
    BY <1>1
  <2>2. v \in Nat
    BY DEF EFUniverse
  <2>3. ef_cost(strict, u, n) = ef_bitsize(v, n, p) + 1
    BY DEF ef_cost
  <2> HIDE DEF p, v
  <2>4. ef_bitsize(v, n, p) \in Nat
    BY <2>1, <2>2, EliasFanoSize
  <2> QED
    BY <2>3, <2>4
<1>4. bitsize(strict, u, n) \in {0, rb_cost(strict, u, n), ef_cost(strict, u, n)}
  BY DEF bitsize
<1>5. u # n => bitsize(strict, u, n) \in {rb_cost(strict, u, n), ef_cost(strict, u, n)}
  BY DEF bitsize, Form
<1> QED
  BY <1>2, <1>3, <1>4, <1>5

-----------------------------------------------------------------------------
(* bitvector_collection *)

\* The endpoints ascend strictly, one more than there are chunks.
IsCollection(coll) ==
  /\ \E S : coll.chunks \in Seq(S)
  /\ coll.endpoints \in Seq(Nat)
  /\ Len(coll.endpoints) = Len(coll.chunks) + 1
  /\ \A j, k \in 1..Len(coll.endpoints) :
       j < k => coll.endpoints[j] < coll.endpoints[k]

LEMMA EmptyIsCollection == IsCollection(EmptyCollection) /\ Len(EmptyCollection.chunks) = 0
<1>1. EmptyCollection.chunks \in Seq({}) /\ EmptyCollection.endpoints \in Seq(Nat)
  BY DEF EmptyCollection
<1>2. Len(EmptyCollection.chunks) = 0 /\ Len(EmptyCollection.endpoints) = 1
  BY DEF EmptyCollection
<1> QED
  BY <1>1, <1>2 DEF IsCollection

LEMMA CollectionAppends ==
  ASSUME NEW coll, IsCollection(coll), NEW chunk, chunk.size \in Nat \ {0}
  PROVE  LET m == Len(coll.chunks)
             chunks == append(coll, chunk).chunks
         IN  /\ m \in Nat
             /\ IsCollection(append(coll, chunk))
             /\ Len(chunks) = m + 1
             /\ \A k \in 1..m : chunks[k] = coll.chunks[k]
             /\ chunks[m + 1] = chunk
<1> DEFINE m == Len(coll.chunks)
           ends == coll.endpoints
           new == ends[Len(ends)] + chunk.size
           after == append(coll, chunk)
<1>1. after.chunks = Append(coll.chunks, chunk) /\ after.endpoints = Append(ends, new)
  BY DEF append
<1>2. PICK S : coll.chunks \in Seq(S)
  BY DEF IsCollection
<1>3. /\ m \in Nat /\ ends \in Seq(Nat) /\ Len(ends) = m + 1
      /\ \A j, k \in 1..(m + 1) : j < k => ends[j] < ends[k]
      /\ \A j \in 1..(m + 1) : ends[j] \in Nat
  <2>1. m \in Nat /\ ends \in Seq(Nat) /\ Len(ends) = m + 1
    BY <1>2, LenProperties DEF IsCollection
  <2>2. \A j \in 1..Len(ends) : ends[j] \in Nat
    BY <2>1, ElementOfSeq
  <2> QED
    BY <2>1, <2>2 DEF IsCollection
<1>4. /\ after.chunks \in Seq(S \cup {chunk})
      /\ Len(after.chunks) = m + 1
      /\ \A k \in 1..m : after.chunks[k] = coll.chunks[k]
      /\ after.chunks[m + 1] = chunk
  <2>1. coll.chunks \in Seq(S \cup {chunk}) /\ chunk \in S \cup {chunk}
    BY <1>2, SeqMonotonic
  <2> QED
    BY <1>1, <2>1, AppendProperties
<1>5. m + 1 \in 1..(m + 1) /\ ends[m + 1] \in Nat /\ new \in Nat /\ ends[m + 1] < new
  <2>1. m + 1 \in 1..(m + 1) /\ m \in Nat
    BY <1>3
  <2>2. ends[m + 1] \in Nat /\ new = ends[m + 1] + chunk.size
    BY <1>3, <2>1
  <2>3. ASSUME NEW last \in Nat PROVE last + chunk.size \in Nat /\ last < last + chunk.size
    OBVIOUS
  <2> QED
    BY <2>1, <2>2, <2>3
<1> HIDE DEF new
<1>6. /\ after.endpoints \in Seq(Nat) /\ Len(after.endpoints) = m + 2
      /\ \A k \in 1..(m + 1) : after.endpoints[k] = ends[k]
      /\ after.endpoints[m + 2] = new
  <2>1. /\ after.endpoints \in Seq(Nat) /\ Len(after.endpoints) = Len(ends) + 1
        /\ \A k \in 1..Len(ends) : after.endpoints[k] = ends[k]
        /\ after.endpoints[Len(ends) + 1] = new
    BY <1>1, <1>3, <1>5, AppendProperties
  <2>2. Len(ends) = m + 1 /\ Len(ends) + 1 = m + 2
    BY <1>3
  <2> QED
    BY <2>1, <2>2
<1> HIDE DEF after
<1>7. ASSUME NEW j \in 1..(m + 2), NEW k \in 1..(m + 2), j < k
      PROVE  after.endpoints[j] < after.endpoints[k]
  <2>1. j \in 1..(m + 1) /\ after.endpoints[j] = ends[j] /\ ends[j] \in Nat
    BY <1>3, <1>6, <1>7
  <2>2. CASE k = m + 2
    <3>1. CASE j = m + 1
      BY <1>5, <1>6, <2>1, <2>2, <3>1
    <3>2. CASE j # m + 1
      <4>1. j < m + 1
        BY <1>3, <2>1, <3>2
      <4>2. ends[j] < ends[m + 1]
        BY <1>3, <1>5, <2>1, <4>1
      <4>3. ends[j] < new
        BY <1>5, <2>1, <4>2
      <4> QED
        BY <1>6, <2>1, <2>2, <4>3
    <3> QED
      BY <3>1, <3>2
  <2>3. CASE k # m + 2
    <3>1. k \in 1..(m + 1)
      BY <1>3, <2>3
    <3> QED
      BY <1>3, <1>6, <1>7, <2>1, <3>1
  <2> QED
    BY <2>2, <2>3
<1>8. IsCollection(after)
  <2>1. Len(after.endpoints) = Len(after.chunks) + 1
    BY <1>3, <1>4, <1>6
  <2> QED
    BY <1>4, <1>6, <1>7, <2>1 DEF IsCollection
<1> QED
  BY <1>3, <1>4, <1>8 DEF after

\* Of strictly ascending endpoints only the chunk's own begins where it does.
LEMMA CollectionGets ==
  ASSUME NEW coll, IsCollection(coll), NEW i \in 0..(Len(coll.chunks) - 1)
  PROVE  get(coll, i) = coll.chunks[i + 1]
<1> DEFINE m == Len(coll.chunks)
           ends == coll.endpoints
           starts == [k \in 0..(m - 1) |-> ends[k + 1]]
           endpoint == ValueIn(starts, ends[m + 1], i)
           begins == {k \in 1..m : ends[k] = endpoint}
<1>1. /\ m \in Nat /\ Len(ends) = m + 1
      /\ \A j, k \in 1..(m + 1) : j < k => ends[j] < ends[k]
      /\ \A j \in 1..(m + 1) : ends[j] \in Nat
  <2>0. PICK S : coll.chunks \in Seq(S)
    BY DEF IsCollection
  <2>1. m \in Nat /\ ends \in Seq(Nat) /\ Len(ends) = m + 1
    BY <2>0, LenProperties DEF IsCollection
  <2>2. \A j \in 1..Len(ends) : ends[j] \in Nat
    BY <2>1, ElementOfSeq
  <2> QED
    BY <2>1, <2>2 DEF IsCollection
<1>2. SizeOf(starts) = m
  BY <1>1, SizeOfSequence
<1>3. endpoint = ends[i + 1] /\ i + 1 \in 1..m
  BY <1>1, <1>2 DEF ValueIn
<1>4. begins = {i + 1}
  <2>1. \A k \in 1..m : ends[k] = ends[i + 1] => k = i + 1
    <3> SUFFICES ASSUME NEW k \in 1..m, ends[k] = ends[i + 1], k < i + 1 \/ i + 1 < k
                 PROVE  FALSE
      BY <1>1
    <3>1. k \in 1..(m + 1) /\ i + 1 \in 1..(m + 1)
      BY <1>1, <1>3
    <3> QED
      BY <1>1, <3>1
  <2> HIDE DEF endpoint
  <2> QED
    BY <1>3, <2>1
<1>5. get(coll, i) = coll.chunks[RB!Max(begins)]
  BY DEF get
<1> HIDE DEF begins
<1>6. RB!Max({i + 1}) = i + 1
  <2>1. \A y \in {i + 1} : i + 1 >= y
    OBVIOUS
  <2> QED
    BY <2>1 DEF RB!Max
<1> QED
  BY <1>4, <1>5, <1>6

-----------------------------------------------------------------------------
(* A list from the input to its sequences *)

\* A list as the iterators give it: n documents in order and at least as many
\* frequencies, none of them 0, which a 32-bit word has the sum of.
IsList(l, n) ==
  /\ n \in Nat \ {0}
  /\ IsAscending(l.docs, n, num_docs)
  /\ \E m \in Nat : /\ n <= m
                    /\ l.freqs \in [0..(m - 1) -> Nat]
                    /\ \A i \in 0..(m - 1) : l.freqs[i] >= 1
  /\ Occurrences(l) < 2^30

\* The sums that are stored.
SumsOf(l) == [i \in DOMAIN l.docs |-> Cumulative(l.freqs)[i]]

LEMMA ListSums ==
  ASSUME NEW l, NEW n, IsList(l, n)
  PROVE  /\ n \in Nat \ {0} /\ SizeOf(l.docs) = n /\ IsAscending(l.docs, n, num_docs)
         /\ Occurrences(l) \in Nat /\ n <= Occurrences(l) /\ Occurrences(l) < 2^30
         /\ IsAscending(SumsOf(l), n, Occurrences(l) + 1)
         /\ SumsOf(l)[0] = l.freqs[0]
         /\ \A i \in 1..(n - 1) : SumsOf(l)[i] = SumsOf(l)[i - 1] + l.freqs[i]
         /\ \A i \in 0..(n - 1) : l.freqs[i] \in Nat /\ l.freqs[i] >= 1
<1>1. PICK m \in Nat : /\ n <= m
                       /\ l.freqs \in [0..(m - 1) -> Nat]
                       /\ \A i \in 0..(m - 1) : l.freqs[i] >= 1
  BY DEF IsList
<1> DEFINE f == l.freqs
           sums == Cumulative(f)
           occ == Occurrences(l)
<1>2. /\ sums \in [0..(m - 1) -> Nat]
      /\ m # 0 => sums[0] = f[0]
      /\ \A i \in 1..(m - 1) : sums[i] = sums[i - 1] + f[i]
      /\ \A i \in 0..(m - 1) : sums[i] >= i + 1
      /\ \A i, j \in 0..(m - 1) : i < j => sums[i] < sums[j]
  BY <1>1, SumsAscend
<1>3. /\ n \in Nat \ {0} /\ n \in Nat /\ m # 0 /\ occ < 2^30
      /\ IsAscending(l.docs, n, num_docs)
      /\ SizeOf(l.docs) = n /\ DOMAIN l.docs = 0..(n - 1)
      /\ m - 1 \in 0..(m - 1)
      /\ \A i \in 0..(n - 1) : i \in 0..(m - 1)
  <2>1. n \in Nat \ {0} /\ IsAscending(l.docs, n, num_docs) /\ occ < 2^30
    BY DEF IsList
  <2>2. SizeOf(l.docs) = n /\ DOMAIN l.docs = 0..(n - 1)
    BY <2>1, AscendingIs
  <2> QED
    BY <1>1, <2>1, <2>2
<1>4. occ = sums[m - 1]
  <2>1. DOMAIN f = 0..(m - 1)
    BY <1>1
  <2>2. SizeOf(f) = m
    BY <2>1, SizeOfSequence
  <2> HIDE DEF f, sums
  <2> QED
    BY <2>2 DEF Occurrences, sums, f
<1>5. SumsOf(l) = [i \in 0..(n - 1) |-> sums[i]]
  BY <1>3 DEF SumsOf
<1> HIDE DEF sums, occ, f
<1>6. occ \in Nat /\ occ >= m /\ \A i \in 0..(n - 1) : sums[i] \in Nat /\ sums[i] < occ + 1
  <2>1. occ \in Nat /\ occ >= m
    BY <1>2, <1>3, <1>4
  <2>2. ASSUME NEW i \in 0..(n - 1) PROVE sums[i] \in Nat /\ sums[i] < occ + 1
    <3>1. i \in 0..(m - 1) /\ (i = m - 1 \/ i < m - 1)
      BY <1>3
    <3>2. sums[i] \in Nat
      BY <1>2, <3>1
    <3>3. i < m - 1 => sums[i] < occ
      BY <1>2, <1>3, <1>4, <3>1
    <3> QED
      BY <1>4, <2>1, <3>1, <3>2, <3>3
  <2> QED
    BY <2>1, <2>2
<1>7. IsAscending(SumsOf(l), n, occ + 1)
  <2>1. \A i, j \in 0..(n - 1) : i < j => sums[i] < sums[j]
    BY <1>2, <1>3
  <2> QED
    BY <1>3, <1>5, <1>6, <2>1 DEF IsAscending
<1>8. SumsOf(l)[0] = f[0] /\ \A i \in 1..(n - 1) : SumsOf(l)[i] = SumsOf(l)[i - 1] + f[i]
  <2>1. 0 \in 0..(n - 1)
    BY <1>3
  <2>2. \A i \in 1..(n - 1) : i \in 0..(n - 1) /\ i - 1 \in 0..(n - 1) /\ i \in 1..(m - 1)
    BY <1>1, <1>3
  <2> QED
    BY <1>2, <1>3, <1>5, <2>1, <2>2
<1>9. \A i \in 0..(n - 1) : l.freqs[i] \in Nat /\ l.freqs[i] >= 1
  BY <1>1, <1>3
<1>10. n <= occ
  BY <1>1, <1>3, <1>6
<1> QED
  BY <1>3, <1>6, <1>7, <1>8, <1>9, <1>10 DEF occ, f

\* Neither chunk is empty.
LEMMA ChunkSizes ==
  ASSUME NEW l, NEW n, IsList(l, n), RatesOK, num_docs \in Nat
  PROVE  docs_bits(l).size \in Nat \ {0} /\ freqs_bits(l).size \in Nat \ {0}
<1> DEFINE occ == Occurrences(l)
           width == IF occ > 1 THEN RB!ceil_log2(occ + 1) ELSE 0
<1>1. /\ n \in Nat \ {0} /\ SizeOf(l.docs) = n /\ IsAscending(l.docs, n, num_docs)
      /\ occ \in Nat /\ n <= occ /\ occ + 1 \in Nat
      /\ IsAscending(SumsOf(l), n, occ + 1)
  BY ListSums
<1> HIDE DEF occ
<1>2. /\ n <= num_docs /\ n <= occ + 1 /\ occ + 1 # n /\ SizeOf(SumsOf(l)) = n
      /\ occ \in Nat \ {0}
  BY <1>1, AscendingAtLeast, AscendingIs
<1>3. docs_bits(l).size \in Nat \ {0}
  <2>1. docs_bits(l).size
          = 2 * RB!msb(occ) + 1 + width + bitsize(FALSE, num_docs, n)
    BY <1>1 DEF docs_bits, write, occ
  <2>2. RB!msb(occ) \in Nat
    BY <1>2, HighestBit
  <2>3. width \in Nat
    BY <1>1, CeilLogIs
  <2>4. bitsize(FALSE, num_docs, n) \in Nat
    BY <1>1, <1>2, FormSize
  <2> HIDE DEF width
  <2>5. ASSUME NEW x \in Nat, NEW y \in Nat, NEW z \in Nat
        PROVE  2 * x + 1 + y + z \in Nat \ {0}
    OBVIOUS
  <2> QED
    BY <2>1, <2>2, <2>3, <2>4, <2>5, Zenon
<1>4. freqs_bits(l).size \in Nat \ {0}
  <2>1. freqs_bits(l).size = bitsize(TRUE, occ + 1, SizeOf(SumsOf(l)))
    BY DEF freqs_bits, write, SumsOf, occ
  <2>2. bitsize(TRUE, occ + 1, n) \in Nat /\ bitsize(TRUE, occ + 1, n) >= 1
    BY <1>1, <1>2, FormSize
  <2>3. ASSUME NEW x \in Nat, x >= 1 PROVE x \in Nat \ {0}
    BY <2>3
  <2> QED
    BY <1>2, <2>1, <2>2, <2>3, Zenon
<1> QED
  BY <1>3, <1>4

\* The length is read back from the shortened header, and both sequences are
\* opened as they were written.
LEMMA ChunksOpen ==
  ASSUME NEW l, NEW n, IsList(l, n), RatesOK
  PROVE  LET docs == docs_bits(l)
             freqs == freqs_bits(l)
             length == IF docs.occurrences > 1 THEN docs.n ELSE 1
             d == open(FALSE, docs.sequence, num_docs, length)
             f == open(TRUE, freqs.sequence, docs.occurrences + 1, length)
         IN  /\ Opened(d, l.docs, n, num_docs) /\ ~d.shifted
             /\ Opened(f, SumsOf(l), n, Occurrences(l) + 1)
<1> DEFINE occ == Occurrences(l)
           docs == docs_bits(l)
           freqs == freqs_bits(l)
           length == IF docs.occurrences > 1 THEN docs.n ELSE 1
<1>1. /\ n \in Nat \ {0} /\ n \in Nat /\ SizeOf(l.docs) = n /\ IsAscending(l.docs, n, num_docs)
      /\ occ \in Nat /\ n <= occ /\ occ < 2^30
      /\ IsAscending(SumsOf(l), n, occ + 1)
  BY ListSums
<1>2. /\ docs.occurrences = occ
      /\ docs.n = n % 2^(IF occ > 1 THEN RB!ceil_log2(occ + 1) ELSE 0)
      /\ docs.sequence = write(FALSE, l.docs, num_docs)
  BY <1>1 DEF docs_bits
<1>3. freqs.sequence = write(TRUE, SumsOf(l), occ + 1)
  BY DEF freqs_bits, SumsOf
<1> HIDE DEF occ, docs, freqs
<1>4. length = n
  <2>1. CASE occ > 1
    <3>1. n % 2^RB!ceil_log2(occ + 1) = n
      BY <1>1, <2>1, LengthFits
    <3> QED
      BY <1>2, <2>1, <3>1
  <2>2. CASE ~(occ > 1)
    BY <1>1, <1>2, <2>2
  <2> QED
    BY <2>1, <2>2
<1> HIDE DEF length
<1>5. /\ Opened(open(FALSE, write(FALSE, l.docs, num_docs), num_docs, n), l.docs, n, num_docs)
      /\ ~open(FALSE, write(FALSE, l.docs, num_docs), num_docs, n).shifted
  BY <1>1, Opens
<1>6. Opened(open(TRUE, write(TRUE, SumsOf(l), occ + 1), occ + 1, n), SumsOf(l), n, occ + 1)
  BY <1>1, Opens
<1>7. /\ Opened(open(FALSE, docs.sequence, num_docs, length), l.docs, n, num_docs)
      /\ ~open(FALSE, docs.sequence, num_docs, length).shifted
      /\ Opened(open(TRUE, freqs.sequence, docs.occurrences + 1, length), SumsOf(l), n, occ + 1)
  BY <1>2, <1>3, <1>4, <1>5, <1>6
<1> QED
  BY <1>7 DEF occ, docs, freqs, length

-----------------------------------------------------------------------------
(* The files *)

\* A file of the m lists ls: the t-th ends with the word off[t], and the last
\* cut words are missing.
IsFile(file, ls, m, off, cut) ==
  /\ m \in Nat \ {0}
  /\ off \in [0..m -> Nat] /\ off[0] = 0
  /\ \A t \in 1..m : /\ SizeOf(ls[t]) \in Nat
                     /\ off[t] = off[t - 1] + 1 + SizeOf(ls[t])
  /\ cut \in 0..(SizeOf(ls[m]) + 1)
  /\ Len(file) = off[m] - cut
  /\ \A t \in 1..m :
       off[t - 1] + 1 <= Len(file) => file[off[t - 1] + 1] = SizeOf(ls[t])
  /\ \A t \in 1..m : \A i \in 0..(SizeOf(ls[t]) - 1) :
       off[t - 1] + 2 + i <= Len(file) => file[off[t - 1] + 2 + i] = ls[t][i]

IsFlat(flat, seqs, m) ==
  flat = [i \in 1..m |-> IF i = 1 THEN seqs[i] ELSE flat[i - 1] \o seqs[i]]

\* What is put together of the first sequences, and of how many.
AreParts(F, seqs, m, V) ==
  /\ \A t \in 1..m : seqs[t] \in Seq(V)
  /\ F \in [0..m -> Seq(V)]
  /\ F[0] = <<>>
  /\ \A t \in 1..m : F[t] = F[t - 1] \o seqs[t]

LEMMA FlatExists ==
  ASSUME NEW V, NEW m \in Nat, NEW seqs, \A t \in 1..m : seqs[t] \in Seq(V)
  PROVE  \E F : AreParts(F, seqs, m, V)
<1> DEFINE After(F, t) == IF t = 0 THEN <<>> ELSE F[t - 1] \o seqs[t]
           Partial(k, F) == \A t \in 0..m : t < k => F[t] = After(F, t)
           Good(k) == \E F \in [0..m -> Seq(V)] : Partial(k, F)
           Bad == {k \in Nat : ~Good(k)}
<1>0. <<>> \in Seq(V)
  BY EmptySeq
<1>1. Good(0)
  <2> DEFINE none == [t \in 0..m |-> <<>>]
  <2>1. none \in [0..m -> Seq(V)] /\ \A t \in 0..m : ~(t < 0)
    BY <1>0
  <2>2. Partial(0, none)
    BY <2>1
  <2> HIDE DEF none, Partial
  <2> QED
    BY <2>1, <2>2
<1>2. ASSUME NEW k \in Nat, Good(k) PROVE Good(k + 1)
  <2>1. PICK F \in [0..m -> Seq(V)] : Partial(k, F)
    BY <1>2
  <2> DEFINE more == [t \in 0..m |-> After(F, t)]
  <2>2. ASSUME NEW t \in 0..m
        PROVE  After(F, t) \in Seq(V) /\ (t # 0 => t - 1 \in 0..m /\ t \in 1..m)
    <3>1. t # 0 => t - 1 \in 0..m /\ t \in 1..m
      OBVIOUS
    <3>2. t # 0 => F[t - 1] \in Seq(V) /\ seqs[t] \in Seq(V)
      BY <2>1, <3>1
    <3>3. t # 0 => F[t - 1] \o seqs[t] \in Seq(V)
      BY <3>2, ConcatProperties
    <3> QED
      BY <1>0, <3>1, <3>3
  <2>3. more \in [0..m -> Seq(V)]
    BY <2>2
  <2>4. \A t \in 0..m : t < k => more[t] = F[t]
    BY <2>1
  <2>5. ASSUME NEW t \in 0..m, t < k + 1 PROVE more[t] = After(more, t)
    <3>1. CASE t = 0
      BY <3>1
    <3>2. CASE t # 0
      <4>1. t - 1 \in 0..m /\ t - 1 < k
        BY <2>5, <3>2
      <4>2. more[t - 1] = F[t - 1]
        BY <2>4, <4>1
      <4> QED
        BY <3>2, <4>2
    <3> QED
      BY <3>1, <3>2
  <2>6. Partial(k + 1, more)
    BY <2>5
  <2> HIDE DEF more, Partial
  <2> QED
    BY <2>3, <2>6
<1>3. Good(m + 1)
  <2> HIDE DEF Good
  <2>0. m + 1 \in Nat
    OBVIOUS
  <2>1. SUFFICES ASSUME Bad # {} PROVE FALSE
    BY <2>0
  <2>2. PICK k \in Bad : \A j \in Bad : k <= j
    BY <2>1, LeastElement
  <2>3. k # 0 /\ k - 1 \in Nat /\ ~(k - 1 \in Bad) /\ k = k - 1 + 1
    BY <1>1, <2>2
  <2> QED
    BY <1>2, <2>2, <2>3
<1>4. PICK F \in [0..m -> Seq(V)] : Partial(m + 1, F)
  BY <1>3
<1>5. \A t \in 0..m : F[t] = After(F, t)
  <2>1. \A t \in 0..m : t < m + 1
    OBVIOUS
  <2> HIDE DEF After
  <2> QED
    BY <1>4, <2>1
<1>6. 0 \in 0..m /\ \A t \in 1..m : t \in 0..m /\ t # 0
  OBVIOUS
<1>7. F[0] = <<>> /\ \A t \in 1..m : F[t] = F[t - 1] \o seqs[t]
  BY <1>5, <1>6
<1>8. AreParts(F, seqs, m, V)
  BY <1>4, <1>7 DEF AreParts
<1> QED
  BY <1>8

LEMMA FlattenIs ==
  ASSUME NEW V, NEW m \in Nat \ {0}, NEW seqs, Len(seqs) = m,
         NEW F, AreParts(F, seqs, m, V)
  PROVE  Files!FlattenSeq(seqs) = F[m]
<1> USE DEF AreParts
<1> DEFINE g == CHOOSE flat : IsFlat(flat, seqs, m)
           h == [i \in 1..m |-> F[i]]
<1>1. Files!FlattenSeq(seqs) = g[m]
  BY DEF Files!FlattenSeq, IsFlat
<1>2. F[1] = seqs[1]
  <2>1. 1 \in 1..m /\ 1 - 1 = 0
    OBVIOUS
  <2>2. seqs[1] \in Seq(V) /\ F[1] = F[0] \o seqs[1]
    BY <2>1
  <2> QED
    BY <2>2, ConcatEmptySeq
<1>3. IsFlat(h, seqs, m)
  <2>1. ASSUME NEW i \in 1..m PROVE h[i] = IF i = 1 THEN seqs[i] ELSE h[i - 1] \o seqs[i]
    <3>1. CASE i = 1
      BY <1>2, <3>1
    <3>2. CASE i # 1
      <4>1. i - 1 \in 1..m
        BY <3>2
      <4> QED
        BY <3>2, <4>1
    <3> QED
      BY <3>1, <3>2
  <2>2. h = [i \in 1..m |-> h[i]]
    OBVIOUS
  <2> HIDE DEF h
  <2> QED
    BY <2>1, <2>2 DEF IsFlat
<1> HIDE DEF h
<1>4. IsFlat(g, seqs, m)
  BY <1>3
<1> HIDE DEF g
<1>5. \A i \in 1..m : g[i] = IF i = 1 THEN seqs[i] ELSE g[i - 1] \o seqs[i]
  BY <1>4 DEF IsFlat
<1>6. \A i \in 1..m : g[i] = F[i]
  <2> DEFINE S == {i \in 1..m : g[i] # F[i]}
  <2>1. SUFFICES ASSUME S # {} PROVE FALSE
    OBVIOUS
  <2>2. PICK i \in S : \A k \in S : i <= k
    <3>1. S \in SUBSET Nat
      OBVIOUS
    <3> QED
      BY <2>1, <3>1, LeastElement
  <2>3. i \in 1..m /\ g[i] # F[i]
    BY <2>2
  <2>4. CASE i = 1
    BY <1>2, <1>5, <2>3, <2>4
  <2>5. CASE i # 1
    <3>1. i - 1 \in 1..m /\ ~(i <= i - 1)
      BY <2>3, <2>5
    <3>2. g[i - 1] = F[i - 1]
      BY <2>2, <3>1
    <3> QED
      BY <1>5, <2>3, <2>5, <3>2
  <2> QED
    BY <2>4, <2>5
<1> QED
  BY <1>1, <1>6

\* The words of a list stand where it was put, however many come after it.
LEMMA FlatWords ==
  ASSUME NEW V, NEW m \in Nat, NEW seqs, NEW F, AreParts(F, seqs, m, V),
         NEW t \in 1..m, NEW j \in 1..Len(seqs[t])
  PROVE  F[m][Len(F[t - 1]) + j] = seqs[t][j]
<1> USE DEF AreParts
<1> DEFINE p == Len(F[t - 1]) + j
<1>1. ASSUME NEW u \in 1..m
      PROVE  /\ u - 1 \in 0..m /\ Len(F[u - 1]) \in Nat /\ Len(seqs[u]) \in Nat
             /\ Len(F[u]) = Len(F[u - 1]) + Len(seqs[u])
             /\ \A q \in 1..Len(F[u - 1]) : F[u][q] = F[u - 1][q]
             /\ \A q \in 1..Len(seqs[u]) : F[u][Len(F[u - 1]) + q] = seqs[u][q]
  <2>1. u - 1 \in 0..m
    OBVIOUS
  <2>2. F[u - 1] \in Seq(V) /\ seqs[u] \in Seq(V) /\ F[u] = F[u - 1] \o seqs[u]
    BY <2>1
  <2> DEFINE a == F[u - 1]
             b == seqs[u]
  <2> HIDE DEF a, b
  <2>3. a \in Seq(V) /\ b \in Seq(V) /\ F[u] = a \o b
    BY <2>2 DEF a, b
  <2>4. /\ Len(a) \in Nat /\ Len(b) \in Nat /\ Len(a \o b) = Len(a) + Len(b)
        /\ \A q \in 1..Len(a) : (a \o b)[q] = a[q]
        /\ \A q \in 1..Len(b) : (a \o b)[Len(a) + q] = b[q]
    BY <2>3, LenProperties
  <2> QED
    BY <2>1, <2>3, <2>4 DEF a, b
<1>2. p \in 1..Len(F[t]) /\ F[t][p] = seqs[t][j]
  <2>1. /\ Len(F[t - 1]) \in Nat /\ Len(seqs[t]) \in Nat
        /\ Len(F[t]) = Len(F[t - 1]) + Len(seqs[t])
        /\ \A q \in 1..Len(seqs[t]) : F[t][Len(F[t - 1]) + q] = seqs[t][q]
    BY <1>1
  <2>2. F[t][p] = seqs[t][j]
    BY <2>1
  <2> DEFINE a == Len(F[t - 1])
             b == Len(seqs[t])
  <2>3. a + j \in 1..(a + b)
    <3>1. a \in Nat /\ b \in Nat /\ j \in 1..b
      BY <2>1
    <3> HIDE DEF a, b
    <3> QED
      BY <3>1
  <2> QED
    BY <2>1, <2>2, <2>3
<1> HIDE DEF p
<1>3. \A u \in t..m : p \in 1..Len(F[u]) /\ F[u][p] = seqs[t][j]
  <2> DEFINE S == {u \in t..m : ~(p \in 1..Len(F[u]) /\ F[u][p] = seqs[t][j])}
  <2>1. SUFFICES ASSUME S # {} PROVE FALSE
    OBVIOUS
  <2>2. PICK u \in S : \A k \in S : u <= k
    <3>1. S \in SUBSET Nat
      OBVIOUS
    <3> QED
      BY <2>1, <3>1, LeastElement
  <2>3. u \in t..m /\ ~(p \in 1..Len(F[u]) /\ F[u][p] = seqs[t][j])
    BY <2>2
  <2>4. u # t
    BY <1>2, <2>3
  <2>5. u - 1 \in t..m /\ ~(u <= u - 1) /\ u \in 1..m
    BY <2>3, <2>4
  <2>6. p \in 1..Len(F[u - 1]) /\ F[u - 1][p] = seqs[t][j]
    BY <2>2, <2>5
  <2>7. /\ Len(F[u - 1]) \in Nat /\ Len(seqs[u]) \in Nat
        /\ Len(F[u]) = Len(F[u - 1]) + Len(seqs[u])
        /\ \A q \in 1..Len(F[u - 1]) : F[u][q] = F[u - 1][q]
    BY <1>1, <2>5
  <2>8. p \in 1..Len(F[u])
    <3> DEFINE a == Len(F[u - 1])
               b == Len(seqs[u])
    <3>1. a \in Nat /\ b \in Nat /\ Len(F[u]) = a + b /\ p \in 1..a
      BY <2>6, <2>7
    <3> HIDE DEF a, b
    <3> QED
      BY <3>1
  <2> QED
    BY <2>3, <2>6, <2>7, <2>8
<1>4. m \in t..m
  OBVIOUS
<1> QED
  BY <1>3, <1>4 DEF p

\* What a list is written as.
WordsOfList(l) ==
  <<Files!Cardinality(DOMAIN l)>>
    \o [i \in 1..Files!Cardinality(DOMAIN l) |-> l[i - 1]]

LEMMA ListWords ==
  ASSUME NEW l, SizeOf(l) \in Nat, l \in [0..(SizeOf(l) - 1) -> Nat]
  PROVE  LET w == WordsOfList(l)
         IN  /\ w \in Seq(Nat)
             /\ Len(w) = 1 + SizeOf(l)
             /\ w[1] = SizeOf(l)
             /\ \A i \in 0..(SizeOf(l) - 1) : w[i + 2] = l[i]
<1> DEFINE k == SizeOf(l)
           b == [i \in 1..k |-> l[i - 1]]
           w == WordsOfList(l)
<1>1. Files!Cardinality(DOMAIN l) = k
  BY DEF Files!Cardinality, Cardinality, SizeOf
<1>2. w = <<k>> \o b
  <2> HIDE DEF k
  <2> QED
    BY <1>1 DEF WordsOfList
<1>3. k \in Nat /\ l \in [0..(k - 1) -> Nat]
  OBVIOUS
<1> HIDE DEF k, w
<1>4. b \in Seq(Nat) /\ Len(b) = k /\ \A i \in 0..(k - 1) : b[i + 1] = l[i]
  <2>1. \A i \in 1..k : l[i - 1] \in Nat
    BY <1>3
  <2>2. b \in Seq(Nat) /\ Len(b) = k
    BY <1>3, <2>1
  <2>3. \A i \in 0..(k - 1) : i + 1 \in 1..k /\ i + 1 - 1 = i
    BY <1>3
  <2>4. ASSUME NEW i \in 0..(k - 1) PROVE b[i + 1] = l[i]
    <3>1. i + 1 \in 1..k /\ i + 1 - 1 = i
      BY <2>3
    <3>2. b[i + 1] = l[i + 1 - 1]
      BY <3>1
    <3> QED
      BY <3>1, <3>2
  <2> HIDE DEF b
  <2> QED
    BY <2>2, <2>4
<1> HIDE DEF b
<1>5. /\ <<k>> \in Seq(Nat) /\ Len(<<k>>) = 1 /\ <<k>>[1] = k
  BY <1>3
<1>6. /\ w \in Seq(Nat) /\ Len(w) = 1 + k
      /\ w[1] = k
      /\ \A i \in 1..k : w[1 + i] = b[i]
  BY <1>2, <1>4, <1>5
<1>7. \A i \in 0..(k - 1) : w[i + 2] = l[i]
  <2> SUFFICES ASSUME NEW i \in 0..(k - 1) PROVE w[i + 2] = l[i]
    OBVIOUS
  <2>1. i + 1 \in 1..k /\ 1 + (i + 1) = i + 2
    BY <1>3
  <2>2. w[1 + (i + 1)] = b[i + 1] /\ b[i + 1] = l[i]
    BY <1>4, <1>6, <2>1
  <2> QED
    BY <2>1, <2>2
<1> QED
  BY <1>6, <1>7 DEF k, w

LEMMA WordsAreFile ==
  ASSUME NEW m \in Nat \ {0}, NEW ls, DOMAIN ls = 1..m,
         \A t \in 1..m : SizeOf(ls[t]) \in Nat /\ ls[t] \in [0..(SizeOf(ls[t]) - 1) -> Nat]
  PROVE  \E off : IsFile(Files!WordsOf(ls), ls, m, off, 0)
<1> DEFINE seqs == [t \in 1..m |-> WordsOfList(ls[t])]
           file == Files!WordsOf(ls)
<1>1. file = Files!FlattenSeq(seqs)
  BY DEF Files!WordsOf, WordsOfList
<1>2. ASSUME NEW t \in 1..m
      PROVE  /\ seqs[t] \in Seq(Nat)
             /\ Len(seqs[t]) = 1 + SizeOf(ls[t])
             /\ seqs[t][1] = SizeOf(ls[t])
             /\ \A i \in 0..(SizeOf(ls[t]) - 1) : seqs[t][i + 2] = ls[t][i]
  BY ListWords
<1>3. Len(seqs) = m
  OBVIOUS
<1> DEFINE V == Nat
<1> HIDE DEF seqs, file
<1>4. m \in Nat /\ \A t \in 1..m : seqs[t] \in Seq(V)
  BY <1>2
<1> HIDE DEF V
<1>5. PICK F : AreParts(F, seqs, m, V)
  BY <1>4, FlatExists
<1>6. /\ file = F[m]
      /\ \A t \in 1..m : \A j \in 1..Len(seqs[t]) : F[m][Len(F[t - 1]) + j] = seqs[t][j]
  <2>1. file = F[m]
    BY <1>1, <1>3, <1>4, <1>5, FlattenIs
  <2>2. ASSUME NEW t \in 1..m, NEW j \in 1..Len(seqs[t])
        PROVE  F[m][Len(F[t - 1]) + j] = seqs[t][j]
    BY <1>4, <1>5, FlatWords
  <2> QED
    BY <2>1, <2>2
<1> DEFINE off == [t \in 0..m |-> Len(F[t])]
<1>7. off \in [0..m -> Nat] /\ off[0] = 0
  <2>1. \A t \in 0..m : Len(F[t]) \in Nat
    BY <1>5, LenProperties DEF AreParts
  <2> QED
    BY <1>5, <2>1 DEF AreParts
<1>8. ASSUME NEW t \in 1..m
      PROVE  /\ t - 1 \in 0..m /\ t \in 0..m /\ off[t - 1] = Len(F[t - 1])
             /\ off[t] = off[t - 1] + 1 + SizeOf(ls[t])
  <2>1. t - 1 \in 0..m /\ t \in 0..m
    OBVIOUS
  <2>2. F[t - 1] \in Seq(V) /\ seqs[t] \in Seq(V) /\ F[t] = F[t - 1] \o seqs[t]
    BY <1>4, <1>5, <2>1 DEF AreParts
  <2>3. Len(F[t]) = Len(F[t - 1]) + Len(seqs[t])
    BY <2>2, ConcatProperties
  <2>4. off[t - 1] = Len(F[t - 1]) /\ off[t] = Len(F[t])
    BY <2>1
  <2>5. off[t - 1] \in Nat
    BY <1>7, <2>1
  <2> DEFINE x == off[t - 1]
             y == SizeOf(ls[t])
  <2>6. off[t] = x + (1 + y) /\ x \in Nat /\ y \in Nat
    BY <1>2, <2>3, <2>4, <2>5
  <2> HIDE DEF x, y
  <2>7. off[t] = x + 1 + y
    BY <2>6
  <2> QED
    BY <2>1, <2>4, <2>7 DEF x, y
<1>9. Len(file) = off[m]
  BY <1>6
<1> HIDE DEF off
<1>10. ASSUME NEW t \in 1..m
       PROVE  /\ file[off[t - 1] + 1] = SizeOf(ls[t])
              /\ \A i \in 0..(SizeOf(ls[t]) - 1) : file[off[t - 1] + 2 + i] = ls[t][i]
  <2>1. off[t - 1] = Len(F[t - 1]) /\ off[t - 1] \in Nat /\ SizeOf(ls[t]) \in Nat
    BY <1>7, <1>8
  <2>2. \A j \in 1..(1 + SizeOf(ls[t])) : file[off[t - 1] + j] = seqs[t][j]
    BY <1>2, <1>6, <2>1
  <2>3. 1 \in 1..(1 + SizeOf(ls[t]))
    BY <2>1
  <2>4. ASSUME NEW i \in 0..(SizeOf(ls[t]) - 1)
        PROVE  file[off[t - 1] + 2 + i] = ls[t][i]
    <3> DEFINE x == off[t - 1]
               y == SizeOf(ls[t])
    <3>1. i + 2 \in 1..(1 + y) /\ x + (i + 2) = x + 2 + i
      <4>1. x \in Nat /\ y \in Nat /\ i \in 0..(y - 1)
        BY <2>1
      <4> HIDE DEF x, y
      <4> QED
        BY <4>1
    <3>2. file[off[t - 1] + (i + 2)] = seqs[t][i + 2]
      BY <2>2, <3>1
    <3> QED
      BY <1>2, <3>1, <3>2
  <2> QED
    BY <1>2, <2>2, <2>3, <2>4
<1>11. off[m] \in Nat /\ Len(file) = off[m] - 0 /\ SizeOf(ls[m]) \in Nat
       /\ 0 \in 0..(SizeOf(ls[m]) + 1)
  <2>1. m \in 0..m /\ m \in 1..m
    OBVIOUS
  <2> QED
    BY <1>7, <1>9, <2>1
<1>12. IsFile(file, ls, m, off, 0)
  BY <1>7, <1>8, <1>10, <1>11 DEF IsFile
<1> QED
  BY <1>12 DEF file

\* A file with its last words cut off.
LEMMA CutFile ==
  ASSUME NEW file, NEW ls, NEW m, NEW off, IsFile(file, ls, m, off, 0),
         NEW cut \in 0..(SizeOf(ls[m]) + 1)
  PROVE  IsFile(SubSeq(file, 1, Len(file) - cut), ls, m, off, cut)
<1> DEFINE part == SubSeq(file, 1, Len(file) - cut)
           z == Len(file) - cut
<1>1. /\ m \in Nat \ {0} /\ off \in [0..m -> Nat] /\ off[0] = 0
      /\ \A t \in 1..m : /\ SizeOf(ls[t]) \in Nat
                         /\ off[t] = off[t - 1] + 1 + SizeOf(ls[t])
      /\ Len(file) = off[m] - 0
      /\ \A t \in 1..m :
           off[t - 1] + 1 <= Len(file) => file[off[t - 1] + 1] = SizeOf(ls[t])
      /\ \A t \in 1..m : \A i \in 0..(SizeOf(ls[t]) - 1) :
           off[t - 1] + 2 + i <= Len(file) => file[off[t - 1] + 2 + i] = ls[t][i]
  BY DEF IsFile
<1>2. /\ m \in 1..m /\ m - 1 \in 0..m /\ m \in 0..m
      /\ off[m] \in Nat /\ off[m - 1] \in Nat /\ SizeOf(ls[m]) \in Nat
      /\ \A t \in 1..m : t - 1 \in 0..m /\ off[t - 1] \in Nat
  BY <1>1, SMTT(60)
<1>3. Len(file) = off[m] /\ z = off[m] - cut /\ z \in Nat /\ z <= Len(file)
  <2> DEFINE x == off[m - 1]
             y == SizeOf(ls[m])
             w == off[m]
             v == Len(file)
  <2>1. /\ w = x + 1 + y /\ x \in Nat /\ y \in Nat /\ cut \in 0..(y + 1)
        /\ v = w - 0 /\ z = v - cut
    BY <1>1, <1>2
  <2> HIDE DEF x, y, w, v, z
  <2>2. v = w /\ z = w - cut /\ z \in Nat /\ z <= v
    BY <2>1
  <2> QED
    BY <2>2 DEF v, w
<1> HIDE DEF z
<1>4. Len(part) = z /\ \A p \in 1..z : part[p] = file[p]
  <2> DEFINE S == {file[p] : p \in 1..z}
  <2>1. \A p \in 1..z : file[p] \in S
    OBVIOUS
  <2> HIDE DEF S
  <2>2. 1 \in Int /\ z \in Int /\ z - 1 + 1 = z
    BY <1>3
  <2>3. /\ Len(SubSeq(file, 1, z)) = IF 1 <= z THEN z - 1 + 1 ELSE 0
        /\ \A i \in 1..(z - 1 + 1) : SubSeq(file, 1, z)[i] = file[1 + i - 1]
    BY <2>1, <2>2, SubSeqProperties
  <2>4. part = SubSeq(file, 1, z)
    BY DEF z
  <2>5. \A i \in 1..z : 1 + i - 1 = i
    OBVIOUS
  <2> HIDE DEF part
  <2> QED
    BY <1>3, <2>2, <2>3, <2>4, <2>5
<1> HIDE DEF part
<1>5. \A t \in 1..m : off[t - 1] + 1 <= Len(part) => part[off[t - 1] + 1] = SizeOf(ls[t])
  <2> SUFFICES ASSUME NEW t \in 1..m, off[t - 1] + 1 <= Len(part)
               PROVE  part[off[t - 1] + 1] = SizeOf(ls[t])
    OBVIOUS
  <2>1. off[t - 1] + 1 \in 1..z /\ off[t - 1] + 1 <= Len(file)
    BY <1>2, <1>3, <1>4, SMTT(60)
  <2> QED
    BY <1>1, <1>4, <2>1
<1>6. \A t \in 1..m : \A i \in 0..(SizeOf(ls[t]) - 1) :
        off[t - 1] + 2 + i <= Len(part) => part[off[t - 1] + 2 + i] = ls[t][i]
  <2> SUFFICES ASSUME NEW t \in 1..m, NEW i \in 0..(SizeOf(ls[t]) - 1),
                      off[t - 1] + 2 + i <= Len(part)
               PROVE  part[off[t - 1] + 2 + i] = ls[t][i]
    OBVIOUS
  <2>1. SizeOf(ls[t]) \in Nat /\ off[t - 1] \in Nat
    BY <1>1, <1>2
  <2>2. off[t - 1] + 2 + i \in 1..z /\ off[t - 1] + 2 + i <= Len(file)
    <3> DEFINE x == off[t - 1]
               v == Len(file)
    <3>1. x \in Nat /\ i \in Nat /\ x + 2 + i <= z /\ z <= v /\ z \in Nat
      BY <1>3, <1>4, <2>1
    <3>2. v \in Nat
      BY <1>2, <1>3
    <3> HIDE DEF x, v
    <3>3. x + 2 + i \in 1..z /\ x + 2 + i <= v
      BY <3>1, <3>2
    <3> QED
      BY <3>3 DEF x, v
  <2> QED
    BY <1>1, <1>4, <2>2
<1>7. Len(part) = off[m] - cut
  BY <1>3, <1>4
<1>8. IsFile(part, ls, m, off, cut)
  BY <1>1, <1>5, <1>6, <1>7 DEF IsFile
<1> QED
  BY <1>8 DEF part

\* The lists end in the order they are in, and the file not before the last.
LEMMA Offsets ==
  ASSUME NEW file, NEW ls, NEW m, NEW off, NEW cut, IsFile(file, ls, m, off, cut)
  PROVE  /\ m \in Nat \ {0} /\ off[0] = 0
         /\ \A t \in 0..m : off[t] \in Nat
         /\ \A t \in 1..m : /\ t - 1 \in 0..m /\ SizeOf(ls[t]) \in Nat
                            /\ off[t] = off[t - 1] + 1 + SizeOf(ls[t])
         /\ \A t, u \in 0..m : t <= u => off[t] <= off[u]
         /\ Len(file) = off[m] - cut /\ Len(file) \in Nat /\ off[m - 1] <= Len(file)
         /\ cut \in Nat
<1>1. /\ m \in Nat \ {0} /\ off \in [0..m -> Nat] /\ off[0] = 0
      /\ \A t \in 1..m : /\ SizeOf(ls[t]) \in Nat
                         /\ off[t] = off[t - 1] + 1 + SizeOf(ls[t])
      /\ Len(file) = off[m] - cut /\ cut \in 0..(SizeOf(ls[m]) + 1)
  BY DEF IsFile
<1>2. /\ \A t \in 0..m : off[t] \in Nat
      /\ \A t \in 1..m : t - 1 \in 0..m
  <2>1. \A t \in 0..m : off[t] \in Nat
    BY <1>1
  <2>2. \A t \in 1..m : t - 1 \in 0..m
    BY <1>1
  <2> QED
    BY <2>1, <2>2
<1>3. ASSUME NEW t \in 0..m PROVE \A u \in 0..m : t <= u => off[t] <= off[u]
  <2> DEFINE S == {u \in 0..m : t <= u /\ ~(off[t] <= off[u])}
  <2>1. SUFFICES ASSUME S # {} PROVE FALSE
    OBVIOUS
  <2>2. PICK u \in S : \A k \in S : u <= k
    <3>1. S \in SUBSET Nat
      OBVIOUS
    <3> QED
      BY <2>1, <3>1, LeastElement
  <2>3. u \in 0..m /\ t <= u /\ ~(off[t] <= off[u])
    <3>1. u \in S
      OBVIOUS
    <3> QED
      BY <3>1, Zenon
  <2>4. t # u
    <3>1. off[t] <= off[t]
      BY <1>2
    <3> QED
      BY <2>3, <3>1, Zenon
  <2>5. u \in 1..m /\ u - 1 \in 0..m /\ t <= u - 1 /\ ~(u <= u - 1)
    <3>1. u \in 0..m /\ t <= u /\ t # u /\ m \in Nat
      BY <1>1, <2>3, <2>4, Zenon
    <3> QED
      BY <3>1
  <2>6. off[t] <= off[u - 1]
    BY <2>2, <2>5
  <2> DEFINE x == off[t]
             y == off[u - 1]
             k == SizeOf(ls[u])
             w == off[u]
  <2>7. /\ w = y + 1 + k /\ x \in Nat /\ y \in Nat /\ k \in Nat /\ x <= y /\ ~(x <= w)
    BY <1>1, <1>2, <2>3, <2>5, <2>6
  <2> HIDE DEF x, y, k, w
  <2> QED
    BY <2>7
<1>4. Len(file) \in Nat /\ off[m - 1] <= Len(file)
  <2> DEFINE x == off[m - 1]
             k == SizeOf(ls[m])
             w == off[m]
             v == Len(file)
  <2>1. m \in 1..m
    BY <1>1
  <2>2. /\ w = x + 1 + k /\ x \in Nat /\ k \in Nat /\ v = w - cut /\ cut \in 0..(k + 1)
    BY <1>1, <1>2, <2>1
  <2> HIDE DEF x, k, w, v
  <2>3. v \in Nat /\ x <= v
    BY <2>2
  <2> QED
    BY <2>3 DEF x, v
<1>5. cut \in Nat
  <2> DEFINE k == SizeOf(ls[m])
  <2>1. m \in 1..m
    BY <1>1
  <2>2. k \in Nat /\ cut \in 0..(k + 1)
    BY <1>1, <2>1
  <2> HIDE DEF k
  <2> QED
    BY <2>2
<1> QED
  BY <1>1, <1>2, <1>3, <1>4, <1>5

\* Of an empty list only the length is written.
LEMMA EmptyOffsets ==
  ASSUME NEW file, NEW ls, NEW m, NEW off, NEW cut, IsFile(file, ls, m, off, cut),
         NEW t \in 0..m, NEW u \in (t + 1)..m,
         \A v \in (t + 1)..(u - 1) : SizeOf(ls[v]) = 0
  PROVE  \A v \in t..(u - 1) : off[v] = off[t] + (v - t)
<1>0. /\ m \in Nat \ {0}
      /\ \A v \in 0..m : off[v] \in Nat
      /\ \A v \in 1..m : off[v] = off[v - 1] + 1 + SizeOf(ls[v])
  BY Offsets
<1> DEFINE S == {v \in t..(u - 1) : ~(off[v] = off[t] + (v - t))}
<1>1. SUFFICES ASSUME S # {} PROVE FALSE
  OBVIOUS
<1>2. PICK v \in S : \A k \in S : v <= k
  <2>1. S \in SUBSET Nat
    BY <1>0
  <2> QED
    BY <1>1, <2>1, LeastElement
<1>3. v \in t..(u - 1) /\ ~(off[v] = off[t] + (v - t))
  BY <1>2
<1>4. v # t
  BY <1>0, <1>3
<1>5. /\ v \in (t + 1)..(u - 1) /\ v \in 1..m /\ v - 1 \in t..(u - 1) /\ ~(v <= v - 1)
      /\ v \in Nat /\ t \in Nat
  BY <1>0, <1>3, <1>4
<1>6. off[v - 1] = off[t] + (v - 1 - t)
  BY <1>2, <1>5
<1> DEFINE x == off[v - 1]
           y == off[t]
           w == off[v]
           k == SizeOf(ls[v])
<1>7. w = x + 1 + k /\ k = 0 /\ x = y + (v - 1 - t) /\ y \in Nat /\ ~(w = y + (v - t))
  BY <1>0, <1>3, <1>5, <1>6
<1> HIDE DEF x, y, w, k
<1> QED
  BY <1>5, <1>7

\* The part of the u-th list that is there, and where it ends.
PartOf(ls, m, cut, u) ==
  [i \in 0..(SizeOf(ls[u]) - (IF u = m THEN cut ELSE 0) - 1) |-> ls[u][i]]
EndOf(file, m, off, u) == IF u = m THEN Len(file) ELSE off[u]

\* From the end of a list the next one that is not empty is read.
LEMMA ReadsNext ==
  ASSUME NEW file, NEW ls, NEW m, NEW off, NEW cut, IsFile(file, ls, m, off, cut),
         NEW t \in 0..m, NEW u \in (t + 1)..m, SizeOf(ls[u]) > 0,
         \A v \in (t + 1)..(u - 1) : SizeOf(ls[v]) = 0,
         off[u - 1] < Len(file), NEW it
  PROVE  /\ off[t] # Len(file)
         /\ Files!read(file, off[t], it)
              = [pos |-> off[t], next |-> EndOf(file, m, off, u),
                 seq |-> PartOf(ls, m, cut, u)]
<1> DEFINE pos == off[t]
           here == off[u - 1]
           len == Len(file)
           k == SizeOf(ls[u])
           zeros == {p \in (pos + 1)..len : file[p] # 0}
           first == Files!Min(zeros)
           n == Files!Min({file[first], len - first})
<1>0. /\ m \in Nat \ {0} /\ len = off[m] - cut /\ len \in Nat /\ off[m - 1] <= len
      /\ \A v \in 0..m : off[v] \in Nat
      /\ \A v \in 1..m : SizeOf(ls[v]) \in Nat /\ off[v] = off[v - 1] + 1 + SizeOf(ls[v])
      /\ \A v, w \in 0..m : v <= w => off[v] <= off[w]
      /\ cut \in Nat
  BY Offsets
<1>1. /\ \A v \in 1..m : off[v - 1] + 1 <= len => file[off[v - 1] + 1] = SizeOf(ls[v])
      /\ \A i \in 0..(k - 1) : off[u - 1] + 2 + i <= len => file[off[u - 1] + 2 + i] = ls[u][i]
  <2>1. u \in 1..m
    BY <1>0
  <2> QED
    BY <2>1 DEF IsFile
<1>2. /\ u \in 1..m /\ u - 1 \in 0..m /\ u \in 0..m /\ t <= u - 1 /\ t \in Nat /\ u \in Nat
      /\ k \in Nat /\ k > 0 /\ here \in Nat /\ pos \in Nat /\ here < len
      /\ off[u] = here + 1 + k /\ off[u] \in Nat
  BY <1>0
<1>3. here = pos + (u - 1 - t)
  <2>1. u - 1 \in t..(u - 1)
    BY <1>2
  <2> QED
    BY <2>1, EmptyOffsets
<1>4. \A p \in (pos + 1)..here : file[p] = 0
  <2> SUFFICES ASSUME NEW p \in (pos + 1)..here PROVE file[p] = 0
    OBVIOUS
  <2> DEFINE v == t + (p - pos)
  <2>1. v \in (t + 1)..(u - 1) /\ v - 1 \in t..(u - 1) /\ v \in 1..m /\ v - 1 - t = p - pos - 1
        /\ p \in Nat
    <3> HIDE DEF pos, here
    <3> QED
      BY <1>0, <1>2, <1>3
  <2>2. off[v - 1] = pos + (v - 1 - t)
    BY <2>1, EmptyOffsets
  <2>3. pos + (p - pos - 1) + 1 = p
    <3> HIDE DEF pos
    <3> QED
      BY <1>2, <2>1
  <2> HIDE DEF v
  <2>4. off[v - 1] + 1 = p
    BY <2>1, <2>2, <2>3
  <2>5. p <= len
    <3> HIDE DEF here, len, pos
    <3> QED
      BY <1>0, <1>2
  <2>6. file[p] = SizeOf(ls[v])
    BY <1>1, <2>1, <2>4, <2>5
  <2> QED
    BY <2>1, <2>6
<1>5. file[here + 1] = k /\ here + 1 \in (pos + 1)..len
  <2>1. here + 1 \in (pos + 1)..len
    <3>1. u - 1 - t \in Nat
      BY <1>2
    <3> HIDE DEF here, pos, len
    <3> QED
      BY <1>0, <1>2, <1>3, <3>1
  <2>2. here + 1 <= len
    BY <2>1
  <2> QED
    BY <1>1, <1>2, <2>1, <2>2
<1> HIDE DEF k, here, len, pos
<1>6. first = here + 1
  <2>1. here + 1 \in zeros
    BY <1>2, <1>5
  <2>2. \A p \in zeros : p \in Nat /\ p >= here + 1
    <3> SUFFICES ASSUME NEW p \in (pos + 1)..len, file[p] # 0, ~(p >= here + 1) PROVE FALSE
      BY <1>0, <1>2
    <3>1. p \in (pos + 1)..here
      BY <1>0, <1>2
    <3> QED
      BY <1>4, <3>1
  <2>3. \A x \in zeros : (\A y \in zeros : x <= y) <=> x = here + 1
    BY <1>2, <2>1, <2>2
  <2> HIDE DEF zeros
  <2> QED
    BY <2>1, <2>3 DEF Files!Min
<1> DEFINE rest == IF u = m THEN cut ELSE 0
<1>7. len - (here + 1) >= k - rest /\ (u = m => len - (here + 1) = k - rest) /\ k - rest <= k
      /\ k - rest \in Nat
  <2>1. CASE u = m
    BY <1>0, <1>2, <2>1
  <2>2. CASE u # m
    <3>1. u <= m - 1 /\ m - 1 \in 0..m
      BY <1>0, <1>2, <2>2
    <3>2. off[u] <= off[m - 1] /\ off[m - 1] \in Nat
      BY <1>0, <1>2, <3>1
    <3> DEFINE w == off[u]
               z == off[m - 1]
    <3>3. /\ w <= z /\ z <= len /\ w = here + 1 + k /\ w \in Nat /\ z \in Nat
          /\ len \in Nat /\ here \in Nat /\ k \in Nat
      BY <1>0, <1>2, <3>2
    <3>4. rest = 0
      BY <2>2
    <3> HIDE DEF w, z, rest
    <3> QED
      BY <2>2, <3>3, <3>4
  <2> QED
    BY <2>1, <2>2
<1> HIDE DEF rest
<1>8. n = k - rest
  <2> DEFINE d == len - (here + 1)
             a == k - rest
  <2>1. a \in {k, d} /\ k >= a /\ d >= a /\ a \in Int /\ k \in Int /\ d \in Int
    <3>1. CASE u = m
      BY <1>0, <1>2, <1>7, <3>1
    <3>2. CASE u # m
      <4>1. a = k
        BY <1>2, <3>2 DEF rest
      <4> QED
        BY <1>0, <1>2, <1>7, <4>1, SMTT(60)
    <3> QED
      BY <3>1, <3>2
  <2>2. n = Files!Min({k, d})
    BY <1>5, <1>6
  <2> HIDE DEF n, d, a
  <2>3. \A x \in {k, d} : (\A y \in {k, d} : x <= y) <=> x = a
    BY <2>1
  <2>4. Files!Min({k, d}) = a
    BY <2>1, <2>3 DEF Files!Min
  <2> QED
    BY <2>2, <2>4 DEF a
<1>9. pos # len
  BY <1>0, <1>2, <1>5
<1>10. Files!read(file, pos, it)
         = [pos |-> pos, next |-> first + n,
            seq |-> [i \in 0..(n - 1) |-> file[first + i + 1]]]
  BY <1>9 DEF Files!read, len
<1> HIDE DEF first, n
<1>11. first + n = EndOf(file, m, off, u)
  <2>1. CASE u = m
    BY <1>0, <1>2, <1>6, <1>7, <1>8, <2>1 DEF EndOf, len
  <2>2. CASE u # m
    <3>1. rest = 0
      BY <2>2 DEF rest
    <3>2. first + n = off[u]
      BY <1>0, <1>2, <1>6, <1>8, <3>1
    <3> QED
      BY <2>2, <3>2 DEF EndOf
  <2> QED
    BY <2>1, <2>2
<1>12. [i \in 0..(n - 1) |-> file[first + i + 1]] = PartOf(ls, m, cut, u)
  <2>1. PartOf(ls, m, cut, u) = [i \in 0..(k - rest - 1) |-> ls[u][i]]
    BY DEF PartOf, k, rest
  <2>2. ASSUME NEW i \in 0..(k - rest - 1) PROVE file[first + i + 1] = ls[u][i]
    <3> DEFINE a == k - rest
               d == len - (here + 1)
    <3>1. /\ a \in Nat /\ a <= k /\ d >= a /\ d \in Int /\ i \in 0..(a - 1) /\ k \in Nat
          /\ here + 1 + d = len /\ here \in Nat /\ len \in Nat
      <4>1. here \in Nat /\ len \in Nat /\ k \in Nat
        BY <1>0, <1>2
      <4>2. a \in Nat /\ a <= k /\ d >= a
        BY <1>7
      <4>3. i \in 0..(a - 1)
        OBVIOUS
      <4>4. d \in Int /\ here + 1 + d = len
        BY <4>1
      <4> QED
        BY <4>1, <4>2, <4>3, <4>4, Zenon
    <3> HIDE DEF a, d
    <3>2. i \in 0..(k - 1) /\ here + 2 + i <= len /\ here + 1 + i + 1 = here + 2 + i
      BY <3>1
    <3>3. i \in 0..(k - 1) /\ here + 2 + i <= len /\ first + i + 1 = here + 2 + i
      BY <1>6, <3>2
    <3> QED
      BY <1>1, <3>3 DEF k, here, len
  <2>3. n - 1 = k - rest - 1
    BY <1>8
  <2> QED
    BY <2>1, <2>2, <2>3
<1> QED
  BY <1>9, <1>10, <1>11, <1>12 DEF pos, len

-----------------------------------------------------------------------------
(* The input *)

Last == Len(input.lists)
LengthOf(t) == SizeOf(input.lists[t].docs)

\* The lists that are in the two files.
DocLists ==
  <<[i \in {0} |-> num_docs]>> \o [t \in DOMAIN input.lists |-> input.lists[t].docs]
FreqLists == [t \in DOMAIN input.lists |-> input.lists[t].freqs]

\* A list as it is added, with more frequencies than documents if it is cut off.
Added(t) == [docs |-> AsRead(t).docs, freqs |-> input.lists[t].freqs]

\* What is assumed of a collection.
LEMMA InputIs ==
  ASSUME input \in Inputs
  PROVE  /\ Last \in Nat \ {0} /\ DOMAIN input.lists = 1..Last
         /\ \A t \in 1..Last :
              /\ LengthOf(t) \in Nat
              /\ IsAscending(input.lists[t].docs, LengthOf(t), num_docs)
              /\ input.lists[t].freqs \in [0..(LengthOf(t) - 1) -> Nat \ {0}]
         /\ LengthOf(Last) > 0
         /\ input.missing \in 0..(LengthOf(Last) + 1)
         /\ input.missing = LengthOf(Last) + 1 /\ Last > 1 => LengthOf(Last - 1) > 0
         /\ num_docs \in Nat \ {0}
<1>1. num_docs \in Nat \ {0}
  BY FreqIndexAssumption DEF FreqIndexAssumption
<1>2. /\ Last \in Nat \ {0} /\ DOMAIN input.lists = 1..Last
      /\ \A t \in 1..Last :
           /\ LengthOf(t) \in Nat
           /\ input.lists[t].docs \in [0..(LengthOf(t) - 1) -> 0..(num_docs - 1)]
           /\ \A i, j \in 0..(LengthOf(t) - 1) :
                i < j => input.lists[t].docs[i] < input.lists[t].docs[j]
           /\ input.lists[t].freqs \in [0..(LengthOf(t) - 1) -> Nat \ {0}]
      /\ LengthOf(Last) > 0
      /\ input.missing \in 0..(LengthOf(Last) + 1)
      /\ input.missing = LengthOf(Last) + 1 /\ Last > 1 => LengthOf(Last - 1) > 0
  BY FreqIndexAssumption, Zenon DEF FreqIndexAssumption, Last, LengthOf
<1>3. ASSUME NEW t \in 1..Last
      PROVE  IsAscending(input.lists[t].docs, LengthOf(t), num_docs)
  <2> DEFINE s == input.lists[t].docs
             n == LengthOf(t)
  <2>1. /\ n \in Nat /\ s \in [0..(n - 1) -> 0..(num_docs - 1)]
        /\ \A i, j \in 0..(n - 1) : i < j => s[i] < s[j]
    BY <1>2
  <2> HIDE DEF s, n
  <2>2. IsAscending(s, n, num_docs)
    BY <1>1, <2>1 DEF IsAscending
  <2> QED
    BY <2>2 DEF s, n
<1> QED
  BY <1>1, <1>2, <1>3

\* The number of documents comes first in the file of the documents.
LEMMA DocListsAre ==
  ASSUME input \in Inputs
  PROVE  /\ DOMAIN DocLists = 1..(Last + 1)
         /\ DocLists[1] = [i \in {0} |-> num_docs]
         /\ \A t \in 1..Last : DocLists[t + 1] = input.lists[t].docs
<1> DEFINE one == <<[i \in {0} |-> num_docs]>>
           rest == [t \in DOMAIN input.lists |-> input.lists[t].docs]
           S == {[i \in {0} |-> num_docs]} \cup {input.lists[t].docs : t \in 1..Last}
<1>1. Last \in Nat \ {0} /\ DOMAIN input.lists = 1..Last
  BY InputIs
<1>2. one \in Seq(S) /\ Len(one) = 1 /\ one[1] = [i \in {0} |-> num_docs]
  OBVIOUS
<1>3. rest \in [1..Last -> S]
  BY <1>1
<1>4. rest \in Seq(S) /\ Len(rest) = Last
  <2> HIDE DEF rest, S
  <2> QED
    BY <1>1, <1>3
<1>5. \A t \in 1..Last : rest[t] = input.lists[t].docs
  BY <1>1
<1>6. DocLists = one \o rest
  BY DEF DocLists
<1> HIDE DEF one, rest, S
<1>7. /\ one \o rest \in Seq(S)
      /\ Len(one \o rest) = Len(one) + Len(rest)
      /\ \A i \in 1..(Len(one) + Len(rest)) :
           (one \o rest)[i] = IF i <= Len(one) THEN one[i] ELSE rest[i - Len(one)]
  <2>1. one \in Seq(S)
    BY <1>2
  <2>2. rest \in Seq(S)
    BY <1>4
  <2> QED
    BY <2>1, <2>2, ConcatProperties, Zenon
<1>8. DocLists \in Seq(S) /\ Len(DocLists) = 1 + Last
  BY <1>2, <1>4, <1>6, <1>7
<1>9. DOMAIN DocLists = 1..(Last + 1)
  BY <1>1, <1>8
<1>10. DocLists[1] = one[1]
  BY <1>1, <1>2, <1>4, <1>6, <1>7
<1>11. ASSUME NEW t \in 1..Last PROVE DocLists[t + 1] = rest[t]
  BY <1>1, <1>2, <1>4, <1>6, <1>7
<1> QED
  BY <1>2, <1>5, <1>9, <1>10, <1>11

LEMMA FilesAre ==
  ASSUME input \in Inputs
  PROVE  \E offD, offF :
           /\ IsFile(docs_file, DocLists, Last + 1, offD, input.missing)
           /\ IsFile(freqs_file, FreqLists, Last, offF, 0)
<1>1. /\ Last \in Nat \ {0} /\ DOMAIN input.lists = 1..Last /\ Last + 1 \in Nat \ {0}
      /\ \A t \in 1..Last :
           /\ LengthOf(t) \in Nat
           /\ IsAscending(input.lists[t].docs, LengthOf(t), num_docs)
           /\ input.lists[t].freqs \in [0..(LengthOf(t) - 1) -> Nat \ {0}]
      /\ input.missing \in 0..(LengthOf(Last) + 1)
      /\ num_docs \in Nat \ {0}
  BY InputIs
<1>2. /\ DOMAIN DocLists = 1..(Last + 1)
      /\ DocLists[1] = [i \in {0} |-> num_docs]
      /\ \A t \in 1..Last : DocLists[t + 1] = input.lists[t].docs
  BY DocListsAre
<1>3. ASSUME NEW t \in 1..(Last + 1)
      PROVE  /\ SizeOf(DocLists[t]) \in Nat
             /\ DocLists[t] \in [0..(SizeOf(DocLists[t]) - 1) -> Nat]
  <2>1. CASE t = 1
    <3>1. DOMAIN DocLists[1] = 0..(1 - 1)
      BY <1>2
    <3>2. SizeOf(DocLists[1]) = 1
      BY <3>1, SizeOfSequence
    <3>3. DocLists[1] \in [0..(1 - 1) -> Nat]
      BY <1>1, <1>2
    <3> QED
      BY <2>1, <3>2, <3>3
  <2>2. CASE t # 1
    <3>1. t - 1 \in 1..Last /\ t - 1 + 1 = t
      BY <1>1, <2>2
    <3>2. DocLists[t] = input.lists[t - 1].docs /\ SizeOf(DocLists[t]) = LengthOf(t - 1)
      BY <1>2, <3>1 DEF LengthOf
    <3>3. /\ LengthOf(t - 1) \in Nat
          /\ input.lists[t - 1].docs \in [0..(LengthOf(t - 1) - 1) -> Nat]
      BY <1>1, <3>1 DEF IsAscending
    <3> QED
      BY <3>2, <3>3
  <2> QED
    BY <2>1, <2>2
<1>4. ASSUME NEW t \in 1..Last
      PROVE  /\ SizeOf(FreqLists[t]) \in Nat
             /\ FreqLists[t] \in [0..(SizeOf(FreqLists[t]) - 1) -> Nat]
  <2>1. FreqLists[t] = input.lists[t].freqs
    BY <1>1 DEF FreqLists
  <2>2. FreqLists[t] \in [0..(LengthOf(t) - 1) -> Nat]
    BY <1>1, <2>1
  <2>3. SizeOf(FreqLists[t]) = LengthOf(t)
    BY <1>1, <2>2, SizeOfSequence
  <2> QED
    BY <1>1, <2>2, <2>3
<1>5. DOMAIN FreqLists = 1..Last
  BY <1>1 DEF FreqLists
<1>6. PICK offF : IsFile(Files!WordsOf(FreqLists), FreqLists, Last, offF, 0)
  BY <1>1, <1>4, <1>5, WordsAreFile
<1>7. PICK offD : IsFile(Files!WordsOf(DocLists), DocLists, Last + 1, offD, 0)
  BY <1>1, <1>2, <1>3, WordsAreFile
<1>8. input.missing \in 0..(SizeOf(DocLists[Last + 1]) + 1)
  BY <1>1, <1>2 DEF LengthOf
<1>9. IsFile(SubSeq(Files!WordsOf(DocLists), 1, Len(Files!WordsOf(DocLists)) - input.missing),
             DocLists, Last + 1, offD, input.missing)
  BY <1>7, <1>8, CutFile
<1>10. docs_file
         = SubSeq(Files!WordsOf(DocLists), 1, Len(Files!WordsOf(DocLists)) - input.missing)
  BY DEF docs_file, DocLists, Files!DocsFile
<1>11. freqs_file = Files!WordsOf(FreqLists)
  BY DEF freqs_file, FreqLists
<1> QED
  BY <1>6, <1>9, <1>10, <1>11

Missing(t) == IF t = Last THEN input.missing ELSE 0

\* What of a list can be read, and which lists can.
LEMMA ReadableIs ==
  ASSUME input \in Inputs
  PROVE  /\ \A t \in 1..Last : /\ Missing(t) \in Nat
                               /\ there(t) = 0..(LengthOf(t) - Missing(t) - 1)
                               /\ t \in readable <=> LengthOf(t) > Missing(t)
         /\ readable \in SUBSET (1..Last)
         /\ IsFiniteSet(readable) /\ Cardinality(readable) \in Nat
<1>1. /\ Last \in Nat \ {0} /\ DOMAIN input.lists = 1..Last
      /\ \A t \in 1..Last : LengthOf(t) \in Nat
      /\ input.missing \in Nat
  BY InputIs
<1>2. \A t \in 1..Last : /\ Missing(t) \in Nat
                         /\ there(t) = 0..(LengthOf(t) - Missing(t) - 1)
  BY <1>1 DEF there, Missing, LengthOf, Last
<1>3. ASSUME NEW t \in 1..Last PROVE there(t) # {} <=> LengthOf(t) > Missing(t)
  <2> DEFINE a == LengthOf(t)
             b == Missing(t)
  <2>1. a \in Nat /\ b \in Nat /\ there(t) = 0..(a - b - 1)
    BY <1>1, <1>2
  <2> HIDE DEF a, b
  <2>2. 0..(a - b - 1) # {} <=> a > b
    <3>1. CASE a > b
      <4>1. 0 \in 0..(a - b - 1)
        BY <2>1, <3>1
      <4> QED
        BY <3>1, <4>1
    <3>2. CASE ~(a > b)
      BY <2>1, <3>2
    <3> QED
      BY <3>1, <3>2
  <2> QED
    BY <2>1, <2>2 DEF a, b
<1>4. readable = {t \in 1..Last : there(t) # {}}
  BY <1>1 DEF readable
<1>5. IsFiniteSet(1..Last)
  BY <1>1, FS_Interval
<1>6. IsFiniteSet(readable)
  BY <1>4, <1>5, FS_Subset
<1> QED
  BY <1>2, <1>3, <1>4, <1>6, FS_CardinalityType

\* An added list is one that the builder takes.
LEMMA AddedIsList ==
  ASSUME input \in Inputs, NEW t \in readable
  PROVE  /\ IsList(Added(t), LengthOf(t) - Missing(t))
         /\ there(t) = 0..(LengthOf(t) - Missing(t) - 1)
<1> DEFINE a == LengthOf(t)
           b == Missing(t)
           s == input.lists[t].docs
           f == input.lists[t].freqs
           n == a - b
<1>1. /\ t \in 1..Last /\ a \in Nat /\ b \in Nat /\ a > b /\ num_docs \in Nat
      /\ IsAscending(s, a, num_docs)
      /\ f \in [0..(a - 1) -> Nat \ {0}]
      /\ there(t) = 0..(n - 1) /\ DOMAIN input.lists = 1..Last /\ input.lists[t] = input.lists[t]
  <2>1. t \in 1..Last /\ DOMAIN input.lists = 1..Last
    BY InputIs, ReadableIs
  <2> QED
    BY <2>1, InputIs, ReadableIs
<1>2. Added(t).docs = [i \in 0..(n - 1) |-> s[i]] /\ Added(t).freqs = f
  BY <1>1 DEF Added, AsRead
<1>3. Occurrences(Added(t)) < 2^30
  <2>1. Occurrences(Added(t)) = Occurrences(input.lists[t])
    BY <1>2 DEF Occurrences
  <2>2. SizeOf(input.lists[t].docs) > 0
    BY <1>1 DEF LengthOf
  <2> QED
    BY <1>1, <2>1, <2>2, OccurrencesAssumption DEF OccurrencesAssumption
<1> HIDE DEF a, b, s, f
<1>4. n \in Nat \ {0} /\ n <= a
  BY <1>1
<1>5. IsAscending([i \in 0..(n - 1) |-> s[i]], n, num_docs)
  <2>1. 0..(n - 1) \subseteq 0..(a - 1)
    BY <1>1
  <2> HIDE DEF n
  <2> QED
    BY <1>1, <1>4, <2>1 DEF IsAscending
<1>6. f \in [0..(a - 1) -> Nat] /\ \A i \in 0..(a - 1) : f[i] >= 1
  BY <1>1
<1>7. IsList(Added(t), n)
  <2> HIDE DEF n
  <2> QED
    BY <1>1, <1>2, <1>3, <1>4, <1>5, <1>6 DEF IsList
<1> QED
  BY <1>1, <1>7 DEF a, b

-----------------------------------------------------------------------------
(* The iterators *)

\* The iterators are on the t-th list.
OnList(t, d, f, offD, offF) ==
  /\ d = [pos |-> d.pos, next |-> EndOf(docs_file, Last + 1, offD, t + 1),
          seq |-> PartOf(DocLists, Last + 1, input.missing, t + 1)]
  /\ d.pos # Len(docs_file)
  /\ f.next = EndOf(freqs_file, Last, offF, t)
  /\ f.seq = PartOf(FreqLists, Last, 0, t)

\* They have given k lists: those before the one they are on, or all.
Progress(d, f, k, offD, offF) ==
  \/ \E t \in 1..Last : /\ LengthOf(t) > 0
                        /\ OnList(t, d, f, offD, offF)
                        /\ k = Cardinality(Lower(readable, t))
  \/ d.pos = Len(docs_file) /\ k = Cardinality(readable)

Upto(t) == {x \in readable : x <= t}

\* Behind the t-th list they go on to the next one there is, or to the end.
LEMMA NextList ==
  ASSUME input \in Inputs, NEW offD, NEW offF,
         IsFile(docs_file, DocLists, Last + 1, offD, input.missing),
         IsFile(freqs_file, FreqLists, Last, offF, 0),
         NEW t \in 0..Last, NEW d, NEW f,
         d = [pos |-> d.pos, next |-> EndOf(docs_file, Last + 1, offD, t + 1),
              seq |-> d.seq],
         f.next = EndOf(freqs_file, Last, offF, t)
  PROVE  Progress(Files!increment(docs_file, d), Files!increment(freqs_file, f),
                  Cardinality(Upto(t)), offD, offF)
<1> DEFINE D == Files!increment(docs_file, d)
           F == Files!increment(freqs_file, f)
           len == Len(docs_file)
<1>1. /\ Last \in Nat \ {0} /\ DOMAIN input.lists = 1..Last
      /\ \A v \in 1..Last : LengthOf(v) \in Nat
      /\ LengthOf(Last) > 0
      /\ input.missing \in 0..(LengthOf(Last) + 1)
      /\ input.missing = LengthOf(Last) + 1 /\ Last > 1 => LengthOf(Last - 1) > 0
  BY InputIs
<1>2. /\ readable \in SUBSET (1..Last)
      /\ \A v \in readable : LengthOf(v) > Missing(v) /\ Missing(v) \in Nat
  BY ReadableIs
<1>3. \A v \in 1..Last : SizeOf(DocLists[v + 1]) = LengthOf(v)
  BY DocListsAre DEF LengthOf
<1>4. \A v \in 1..Last : SizeOf(FreqLists[v]) = LengthOf(v)
  <2> SUFFICES ASSUME NEW v \in 1..Last PROVE SizeOf(FreqLists[v]) = LengthOf(v)
    OBVIOUS
  <2>1. FreqLists[v] = input.lists[v].freqs
    BY <1>1 DEF FreqLists
  <2>2. DOMAIN FreqLists[v] = 0..(LengthOf(v) - 1)
    BY <2>1, InputIs
  <2> QED
    BY <1>1, <2>2, SizeOfSequence
<1>5. /\ D = Files!read(docs_file, EndOf(docs_file, Last + 1, offD, t + 1), d)
      /\ F = Files!read(freqs_file, EndOf(freqs_file, Last, offF, t), f)
  BY DEF Files!increment
<1>6. /\ len = offD[Last + 1] - input.missing /\ len \in Nat /\ offD[Last] <= len
      /\ \A v \in 0..(Last + 1) : offD[v] \in Nat
      /\ \A v \in 1..(Last + 1) : offD[v] = offD[v - 1] + 1 + SizeOf(DocLists[v])
      /\ \A v, w \in 0..(Last + 1) : v <= w => offD[v] <= offD[w]
  <2>1. Last + 1 - 1 = Last
    BY <1>1
  <2> QED
    BY <2>1, Offsets
<1>7. /\ Len(freqs_file) = offF[Last] - 0 /\ Len(freqs_file) \in Nat
      /\ \A v \in 0..Last : offF[v] \in Nat
      /\ \A v \in 1..Last : offF[v] = offF[v - 1] + 1 + SizeOf(FreqLists[v])
      /\ \A v, w \in 0..Last : v <= w => offF[v] <= offF[w]
  BY Offsets
<1>8. ASSUME EndOf(docs_file, Last + 1, offD, t + 1) = len PROVE D.pos = len
  <2>1. D = [d EXCEPT !.pos = len]
    BY <1>5, <1>8 DEF Files!read
  <2> QED
    BY <2>1
<1>9. CASE t = Last
  <2>1. EndOf(docs_file, Last + 1, offD, t + 1) = len
    BY <1>9 DEF EndOf
  <2>2. Upto(t) = readable
    BY <1>1, <1>2, <1>9 DEF Upto
  <2> QED
    BY <1>8, <2>1, <2>2 DEF Progress
<1>10. CASE t # Last
  <2> DEFINE S == {v \in (t + 1)..Last : LengthOf(v) > 0}
  <2>0. t \in Nat /\ t + 1 \in 1..Last
    BY <1>1, <1>10
  <2>1. Last \in S /\ S \in SUBSET Nat
    BY <1>1, <2>0
  <2>2. PICK u \in S : \A k \in S : u <= k
    BY <2>1, LeastElement
  <2>3. u \in (t + 1)..Last /\ LengthOf(u) > 0
    OBVIOUS
  <2>4. /\ u \in 1..Last /\ u \in Nat /\ u - 1 \in 0..Last /\ u + 1 - 1 = u
        /\ u + 1 \in 1..(Last + 1) /\ u + 1 \in (t + 1 + 1)..(Last + 1)
        /\ t + 1 \in 0..(Last + 1) /\ t + 1 # Last + 1
    BY <1>1, <2>0, <2>3
  <2>5. ASSUME NEW v \in (t + 1)..(u - 1) PROVE LengthOf(v) = 0
    <3>1. v \in (t + 1)..Last /\ v \in 1..Last /\ ~(u <= v)
      BY <1>1, <2>0, <2>4
    <3>2. v \notin S
      BY <2>2, <3>1
    <3>3. ~(LengthOf(v) > 0) /\ LengthOf(v) \in Nat
      BY <1>1, <3>1, <3>2
    <3> QED
      BY <3>3
  <2>6. Upto(t) = Lower(readable, u)
    <3>1. ASSUME NEW x \in readable PROVE x <= t <=> x < u
      <4>1. x \in 1..Last /\ LengthOf(x) # 0
        BY <1>1, <1>2
      <4>2. x \notin (t + 1)..(u - 1)
        BY <2>5, <4>1
      <4> QED
        BY <1>1, <2>0, <2>3, <4>1, <4>2
    <3> QED
      BY <3>1 DEF Upto, Lower
  <2>7. EndOf(docs_file, Last + 1, offD, t + 1) = offD[t + 1]
    BY <2>4 DEF EndOf
  <2>8. EndOf(freqs_file, Last, offF, t) = offF[t]
    BY <1>10 DEF EndOf
  <2>9. CASE offD[u] < len
    <3>1. /\ offD[t + 1] # len
          /\ Files!read(docs_file, offD[t + 1], d)
               = [pos |-> offD[t + 1], next |-> EndOf(docs_file, Last + 1, offD, u + 1),
                  seq |-> PartOf(DocLists, Last + 1, input.missing, u + 1)]
      <4>1. SizeOf(DocLists[u + 1]) > 0
        BY <1>3, <2>3, <2>4
      <4>2. ASSUME NEW v \in (t + 1 + 1)..(u + 1 - 1) PROVE SizeOf(DocLists[v]) = 0
        <5>1. v - 1 \in (t + 1)..(u - 1) /\ v - 1 \in 1..Last /\ v - 1 + 1 = v
          BY <1>1, <2>0, <2>4, SMTT(60)
        <5> QED
          BY <1>3, <2>5, <5>1
      <4>3. offD[u + 1 - 1] < len
        BY <2>4, <2>9
      <4> DEFINE T == t + 1
                 U == u + 1
                 M == Last + 1
      <4>4. /\ T \in 0..M /\ U \in (T + 1)..M /\ SizeOf(DocLists[U]) > 0
            /\ \A v \in (T + 1)..(U - 1) : SizeOf(DocLists[v]) = 0
            /\ offD[U - 1] < Len(docs_file)
            /\ IsFile(docs_file, DocLists, M, offD, input.missing)
        BY <2>4, <4>1, <4>2, <4>3
      <4> HIDE DEF T, U, M
      <4>5. /\ offD[T] # Len(docs_file)
            /\ Files!read(docs_file, offD[T], d)
                 = [pos |-> offD[T], next |-> EndOf(docs_file, M, offD, U),
                    seq |-> PartOf(DocLists, M, input.missing, U)]
        BY ONLY <4>4, ReadsNext
      <4> QED
        BY <4>5 DEF T, U, M
    <3>2. Files!read(freqs_file, offF[t], f)
            = [pos |-> offF[t], next |-> EndOf(freqs_file, Last, offF, u),
               seq |-> PartOf(FreqLists, Last, 0, u)]
      <4>1. SizeOf(FreqLists[u]) > 0
        BY <1>4, <2>3, <2>4
      <4>2. ASSUME NEW v \in (t + 1)..(u - 1) PROVE SizeOf(FreqLists[v]) = 0
        <5>1. v \in 1..Last
          BY <1>1, <2>0, <2>4
        <5> QED
          BY <1>4, <2>5, <5>1
      <4>3. offF[u - 1] < Len(freqs_file)
        <5> DEFINE x == offF[u - 1]
                   y == offF[u]
                   z == offF[Last]
                   k == SizeOf(FreqLists[u])
                   w == Len(freqs_file)
        <5>1. /\ x \in Nat /\ y \in Nat /\ z \in Nat /\ k \in Nat /\ w = z - 0
              /\ y = x + 1 + k /\ y <= z
          <6>1. Last \in 0..Last /\ u \in 0..Last /\ u <= Last
            BY <1>1, <2>4
          <6>2. k \in Nat
            BY <1>1, <1>4, <2>4
          <6> QED
            BY <1>7, <2>4, <6>1, <6>2
        <5> HIDE DEF x, y, z, k, w
        <5>2. x < w
          BY <5>1
        <5> QED
          BY <5>2 DEF x, w
      <4> HIDE DEF S
      <4> QED
        BY <2>3, <4>1, <4>2, <4>3, ReadsNext
    <3>3. OnList(u, D, F, offD, offF)
      <4> HIDE DEF D, F
      <4> QED
        BY <1>5, <2>7, <2>8, <3>1, <3>2 DEF OnList
    <3> QED
      BY <2>3, <2>4, <2>6, <3>3 DEF Progress
  <2>10. CASE ~(offD[u] < len)
    <3>1. /\ offD[u] = len /\ offD[Last] = len
      <4> DEFINE x == offD[u]
                 y == offD[Last]
      <4>1. x \in Nat /\ y \in Nat /\ x <= y /\ y <= len /\ ~(x < len) /\ len \in Nat
        <5>1. u \in 0..(Last + 1) /\ Last \in 0..(Last + 1) /\ u <= Last
          BY <1>1, <2>4
        <5> QED
          BY <1>6, <2>10, <5>1
      <4> HIDE DEF x, y, len
      <4>2. x = len /\ y = len
        BY <4>1
      <4> QED
        BY <4>2 DEF x, y
    <3>2. u = Last
      <4>1. SUFFICES ASSUME u # Last PROVE FALSE
        OBVIOUS
      <4> DEFINE x == offD[u]
                 y == offD[u + 1]
                 z == offD[Last]
                 k == SizeOf(DocLists[u + 1])
      <4>2. /\ x \in Nat /\ y \in Nat /\ z \in Nat /\ k \in Nat
            /\ y = x + 1 + k /\ y <= z /\ x = z
        <5>1. u + 1 <= Last /\ u + 1 \in 0..(Last + 1) /\ Last \in 0..(Last + 1) /\ u \in 0..(Last + 1)
          BY <1>1, <2>4, <4>1
        <5>2. k \in Nat
          BY <1>1, <1>3, <2>4
        <5> QED
          BY <1>6, <2>4, <3>1, <5>1, <5>2
      <4> HIDE DEF x, y, z, k
      <4> QED
        BY <4>2
    <3>3. input.missing = LengthOf(Last) + 1
      <4> DEFINE x == offD[Last + 1]
                 k == SizeOf(DocLists[Last + 1])
      <4>1. x \in Nat /\ k = LengthOf(Last) /\ k \in Nat /\ x = len + 1 + k /\ len = x - input.missing
        <5>1. Last + 1 \in 1..(Last + 1) /\ Last + 1 - 1 = Last /\ Last \in 1..Last /\ Last + 1 \in 0..(Last + 1)
          BY <1>1
        <5> QED
          BY <1>1, <1>3, <1>6, <3>1, <5>1
      <4>2. input.missing \in Nat /\ len \in Nat
        BY <1>1, <1>6
      <4> HIDE DEF x, k, len
      <4> QED
        BY <4>1, <4>2
    <3>4. t + 1 = Last
      <4>1. CASE Last = 1
        BY <2>0, <4>1
      <4>2. CASE Last > 1
        <5>1. LengthOf(Last - 1) # 0
          BY <1>1, <3>3, <4>2
        <5>2. Last - 1 \notin (t + 1)..(Last - 1)
          BY <2>5, <3>2, <5>1
        <5> QED
          BY <1>1, <2>0, <5>2
      <4> QED
        BY <1>1, <4>1, <4>2
    <3>5. D.pos = len
      BY <1>8, <2>7, <3>1, <3>4
    <3>6. Upto(t) = readable
      <4>1. Last \notin readable
        BY <1>1, <1>2, <3>3 DEF Missing
      <4>2. \A x \in readable : x <= t
        BY <1>1, <1>2, <2>0, <3>4, <4>1
      <4> QED
        BY <4>2 DEF Upto
    <3> QED
      BY <3>5, <3>6 DEF Progress
  <2> QED
    BY <2>9, <2>10
<1> QED
  BY <1>9, <1>10

-----------------------------------------------------------------------------
(* The lists in the order they are added *)

LEMMA LowerIsFinite ==
  ASSUME input \in Inputs, NEW x
  PROVE  IsFiniteSet(Lower(readable, x)) /\ Cardinality(Lower(readable, x)) \in Nat
<1>1. IsFiniteSet(readable) /\ Lower(readable, x) \in SUBSET readable
  BY ReadableIs DEF Lower
<1> QED
  BY <1>1, FS_Subset, FS_CardinalityType

\* One more is added with a list.
LEMMA UptoNext ==
  ASSUME input \in Inputs, NEW t \in readable
  PROVE  Cardinality(Upto(t)) = Cardinality(Lower(readable, t)) + 1
<1>1. readable \in SUBSET Nat
  <2>1. Last \in Nat /\ readable \in SUBSET (1..Last)
    BY InputIs, ReadableIs
  <2> QED
    BY <2>1
<1>2. Upto(t) = Lower(readable, t) \cup {t}
  <2>1. \A x \in readable : x <= t <=> x < t \/ x = t
    BY <1>1
  <2> QED
    BY <2>1 DEF Upto, Lower
<1>3. t \notin Lower(readable, t)
  BY <1>1 DEF Lower
<1> QED
  BY <1>2, <1>3, LowerIsFinite, FS_AddElement

\* No two lists are added as the same one.
LEMMA RankIsUnique ==
  ASSUME input \in Inputs, NEW t \in readable, NEW u \in readable,
         Cardinality(Lower(readable, t)) = Cardinality(Lower(readable, u))
  PROVE  t = u
<1>1. readable \in SUBSET Nat
  <2>1. Last \in Nat /\ readable \in SUBSET (1..Last)
    BY InputIs, ReadableIs
  <2> QED
    BY <2>1
<1>2. ASSUME NEW x \in readable, NEW y \in readable, x < y
      PROVE  Cardinality(Lower(readable, x)) # Cardinality(Lower(readable, y))
  <2>1. /\ Lower(readable, x) \in SUBSET Lower(readable, y)
        /\ x \in Lower(readable, y) /\ x \notin Lower(readable, x)
    <3>1. ~(x < x) /\ \A q \in readable : q < x => q < y
      BY <1>1, <1>2
    <3> QED
      BY <1>2, <3>1 DEF Lower
  <2> QED
    BY <2>1, LowerIsFinite, FS_Subset
<1>3. t < u \/ u < t \/ t = u
  BY <1>1
<1> QED
  BY <1>2, <1>3

\* There is a list for every rank.
LEMMA RankExists ==
  ASSUME input \in Inputs, NEW k \in Nat, k < Cardinality(readable)
  PROVE  \E t \in readable : Cardinality(Lower(readable, t)) = k
<1> DEFINE Rank(x) == Cardinality(Lower(readable, x))
           T == {x \in readable : Rank(x) >= k}
<1>0. /\ Last \in Nat /\ readable \in SUBSET (0..Last) /\ readable \in SUBSET Nat
      /\ Cardinality(readable) \in Nat
      /\ \A x \in readable : x \in Nat /\ Rank(x) \in Nat
      /\ \A x \in readable : Cardinality(Upto(x)) = Rank(x) + 1
  <2>1. Last \in Nat /\ readable \in SUBSET (1..Last) /\ Cardinality(readable) \in Nat
    BY InputIs, ReadableIs
  <2>2. \A x : Rank(x) \in Nat
    BY LowerIsFinite
  <2>3. \A x \in readable : Cardinality(Upto(x)) = Rank(x) + 1
    BY UptoNext
  <2> QED
    BY <2>1, <2>2, <2>3
<1> HIDE DEF Rank
<1>1. T # {}
  <2>1. readable # {}
    BY FS_EmptySet
  <2>2. PICK g \in readable : \A e \in readable : g >= e
    BY <1>0, <2>1, GreatestElement
  <2>3. Upto(g) = readable
    BY <1>0, <2>2 DEF Upto
  <2>4. g \in T
    BY <1>0, <2>2, <2>3
  <2> QED
    BY <2>4
<1>2. PICK p \in T : \A e \in T : p <= e
  BY <1>0, <1>1, LeastElement
<1>3. p \in readable /\ Rank(p) >= k
  OBVIOUS
<1>4. ASSUME Rank(p) # k PROVE FALSE
  <2>1. Lower(readable, p) # {}
    BY <1>0, <1>3, <1>4, FS_EmptySet DEF Rank
  <2>2. Lower(readable, p) \in SUBSET (0..Last)
    BY <1>0 DEF Lower
  <2>3. PICK q \in Lower(readable, p) : \A e \in Lower(readable, p) : q >= e
    BY <1>0, <2>1, <2>2, GreatestElement
  <2>4. q \in readable /\ q < p
    BY DEF Lower
  <2>5. Upto(q) = Lower(readable, p)
    <3>1. ASSUME NEW x \in readable PROVE x <= q <=> x < p
      BY <1>0, <1>3, <2>3, <2>4 DEF Lower
    <3> QED
      BY <3>1 DEF Upto, Lower
  <2>6. Rank(p) = Rank(q) + 1
    BY <1>0, <2>4, <2>5 DEF Rank
  <2>7. q \in T
    BY <1>0, <1>3, <1>4, <2>4, <2>6
  <2> QED
    BY <1>0, <1>2, <1>3, <2>4, <2>7
<1> QED
  BY <1>3, <1>4 DEF Rank

\* The k-th list that is given.
LEMMA GivenIs ==
  ASSUME input \in Inputs, NEW k \in 1..Cardinality(readable), NEW t \in readable,
         Cardinality(Lower(readable, t)) = k - 1
  PROVE  Given[k] = AsRead(t)
<1>1. \A T : RB!Cardinality(T) = Cardinality(T)
  BY DEF RB!Cardinality, Cardinality
<1>2. RB!Nth(readable, k - 1)
        = CHOOSE q \in readable : Cardinality(Lower(readable, q)) = k - 1
  BY <1>1 DEF RB!Nth, Lower
<1>3. RB!Nth(readable, k - 1) = t
  BY <1>2, RankIsUnique
<1> QED
  BY <1>3 DEF Given

\* What an iterator that is on a list gives is what can be read of it.
LEMMA OnListGives ==
  ASSUME input \in Inputs, NEW t \in 1..Last, NEW d, NEW f, NEW offD, NEW offF,
         OnList(t, d, f, offD, offF), SizeOf(d.seq) > 0
  PROVE  /\ t \in readable
         /\ d.seq = Added(t).docs /\ f.seq = Added(t).freqs
<1>1. /\ d.seq = PartOf(DocLists, Last + 1, input.missing, t + 1)
      /\ f.seq = PartOf(FreqLists, Last, 0, t)
  BY DEF OnList
<1>2. /\ Last \in Nat \ {0} /\ DOMAIN input.lists = 1..Last
      /\ \A v \in 1..Last : /\ LengthOf(v) \in Nat
                            /\ input.lists[v].freqs \in [0..(LengthOf(v) - 1) -> Nat \ {0}]
  BY InputIs
<1>3. DocLists[t + 1] = input.lists[t].docs
  BY DocListsAre
<1>4. there(t) = 0..(LengthOf(t) - Missing(t) - 1)
  BY ReadableIs
<1>5. d.seq = [i \in there(t) |-> input.lists[t].docs[i]]
  <2>1. (IF t + 1 = Last + 1 THEN input.missing ELSE 0) = Missing(t)
    BY <1>2 DEF Missing
  <2>2. SizeOf(DocLists[t + 1]) = LengthOf(t)
    BY <1>3 DEF LengthOf
  <2> QED
    BY <1>1, <1>3, <1>4, <2>1, <2>2 DEF PartOf
<1>6. there(t) # {}
  <2>1. ASSUME there(t) = {} PROVE FALSE
    <3>1. DOMAIN d.seq = {}
      BY <1>5, <2>1
    <3> QED
      BY <3>1, FS_EmptySet DEF SizeOf
  <2> QED
    BY <2>1
<1>7. f.seq = input.lists[t].freqs
  <2> DEFINE s == input.lists[t].freqs
             n == LengthOf(t)
  <2>1. n \in Nat /\ s \in [0..(n - 1) -> Nat \ {0}] /\ FreqLists[t] = s
    BY <1>2 DEF FreqLists
  <2> HIDE DEF s, n
  <2>2. SizeOf(s) = n
    BY <2>1, SizeOfSequence
  <2>3. (IF t = Last THEN 0 ELSE 0) = 0 /\ n - 0 - 1 = n - 1
    BY <2>1
  <2>4. f.seq = [i \in 0..(n - 1) |-> s[i]]
    BY <1>1, <2>1, <2>2, <2>3 DEF PartOf
  <2>5. f.seq = s
    BY <2>1, <2>4
  <2> QED
    BY <2>5 DEF s
<1> QED
  BY <1>2, <1>5, <1>6, <1>7 DEF readable, Added, AsRead

\* The collections have the lists in this order.
HaveLists(docs, freqs) ==
  /\ IsCollection(docs) /\ IsCollection(freqs)
  /\ Len(docs.chunks) = Len(freqs.chunks)
  /\ \A k \in 1..Len(docs.chunks) : \E t \in readable :
       /\ Cardinality(Lower(readable, t)) = k - 1
       /\ docs.chunks[k] = docs_bits(Added(t))
       /\ freqs.chunks[k] = freqs_bits(Added(t))

LEMMA ListAdded ==
  ASSUME input \in Inputs, NEW docs, NEW freqs, HaveLists(docs, freqs),
         NEW t \in readable, Len(docs.chunks) = Cardinality(Lower(readable, t))
  PROVE  /\ HaveLists(append(docs, docs_bits(Added(t))), append(freqs, freqs_bits(Added(t))))
         /\ Len(append(docs, docs_bits(Added(t))).chunks) = Cardinality(Upto(t))
<1> DEFINE m == Len(docs.chunks)
           D == append(docs, docs_bits(Added(t)))
           F == append(freqs, freqs_bits(Added(t)))
           cd == docs.chunks
           cf == freqs.chunks
<1>1. /\ docs_bits(Added(t)).size \in Nat \ {0}
      /\ freqs_bits(Added(t)).size \in Nat \ {0}
  <2>1. RatesOK /\ num_docs \in Nat
    BY FreqIndexAssumption DEF FreqIndexAssumption, RatesOK
  <2> QED
    BY <2>1, AddedIsList, ChunkSizes
<1>2. /\ m \in Nat /\ IsCollection(D) /\ Len(D.chunks) = m + 1
      /\ \A k \in 1..m : D.chunks[k] = cd[k]
      /\ D.chunks[m + 1] = docs_bits(Added(t))
  BY <1>1, CollectionAppends DEF HaveLists
<1>3. /\ IsCollection(F) /\ Len(F.chunks) = m + 1
      /\ \A k \in 1..m : F.chunks[k] = cf[k]
      /\ F.chunks[m + 1] = freqs_bits(Added(t))
  <2>1. IsCollection(freqs) /\ Len(cf) = m
    BY DEF HaveLists
  <2>2. /\ IsCollection(F) /\ Len(F.chunks) = Len(cf) + 1
        /\ \A k \in 1..Len(cf) : F.chunks[k] = cf[k]
        /\ F.chunks[Len(cf) + 1] = freqs_bits(Added(t))
    BY <1>1, <2>1, CollectionAppends
  <2> HIDE DEF cf, m, F
  <2> QED
    BY <2>1, <2>2
<1>4. Cardinality(Upto(t)) = m + 1
  BY UptoNext
<1>5. \A k \in 1..m : \E u \in readable :
        /\ Cardinality(Lower(readable, u)) = k - 1
        /\ cd[k] = docs_bits(Added(u))
        /\ cf[k] = freqs_bits(Added(u))
  BY DEF HaveLists
<1>6. m = Cardinality(Lower(readable, t))
  OBVIOUS
<1> HIDE DEF D, F, m, cd, cf
<1>7. ASSUME NEW k \in 1..(m + 1)
      PROVE  \E u \in readable : /\ Cardinality(Lower(readable, u)) = k - 1
                                 /\ D.chunks[k] = docs_bits(Added(u))
                                 /\ F.chunks[k] = freqs_bits(Added(u))
  <2>1. CASE k = m + 1
    <3>1. k - 1 = m
      BY <1>2, <2>1
    <3> QED
      BY <1>2, <1>3, <1>6, <2>1, <3>1
  <2>2. CASE k # m + 1
    <3>1. k \in 1..m
      BY <1>2, <2>2
    <3> QED
      BY <1>2, <1>3, <1>5, <3>1
  <2> QED
    BY <2>1, <2>2
<1>8. HaveLists(D, F)
  BY <1>2, <1>3, <1>7 DEF HaveLists
<1> QED
  BY <1>2, <1>4, <1>8 DEF D, F

\* The jobs are the lists that were given behind the first m of them.
HaveJobs(js, m) ==
  /\ \E S : js \in Seq(S)
  /\ \A k \in 1..Len(js) : \E t \in readable :
       /\ Cardinality(Lower(readable, t)) = m + k - 1
       /\ js[k] = Added(t)

LEMMA JobAdded ==
  ASSUME input \in Inputs, NEW m \in Nat, NEW js, HaveJobs(js, m),
         NEW t \in readable, m + Len(js) = Cardinality(Lower(readable, t))
  PROVE  /\ HaveJobs(Append(js, Added(t)), m)
         /\ m + Len(Append(js, Added(t))) = Cardinality(Upto(t))
<1>1. PICK S : js \in Seq(S)
  BY DEF HaveJobs
<1> DEFINE J == Append(js, Added(t))
           n == Len(js)
<1>2. /\ J \in Seq(S \cup {Added(t)}) /\ n \in Nat
      /\ Len(J) = n + 1 /\ J[n + 1] = Added(t)
      /\ \A k \in 1..n : J[k] = js[k]
  <2>1. js \in Seq(S \cup {Added(t)}) /\ Added(t) \in S \cup {Added(t)}
    BY <1>1
  <2> QED
    BY <2>1
<1>3. Cardinality(Upto(t)) = Cardinality(Lower(readable, t)) + 1
  BY UptoNext
<1> HIDE DEF J
<1>4. ASSUME NEW k \in 1..(n + 1)
      PROVE  \E u \in readable : /\ Cardinality(Lower(readable, u)) = m + k - 1
                                 /\ J[k] = Added(u)
  <2>1. CASE k = n + 1
    <3>1. m + k - 1 = m + n
      BY <1>2, <2>1
    <3> QED
      BY <1>2, <2>1, <3>1
  <2>2. CASE k # n + 1
    <3>1. k \in 1..n
      BY <1>2, <2>2
    <3> QED
      BY <1>2, <3>1 DEF HaveJobs
  <2> QED
    BY <2>1, <2>2
<1>5. HaveJobs(J, m)
  BY <1>2, <1>4 DEF HaveJobs
<1>6. m + Len(J) = Cardinality(Upto(t))
  BY <1>2, <1>3
<1> QED
  BY <1>5, <1>6 DEF J

\* The first job is the list that is next, and the others are behind it.
LEMMA JobTaken ==
  ASSUME NEW m \in Nat, NEW js, HaveJobs(js, m), js # <<>>
  PROVE  /\ \E t \in readable : /\ Cardinality(Lower(readable, t)) = m
                                /\ Head(js) = Added(t)
         /\ HaveJobs(Tail(js), m + 1)
         /\ m + 1 + Len(Tail(js)) = m + Len(js)
<1>1. PICK S : js \in Seq(S)
  BY DEF HaveJobs
<1> DEFINE J == Tail(js)
           n == Len(js)
<1>2. /\ n \in Nat \ {0} /\ J \in Seq(S) /\ Len(J) = n - 1
      /\ Head(js) = js[1]
      /\ \A k \in 1..(n - 1) : J[k] = js[k + 1]
  BY <1>1
<1>3. \E t \in readable : Cardinality(Lower(readable, t)) = m /\ Head(js) = Added(t)
  <2>1. 1 \in 1..n /\ m + 1 - 1 = m
    BY <1>2
  <2> QED
    BY <1>2, <2>1 DEF HaveJobs
<1> HIDE DEF J
<1>4. ASSUME NEW k \in 1..(n - 1)
      PROVE  \E u \in readable : /\ Cardinality(Lower(readable, u)) = m + 1 + k - 1
                                 /\ J[k] = Added(u)
  <2>1. k + 1 \in 1..n /\ m + (k + 1) - 1 = m + 1 + k - 1
    BY <1>2
  <2> QED
    BY <1>2, <2>1 DEF HaveJobs
<1>5. HaveJobs(J, m + 1)
  BY <1>2, <1>4 DEF HaveJobs
<1>6. m + 1 + Len(J) = m + n
  BY <1>2
<1> QED
  BY <1>3, <1>5, <1>6 DEF J

-----------------------------------------------------------------------------
(* The invariant *)

\* How many lists the iterators have given: those committed and those not.
Taken == Len(docs_sequences.chunks) + Len(jobs)

\* The list ls, its cursors at the position p and what was answered there are
\* those of the list l of n documents.
CursorOK(l, n, ls, de, fe, p, v, fr) ==
  /\ IsList(l, n)
  /\ Opened(ls.docs, l.docs, n, num_docs) /\ ~ls.docs.shifted
  /\ Opened(ls.freqs, SumsOf(l), n, Occurrences(l) + 1)
  /\ InPlace(ls.docs, de, p)
  /\ v = ValueIn(l.docs, num_docs, p)
  /\ \E q : PositiveInPlace(ls.freqs, SumsOf(l), fe, q)
  /\ fr # NoFreq => p < n /\ fr = l.freqs[p]

FilesOK ==
  \E offD, offF :
    /\ IsFile(docs_file, DocLists, Last + 1, offD, input.missing)
    /\ IsFile(freqs_file, FreqLists, Last, offF, 0)
    /\ Progress(docs_it, freqs_it, Taken, offD, offF)
    /\ built => docs_it.pos = Len(docs_file)

ListsOK ==
  /\ HaveLists(docs_sequences, freqs_sequences)
  /\ HaveJobs(jobs, Len(docs_sequences.chunks))

OpenOK ==
  IF IsOpen
  THEN \E t \in readable :
         /\ Cardinality(Lower(readable, t)) = term - 1
         /\ CursorOK(Added(t), LengthOf(t) - Missing(t), list, docs_enum, freqs_enum,
                     m_cur_pos, m_cur_docid, freq)
  ELSE m_cur_pos = 0 /\ freq = NoFreq

IInv ==
  /\ input \in Inputs
  /\ term \in 1..Cardinality(readable)
  /\ FilesOK
  /\ ListsOK
  /\ OpenOK

\* Nothing that is made of the input changes.
LEMMA InputStays ==
  ASSUME UNCHANGED input
  PROVE  /\ readable' = readable /\ Last' = Last
         /\ docs_file' = docs_file /\ freqs_file' = freqs_file
         /\ DocLists' = DocLists /\ FreqLists' = FreqLists
         /\ \A t : /\ Added(t)' = Added(t)
                   /\ LengthOf(t)' = LengthOf(t)
                   /\ Missing(t)' = Missing(t)
<1>1. readable' = readable /\ Last' = Last
  BY DEF readable, there, Last
<1>2. docs_file' = docs_file /\ freqs_file' = freqs_file
  BY DEF docs_file, freqs_file
<1>3. DocLists' = DocLists /\ FreqLists' = FreqLists
  BY DEF DocLists, FreqLists
<1>4. ASSUME NEW t
      PROVE  /\ Added(t)' = Added(t)
             /\ LengthOf(t)' = LengthOf(t)
             /\ Missing(t)' = Missing(t)
  BY DEF Added, AsRead, there, LengthOf, Missing, Last
<1> QED
  BY <1>1, <1>2, <1>3, <1>4

LEMMA FilesStay ==
  ASSUME UNCHANGED input, NEW offD, NEW offF,
         IsFile(docs_file, DocLists, Last + 1, offD, input.missing),
         IsFile(freqs_file, FreqLists, Last, offF, 0),
         Progress(docs_it', freqs_it', Taken', offD, offF),
         built' => docs_it'.pos = Len(docs_file)
  PROVE  FilesOK'
<1>1. /\ readable' = readable /\ Last' = Last
      /\ docs_file' = docs_file /\ freqs_file' = freqs_file
      /\ DocLists' = DocLists /\ FreqLists' = FreqLists
      /\ \A t : LengthOf(t)' = LengthOf(t)
  BY InputStays
<1>2. Progress(docs_it, freqs_it, Taken, offD, offF)'
  BY <1>1 DEF Progress, OnList
<1> QED
  BY <1>1, <1>2 DEF FilesOK

LEMMA ListsStay ==
  ASSUME UNCHANGED input, HaveLists(docs_sequences', freqs_sequences'),
         HaveJobs(jobs', Len(docs_sequences'.chunks))
  PROVE  ListsOK'
<1>1. readable' = readable /\ \A t : Added(t)' = Added(t)
  BY InputStays
<1>2. HaveLists(docs_sequences, freqs_sequences)'
  BY <1>1 DEF HaveLists
<1>3. HaveJobs(jobs, Len(docs_sequences.chunks))'
  BY <1>1 DEF HaveJobs
<1> QED
  BY <1>2, <1>3 DEF ListsOK

LEMMA CursorStays ==
  ASSUME UNCHANGED <<input, term>>, list' # NotOpen, NEW t \in readable,
         Cardinality(Lower(readable, t)) = term - 1,
         CursorOK(Added(t), LengthOf(t) - Missing(t), list', docs_enum', freqs_enum',
                  m_cur_pos', m_cur_docid', freq')
  PROVE  OpenOK'
<1>1. readable' = readable /\ \A u : /\ Added(u)' = Added(u)
                                     /\ LengthOf(u)' = LengthOf(u)
                                     /\ Missing(u)' = Missing(u)
  BY InputStays
<1>2. IsOpen'
  BY DEF IsOpen
<1> QED
  BY <1>1, <1>2 DEF OpenOK

-----------------------------------------------------------------------------
(* The steps *)

\* The first list of the documents is left out, and nothing was added yet.
LEMMA InitInv == Init => IInv
<1> SUFFICES ASSUME Init PROVE IInv
  OBVIOUS
<1>1. input \in Inputs /\ term \in 1..Cardinality(readable)
  BY DEF Init, Given
<1>2. ListsOK
  <2>1. /\ docs_sequences = EmptyCollection /\ freqs_sequences = EmptyCollection
        /\ Len(EmptyCollection.chunks) = 0 /\ IsCollection(EmptyCollection)
    BY EmptyIsCollection DEF Init
  <2>2. jobs = <<>> /\ <<>> \in Seq({}) /\ Len(<<>>) = 0
    BY DEF Init
  <2>3. HaveJobs(jobs, Len(docs_sequences.chunks))
    BY <2>2 DEF HaveJobs
  <2> QED
    BY <2>1, <2>3 DEF ListsOK, HaveLists
<1>3. OpenOK
  BY DEF Init, OpenOK, IsOpen
<1>4. FilesOK
  <2>1. PICK offD, offF :
          /\ IsFile(docs_file, DocLists, Last + 1, offD, input.missing)
          /\ IsFile(freqs_file, FreqLists, Last, offF, 0)
    BY <1>1, FilesAre
  <2>2. /\ Last \in Nat \ {0} /\ 0 \in 0..Last /\ 0 # Last /\ 0 + 1 # Last + 1
        /\ 0 \in 0..(Last + 1) /\ 1 \in (0 + 1)..(Last + 1) /\ 1 \in 1..(Last + 1)
        /\ Last \in 0..(Last + 1) /\ 1 \in 0..(Last + 1) /\ 1 <= Last
    BY <1>1, InputIs
  <2>3. SizeOf(DocLists[1]) = 1
    <3>1. DOMAIN DocLists[1] = 0..(1 - 1)
      BY <1>1, DocListsAre
    <3> QED
      BY <3>1, SizeOfSequence
  <2>4. offD[1 - 1] < Len(docs_file) /\ offD[0] = 0 /\ offF[0] = 0
    <3>1. /\ offD[0] = 0 /\ offD[1] = offD[1 - 1] + 1 + SizeOf(DocLists[1])
          /\ offD[1] <= offD[Last] /\ offD[Last + 1 - 1] <= Len(docs_file)
          /\ offD[Last] \in Nat /\ Len(docs_file) \in Nat
      BY <2>1, <2>2, Offsets
    <3>2. Last + 1 - 1 = Last /\ 1 - 1 = 0
      BY <2>2
    <3>3. offD[1] = 2 /\ offD[Last] <= Len(docs_file)
      BY <2>3, <3>1, <3>2
    <3>4. 2 <= offD[Last]
      BY <3>1, <3>3
    <3>5. 0 < Len(docs_file)
      BY <3>1, <3>3, <3>4
    <3>6. offF[0] = 0
      BY <2>1, Offsets
    <3> QED
      BY <3>1, <3>2, <3>5, <3>6
  <2> DEFINE d == Files!begin(docs_file)
             f == Files!Unread(0)
  <2>5. d = [pos |-> 0, next |-> EndOf(docs_file, Last + 1, offD, 1),
             seq |-> PartOf(DocLists, Last + 1, input.missing, 1)]
    <3>1. \A v \in (0 + 1)..(1 - 1) : SizeOf(DocLists[v]) = 0
      OBVIOUS
    <3>2. SizeOf(DocLists[1]) > 0
      BY <2>3
    <3>3. Files!read(docs_file, offD[0], Files!Unread(0))
            = [pos |-> offD[0], next |-> EndOf(docs_file, Last + 1, offD, 1),
               seq |-> PartOf(DocLists, Last + 1, input.missing, 1)]
      <4> DEFINE T == 0
                 U == 1
                 M == Last + 1
      <4>1. /\ T \in 0..M /\ U \in (T + 1)..M /\ SizeOf(DocLists[U]) > 0
            /\ \A v \in (T + 1)..(U - 1) : SizeOf(DocLists[v]) = 0
            /\ offD[U - 1] < Len(docs_file)
            /\ IsFile(docs_file, DocLists, M, offD, input.missing)
        BY <2>1, <2>2, <2>4, <3>1, <3>2
      <4> HIDE DEF T, U, M, d, f
      <4>2. ASSUME NEW it
            PROVE  Files!read(docs_file, offD[T], it)
                     = [pos |-> offD[T], next |-> EndOf(docs_file, M, offD, U),
                        seq |-> PartOf(DocLists, M, input.missing, U)]
        BY ONLY <4>1, ReadsNext
      <4> QED
        BY <4>2 DEF T, U, M
    <3> QED
      BY <2>4, <3>3 DEF Files!begin
  <2>6. f.next = EndOf(freqs_file, Last, offF, 0)
    BY <2>2, <2>4 DEF EndOf, Files!Unread
  <2>7. docs_it = Files!increment(docs_file, d) /\ freqs_it = Files!increment(freqs_file, f)
    BY DEF Init, Files!begin_docs, Files!begin, Files!increment, Files!Unread
  <2> HIDE DEF d, f
  <2>8. d = [pos |-> d.pos, next |-> EndOf(docs_file, Last + 1, offD, 0 + 1),
             seq |-> d.seq]
    BY <2>5
  <2>9. Progress(docs_it, freqs_it, Cardinality(Upto(0)), offD, offF)
    BY <1>1, <2>1, <2>2, <2>6, <2>7, <2>8, NextList
  <2>10. Cardinality(Upto(0)) = 0
    <3>1. Upto(0) = {}
      BY <1>1, <2>2, ReadableIs DEF Upto
    <3> QED
      BY <3>1, FS_EmptySet
  <2>11. Taken = 0 /\ ~built
    <3>1. Len(docs_sequences.chunks) = 0 /\ Len(jobs) = 0 /\ built = FALSE
      BY EmptyIsCollection DEF Init
    <3> QED
      BY <3>1 DEF Taken
  <2> QED
    BY <2>1, <2>9, <2>10, <2>11 DEF FilesOK
<1> QED
  BY <1>1, <1>2, <1>3, <1>4 DEF IInv

\* The opened list and its cursors are kept where only the index is made.
LEMMA CursorKept ==
  ASSUME IInv, UNCHANGED <<input, term, cursor>>
  PROVE  /\ OpenOK'
         /\ input' \in Inputs /\ term' \in 1..Cardinality(readable)'
<1>1. UNCHANGED <<list, docs_enum, freqs_enum, m_cur_pos, m_cur_docid, freq>>
  BY DEF cursor
<1>2. OpenOK'
  <2>1. CASE IsOpen
    <3>1. PICK u \in readable :
            /\ Cardinality(Lower(readable, u)) = term - 1
            /\ CursorOK(Added(u), LengthOf(u) - Missing(u), list, docs_enum, freqs_enum,
                        m_cur_pos, m_cur_docid, freq)
      BY <2>1 DEF IInv, OpenOK
    <3> QED
      BY <1>1, <2>1, <3>1, CursorStays DEF IsOpen
  <2>2. CASE ~IsOpen
    BY <1>1, <2>2 DEF IInv, OpenOK, IsOpen
  <2> QED
    BY <2>1, <2>2
<1> QED
  BY <1>2, InputStays DEF IInv

\* A list that is added is the one the iterators are on, and it becomes the last job.
LEMMA AddInv ==
  ASSUME IInv, add_posting_list
  PROVE  IInv'
<1> DEFINE l == [docs |-> docs_it.seq, freqs |-> freqs_it.seq]
           m == Len(docs_sequences.chunks)
<1>1. /\ UNCHANGED <<input, term, cursor, docs_sequences, freqs_sequences, built>>
      /\ docs_it.pos # Len(docs_file) /\ SizeOf(docs_it.seq) > 0
      /\ jobs' = Append(jobs, l)
      /\ docs_it' = Files!increment(docs_file, docs_it)
      /\ freqs_it' = Files!increment(freqs_file, freqs_it)
  BY DEF add_posting_list, Files!AtEnd
<1>2. PICK offD, offF :
        /\ IsFile(docs_file, DocLists, Last + 1, offD, input.missing)
        /\ IsFile(freqs_file, FreqLists, Last, offF, 0)
        /\ Progress(docs_it, freqs_it, Taken, offD, offF)
        /\ built => docs_it.pos = Len(docs_file)
  BY DEF IInv, FilesOK
<1>3. PICK t \in 1..Last : /\ LengthOf(t) > 0
                           /\ OnList(t, docs_it, freqs_it, offD, offF)
                           /\ Taken = Cardinality(Lower(readable, t))
  BY <1>1, <1>2 DEF Progress
<1>4. input \in Inputs /\ Last \in Nat /\ t \in 0..Last
  <2>1. input \in Inputs /\ Last \in Nat
    BY InputIs DEF IInv
  <2> QED
    BY <2>1
<1>5. t \in readable /\ docs_it.seq = Added(t).docs /\ freqs_it.seq = Added(t).freqs
  BY <1>1, <1>3, <1>4, OnListGives
<1>6. l = Added(t)
  BY <1>5 DEF Added
<1> HIDE DEF l
<1>7. /\ HaveLists(docs_sequences', freqs_sequences')
      /\ HaveJobs(jobs', Len(docs_sequences'.chunks))
      /\ Taken' = Cardinality(Upto(t))
  <2>1. /\ HaveLists(docs_sequences, freqs_sequences)
        /\ HaveJobs(jobs, m)
    BY DEF IInv, ListsOK
  <2>2. m \in Nat
    BY <2>1 DEF HaveLists, IsCollection
  <2>3. Taken = m + Len(jobs) /\ Taken' = m + Len(jobs')
    BY <1>1 DEF Taken
  <2> HIDE DEF m
  <2>4. /\ HaveJobs(Append(jobs, Added(t)), m)
        /\ m + Len(Append(jobs, Added(t))) = Cardinality(Upto(t))
    BY <1>3, <1>4, <1>5, <2>1, <2>2, <2>3, JobAdded
  <2>5. Len(docs_sequences'.chunks) = m
    BY <1>1 DEF m
  <2> QED
    BY <1>1, <1>6, <2>1, <2>3, <2>4, <2>5
<1>8. /\ docs_it = [pos |-> docs_it.pos, next |-> EndOf(docs_file, Last + 1, offD, t + 1),
                    seq |-> docs_it.seq]
      /\ freqs_it.next = EndOf(freqs_file, Last, offF, t)
  BY <1>3 DEF OnList
<1>9. Progress(docs_it', freqs_it', Cardinality(Upto(t)), offD, offF)
  BY <1>1, <1>2, <1>4, <1>8, NextList
<1>10. ~built'
  BY <1>1, <1>2
<1>11. FilesOK' /\ ListsOK'
  BY <1>1, <1>2, <1>7, <1>9, <1>10, FilesStay, ListsStay
<1> QED
  BY <1>1, <1>11, CursorKept DEF IInv

\* The first job becomes the last list of the collections.
LEMMA CommitInv ==
  ASSUME IInv, commit
  PROVE  IInv'
<1> DEFINE m == Len(docs_sequences.chunks)
<1>1. /\ UNCHANGED <<input, term, cursor, docs_it, freqs_it, built>> /\ ~built
      /\ jobs # <<>> /\ jobs' = Tail(jobs)
      /\ docs_sequences' = append(docs_sequences, docs_bits(Head(jobs)))
      /\ freqs_sequences' = append(freqs_sequences, freqs_bits(Head(jobs)))
  BY DEF commit
<1>2. PICK offD, offF :
        /\ IsFile(docs_file, DocLists, Last + 1, offD, input.missing)
        /\ IsFile(freqs_file, FreqLists, Last, offF, 0)
        /\ Progress(docs_it, freqs_it, Taken, offD, offF)
  BY DEF IInv, FilesOK
<1>3. /\ input \in Inputs /\ HaveLists(docs_sequences, freqs_sequences)
      /\ HaveJobs(jobs, m) /\ m \in Nat
  BY DEF IInv, ListsOK, HaveLists, IsCollection
<1>4. PICK t \in readable : Cardinality(Lower(readable, t)) = m /\ Head(jobs) = Added(t)
  <2> HIDE DEF m
  <2> QED
    BY <1>1, <1>3, JobTaken
<1>5. /\ HaveLists(docs_sequences', freqs_sequences')
      /\ Len(docs_sequences'.chunks) = Cardinality(Upto(t))
  BY <1>1, <1>3, <1>4, ListAdded
<1>6. Len(docs_sequences'.chunks) = m + 1
  BY <1>3, <1>4, <1>5, UptoNext
<1>7. HaveJobs(jobs', Len(docs_sequences'.chunks)) /\ Taken' = Taken
  <2>1. Taken = m + Len(jobs) /\ Taken' = Len(docs_sequences'.chunks) + Len(jobs')
    BY DEF Taken
  <2> HIDE DEF m
  <2>2. HaveJobs(Tail(jobs), m + 1) /\ m + 1 + Len(Tail(jobs)) = m + Len(jobs)
    BY <1>1, <1>3, JobTaken
  <2> QED
    BY <1>1, <1>6, <2>1, <2>2
<1>8. FilesOK' /\ ListsOK'
  BY <1>1, <1>2, <1>5, <1>7, FilesStay, ListsStay
<1> QED
  BY <1>1, <1>8, CursorKept DEF IInv

\* What is kept where no list is added and none committed.
LEMMA IndexStays ==
  ASSUME IInv,
         UNCHANGED <<input, term, docs_it, freqs_it, jobs, docs_sequences, freqs_sequences>>,
         built' => docs_it.pos = Len(docs_file)
  PROVE  FilesOK' /\ ListsOK'
<1>1. PICK offD, offF :
        /\ IsFile(docs_file, DocLists, Last + 1, offD, input.missing)
        /\ IsFile(freqs_file, FreqLists, Last, offF, 0)
        /\ Progress(docs_it, freqs_it, Taken, offD, offF)
  BY DEF IInv, FilesOK
<1>2. Taken' = Taken
  BY DEF Taken
<1>3. FilesOK'
  BY <1>1, <1>2, FilesStay
<1>4. ListsOK'
  BY ListsStay DEF IInv, ListsOK
<1> QED
  BY <1>3, <1>4

LEMMA BuildInv ==
  ASSUME IInv, build
  PROVE  IInv'
<1>1. /\ UNCHANGED <<input, term, docs_it, freqs_it, jobs, docs_sequences, freqs_sequences>>
      /\ UNCHANGED <<input, term, cursor>> /\ docs_it.pos = Len(docs_file)
  BY DEF build, Files!AtEnd
<1> QED
  BY <1>1, IndexStays, CursorKept DEF IInv

\* What is kept where only the cursors of the opened list move.
LEMMA WrittenStays ==
  ASSUME IInv, UNCHANGED written
  PROVE  /\ UNCHANGED <<input, term>>
         /\ input' \in Inputs /\ term' \in 1..Cardinality(readable)'
         /\ FilesOK' /\ ListsOK'
<1>1. /\ UNCHANGED <<input, term, docs_it, freqs_it, jobs, docs_sequences, freqs_sequences>>
      /\ built' = built
  BY DEF written
<1>2. built' => docs_it.pos = Len(docs_file)
  BY <1>1 DEF IInv, FilesOK
<1> QED
  BY <1>1, <1>2, IndexStays, InputStays DEF IInv

\* The opened list is the one that was given as the term-th.
LEMMA OpenedIs ==
  ASSUME IInv, NEW t \in readable, Cardinality(Lower(readable, t)) = term - 1
  PROVE  LET l == Added(t)
             n == LengthOf(t) - Missing(t)
         IN  /\ IsList(l, n) /\ n \in Nat \ {0}
             /\ Given[term].docs = l.docs
             /\ \A i \in 0..(n - 1) : Given[term].freqs[i] = l.freqs[i]
             /\ SizeOf(l.docs) = n /\ IsAscending(l.docs, n, num_docs)
<1> DEFINE l == Added(t)
           n == LengthOf(t) - Missing(t)
<1>1. IsList(l, n) /\ there(t) = 0..(n - 1)
  BY AddedIsList DEF IInv
<1>2. Given[term] = AsRead(t)
  BY GivenIs DEF IInv
<1>3. n \in Nat \ {0} /\ SizeOf(l.docs) = n /\ IsAscending(l.docs, n, num_docs)
  <2> HIDE DEF l, n
  <2> QED
    BY <1>1, ListSums
<1>4. Given[term].docs = l.docs
  BY <1>2 DEF Added
<1>5. \A i \in 0..(n - 1) : Given[term].freqs[i] = l.freqs[i]
  <2> HIDE DEF n
  <2> QED
    BY <1>1, <1>2 DEF Added, AsRead
<1> QED
  BY <1>1, <1>3, <1>4, <1>5

\* Where a cursor arrives, the place of the list is right again.
LEMMA Arrives ==
  ASSUME NEW l, NEW n, NEW ls, NEW de, NEW fe, NEW p, NEW v, NEW fr,
         CursorOK(l, n, ls, de, fe, p, v, fr),
         NEW c, NEW q, InPlace(ls.docs, c, q)
  PROVE  /\ CursorOK(l, n, ls, c, fe, c.position, ValueOf(ls.docs, c), NoFreq)
         /\ c.position = q
         /\ ValueOf(ls.docs, c) = ValueIn(l.docs, num_docs, q)
<1>1. Opened(ls.docs, l.docs, n, num_docs) /\ ~ls.docs.shifted
  BY DEF CursorOK
<1>2. c.position = q /\ ValueOf(ls.docs, c) = ValueIn(l.docs, num_docs, q)
  BY <1>1, ValueInPlace
<1> QED
  BY <1>2 DEF CursorOK

\* A step of the cursor over the documents that ends at the position p.
Landed(p) ==
  /\ IsOpen /\ IsOpen'
  /\ UNCHANGED written
  /\ m_cur_pos' = p
  /\ m_cur_docid' = ValueIn(Given[term].docs, num_docs, p)

LEMMA Lands ==
  ASSUME IInv, IsOpen, NEW c, NEW p, InPlace(list.docs, c, p),
         Arrive(list.docs, c), UNCHANGED <<written, list, freqs_enum>>
  PROVE  IInv' /\ Landed(p)
<1>1. PICK t \in readable :
        /\ Cardinality(Lower(readable, t)) = term - 1
        /\ CursorOK(Added(t), LengthOf(t) - Missing(t), list, docs_enum, freqs_enum,
                    m_cur_pos, m_cur_docid, freq)
  BY DEF IInv, OpenOK
<1>2. /\ CursorOK(Added(t), LengthOf(t) - Missing(t), list, c, freqs_enum,
                  c.position, ValueOf(list.docs, c), NoFreq)
      /\ c.position = p /\ ValueOf(list.docs, c) = ValueIn(Added(t).docs, num_docs, p)
  BY <1>1, Arrives
<1>3. /\ docs_enum' = c /\ m_cur_pos' = c.position
      /\ m_cur_docid' = ValueOf(list.docs, c) /\ freq' = NoFreq
  BY DEF Arrive
<1>4. /\ UNCHANGED <<input, term>>
      /\ input' \in Inputs /\ term' \in 1..Cardinality(readable)'
      /\ FilesOK' /\ ListsOK'
  BY WrittenStays
<1>5. CursorOK(Added(t), LengthOf(t) - Missing(t), list', docs_enum', freqs_enum',
               m_cur_pos', m_cur_docid', freq')
  BY <1>2, <1>3
<1>6. OpenOK'
  BY <1>1, <1>4, <1>5, CursorStays DEF IsOpen
<1>7. Given[term].docs = Added(t).docs
  BY <1>1, OpenedIs
<1>8. Landed(p)
  BY <1>2, <1>3, <1>7 DEF Landed, IsOpen
<1> QED
  BY <1>4, <1>6, <1>8 DEF IInv

\* The documents of the opened list, for the steps of its cursor.
LEMMA Opening ==
  ASSUME IInv, IsOpen
  PROVE  LET docs == Given[term].docs
         IN  /\ Opened(list.docs, docs, size, num_docs) /\ ~list.docs.shifted
             /\ InPlace(list.docs, docs_enum, m_cur_pos)
             /\ m_cur_pos \in 0..size /\ size \in Nat \ {0}
             /\ SizeOf(docs) = size /\ IsAscending(docs, size, num_docs)
             /\ m_cur_docid = ValueIn(docs, num_docs, m_cur_pos)
             /\ linear_scan_threshold \in Nat
<1>1. PICK t \in readable :
        /\ Cardinality(Lower(readable, t)) = term - 1
        /\ CursorOK(Added(t), LengthOf(t) - Missing(t), list, docs_enum, freqs_enum,
                    m_cur_pos, m_cur_docid, freq)
  BY DEF IInv, OpenOK
<1>2. /\ LengthOf(t) - Missing(t) \in Nat \ {0}
      /\ Given[term].docs = Added(t).docs
      /\ SizeOf(Added(t).docs) = LengthOf(t) - Missing(t)
      /\ IsAscending(Added(t).docs, LengthOf(t) - Missing(t), num_docs)
  BY <1>1, OpenedIs
<1>3. size = LengthOf(t) - Missing(t)
  BY <1>1 DEF CursorOK, Opened, size
<1>4. m_cur_pos \in 0..size
  BY <1>1 DEF CursorOK, InPlace, size
<1>5. linear_scan_threshold \in Nat
  BY FreqIndexAssumption DEF FreqIndexAssumption
<1> QED
  BY <1>1, <1>2, <1>3, <1>4, <1>5 DEF CursorOK

\* Every step of the cursor leads where it leads on the documents themselves.
LEMMA CursorSteps ==
  ASSUME IInv, IsOpen
  PROVE  /\ reset => IInv' /\ Landed(0)
         /\ \A p \in 0..size : move(p) => IInv' /\ Landed(p)
         /\ \A b \in 0..num_docs :
              next_geq(b) => IInv' /\ Landed(Landing(Given[term].docs, num_docs, m_cur_pos, b))
         /\ next => IInv' /\ Landed(m_cur_pos + 1)
<1> DEFINE docs == Given[term].docs
<1>1. /\ Opened(list.docs, docs, size, num_docs) /\ ~list.docs.shifted
      /\ InPlace(list.docs, docs_enum, m_cur_pos)
      /\ m_cur_pos \in 0..size /\ size \in Nat \ {0}
      /\ SizeOf(docs) = size /\ IsAscending(docs, size, num_docs)
      /\ linear_scan_threshold \in Nat
  BY Opening
<1> HIDE DEF docs
<1>2. ASSUME reset PROVE IInv' /\ Landed(0)
  <2>1. 0 \in 0..size
    BY <1>1
  <2>2. InPlace(list.docs, Move(list.docs, docs_enum, 0), 0)
    BY <1>1, <2>1, MoveInPlace
  <2> QED
    BY <1>2, <2>2, Lands DEF reset
<1>3. ASSUME NEW p \in 0..size, move(p) PROVE IInv' /\ Landed(p)
  <2>1. InPlace(list.docs, Move(list.docs, docs_enum, p), p)
    BY <1>1, MoveInPlace
  <2> QED
    BY <1>3, <2>1, Lands DEF move
<1>4. ASSUME NEW b \in 0..num_docs, next_geq(b)
      PROVE  IInv' /\ Landed(Landing(docs, num_docs, m_cur_pos, b))
  <2>1. InPlace(list.docs, NextGeq(list.docs, docs_enum, b), FirstAtLeast(docs, b))
    BY <1>1, NextGeqInPlace
  <2>2. Landing(docs, num_docs, m_cur_pos, b) = FirstAtLeast(docs, b)
    <3>1. /\ DOMAIN docs = 0..(size - 1) /\ num_docs \in Int /\ b \in Int /\ size \in Nat
          /\ \A i \in 0..(size - 1) : docs[i] \in Int /\ docs[i] < num_docs
          /\ \A i, j \in 0..(size - 1) : i < j => docs[i] < docs[j]
      BY <1>1, AscendingIs
    <3> QED
      BY <1>1, <3>1, LandingIsFirst
  <2> QED
    BY <1>4, <2>1, <2>2, Lands DEF next_geq
<1>5. ASSUME next PROVE IInv' /\ Landed(m_cur_pos + 1)
  <2>1. m_cur_pos < size
    BY <1>5 DEF next
  <2>2. InPlace(list.docs, Next(list.docs, docs_enum), m_cur_pos + 1)
    BY <1>1, <2>1, NextInPlace
  <2> QED
    BY <1>5, <2>2, Lands DEF next
<1> QED
  BY <1>2, <1>3, <1>4, <1>5 DEF docs

\* The endpoints lead to the chunk of the list, and its header to its length.
LEMMA OpenSteps ==
  ASSUME IInv, Open
  PROVE  /\ IInv'
         /\ UNCHANGED <<written, call>> /\ ~IsOpen
         /\ m_cur_pos' = 0 /\ m_cur_docid' = Given[term].docs[0]
<1> DEFINE docs == get(docs_sequences, term - 1)
           freqs == get(freqs_sequences, term - 1)
           length == IF docs.occurrences > 1 THEN docs.n ELSE 1
           c == Move(list'.docs, Start(list'.docs), 0)
<1>1. /\ term <= Len(docs_sequences.chunks) /\ UNCHANGED <<written, call>> /\ ~IsOpen
      /\ list' = [docs |-> open(FALSE, docs.sequence, num_docs, length),
                  freqs |-> open(TRUE, freqs.sequence, docs.occurrences + 1, length)]
      /\ docs_enum' = c /\ m_cur_pos' = c.position
      /\ m_cur_docid' = ValueOf(list'.docs, c) /\ freq' = NoFreq
      /\ freqs_enum' = positive_start(list'.freqs)
  BY DEF Open, Arrive, IsOpen
<1>2. Len(docs_sequences.chunks) \in Nat
  BY DEF IInv, ListsOK, HaveLists, IsCollection
<1>3. /\ term \in 1..Len(docs_sequences.chunks) /\ term - 1 + 1 = term
      /\ term - 1 \in 0..(Len(docs_sequences.chunks) - 1)
      /\ term - 1 \in 0..(Len(freqs_sequences.chunks) - 1)
      /\ IsCollection(docs_sequences) /\ IsCollection(freqs_sequences)
  <2>1. term \in 1..Cardinality(readable) /\ Cardinality(readable) \in Nat
    BY ReadableIs DEF IInv
  <2>2. /\ IsCollection(docs_sequences) /\ IsCollection(freqs_sequences)
        /\ Len(docs_sequences.chunks) = Len(freqs_sequences.chunks)
    BY DEF IInv, ListsOK, HaveLists
  <2>3. /\ term \in 1..Len(docs_sequences.chunks) /\ term - 1 + 1 = term
        /\ term - 1 \in 0..(Len(docs_sequences.chunks) - 1)
    BY <1>1, <1>2, <2>1
  <2> QED
    BY <2>2, <2>3
<1>4. docs = docs_sequences.chunks[term] /\ freqs = freqs_sequences.chunks[term]
  BY <1>3, CollectionGets
<1>5. PICK t \in readable : /\ Cardinality(Lower(readable, t)) = term - 1
                            /\ docs = docs_bits(Added(t))
                            /\ freqs = freqs_bits(Added(t))
  BY <1>3, <1>4 DEF IInv, ListsOK, HaveLists
<1> DEFINE l == Added(t)
           n == LengthOf(t) - Missing(t)
<1>6. /\ IsList(l, n) /\ n \in Nat \ {0} /\ Given[term].docs = l.docs
      /\ SizeOf(l.docs) = n
  BY <1>5, OpenedIs
<1>7. RatesOK /\ linear_scan_threshold \in Nat
  BY FreqIndexAssumption DEF FreqIndexAssumption, RatesOK
<1> HIDE DEF l, n
<1>8. docs = docs_bits(l) /\ freqs = freqs_bits(l)
  BY <1>5 DEF l
<1>9. docs.occurrences = Occurrences(l)
  BY <1>8 DEF docs_bits
<1>10. /\ Opened(list'.docs, l.docs, n, num_docs) /\ ~list'.docs.shifted
       /\ Opened(list'.freqs, SumsOf(l), n, Occurrences(l) + 1)
  <2>1. LET d == open(FALSE, docs.sequence, num_docs, length)
            f == open(TRUE, freqs.sequence, docs.occurrences + 1, length)
        IN  /\ Opened(d, l.docs, n, num_docs) /\ ~d.shifted
            /\ Opened(f, SumsOf(l), n, Occurrences(l) + 1)
    BY <1>6, <1>7, <1>8, ChunksOpen
  <2> HIDE DEF docs, freqs, length
  <2>2. /\ list'.docs = open(FALSE, docs.sequence, num_docs, length)
        /\ list'.freqs = open(TRUE, freqs.sequence, docs.occurrences + 1, length)
    BY <1>1
  <2> QED
    BY <2>1, <2>2
<1> HIDE DEF docs, freqs, length
<1>11. InPlace(list'.docs, c, 0)
  <2>1. InPlace(list'.docs, Start(list'.docs), n)
    BY <1>10, StartInPlace
  <2>2. 0 \in 0..n
    BY <1>6
  <2> QED
    BY <1>7, <1>10, <2>1, <2>2, MoveInPlace
<1> HIDE DEF c
<1>12. c.position = 0 /\ ValueOf(list'.docs, c) = ValueIn(l.docs, num_docs, 0)
  BY <1>10, <1>11, ValueInPlace
<1>13. ValueIn(l.docs, num_docs, 0) = l.docs[0]
  BY <1>6 DEF ValueIn
<1>14. PositiveInPlace(list'.freqs, SumsOf(l), positive_start(list'.freqs), n)
  BY <1>10, PositiveStarts
<1>15. CursorOK(l, n, list', docs_enum', freqs_enum', m_cur_pos', m_cur_docid', freq')
  BY <1>1, <1>6, <1>10, <1>11, <1>12, <1>14 DEF CursorOK
<1>16. /\ UNCHANGED <<input, term>>
       /\ input' \in Inputs /\ term' \in 1..Cardinality(readable)'
       /\ FilesOK' /\ ListsOK'
  BY <1>1, WrittenStays
<1>17. OpenOK'
  <2>1. CASE list' # NotOpen
    BY <1>5, <1>15, <1>16, <2>1, CursorStays DEF l, n
  <2>2. CASE list' = NotOpen
    BY <1>1, <1>12, <2>2 DEF OpenOK, IsOpen
  <2> QED
    BY <2>1, <2>2
<1> QED
  BY <1>1, <1>6, <1>12, <1>13, <1>16, <1>17 DEF IInv

\* What is asked for is the frequency at the place of the cursor, cached or not.
LEMMA FreqSteps ==
  ASSUME IInv, read_freq
  PROVE  /\ IInv'
         /\ UNCHANGED <<written, list, m_cur_pos, m_cur_docid, call>>
<1>1. /\ IsOpen /\ m_cur_pos < size
      /\ freqs_enum' = positive_move(list.freqs, freqs_enum, m_cur_pos)
      /\ freq' = positive_move(list.freqs, freqs_enum, m_cur_pos).answer
      /\ UNCHANGED <<written, list, docs_enum, m_cur_pos, m_cur_docid, call>>
  BY DEF read_freq
<1>2. PICK t \in readable :
        /\ Cardinality(Lower(readable, t)) = term - 1
        /\ CursorOK(Added(t), LengthOf(t) - Missing(t), list, docs_enum, freqs_enum,
                    m_cur_pos, m_cur_docid, freq)
  BY <1>1 DEF IInv, OpenOK
<1> DEFINE l == Added(t)
           n == LengthOf(t) - Missing(t)
           p == m_cur_pos
           fe == positive_move(list.freqs, freqs_enum, p)
<1> HIDE DEF l, n
<1>3. CursorOK(l, n, list, docs_enum, freqs_enum, p, m_cur_docid, freq)
  BY <1>2 DEF l, n
<1>4. /\ IsList(l, n) /\ Opened(list.docs, l.docs, n, num_docs)
      /\ Opened(list.freqs, SumsOf(l), n, Occurrences(l) + 1)
      /\ InPlace(list.docs, docs_enum, p)
  BY <1>3 DEF CursorOK
<1>5. PICK q : PositiveInPlace(list.freqs, SumsOf(l), freqs_enum, q)
  BY <1>3 DEF CursorOK
<1>6. p \in 0..(n - 1) /\ n \in Nat /\ p < n /\ linear_scan_threshold \in Nat
  <2>1. size = n /\ p \in 0..n
    BY <1>4 DEF Opened, InPlace, size
  <2>2. n \in Nat
    BY <1>4 DEF IsList
  <2>3. linear_scan_threshold \in Nat
    BY FreqIndexAssumption DEF FreqIndexAssumption
  <2> QED
    BY <1>1, <2>1, <2>2, <2>3
<1> HIDE DEF p, fe
<1>7. /\ PositiveInPlace(list.freqs, SumsOf(l), fe, p)
      /\ fe.answer = IF p = 0 THEN SumsOf(l)[0] ELSE SumsOf(l)[p] - SumsOf(l)[p - 1]
  BY <1>4, <1>5, <1>6, PositiveMoves DEF fe
<1>8. fe.answer = l.freqs[p]
  <2>1. /\ SumsOf(l)[0] = l.freqs[0]
        /\ \A i \in 1..(n - 1) : SumsOf(l)[i] = SumsOf(l)[i - 1] + l.freqs[i]
        /\ \A i \in 0..(n - 1) : l.freqs[i] \in Nat
        /\ IsAscending(SumsOf(l), n, Occurrences(l) + 1)
    BY <1>4, ListSums
  <2>2. CASE p = 0
    BY <1>7, <2>1, <2>2
  <2>3. CASE p # 0
    <3> DEFINE x == SumsOf(l)[p]
               y == SumsOf(l)[p - 1]
               z == l.freqs[p]
    <3>1. p \in 1..(n - 1) /\ p - 1 \in 0..(n - 1)
      BY <1>6, <2>3
    <3>2. x = y + z /\ y \in Nat /\ z \in Nat /\ fe.answer = x - y
      BY <1>6, <1>7, <2>1, <2>3, <3>1 DEF IsAscending
    <3> HIDE DEF x, y, z
    <3>3. fe.answer = z
      BY <3>2
    <3> QED
      BY <3>3 DEF z
  <2> QED
    BY <2>2, <2>3
<1>9. CursorOK(l, n, list, docs_enum, fe, p, m_cur_docid, fe.answer)
  BY <1>3, <1>6, <1>7, <1>8 DEF CursorOK
<1>10. CursorOK(l, n, list', docs_enum', freqs_enum', m_cur_pos', m_cur_docid', freq')
  BY <1>1, <1>9 DEF fe, p
<1>11. /\ UNCHANGED <<input, term>>
       /\ input' \in Inputs /\ term' \in 1..Cardinality(readable)'
       /\ FilesOK' /\ ListsOK'
  BY <1>1, WrittenStays
<1>12. OpenOK'
  BY <1>1, <1>2, <1>10, <1>11, CursorStays DEF IsOpen, l, n
<1> QED
  BY <1>1, <1>11, <1>12 DEF IInv

\* The invariant holds wherever the index is built and walked.
LEMMA StepInv == IInv /\ [Step]_vars => IInv'
<1> SUFFICES ASSUME IInv, [Step]_vars PROVE IInv'
  OBVIOUS
<1>1. CASE add_posting_list
  BY <1>1, AddInv
<1>9. CASE commit
  BY <1>9, CommitInv
<1>10. CASE build
  BY <1>10, BuildInv
<1>2. CASE Open
  BY <1>2, OpenSteps
<1>3. CASE reset
  BY <1>3, CursorSteps DEF reset
<1>4. ASSUME IsOpen, NEW p \in 0..size, move(p) PROVE IInv'
  BY <1>4, CursorSteps
<1>5. ASSUME IsOpen, NEW b \in 0..num_docs, next_geq(b) PROVE IInv'
  BY <1>5, CursorSteps
<1>6. CASE next
  BY <1>6, CursorSteps DEF next
<1>7. CASE read_freq
  BY <1>7, FreqSteps
<1>8. CASE UNCHANGED vars
  <2>1. UNCHANGED written /\ UNCHANGED <<input, term, cursor>>
    BY <1>8 DEF vars, written
  <2> QED
    BY <2>1, WrittenStays, CursorKept DEF IInv
<1> QED
  BY <1>1, <1>2, <1>3, <1>4, <1>5, <1>6, <1>7, <1>8, <1>9, <1>10 DEF Step

-----------------------------------------------------------------------------
(* Theorems *)

\* While the index is built the iterators over the two files are on the same list
\* and the collections and the jobs have those before it; an opened list and its cursors are
\* those of the list that was given as the term-th.
THEOREM Invariance == Spec => []IInv
<1>1. Init => IInv
  BY InitInv
<1>2. IInv /\ [Step]_vars => IInv'
  BY StepInv
<1> QED
  BY <1>1, <1>2, PTL DEF Spec

\* Wherever the cursor was and whatever was asked before, freq() answers with the
\* frequency of the document it is on, as it was in the input.
THEOREM FreqCorrect == Spec => []FreqIsOfPosition
<1>1. ASSUME IInv PROVE FreqIsOfPosition
  <2> SUFFICES ASSUME freq # NoFreq PROVE freq = Given[term].freqs[m_cur_pos]
    BY DEF FreqIsOfPosition
  <2>1. PICK t \in readable :
          /\ Cardinality(Lower(readable, t)) = term - 1
          /\ CursorOK(Added(t), LengthOf(t) - Missing(t), list, docs_enum, freqs_enum,
                      m_cur_pos, m_cur_docid, freq)
    BY <1>1 DEF IInv, OpenOK
  <2>2. m_cur_pos < LengthOf(t) - Missing(t) /\ freq = Added(t).freqs[m_cur_pos]
    BY <2>1 DEF CursorOK
  <2>3. /\ \A i \in 0..(LengthOf(t) - Missing(t) - 1) : Given[term].freqs[i] = Added(t).freqs[i]
        /\ LengthOf(t) - Missing(t) \in Nat
    BY <1>1, <2>1, OpenedIs
  <2>4. m_cur_pos \in 0..list.docs.n /\ list.docs.n = LengthOf(t) - Missing(t)
    BY <2>1 DEF CursorOK, InPlace, Opened
  <2>5. m_cur_pos \in 0..(LengthOf(t) - Missing(t) - 1)
    <3> DEFINE n == LengthOf(t) - Missing(t)
    <3>1. n \in Nat /\ m_cur_pos < n /\ m_cur_pos \in 0..n
      BY <2>2, <2>3, <2>4
    <3> HIDE DEF n
    <3>2. m_cur_pos \in 0..(n - 1)
      BY <3>1
    <3> QED
      BY <3>2 DEF n
  <2> QED
    BY <2>2, <2>3, <2>5
<1> QED
  BY <1>1, Invariance, PTL

\* prev_value() is the document before the cursor in each form of sequence.
THEOREM PrevValueCorrect == Spec => []PrevValueIsPredecessor
<1>1. ASSUME IInv PROVE PrevValueIsPredecessor
  <2> SUFFICES ASSUME IsOpen
               PROVE  prev_value(list.docs, docs_enum)
                        = ValueBefore(Given[term].docs, m_cur_pos)
    BY DEF PrevValueIsPredecessor
  <2> DEFINE docs == Given[term].docs
  <2>1. /\ Opened(list.docs, docs, size, num_docs)
        /\ InPlace(list.docs, docs_enum, m_cur_pos)
    BY <1>1, Opening
  <2> HIDE DEF docs
  <2>2. prev_value(list.docs, docs_enum) = ValueBefore(docs, m_cur_pos)
    BY <2>1, PrevInPlace
  <2> QED
    BY <2>2 DEF docs
<1> QED
  BY <1>1, Invariance, PTL

\* The index that was built has the first lists of those that could be read, in the
\* order of the input, and under its number the documents of each; the lists that
\* it lacks are the last ones, and they are those that complete() has left in the
\* threads: none is missing between, and none at all where none was left.
IndexIsOfInput ==
  built =>
    /\ Len(docs_sequences.chunks) + Len(jobs) = Cardinality(readable)
    /\ \A k \in 1..Len(docs_sequences.chunks) :
         get(docs_sequences, k - 1).sequence = write(FALSE, Given[k].docs, num_docs)
    /\ \A k \in 1..Len(jobs) :
         jobs[k].docs = Given[Len(docs_sequences.chunks) + k].docs

\* Neither the empty lists nor an end that is missing nor the way of the lists
\* through the queue shift the lists behind them.
THEOREM IndexCorrect == Spec => []IndexIsOfInput
<1>1. ASSUME IInv PROVE IndexIsOfInput
  <2> DEFINE m == Len(docs_sequences.chunks)
             n == Cardinality(readable)
  <2> SUFFICES ASSUME built
               PROVE  /\ m + Len(jobs) = n
                      /\ \A k \in 1..m :
                           get(docs_sequences, k - 1).sequence
                             = write(FALSE, Given[k].docs, num_docs)
                      /\ \A k \in 1..Len(jobs) : jobs[k].docs = Given[m + k].docs
    BY DEF IndexIsOfInput
  <2>1. m + Len(jobs) = n
    BY <1>1 DEF IInv, FilesOK, Progress, OnList, Taken
  <2>2. /\ HaveLists(docs_sequences, freqs_sequences) /\ HaveJobs(jobs, m)
        /\ IsCollection(docs_sequences)
    BY <1>1 DEF IInv, ListsOK, HaveLists
  <2>3. m \in Nat /\ Len(jobs) \in Nat /\ n \in Nat
    <3>1. m \in Nat
      BY <2>2 DEF IsCollection
    <3>2. Len(jobs) \in Nat
      BY <2>2 DEF HaveJobs
    <3>3. n \in Nat
      BY <1>1, ReadableIs DEF IInv
    <3> QED
      BY <3>1, <3>2, <3>3
  <2>4. ASSUME NEW k \in 1..n, NEW t \in readable, Cardinality(Lower(readable, t)) = k - 1
        PROVE  Given[k].docs = Added(t).docs
    <3>1. Given[k] = AsRead(t)
      BY <1>1, <2>4, GivenIs DEF IInv
    <3> QED
      BY <3>1 DEF Added
  <2>5. ASSUME NEW k \in 1..m
        PROVE  get(docs_sequences, k - 1).sequence = write(FALSE, Given[k].docs, num_docs)
    <3>1. k - 1 + 1 = k /\ k - 1 \in 0..(m - 1) /\ k \in 1..n
      BY <2>1, <2>3
    <3>2. get(docs_sequences, k - 1) = docs_sequences.chunks[k]
      BY <2>2, <3>1, CollectionGets
    <3>3. PICK t \in readable : /\ Cardinality(Lower(readable, t)) = k - 1
                                /\ docs_sequences.chunks[k] = docs_bits(Added(t))
      BY <2>2 DEF HaveLists
    <3>4. Given[k].docs = Added(t).docs
      BY <2>4, <3>1, <3>3
    <3>5. \A l : docs_bits(l).sequence = write(FALSE, l.docs, num_docs)
      BY DEF docs_bits
    <3>6. docs_bits(Added(t)).sequence = write(FALSE, Given[k].docs, num_docs)
      BY <3>4, <3>5
    <3> QED
      BY <3>2, <3>3, <3>6
  <2>6. ASSUME NEW k \in 1..Len(jobs)
        PROVE  jobs[k].docs = Given[m + k].docs
    <3>1. PICK t \in readable : /\ Cardinality(Lower(readable, t)) = m + k - 1
                                /\ jobs[k] = Added(t)
      BY <2>2 DEF HaveJobs
    <3> HIDE DEF m, n
    <3>2. PICK x \in 1..n : x = m + k
      BY <2>1, <2>3
    <3>3. Cardinality(Lower(readable, t)) = x - 1
      BY <2>3, <3>1, <3>2
    <3>4. Given[x].docs = Added(t).docs
      BY <2>4, <3>3
    <3> QED
      BY <3>1, <3>2, <3>4
  <2> QED
    BY <2>1, <2>5, <2>6
<1> QED
  BY <1>1, Invariance, PTL

-----------------------------------------------------------------------------
(* The refinement *)

LEMMA AbstractOperators ==
  /\ Documents!size = SizeOf(Given[term].docs)
  /\ \A s, u, p : Documents!ValueIn(s, u, p) = ValueIn(s, u, p)
  /\ \A s, u, p, bound : Documents!Landing(s, u, p, bound) = Landing(s, u, p, bound)
<1>1. \A s : Documents!SizeOf(s) = SizeOf(s)
  BY DEF Documents!SizeOf, SizeOf, Documents!Cardinality, Cardinality
<1>2. \A s, u, p : Documents!ValueIn(s, u, p) = ValueIn(s, u, p)
  BY <1>1 DEF Documents!ValueIn, ValueIn
<1>3. \A s, bound : Documents!FirstAtLeast(s, bound) = FirstAtLeast(s, bound)
  BY <1>1 DEF Documents!FirstAtLeast, FirstAtLeast
<1>4. \A s, u, p, bound : Documents!Landing(s, u, p, bound) = Landing(s, u, p, bound)
  BY <1>2, <1>3 DEF Documents!Landing, Landing
<1> QED
  BY <1>1, <1>2, <1>4 DEF Documents!size

\* A given list stays what it was.
LEMMA GivenStays ==
  ASSUME UNCHANGED <<input, term>>
  PROVE  Given[term]' = Given[term]
<1>1. \A t : AsRead(t)' = AsRead(t)
  BY DEF AsRead, there
<1> QED
  BY <1>1, InputStays DEF Given

\* A list that was given has a document.
LEMMA GivenHasDocuments ==
  ASSUME IInv
  PROVE  SizeOf(Given[term].docs) \in Nat \ {0}
<1>1. term - 1 \in Nat /\ term - 1 < Cardinality(readable)
  <2>1. term \in 1..Cardinality(readable) /\ Cardinality(readable) \in Nat
    BY ReadableIs DEF IInv
  <2> QED
    BY <2>1
<1>2. PICK t \in readable : Cardinality(Lower(readable, t)) = term - 1
  BY <1>1, RankExists DEF IInv
<1> QED
  BY <1>2, OpenedIs

LEMMA LandsAbstractly ==
  ASSUME NEW p, Landed(p)
  PROVE  Documents!LandAt(p)
<1>1. UNCHANGED <<input, term>>
  BY DEF Landed, written
<1>2. Given[term]' = Given[term]
  BY <1>1, GivenStays
<1> QED
  BY <1>2, AbstractOperators DEF Landed, Documents!LandAt

LEMMA StepRefines ==
  ASSUME IInv, [Step]_vars
  PROVE  [Documents!Step]_(Documents!vars)
<1>1. ASSUME UNCHANGED <<written, list, m_cur_pos, m_cur_docid, call>>
      PROVE  UNCHANGED Documents!vars
  <2>1. Given[term]' = Given[term]
    BY <1>1, GivenStays DEF written
  <2>2. IsOpen' <=> IsOpen
    BY <1>1 DEF IsOpen
  <2> QED
    BY <1>1, <2>1, <2>2 DEF Documents!vars
<1>2. CASE add_posting_list \/ commit \/ build
  <2>1. UNCHANGED <<input, term, list, m_cur_pos, m_cur_docid, call>>
    BY <1>2 DEF add_posting_list, commit, build, cursor
  <2>2. Given[term]' = Given[term]
    BY <2>1, GivenStays
  <2>3. IsOpen' <=> IsOpen
    BY <2>1 DEF IsOpen
  <2> QED
    BY <2>1, <2>2, <2>3 DEF Documents!vars
<1>3. CASE Open
  <2>1. /\ UNCHANGED <<written, call>> /\ ~IsOpen
        /\ m_cur_pos' = 0 /\ m_cur_docid' = Given[term].docs[0]
    BY <1>3, OpenSteps
  <2>2. m_cur_pos = 0
    BY <2>1 DEF IInv, OpenOK
  <2>3. Given[term]' = Given[term]
    BY <2>1, GivenStays DEF written
  <2> QED
    BY <2>1, <2>2, <2>3 DEF Documents!vars
<1>4. ASSUME IsOpen PROVE Documents!size = size /\ size \in Nat
  BY <1>4, Opening, AbstractOperators
<1>5. ASSUME IsOpen, NEW p \in 0..size, Landed(p), call' = <<"move", p>>
      PROVE  Documents!Step
  <2>1. Documents!Move(p) /\ p \in 0..Documents!size
    BY <1>4, <1>5, LandsAbstractly DEF Documents!Move
  <2> QED
    BY <2>1 DEF Documents!Step
<1>6. CASE reset
  <2>1. IsOpen /\ Landed(0) /\ call' = <<"move", 0>>
    BY <1>6, CursorSteps DEF reset
  <2>2. 0 \in 0..size
    BY <1>4, <2>1
  <2> QED
    BY <1>5, <2>1, <2>2
<1>7. ASSUME IsOpen, NEW p \in 0..size, move(p) PROVE Documents!Step
  <2>1. Landed(p) /\ call' = <<"move", p>>
    BY <1>7, CursorSteps DEF move
  <2> QED
    BY <1>5, <1>7, <2>1
<1>8. ASSUME IsOpen, NEW b \in 0..num_docs, next_geq(b) PROVE Documents!Step
  <2>1. /\ Landed(Landing(Given[term].docs, num_docs, m_cur_pos, b))
        /\ call' = <<"next_geq", b>>
    BY <1>8, CursorSteps DEF next_geq
  <2>2. Documents!NextGeq(b)
    BY <2>1, LandsAbstractly, AbstractOperators DEF Documents!NextGeq
  <2>3. num_docs + 0 = num_docs
    BY FreqIndexAssumption DEF FreqIndexAssumption
  <2> QED
    BY <2>2, <2>3 DEF Documents!Step
<1>9. CASE next
  <2>1. /\ IsOpen /\ m_cur_pos < size /\ Landed(m_cur_pos + 1) /\ call' = <<"next", 0>>
    BY <1>9, CursorSteps DEF next
  <2>2. Documents!Next
    BY <1>4, <2>1, LandsAbstractly DEF Documents!Next
  <2> QED
    BY <2>2 DEF Documents!Step
<1>10. CASE read_freq
  BY <1>1, <1>10, FreqSteps
<1>11. CASE UNCHANGED vars
  BY <1>1, <1>11 DEF vars, cursor
<1> QED
  BY <1>2, <1>3, <1>6, <1>7, <1>8, <1>9, <1>10, <1>11 DEF Step

\* From the files of the collection to the answer of a call, through the choice of
\* the form, the header and the endpoints: a cursor over a list of the index is an
\* enumerator of the documents that the list was given with.
THEOREM Refinement == Spec => RefinesSequenceEnumerator
<1>1. Init => Documents!Init
  <2> SUFFICES ASSUME Init PROVE Documents!Init
    OBVIOUS
  <2>1. ~IsOpen /\ m_cur_pos = 0 /\ call = <<"new", 0>>
    BY DEF Init, IsOpen
  <2>2. SizeOf(Given[term].docs) \in Nat \ {0}
    BY InitInv, GivenHasDocuments
  <2>3. ValueIn(Given[term].docs, num_docs, 0) = Given[term].docs[0]
    BY <2>2 DEF ValueIn
  <2> QED
    BY <2>1, <2>3, AbstractOperators DEF Documents!Init
<1>2. IInv /\ [Step]_vars => [Documents!Step]_(Documents!vars)
  BY StepRefines
<1> QED
  BY <1>1, <1>2, Invariance, PTL
  DEF Spec, RefinesSequenceEnumerator, Documents!Spec
=============================================================================

----------------------- MODULE CompactEliasFanoProofs -----------------------
(***************************************************************************)
(* The enumerator of compact_elias_fano implements the abstract            *)
(* enumerator, its unary enumerator never loses the bit it is on and the   *)
(* sampled pointers lead to the bits they stand for: for every sorted      *)
(* sequence, every universe and every pair of sampling rates, while no     *)
(* lower bound is above the universe.                                      *)
(*                                                                         *)
(* The argument is about the layout.  High(i) is the i-th one and          *)
(* ascends; Zero(v) is the v-th zero, which follows the elements whose     *)
(* high half is below v.  So a walk over the ones or over the zeros finds  *)
(* them in order, from wherever it starts, and a sample is one of them.    *)
(***************************************************************************)
EXTENDS CompactEliasFano, SortedSequencesProofs

-----------------------------------------------------------------------------
(* The inductive invariant *)

SequenceOK ==
  /\ n \in Lengths /\ universe \in Universes
  /\ seq \in [0..(n - 1) -> 0..(universe - 1)]
  /\ \A i \in 1..(n - 1) : seq[i - 1] <= seq[i]
  /\ s0 \in Samplings /\ s1 \in Samplings

Walks == [pos : 0..(higher_bits_length - 1), used : BOOLEAN]

\* The walk that has just read the p-th one.
OnElement(p) == [pos |-> High(p), used |-> TRUE]

\* Past the end the unary enumerator may be anywhere: no call reads on from it.
CursorOK ==
  /\ position \in 0..n
  /\ value = ValueIn(seq, universe, position)
  /\ he \in Walks
  /\ position < n => he = OnElement(position)

IInv == SequenceOK /\ CursorOK

-----------------------------------------------------------------------------
(* Powers of two and shifts *)

\* What a shift to the right is.
LEMMA ShrIs ==
  ASSUME NEW x \in Nat, NEW k \in Nat
  PROVE  /\ Shr(x, k) \in Nat /\ x % 2^k \in 0..(2^k - 1)
         /\ Shr(x, k) * 2^k \in Nat
         /\ x = Shr(x, k) * 2^k + (x % 2^k)
         /\ (Shr(x, k) + 1) * 2^k = Shr(x, k) * 2^k + 2^k
<1>1. 2^k \in Nat \ {0}
  BY PowerOfTwo
<1> QED
  BY <1>1, Division DEF Shr

\* A shift keeps the order.
LEMMA ShrMonotone ==
  ASSUME NEW x \in Nat, NEW y \in Nat, NEW k \in Nat, x <= y
  PROVE  Shr(x, k) <= Shr(y, k)
<1>1. 2^k \in Nat \ {0}
  BY PowerOfTwo
<1> QED
  BY <1>1, DivisionMonotone DEF Shr

\* A bound on a shift is a bound on the number.
LEMMA ShrAtMost ==
  ASSUME NEW x \in Nat, NEW k \in Nat, NEW q \in Nat
  PROVE  /\ q <= Shr(x, k) <=> q * 2^k <= x
         /\ CeilShr(x, k) <= q <=> x <= q * 2^k
<1>1. 2^k \in Nat \ {0} /\ 2^k - 1 \in Nat
  BY PowerOfTwo
<1>2. q <= Shr(x, k) <=> q * 2^k <= x
  BY <1>1, DivisionAtLeast DEF Shr
<1>3. CeilShr(x, k) <= q <=> x <= q * 2^k
  <2> DEFINE s == 2^k
             y == x + s - 1
  <2>1. s \in Nat \ {0} /\ y \in Nat /\ q + 1 \in Nat
    BY <1>1
  <2>2. CeilShr(x, k) = y \div s /\ y \div s \in Nat
    BY <1>1, <2>1, Division DEF CeilShr, Shr
  <2>3. q + 1 <= y \div s <=> (q + 1) * s <= y
    BY <2>1, DivisionAtLeast
  <2>4. (q + 1) * s = q * s + s /\ q * s \in Nat
    BY <2>1
  <2>5. y = x + s - 1
    OBVIOUS
  <2> HIDE DEF s, y
  <2> DEFINE t == q * s
             c == y \div s
  <2>6. s \in Nat /\ t \in Nat /\ c \in Nat /\ (q + 1 <= c <=> t + s <= y)
    BY <2>1, <2>2, <2>3, <2>4
  <2> HIDE DEF t, c
  <2>7. c <= q <=> x <= t
    BY <2>5, <2>6
  <2> QED
    BY <2>2, <2>7 DEF t, c, s
<1> QED
  BY <1>2, <1>3

-----------------------------------------------------------------------------
(* The layout *)

Base == 2^lower_bits
HighPart(x) == Shr(x, lower_bits)
Top == HighPart(universe)

LEMMA Sizes ==
  ASSUME SequenceOK
  PROVE  /\ n \in Nat /\ n > 0 /\ universe \in Nat /\ universe > 0
         /\ s0 \in Nat /\ s1 \in Nat
         /\ \A i \in 0..(n - 1) : seq[i] \in Nat /\ seq[i] < universe
         /\ DOMAIN seq = 0..(n - 1)
         /\ SizeOf(seq) = n
<1>1. n \in Nat \ {0} /\ universe \in Nat \ {0} /\ s0 \in Nat /\ s1 \in Nat
  BY SizesAssumption DEF SequenceOK, SizesAssumption
<1>2. DOMAIN seq = 0..(n - 1) /\ \A i \in 0..(n - 1) : seq[i] \in 0..(universe - 1)
  BY DEF SequenceOK
<1>3. SizeOf(seq) = n
  BY DEF SizeOf, n
<1> QED
  BY <1>1, <1>2, <1>3

\* The exponent is one of those msb looks among.
LEMMA LowerBits ==
  ASSUME SequenceOK
  PROVE  lower_bits \in Nat /\ Base \in Nat \ {0}
<1>1. n \in Nat \ {0} /\ universe \in Nat
  BY Sizes
<1>2. ASSUME universe > n PROVE msb(universe \div n) \in Nat
  <2> DEFINE x == universe \div n
             S == {k \in 0..30 : 2^k <= x}
  <2>1. x \in Nat
    BY <1>1, Division
  <2>2. 1 * n <= universe
    BY <1>1, <1>2
  <2>3. 1 <= x
    BY <1>1, <2>2, DivisionAtLeast
  <2>4. 2^0 = 1
    OBVIOUS
  <2> HIDE DEF x
  <2>5. 0 \in S /\ S \subseteq 0..30
    BY <2>1, <2>3, <2>4
  <2>6. \E m \in S : \A y \in S : m >= y
    <3> HIDE DEF S
    <3> QED
      BY <2>5, GreatestElement
  <2>7. msb(x) = CHOOSE m \in S : \A y \in S : m >= y
    BY DEF msb, Max
  <2>8. msb(x) \in S
    BY <2>6, <2>7
  <2> QED
    BY <2>5, <2>8 DEF x
<1>3. lower_bits \in Nat
  BY <1>2 DEF lower_bits
<1> QED
  BY <1>3, PowerOfTwo DEF Base

\* What the high half of a number is, and of the elements.
LEMMA HighParts ==
  ASSUME SequenceOK
  PROVE  /\ \A x \in Nat : HighPart(x) \in Nat
         /\ \A x, y \in Nat : x <= y => HighPart(x) <= HighPart(y)
         /\ Top \in Nat
         /\ higher_bits_length = n + Top + 2 /\ higher_bits_length \in Nat
         /\ \A i \in 0..(n - 1) : /\ HighPart(seq[i]) \in Nat
                                  /\ HighPart(seq[i]) <= Top
                                  /\ High(i) = HighPart(seq[i]) + i + 1
                                  /\ High(i) \in Nat
                                  /\ High(i) \in 1..(higher_bits_length - 2)
<1>1. lower_bits \in Nat
  BY LowerBits
<1>2. \A x \in Nat : HighPart(x) \in Nat
  BY <1>1, ShrIs DEF HighPart
<1>3. \A x, y \in Nat : x <= y => HighPart(x) <= HighPart(y)
  BY <1>1, ShrMonotone DEF HighPart
<1>4. Top \in Nat
  BY <1>2, Sizes DEF Top
<1>5. higher_bits_length = n + Top + 2
  BY DEF higher_bits_length, Top, HighPart
<1>6. ASSUME NEW i \in 0..(n - 1)
      PROVE  /\ HighPart(seq[i]) \in Nat /\ HighPart(seq[i]) <= Top
             /\ High(i) = HighPart(seq[i]) + i + 1
  <2>1. seq[i] \in Nat /\ seq[i] <= universe /\ universe \in Nat
    BY Sizes
  <2>2. HighPart(seq[i]) \in Nat
    BY <1>2, <2>1
  <2>3. HighPart(seq[i]) <= Top
    BY <1>3, <2>1 DEF Top
  <2> QED
    BY <2>2, <2>3 DEF High, HighPart
<1>7. n \in Nat
  BY Sizes
<1>8. ASSUME NEW i \in 0..(n - 1)
      PROVE  High(i) \in Nat /\ High(i) \in 1..(higher_bits_length - 2)
  BY <1>4, <1>5, <1>6, <1>7
<1> QED
  BY <1>2, <1>3, <1>4, <1>5, <1>6, <1>7, <1>8

\* The sequence ascends from any position to any later one.
LEMMA Ascends ==
  ASSUME SequenceOK, NEW i \in 0..(n - 1), NEW j \in i..(n - 1)
  PROVE  seq[i] <= seq[j]
<1> DEFINE S == {k \in i..(n - 1) : seq[k] < seq[i]}
<1>1. n \in Nat /\ \A k \in 0..(n - 1) : seq[k] \in Nat
  BY Sizes
<1>2. SUFFICES ASSUME S # {} PROVE FALSE
  <2>1. j \notin S
    BY <1>2
  <2> QED
    BY <1>1, <2>1
<1>3. S \in SUBSET Nat
  BY <1>1
<1>4. PICK m \in S : \A e \in S : m <= e
  BY <1>2, <1>3, LeastElement
<1>5. m # i
  BY <1>1, <1>4
<1>6. m - 1 \in i..(n - 1) /\ m \in 1..(n - 1) /\ ~(m <= m - 1)
  BY <1>1, <1>4, <1>5
<1>7. m - 1 \notin S
  BY <1>4, <1>6
<1>8. seq[m - 1] <= seq[m] /\ seq[m] < seq[i]
  BY <1>4, <1>6 DEF SequenceOK
<1>9. seq[m - 1] \in Nat /\ seq[m] \in Nat /\ seq[i] \in Nat
  BY <1>1, <1>6
<1> QED
  BY <1>6, <1>7, <1>8, <1>9

\* So do the high halves, and the ones ascend strictly.
LEMMA HighAscends ==
  ASSUME SequenceOK
  PROVE  /\ \A i, j \in 0..(n - 1) :
              i <= j => HighPart(seq[i]) <= HighPart(seq[j])
         /\ \A i, j \in 0..(n - 1) : i < j => High(i) < High(j)
<1>1. n \in Nat
  BY Sizes
<1>2. ASSUME NEW i \in 0..(n - 1), NEW j \in 0..(n - 1), i <= j
      PROVE  HighPart(seq[i]) <= HighPart(seq[j])
  <2>1. j \in i..(n - 1)
    BY <1>1, <1>2
  <2>2. seq[i] <= seq[j] /\ seq[i] \in Nat /\ seq[j] \in Nat
    BY <2>1, Ascends, Sizes
  <2> QED
    BY <2>2, HighParts
<1>3. ASSUME NEW i \in 0..(n - 1), NEW j \in 0..(n - 1), i < j
      PROVE  High(i) < High(j)
  <2>1. HighPart(seq[i]) <= HighPart(seq[j])
    BY <1>2, <1>3
  <2>2. /\ HighPart(seq[i]) \in Nat /\ HighPart(seq[j]) \in Nat
        /\ High(i) = HighPart(seq[i]) + i + 1
        /\ High(j) = HighPart(seq[j]) + j + 1
    BY HighParts
  <2> QED
    BY <1>3, <2>1, <2>2
<1> QED
  BY <1>2, <1>3

\* An element is read back from its one and its low half.
LEMMA DecodeHigh ==
  ASSUME SequenceOK, NEW i \in 0..(n - 1)
  PROVE  Decode(High(i), i) = seq[i]
<1>1. seq[i] \in Nat /\ lower_bits \in Nat
  BY Sizes, LowerBits
<1>2. seq[i] = HighPart(seq[i]) * Base + Low(i)
  BY <1>1, ShrIs DEF HighPart, Base, Low
<1>3. HighPart(seq[i]) \in Nat /\ High(i) = HighPart(seq[i]) + i + 1
  BY HighParts
<1> DEFINE h == HighPart(seq[i])
           g == High(i)
<1> HIDE DEF h, g
<1>4. g - i - 1 = h
  BY <1>3 DEF h, g
<1> QED
  BY <1>2, <1>4 DEF Decode, Base, h, g

-----------------------------------------------------------------------------
(* The ones *)

\* Where a set of numbers is listed in ascending order, Nth is the list's element.
LEMMA NthOfAscending ==
  ASSUME NEW a \in Int, NEW m \in Int, NEW f \in [a..m -> Int],
         \A i, j \in a..m : i < j => f[i] < f[j],
         NEW k \in Nat, a + k <= m
  PROVE  Nth({f[j] : j \in a..m}, k) = f[a + k]
<1> DEFINE S == Listed(f, a, m)
<1>0. IsRow(f, a, m)
  BY DEF IsRow
<1>1. /\ f[a + k] \in S /\ Cardinality(Lower(S, f[a + k])) = k
      /\ \A x \in S : Cardinality(Lower(S, x)) = k => x = f[a + k]
  BY <1>0, RankInAscending
<1> HIDE DEF S
<1>2. Nth(S, k) = CHOOSE p \in S : Cardinality(Lower(S, p)) = k
  BY DEF Nth, Lower
<1>3. Nth(S, k) = f[a + k]
  BY <1>1, <1>2
<1> QED
  BY <1>3 DEF S, Listed

\* The ones from the p-th on.
OnesAfter(p) == {High(j) : j \in p..(n - 1)}

LEMMA NthOne ==
  ASSUME SequenceOK, NEW p \in Nat, NEW k \in Nat, p + k < n
  PROVE  Nth(OnesAfter(p), k) = High(p + k)
<1> DEFINE f == [j \in p..(n - 1) |-> High(j)]
<1>1. n \in Nat /\ n - 1 \in Int /\ p + k <= n - 1 /\ p \in Int
  BY Sizes
<1>2. f \in [p..(n - 1) -> Int]
  <2>1. \A j \in p..(n - 1) : j \in 0..(n - 1)
    BY <1>1
  <2> QED
    BY <2>1, HighParts
<1>3. \A i, j \in p..(n - 1) : i < j => f[i] < f[j]
  <2>1. \A j \in p..(n - 1) : j \in 0..(n - 1)
    BY <1>1
  <2> QED
    BY <2>1, HighAscends
<1>4. {f[j] : j \in p..(n - 1)} = OnesAfter(p)
  BY DEF OnesAfter
<1>5. f[p + k] = High(p + k)
  BY <1>1
<1> HIDE DEF f
<1>6. Nth({f[j] : j \in p..(n - 1)}, k) = f[p + k]
  BY <1>1, <1>2, <1>3, NthOfAscending
<1> QED
  BY <1>4, <1>5, <1>6

\* A walk that reads the p-th element next.
ReadsFrom(h, p) == h \in Walks /\ OnesFrom(Ones, h) = OnesAfter(p)

\* A walk whose position separates the elements before the p-th from the others.
LEMMA ReadsFromIs ==
  ASSUME SequenceOK, NEW p \in 0..n, NEW h \in Walks,
         \A j \in 0..(n - 1) : j < p => High(j) < h.pos \/ (High(j) = h.pos /\ h.used),
         \A j \in 0..(n - 1) : p <= j => High(j) > h.pos \/ (High(j) = h.pos /\ ~h.used)
  PROVE  ReadsFrom(h, p)
<1>1. n \in Nat /\ Ones = {High(j) : j \in 0..(n - 1)}
  BY Sizes DEF Ones
<1>2. h.pos \in Int /\ \A j \in 0..(n - 1) : High(j) \in Int
  BY HighParts DEF Walks
<1>3. \A j \in 0..(n - 1) :
        (High(j) > h.pos \/ (High(j) = h.pos /\ ~h.used)) <=> j \in p..(n - 1)
  <2> SUFFICES ASSUME NEW j \in 0..(n - 1)
               PROVE  (High(j) > h.pos \/ (High(j) = h.pos /\ ~h.used)) <=> p <= j
    BY <1>1
  <2>1. p <= j \/ j < p
    BY <1>1
  <2> QED
    BY <1>2, <2>1
<1>4. \A j \in p..(n - 1) : j \in 0..(n - 1)
  BY <1>1
<1>5. OnesFrom(Ones, h) = OnesAfter(p)
  <2>1. \A x \in OnesFrom(Ones, h) : x \in OnesAfter(p)
    BY <1>1, <1>3 DEF OnesFrom, OnesAfter
  <2>2. \A x \in OnesAfter(p) : x \in OnesFrom(Ones, h)
    BY <1>1, <1>3, <1>4 DEF OnesFrom, OnesAfter
  <2> QED
    BY <2>1, <2>2
<1> QED
  BY <1>5 DEF ReadsFrom

LEMMA WalkAt ==
  ASSUME SequenceOK, NEW i \in 0..(n - 1)
  PROVE  /\ OnElement(i) \in Walks
         /\ ReadsFrom(OnElement(i), i + 1)
         /\ At(High(i)) \in Walks
         /\ ReadsFrom(At(High(i)), i)
         /\ ReadsFrom(At(0), 0)
<1>1. n \in Nat /\ n > 0
  BY Sizes
<1>2. /\ \A j \in 0..(n - 1) : High(j) \in Nat /\ High(j) > 0
      /\ High(i) \in 0..(higher_bits_length - 1)
      /\ 0 \in 0..(higher_bits_length - 1)
  BY <1>1, HighParts
<1>3. /\ \A j \in 0..(n - 1) : j < i => High(j) < High(i)
      /\ \A j \in 0..(n - 1) : i < j => High(i) < High(j)
  BY HighAscends
<1>4. OnElement(i) \in Walks /\ At(High(i)) \in Walks /\ At(0) \in Walks
  BY <1>2 DEF Walks, OnElement, At
<1>5. ReadsFrom(OnElement(i), i + 1)
  <2>1. OnElement(i).pos = High(i) /\ OnElement(i).used = TRUE
    BY DEF OnElement
  <2>2. i + 1 \in 0..n
    BY <1>1
  <2>3. \A j \in 0..(n - 1) : j < i + 1 => j < i \/ j = i
    OBVIOUS
  <2>4. \A j \in 0..(n - 1) : i + 1 <= j => i < j
    OBVIOUS
  <2> QED
    BY <1>3, <1>4, <2>1, <2>2, <2>3, <2>4, ReadsFromIs
<1>6. ReadsFrom(At(High(i)), i)
  <2>1. At(High(i)).pos = High(i) /\ At(High(i)).used = FALSE
    BY DEF At
  <2>2. i \in 0..n
    BY <1>1
  <2>3. \A j \in 0..(n - 1) : i <= j => i < j \/ j = i
    OBVIOUS
  <2> QED
    BY <1>3, <1>4, <2>1, <2>2, <2>3, ReadsFromIs
<1>7. ReadsFrom(At(0), 0)
  <2>1. At(0).pos = 0 /\ At(0).used = FALSE /\ 0 \in 0..n
    BY <1>1 DEF At
  <2>2. \A j \in 0..(n - 1) : ~(j < 0) /\ High(j) > 0
    BY <1>2
  <2> QED
    BY <1>4, <2>1, <2>2, ReadsFromIs
<1> QED
  BY <1>4, <1>5, <1>6, <1>7

\* Reading k elements leads to the last of them, skipping k to the one after.
LEMMA AdvanceReads ==
  ASSUME SequenceOK, NEW h, NEW p \in Nat, ReadsFrom(h, p),
         NEW k \in Nat, k > 0, p + k <= n
  PROVE  Advance(Ones, h, k) = OnElement(p + k - 1)
<1>1. n \in Nat /\ k - 1 \in Nat /\ p + (k - 1) < n /\ p + (k - 1) = p + k - 1
  BY Sizes
<1>2. Nth(OnesFrom(Ones, h), k - 1) = High(p + (k - 1))
  BY <1>1, NthOne DEF ReadsFrom
<1>3. Nth(OnesFrom(Ones, h), k - 1) = High(p + k - 1)
  BY <1>1, <1>2
<1>4. Advance(Ones, h, k) = [pos |-> Nth(OnesFrom(Ones, h), k - 1), used |-> TRUE]
  BY DEF Advance
<1> QED
  BY <1>3, <1>4, Zenon DEF OnElement

LEMMA SkipReads ==
  ASSUME SequenceOK, NEW h, NEW p \in Nat, ReadsFrom(h, p),
         NEW k \in Nat, p + k < n
  PROVE  skip(Ones, h, k) = At(High(p + k)) /\ ReadsFrom(skip(Ones, h, k), p + k)
<1>1. Nth(OnesFrom(Ones, h), k) = High(p + k)
  BY NthOne DEF ReadsFrom
<1>2. p + k \in 0..(n - 1)
  BY Sizes
<1> QED
  BY <1>1, <1>2, WalkAt DEF skip, At

-----------------------------------------------------------------------------
(* The zeros *)

\* How many elements have a high half below v.
Below(v) == FirstAtLeast([i \in 0..(n - 1) |-> HighPart(seq[i])], v)

\* The v-th zero of the vector: it follows those elements.
Zero(v) == v + Below(v)

\* Below(v) separates the elements by their high halves, and nothing else does.
LEMMA BelowIs ==
  ASSUME SequenceOK, NEW v \in Nat
  PROVE  /\ Below(v) \in 0..n
         /\ \A i \in 0..(n - 1) : i < Below(v) => HighPart(seq[i]) < v
         /\ \A i \in 0..(n - 1) : Below(v) <= i => HighPart(seq[i]) >= v
         /\ \A p \in 0..n :
              /\ \A i \in 0..(n - 1) : i < p => HighPart(seq[i]) < v
              /\ \A i \in 0..(n - 1) : p <= i => HighPart(seq[i]) >= v
              => Below(v) = p
<1> DEFINE s == [i \in 0..(n - 1) |-> HighPart(seq[i])]
           f == Below(v)
<1>1. /\ n \in Nat /\ DOMAIN s = 0..(n - 1)
      /\ \A i \in 0..(n - 1) : s[i] = HighPart(seq[i]) /\ s[i] \in Nat
  BY Sizes, HighParts
<1>2. \A i, j \in 0..(n - 1) : i <= j => s[i] <= s[j]
  BY <1>1, HighAscends
<1>3. f = FirstAtLeast(s, v)
  BY DEF Below
<1> HIDE DEF s, f
<1>4. f \in 0..n /\ (f = n \/ s[f] >= v) /\ \A q \in 0..(f - 1) : s[q] < v
  <2>1. v \in Int /\ \A i \in 0..(n - 1) : s[i] \in Int
    BY <1>1
  <2>2. /\ FirstAtLeast(s, v) \in 0..n
        /\ FirstAtLeast(s, v) = n \/ s[FirstAtLeast(s, v)] >= v
        /\ \A q \in 0..(FirstAtLeast(s, v) - 1) : s[q] < v
    BY <1>1, <2>1, FirstAtLeastFound
  <2> QED
    BY <1>3, <2>2
<1>5. \A i \in 0..(n - 1) : i < f => s[i] < v
  BY <1>1, <1>4
<1>6. ASSUME NEW i \in 0..(n - 1), f <= i PROVE s[i] >= v
  <2>1. f \in 0..(n - 1) /\ f # n
    BY <1>1, <1>4, <1>6
  <2>2. s[f] <= s[i] /\ s[f] >= v
    BY <1>2, <1>4, <1>6, <2>1
  <2> QED
    BY <1>1, <2>1, <2>2
<1>7. ASSUME NEW p \in 0..n,
             \A i \in 0..(n - 1) : i < p => s[i] < v,
             \A i \in 0..(n - 1) : p <= i => s[i] >= v
      PROVE  f = p
  <2>1. ~(f < p)
    <3>1. SUFFICES ASSUME f < p PROVE FALSE
      OBVIOUS
    <3>2. f \in 0..(n - 1)
      BY <1>1, <1>4, <3>1
    <3>3. s[f] < v
      BY <1>7, <3>1, <3>2
    <3>4. s[f] >= v
      BY <1>1, <1>4, <3>1, <3>2
    <3>5. s[f] \in Nat
      BY <1>1, <3>2
    <3> QED
      BY <3>3, <3>4, <3>5
  <2>2. ~(p < f)
    <3>1. SUFFICES ASSUME p < f PROVE FALSE
      OBVIOUS
    <3>2. p \in 0..(n - 1)
      BY <1>1, <1>4, <3>1
    <3>3. s[p] < v
      BY <1>5, <3>1, <3>2
    <3>4. s[p] >= v
      BY <1>1, <1>7, <3>2
    <3>5. s[p] \in Nat
      BY <1>1, <3>2
    <3> QED
      BY <3>3, <3>4, <3>5
  <2> QED
    BY <1>4, <2>1, <2>2
<1> QED
  BY <1>1, <1>4, <1>5, <1>6, <1>7 DEF f

\* The zeros ascend, stay in the vector and begin with the sentinel.
LEMMA Zeros ==
  ASSUME SequenceOK
  PROVE  /\ \A v \in Nat : Zero(v) \in Nat
         /\ \A v \in 0..(Top + 1) : Zero(v) \in 0..(higher_bits_length - 1)
         /\ \A v, w \in Nat : v < w => Zero(v) < Zero(w)
         /\ Zero(0) = 0
<1>0. n \in Nat /\ Top \in Nat /\ higher_bits_length = n + Top + 2
  BY Sizes, HighParts
<1>1. \A v \in Nat : Below(v) \in 0..n /\ Zero(v) \in Nat /\ Zero(v) = v + Below(v)
  <2> SUFFICES ASSUME NEW v \in Nat PROVE Below(v) \in 0..n /\ v + Below(v) \in Nat
    BY DEF Zero
  <2>1. Below(v) \in 0..n
    BY BelowIs
  <2> QED
    BY <1>0, <2>1
<1>2. \A v \in 0..(Top + 1) : Zero(v) \in 0..(higher_bits_length - 1)
  BY <1>0, <1>1
<1>3. ASSUME NEW v \in Nat, NEW w \in Nat, v < w PROVE Zero(v) < Zero(w)
  <2>1. Below(v) <= Below(w)
    <3>1. SUFFICES ASSUME Below(w) < Below(v) PROVE FALSE
      BY <1>0, <1>1
    <3>2. Below(w) \in 0..(n - 1)
      BY <1>0, <1>1, <3>1
    <3>3. HighPart(seq[Below(w)]) < v /\ HighPart(seq[Below(w)]) >= w
      <4> DEFINE i == Below(w)
      <4>1. HighPart(seq[i]) < v
        BY <3>1, <3>2, BelowIs
      <4>2. i <= i
        BY <3>2
      <4>3. HighPart(seq[i]) >= w
        BY <3>2, <4>2, BelowIs
      <4> QED
        BY <4>1, <4>3
    <3>4. HighPart(seq[Below(w)]) \in Nat
      BY <3>2, HighParts
    <3> QED
      BY <1>3, <3>3, <3>4
  <2> QED
    BY <1>0, <1>1, <1>3, <2>1
<1>4. Zero(0) = 0
  <2>1. \A i \in 0..(n - 1) : ~(i < 0) /\ HighPart(seq[i]) >= 0
    BY HighParts
  <2>2. 0 \in 0..n /\ 0 \in Nat
    BY <1>0
  <2>3. Below(0) = 0
    BY <2>1, <2>2, BelowIs
  <2> QED
    BY <2>3 DEF Zero
<1> QED
  BY <1>1, <1>2, <1>3, <1>4

\* Where the zeros lie among the ones.
LEMMA ZeroAmongOnes ==
  ASSUME SequenceOK, NEW v \in Nat, NEW i \in 0..(n - 1)
  PROVE  /\ i < Below(v) => High(i) < Zero(v) /\ HighPart(seq[i]) < v
         /\ Below(v) <= i => High(i) > Zero(v) /\ HighPart(seq[i]) >= v
<1>1. /\ n \in Nat /\ HighPart(seq[i]) \in Nat /\ Below(v) \in 0..n
      /\ High(i) = HighPart(seq[i]) + i + 1 /\ Zero(v) = v + Below(v)
  BY Sizes, HighParts, BelowIs DEF Zero
<1>2. i < Below(v) => HighPart(seq[i]) < v
  BY BelowIs
<1>3. Below(v) <= i => HighPart(seq[i]) >= v
  BY BelowIs
<1> QED
  BY <1>1, <1>2, <1>3

\* A bit that is not a one is a zero, and only such a bit is.
LEMMA ZerosAre ==
  ASSUME SequenceOK
  PROVE  /\ \A v \in Nat : Zero(v) \notin Ones
         /\ \A x \in 0..(higher_bits_length - 1) :
              x \notin Ones => \E v \in 0..(Top + 1) : x = Zero(v)
<1>0. n \in Nat /\ Top \in Nat /\ higher_bits_length = n + Top + 2
  BY Sizes, HighParts
<1>1. Ones = {High(j) : j \in 0..(n - 1)}
  BY Sizes DEF Ones
<1>2. ASSUME NEW v \in Nat, NEW i \in 0..(n - 1) PROVE Zero(v) # High(i)
  <2>1. Below(v) \in 0..n /\ Zero(v) \in Nat /\ High(i) \in Nat
    BY BelowIs, Zeros, HighParts
  <2>2. High(i) < Zero(v) \/ High(i) > Zero(v)
    BY <2>1, ZeroAmongOnes
  <2> QED
    BY <2>1, <2>2
<1>3. ASSUME NEW x \in 0..(higher_bits_length - 1), x \notin Ones
      PROVE  \E v \in 0..(Top + 1) : x = Zero(v)
  <2> DEFINE s == [i \in 0..(n - 1) |-> High(i)]
             c == FirstAtLeast(s, x)
             v == x - c
  <2>1. /\ DOMAIN s = 0..(n - 1) /\ x \in Int
        /\ \A i \in 0..(n - 1) : s[i] = High(i) /\ s[i] \in Int
    BY <1>0, HighParts
  <2> HIDE DEF s
  <2>2. c \in 0..n /\ (c = n \/ s[c] >= x) /\ \A q \in 0..(c - 1) : s[q] < x
    BY <1>0, <2>1, FirstAtLeastFound
  <2> HIDE DEF c
  <2>3. ASSUME NEW i \in 0..(n - 1), i < c
        PROVE  HighPart(seq[i]) < v /\ c <= x - 1
    <3>1. c - 1 \in 0..(n - 1) /\ c - 1 \in 0..(c - 1) /\ i <= c - 1
      BY <1>0, <2>2, <2>3
    <3>2. High(c - 1) < x
      BY <2>1, <2>2, <3>1
    <3>3. HighPart(seq[i]) <= HighPart(seq[c - 1])
      BY <3>1, HighAscends
    <3>4. /\ HighPart(seq[c - 1]) \in Nat /\ HighPart(seq[i]) \in Nat
          /\ High(c - 1) = HighPart(seq[c - 1]) + (c - 1) + 1
      BY <3>1, HighParts
    <3> DEFINE h == HighPart(seq[c - 1])
               g == HighPart(seq[i])
    <3> HIDE DEF h, g
    <3>5. h + (c - 1) + 1 < x /\ g <= h /\ h \in Nat /\ g \in Nat
      BY <3>2, <3>3, <3>4 DEF h, g
    <3>6. g < x - c /\ c <= x - 1
      BY <2>1, <2>2, <3>5
    <3> QED
      BY <3>6 DEF g
  <2>4. ASSUME NEW i \in 0..(n - 1), c <= i
        PROVE  HighPart(seq[i]) >= v
    <3>1. c \in 0..(n - 1) /\ c # n
      BY <1>0, <2>2, <2>4
    <3>2. High(c) >= x /\ High(c) # x
      BY <1>1, <1>3, <2>1, <2>2, <3>1
    <3>3. HighPart(seq[c]) <= HighPart(seq[i])
      BY <2>4, <3>1, HighAscends
    <3>4. /\ HighPart(seq[c]) \in Nat /\ HighPart(seq[i]) \in Nat
          /\ High(c) = HighPart(seq[c]) + c + 1
      BY <3>1, HighParts
    <3> DEFINE h == HighPart(seq[c])
               g == HighPart(seq[i])
    <3> HIDE DEF h, g
    <3>5. h + c + 1 >= x /\ h + c + 1 # x /\ h <= g /\ h \in Nat /\ g \in Nat
      BY <3>2, <3>3, <3>4 DEF h, g
    <3>6. g >= x - c
      BY <2>1, <2>2, <3>5
    <3> QED
      BY <3>6 DEF g
  <2>5. v \in Nat
    <3>1. CASE c = 0
      BY <3>1
    <3>2. CASE c # 0
      <4>1. 0 \in 0..(n - 1) /\ 0 < c
        BY <1>0, <2>2, <3>2
      <4> QED
        BY <2>1, <2>2, <2>3, <4>1
    <3> QED
      BY <3>1, <3>2
  <2>6. v <= Top + 1
    <3>1. CASE c = n
      BY <1>0, <3>1
    <3>2. CASE c # n
      <4>1. c \in 0..(n - 1) /\ c <= c
        BY <1>0, <2>2, <3>2
      <4>2. HighPart(seq[c]) >= v /\ HighPart(seq[c]) <= Top /\ HighPart(seq[c]) \in Nat
        BY <2>4, <4>1, HighParts
      <4> QED
        BY <1>0, <2>5, <4>2
    <3> QED
      BY <3>1, <3>2
  <2>7. x = v + c
    BY <2>2
  <2> HIDE DEF v
  <2>8. Below(v) = c
    BY <2>2, <2>3, <2>4, <2>5, BelowIs
  <2>9. v \in 0..(Top + 1)
    BY <1>0, <2>5, <2>6
  <2> QED
    BY <2>7, <2>8, <2>9 DEF Zero
<1>4. \A v \in Nat : Zero(v) \notin Ones
  BY <1>1, <1>2
<1> QED
  BY <1>3, <1>4

\* The walk that skip0 leaves on the v-th zero reads on with the elements after it.
OnZero(v) == [pos |-> Zero(v), used |-> TRUE]

LEMMA ReadsFromZero ==
  ASSUME SequenceOK, NEW v \in 0..(Top + 1)
  PROVE  /\ OnZero(v) \in Walks
         /\ ReadsFrom(OnZero(v), Below(v))
         /\ At(Zero(v)) \in Walks
<1>0. Top \in Nat /\ v \in Nat
  BY HighParts
<1>1. Zero(v) \in 0..(higher_bits_length - 1) /\ Below(v) \in 0..n
  BY <1>0, Zeros, BelowIs
<1>2. OnZero(v) \in Walks /\ At(Zero(v)) \in Walks /\ OnZero(v).pos = Zero(v)
  BY <1>1 DEF OnZero, At, Walks
<1>3. /\ \A j \in 0..(n - 1) : j < Below(v) => High(j) < Zero(v)
      /\ \A j \in 0..(n - 1) : Below(v) <= j => High(j) > Zero(v)
  BY <1>0, ZeroAmongOnes
<1> QED
  BY <1>1, <1>2, <1>3, ReadsFromIs

\* skip0 goes from a zero to a later one.
LEMMA SkipFromZero ==
  ASSUME SequenceOK, NEW v \in Nat, NEW k \in Nat, v + k <= Top + 1
  PROVE  skip0(At(Zero(v)), k) = OnZero(v + k)
<1> DEFINE t == Top + 1
           f == [w \in v..t |-> Zero(w)]
           h == At(Zero(v))
<1>0. Top \in Nat /\ t \in Nat /\ v \in 0..t /\ v + k \in v..t
  BY HighParts
<1>1. \A w \in v..t : w \in Nat /\ w \in 0..t
  BY <1>0
<1>2. h.pos = Zero(v) /\ h.used = FALSE
  BY DEF At
<1> HIDE DEF h
<1>3. ZerosFrom(h) = {f[w] : w \in v..t}
  <2>1. ASSUME NEW x \in ZerosFrom(h) PROVE x \in {f[w] : w \in v..t}
    <3>1. /\ x \in Zero(v)..(higher_bits_length - 1) /\ x \notin Ones
          /\ Zero(v) \in Nat /\ higher_bits_length \in Nat
      BY <1>0, <1>2, <2>1, Zeros, HighParts DEF ZerosFrom
    <3>2. PICK w \in 0..t : x = Zero(w)
      BY <3>1, ZerosAre
    <3>3. ~(w < v)
      BY <1>0, <3>1, <3>2, Zeros
    <3>4. w \in v..t
      BY <1>0, <3>3
    <3> QED
      BY <3>2, <3>4
  <2>2. ASSUME NEW w \in v..t PROVE f[w] \in ZerosFrom(h)
    <3>1. f[w] = Zero(w) /\ Zero(w) \notin Ones
      BY <1>1, ZerosAre
    <3>2. Zero(w) \in 0..(higher_bits_length - 1)
      BY <1>1, Zeros
    <3>3. Zero(v) <= Zero(w)
      <4>1. CASE w = v
        BY <3>2, <4>1
      <4>2. CASE w # v
        <5>1. v < w /\ Zero(v) \in Nat /\ Zero(w) \in Nat
          BY <1>0, <4>2, Zeros
        <5> QED
          BY <1>1, <5>1, Zeros
      <4> QED
        BY <4>1, <4>2
    <3>4. Zero(v) \in Nat
      BY <1>0, Zeros
    <3>5. Zero(w) \in Zero(v)..(higher_bits_length - 1)
      BY <3>2, <3>3, <3>4
    <3> QED
      BY <1>2, <3>1, <3>5 DEF ZerosFrom
  <2> HIDE DEF f
  <2>3. \A x \in {f[w] : w \in v..t} : x \in ZerosFrom(h)
    BY <2>2
  <2> QED
    BY <2>1, <2>3
<1>4. f \in [v..t -> Int]
  BY <1>1, Zeros
<1>5. \A i, j \in v..t : i < j => f[i] < f[j]
  BY <1>1, Zeros
<1>6. f[v + k] = Zero(v + k)
  BY <1>0
<1>7. v \in Int /\ t \in Int /\ v + k <= t
  BY <1>0
<1> HIDE DEF f, t
<1>8. Nth({f[w] : w \in v..t}, k) = f[v + k]
  BY <1>4, <1>5, <1>7, NthOfAscending
<1>9. Nth(ZerosFrom(h), k) = Zero(v + k)
  BY <1>3, <1>6, <1>8
<1> QED
  BY <1>9 DEF skip0, OnZero, h

\* From a one that was read, the one itself counts as the zero before the next:
\* the distance of two high halves leads to the zero of the other.
LEMMA SkipFromOne ==
  ASSUME SequenceOK, NEW i \in 0..(n - 1), NEW k \in Nat, k > 0,
         HighPart(seq[i]) + k <= Top + 1
  PROVE  skip0(OnElement(i), k) = OnZero(HighPart(seq[i]) + k)
<1> DEFINE t == Top + 1
           v == HighPart(seq[i])
           f == [w \in v..t |-> IF w = v THEN High(i) ELSE Zero(w)]
           h == OnElement(i)
<1>0. v \in Nat /\ v + k \in v..t /\ t \in Nat /\ v + k # v
  BY HighParts
<1>1. High(i) \in 1..(higher_bits_length - 2) /\ higher_bits_length \in Nat
  BY HighParts
<1>2. h.pos = High(i) /\ h.used = TRUE
  BY DEF OnElement
<1>3. \A w \in v..t : w \in 0..t /\ w \in Nat
  BY <1>0
<1>4. \A w \in Nat : /\ Zero(w) \in Nat
                     /\ v < w => High(i) < Zero(w)
                     /\ w <= v => Zero(w) < High(i)
  <2> SUFFICES ASSUME NEW w \in Nat
               PROVE  /\ Zero(w) \in Nat
                      /\ v < w => High(i) < Zero(w)
                      /\ w <= v => Zero(w) < High(i)
    OBVIOUS
  <2>1. Zero(w) \in Nat /\ Below(w) \in 0..n /\ n \in Nat
    BY Zeros, BelowIs, Sizes
  <2>2. i < Below(w) => High(i) < Zero(w) /\ v < w
    BY ZeroAmongOnes
  <2>3. Below(w) <= i => High(i) > Zero(w) /\ v >= w
    BY ZeroAmongOnes
  <2>4. i < Below(w) \/ Below(w) <= i
    BY <2>1
  <2> QED
    BY <1>0, <1>1, <2>1, <2>2, <2>3, <2>4
<1> HIDE DEF h, v
<1>5. ZerosFrom(h) = {f[w] : w \in v..t}
  <2>1. ASSUME NEW x \in ZerosFrom(h) PROVE x \in {f[w] : w \in v..t}
    <3>1. /\ x \in High(i)..(higher_bits_length - 1)
          /\ x \notin Ones \/ x = High(i)
      BY <1>2, <2>1 DEF ZerosFrom
    <3>2. CASE x = High(i)
      <4>1. v \in v..t /\ f[v] = High(i)
        BY <1>0
      <4> QED
        BY <3>2, <4>1
    <3>3. CASE x \notin Ones
      <4>1. x \in 0..(higher_bits_length - 1)
        BY <1>1, <3>1
      <4>2. PICK w \in 0..t : x = Zero(w)
        BY <3>3, <4>1, ZerosAre
      <4>3. w \in Nat /\ ~(w <= v)
        BY <1>1, <1>4, <3>1, <4>2
      <4>4. w \in v..t /\ w # v
        BY <1>0, <4>3
      <4>5. f[w] = x
        BY <4>2, <4>4
      <4> QED
        BY <4>4, <4>5
    <3> QED
      BY <3>1, <3>2, <3>3
  <2>2. ASSUME NEW w \in v..t PROVE f[w] \in ZerosFrom(h)
    <3>1. CASE w = v
      <4>1. f[w] = High(i) /\ High(i) \in High(i)..(higher_bits_length - 1)
        BY <1>1, <3>1
      <4> QED
        BY <1>2, <4>1 DEF ZerosFrom
    <3>2. CASE w # v
      <4>1. f[w] = Zero(w) /\ Zero(w) \notin Ones /\ High(i) < Zero(w)
        BY <1>0, <1>3, <1>4, <3>2, ZerosAre
      <4>2. Zero(w) \in 0..(higher_bits_length - 1)
        BY <1>3, Zeros
      <4>3. Zero(w) \in High(i)..(higher_bits_length - 1)
        BY <1>1, <4>1, <4>2
      <4> QED
        BY <1>2, <4>1, <4>3 DEF ZerosFrom
    <3> QED
      BY <3>1, <3>2
  <2> HIDE DEF f
  <2>3. \A x \in {f[w] : w \in v..t} : x \in ZerosFrom(h)
    BY <2>2
  <2> QED
    BY <2>1, <2>3
<1>6. f \in [v..t -> Int]
  BY <1>1, <1>3, <1>4
<1>7. ASSUME NEW a \in v..t, NEW b \in v..t, a < b PROVE f[a] < f[b]
  <2>1. a \in Nat /\ b \in Nat /\ v < b /\ b # v
    BY <1>0, <1>7
  <2>2. f[b] = Zero(b) /\ High(i) < Zero(b)
    BY <1>4, <2>1
  <2>3. CASE a = v
    <3>1. f[a] = High(i)
      BY <2>3
    <3> QED
      BY <2>2, <3>1
  <2>4. CASE a # v
    <3>1. f[a] = Zero(a)
      BY <2>4
    <3>2. Zero(a) < Zero(b)
      BY <1>7, <2>1, Zeros
    <3> QED
      BY <2>2, <3>1, <3>2
  <2> QED
    BY <2>3, <2>4
<1>8. f[v + k] = Zero(v + k)
  BY <1>0
<1>9. v \in Int /\ t \in Int /\ v + k <= t
  BY <1>0
<1> HIDE DEF f, t
<1>10. Nth({f[w] : w \in v..t}, k) = f[v + k]
  BY <1>6, <1>7, <1>9, NthOfAscending
<1>11. Nth(ZerosFrom(h), k) = Zero(v + k)
  BY <1>5, <1>8, <1>10
<1> QED
  BY <1>11 DEF skip0, OnZero, h, v

-----------------------------------------------------------------------------
(* The samples *)

\* The run of zeros that set_ptr0s passes before the i-th one has the zeros up to
\* the high half of that element, after that of the one before it.
LEMMA RunOfZero ==
  ASSUME SequenceOK, NEW v \in 1..(Top + 1), NEW i \in 0..n
  PROVE  (FirstZero(i) <= v /\ v < EndZero(i)) <=> i = Below(v)
<1>0. /\ n \in Nat /\ n > 0 /\ Top \in Nat /\ v \in Nat
      /\ higher_bits_length = n + Top + 2
  BY Sizes, HighParts
<1>1. FirstZero(i) <= v <=> (i = 0 \/ HighPart(seq[i - 1]) < v)
  <2>1. CASE i = 0
    BY <1>0, <2>1 DEF FirstZero
  <2>2. CASE i # 0
    <3>1. i - 1 \in 0..(n - 1)
      BY <1>0, <2>2
    <3>2. /\ High(i - 1) = HighPart(seq[i - 1]) + (i - 1) + 1
          /\ HighPart(seq[i - 1]) \in Nat
      BY <3>1, HighParts
    <3>3. FirstZero(i) = High(i - 1) + 1 - i
      BY <2>2 DEF FirstZero
    <3> DEFINE g == HighPart(seq[i - 1])
               o == High(i - 1)
    <3> HIDE DEF g, o
    <3>4. o = g + (i - 1) + 1 /\ g \in Nat /\ FirstZero(i) = o + 1 - i
      BY <3>2, <3>3 DEF g, o
    <3>5. FirstZero(i) = g + 1
      BY <1>0, <3>4
    <3>6. FirstZero(i) <= v <=> g < v
      BY <1>0, <3>4, <3>5
    <3> QED
      BY <2>2, <3>6 DEF g
  <2> QED
    BY <2>1, <2>2
<1>2. v < EndZero(i) <=> (i = n \/ HighPart(seq[i]) >= v)
  <2>1. CASE i = n
    BY <1>0, <2>1 DEF EndZero
  <2>2. CASE i # n
    <3>1. i \in 0..(n - 1)
      BY <1>0, <2>2
    <3>2. High(i) = HighPart(seq[i]) + i + 1 /\ HighPart(seq[i]) \in Nat
      BY <3>1, HighParts
    <3>3. EndZero(i) = High(i) - i
      BY <2>2 DEF EndZero
    <3> DEFINE g == HighPart(seq[i])
               o == High(i)
    <3> HIDE DEF g, o
    <3>4. o = g + i + 1 /\ g \in Nat /\ EndZero(i) = o - i
      BY <3>2, <3>3 DEF g, o
    <3>5. v < EndZero(i) <=> g >= v
      BY <1>0, <3>4
    <3> QED
      BY <2>2, <3>5 DEF g
  <2> QED
    BY <2>1, <2>2
<1>3. ASSUME i = Below(v)
      PROVE  /\ i = 0 \/ HighPart(seq[i - 1]) < v
             /\ i = n \/ HighPart(seq[i]) >= v
  <2>1. i # 0 => i - 1 \in 0..(n - 1) /\ i - 1 < Below(v)
    BY <1>0, <1>3
  <2>2. i # n => i \in 0..(n - 1) /\ Below(v) <= i
    BY <1>0, <1>3
  <2> QED
    BY <1>0, <2>1, <2>2, BelowIs
<1>4. ASSUME i = 0 \/ HighPart(seq[i - 1]) < v,
             i = n \/ HighPart(seq[i]) >= v
      PROVE  i = Below(v)
  <2>1. ASSUME NEW j \in 0..(n - 1), j < i PROVE HighPart(seq[j]) < v
    <3>1. i - 1 \in 0..(n - 1) /\ i # 0 /\ j <= i - 1
      BY <1>0, <2>1
    <3>2. HighPart(seq[j]) <= HighPart(seq[i - 1]) /\ HighPart(seq[i - 1]) < v
      BY <1>4, <3>1, HighAscends
    <3>3. HighPart(seq[j]) \in Nat /\ HighPart(seq[i - 1]) \in Nat
      BY <3>1, HighParts
    <3> QED
      BY <1>0, <3>2, <3>3
  <2>2. ASSUME NEW j \in 0..(n - 1), i <= j PROVE HighPart(seq[j]) >= v
    <3>1. i \in 0..(n - 1) /\ i # n
      BY <1>0, <2>2
    <3>2. HighPart(seq[i]) <= HighPart(seq[j]) /\ HighPart(seq[i]) >= v
      BY <1>4, <2>2, <3>1, HighAscends
    <3>3. HighPart(seq[i]) \in Nat /\ HighPart(seq[j]) \in Nat
      BY <3>1, HighParts
    <3> QED
      BY <1>0, <3>2, <3>3
  <2> QED
    BY <1>0, <2>1, <2>2, BelowIs
<1> QED
  BY <1>1, <1>2, <1>3, <1>4

\* A sampled zero is the zero it stands for.
LEMMA Sample0Is ==
  ASSUME SequenceOK, NEW k \in Nat, k > 0, k * 2^s0 <= Top + 1
  PROVE  /\ k \in 1..pointers0
         /\ k * 2^s0 \in 1..(Top + 1)
         /\ Sample0[k] = Zero(k * 2^s0)
<1> DEFINE v == k * 2^s0
           c == Below(v)
           runs == {i \in 0..n : /\ CeilShr(FirstZero(i), s0) <= k
                                 /\ k * 2^s0 < EndZero(i)}
<1>0. /\ n \in Nat /\ Top \in Nat /\ s0 \in Nat
      /\ higher_bits_length = n + Top + 2
  BY Sizes, HighParts
<1>1. 2^s0 \in Nat \ {0}
  BY <1>0, PowerOfTwo
<1>2. v \in 1..(Top + 1)
  <2> DEFINE s == 2^s0
  <2> HIDE DEF s
  <2>1. s \in Nat \ {0}
    BY <1>1 DEF s
  <2>2. 1 * s <= k * s /\ 1 * s = s /\ k * s \in Nat
    BY <2>1, TimesMonotone
  <2>3. k * s \in 1..(k * s)
    BY <2>1, <2>2
  <2>4. v = k * s
    BY DEF s
  <2> QED
    BY <1>0, <2>3, <2>4
<1>3. k \in 1..pointers0
  <2>1. higher_bits_length - n \in Nat /\ v <= higher_bits_length - n
    BY <1>0, <1>2
  <2>2. k <= Shr(higher_bits_length - n, s0)
    BY <1>0, <2>1, ShrAtMost
  <2>3. Shr(higher_bits_length - n, s0) \in Nat
    BY <1>0, <2>1, ShrIs
  <2> QED
    BY <2>2, <2>3 DEF pointers0
<1>4. \A i \in 0..n : CeilShr(FirstZero(i), s0) <= k <=> FirstZero(i) <= v
  <2> SUFFICES ASSUME NEW i \in 0..n
               PROVE  CeilShr(FirstZero(i), s0) <= k <=> FirstZero(i) <= v
    OBVIOUS
  <2>1. FirstZero(i) \in Nat
    <3>1. CASE i = 0
      BY <3>1 DEF FirstZero
    <3>2. CASE i # 0
      <4>1. i - 1 \in 0..(n - 1)
        BY <1>0, <3>2
      <4>2. /\ High(i - 1) = HighPart(seq[i - 1]) + (i - 1) + 1
            /\ HighPart(seq[i - 1]) \in Nat
        BY <4>1, HighParts
      <4>3. FirstZero(i) = High(i - 1) + 1 - i
        BY <3>2 DEF FirstZero
      <4> DEFINE g == HighPart(seq[i - 1])
                 o == High(i - 1)
      <4> HIDE DEF g, o
      <4>4. o = g + (i - 1) + 1 /\ g \in Nat /\ FirstZero(i) = o + 1 - i
        BY <4>2, <4>3 DEF g, o
      <4> QED
        BY <4>4
    <3> QED
      BY <3>1, <3>2
  <2> QED
    BY <1>0, <2>1, ShrAtMost
<1>5. runs = {c}
  <2>1. c \in 0..n
    BY <1>2, BelowIs
  <2>2. \A i \in 0..n : i \in runs <=> i = c
    BY <1>2, <1>4, RunOfZero
  <2> HIDE DEF c
  <2>3. \A x \in runs : x \in 0..n
    OBVIOUS
  <2> HIDE DEF runs
  <2> QED
    BY <2>1, <2>2, <2>3
<1>6. Max(runs) = c
  <2>1. c >= c
    <3>1. c \in 0..n
      BY <1>2, BelowIs
    <3> QED
      BY <1>0, <3>1
  <2> HIDE DEF runs, c
  <2> QED
    BY <1>5, <2>1 DEF Max
<1>7. Sample0[k] = IF runs = {} THEN 0 ELSE k * 2^s0 + Max(runs)
  BY <1>3 DEF Sample0
<1>8. Sample0[k] = v + c
  <2> HIDE DEF runs, c
  <2> QED
    BY <1>5, <1>6, <1>7
<1> QED
  BY <1>2, <1>3, <1>8 DEF Zero

\* A sampled one is the one it stands for.
LEMMA Sample1Is ==
  ASSUME SequenceOK, NEW k \in Nat, k > 0, k * 2^s1 < n
  PROVE  /\ k \in 1..pointers1
         /\ k * 2^s1 \in 0..(n - 1)
         /\ Sample1[k] = High(k * 2^s1)
<1>0. n \in Nat /\ s1 \in Nat /\ 2^s1 \in Nat \ {0}
  BY Sizes, PowerOfTwo
<1>1. k * 2^s1 \in Nat
  BY <1>0
<1>2. k <= Shr(n, s1) /\ Shr(n, s1) \in Nat
  BY <1>0, <1>1, ShrAtMost, ShrIs
<1>3. k \in 1..pointers1
  BY <1>2 DEF pointers1
<1>4. Sample1[k] = High(k * 2^s1)
  BY <1>3 DEF Sample1
<1> QED
  BY <1>0, <1>1, <1>3, <1>4

\* The slow paths: to the zero of a high half, and to any element.
LEMMA SampledZero ==
  ASSUME SequenceOK, NEW v \in 0..(Top + 1)
  PROVE  skip0(At(pointer0(Shr(v, s0))), v - Shr(v, s0) * 2^s0) = OnZero(v)
<1> DEFINE k == Shr(v, s0)
           z == k * 2^s0
<1>0. Top \in Nat /\ s0 \in Nat /\ v \in Nat
  BY Sizes, HighParts
<1>1. k \in Nat /\ z \in Nat /\ v = z + (v % 2^s0) /\ v % 2^s0 \in 0..(2^s0 - 1)
  BY <1>0, ShrIs
<1>2. 2^s0 \in Nat
  BY <1>0, PowerOfTwo
<1>3. z <= v /\ v - z \in Nat /\ z + (v - z) = v
  <2> HIDE DEF z
  <2> QED
    BY <1>0, <1>1, <1>2
<1>4. pointer0(k) = Zero(z)
  <2>1. CASE k = 0
    <3>1. z = 0
      BY <1>2, <2>1
    <3> QED
      BY <2>1, <3>1, Zeros DEF pointer0
  <2>2. CASE k # 0
    <3>1. k > 0 /\ k * 2^s0 <= Top + 1
      BY <1>0, <1>1, <1>3, <2>2
    <3>2. Sample0[k] = Zero(z)
      BY <1>1, <3>1, Sample0Is
    <3> QED
      BY <2>2, <3>2 DEF pointer0
  <2> QED
    BY <2>1, <2>2
<1> HIDE DEF k, z
<1>5. z + (v - z) <= Top + 1
  BY <1>0, <1>3
<1>6. skip0(At(Zero(z)), v - z) = OnZero(z + (v - z))
  BY <1>1, <1>3, <1>5, SkipFromZero
<1> QED
  BY <1>3, <1>4, <1>6 DEF k, z

LEMMA SampledOne ==
  ASSUME SequenceOK, NEW p \in 0..(n - 1)
  PROVE  ReadsFrom(skip(Ones, At(pointer1(Shr(p, s1))), p - Shr(p, s1) * 2^s1), p)
<1> DEFINE k == Shr(p, s1)
           z == k * 2^s1
<1>0. n \in Nat /\ s1 \in Nat /\ p \in Nat
  BY Sizes
<1>1. k \in Nat /\ z \in Nat /\ p = z + (p % 2^s1) /\ p % 2^s1 \in 0..(2^s1 - 1)
  BY <1>0, ShrIs
<1>2. 2^s1 \in Nat
  BY <1>0, PowerOfTwo
<1>3. z <= p /\ p - z \in Nat /\ z + (p - z) = p /\ z \in 0..(n - 1)
  <2> HIDE DEF z
  <2> QED
    BY <1>0, <1>1, <1>2
<1>4. ReadsFrom(At(pointer1(k)), z)
  <2>1. CASE k = 0
    <3>1. z = 0
      BY <1>2, <2>1
    <3> QED
      BY <1>3, <2>1, <3>1, WalkAt DEF pointer1
  <2>2. CASE k # 0
    <3>1. k > 0 /\ k * 2^s1 < n
      BY <1>0, <1>1, <1>3, <2>2
    <3>2. Sample1[k] = High(z)
      BY <1>1, <3>1, Sample1Is
    <3>3. pointer1(k) = High(z)
      BY <2>2, <3>2 DEF pointer1
    <3> QED
      BY <1>3, <3>3, WalkAt
  <2> QED
    BY <2>1, <2>2
<1> HIDE DEF k, z
<1>5. z + (p - z) < n
  BY <1>0, <1>3
<1>6. ReadsFrom(skip(Ones, At(pointer1(k)), p - z), z + (p - z))
  BY <1>1, <1>3, <1>4, <1>5, SkipReads
<1> QED
  BY <1>3, <1>6 DEF k, z

-----------------------------------------------------------------------------
(* The calls *)

\* The state after a call that leads to position p.
Landed(p) ==
  /\ position' = p
  /\ value' = ValueIn(seq, universe, p)
  /\ he' \in Walks
  /\ p < n => he' = OnElement(p)

LEMMA ToEndLands ==
  ASSUME IInv, ToEnd
  PROVE  Landed(n)
<1>1. n \in Nat /\ SizeOf(seq) = n
  BY Sizes DEF IInv
<1>2. ~(n < n) /\ ValueIn(seq, universe, n) = universe
  BY <1>1 DEF ValueIn
<1>3. position' = n /\ value' = universe /\ he' = he
  BY DEF ToEnd
<1>4. he \in Walks
  BY DEF IInv, CursorOK
<1> QED
  BY <1>2, <1>3, <1>4 DEF Landed

\* On the one of an element, its value is decoded.
LEMMA OnElementLands ==
  ASSUME SequenceOK, NEW p \in 0..(n - 1),
         position' = p, he' = OnElement(p), value' = Decode(he'.pos, p)
  PROVE  Landed(p)
<1>1. n \in Nat /\ p # n /\ SizeOf(seq) = n
  BY Sizes
<1>2. OnElement(p).pos = High(p)
  BY DEF OnElement
<1>3. value' = seq[p]
  BY <1>2, DecodeHigh
<1>4. value' = ValueIn(seq, universe, p)
  BY <1>1, <1>3 DEF ValueIn
<1>5. OnElement(p) \in Walks
  BY WalkAt
<1> QED
  BY <1>4, <1>5 DEF Landed

LEMMA ReadAtLands ==
  ASSUME SequenceOK, NEW p \in 0..(n - 1), NEW h, ReadsFrom(h, p), ReadAt(h, p)
  PROVE  Landed(p)
<1>1. n \in Nat /\ p \in Nat /\ p + 1 <= n /\ p + 1 - 1 = p
  BY Sizes
<1>2. Advance(Ones, h, 1) = OnElement(p + 1 - 1)
  BY <1>1, AdvanceReads
<1>3. /\ position' = p /\ he' = OnElement(p)
      /\ value' = Decode(he'.pos, p)
  BY <1>1, <1>2 DEF ReadAt
<1> QED
  BY <1>3, OnElementLands

\* Every path of move leads to the position asked for.
LEMMA MoveLands ==
  ASSUME IInv, NEW p \in 0..n, MoveTo(p)
  PROVE  Landed(p)
<1>0. SequenceOK /\ CursorOK /\ n \in Nat /\ s1 \in Nat
  BY Sizes DEF IInv
<1>1. position \in 0..n /\ (position < n => ReadsFrom(he, position + 1))
  <2>1. position < n => position \in 0..(n - 1) /\ he = OnElement(position)
    BY <1>0 DEF CursorOK
  <2> QED
    BY <1>0, <2>1, WalkAt DEF CursorOK
<1>2. ASSUME p = position, UNCHANGED <<position, value, he>> PROVE Landed(p)
  BY <1>0, <1>2 DEF Landed, CursorOK
<1>3. ASSUME SmallMove(p) PROVE Landed(p)
  <2>1. p > position
    BY <1>3 DEF SmallMove
  <2>2. CASE p = n
    <3>1. ToEnd
      BY <1>3, <2>2 DEF SmallMove
    <3> QED
      BY <2>2, <3>1, ToEndLands
  <2>3. CASE p # n
    <3>1. /\ position' = p
          /\ he' = Advance(Ones, he, p - position)
          /\ value' = Decode(he'.pos, p)
      BY <1>3, <2>3 DEF SmallMove
    <3>2. /\ ReadsFrom(he, position + 1) /\ position + 1 \in Nat
          /\ p - position \in Nat /\ p - position > 0 /\ p \in 0..(n - 1)
          /\ position + 1 + (p - position) <= n
          /\ position + 1 + (p - position) - 1 = p
      BY <1>0, <1>1, <2>1, <2>3
    <3>3. Advance(Ones, he, p - position)
            = OnElement(position + 1 + (p - position) - 1)
      BY <1>0, <3>2, AdvanceReads
    <3> QED
      BY <1>0, <3>1, <3>2, <3>3, OnElementLands
  <2> QED
    BY <2>2, <2>3
<1>4. ASSUME slow_move(p) PROVE Landed(p)
  <2>1. CASE p = n
    <3>1. ToEnd
      BY <1>4, <2>1 DEF slow_move
    <3> QED
      BY <2>1, <3>1, ToEndLands
  <2>2. CASE p # n /\ p > position /\ Shr(p - position, s1) = 0
    <3>1. ReadAt(skip(Ones, he, p - position - 1), p)
      BY <1>4, <2>2 DEF slow_move
    <3>2. /\ ReadsFrom(he, position + 1) /\ position + 1 \in Nat
          /\ p - position - 1 \in Nat /\ p \in 0..(n - 1)
          /\ position + 1 + (p - position - 1) < n
          /\ position + 1 + (p - position - 1) = p
      BY <1>0, <1>1, <2>2
    <3>3. ReadsFrom(skip(Ones, he, p - position - 1),
                    position + 1 + (p - position - 1))
      BY <1>0, <3>2, SkipReads
    <3> QED
      BY <1>0, <3>1, <3>2, <3>3, ReadAtLands
  <2>3. CASE p # n /\ ~(p > position /\ Shr(p - position, s1) = 0)
    <3>1. ReadAt(skip(Ones, At(pointer1(Shr(p, s1))), p - Shr(p, s1) * 2^s1), p)
      BY <1>4, <2>3 DEF slow_move
    <3>2. p \in 0..(n - 1)
      BY <1>0, <2>3
    <3> QED
      BY <1>0, <3>1, <3>2, SampledOne, ReadAtLands
  <2> QED
    BY <2>1, <2>2, <2>3
<1> QED
  BY <1>2, <1>3, <1>4 DEF MoveTo

\* The loops end on the first element that reaches the bound, when they begin at
\* or before it.
LEMMA ScanLands ==
  ASSUME SequenceOK, NEW p \in 0..n, NEW h, ReadsFrom(h, p), NEW bound \in Nat,
         \A i \in 0..(n - 1) : i < p => seq[i] < bound,
         ScanFrom(h, p, bound)
  PROVE  Landed(FirstAtLeast(seq, bound))
<1> DEFINE f == FirstAtLeast(seq, bound)
           Stops(k) == StopsAt(h, p, k, bound)
           steps == CHOOSE k \in 0..(n - p) :
                      Stops(k) /\ \A j \in 0..(k - 1) : ~Stops(j)
<1>0. /\ n \in Nat /\ SizeOf(seq) = n /\ DOMAIN seq = 0..(n - 1)
      /\ \A i \in 0..(n - 1) : seq[i] \in Nat /\ seq[i] \in Int
      /\ bound \in Int
  BY Sizes
<1>1. f \in 0..n /\ (f = n \/ seq[f] >= bound) /\ \A q \in 0..(f - 1) : seq[q] < bound
  BY <1>0, FirstAtLeastFound
<1> HIDE DEF f
<1>2. p <= f
  <2>1. SUFFICES ASSUME f < p PROVE FALSE
    BY <1>0, <1>1
  <2>2. f \in 0..(n - 1)
    BY <1>0, <1>1, <2>1
  <2>3. seq[f] < bound /\ seq[f] >= bound /\ seq[f] \in Nat
    BY <1>0, <1>1, <2>1, <2>2
  <2> QED
    BY <2>3
<1>3. ASSUME NEW k \in 0..(n - p)
      PROVE  Stops(k) <=> (p + k = n \/ seq[p + k] >= bound)
  <2>1. CASE p + k = n
    BY <2>1 DEF StopsAt
  <2>2. CASE p + k # n
    <3>1. /\ p + k \in 0..(n - 1) /\ k + 1 \in Nat /\ k + 1 > 0 /\ p \in Nat
          /\ p + (k + 1) <= n /\ p + (k + 1) - 1 = p + k
      BY <1>0, <2>2
    <3>2. Advance(Ones, h, k + 1) = OnElement(p + (k + 1) - 1)
      BY <3>1, AdvanceReads
    <3>3. Advance(Ones, h, k + 1).pos = High(p + k)
      BY <3>1, <3>2 DEF OnElement
    <3>4. Decode(Advance(Ones, h, k + 1).pos, p + k) = seq[p + k]
      BY <3>1, <3>3, DecodeHigh
    <3> QED
      BY <2>2, <3>4 DEF StopsAt
  <2> QED
    BY <2>1, <2>2
<1>4. steps = f - p
  <2> DEFINE d == f - p
  <2>1. d \in 0..(n - p) /\ p + d = f
    BY <1>0, <1>1, <1>2
  <2>2. Stops(d)
    BY <1>1, <1>3, <2>1
  <2> HIDE DEF Stops
  <2>3. ASSUME NEW j \in 0..(d - 1) PROVE ~Stops(j)
    <3>1. /\ j \in 0..(n - p) /\ p + j \in 0..(f - 1) /\ p + j # n
          /\ p + j \in 0..(n - 1)
      BY <1>0, <1>1, <2>1
    <3>2. seq[p + j] < bound /\ seq[p + j] \in Nat
      BY <1>0, <1>1, <3>1
    <3> QED
      BY <1>3, <3>1, <3>2
  <2>4. ASSUME NEW k \in 0..(n - p), Stops(k), \A j \in 0..(k - 1) : ~Stops(j)
        PROVE  k = d
    <3>1. ~(k < d)
      <4>1. k < d => k \in 0..(d - 1)
        BY <1>0, <2>1
      <4> QED
        BY <2>3, <2>4, <4>1
    <3>2. ~(d < k)
      <4>1. d < k => d \in 0..(k - 1)
        BY <1>0, <2>1
      <4> QED
        BY <2>2, <2>4, <4>1
    <3> QED
      BY <1>0, <2>1, <3>1, <3>2
  <2> HIDE DEF d
  <2>5. steps = d
    BY <2>1, <2>2, <2>3, <2>4
  <2> QED
    BY <2>5 DEF d
<1> HIDE DEF steps
<1>5. /\ steps \in Nat /\ p + steps = f
  BY <1>0, <1>1, <1>2, <1>4
<1>6. IF p + steps = n
      THEN /\ position' = n
           /\ value' = universe
           /\ he' = Advance(Ones, h, steps)
      ELSE /\ position' = p + steps
           /\ he' = Advance(Ones, h, steps + 1)
           /\ value' = Decode(he'.pos, p + steps)
  BY DEF ScanFrom, steps
<1>7. CASE f = n
  <2>1. position' = n /\ value' = universe /\ he' = Advance(Ones, h, steps)
    BY <1>5, <1>6, <1>7
  <2>2. he' \in Walks
    <3>1. CASE steps = 0
      BY <2>1, <3>1 DEF Advance, ReadsFrom
    <3>2. CASE steps # 0
      <4>1. /\ p \in Nat /\ steps > 0 /\ p + steps <= n
            /\ p + steps - 1 \in 0..(n - 1)
        BY <1>0, <1>5, <1>7, <3>2
      <4>2. Advance(Ones, h, steps) = OnElement(p + steps - 1)
        BY <1>5, <4>1, AdvanceReads
      <4> QED
        BY <2>1, <4>1, <4>2, WalkAt
    <3> QED
      BY <3>1, <3>2
  <2>3. ~(n < n) /\ ValueIn(seq, universe, n) = universe
    BY <1>0 DEF ValueIn
  <2>4. Landed(n)
    BY <2>1, <2>2, <2>3 DEF Landed
  <2> QED
    BY <1>7, <2>4 DEF f
<1>8. CASE f # n
  <2>1. /\ position' = f /\ he' = Advance(Ones, h, steps + 1)
        /\ value' = Decode(he'.pos, f)
    BY <1>5, <1>6, <1>8
  <2>2. /\ f \in 0..(n - 1) /\ steps + 1 \in Nat /\ steps + 1 > 0 /\ p \in Nat
        /\ p + (steps + 1) <= n /\ p + (steps + 1) - 1 = f
    BY <1>0, <1>1, <1>5, <1>8
  <2>3. Advance(Ones, h, steps + 1) = OnElement(p + (steps + 1) - 1)
    BY <2>2, AdvanceReads
  <2>4. Landed(f)
    BY <2>1, <2>2, <2>3, OnElementLands
  <2> QED
    BY <2>4 DEF f
<1> QED
  BY <1>7, <1>8

\* Every path of next_geq leads to the first element that reaches the bound, or
\* leaves the cursor on the bound.
LEMMA NextGeqLands ==
  ASSUME IInv, NEW bound \in 0..universe, NextGeq(bound)
  PROVE  Landed(Landing(seq, universe, position, bound))
<1> DEFINE f == FirstAtLeast(seq, bound)
<1>0. /\ SequenceOK /\ CursorOK /\ n \in Nat /\ SizeOf(seq) = n
      /\ universe \in Nat /\ bound \in Nat /\ DOMAIN seq = 0..(n - 1)
      /\ \A i \in 0..(n - 1) : seq[i] \in Nat /\ seq[i] < universe
      /\ linear_scan_threshold \in Nat
  BY Sizes, SizesAssumption DEF IInv, SizesAssumption
<1>1. /\ position \in 0..n /\ position \in Nat
      /\ value = ValueIn(seq, universe, position)
      /\ position = n => value = universe
      /\ position # n => /\ position \in 0..(n - 1) /\ value = seq[position]
                         /\ he = OnElement(position)
                         /\ ReadsFrom(he, position + 1)
  <2>1. position \in 0..n /\ value = ValueIn(seq, universe, position)
    BY <1>0 DEF CursorOK
  <2>2. position # n => position \in 0..(n - 1) /\ position < n
    BY <1>0, <2>1
  <2>3. position # n => he = OnElement(position)
    BY <1>0, <2>2 DEF CursorOK
  <2>4. position # n => ReadsFrom(he, position + 1)
    BY <1>0, <2>2, <2>3, WalkAt
  <2>5. position \in Nat
    BY <1>0, <2>1
  <2> QED
    BY <1>0, <2>1, <2>2, <2>3, <2>4, <2>5 DEF ValueIn
<1>2. CASE bound = value
  <2>1. UNCHANGED <<position, value, he>>
    <3>1. ~SmallNextGeq(bound)
      <4>1. value \in Nat
        BY <1>0, <1>1
      <4>2. ~(bound > value)
        BY <1>2, <4>1
      <4> QED
        BY <4>2 DEF SmallNextGeq, IsSmallSkip
    <3>2. ~SlowNextGeq(bound)
      BY <1>2 DEF SlowNextGeq
    <3> QED
      BY <3>1, <3>2 DEF NextGeq
  <2>2. Landed(position)
    BY <1>0, <2>1 DEF Landed, CursorOK
  <2>3. Landing(seq, universe, position, bound) = position
    BY <1>1, <1>2 DEF Landing
  <2> QED
    BY <2>2, <2>3
<1>3. ASSUME bound # value, SmallNextGeq(bound)
      PROVE  Landed(f)
  <2>1. bound > value /\ value \in Nat
    BY <1>0, <1>1, <1>3 DEF SmallNextGeq, IsSmallSkip
  <2>2. position # n
    BY <1>0, <1>1, <2>1
  <2>3. ~(position >= n)
    BY <1>0, <1>1, <2>2
  <2>4. ScanFrom(he, position + 1, bound)
    BY <1>3, <2>3 DEF SmallNextGeq
  <2>5. position + 1 \in 0..n /\ ReadsFrom(he, position + 1)
    BY <1>0, <1>1, <2>2
  <2>6. ASSUME NEW i \in 0..(n - 1), i < position + 1 PROVE seq[i] < bound
    <3>1. position \in i..(n - 1) /\ value = seq[position]
      BY <1>0, <1>1, <2>2, <2>6
    <3>2. seq[i] <= seq[position]
      BY <1>0, <3>1, Ascends
    <3> QED
      BY <1>0, <2>1, <3>1, <3>2
  <2> QED
    BY <1>0, <2>4, <2>5, <2>6, ScanLands
<1>4. ASSUME bound # value, SlowNextGeq(bound), bound >= universe
      PROVE  Landed(f)
  <2>1. bound = universe /\ MoveTo(n) /\ n \in 0..n
    BY <1>0, <1>4 DEF SlowNextGeq
  <2>2. Landed(n)
    BY <2>1, MoveLands
  <2>3. f = n
    <3>1. /\ \A i \in 0..(n - 1) : seq[i] \in Int
          /\ \A q \in 0..(n - 1) : seq[q] < bound
          /\ bound \in Int
      BY <1>0, <2>1
    <3> QED
      BY <1>0, <2>1, <3>1, FirstAtLeastIs
  <2> QED
    BY <2>2, <2>3
<1>5. ASSUME bound # value, SlowNextGeq(bound), bound < universe
      PROVE  Landed(f)
  <2> DEFINE high == HighPart(bound)
             h == IF bound > value /\ Shr(HighDiff(bound), s0) = 0
                  THEN skip0(he, HighDiff(bound))
                  ELSE skip0(At(pointer0(Shr(high, s0))), high - Shr(high, s0) * 2^s0)
  <2>1. high \in Nat /\ high <= Top /\ Top \in Nat
    BY <1>0, <1>5, HighParts DEF Top
  <2>2. high \in 0..(Top + 1)
    BY <2>1
  <2>3. ScanFrom(h, h.pos - high, bound)
    <3>1. ~(bound >= universe)
      BY <1>0, <1>5
    <3> QED
      BY <1>5, <3>1 DEF SlowNextGeq, HighPart
  <2>4. ASSUME bound > value PROVE skip0(he, HighDiff(bound)) = OnZero(high)
    <3>1. position # n
      BY <1>0, <1>1, <1>5, <2>4
    <3>2. position \in 0..(n - 1) /\ value = seq[position] /\ he = OnElement(position)
      BY <1>1, <3>1
    <3>3. HighPart(value) \in Nat
      BY <1>0, <3>2, HighParts
    <3>4. HighDiff(bound) = high - HighPart(value)
      BY DEF HighDiff, HighPart
    <3>5. ~(HighDiff(bound) <= linear_scan_threshold)
      BY <1>5, <2>4 DEF SlowNextGeq, IsSmallSkip
    <3> DEFINE k == HighDiff(bound)
               g == HighPart(value)
    <3> HIDE DEF k, g, high
    <3>6. k \in Nat /\ k > 0 /\ g + k = high
      BY <1>0, <2>1, <3>3, <3>4, <3>5 DEF k, g
    <3>7. g + k <= Top + 1 /\ g = HighPart(seq[position])
      BY <2>2, <2>1, <3>2, <3>6 DEF g
    <3>8. skip0(OnElement(position), k) = OnZero(HighPart(seq[position]) + k)
      BY <1>0, <3>2, <3>6, <3>7, SkipFromOne
    <3> QED
      BY <3>2, <3>6, <3>7, <3>8 DEF k
  <2>5. skip0(At(pointer0(Shr(high, s0))), high - Shr(high, s0) * 2^s0) = OnZero(high)
    BY <1>0, <2>2, SampledZero
  <2>6. h = OnZero(high)
    BY <2>4, <2>5
  <2> HIDE DEF h, high
  <2>7. h.pos - high = Below(high) /\ Below(high) \in 0..n
    <3>1. h.pos = high + Below(high)
      BY <2>6 DEF OnZero, Zero
    <3>2. Below(high) \in 0..n
      BY <1>0, <2>1, BelowIs
    <3> QED
      BY <1>0, <2>1, <3>1, <3>2
  <2>8. ReadsFrom(h, Below(high))
    BY <1>0, <2>2, <2>6, ReadsFromZero
  <2>9. ASSUME NEW i \in 0..(n - 1), i < Below(high) PROVE seq[i] < bound
    <3>1. HighPart(seq[i]) < high
      BY <1>0, <2>1, <2>9, BelowIs
    <3>2. SUFFICES ASSUME bound <= seq[i] PROVE FALSE
      BY <1>0
    <3>3. high <= HighPart(seq[i]) /\ HighPart(seq[i]) \in Nat
      BY <1>0, <3>2, HighParts DEF high
    <3> QED
      BY <2>1, <3>1, <3>3
  <2>10. ScanFrom(h, Below(high), bound)
    BY <2>3, <2>7
  <2> QED
    BY <1>0, <2>7, <2>8, <2>9, <2>10, ScanLands
<1>6. CASE bound # value
  <2>1. SmallNextGeq(bound) \/ SlowNextGeq(bound)
    BY <1>6 DEF NextGeq
  <2>2. Landed(f)
    <3>1. CASE SmallNextGeq(bound)
      BY <1>3, <1>6, <3>1
    <3>2. CASE SlowNextGeq(bound)
      BY <1>0, <1>4, <1>5, <1>6, <3>2
    <3> QED
      BY <2>1, <3>1, <3>2
  <2>3. Landing(seq, universe, position, bound) = f
    BY <1>1, <1>6 DEF Landing
  <2> QED
    BY <2>2, <2>3
<1> QED
  BY <1>2, <1>6

LEMMA NextLands ==
  ASSUME IInv, Next
  PROVE  position < n /\ Landed(position + 1)
<1>0. SequenceOK /\ CursorOK /\ n \in Nat
  BY Sizes DEF IInv
<1>1. position < n /\ position \in 0..(n - 1)
  BY <1>0 DEF Next, CursorOK
<1>2. ReadsFrom(he, position + 1)
  BY <1>0, <1>1, WalkAt DEF CursorOK
<1>3. CASE position + 1 < n
  <2>1. ReadAt(he, position + 1) /\ position + 1 \in 0..(n - 1)
    BY <1>0, <1>1, <1>3 DEF Next
  <2> QED
    BY <1>0, <1>1, <1>2, <2>1, ReadAtLands
<1>4. CASE ~(position + 1 < n)
  <2>1. ToEnd /\ position + 1 = n
    BY <1>0, <1>1, <1>4 DEF Next
  <2>2. Landed(n)
    BY <2>1, ToEndLands
  <2> QED
    BY <1>1, <2>1, <2>2
<1> QED
  BY <1>3, <1>4

-----------------------------------------------------------------------------
(* The invariant holds *)

LEMMA InitInv == Init => IInv
<1> SUFFICES ASSUME Init PROVE IInv
  OBVIOUS
<1>1. PICK u \in Universes, len \in Lengths :
        /\ universe = u
        /\ seq \in [0..(len - 1) -> 0..(u - 1)]
        /\ \A i \in 1..(len - 1) : seq[i - 1] <= seq[i]
  BY DEF Init
<1>2. len \in Nat
  BY SizesAssumption DEF SizesAssumption
<1>3. n = len
  <2>1. DOMAIN seq = 0..(len - 1)
    BY <1>1
  <2>2. SizeOf(seq) = len
    BY <1>2, <2>1, SizeOfSequence
  <2> QED
    BY <2>2 DEF SizeOf, n
<1>4. SequenceOK
  BY <1>1, <1>3 DEF SequenceOK, Init
<1>5. position = n /\ value = universe /\ he = At(0)
  BY DEF Init
<1>6. n \in Nat /\ n > 0 /\ SizeOf(seq) = n
  BY <1>4, Sizes
<1>7. 0 \in 0..(n - 1)
  BY <1>6
<1>8. he \in Walks
  BY <1>4, <1>5, <1>7, WalkAt DEF ReadsFrom
<1>9. value = ValueIn(seq, universe, position)
  BY <1>5, <1>6 DEF ValueIn
<1>10. position \in 0..n /\ ~(position < n)
  BY <1>5, <1>6
<1> QED
  BY <1>4, <1>8, <1>9, <1>10 DEF IInv, CursorOK

\* No call writes: what the layout is computed from stays, whatever the bounds.
LEMMA WrittenStays == SequenceOK /\ [Step]_vars => SequenceOK'
<1> SUFFICES ASSUME SequenceOK, [Step]_vars PROVE SequenceOK'
  OBVIOUS
<1>1. UNCHANGED written
  <2>1. CASE Step
    BY <2>1 DEF Step, Move, NextGeq, Next
  <2>2. CASE UNCHANGED vars
    BY <2>2 DEF vars, written
  <2> QED
    BY <2>1, <2>2
<1>2. seq' = seq /\ universe' = universe /\ s0' = s0 /\ s1' = s1
  BY <1>1 DEF written
<1>3. n' = n
  BY <1>2 DEF n
<1> QED
  BY <1>2, <1>3 DEF SequenceOK

\* Where a call lands, the invariant holds again.
LEMMA LandedInv ==
  ASSUME IInv, NEW p \in 0..n, Landed(p), UNCHANGED written
  PROVE  IInv'
<1>1. seq' = seq /\ universe' = universe /\ s0' = s0 /\ s1' = s1
  BY DEF written
<1>2. n' = n
  BY <1>1 DEF n
<1>3. lower_bits' = lower_bits
  BY <1>1, <1>2 DEF lower_bits
<1>4. higher_bits_length' = higher_bits_length
  BY <1>1, <1>2, <1>3 DEF higher_bits_length
<1>5. Walks' = Walks
  BY <1>4 DEF Walks
<1>6. SequenceOK'
  BY <1>1, <1>2 DEF IInv, SequenceOK
<1>7. position' = p /\ value' = ValueIn(seq, universe, p) /\ he' \in Walks
  BY DEF Landed
<1>8. ValueIn(seq, universe, position)' = ValueIn(seq, universe, p)
  BY <1>1, <1>7 DEF ValueIn, SizeOf
<1>9. OnElement(position)' = OnElement(p)
  BY <1>1, <1>3, <1>7 DEF OnElement, High
<1>10. position < n => he = OnElement(position)
  BY DEF IInv, CursorOK
<1>11. position' < n' => he' = OnElement(position)'
  BY <1>2, <1>7, <1>9 DEF Landed
<1>12. CursorOK'
  BY <1>2, <1>5, <1>7, <1>8, <1>11 DEF CursorOK
<1> QED
  BY <1>6, <1>12 DEF IInv

\* The landing of next_geq is in the sequence or at its end.
LEMMA LandingInSequence ==
  ASSUME IInv, NEW bound \in 0..universe
  PROVE  Landing(seq, universe, position, bound) \in 0..n
<1>1. /\ SequenceOK /\ position \in 0..n
  BY DEF IInv, CursorOK
<1>2. /\ n \in Nat /\ DOMAIN seq = 0..(n - 1) /\ bound \in Int
      /\ \A i \in 0..(n - 1) : seq[i] \in Int
  BY <1>1, Sizes
<1>3. FirstAtLeast(seq, bound) \in 0..n
  BY <1>2, FirstAtLeastFound
<1> QED
  BY <1>1, <1>3 DEF Landing

LEMMA StepLands ==
  ASSUME Beyond = 0, IInv, Step
  PROVE  /\ UNCHANGED written
         /\ \/ \E p \in 0..n : Landed(p) /\ call' = <<"move", p>>
            \/ \E bound \in 0..universe :
                 /\ Landed(Landing(seq, universe, position, bound))
                 /\ call' = <<"next_geq", bound>>
            \/ position < n /\ Landed(position + 1) /\ call' = <<"next", 0>>
<1>0. SequenceOK /\ universe \in Nat
  BY Sizes DEF IInv
<1>1. ASSUME NEW p \in 0..n, Move(p)
      PROVE  UNCHANGED written /\ Landed(p) /\ call' = <<"move", p>>
  BY <1>1, MoveLands DEF Move
<1>2. ASSUME NEW bound \in 0..(universe + Beyond), NextGeq(bound)
      PROVE  /\ UNCHANGED written /\ bound \in 0..universe
             /\ Landed(Landing(seq, universe, position, bound))
             /\ call' = <<"next_geq", bound>>
  <2>1. bound \in 0..universe
    BY <1>0
  <2>2. Landed(Landing(seq, universe, position, bound))
    BY <1>2, <2>1, NextGeqLands
  <2> QED
    BY <1>2, <2>1, <2>2 DEF NextGeq
<1>3. ASSUME Next
      PROVE  /\ UNCHANGED written /\ position < n /\ Landed(position + 1)
             /\ call' = <<"next", 0>>
  BY <1>3, NextLands DEF Next
<1> QED
  BY <1>1, <1>2, <1>3 DEF Step

LEMMA StepInv == Beyond = 0 /\ IInv /\ [Step]_vars => IInv'
<1> SUFFICES ASSUME Beyond = 0, IInv, [Step]_vars PROVE IInv'
  OBVIOUS
<1>0. n \in Nat /\ position \in 0..n
  BY Sizes DEF IInv, CursorOK
<1>1. ASSUME Step PROVE IInv'
  <2>1. UNCHANGED written /\ \E p \in 0..n : Landed(p)
    <3>1. position < n => position + 1 \in 0..n
      BY <1>0
    <3> QED
      BY <1>1, <3>1, StepLands, LandingInSequence
  <2> QED
    BY <2>1, LandedInv
<1>2. ASSUME UNCHANGED vars PROVE IInv'
  <2>1. UNCHANGED written /\ UNCHANGED <<position, value, he>>
    BY <1>2 DEF vars, written
  <2>2. Landed(position)
    BY <2>1 DEF IInv, CursorOK, Landed
  <2> QED
    BY <1>0, <2>1, <2>2, LandedInv
<1> QED
  BY <1>1, <1>2

\* After every sequence of calls with bounds up to the universe, the position, the
\* value and the unary enumerator are those of one element, or of the end.
THEOREM Invariance == ASSUME Beyond = 0 PROVE Spec => []IInv
<1>1. Init => IInv
  BY InitInv
<1>2. IInv /\ [Step]_vars => IInv'
  BY StepInv
<1> QED
  BY <1>1, <1>2, PTL DEF Spec

\* Positions, values and the unary enumerator stay in the sequence and its bits.
THEOREM TypeCorrect == ASSUME Beyond = 0 PROVE Spec => []TypeOK
<1>1. IInv => TypeOK
  <2> SUFFICES ASSUME IInv PROVE TypeOK
    OBVIOUS
  <2>1. /\ n \in Nat /\ DOMAIN seq = 0..(n - 1) /\ universe \in Nat
        /\ SizeOf(seq) = n /\ \A i \in 0..(n - 1) : seq[i] \in Nat /\ seq[i] < universe
    BY Sizes DEF IInv
  <2>2. /\ position \in 0..n /\ value = ValueIn(seq, universe, position)
        /\ he \in Walks
    BY DEF IInv, CursorOK
  <2>3. value \in 0..universe
    <3>1. CASE position = n
      BY <2>1, <2>2, <3>1 DEF ValueIn
    <3>2. CASE position # n
      <4>1. position \in 0..(n - 1) /\ value = seq[position]
        BY <2>1, <2>2, <3>2 DEF ValueIn
      <4> QED
        BY <2>1, <4>1
    <3> QED
      BY <3>1, <3>2
  <2> QED
    BY <2>1, <2>2, <2>3 DEF TypeOK, Walks
<1> QED
  BY <1>1, Invariance, PTL

\* The unary enumerator, which each call moves on its own path, is always on the
\* one of the current element and has consumed it.
THEOREM InSync == ASSUME Beyond = 0 PROVE Spec => []EnumeratorInSync
<1>1. IInv => EnumeratorInSync
  BY DEF IInv, CursorOK, EnumeratorInSync, OnElement
<1> QED
  BY <1>1, Invariance, PTL

\* prev_value() finds the one before the current one, whatever was called before.
THEOREM PrevValueCorrect == ASSUME Beyond = 0 PROVE Spec => []PrevValueIsPredecessor
<1>1. IInv => PrevValueIsPredecessor
  <2> SUFFICES ASSUME IInv, position # 0 PROVE prev_value = seq[position - 1]
    BY DEF PrevValueIsPredecessor, prev_value
  <2> DEFINE q == position - 1
             from == IF position < n THEN he.pos - 1 ELSE higher_bits_length - 1
             S == {p \in Ones : p <= from}
  <2>1. /\ SequenceOK /\ n \in Nat /\ position \in 0..n
        /\ position < n => he = OnElement(position)
    BY Sizes DEF IInv, CursorOK
  <2>2. q \in 0..(n - 1) /\ Ones = {High(i) : i \in 0..(n - 1)}
    <3>1. q \in 0..(n - 1)
      BY <2>1
    <3>2. DOMAIN seq = 0..(n - 1)
      BY <2>1, Sizes
    <3> QED
      BY <3>1, <3>2 DEF Ones
  <2>3. \A i \in 0..(n - 1) : High(i) \in 1..(higher_bits_length - 2) /\ High(i) \in Nat
    BY <2>1, HighParts
  <2>4. High(q) <= from /\ \A i \in 0..(n - 1) : High(i) <= from => i <= q
    <3>1. CASE position < n
      <4>1. from = High(position) - 1 /\ position \in 0..(n - 1)
        BY <2>1, <3>1 DEF OnElement
      <4>2. High(q) < High(position)
        BY <2>1, <2>2, <4>1, HighAscends
      <4>3. ASSUME NEW i \in 0..(n - 1), i > q PROVE High(position) <= High(i)
        <5>1. i = position \/ position < i
          BY <2>1, <4>3
        <5>2. position < i => High(position) < High(i)
          BY <2>1, <4>1, HighAscends
        <5> QED
          BY <2>3, <4>1, <5>1, <5>2
      <4>4. \A i \in 0..(n - 1) : i > q => ~(High(i) <= from)
        BY <2>3, <4>1, <4>3
      <4> QED
        BY <2>2, <2>3, <4>1, <4>2, <4>4
    <3>2. CASE ~(position < n)
      <4>1. from = higher_bits_length - 1 /\ q = n - 1 /\ higher_bits_length \in Nat
        BY <2>1, <3>2, HighParts
      <4> QED
        BY <2>1, <2>2, <2>3, <4>1
    <3> QED
      BY <3>1, <3>2
  <2>5. \A i \in 0..(n - 1) : i <= q => High(i) <= High(q)
    <3> SUFFICES ASSUME NEW i \in 0..(n - 1), i <= q PROVE High(i) <= High(q)
      OBVIOUS
    <3>1. i = q \/ i < q
      BY <2>2
    <3>2. i < q => High(i) < High(q)
      BY <2>1, <2>2, HighAscends
    <3> QED
      BY <2>2, <2>3, <3>1, <3>2
  <2> HIDE DEF q, from
  <2>6. High(q) \in S /\ \A y \in S : High(q) >= y
    BY <2>2, <2>3, <2>4, <2>5
  <2>7. \A x \in S : x \in Nat
    BY <2>2, <2>3
  <2>8. Max(S) = CHOOSE x \in S : \A y \in S : x >= y
    BY DEF Max
  <2> HIDE DEF S
  <2>9. \A x \in S : (\A y \in S : x >= y) => x = High(q)
    BY <2>6, <2>7
  <2>10. Max(S) = High(q)
    BY <2>6, <2>8, <2>9
  <2>11. prev_value = Decode(Max(S), position - 1)
    BY DEF prev_value, S, from
  <2> QED
    BY <2>1, <2>2, <2>10, <2>11, DecodeHigh DEF q
<1> QED
  BY <1>1, Invariance, PTL

\* The samples a call can follow exist, were written, and are the positions of the
\* zeros and of the ones they stand for; the bounds of the calls do not matter.
THEOREM SamplesCorrect == Spec => []SamplesLeadHome
<1>1. SequenceOK => SamplesLeadHome
  <2> SUFFICES ASSUME SequenceOK PROVE SamplesLeadHome
    OBVIOUS
  <2>1. /\ SequenceOK /\ n \in Nat /\ n > 0 /\ universe \in Nat /\ universe > 0
        /\ s0 \in Nat /\ s1 \in Nat /\ Top \in Nat /\ lower_bits \in Nat
    BY Sizes, HighParts, LowerBits
  <2>2. ASSUME NEW k \in 1..Shr(Shr(universe - 1, lower_bits), s0)
        PROVE  /\ k <= pointers0
               /\ Sample0[k] = Nth(ZerosFrom(At(0)), k * 2^s0)
    <3> DEFINE high == HighPart(universe - 1)
    <3>1. high \in Nat /\ high <= Top
      <4>1. universe - 1 \in Nat /\ universe - 1 <= universe
        BY <2>1
      <4> QED
        BY <2>1, <4>1, HighParts DEF Top
    <3>2. k \in Nat /\ k > 0 /\ k <= Shr(high, s0)
      <4>1. Shr(high, s0) \in Nat
        BY <2>1, <3>1, ShrIs
      <4>2. k \in 1..Shr(high, s0)
        BY <2>2 DEF HighPart
      <4> QED
        BY <4>1, <4>2
    <3> HIDE DEF high
    <3>3. k * 2^s0 <= high
      BY <2>1, <3>1, <3>2, ShrAtMost
    <3>4. 2^s0 \in Nat /\ k * 2^s0 \in Nat
      <4>1. 2^s0 \in Nat
        BY <2>1, PowerOfTwo
      <4> QED
        BY <3>2, <4>1
    <3> DEFINE z == k * 2^s0
    <3>5. z \in Nat /\ z <= Top + 1 /\ 0 + z = z
      <4>1. z \in Nat /\ z <= high
        BY <3>3, <3>4
      <4> HIDE DEF z
      <4> QED
        BY <2>1, <3>1, <4>1
    <3>6. k \in 1..pointers0 /\ Sample0[k] = Zero(z)
      BY <2>1, <3>2, <3>5, Sample0Is
    <3> HIDE DEF z
    <3>7. skip0(At(Zero(0)), z) = OnZero(0 + z)
      BY <2>1, <3>5, SkipFromZero
    <3>8. At(Zero(0)) = At(0)
      BY <2>1, Zeros
    <3>9. Nth(ZerosFrom(At(0)), z) = Zero(z)
      <4>1. skip0(At(0), z).pos = Nth(ZerosFrom(At(0)), z)
        BY DEF skip0
      <4>2. skip0(At(0), z).pos = Zero(z)
        BY <3>5, <3>7, <3>8 DEF OnZero
      <4> QED
        BY <4>1, <4>2
    <3>10. k <= pointers0
      BY <3>2, <3>6
    <3> QED
      BY <3>6, <3>9, <3>10 DEF z
  <2>3. ASSUME NEW k \in 1..Shr(n - 1, s1)
        PROVE  /\ k <= pointers1
               /\ Sample1[k] = Nth(Ones, k * 2^s1)
    <3>1. n - 1 \in Nat
      BY <2>1
    <3>2. k \in Nat /\ k > 0 /\ k <= Shr(n - 1, s1)
      <4>1. Shr(n - 1, s1) \in Nat
        BY <2>1, <3>1, ShrIs
      <4> QED
        BY <4>1
    <3>3. k * 2^s1 <= n - 1
      BY <2>1, <3>1, <3>2, ShrAtMost
    <3>4. k * 2^s1 \in Nat
      <4>1. 2^s1 \in Nat
        BY <2>1, PowerOfTwo
      <4> QED
        BY <3>2, <4>1
    <3> DEFINE z == k * 2^s1
    <3>5. z \in Nat /\ z < n /\ 0 + z = z /\ 0 + z < n
      <4>1. z \in Nat /\ z <= n - 1
        BY <3>3, <3>4
      <4> HIDE DEF z
      <4> QED
        BY <2>1, <4>1
    <3>6. k \in 1..pointers1 /\ Sample1[k] = High(z)
      BY <2>1, <3>2, <3>5, Sample1Is
    <3> HIDE DEF z
    <3>7. Nth(OnesAfter(0), z) = High(0 + z)
      BY <2>1, <3>5, NthOne
    <3>8. OnesAfter(0) = Ones
      <4>1. DOMAIN seq = 0..(n - 1)
        BY <2>1, Sizes
      <4> QED
        BY <4>1 DEF OnesAfter, Ones
    <3>9. k <= pointers1
      BY <3>2, <3>6
    <3> QED
      BY <3>5, <3>6, <3>7, <3>8, <3>9 DEF z
  <2> QED
    BY <2>2, <2>3 DEF SamplesLeadHome
<1>2. Init => SequenceOK
  BY InitInv DEF IInv
<1>3. SequenceOK /\ [Step]_vars => SequenceOK'
  BY WrittenStays
<1> QED
  BY <1>1, <1>2, <1>3, PTL DEF Spec

-----------------------------------------------------------------------------
(* The refinement *)

\* The abstract enumerator speaks of the same sequence in the same terms.
LEMMA AbstractOperators ==
  /\ Abstract!size = SizeOf(seq)
  /\ \A s, u, p : Abstract!ValueIn(s, u, p) = ValueIn(s, u, p)
  /\ \A s, u, p, bound : Abstract!Landing(s, u, p, bound) = Landing(s, u, p, bound)
<1>1. \A s : Abstract!SizeOf(s) = SizeOf(s)
  BY DEF Abstract!SizeOf, SizeOf, Abstract!Cardinality, Cardinality
<1>2. \A s, u, p : Abstract!ValueIn(s, u, p) = ValueIn(s, u, p)
  BY <1>1 DEF Abstract!ValueIn, ValueIn
<1>3. \A s, bound : Abstract!FirstAtLeast(s, bound) = FirstAtLeast(s, bound)
  BY <1>1 DEF Abstract!FirstAtLeast, FirstAtLeast
<1>4. \A s, u, p, bound : Abstract!Landing(s, u, p, bound) = Landing(s, u, p, bound)
  BY <1>2, <1>3 DEF Abstract!Landing, Landing
<1> QED
  BY <1>1, <1>2, <1>4 DEF Abstract!size

LEMMA LandsAbstractly ==
  ASSUME NEW p, Landed(p), UNCHANGED written
  PROVE  Abstract!LandAt(p)
BY AbstractOperators DEF Landed, written, Abstract!LandAt

LEMMA StepRefines ==
  ASSUME Beyond = 0, IInv, [Step]_vars
  PROVE  [Abstract!Step]_(Abstract!vars)
<1>0. /\ n \in Nat /\ universe \in Nat /\ SizeOf(seq) = n /\ Abstract!size = n
  BY Sizes, AbstractOperators DEF IInv
<1>1. ASSUME Step PROVE Abstract!Step
  <2>1. UNCHANGED written
    BY <1>1, StepLands
  <2>2. ASSUME NEW p \in 0..n, Landed(p), call' = <<"move", p>>
        PROVE  Abstract!Step
    <3>1. Abstract!Move(p) /\ p \in 0..Abstract!size
      BY <1>0, <2>1, <2>2, LandsAbstractly DEF Abstract!Move
    <3> QED
      BY <3>1 DEF Abstract!Step
  <2>3. ASSUME NEW bound \in 0..universe,
               Landed(Landing(seq, universe, position, bound)),
               call' = <<"next_geq", bound>>
        PROVE  Abstract!Step
    <3>1. bound \in 0..(universe + Beyond)
      BY <1>0
    <3>2. Abstract!LandAt(Abstract!Landing(seq, universe, position, bound))
      BY <2>1, <2>3, LandsAbstractly, AbstractOperators
    <3>3. Abstract!NextGeq(bound)
      BY <2>3, <3>2 DEF Abstract!NextGeq
    <3> QED
      BY <3>1, <3>3 DEF Abstract!Step
  <2>4. ASSUME position < n, Landed(position + 1), call' = <<"next", 0>>
        PROVE  Abstract!Step
    <3>1. Abstract!Next
      BY <1>0, <2>1, <2>4, LandsAbstractly DEF Abstract!Next
    <3> QED
      BY <3>1 DEF Abstract!Step
  <2> QED
    BY <1>1, <2>2, <2>3, <2>4, StepLands
<1>2. ASSUME UNCHANGED vars PROVE UNCHANGED Abstract!vars
  BY <1>2 DEF vars, Abstract!vars
<1> QED
  BY <1>1, <1>2

\* The enumerator of a compact_elias_fano is an enumerator of the index: whatever
\* was called before, the small and the slow paths of move, next and next_geq lead
\* where they lead on the sequence itself.
THEOREM Refinement == ASSUME Beyond = 0 PROVE Spec => RefinesSequenceEnumerator
<1>1. Init => Abstract!Init
  <2> SUFFICES ASSUME Init PROVE Abstract!Init
    OBVIOUS
  <2>1. IInv /\ position = n /\ call = <<"new", 0>>
    BY InitInv DEF Init
  <2>2. SizeOf(seq) = n /\ value = ValueIn(seq, universe, position)
    BY <2>1, Sizes DEF IInv, CursorOK
  <2> QED
    BY <2>1, <2>2, AbstractOperators DEF Abstract!Init
<1>2. IInv /\ [Step]_vars => [Abstract!Step]_(Abstract!vars)
  BY StepRefines
<1> QED
  BY <1>1, <1>2, Invariance, PTL
  DEF Spec, RefinesSequenceEnumerator, Abstract!Spec
=============================================================================

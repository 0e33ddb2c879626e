----------------------- MODULE SortedSequencesProofs -----------------------
(***************************************************************************)
(* What the operators of SortedSequences return, for every sequence, and   *)
(* the facts about numbers that these proofs and those of the components   *)
(* rest on: least and greatest elements, and products and quotients whose  *)
(* divisor is not a literal, such as a block size or a power of two.       *)
(***************************************************************************)
EXTENDS SortedSequences, FiniteSetTheorems, WellFoundedInduction, TLAPS

-----------------------------------------------------------------------------
(* Numbers *)

\* A set of numbers that is not empty has a least element.
LEMMA LeastElement ==
  ASSUME NEW S \in SUBSET Nat, S # {}
  PROVE  \E m \in S : \A e \in S : m <= e
<1>1. \E m \in S : \A e \in S : ~(<<e, m>> \in OpToRel(<, Nat))
  BY WFMin, NatLessThanWellFounded, Zenon
<1>2. PICK m \in S : \A e \in S : ~(<<e, m>> \in OpToRel(<, Nat))
  BY <1>1
<1>3. \A e \in S : <<e, m>> \in Nat \X Nat
  OBVIOUS
<1>4. \A e \in S : ~(e < m)
  BY <1>2, <1>3 DEF OpToRel
<1>5. \A e \in S : m <= e
  BY <1>4
<1> QED
  BY <1>5

\* The least number of a set from a bound on, or the end when there is none.
LEMMA FirstExists ==
  ASSUME NEW end \in Nat, NEW S \in SUBSET (0..end), NEW b \in Nat
  PROVE  \E d \in S \cup {end} :
           /\ d >= b \/ d = end
           /\ \A e \in S : e >= b => d <= e
<1> DEFINE from == {e \in S : e >= b}
<1>1. \A e \in S : e \in Nat /\ e <= end
  OBVIOUS
<1>2. CASE from = {}
  BY <1>1, <1>2
<1>3. CASE from # {}
  <2>1. PICK m \in from : \A e \in from : m <= e
    BY <1>1, <1>3, LeastElement
  <2> QED
    BY <1>1, <2>1
<1> QED
  BY <1>2, <1>3

\* A set of numbers up to a bound that is not empty has a greatest element.
LEMMA GreatestElement ==
  ASSUME NEW m \in Nat, NEW S \in SUBSET (0..m), S # {}
  PROVE  \E g \in S : \A e \in S : g >= e
<1> DEFINE T == {m - k : k \in S}
<1>1. T \in SUBSET Nat /\ T # {}
  <2>1. PICK k \in S : TRUE
    OBVIOUS
  <2>2. \A e \in S : m - e \in Nat
    OBVIOUS
  <2>3. m - k \in T
    OBVIOUS
  <2> QED
    BY <2>2, <2>3
<1>2. PICK d \in T : \A e \in T : d <= e
  BY <1>1, LeastElement
<1>3. PICK g \in S : d = m - g
  BY <1>2
<1>4. \A e \in S : m - g <= m - e
  BY <1>2, <1>3
<1>5. \A e \in S : g >= e
  BY <1>4
<1> QED
  BY <1>5

\* There are 2^k sets of numbers up to k, so 2^k is a number and not 0.
LEMMA PowerOfTwo ==
  ASSUME NEW k \in Nat
  PROVE  2^k \in Nat \ {0}
<1>1. IsFiniteSet(1..k) /\ Cardinality(1..k) = k
  BY FS_Interval
<1>2. /\ IsFiniteSet(SUBSET (1..k))
      /\ Cardinality(SUBSET (1..k)) = 2^Cardinality(1..k)
  BY <1>1, FS_SUBSET
<1>3. Cardinality(SUBSET (1..k)) = 2^k
  BY <1>1, <1>2
<1>4. Cardinality(SUBSET (1..k)) \in Nat
  BY <1>2, FS_CardinalityType
<1>5. Cardinality(SUBSET (1..k)) # 0
  <2>1. {} \in SUBSET (1..k)
    OBVIOUS
  <2> QED
    BY <1>2, <2>1, FS_EmptySet
<1> QED
  BY <1>3, <1>4, <1>5

\* A product grows with its factor.
LEMMA TimesMonotone ==
  ASSUME NEW a \in Nat, NEW b \in Nat, a <= b, NEW s \in Nat
  PROVE  a * s <= b * s
<1>1. PICK d \in Nat : b = a + d
  <2>1. b - a \in Nat /\ b = a + (b - a)
    OBVIOUS
  <2> QED
    BY <2>1
<1>2. b * s = a * s + d * s /\ d * s \in Nat /\ a * s \in Nat
  BY <1>1
<1> QED
  BY <1>2

\* What the quotient and the remainder of a number are.
LEMMA Division ==
  ASSUME NEW x \in Nat, NEW s \in Nat \ {0}
  PROVE  /\ x \div s \in Nat /\ x % s \in 0..(s - 1)
         /\ (x \div s) * s \in Nat
         /\ x = (x \div s) * s + (x % s)
         /\ (x \div s + 1) * s = (x \div s) * s + s
<1> DEFINE q == x \div s
<1>1. q \in Nat /\ x % s \in 0..(s - 1) /\ x = s * q + (x % s)
  OBVIOUS
<1> HIDE DEF q
<1>2. s * q = q * s /\ q * s \in Nat /\ (q + 1) * s = q * s + s
  BY <1>1
<1>3. x = q * s + (x % s)
  BY <1>1, <1>2
<1> QED
  BY <1>1, <1>2, <1>3, Zenon DEF q

\* They are the only numbers with that property.
LEMMA DivisionIs ==
  ASSUME NEW x \in Nat, NEW s \in Nat \ {0},
         NEW q \in Nat, NEW r \in 0..(s - 1), x = q * s + r
  PROVE  x \div s = q /\ x % s = r
<1> DEFINE p == x \div s
<1>1. /\ p \in Nat /\ x % s \in 0..(s - 1) /\ p * s \in Nat
      /\ x = p * s + (x % s) /\ (p + 1) * s = p * s + s
  BY Division
<1> HIDE DEF p
<1>2. q * s \in Nat /\ (q + 1) * s = q * s + s
  OBVIOUS
<1>3. ~(p < q)
  <2>1. SUFFICES ASSUME p < q PROVE FALSE
    OBVIOUS
  <2>2. (p + 1) * s <= q * s
    BY <1>1, <2>1, TimesMonotone
  <2> QED
    BY <1>1, <1>2, <2>2
<1>4. ~(q < p)
  <2>1. SUFFICES ASSUME q < p PROVE FALSE
    OBVIOUS
  <2>2. (q + 1) * s <= p * s
    BY <1>1, <2>1, TimesMonotone
  <2> QED
    BY <1>1, <1>2, <2>2
<1>5. p = q
  BY <1>1, <1>3, <1>4
<1>6. x % s = r
  BY <1>1, <1>2, <1>5
<1> QED
  BY <1>5, <1>6 DEF p

\* A number is at most a quotient when it fits into the number that many times.
LEMMA DivisionAtLeast ==
  ASSUME NEW x \in Nat, NEW s \in Nat \ {0}, NEW q \in Nat
  PROVE  q <= x \div s <=> q * s <= x
<1> DEFINE p == x \div s
<1>1. /\ p \in Nat /\ x % s \in 0..(s - 1) /\ p * s \in Nat
      /\ x = p * s + (x % s) /\ (p + 1) * s = p * s + s
  BY Division
<1> HIDE DEF p
<1>2. q * s \in Nat
  OBVIOUS
<1>3. ASSUME q <= p PROVE q * s <= x
  <2>1. q * s <= p * s
    BY <1>1, <1>3, TimesMonotone
  <2> QED
    BY <1>1, <1>2, <2>1
<1>4. ASSUME ~(q <= p) PROVE ~(q * s <= x)
  <2>1. (p + 1) * s <= q * s
    BY <1>1, <1>4, TimesMonotone
  <2> QED
    BY <1>1, <1>2, <2>1
<1> QED
  BY <1>3, <1>4 DEF p

\* A quotient grows with the number that is divided.
LEMMA DivisionMonotone ==
  ASSUME NEW x \in Nat, NEW y \in Nat, NEW s \in Nat \ {0}, x <= y
  PROVE  x \div s <= y \div s
<1> DEFINE p == x \div s
<1>1. p \in Nat /\ p * s \in Nat /\ x = p * s + (x % s) /\ x % s \in 0..(s - 1)
  BY Division
<1> HIDE DEF p
<1>2. p * s <= y
  BY <1>1
<1>3. p <= y \div s
  BY <1>1, <1>2, DivisionAtLeast
<1> QED
  BY <1>3 DEF p

-----------------------------------------------------------------------------
(* Sorted sequences *)

\* The length of a sequence on 0..m-1.
LEMMA SizeOfSequence ==
  ASSUME NEW s, NEW m \in Nat, DOMAIN s = 0..(m - 1)
  PROVE  SizeOf(s) = m
<1>1. Cardinality(0..(m - 1)) = IF 0 > m - 1 THEN 0 ELSE m - 1 - 0 + 1
  BY FS_Interval
<1> QED
  BY <1>1 DEF SizeOf

\* The position FirstAtLeast chooses exists, whatever the bound.
LEMMA FirstAtLeastFound ==
  ASSUME NEW s, NEW m \in Nat, DOMAIN s = 0..(m - 1),
         \A i \in 0..(m - 1) : s[i] \in Int,
         NEW bound \in Int
  PROVE  LET f == FirstAtLeast(s, bound)
         IN /\ f \in 0..m
            /\ f = m \/ s[f] >= bound
            /\ \A q \in 0..(f - 1) : s[q] < bound
<1> DEFINE S == {p \in 0..m : p = m \/ s[p] >= bound}
           F(p) == /\ p = m \/ s[p] >= bound
                   /\ \A q \in 0..(p - 1) : s[q] < bound
<1>1. S \in SUBSET Nat /\ S # {}
  <2>1. m \in S
    OBVIOUS
  <2> QED
    BY <2>1
<1>2. PICK p \in S : \A e \in S : p <= e
  BY <1>1, LeastElement
<1>3. ASSUME NEW q \in 0..(p - 1) PROVE s[q] < bound
  <2>1. q \in 0..(m - 1) /\ q < p
    BY <1>2
  <2>2. q \notin S
    BY <1>2, <2>1
  <2>3. ~(s[q] >= bound)
    BY <2>1, <2>2
  <2> QED
    BY <2>1, <2>3
<1>4. p \in 0..m /\ F(p)
  BY <1>2, <1>3
<1>5. SizeOf(s) = m
  BY SizeOfSequence
<1>6. FirstAtLeast(s, bound) = CHOOSE x \in 0..m : F(x)
  BY <1>5 DEF FirstAtLeast
<1> HIDE DEF F
<1>7. FirstAtLeast(s, bound) \in 0..m /\ F(FirstAtLeast(s, bound))
  BY <1>4, <1>6
<1> QED
  BY <1>7 DEF F

\* It is the only such position.
LEMMA FirstAtLeastIs ==
  ASSUME NEW s, NEW m \in Nat, DOMAIN s = 0..(m - 1),
         \A i \in 0..(m - 1) : s[i] \in Int,
         NEW bound \in Int,
         NEW p \in 0..m,
         p = m \/ s[p] >= bound,
         \A q \in 0..(p - 1) : s[q] < bound
  PROVE  FirstAtLeast(s, bound) = p
<1> DEFINE f == FirstAtLeast(s, bound)
<1>1. /\ f \in 0..m
      /\ f = m \/ s[f] >= bound
      /\ \A q \in 0..(f - 1) : s[q] < bound
  BY FirstAtLeastFound
<1> HIDE DEF f
<1>2. ~(f < p)
  <2>1. SUFFICES ASSUME f < p PROVE FALSE
    OBVIOUS
  <2>2. f \in 0..(p - 1) /\ f \in 0..(m - 1)
    BY <1>1, <2>1
  <2> QED
    BY <1>1, <2>2
<1>3. ~(p < f)
  <2>1. SUFFICES ASSUME p < f PROVE FALSE
    OBVIOUS
  <2>2. p \in 0..(f - 1) /\ p \in 0..(m - 1)
    BY <1>1, <2>1
  <2> QED
    BY <1>1, <2>2
<1> QED
  BY <1>1, <1>2, <1>3 DEF f

\* On a strictly ascending sequence it does not matter where the cursor was.
LEMMA LandingIsFirst ==
  ASSUME NEW s, NEW m \in Nat, DOMAIN s = 0..(m - 1),
         NEW u \in Int,
         \A i \in 0..(m - 1) : s[i] \in Int /\ s[i] < u,
         \A i, j \in 0..(m - 1) : i < j => s[i] < s[j],
         NEW p \in 0..m,
         NEW bound \in Int
  PROVE  Landing(s, u, p, bound) = FirstAtLeast(s, bound)
<1>1. SizeOf(s) = m
  BY SizeOfSequence
<1>2. CASE bound # ValueIn(s, u, p)
  BY <1>2 DEF Landing
<1>3. CASE bound = ValueIn(s, u, p)
  <2>1. p = m \/ s[p] >= bound
    BY <1>1, <1>3 DEF ValueIn
  <2>2. \A q \in 0..(p - 1) : s[q] < bound
    <3>1. CASE p = m
      BY <1>1, <1>3, <3>1 DEF ValueIn
    <3>2. CASE p # m
      <4>1. p \in 0..(m - 1) /\ bound = s[p]
        BY <1>1, <1>3, <3>2 DEF ValueIn
      <4> QED
        BY <4>1
    <3> QED
      BY <3>1, <3>2
  <2>3. FirstAtLeast(s, bound) = p
    BY <2>1, <2>2, FirstAtLeastIs
  <2> QED
    BY <1>3, <2>3 DEF Landing
<1> QED
  BY <1>2, <1>3

\* Numbers in ascending order, what they are, and which of a set are below one.
IsRow(f, a, m) == /\ f \in [a..m -> Int]
                  /\ \A i, j \in a..m : i < j => f[i] < f[j]

Listed(f, a, m) == {f[j] : j \in a..m}
Lower(S, x) == {q \in S : q < x}

\* Where a set of numbers is listed in ascending order, as many are below an
\* element as are listed before it.
LEMMA CountBelow ==
  ASSUME NEW a \in Int, NEW m \in Int, NEW f, IsRow(f, a, m),
         NEW j \in a..m
  PROVE  /\ IsFiniteSet(Lower(Listed(f, a, m), f[j]))
         /\ Cardinality(Lower(Listed(f, a, m), f[j])) = j - a
<1> DEFINE S == Listed(f, a, m)
           T == Lower(S, f[j])
           I == a..(j - 1)
           g == [i \in I |-> f[i]]
<1> USE DEF IsRow
<1>1. IsFiniteSet(I) /\ Cardinality(I) = j - a
  <2>1. j - 1 \in Int
    OBVIOUS
  <2> QED
    BY <2>1, FS_Interval
<1>2. \A i \in I : i \in a..m /\ i < j
  OBVIOUS
<1>3. \A i \in a..m : f[i] < f[j] => i \in I
  <2> SUFFICES ASSUME NEW i \in a..m, f[i] < f[j], i >= j PROVE FALSE
    OBVIOUS
  <2>1. f[i] >= f[j] /\ f[i] \in Int /\ f[j] \in Int
    <3>1. CASE i = j
      BY <3>1
    <3>2. CASE j < i
      BY <3>2
    <3> QED
      BY <3>1, <3>2
  <2> QED
    BY <2>1
<1>4. T = {f[i] : i \in I}
  <2>1. \A q \in T : \E i \in I : q = f[i]
    BY <1>3 DEF Lower, Listed
  <2>2. \A i \in I : f[i] \in T
    BY <1>2 DEF Lower, Listed
  <2> QED
    BY <2>1, <2>2
<1>5. \A x, y \in I : f[x] = f[y] => x = y
  <2> SUFFICES ASSUME NEW x \in I, NEW y \in I, f[x] = f[y], x < y \/ y < x
               PROVE  FALSE
    OBVIOUS
  <2>1. x \in a..m /\ y \in a..m /\ f[x] \in Int /\ f[y] \in Int
    BY <1>2
  <2>2. f[x] < f[y] \/ f[y] < f[x]
    BY <2>1
  <2> QED
    BY <2>1, <2>2
<1> HIDE DEF I, T
<1>6. g \in [I -> T]
  BY <1>4
<1>7. g \in Bijection(I, T)
  BY <1>4, <1>5, <1>6 DEF Bijection, Injection, IsInjective, Surjection
<1>8. IsFiniteSet(T) /\ Cardinality(T) = Cardinality(I)
  BY <1>1, <1>7, FS_Bijection DEF ExistsBijection
<1> QED
  BY <1>1, <1>8 DEF T

\* The element that k others are below is the k-th in such a list.
LEMMA RankInAscending ==
  ASSUME NEW a \in Int, NEW m \in Int, NEW f, IsRow(f, a, m),
         NEW k \in Nat, a + k <= m
  PROVE  LET S == Listed(f, a, m)
         IN  /\ f[a + k] \in S
             /\ Cardinality(Lower(S, f[a + k])) = k
             /\ \A x \in S : Cardinality(Lower(S, x)) = k => x = f[a + k]
<1> DEFINE S == Listed(f, a, m)
<1>1. ASSUME NEW j \in a..m
      PROVE  Cardinality(Lower(S, f[j])) = j - a
  BY CountBelow
<1>2. a + k \in a..m
  OBVIOUS
<1>3. f[a + k] \in S /\ Cardinality(Lower(S, f[a + k])) = k
  <2>1. f[a + k] \in S /\ a + k - a = k
    BY <1>2 DEF Listed
  <2> HIDE DEF S
  <2>2. Cardinality(Lower(S, f[a + k])) = a + k - a
    BY <1>1, <1>2
  <2> QED
    BY <2>1, <2>2
<1>4. \A x \in S : Cardinality(Lower(S, x)) = k => x = f[a + k]
  <2> SUFFICES ASSUME NEW j \in a..m, Cardinality(Lower(S, f[j])) = k
               PROVE  f[j] = f[a + k]
    BY DEF Listed
  <2>1. j - a = k
    BY <1>1
  <2>2. j = a + k
    BY <2>1
  <2> QED
    BY <2>2
<1> QED
  BY <1>3, <1>4
-----------------------------------------------------------------------------
(* Sums.  A fold over a set takes its elements one by one as CHOOSE gives  *)
(* them: what it adds up does not depend on that.                          *)

Chosen(s) == CHOOSE x \in s : TRUE

IsSum(sum, f, U) ==
  sum = [s \in SUBSET U |->
           IF s = {} THEN 0 ELSE f[Chosen(s)] + sum[s \ {Chosen(s)}]]

Total(f, U) == (CHOOSE sum : IsSum(sum, f, U))[U]

\* There is one such function: it is built up set by set, and two that differ
\* would differ on a least set.
LEMMA ChosenIsIn ==
  ASSUME NEW s, s # {}
  PROVE  Chosen(s) \in s
BY DEF Chosen

\* A finite set has a table of sums, by its smallest subset without one.
LEMMA SumExists ==
  ASSUME NEW U, IsFiniteSet(U), NEW f, \A x \in U : f[x] \in Nat
  PROVE  \E sum \in [SUBSET U -> Nat] : IsSum(sum, f, U)
<1> DEFINE Small(n) == {s \in SUBSET U : Cardinality(s) <= n}
           Partial(n, sum) ==
             \A s \in Small(n) :
               sum[s] = IF s = {} THEN 0 ELSE f[Chosen(s)] + sum[s \ {Chosen(s)}]
           Good(n) == \E sum \in [SUBSET U -> Nat] : Partial(n, sum)
           Bad == {n \in Nat : ~Good(n)}
<1>1. \A s \in SUBSET U : IsFiniteSet(s) /\ Cardinality(s) \in Nat
                          /\ Cardinality(s) <= Cardinality(U)
  BY FS_Subset, FS_CardinalityType
<1>2. \A s \in SUBSET U : s # {} =>
        /\ Chosen(s) \in U /\ s \ {Chosen(s)} \in SUBSET U
        /\ Cardinality(s \ {Chosen(s)}) = Cardinality(s) - 1
        /\ s \ {Chosen(s)} # s
  BY <1>1, ChosenIsIn, FS_RemoveElement
<1>3. Good(0)
  <2> DEFINE zero == [s \in SUBSET U |-> 0]
  <2>1. zero \in [SUBSET U -> Nat]
    OBVIOUS
  <2>2. \A s \in Small(0) : s = {}
    BY <1>1, FS_EmptySet
  <2>3. Partial(0, zero)
    BY <2>2
  <2> QED
    BY <2>1, <2>3
<1>4. ASSUME NEW n \in Nat, Good(n) PROVE Good(n + 1)
  <2>1. PICK sum \in [SUBSET U -> Nat] : Partial(n, sum)
    BY <1>4
  <2> DEFINE more == [s \in SUBSET U |->
               IF s = {} THEN 0 ELSE f[Chosen(s)] + sum[s \ {Chosen(s)}]]
  <2>2. more \in [SUBSET U -> Nat]
    <3>1. \A s \in SUBSET U : s # {} =>
            f[Chosen(s)] \in Nat /\ sum[s \ {Chosen(s)}] \in Nat
      BY <1>2
    <3>2. \A s \in SUBSET U :
            (IF s = {} THEN 0 ELSE f[Chosen(s)] + sum[s \ {Chosen(s)}]) \in Nat
      BY <3>1
    <3> QED
      BY <3>2
  <2>3. \A s \in Small(n) : more[s] = sum[s]
    BY <2>1
  <2>4. \A s \in Small(n + 1) : s # {} => s \ {Chosen(s)} \in Small(n)
    BY <1>1, <1>2
  <2>5. Partial(n + 1, more)
    <3> SUFFICES ASSUME NEW s \in Small(n + 1)
                 PROVE  more[s] = IF s = {} THEN 0
                                  ELSE f[Chosen(s)] + more[s \ {Chosen(s)}]
      OBVIOUS
    <3>1. CASE s = {}
      BY <3>1
    <3>2. CASE s # {}
      BY <2>3, <2>4, <3>2
    <3> QED
      BY <3>1, <3>2
  <2>6. \E any \in [SUBSET U -> Nat] : Partial(n + 1, any)
    <3> HIDE DEF more, Partial
    <3> QED
      BY <2>2, <2>5
  <2> QED
    BY <2>6
<1>5. Bad = {}
  <2>1. SUFFICES ASSUME Bad # {} PROVE FALSE
    OBVIOUS
  <2> HIDE DEF Good
  <2>2. PICK n \in Bad : \A m \in Bad : n <= m
    BY <2>1, LeastElement
  <2>3. n # 0 /\ n - 1 \in Nat /\ ~(n - 1 \in Bad)
    BY <1>3, <2>2
  <2> QED
    BY <1>4, <2>2, <2>3
<1>6. PICK sum \in [SUBSET U -> Nat] : Partial(Cardinality(U), sum)
  <2>1. Cardinality(U) \in Nat
    BY FS_CardinalityType
  <2> HIDE DEF Partial
  <2> QED
    BY <1>5, <2>1
<1>7. \A s \in SUBSET U : s \in Small(Cardinality(U))
  BY <1>1
<1>8. IsSum(sum, f, U)
  BY <1>6, <1>7 DEF IsSum
<1> QED
  BY <1>8

\* What holds of every finite set or fails on one all of whose subsets with
\* one element less it holds of.
LEMMA MinimalSet ==
  ASSUME NEW U, IsFiniteSet(U), NEW C \in SUBSET (SUBSET U), C # {}
  PROVE  \E s \in C : \A x \in s : s \ {x} \notin C
<1> DEFINE sizes == {Cardinality(s) : s \in C}
<1>1. \A s \in SUBSET U : IsFiniteSet(s) /\ Cardinality(s) \in Nat
  BY FS_Subset, FS_CardinalityType
<1>2. sizes \in SUBSET Nat /\ sizes # {}
  BY <1>1
<1>3. PICK n \in sizes : \A m \in sizes : n <= m
  BY <1>2, LeastElement
<1>4. PICK s \in C : Cardinality(s) = n
  BY <1>3
<1>5. ASSUME NEW x \in s, s \ {x} \in C PROVE FALSE
  <2>1. Cardinality(s \ {x}) = Cardinality(s) - 1
    BY <1>1, FS_RemoveElement
  <2>2. n <= Cardinality(s \ {x})
    BY <1>3, <1>5
  <2>3. n \in Nat
    BY <1>2
  <2> QED
    BY <1>4, <2>1, <2>2, <2>3
<1> QED
  BY <1>4, <1>5

\* A sum is a number; any element can be taken first; and it is the same
\* function on a smaller universe.
LEMMA SumIsNat ==
  ASSUME NEW U, IsFiniteSet(U), NEW f, \A x \in U : f[x] \in Nat,
         NEW sum, IsSum(sum, f, U)
  PROVE  \A s \in SUBSET U : sum[s] \in Nat
<1> DEFINE C == {s \in SUBSET U : ~(sum[s] \in Nat)}
<1>1. SUFFICES ASSUME C # {} PROVE FALSE
  OBVIOUS
<1>2. \A s \in SUBSET U : sum[s] = IF s = {} THEN 0 ELSE f[Chosen(s)] + sum[s \ {Chosen(s)}]
  BY DEF IsSum
<1>3. PICK s \in C : \A x \in s : s \ {x} \notin C
  BY <1>1, MinimalSet
<1>4. s # {}
  BY <1>2, <1>3
<1>5. Chosen(s) \in s /\ s \ {Chosen(s)} \in SUBSET U
  BY <1>4, ChosenIsIn
<1>6. sum[s \ {Chosen(s)}] \in Nat /\ f[Chosen(s)] \in Nat
  BY <1>3, <1>5
<1> QED
  BY <1>2, <1>3, <1>4, <1>6

\* In a table of sums any element may be taken out first, not only the chosen one.
LEMMA SumRemove ==
  ASSUME NEW U, IsFiniteSet(U), NEW f, \A x \in U : f[x] \in Nat,
         NEW sum, IsSum(sum, f, U)
  PROVE  \A s \in SUBSET U : \A x \in s : sum[s] = f[x] + sum[s \ {x}]
<1> DEFINE C == {s \in SUBSET U : \E x \in s : ~(sum[s] = f[x] + sum[s \ {x}])}
<1>1. SUFFICES ASSUME C # {} PROVE FALSE
  OBVIOUS
<1>2. \A s \in SUBSET U : s # {} => sum[s] = f[Chosen(s)] + sum[s \ {Chosen(s)}]
  BY DEF IsSum
<1>3. PICK s \in C : \A x \in s : s \ {x} \notin C
  BY <1>1, MinimalSet
<1>4. PICK x \in s : ~(sum[s] = f[x] + sum[s \ {x}])
  BY <1>3
<1> DEFINE c == Chosen(s)
           rest == (s \ {c}) \ {x}
<1>5. c \in s
  BY <1>4, ChosenIsIn
<1>6. sum[s] = f[c] + sum[s \ {c}]
  BY <1>2, <1>3, <1>5
<1>7. c # x
  BY <1>4, <1>6
<1>8. sum[s \ {c}] = f[x] + sum[rest]
  BY <1>3, <1>5, <1>7
<1>9. sum[s \ {x}] = f[c] + sum[rest]
  <2>1. (s \ {x}) \ {c} = rest
    OBVIOUS
  <2> HIDE DEF c, rest
  <2> QED
    BY <1>3, <1>5, <1>7, <2>1
<1>10. f[x] \in Nat /\ f[c] \in Nat /\ sum[rest] \in Nat
  BY <1>3, <1>5, SumIsNat
<1> QED
  BY <1>4, <1>6, <1>8, <1>9, <1>10

\* The table of a smaller set is the part of the larger one.
LEMMA SumRestricts ==
  ASSUME NEW U, IsFiniteSet(U), NEW f, NEW sum, IsSum(sum, f, U),
         NEW V \in SUBSET U, NEW part, IsSum(part, f, V)
  PROVE  \A s \in SUBSET V : part[s] = sum[s]
<1> DEFINE C == {s \in SUBSET V : part[s] # sum[s]}
<1>1. SUFFICES ASSUME C # {} PROVE FALSE
  OBVIOUS
<1>2. IsFiniteSet(V)
  BY FS_Subset
<1>3. PICK s \in C : \A x \in s : s \ {x} \notin C
  BY <1>1, <1>2, MinimalSet
<1>4. \A t \in SUBSET V :
        /\ part[t] = IF t = {} THEN 0 ELSE f[Chosen(t)] + part[t \ {Chosen(t)}]
        /\ sum[t] = IF t = {} THEN 0 ELSE f[Chosen(t)] + sum[t \ {Chosen(t)}]
  BY DEF IsSum
<1>5. s # {}
  BY <1>3, <1>4
<1>6. Chosen(s) \in s /\ part[s \ {Chosen(s)}] = sum[s \ {Chosen(s)}]
  BY <1>3, <1>5, ChosenIsIn
<1> QED
  BY <1>3, <1>4, <1>5, <1>6

\* What a total is, and that an element adds its weight to it.
LEMMA TotalIs ==
  ASSUME NEW S, IsFiniteSet(S), NEW f, \A x \in S : f[x] \in Nat
  PROVE  /\ IsSum(CHOOSE sum : IsSum(sum, f, S), f, S)
         /\ Total(f, S) \in Nat
         /\ S = {} => Total(f, S) = 0
<1>1. \E sum : IsSum(sum, f, S)
  BY SumExists
<1> DEFINE c == CHOOSE sum : IsSum(sum, f, S)
<1>2. IsSum(c, f, S)
  BY <1>1
<1>3. Total(f, S) = c[S]
  BY DEF Total
<1> HIDE DEF c
<1>4. S \in SUBSET S
  OBVIOUS
<1>5. c[S] \in Nat
  BY <1>2, <1>4, SumIsNat
<1>6. S = {} => c[S] = 0
  BY <1>2, <1>4 DEF IsSum
<1> QED
  BY <1>2, <1>3, <1>5, <1>6 DEF c

\* A sum is that of an element and of the others.
LEMMA TotalRemove ==
  ASSUME NEW S, IsFiniteSet(S), NEW f, \A x \in S : f[x] \in Nat, NEW e \in S
  PROVE  Total(f, S) = f[e] + Total(f, S \ {e})
<1> DEFINE c == CHOOSE sum : IsSum(sum, f, S)
           r == CHOOSE sum : IsSum(sum, f, S \ {e})
<1>1. IsFiniteSet(S \ {e}) /\ \A x \in S \ {e} : f[x] \in Nat
  BY FS_RemoveElement
<1>2. IsSum(c, f, S)
  BY TotalIs
<1>3. IsSum(r, f, S \ {e})
  BY <1>1, TotalIs
<1>4. Total(f, S) = c[S] /\ Total(f, S \ {e}) = r[S \ {e}]
  BY DEF Total
<1> HIDE DEF c, r
<1>5. r[S \ {e}] = c[S \ {e}]
  <2>1. S \ {e} \in SUBSET S /\ S \ {e} \in SUBSET (S \ {e})
    OBVIOUS
  <2> QED
    BY <1>2, <1>3, <2>1, SumRestricts
<1>6. c[S] = f[e] + c[S \ {e}]
  <2>1. S \in SUBSET S
    OBVIOUS
  <2> QED
    BY <1>2, <2>1, SumRemove
<1> QED
  BY <1>4, <1>5, <1>6

\* The same for an element that is added.
LEMMA TotalAdd ==
  ASSUME NEW S, IsFiniteSet(S), NEW f, \A x \in S : f[x] \in Nat,
         NEW e, e \notin S, f[e] \in Nat
  PROVE  Total(f, S \cup {e}) = Total(f, S) + f[e]
<1>1. IsFiniteSet(S \cup {e}) /\ \A x \in S \cup {e} : f[x] \in Nat
  BY FS_AddElement
<1>2. Total(f, S \cup {e}) = f[e] + Total(f, (S \cup {e}) \ {e})
  BY <1>1, TotalRemove
<1>3. (S \cup {e}) \ {e} = S
  OBVIOUS
<1>4. Total(f, S) \in Nat
  BY TotalIs, Zenon
<1>5. Total(f, S \cup {e}) = f[e] + Total(f, S)
  BY <1>2, <1>3, Zenon
<1> QED
  BY <1>4, <1>5

\* A total grows with its set.
LEMMA TotalGrows ==
  ASSUME NEW S, IsFiniteSet(S), NEW f, \A x \in S : f[x] \in Nat,
         NEW T \in SUBSET S
  PROVE  Total(f, T) <= Total(f, S)
<1> DEFINE C == {R \in SUBSET S : T \subseteq R /\ ~(Total(f, T) <= Total(f, R))}
<1>1. SUFFICES ASSUME C # {} PROVE FALSE
  OBVIOUS
<1>2. \A R \in SUBSET S : IsFiniteSet(R) /\ (\A x \in R : f[x] \in Nat) /\ Total(f, R) \in Nat
  <2> SUFFICES ASSUME NEW R \in SUBSET S
               PROVE  IsFiniteSet(R) /\ (\A x \in R : f[x] \in Nat) /\ Total(f, R) \in Nat
    OBVIOUS
  <2>1. IsFiniteSet(R) /\ \A x \in R : f[x] \in Nat
    BY FS_Subset
  <2> QED
    BY <2>1, TotalIs, Zenon
<1>3. PICK R \in C : \A x \in R : R \ {x} \notin C
  <2>1. C \in SUBSET (SUBSET S)
    OBVIOUS
  <2> HIDE DEF C
  <2> QED
    BY <1>1, <2>1, MinimalSet
<1>4. R \in SUBSET S /\ T \subseteq R /\ ~(Total(f, T) <= Total(f, R))
  BY <1>3
<1>5. R # T
  BY <1>2, <1>4
<1>6. PICK x \in R : x \notin T
  BY <1>4, <1>5
<1>7. Total(f, R) = f[x] + Total(f, R \ {x}) /\ f[x] \in Nat
  BY <1>2, <1>4, TotalRemove
<1>8. R \ {x} \in SUBSET S /\ T \subseteq R \ {x}
  BY <1>4, <1>6
<1>9. Total(f, T) <= Total(f, R \ {x})
  BY <1>3, <1>8
<1> QED
  BY <1>2, <1>4, <1>7, <1>8, <1>9

\* A total of weights that are no larger is no larger.
LEMMA TotalMonotone ==
  ASSUME NEW S, IsFiniteSet(S), NEW f, NEW g,
         \A x \in S : f[x] \in Nat /\ g[x] \in Nat /\ f[x] <= g[x]
  PROVE  Total(f, S) <= Total(g, S)
<1> DEFINE C == {R \in SUBSET S : ~(Total(f, R) <= Total(g, R))}
<1>1. SUFFICES ASSUME C # {} PROVE FALSE
  OBVIOUS
<1>2. ASSUME NEW R \in SUBSET S
      PROVE  /\ IsFiniteSet(R) /\ Total(f, R) \in Nat /\ Total(g, R) \in Nat
             /\ R = {} => Total(f, R) = 0
             /\ \A x \in R : /\ Total(f, R) = f[x] + Total(f, R \ {x})
                             /\ Total(g, R) = g[x] + Total(g, R \ {x})
  <2>1. IsFiniteSet(R) /\ \A x \in R : f[x] \in Nat /\ g[x] \in Nat
    BY FS_Subset
  <2>2. /\ Total(f, R) \in Nat /\ Total(g, R) \in Nat
        /\ R = {} => Total(f, R) = 0
    BY <2>1, TotalIs
  <2>3. \A x \in R : Total(f, R) = f[x] + Total(f, R \ {x})
    BY <2>1, TotalRemove
  <2>4. \A x \in R : Total(g, R) = g[x] + Total(g, R \ {x})
    BY <2>1, TotalRemove
  <2> QED
    BY <2>1, <2>2, <2>3, <2>4
<1>3. PICK R \in C : \A x \in R : R \ {x} \notin C
  <2>1. C \in SUBSET (SUBSET S)
    OBVIOUS
  <2> HIDE DEF C
  <2> QED
    BY <1>1, <2>1, MinimalSet
<1>4. R \in SUBSET S /\ ~(Total(f, R) <= Total(g, R))
  BY <1>3
<1>5. R # {}
  BY <1>2, <1>4
<1>6. PICK x \in R : TRUE
  BY <1>5
<1>7. R \ {x} \in SUBSET S
  BY <1>4
<1>8. Total(f, R \ {x}) <= Total(g, R \ {x})
  BY <1>3, <1>6, <1>7
<1>9. /\ Total(f, R) = f[x] + Total(f, R \ {x})
      /\ Total(g, R) = g[x] + Total(g, R \ {x})
      /\ Total(f, R \ {x}) \in Nat /\ Total(g, R \ {x}) \in Nat
  BY <1>2, <1>4, <1>6, <1>7
<1>10. f[x] \in Nat /\ g[x] \in Nat /\ f[x] <= g[x]
  BY <1>4, <1>6
<1> QED
  BY <1>4, <1>8, <1>9, <1>10

\* The elements of a set that is no larger than another, and is lighter where
\* they differ, weigh no more: take out one that both have, or one of each.
LEMMA TotalLightest ==
  ASSUME NEW U, IsFiniteSet(U), NEW f, \A x \in U : f[x] \in Nat,
         NEW A0 \in SUBSET U, NEW B0 \in SUBSET U,
         Cardinality(A0) <= Cardinality(B0),
         \A a \in A0 \ B0, b \in B0 \ A0 : f[a] <= f[b]
  PROVE  Total(f, A0) <= Total(f, B0)
<1> DEFINE Fits(A, B) == /\ Cardinality(A) <= Cardinality(B)
                         /\ \A a \in A \ B, b \in B \ A : f[a] <= f[b]
           Heavier(A, B) == ~(Total(f, A) <= Total(f, B))
           C == {A \in SUBSET U : \E B \in SUBSET U : Fits(A, B) /\ Heavier(A, B)}
<1>1. SUFFICES ASSUME C # {} PROVE FALSE
  BY <1>1
<1>2. ASSUME NEW R \in SUBSET U
      PROVE  /\ IsFiniteSet(R) /\ Cardinality(R) \in Nat /\ Total(f, R) \in Nat
             /\ R = {} => Total(f, R) = 0
             /\ \A x \in R : /\ Total(f, R) = f[x] + Total(f, R \ {x})
                             /\ Cardinality(R \ {x}) = Cardinality(R) - 1
  <2>1. IsFiniteSet(R) /\ \A x \in R : f[x] \in Nat
    BY FS_Subset
  <2>2. Total(f, R) \in Nat /\ (R = {} => Total(f, R) = 0)
    BY <2>1, TotalIs
  <2>3. \A x \in R : Total(f, R) = f[x] + Total(f, R \ {x})
    BY <2>1, TotalRemove
  <2>4. Cardinality(R) \in Nat
    BY <2>1, FS_CardinalityType
  <2>5. \A x \in R : Cardinality(R \ {x}) = Cardinality(R) - 1
    BY <2>1, FS_RemoveElement
  <2> QED
    BY <2>1, <2>2, <2>3, <2>4, <2>5
<1>3. PICK A \in C : \A x \in A : A \ {x} \notin C
  <2>1. C \in SUBSET (SUBSET U)
    OBVIOUS
  <2> HIDE DEF C
  <2> QED
    BY <1>1, <2>1, MinimalSet
<1>4. PICK B \in SUBSET U : Fits(A, B) /\ Heavier(A, B)
  BY <1>3
<1>5. A \in SUBSET U
  BY <1>3
<1>6. A # {}
  <2>1. Total(f, B) \in Nat
    BY <1>2
  <2>2. A = {} => Total(f, A) = 0
    BY <1>2, <1>5
  <2> QED
    BY <1>4, <2>1, <2>2
<1>7. ASSUME NEW x \in A, NEW y \in B, f[x] <= f[y],
             Fits(A \ {x}, B \ {y})
      PROVE  FALSE
  <2>1. A \ {x} \in SUBSET U /\ B \ {y} \in SUBSET U
    BY <1>5
  <2>2. ~Heavier(A \ {x}, B \ {y})
    BY <1>3, <1>7, <2>1
  <2>3. /\ Total(f, A) = f[x] + Total(f, A \ {x})
        /\ Total(f, B) = f[y] + Total(f, B \ {y})
        /\ Total(f, A \ {x}) \in Nat /\ Total(f, B \ {y}) \in Nat
    BY <1>2, <1>5, <2>1
  <2>4. f[x] \in Nat /\ f[y] \in Nat
    BY <1>5
  <2> QED
    BY <1>4, <1>7, <2>2, <2>3, <2>4
<1>8. \A x \in A, y \in B : Cardinality(A \ {x}) <= Cardinality(B \ {y})
  <2> SUFFICES ASSUME NEW x \in A, NEW y \in B
               PROVE  Cardinality(A \ {x}) <= Cardinality(B \ {y})
    OBVIOUS
  <2>1. /\ Cardinality(A \ {x}) = Cardinality(A) - 1 /\ Cardinality(A) \in Nat
        /\ Cardinality(B \ {y}) = Cardinality(B) - 1 /\ Cardinality(B) \in Nat
    BY <1>2, <1>5
  <2> QED
    BY <1>4, <2>1
<1>9. CASE A \subseteq B
  <2>1. PICK x \in A : x \in B
    BY <1>6, <1>9
  <2>2. f[x] <= f[x]
    BY <1>5
  <2>3. (A \ {x}) \ (B \ {x}) \subseteq A \ B /\ (B \ {x}) \ (A \ {x}) \subseteq B \ A
    OBVIOUS
  <2>4. Fits(A \ {x}, B \ {x})
    BY <1>4, <1>8, <2>1, <2>3
  <2> QED
    BY <1>7, <2>1, <2>2, <2>4
<1>10. CASE ~(A \subseteq B)
  <2>1. PICK x \in A : x \notin B
    BY <1>10
  <2>2. PICK y \in B : y \notin A
    <3>1. SUFFICES ASSUME B \subseteq A PROVE FALSE
      OBVIOUS
    <3>2. B \subseteq A \ {x} /\ A \ {x} \in SUBSET U
      BY <1>5, <2>1, <3>1
    <3>3. Cardinality(B) <= Cardinality(A \ {x})
      <4>1. IsFiniteSet(A \ {x})
        BY <1>2, <3>2
      <4> QED
        BY <3>2, <4>1, FS_Subset
    <3>4. Cardinality(A \ {x}) = Cardinality(A) - 1 /\ Cardinality(A) \in Nat
          /\ Cardinality(B) \in Nat
      BY <1>2, <1>5, <2>1
    <3> QED
      BY <1>4, <3>3, <3>4
  <2>3. f[x] <= f[y]
    BY <1>4, <2>1, <2>2
  <2>4. (A \ {x}) \ (B \ {y}) \subseteq A \ B /\ (B \ {y}) \ (A \ {x}) \subseteq B \ A
    BY <2>1, <2>2
  <2>5. Fits(A \ {x}, B \ {y})
    BY <1>4, <1>8, <2>1, <2>2, <2>4
  <2> QED
    BY <1>7, <2>1, <2>2, <2>3, <2>5
<1> QED
  BY <1>9, <1>10

\* A finite set of numbers that is not empty has a greatest element.
LEMMA FiniteGreatest ==
  ASSUME NEW S \in SUBSET Nat, IsFiniteSet(S), S # {}
  PROVE  \E g \in S : \A e \in S : g >= e
<1> DEFINE C == {R \in SUBSET S : R # {} /\ ~\E g \in R : \A e \in R : g >= e}
<1>1. SUFFICES ASSUME C # {} PROVE FALSE
  OBVIOUS
<1>2. C \in SUBSET (SUBSET S)
  OBVIOUS
<1>3. PICK R \in C : \A x \in R : R \ {x} \notin C
  <2> HIDE DEF C
  <2> QED
    BY <1>1, <1>2, MinimalSet
<1>4. R \in SUBSET S /\ R # {} /\ ~\E g \in R : \A e \in R : g >= e
  BY <1>3
<1>5. PICK x \in R : TRUE
  BY <1>4
<1>6. CASE R \ {x} = {}
  BY <1>4, <1>5, <1>6
<1>7. CASE R \ {x} # {}
  <2>1. PICK g \in R \ {x} : \A e \in R \ {x} : g >= e
    BY <1>3, <1>4, <1>7
  <2> QED
    BY <1>4, <1>5, <2>1
<1> QED
  BY <1>6, <1>7
\* A set of numbers up to n has all of them when it has 0 and what follows
\* each one it has.
LEMMA UpTo ==
  ASSUME NEW n \in Nat, NEW S, 0 \in S, \A k \in 0..(n - 1) : k \in S => k + 1 \in S
  PROVE  \A k \in 0..n : k \in S
<1> DEFINE Bad == {k \in 0..n : k \notin S}
<1>1. SUFFICES ASSUME Bad # {} PROVE FALSE
  OBVIOUS
<1>2. PICK k \in Bad : \A j \in Bad : k <= j
  <2>1. Bad \in SUBSET Nat
    OBVIOUS
  <2> QED
    BY <1>1, <2>1, LeastElement
<1>3. k \in 0..n /\ k \notin S /\ k # 0
  BY <1>2
<1>4. k - 1 \in 0..(n - 1) /\ k - 1 \in 0..n /\ ~(k <= k - 1) /\ k - 1 + 1 = k
  BY <1>3
<1>5. k - 1 \in S
  BY <1>2, <1>4
<1> QED
  BY <1>3, <1>4, <1>5

\* Totals only depend on the weights of the elements.
LEMMA TotalSame ==
  ASSUME NEW S, IsFiniteSet(S), NEW f, NEW g, \A x \in S : f[x] \in Nat /\ f[x] = g[x]
  PROVE  Total(f, S) = Total(g, S)
<1>1. \A x \in S : /\ f[x] \in Nat /\ g[x] \in Nat /\ f[x] <= g[x]
                   /\ g[x] <= f[x]
  OBVIOUS
<1>2. Total(f, S) <= Total(g, S)
  BY <1>1, TotalMonotone
<1>3. Total(g, S) <= Total(f, S)
  BY <1>1, TotalMonotone
<1>4. Total(f, S) \in Nat
  BY <1>1, TotalIs
<1>5. Total(g, S) \in Nat
  BY <1>1, TotalIs
<1> QED
  BY <1>2, <1>3, <1>4, <1>5

\* The total of nothing.
LEMMA TotalEmpty ==
  ASSUME NEW f
  PROVE  Total(f, {}) = 0
<1>1. IsFiniteSet({}) /\ \A x \in {} : f[x] \in Nat
  BY FS_EmptySet
<1> QED
  BY <1>1, TotalIs

\* One weight changes.
LEMMA TotalChanges ==
  ASSUME NEW S, IsFiniteSet(S), NEW f, NEW g, NEW e \in S,
         \A x \in S : f[x] \in Nat /\ g[x] \in Nat,
         \A x \in S \ {e} : g[x] = f[x]
  PROVE  Total(g, S) = Total(f, S) - f[e] + g[e]
<1>1. IsFiniteSet(S \ {e}) /\ \A x \in S \ {e} : f[x] \in Nat /\ f[x] = g[x]
  BY FS_RemoveElement
<1>2. Total(f, S \ {e}) = Total(g, S \ {e})
  BY <1>1, TotalSame
<1>3. Total(f, S) = f[e] + Total(f, S \ {e})
  BY TotalRemove
<1>4. Total(g, S) = g[e] + Total(g, S \ {e})
  BY TotalRemove
<1>5. Total(f, S \ {e}) \in Nat
  BY <1>1, TotalIs
<1>6. f[e] \in Nat /\ g[e] \in Nat
  OBVIOUS
<1> QED
  BY <1>2, <1>3, <1>4, <1>5, <1>6

\* A total of sums is the sum of the totals.
LEMMA TotalOfSums ==
  ASSUME NEW S, IsFiniteSet(S), NEW f, NEW g, NEW h,
         \A x \in S : f[x] \in Nat /\ g[x] \in Nat /\ h[x] = f[x] + g[x]
  PROVE  Total(h, S) = Total(f, S) + Total(g, S)
<1> DEFINE C == {R \in SUBSET S : Total(h, R) # Total(f, R) + Total(g, R)}
<1>1. SUFFICES ASSUME C # {} PROVE FALSE
  OBVIOUS
<1>2. ASSUME NEW R \in SUBSET S
      PROVE  /\ IsFiniteSet(R)
             /\ \A x \in R : f[x] \in Nat /\ g[x] \in Nat /\ h[x] \in Nat
  BY FS_Subset
<1>3. PICK R \in C : \A x \in R : R \ {x} \notin C
  <2>1. C \in SUBSET (SUBSET S)
    OBVIOUS
  <2> HIDE DEF C
  <2> QED
    BY <1>1, <2>1, MinimalSet
<1>4. R \in SUBSET S
  BY <1>3
<1>5. R # {}
  <2>1. Total(h, {}) = 0 /\ Total(f, {}) = 0 /\ Total(g, {}) = 0
    BY TotalEmpty
  <2> QED
    BY <1>3, <2>1
<1>6. PICK x \in R : TRUE
  BY <1>5
<1>7. R \ {x} \in SUBSET S
  BY <1>4
<1>8. Total(h, R \ {x}) = Total(f, R \ {x}) + Total(g, R \ {x})
  BY <1>3, <1>6, <1>7
<1>9. Total(h, R) = h[x] + Total(h, R \ {x})
  BY <1>2, <1>4, TotalRemove
<1>10. Total(f, R) = f[x] + Total(f, R \ {x})
  BY <1>2, <1>4, TotalRemove
<1>11. Total(g, R) = g[x] + Total(g, R \ {x})
  BY <1>2, <1>4, TotalRemove
<1>12. Total(f, R \ {x}) \in Nat
  BY <1>2, <1>7, TotalIs
<1>13. Total(g, R \ {x}) \in Nat
  BY <1>2, <1>7, TotalIs
<1>14. f[x] \in Nat /\ g[x] \in Nat /\ h[x] = f[x] + g[x]
  BY <1>4, <1>6
<1>15. Total(h, R) = Total(f, R) + Total(g, R)
  BY <1>8, <1>9, <1>10, <1>11, <1>12, <1>13, <1>14
<1> QED
  BY <1>3, <1>15

\* The first k numbers: their total grows by the last one.
LEMMA TotalNext ==
  ASSUME NEW k \in Nat, NEW f, \A x \in 0..k : f[x] \in Nat
  PROVE  Total(f, 0..k) = Total(f, 0..(k - 1)) + f[k] /\ Total(f, 0..(k - 1)) \in Nat
<1>1. /\ IsFiniteSet(0..(k - 1)) /\ k \notin 0..(k - 1)
      /\ \A x \in 0..(k - 1) : f[x] \in Nat
  BY FS_Interval
<1>2. (0..(k - 1)) \cup {k} = 0..k
  OBVIOUS
<1>3. f[k] \in Nat
  OBVIOUS
<1>4. Total(f, (0..(k - 1)) \cup {k}) = Total(f, 0..(k - 1)) + f[k]
  BY <1>1, <1>3, TotalAdd
<1> QED
  BY <1>1, <1>2, <1>4, TotalIs

\* g is the stretch of w weights of f behind the first a.
IsStretch(g, w, f, a) ==
  /\ \A x \in 0..(a + w - 1) : f[x] \in Nat
  /\ \A s \in 0..(w - 1) : g[s] = f[a + s]

LEMMA TotalRow ==
  ASSUME NEW a \in Nat, NEW w \in Nat, NEW f, NEW g, IsStretch(g, w, f, a)
  PROVE  Total(f, 0..(a + w - 1)) = Total(f, 0..(a - 1)) + Total(g, 0..(w - 1))
<1> USE DEF IsStretch
<1> DEFINE F(k) == Total(f, 0..(a + k - 1))
           G(k) == Total(g, 0..(k - 1))
           S == {k \in 0..w : F(k) = F(0) + G(k)}
<1>0. \A x \in 0..(a - 1) : f[x] \in Nat
  OBVIOUS
<1>1. F(0) \in Nat /\ F(0) = Total(f, 0..(a - 1))
  <2>1. a + 0 - 1 = a - 1 /\ IsFiniteSet(0..(a - 1))
    BY FS_Interval
  <2> QED
    BY <1>0, <2>1, TotalIs
<1>2. 0 \in S
  <2>1. 0..(0 - 1) = {}
    OBVIOUS
  <2>2. G(0) = 0
    BY <2>1, TotalEmpty
  <2> HIDE DEF F, G
  <2> QED
    BY <1>1, <2>2
<1>3. ASSUME NEW k \in 0..(w - 1), k \in S PROVE k + 1 \in S
  <2>1. /\ a + k \in Nat /\ a + k \in 0..(a + w - 1) /\ a + (k + 1) - 1 = a + k
        /\ k + 1 - 1 = k /\ k + 1 \in 0..w /\ k \in Nat
        /\ \A x \in 0..(a + k) : x \in 0..(a + w - 1)
        /\ \A x \in 0..k : x \in 0..(w - 1) /\ a + x \in 0..(a + w - 1)
    OBVIOUS
  <2>2. F(k + 1) = F(k) + f[a + k]
    <3>1. \A x \in 0..(a + k) : f[x] \in Nat
      BY <2>1
    <3>2. Total(f, 0..(a + k)) = Total(f, 0..(a + k - 1)) + f[a + k]
      BY <2>1, <3>1, TotalNext
    <3> QED
      BY <2>1, <3>2
  <2>3. G(k + 1) = G(k) + g[k] /\ G(k) \in Nat
    <3>1. \A x \in 0..k : g[x] \in Nat
      BY <2>1
    <3>2. Total(g, 0..k) = Total(g, 0..(k - 1)) + g[k] /\ Total(g, 0..(k - 1)) \in Nat
      BY <2>1, <3>1, TotalNext
    <3> QED
      BY <2>1, <3>2
  <2>4. g[k] = f[a + k] /\ f[a + k] \in Nat
    BY <2>1
  <2>5. F(k) = F(0) + G(k)
    BY <1>3
  <2> HIDE DEF F, G
  <2>6. F(k + 1) = F(0) + G(k + 1)
    BY <1>1, <2>2, <2>3, <2>4, <2>5
  <2> QED
    BY <2>1, <2>6
<1>4. \A k \in 0..w : k \in S
  <2> HIDE DEF S
  <2> QED
    BY <1>2, <1>3, UpTo
<1>5. F(w) = F(0) + G(w)
  <2>1. w \in 0..w
    OBVIOUS
  <2>2. w \in S
    BY <1>4, <2>1
  <2> HIDE DEF F, G
  <2> QED
    BY <2>2
<1> HIDE DEF S
<1> QED
  BY <1>1, <1>5

\* Rows of numbers one after the other, the t-th of width w[t]: the total of
\* all is the total of the totals of the rows.
RowsOf(n, w, f, row, g) ==
  /\ n \in Nat /\ \A t \in 0..(n - 1) : w[t] \in Nat
  /\ \A x \in 0..(Total(w, 0..(n - 1)) - 1) : f[x] \in Nat
  /\ \A t \in 0..(n - 1) : \A s \in 0..(w[t] - 1) : row[t][s] = f[Total(w, 0..(t - 1)) + s]
  /\ \A t \in 0..(n - 1) : g[t] = Total(row[t], 0..(w[t] - 1))
LEMMA TotalOfRows ==
  ASSUME NEW n, NEW w, NEW f, NEW row, NEW g, RowsOf(n, w, f, row, g)
  PROVE  Total(f, 0..(Total(w, 0..(n - 1)) - 1)) = Total(g, 0..(n - 1))
<1> n \in Nat
  BY DEF RowsOf
<1> \A t \in 0..(n - 1) : w[t] \in Nat
  BY DEF RowsOf
<1> \A x \in 0..(Total(w, 0..(n - 1)) - 1) : f[x] \in Nat
  BY DEF RowsOf
<1> \A t \in 0..(n - 1) : \A s \in 0..(w[t] - 1) : row[t][s] = f[Total(w, 0..(t - 1)) + s]
  BY DEF RowsOf
<1> \A t \in 0..(n - 1) : g[t] = Total(row[t], 0..(w[t] - 1))
  BY DEF RowsOf
<1> DEFINE W(t) == Total(w, 0..(t - 1))
           F(t) == Total(f, 0..(W(t) - 1))
           G(t) == Total(g, 0..(t - 1))
           S == {t \in 0..n : F(t) = G(t) /\ G(t) \in Nat}
<1>1. \A t \in 0..n : W(t) \in Nat /\ W(t) <= W(n)
  <2> SUFFICES ASSUME NEW t \in 0..n PROVE W(t) \in Nat /\ W(t) <= W(n)
    OBVIOUS
  <2>1. /\ IsFiniteSet(0..(t - 1)) /\ \A x \in 0..(t - 1) : w[x] \in Nat
        /\ IsFiniteSet(0..(n - 1)) /\ 0..(t - 1) \in SUBSET (0..(n - 1))
    BY FS_Interval
  <2>2. W(t) \in Nat
    BY <2>1, TotalIs
  <2>3. W(t) <= W(n)
    BY <2>1, TotalGrows
  <2> QED
    BY <2>2, <2>3
<1>2. 0 \in S
  <2>1. 0..(0 - 1) = {}
    OBVIOUS
  <2>2. W(0) = 0 /\ G(0) = 0
    BY <2>1, TotalEmpty
  <2>3. F(0) = 0
    BY <2>1, <2>2, TotalEmpty
  <2> HIDE DEF F, G
  <2> QED
    BY <2>2, <2>3
<1>3. ASSUME NEW t \in 0..(n - 1), t \in S PROVE t + 1 \in S
  <2>0. t \in 0..n /\ t + 1 \in 0..n /\ t + 1 - 1 = t /\ t \in Nat
    OBVIOUS
  <2>1. W(t + 1) = W(t) + w[t] /\ W(t) \in Nat /\ w[t] \in Nat
    <3>1. \A x \in 0..t : w[x] \in Nat
      OBVIOUS
    <3>2. Total(w, 0..t) = Total(w, 0..(t - 1)) + w[t]
      BY <2>0, <3>1, TotalNext
    <3> QED
      BY <1>1, <2>0, <3>2
  <2>2. \A x \in 0..(W(t) + w[t] - 1) : f[x] \in Nat
    <3>0. n \in 0..n
      OBVIOUS
    <3> HIDE DEF W
    <3>1. W(t + 1) <= W(n) /\ W(n) \in Nat
      BY <1>1, <2>0, <3>0
    <3>2. \A x \in 0..(W(t) + w[t] - 1) : x \in 0..(W(n) - 1)
      BY <2>1, <3>1
    <3> QED
      BY <3>2 DEF W
  <2>3. \A s \in 0..(w[t] - 1) : row[t][s] = f[W(t) + s]
    OBVIOUS
  <2>4. F(t + 1) = F(t) + Total(row[t], 0..(w[t] - 1))
    <3>1. Total(f, 0..(W(t) + w[t] - 1))
            = Total(f, 0..(W(t) - 1)) + Total(row[t], 0..(w[t] - 1))
      <4>1. IsStretch(row[t], w[t], f, W(t))
        BY <2>2, <2>3 DEF IsStretch
      <4> QED
        BY <2>1, <4>1, TotalRow
    <3> QED
      BY <2>1, <3>1
  <2>5. ASSUME NEW x \in 0..(n - 1) PROVE g[x] \in Nat
    <3>1. x \in 0..n /\ x + 1 \in 0..n /\ x + 1 - 1 = x /\ x \in Nat
      OBVIOUS
    <3>2. W(x + 1) = W(x) + w[x] /\ W(x) \in Nat /\ w[x] \in Nat /\ W(x + 1) <= W(n) /\ W(n) \in Nat
      <4>1. \A y \in 0..x : w[y] \in Nat
        OBVIOUS
      <4>2. Total(w, 0..x) = Total(w, 0..(x - 1)) + w[x]
        BY <3>1, <4>1, TotalNext
      <4>3. W(x + 1) = W(x) + w[x]
        BY <3>1, <4>2
      <4>4. W(x) \in Nat /\ W(x + 1) \in Nat /\ W(x + 1) <= W(n) /\ W(n) \in Nat
        <5>1. n \in 0..n
          OBVIOUS
        <5> HIDE DEF W
        <5> QED
          BY <1>1, <3>1, <5>1
      <4> QED
        BY <4>3, <4>4
    <3>3. \A s \in 0..(w[x] - 1) : W(x) + s \in 0..(W(n) - 1)
      <4> HIDE DEF W
      <4> QED
        BY <3>2
    <3>4. \A s \in 0..(w[x] - 1) : row[x][s] \in Nat
      <4> SUFFICES ASSUME NEW s \in 0..(w[x] - 1) PROVE row[x][s] \in Nat
        OBVIOUS
      <4>1. row[x][s] = f[W(x) + s]
        OBVIOUS
      <4>2. f[W(x) + s] \in Nat
        BY <3>3
      <4> QED
        BY <4>1, <4>2
    <3>5. IsFiniteSet(0..(w[x] - 1))
      <4>1. 0 \in Int /\ w[x] - 1 \in Int
        BY <3>2
      <4> QED
        BY <4>1, FS_Interval, Zenon
    <3>6. Total(row[x], 0..(w[x] - 1)) \in Nat
      BY <3>4, <3>5, TotalIs, Zenon
    <3> QED
      BY <3>6
  <2>6. G(t + 1) = G(t) + g[t]
    <3>1. \A x \in 0..t : g[x] \in Nat
      BY <2>5
    <3>2. Total(g, 0..t) = Total(g, 0..(t - 1)) + g[t]
      BY <2>0, <3>1, TotalNext
    <3> QED
      BY <2>0, <3>2
  <2>7. g[t] = Total(row[t], 0..(w[t] - 1)) /\ g[t] \in Nat
    BY <2>5
  <2>8. F(t) = G(t) /\ G(t) \in Nat
    BY <1>3
  <2> HIDE DEF F, G
  <2>9. F(t + 1) = G(t + 1) /\ G(t + 1) \in Nat
    BY <2>4, <2>6, <2>7, <2>8
  <2> QED
    BY <2>0, <2>9
<1>4. \A t \in 0..n : t \in S
  <2> HIDE DEF S
  <2> QED
    BY <1>2, <1>3, UpTo
<1>5. n \in 0..n
  OBVIOUS
<1>6. F(n) = G(n)
  BY <1>4, <1>5
<1> QED
  BY <1>6
=============================================================================

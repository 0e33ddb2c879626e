----------------------- MODULE BlockPostingListProofs -----------------------
(***************************************************************************)
(* The document_enumerator of a block_posting_list answers with the        *)
(* documents and the frequencies of the list, and implements the abstract  *)
(* enumerator, for every list, every block size, every order in which the  *)
(* blocks were written and every order of calls.                           *)
(*                                                                         *)
(* The invariants the runs check are not inductive: a step inside a block  *)
(* adds a gap from the buffer, so the buffers have to hold the gaps and    *)
(* the frequencies of the block the cursor is in, and a loop ends in the   *)
(* block it runs in because the posting it looks for is there.             *)
(***************************************************************************)
EXTENDS BlockPostingList, FiniteSetTheorems, TLAPS

Sorted == INSTANCE SortedSequencesProofs

-----------------------------------------------------------------------------
(* The inductive invariant *)

ListOK ==
  /\ length \in Lengths /\ universe \in Universes
  /\ docs \in Lists(length, universe)
  /\ freqs \in [0..(length - 1) -> Frequencies]
  /\ order \in Orders(blocks)

\* The numbers of the postings of a block that come after its first.
Following(b) == 1..(SizeOf(b) - 1)

\* What the codec decodes for a document: the documents it skips.
Gap(b, i) == docs[Posting(b, i)] - docs[Posting(b, i - 1)] - 1

\* The members that decode_docs_block sets are those of the current block, the
\* frequencies too once they are marked as decoded.
BlockOK ==
  /\ cur_block \in 0..(blocks - 1)
  /\ cur_block_size = SizeOf(cur_block)
  /\ cur_block_max = block_max(cur_block)
  /\ freqs_place = PlaceOf(cur_block)
  /\ docs_buf \in [0..(block_size - 1) -> Nat]
  /\ \A i \in Following(cur_block) : docs_buf[i] = Gap(cur_block, i)
  /\ freqs_buf \in [0..(block_size - 1) -> Nat]
  /\ freqs_decoded \in BOOLEAN
  /\ freqs_decoded =>
       \A i \in 0..(SizeOf(cur_block) - 1) :
         freqs_buf[i] = freqs[Posting(cur_block, i)] - 1

CursorOK ==
  /\ pos_in_block \in 0..SizeOf(cur_block)
  /\ cur_docid \in 0..universe
  /\ ~AtEnd => /\ pos_in_block < SizeOf(cur_block)
               /\ cur_docid = docs[position]

\* Where a loop is going lies at or after the cursor, in its block.
LoopOK ==
  pc = "scan" =>
    /\ ~AtEnd
    /\ answer = 0
    /\ call[1] \in {"move", "next_geq"}
    /\ call[1] = "move" =>
         call[2] \in position..Posting(cur_block, SizeOf(cur_block) - 1)
    /\ call[1] = "next_geq" =>
         /\ call[2] <= block_max(cur_block)
         /\ \A q \in 0..(position - 1) : docs[q] < call[2]

CallOK ==
  /\ pc \in {"idle", "scan"}
  /\ call \in {"new", "move", "next", "next_geq"} \X Nat
  /\ answer \in Nat

IInv ==
  /\ ListOK
  /\ BlockOK
  /\ CursorOK
  /\ LoopOK
  /\ CallOK
  /\ FreqIsOfPosition

-----------------------------------------------------------------------------
(* The list and its blocks *)

\* The types of the constants and of the list, as the proofs below use them.
LEMMA ListTypes ==
  ASSUME ListOK
  PROVE  /\ block_size \in Nat \ {0}
         /\ length \in Nat \ {0} /\ universe \in Nat \ {0}
         /\ docs \in [0..(length - 1) -> 0..(universe - 1)]
         /\ \A i \in 0..(length - 1) :
              /\ docs[i] \in Nat /\ docs[i] < universe
              /\ freqs[i] \in Nat \ {0}
         /\ \A i \in 1..(length - 1) : docs[i - 1] < docs[i]
<1>1. /\ block_size \in Nat \ {0}
      /\ length \in Nat \ {0} /\ universe \in Nat \ {0}
      /\ Frequencies \subseteq Nat \ {0}
  BY BlockAssumption DEF BlockAssumption, ListOK
<1>2. /\ docs \in [0..(length - 1) -> 0..(universe - 1)]
      /\ \A i \in 1..(length - 1) : docs[i - 1] < docs[i]
  BY DEF ListOK, Lists
<1>3. ASSUME NEW i \in 0..(length - 1)
      PROVE  docs[i] \in Nat /\ docs[i] < universe /\ freqs[i] \in Nat \ {0}
  <2>1. docs[i] \in 0..(universe - 1) /\ freqs[i] \in Frequencies
    BY <1>2 DEF ListOK
  <2>2. freqs[i] \in Nat \ {0}
    BY <1>1, <2>1
  <2>3. docs[i] \in Nat /\ docs[i] < universe
    BY <1>1, <2>1
  <2> QED
    BY <2>2, <2>3
<1> QED
  BY <1>1, <1>2, <1>3

\* A list whose neighbours ascend is ascending.
LEMMA DocsAscend ==
  ASSUME ListOK, NEW i \in 0..(length - 1), NEW j \in 0..(length - 1), i < j
  PROVE  docs[i] < docs[j]
<1> DEFINE S == {k \in 0..(length - 1) : i < k /\ ~(docs[i] < docs[k])}
<1>0. length \in Nat /\ \A k \in 0..(length - 1) : docs[k] \in Nat
  BY ListTypes
<1>1. SUFFICES ASSUME S # {} PROVE FALSE
  BY <1>1
<1>2. S \in SUBSET Nat
  BY <1>0
<1>3. PICK m \in S : \A e \in S : m <= e
  BY <1>1, <1>2, Sorted!LeastElement
<1>4. /\ m \in 1..(length - 1) /\ m - 1 \in 0..(length - 1) /\ i <= m - 1
      /\ ~(m <= m - 1)
  BY <1>0, <1>3
<1>5. docs[m - 1] < docs[m]
  BY <1>4, ListTypes
<1>6. docs[i] <= docs[m - 1]
  <2>1. CASE m - 1 = i
    BY <1>0, <2>1
  <2>2. CASE m - 1 # i
    <3>1. i < m - 1 /\ m - 1 \notin S
      BY <1>3, <1>4, <2>2
    <3> QED
      BY <1>0, <1>4, <3>1
  <2> QED
    BY <2>1, <2>2
<1> QED
  BY <1>0, <1>3, <1>4, <1>5, <1>6

\* Every block but the last is full, and the last ends the list.
LEMMA BlockBounds ==
  ASSUME ListOK
  PROVE  /\ blocks \in Nat \ {0}
         /\ \A b \in 0..(blocks - 1) :
              /\ b * block_size \in Nat
              /\ SizeOf(b) \in 1..block_size
              /\ b * block_size + SizeOf(b) <= length
              /\ (b + 1) * block_size = b * block_size + block_size
              /\ b < blocks - 1 => SizeOf(b) = block_size
              /\ b = blocks - 1 => b * block_size + SizeOf(b) = length
<1> DEFINE s == block_size
           last == length + s - 1
<1>1. s \in Nat \ {0} /\ length \in Nat \ {0} /\ last \in Nat
  BY ListTypes
<1>2. blocks = last \div s
  BY DEF blocks
<1> HIDE DEF s, last
<1>3. /\ blocks \in Nat /\ blocks * s \in Nat
      /\ blocks * s <= last /\ last < blocks * s + s
  BY <1>1, <1>2, Sorted!Division
<1>4. blocks # 0 /\ blocks * s >= length
  BY <1>1, <1>3 DEF last
<1>5. (blocks - 1) * s = blocks * s - s /\ (blocks - 1) * s < length
  BY <1>1, <1>3 DEF last
<1>6. ASSUME NEW b \in 0..(blocks - 1)
      PROVE  /\ b * s \in Nat
             /\ SizeOf(b) \in 1..s
             /\ b * s + SizeOf(b) <= length
             /\ (b + 1) * s = b * s + s
             /\ b < blocks - 1 => SizeOf(b) = s
             /\ b = blocks - 1 => b * s + SizeOf(b) = length
  <2>1. b \in Nat /\ b * s \in Nat /\ (b + 1) * s = b * s + s
    BY <1>1, <1>3
  <2>2. CASE b < blocks - 1
    <3>1. b + 1 \in Nat /\ blocks - 1 \in Nat /\ b + 1 <= blocks - 1
      BY <1>3, <1>4, <2>2
    <3>2. (b + 1) * s <= (blocks - 1) * s
      BY <1>1, <3>1, Sorted!TimesMonotone
    <3>3. (b + 1) * s <= length
      BY <1>1, <1>3, <1>5, <2>1, <3>2
    <3>4. SizeOf(b) = s
      BY <3>3 DEF SizeOf, s
    <3> QED
      BY <1>1, <2>1, <2>2, <3>3, <3>4
  <2>3. CASE b = blocks - 1
    <3>1. b * s < length /\ length <= b * s + s
      BY <1>1, <1>3, <1>4, <1>5, <2>1, <2>3
    <3>2. CASE b * s + s <= length
      <4>1. SizeOf(b) = s /\ length = b * s + s
        BY <1>1, <2>1, <3>1, <3>2 DEF SizeOf, s
      <4> QED
        BY <1>1, <2>1, <2>3, <4>1
    <3>3. CASE ~(b * s + s <= length)
      <4> DEFINE r == length - b * s
      <4>1. r \in 1..(s - 1) /\ r \in 0..(s - 1) /\ length = b * s + r
        BY <1>1, <2>1, <3>1, <3>3
      <4> HIDE DEF r
      <4>2. length % s = r
        BY <1>1, <2>1, <4>1, Sorted!DivisionIs
      <4>3. SizeOf(b) = r
        BY <2>1, <3>3, <4>2 DEF SizeOf, s
      <4> QED
        BY <1>1, <2>1, <2>3, <4>1, <4>3
    <3> QED
      BY <3>2, <3>3
  <2> QED
    BY <1>3, <1>4, <2>2, <2>3
<1> QED
  BY <1>3, <1>4, <1>6 DEF s

\* The block of a posting is its quotient.
LEMMA BlockOfPosting ==
  ASSUME ListOK, NEW p \in 0..(length - 1)
  PROVE  LET b == p \div block_size
         IN /\ b \in 0..(blocks - 1)
            /\ p \in (b * block_size)..Posting(b, SizeOf(b) - 1)
<1> DEFINE b == p \div block_size
<1>1. /\ block_size \in Nat \ {0} /\ length \in Nat \ {0} /\ p \in Nat
      /\ p < length
  BY ListTypes
<1>2. /\ b \in Nat /\ b * block_size \in Nat /\ b * block_size <= p
      /\ p < b * block_size + block_size
  BY <1>1, Sorted!Division
<1> HIDE DEF b
<1>3. /\ blocks \in Nat \ {0}
      /\ blocks - 1 \in 0..(blocks - 1)
      /\ (blocks - 1) * block_size \in Nat
      /\ (blocks - 1) * block_size + SizeOf(blocks - 1) = length
      /\ SizeOf(blocks - 1) <= block_size
      /\ SizeOf(blocks - 1) \in Nat
      /\ blocks * block_size = (blocks - 1) * block_size + block_size
  <2>1. blocks \in Nat \ {0} /\ blocks - 1 \in 0..(blocks - 1)
    BY BlockBounds
  <2>2. (blocks - 1) + 1 = blocks
    BY <2>1
  <2> QED
    BY <1>1, <2>1, <2>2, BlockBounds
<1>4. ~(blocks <= b)
  <2>1. SUFFICES ASSUME blocks <= b PROVE FALSE
    OBVIOUS
  <2>2. blocks * block_size <= b * block_size
    BY <1>1, <1>2, <1>3, <2>1, Sorted!TimesMonotone
  <2> QED
    BY <1>1, <1>2, <1>3, <2>2
<1>5. b \in 0..(blocks - 1)
  BY <1>2, <1>3, <1>4
<1>6. /\ SizeOf(b) \in 1..block_size
      /\ b < blocks - 1 => SizeOf(b) = block_size
      /\ b = blocks - 1 => b * block_size + SizeOf(b) = length
  BY <1>5, BlockBounds
<1>7. p <= b * block_size + SizeOf(b) - 1
  BY <1>1, <1>2, <1>3, <1>5, <1>6
<1> QED
  BY <1>1, <1>2, <1>5, <1>6, <1>7 DEF Posting, b

\* The postings of a block are postings of the list.
LEMMA PostingInList ==
  ASSUME ListOK, NEW b \in 0..(blocks - 1), NEW i \in 0..(SizeOf(b) - 1)
  PROVE  /\ Posting(b, i) \in 0..(length - 1)
         /\ docs[Posting(b, i)] \in Nat
         /\ docs[Posting(b, i)] <= block_max(b)
         /\ block_max(b) \in 0..(universe - 1)
         /\ i # 0 => /\ i - 1 \in 0..(SizeOf(b) - 1)
                     /\ Posting(b, i - 1) = Posting(b, i) - 1
                     /\ Gap(b, i) \in Nat
<1>1. /\ b * block_size \in Nat /\ SizeOf(b) \in Nat /\ SizeOf(b) > 0
      /\ b * block_size + SizeOf(b) <= length /\ length \in Nat
  BY BlockBounds, ListTypes, SMTT(30)
<1>2. ASSUME NEW k \in 0..(SizeOf(b) - 1)
      PROVE  /\ Posting(b, k) \in 0..(length - 1)
             /\ Posting(b, k) = b * block_size + k
  BY <1>1 DEF Posting
<1>3. SizeOf(b) - 1 \in 0..(SizeOf(b) - 1)
  BY <1>1
<1> DEFINE x == Posting(b, i)
           l == Posting(b, SizeOf(b) - 1)
<1>4. x \in 0..(length - 1) /\ l \in 0..(length - 1) /\ x <= l
  BY <1>1, <1>2, <1>3
<1>5. docs[x] \in Nat /\ docs[l] \in 0..(universe - 1) /\ block_max(b) = docs[l]
  BY <1>4, ListTypes DEF block_max
<1>6. docs[x] <= docs[l]
  <2>1. CASE x = l
    BY <1>5, <2>1
  <2>2. CASE x # l
    <3>1. x < l
      BY <1>4, <2>2
    <3>2. docs[x] < docs[l]
      BY <1>4, <3>1, DocsAscend
    <3> QED
      BY <1>5, <3>2, ListTypes
  <2> QED
    BY <2>1, <2>2
<1>7. ASSUME i # 0
      PROVE  /\ i - 1 \in 0..(SizeOf(b) - 1)
             /\ Posting(b, i - 1) = Posting(b, i) - 1
             /\ Gap(b, i) \in Nat
  <2>1. /\ i - 1 \in 0..(SizeOf(b) - 1)
        /\ Posting(b, i - 1) = x - 1 /\ x \in 1..(length - 1)
    <3>1. i - 1 \in 0..(SizeOf(b) - 1) /\ i > 0
      BY <1>1, <1>7
    <3>2. Posting(b, i - 1) = b * block_size + (i - 1) /\ x = b * block_size + i
      BY <1>2, <3>1
    <3>3. x \in Int /\ x >= 1
      BY <1>1, <1>4, <3>1, <3>2
    <3> HIDE DEF x, l
    <3>4. Posting(b, i - 1) = x - 1
      BY <1>1, <3>1, <3>2
    <3>5. x \in 1..(length - 1)
      BY <1>1, <1>4, <3>3
    <3> QED
      BY <3>1, <3>4, <3>5
  <2>2. docs[x - 1] < docs[x] /\ docs[x - 1] \in Nat
    <3> HIDE DEF x
    <3>1. x \in 1..(length - 1) /\ x - 1 \in 0..(length - 1)
      BY <1>1, <2>1
    <3> QED
      BY <3>1, ListTypes
  <2> QED
    BY <1>5, <2>1, <2>2 DEF Gap
<1> QED
  BY <1>4, <1>5, <1>6, <1>7

\* Every block has been written in one place.
LEMMA BlockInPlace ==
  ASSUME ListOK, NEW b \in 0..(blocks - 1)
  PROVE  PlaceOf(b) \in 0..(blocks - 1) /\ order[PlaceOf(b)] = b
<1> DEFINE B == 0..(blocks - 1)
<1>1. blocks \in Nat \ {0} /\ 0 \in B
  BY BlockBounds
<1>2. /\ order \in [B -> B] /\ order[0] = 0
      /\ \A p, q \in B : order[p] = order[q] => p = q
  BY DEF ListOK, Orders
<1>3. IsFiniteSet(B)
  BY <1>1, FS_Interval
<1>4. order \in Injection(B, B)
  BY <1>2 DEF Injection, IsInjective
<1>5. order \in Surjection(B, B)
  BY <1>3, <1>4, FS_Injection
<1>6. \E p \in B : order[p] = b
  BY <1>5 DEF Surjection
<1>7. DOMAIN order = B
  BY <1>2
<1> QED
  BY <1>1, <1>2, <1>6, <1>7 DEF PlaceOf

\* decode undoes what the codec stores: of a block it yields the first document
\* and the gaps that follow, whichever place the block was read from.
LEMMA Decoded ==
  ASSUME ListOK, NEW b \in 0..(blocks - 1),
         NEW old \in [0..(block_size - 1) -> Nat]
  PROVE  /\ DecodedDocs(b, old) \in [0..(block_size - 1) -> Nat]
         /\ DecodedDocs(b, old)[0] = docs[Posting(b, 0)]
         /\ \A i \in Following(b) : DecodedDocs(b, old)[i] = Gap(b, i)
<1> DEFINE k == SizeOf(b)
           total == block_max(b) - Base(b) - (k - 1)
           Sum(i) == IF i = k - 1 THEN total ELSE PrefixSum(b, i)
           D == DecodedDocs(b, old)
<1>1. order[PlaceOf(b)] = b
  BY BlockInPlace
<1>2. D = [i \in 0..(block_size - 1) |->
             IF i >= k THEN old[i]
             ELSE IF i = 0 THEN Sum(0) + Base(b)
             ELSE Sum(i) - Sum(i - 1)]
  BY <1>1 DEF DecodedDocs
<1>3. /\ k \in 1..block_size /\ block_size \in Nat
      /\ \A i \in 0..(k - 1) : docs[Posting(b, i)] \in Nat
      /\ block_max(b) = docs[Posting(b, k - 1)]
  BY BlockBounds, ListTypes, PostingInList DEF block_max
<1>4. Base(b) \in Int
  <2>1. CASE b = 0
    BY <2>1 DEF Base
  <2>2. CASE b # 0
    <3>1. b - 1 \in 0..(blocks - 1)
      BY <2>2, BlockBounds
    <3>2. 0 \in 0..(SizeOf(b - 1) - 1)
      BY <3>1, BlockBounds
    <3>3. block_max(b - 1) \in 0..(universe - 1)
      BY <3>1, <3>2, PostingInList
    <3> QED
      BY <2>2, <3>3, ListTypes DEF Base
  <2> QED
    BY <2>1, <2>2
<1>5. ASSUME NEW i \in 0..(k - 1)
      PROVE  Sum(i) = docs[Posting(b, i)] - Base(b) - i
  <2>1. PrefixSum(b, i) = docs[Posting(b, i)] - Base(b) - i
    BY DEF PrefixSum, Base
  <2> QED
    BY <1>3, <2>1
<1> HIDE DEF k, Sum, D
<1>6. D[0] = docs[Posting(b, 0)]
  <2>1. 0 \in 0..(k - 1) /\ 0 \in 0..(block_size - 1) /\ ~(0 >= k)
    BY <1>3
  <2>2. D[0] = Sum(0) + Base(b)
    BY <1>2, <2>1
  <2>3. docs[Posting(b, 0)] \in Nat /\ Sum(0) = docs[Posting(b, 0)] - Base(b) - 0
    BY <1>3, <1>5, <2>1
  <2> QED
    BY <1>4, <2>2, <2>3
<1>7. ASSUME NEW i \in 1..(k - 1)
      PROVE  D[i] = Gap(b, i) /\ Gap(b, i) \in Nat
  <2>1. /\ i \in 0..(k - 1) /\ i - 1 \in 0..(k - 1)
        /\ i \in 0..(block_size - 1) /\ ~(i >= k) /\ i # 0
    BY <1>3
  <2>2. D[i] = Sum(i) - Sum(i - 1)
    BY <1>2, <2>1
  <2>3. /\ docs[Posting(b, i)] \in Nat /\ docs[Posting(b, i - 1)] \in Nat
        /\ Sum(i) = docs[Posting(b, i)] - Base(b) - i
        /\ Sum(i - 1) = docs[Posting(b, i - 1)] - Base(b) - (i - 1)
    BY <1>3, <1>5, <2>1
  <2>4. Gap(b, i) \in Nat
    BY <2>1, PostingInList DEF k
  <2> QED
    BY <1>4, <2>1, <2>2, <2>3, <2>4 DEF Gap
<1>8. ASSUME NEW i \in 0..(block_size - 1) PROVE D[i] \in Nat
  <2>1. CASE i >= k
    BY <1>2, <2>1
  <2>2. CASE i = 0
    BY <1>3, <1>6, <2>2
  <2>3. CASE ~(i >= k) /\ i # 0
    <3>1. i \in 1..(k - 1)
      BY <1>3, <2>3
    <3> QED
      BY <1>7, <3>1
  <2> QED
    BY <2>1, <2>2, <2>3
<1>9. D \in [0..(block_size - 1) -> Nat]
  <2>1. D = [i \in 0..(block_size - 1) |-> D[i]]
    BY <1>2
  <2> QED
    BY <1>8, <2>1
<1> QED
  BY <1>6, <1>7, <1>9 DEF Following, D, k

-----------------------------------------------------------------------------
(* Steps *)

\* No call changes the list, so that what is said of it before a step can be
\* used after it.
LEMMA SameList ==
  ASSUME UNCHANGED list
  PROVE  /\ UNCHANGED <<length, docs, freqs, universe, order>>
         /\ blocks' = blocks
         /\ ListOK => ListOK'
         /\ SizeOf(cur_block)' = SizeOf(cur_block')
         /\ Following(cur_block)' = Following(cur_block')
         /\ block_max(cur_block)' = block_max(cur_block')
         /\ PlaceOf(cur_block)' = PlaceOf(cur_block')
         /\ \A i : Posting(cur_block, i)' = Posting(cur_block', i)
         /\ \A i : Gap(cur_block, i)' = Gap(cur_block', i)
         /\ position' = Posting(cur_block', pos_in_block')
         /\ AtEnd' <=> cur_docid' = universe
<1>1. UNCHANGED <<length, docs, freqs, universe, order>>
  BY DEF list
<1>2. blocks' = blocks
  BY <1>1 DEF blocks
<1>3. ListOK => ListOK'
  BY <1>1, <1>2 DEF ListOK, Lists, Orders
<1>4. SizeOf(cur_block)' = SizeOf(cur_block')
  BY <1>1 DEF SizeOf
<1>5. \A i : Posting(cur_block, i)' = Posting(cur_block', i)
  BY DEF Posting
<1>6. block_max(cur_block)' = block_max(cur_block')
  BY <1>1, <1>4 DEF block_max, Posting
<1>7. PlaceOf(cur_block)' = PlaceOf(cur_block')
  BY <1>1 DEF PlaceOf
<1>8. \A i : Gap(cur_block, i)' = Gap(cur_block', i)
  BY <1>1 DEF Gap, Posting
<1>9. Following(cur_block)' = Following(cur_block')
  BY <1>4 DEF Following
<1>10. position' = Posting(cur_block', pos_in_block')
  BY DEF position, Posting
<1>11. AtEnd' <=> cur_docid' = universe
  BY <1>1 DEF AtEnd
<1> QED
  BY <1>1, <1>2, <1>3, <1>4, <1>5, <1>6, <1>7, <1>8, <1>9, <1>10, <1>11

\* decode_docs_block leaves the cursor on the first posting of the block, with
\* everything it needs to go on in it.
LEMMA DecodeLands ==
  ASSUME ListOK, BlockOK, UNCHANGED list,
         NEW b \in 0..(blocks - 1), decode_docs_block(b)
  PROVE  /\ BlockOK' /\ CursorOK'
         /\ cur_block' = b /\ pos_in_block' = 0
         /\ position' = b * block_size
         /\ b * block_size \in 0..(length - 1)
         /\ ~AtEnd' /\ cur_docid' = docs[b * block_size]
<1>1. /\ cur_block' = b /\ cur_block_size' = SizeOf(b)
      /\ cur_block_max' = block_max(b) /\ freqs_place' = PlaceOf(b)
      /\ docs_buf' = DecodedDocs(b, docs_buf)
      /\ pos_in_block' = 0 /\ cur_docid' = docs_buf'[0]
      /\ freqs_decoded' = FALSE /\ freqs_buf' = freqs_buf
  BY DEF decode_docs_block
<1>2. /\ docs_buf \in [0..(block_size - 1) -> Nat]
      /\ freqs_buf \in [0..(block_size - 1) -> Nat]
  BY DEF BlockOK
<1>3. /\ docs_buf' \in [0..(block_size - 1) -> Nat]
      /\ cur_docid' = docs[Posting(b, 0)]
      /\ \A i \in Following(b) : docs_buf'[i] = Gap(b, i)
  BY <1>1, <1>2, Decoded
<1>4. /\ SizeOf(cur_block)' = SizeOf(b)
      /\ Following(cur_block)' = Following(b)
      /\ block_max(cur_block)' = block_max(b)
      /\ PlaceOf(cur_block)' = PlaceOf(b)
      /\ \A i : Gap(cur_block, i)' = Gap(b, i)
      /\ blocks' = blocks /\ docs' = docs /\ universe' = universe
      /\ position' = Posting(b, 0)
      /\ AtEnd' <=> cur_docid' = universe
  BY <1>1, SameList
<1>5. BlockOK'
  BY <1>1, <1>2, <1>3, <1>4 DEF BlockOK
<1>6. SizeOf(b) \in Nat /\ 0 < SizeOf(b) /\ b * block_size \in Nat
  BY BlockBounds, ListTypes
<1>7. /\ Posting(b, 0) = b * block_size
      /\ Posting(b, 0) \in 0..(length - 1)
      /\ docs[Posting(b, 0)] \in Nat /\ docs[Posting(b, 0)] < universe
      /\ universe \in Nat
  BY <1>6, PostingInList, ListTypes DEF Posting
<1>8. cur_docid' \in 0..universe /\ cur_docid' # universe
  BY <1>3, <1>7
<1>9. CursorOK'
  BY <1>1, <1>3, <1>4, <1>6, <1>8 DEF CursorOK
<1> QED
  BY <1>1, <1>3, <1>4, <1>5, <1>7, <1>8, <1>9

\* A call that leaves the block alone leaves what is known of it.
LEMMA SameBlock ==
  ASSUME BlockOK, UNCHANGED list, UNCHANGED block,
         UNCHANGED <<freqs_buf, freqs_decoded>>
  PROVE  /\ BlockOK'
         /\ UNCHANGED <<cur_block, cur_block_max, cur_block_size, docs_buf>>
         /\ SizeOf(cur_block)' = SizeOf(cur_block)
<1>1. UNCHANGED <<cur_block, cur_block_max, cur_block_size, docs_buf,
                  freqs_place, freqs_buf, freqs_decoded>>
  BY DEF block
<1>2. /\ SizeOf(cur_block)' = SizeOf(cur_block)
      /\ Following(cur_block)' = Following(cur_block)
      /\ block_max(cur_block)' = block_max(cur_block)
      /\ PlaceOf(cur_block)' = PlaceOf(cur_block)
      /\ \A i : Gap(cur_block, i)' = Gap(cur_block, i)
      /\ \A i : Posting(cur_block, i)' = Posting(cur_block, i)
      /\ blocks' = blocks /\ freqs' = freqs
  BY <1>1, SameList
<1> QED
  BY <1>1, <1>2 DEF BlockOK

\* A cursor that is not at the end is on a posting of its block.
LEMMA OnPosting ==
  ASSUME ListOK, BlockOK, CursorOK, ~AtEnd
  PROVE  /\ cur_block * block_size \in Nat
         /\ pos_in_block \in 0..(SizeOf(cur_block) - 1)
         /\ position = cur_block * block_size + pos_in_block
         /\ position = Posting(cur_block, pos_in_block)
         /\ position \in 0..(length - 1)
         /\ cur_docid = docs[position] /\ cur_docid \in Nat
         /\ cur_docid < universe
         /\ SizeOf(cur_block) \in 1..block_size
<1>1. /\ cur_block \in 0..(blocks - 1)
      /\ pos_in_block \in 0..SizeOf(cur_block)
      /\ pos_in_block < SizeOf(cur_block) /\ cur_docid = docs[position]
  BY DEF BlockOK, CursorOK
<1>2. SizeOf(cur_block) \in 1..block_size /\ cur_block * block_size \in Nat
  BY <1>1, BlockBounds
<1>3. pos_in_block \in 0..(SizeOf(cur_block) - 1)
  BY <1>1, <1>2, ListTypes
<1>4. position = Posting(cur_block, pos_in_block)
  BY DEF position, Posting
<1>5. position \in 0..(length - 1)
  BY <1>1, <1>3, <1>4, PostingInList
<1> QED
  BY <1>1, <1>2, <1>3, <1>4, <1>5, ListTypes DEF position

\* Adding the gap of the next document leads to the next posting of the block.
LEMMA StepInBlock ==
  ASSUME ListOK, BlockOK, CursorOK, ~AtEnd,
         UNCHANGED list, UNCHANGED block, UNCHANGED <<freqs_buf, freqs_decoded>>,
         pos_in_block + 1 < SizeOf(cur_block),
         pos_in_block' = pos_in_block + 1,
         cur_docid' = cur_docid + docs_buf[pos_in_block + 1] + 1
  PROVE  /\ BlockOK' /\ CursorOK' /\ ~AtEnd'
         /\ position' = position + 1 /\ position + 1 \in 0..(length - 1)
         /\ cur_docid' = docs[position + 1]
<1> DEFINE i == pos_in_block + 1
           s == SizeOf(cur_block)
<1>1. /\ cur_block \in 0..(blocks - 1) /\ cur_block * block_size \in Nat
      /\ pos_in_block \in 0..(s - 1) /\ s \in 1..block_size
      /\ position = cur_block * block_size + pos_in_block
      /\ cur_docid = docs[position] /\ cur_docid \in Nat /\ block_size \in Nat
  BY OnPosting, ListTypes DEF BlockOK
<1>2. i \in 0..(s - 1) /\ i \in 1..(s - 1) /\ i # 0 /\ i - 1 = pos_in_block
  BY <1>1
<1>3. docs_buf[i] = Gap(cur_block, i)
  BY <1>2 DEF BlockOK, Following
<1>4. /\ Posting(cur_block, i) \in 0..(length - 1)
      /\ Posting(cur_block, i - 1) = Posting(cur_block, i) - 1
      /\ docs[Posting(cur_block, i)] \in Nat
      /\ docs[Posting(cur_block, i)] < universe /\ universe \in Nat
  BY <1>1, <1>2, PostingInList, ListTypes
<1>5. Posting(cur_block, i) = position + 1 /\ Posting(cur_block, i - 1) = position
  BY <1>1, <1>2 DEF Posting
<1>6. cur_docid' = docs[position + 1]
  <2>1. Gap(cur_block, i) = docs[position + 1] - docs[position] - 1
    BY <1>5 DEF Gap
  <2>2. cur_docid' = cur_docid + docs_buf[i] + 1
    OBVIOUS
  <2> HIDE DEF i
  <2>3. docs[position + 1] \in Int
    BY <1>4, <1>5
  <2> QED
    BY <1>1, <1>3, <2>1, <2>2, <2>3
<1>7. BlockOK' /\ cur_block' = cur_block /\ SizeOf(cur_block)' = s
  BY SameBlock
<1>8. /\ position' = Posting(cur_block', pos_in_block')
      /\ AtEnd' <=> cur_docid' = universe
      /\ docs' = docs /\ universe' = universe
  BY SameList
<1>9. position' = position + 1
  BY <1>5, <1>7, <1>8
<1>10. ~AtEnd' /\ cur_docid' \in 0..universe
  BY <1>4, <1>5, <1>6, <1>8
<1>11. CursorOK'
  <2>1. pos_in_block' \in 0..SizeOf(cur_block)'
    BY <1>1, <1>2, <1>7
  <2> QED
    BY <1>6, <1>7, <1>8, <1>9, <1>10, <2>1 DEF CursorOK
<1> QED
  BY <1>4, <1>5, <1>6, <1>7, <1>9, <1>10, <1>11

\* What a call without a loop has to show.
LEMMA Idle ==
  ASSUME IInv, UNCHANGED list, BlockOK', CursorOK',
         pc' = "idle", answer' = 0,
         call' \in {"new", "move", "next", "next_geq"} \X Nat
  PROVE  IInv'
<1>1. ListOK'
  BY SameList DEF IInv
<1>2. LoopOK' /\ CallOK' /\ FreqIsOfPosition'
  BY DEF LoopOK, CallOK, FreqIsOfPosition
<1> QED
  BY <1>1, <1>2 DEF IInv

LEMMA ResetInv == IInv /\ Reset => IInv'
<1> SUFFICES ASSUME IInv, Reset PROVE IInv'
  OBVIOUS
<1>1. /\ UNCHANGED list /\ decode_docs_block(0) /\ pc' = "idle" /\ answer' = 0
      /\ call' = <<"move", 0>>
  BY DEF Reset, Called
<1>2. 0 \in 0..(blocks - 1) /\ ListOK /\ BlockOK
  BY BlockBounds DEF IInv
<1>3. BlockOK' /\ CursorOK'
  BY <1>1, <1>2, DecodeLands
<1> QED
  BY <1>1, <1>3, Idle

\* next() leads to the next posting, in this block or the next, or to the end.
LEMMA NextLands ==
  ASSUME IInv, Next
  PROVE  /\ BlockOK' /\ CursorOK' /\ UNCHANGED list
         /\ ~AtEnd /\ position \in 0..(length - 1)
         /\ position + 1 = length => AtEnd' /\ cur_docid' = universe
         /\ position + 1 # length =>
              /\ ~AtEnd' /\ position' = position + 1
              /\ cur_docid' = docs[position + 1]
<1> DEFINE b == cur_block
           s == SizeOf(cur_block)
<1>0. ListOK /\ BlockOK /\ CursorOK /\ ~AtEnd /\ UNCHANGED list
  BY DEF IInv, Next, Called
<1>1. /\ b \in 0..(blocks - 1) /\ cur_block_size = s /\ blocks \in Nat
      /\ length \in Nat /\ universe \in Nat
      /\ pos_in_block \in 0..(s - 1) /\ s \in 1..block_size
      /\ b * block_size \in Nat /\ position = b * block_size + pos_in_block
      /\ position \in 0..(length - 1)
      /\ b * block_size + s <= length /\ block_size \in Nat
      /\ (b + 1) * block_size = b * block_size + block_size
      /\ b < blocks - 1 => s = block_size
      /\ b = blocks - 1 => b * block_size + s = length
  BY <1>0, OnPosting, BlockBounds, ListTypes DEF BlockOK
<1>2. CASE pos_in_block + 1 < s
  <2>1. /\ UNCHANGED block /\ UNCHANGED <<freqs_buf, freqs_decoded>>
        /\ pos_in_block' = pos_in_block + 1
        /\ cur_docid' = cur_docid + docs_buf[pos_in_block + 1] + 1
    BY <1>1, <1>2 DEF Next
  <2>2. position + 1 # length
    BY <1>1, <1>2
  <2> QED
    BY <1>0, <1>1, <1>2, <2>1, <2>2, StepInBlock
<1>3. CASE ~(pos_in_block + 1 < s) /\ b + 1 = blocks
  <2>1. /\ UNCHANGED block /\ UNCHANGED <<freqs_buf, freqs_decoded>>
        /\ pos_in_block' = pos_in_block + 1 /\ cur_docid' = universe
    BY <1>1, <1>3 DEF Next
  <2>2. position + 1 = length /\ pos_in_block + 1 = s
    BY <1>1, <1>3
  <2>3. BlockOK' /\ SizeOf(cur_block)' = s /\ universe' = universe
    BY <1>0, <2>1, SameBlock, SameList
  <2>4. AtEnd'
    BY <2>1, <2>3 DEF AtEnd
  <2>5. CursorOK'
    BY <1>1, <2>1, <2>2, <2>3, <2>4 DEF CursorOK
  <2> QED
    BY <1>0, <1>1, <2>1, <2>2, <2>3, <2>4, <2>5
<1>4. CASE ~(pos_in_block + 1 < s) /\ b + 1 # blocks
  <2>1. decode_docs_block(b + 1)
    BY <1>1, <1>4 DEF Next
  <2>2. /\ b + 1 \in 0..(blocks - 1) /\ s = block_size
        /\ (b + 1) * block_size = position + 1
    BY <1>1, <1>4
  <2>3. /\ BlockOK' /\ CursorOK' /\ position' = (b + 1) * block_size
        /\ (b + 1) * block_size \in 0..(length - 1)
        /\ ~AtEnd' /\ cur_docid' = docs[(b + 1) * block_size]
    BY <1>0, <2>1, <2>2, DecodeLands
  <2> QED
    BY <1>0, <1>1, <2>2, <2>3
<1> QED
  BY <1>2, <1>3, <1>4

LEMMA NextInv == IInv /\ Next => IInv'
<1> SUFFICES ASSUME IInv, Next PROVE IInv'
  OBVIOUS
<1>1. pc' = "idle" /\ answer' = 0 /\ call' = <<"next", 0>>
  BY DEF Next, Called
<1> QED
  BY <1>1, NextLands, Idle

\* The search in the maxima finds the first block that reaches the bound.
LEMMA BlockReachingFound ==
  ASSUME ListOK, NEW b \in 0..(blocks - 1),
         NEW bound \in Nat, bound <= block_max(blocks - 1)
  PROVE  LET c == BlockReaching(bound, b)
         IN /\ c \in b..(blocks - 1)
            /\ block_max(c) >= bound
            /\ \A d \in b..(c - 1) : block_max(d) < bound
<1> DEFINE S == {c \in b..(blocks - 1) : block_max(c) >= bound}
           Found(c) == /\ block_max(c) >= bound
                       /\ \A d \in b..(c - 1) : block_max(d) < bound
<1>0. blocks \in Nat \ {0} /\ b \in Nat /\ b <= blocks - 1
  BY BlockBounds
<1>1. ASSUME NEW c \in b..(blocks - 1) PROVE block_max(c) \in Nat
  <2>1. c \in 0..(blocks - 1)
    BY <1>0
  <2>2. 0 \in 0..(SizeOf(c) - 1)
    BY <2>1, BlockBounds
  <2> QED
    BY <2>1, <2>2, PostingInList
<1>2. S \in SUBSET Nat /\ S # {}
  <2>1. blocks - 1 \in b..(blocks - 1)
    BY <1>0
  <2>2. blocks - 1 \in S
    BY <1>1, <2>1
  <2> QED
    BY <1>0, <2>2
<1>3. PICK m \in S : \A e \in S : m <= e
  BY <1>2, Sorted!LeastElement
<1>4. ASSUME NEW d \in b..(m - 1) PROVE block_max(d) < bound
  <2>1. d \in b..(blocks - 1) /\ ~(m <= d)
    BY <1>0, <1>3
  <2>2. d \notin S
    BY <1>3, <2>1
  <2> QED
    BY <1>1, <2>1, <2>2
<1>5. \E c \in b..(blocks - 1) : Found(c)
  BY <1>3, <1>4
<1>6. BlockReaching(bound, b) = CHOOSE c \in b..(blocks - 1) : Found(c)
  BY DEF BlockReaching
<1> HIDE DEF Found
<1>7. /\ BlockReaching(bound, b) \in b..(blocks - 1)
      /\ Found(BlockReaching(bound, b))
  BY <1>5, <1>6
<1> QED
  BY <1>7 DEF Found

\* The postings before a block are not above the maximum of the one before it.
LEMMA BeforeBlock ==
  ASSUME ListOK, NEW c \in 1..(blocks - 1), NEW q \in 0..(c * block_size - 1)
  PROVE  /\ q \in 0..(length - 1)
         /\ docs[q] \in Nat /\ block_max(c - 1) \in Nat
         /\ docs[q] <= block_max(c - 1)
<1> DEFINE l == c * block_size - 1
<1>1. /\ c - 1 \in 0..(blocks - 1) /\ c - 1 < blocks - 1 /\ (c - 1) + 1 = c
      /\ block_size \in Nat \ {0} /\ length \in Nat
  BY BlockBounds, ListTypes, SMTT(30)
<1>2. /\ (c - 1) * block_size \in Nat /\ SizeOf(c - 1) = block_size
      /\ c * block_size = (c - 1) * block_size + block_size
      /\ (c - 1) * block_size + block_size <= length
  <2> DEFINE d == c - 1
  <2>1. d \in 0..(blocks - 1) /\ d < blocks - 1 /\ d + 1 = c
    BY <1>1
  <2> HIDE DEF d
  <2>2. /\ d * block_size \in Nat /\ SizeOf(d) = block_size
        /\ (d + 1) * block_size = d * block_size + block_size
        /\ d * block_size + SizeOf(d) <= length
    BY <2>1, BlockBounds
  <2>3. d * block_size + block_size <= length
    BY <2>2
  <2>4. c * block_size = d * block_size + block_size
    BY <2>1, <2>2
  <2> QED
    BY <2>2, <2>3, <2>4 DEF d
<1>3. Posting(c - 1, SizeOf(c - 1) - 1) = l
  BY <1>1, <1>2 DEF Posting
<1>4. block_max(c - 1) = docs[l]
  BY <1>3 DEF block_max
<1>5. l \in 0..(length - 1) /\ q \in 0..(length - 1) /\ q <= l
  BY <1>1, <1>2
<1> HIDE DEF l
<1>6. docs[q] \in Nat /\ docs[l] \in Nat
  BY <1>5, ListTypes
<1>7. docs[q] <= docs[l]
  <2>1. CASE q = l
    BY <1>6, <2>1
  <2>2. CASE q # l
    <3>1. q < l
      BY <1>1, <1>5, <2>2
    <3>2. docs[q] < docs[l]
      BY <1>5, <3>1, DocsAscend
    <3> QED
      BY <1>6, <3>2
  <2> QED
    BY <2>1, <2>2
<1> QED
  BY <1>4, <1>5, <1>6, <1>7

\* What a call that starts a loop has to show.
LEMMA Looping ==
  ASSUME IInv, UNCHANGED list, BlockOK', CursorOK', LoopOK',
         pc' = "scan", answer' = 0,
         call' \in {"move", "next_geq"} \X Nat
  PROVE  IInv'
<1>1. ListOK'
  BY SameList DEF IInv
<1>2. CallOK' /\ FreqIsOfPosition'
  BY DEF CallOK, FreqIsOfPosition
<1> QED
  BY <1>1, <1>2 DEF IInv

LEMMA NextGeqInv ==
  ASSUME IInv, NEW bound \in 0..universe, NextGeq(bound)
  PROVE  IInv'
<1>0. /\ ListOK /\ BlockOK /\ CursorOK /\ UNCHANGED list
      /\ bound >= cur_docid \/ (position = 0 /\ ~AtEnd)
      /\ answer' = 0 /\ call' = <<"next_geq", bound>> /\ pc = "idle"
  BY DEF IInv, NextGeq, Called
<1>1. /\ bound \in Nat /\ bound <= universe /\ universe \in Nat
      /\ blocks \in Nat \ {0} /\ cur_block \in 0..(blocks - 1)
      /\ cur_block_max = block_max(cur_block)
      /\ block_max(cur_block) \in 0..(universe - 1)
      /\ cur_docid \in 0..universe
  <2>1. blocks \in Nat \ {0} /\ cur_block \in 0..(blocks - 1)
    BY <1>0, BlockBounds DEF BlockOK
  <2>2. 0 \in 0..(SizeOf(cur_block) - 1)
    BY <1>0, <2>1, BlockBounds
  <2>3. block_max(cur_block) \in 0..(universe - 1)
    BY <1>0, <2>1, <2>2, PostingInList
  <2> QED
    BY <1>0, <2>1, <2>3, ListTypes DEF BlockOK, CursorOK
<1>2. CASE bound <= cur_block_max
  <2>1. /\ pc' = "scan" /\ UNCHANGED block /\ UNCHANGED <<freqs_buf, freqs_decoded>>
        /\ pos_in_block' = pos_in_block /\ cur_docid' = cur_docid
    BY <1>2 DEF NextGeq
  <2>2. /\ BlockOK' /\ cur_block' = cur_block /\ SizeOf(cur_block)' = SizeOf(cur_block)
        /\ universe' = universe /\ docs' = docs /\ position' = position
        /\ block_max(cur_block)' = block_max(cur_block) /\ (AtEnd' <=> AtEnd)
    BY <1>0, <2>1, SameBlock, SameList DEF position, AtEnd
  <2>3. ~AtEnd
    BY <1>0, <1>1, <1>2 DEF AtEnd
  <2>4. CursorOK'
    BY <1>0, <2>1, <2>2 DEF CursorOK
  <2>5. ASSUME NEW q \in 0..(position - 1) PROVE docs[q] < bound
    <3>1. /\ position \in 0..(length - 1) /\ cur_docid = docs[position]
          /\ length \in Nat
      BY <1>0, <2>3, OnPosting, ListTypes
    <3>2. q \in 0..(length - 1) /\ q < position /\ position # 0
      BY <3>1
    <3>3. docs[q] < docs[position] /\ docs[q] \in Nat /\ docs[position] \in Nat
      BY <1>0, <3>1, <3>2, DocsAscend, ListTypes
    <3> QED
      BY <1>0, <1>1, <3>1, <3>2, <3>3
  <2>6. LoopOK'
    BY <1>0, <1>1, <1>2, <2>2, <2>3, <2>5 DEF LoopOK
  <2> QED
    BY <1>0, <1>1, <2>1, <2>2, <2>4, <2>6, Looping
<1>3. CASE ~(bound <= cur_block_max) /\ bound > block_max(blocks - 1)
  <2>1. /\ pc' = pc /\ UNCHANGED block /\ UNCHANGED <<freqs_buf, freqs_decoded>>
        /\ pos_in_block' = pos_in_block /\ cur_docid' = universe
    BY <1>3 DEF NextGeq
  <2>2. /\ BlockOK' /\ SizeOf(cur_block)' = SizeOf(cur_block)
        /\ universe' = universe /\ AtEnd'
    BY <1>0, <2>1, SameBlock, SameList
  <2>3. CursorOK'
    BY <1>0, <1>1, <2>1, <2>2 DEF CursorOK
  <2> QED
    BY <1>0, <1>1, <2>1, <2>2, <2>3, Idle
<1>4. CASE ~(bound <= cur_block_max) /\ ~(bound > block_max(blocks - 1))
  <2> DEFINE b == cur_block + 1
             c == BlockReaching(bound, b)
  <2>1. blocks - 1 \in 0..(blocks - 1) /\ block_max(blocks - 1) \in Nat
    <3>1. blocks - 1 \in 0..(blocks - 1)
      BY <1>1
    <3>2. 0 \in 0..(SizeOf(blocks - 1) - 1)
      BY <1>0, <3>1, BlockBounds
    <3>3. block_max(blocks - 1) \in 0..(universe - 1)
      BY <1>0, <3>1, <3>2, PostingInList
    <3> QED
      BY <3>1, <3>3
  <2>2. bound <= block_max(blocks - 1) /\ cur_block # blocks - 1
    BY <1>1, <1>4, <2>1
  <2>3. b \in 0..(blocks - 1)
    BY <1>1, <2>2
  <2>4. /\ c \in b..(blocks - 1) /\ block_max(c) >= bound
        /\ \A d \in b..(c - 1) : block_max(d) < bound
    BY <1>0, <1>1, <2>2, <2>3, BlockReachingFound
  <2>5. decode_docs_block(c) /\ pc' = "scan"
    BY <1>4 DEF NextGeq
  <2> HIDE DEF c
  <2>6. c \in 0..(blocks - 1) /\ c \in 1..(blocks - 1)
    BY <1>1, <2>4
  <2>7. /\ BlockOK' /\ CursorOK' /\ cur_block' = c
        /\ position' = c * block_size /\ ~AtEnd'
    BY <1>0, <2>5, <2>6, DecodeLands
  <2>8. ASSUME NEW q \in 0..(c * block_size - 1) PROVE docs[q] < bound
    <3>1. /\ docs[q] \in Nat /\ block_max(c - 1) \in Nat
          /\ docs[q] <= block_max(c - 1)
      BY <1>0, <2>6, BeforeBlock
    <3>2. block_max(c - 1) < bound
      <4>1. CASE c - 1 = cur_block
        BY <1>1, <1>4, <4>1
      <4>2. CASE c - 1 # cur_block
        <5>1. c - 1 \in b..(c - 1)
          BY <1>1, <2>4, <2>6, <4>2
        <5> QED
          BY <2>4, <5>1
      <4> QED
        BY <4>1, <4>2
    <3> QED
      BY <1>1, <3>1, <3>2
  <2>9. block_max(cur_block)' = block_max(c) /\ docs' = docs
    BY <1>0, <2>7, SameList
  <2>10. block_max(c) \in Nat
    <3>1. 0 \in 0..(SizeOf(c) - 1)
      BY <1>0, <2>6, BlockBounds
    <3>2. block_max(c) \in 0..(universe - 1)
      BY <1>0, <2>6, <3>1, PostingInList
    <3> QED
      BY <3>2
  <2>11. LoopOK'
    BY <1>0, <1>1, <2>4, <2>7, <2>8, <2>9, <2>10 DEF LoopOK
  <2> QED
    BY <1>0, <1>1, <2>5, <2>7, <2>11, Looping
<1> QED
  BY <1>2, <1>3, <1>4

LEMMA MoveInv ==
  ASSUME IInv, NEW p \in 0..(length - 1), Move(p)
  PROVE  IInv'
<1> DEFINE b == p \div block_size
<1>0. /\ ListOK /\ BlockOK /\ CursorOK /\ ~AtEnd /\ UNCHANGED list
      /\ p >= position /\ pc' = "scan" /\ answer' = 0
      /\ call' = <<"move", p>>
  BY DEF IInv, Move, Called
<1>1. /\ b \in 0..(blocks - 1)
      /\ p \in (b * block_size)..Posting(b, SizeOf(b) - 1)
  BY <1>0, BlockOfPosting
<1>2. p \in Nat /\ position \in Nat
  BY <1>0, OnPosting
<1>3. CASE b # cur_block
  <2>1. decode_docs_block(b)
    BY <1>3 DEF Move
  <2> HIDE DEF b
  <2>2. /\ BlockOK' /\ CursorOK' /\ cur_block' = b
        /\ position' = b * block_size /\ ~AtEnd'
    BY <1>0, <1>1, <2>1, DecodeLands
  <2>3. Posting(cur_block, SizeOf(cur_block) - 1)' = Posting(b, SizeOf(b) - 1)
    BY <1>0, <2>2, SameList DEF Posting
  <2>4. LoopOK'
    BY <1>0, <1>1, <2>2, <2>3 DEF LoopOK
  <2> QED
    BY <1>0, <1>2, <2>2, <2>4, Looping
<1>4. CASE b = cur_block
  <2>1. /\ UNCHANGED block /\ UNCHANGED <<freqs_buf, freqs_decoded>>
        /\ pos_in_block' = pos_in_block /\ cur_docid' = cur_docid
    BY <1>4 DEF Move
  <2>2. p <= Posting(cur_block, SizeOf(cur_block) - 1)
    BY <1>1, <1>4
  <2> HIDE DEF b
  <2>3. /\ BlockOK' /\ cur_block' = cur_block /\ SizeOf(cur_block)' = SizeOf(cur_block)
        /\ universe' = universe /\ docs' = docs /\ position' = position /\ ~AtEnd'
    BY <1>0, <2>1, SameBlock, SameList DEF position, AtEnd
  <2>4. CursorOK'
    BY <1>0, <2>1, <2>3 DEF CursorOK
  <2>5. Posting(cur_block, SizeOf(cur_block) - 1)'
          = Posting(cur_block, SizeOf(cur_block) - 1)
    BY <2>3 DEF Posting
  <2>6. Posting(cur_block, SizeOf(cur_block) - 1) \in Int
    <3>1. SizeOf(cur_block) - 1 \in 0..(SizeOf(cur_block) - 1)
      BY <1>0, OnPosting, ListTypes
    <3> QED
      BY <1>0, <3>1, PostingInList DEF BlockOK
  <2>7. p \in position..Posting(cur_block, SizeOf(cur_block) - 1)
    BY <1>0, <1>2, <2>2, <2>6
  <2>8. LoopOK'
    BY <1>0, <2>3, <2>5, <2>7 DEF LoopOK
  <2> QED
    BY <1>0, <1>2, <2>3, <2>4, <2>8, Looping
<1> QED
  BY <1>3, <1>4

\* A loop that has not arrived is not on the last posting of its block: the
\* assertion in the loop of next_geq.
LEMMA LoopGoesOn ==
  ASSUME IInv, pc = "scan", ~Arrived
  PROVE  pos_in_block + 1 < SizeOf(cur_block)
<1> DEFINE s == SizeOf(cur_block)
<1>0. ListOK /\ BlockOK /\ CursorOK /\ LoopOK /\ ~AtEnd
  BY DEF IInv, LoopOK
<1>1. /\ pos_in_block \in 0..(s - 1) /\ s \in 1..block_size
      /\ position = cur_block * block_size + pos_in_block
      /\ position = Posting(cur_block, pos_in_block)
      /\ cur_block * block_size \in Nat /\ cur_docid = docs[position]
      /\ cur_docid \in Nat /\ block_size \in Nat
  BY <1>0, OnPosting, ListTypes
<1>2. SUFFICES ASSUME pos_in_block = s - 1 PROVE FALSE
  BY <1>1
<1>3. position = Posting(cur_block, s - 1)
  BY <1>1, <1>2
<1>4. CASE call[1] = "move"
  BY <1>0, <1>1, <1>3, <1>4 DEF LoopOK, Arrived
<1>5. CASE call[1] = "next_geq"
  <2>1. cur_docid = block_max(cur_block)
    BY <1>1, <1>3 DEF block_max
  <2>2. call[2] <= cur_docid
    BY <1>0, <1>5, <2>1 DEF LoopOK
  <2>3. call[2] \in Nat
    BY DEF IInv, CallOK
  <2> QED
    BY <1>1, <1>5, <2>2, <2>3 DEF Arrived
<1> QED
  BY <1>0, <1>4, <1>5 DEF LoopOK

LEMMA ScanInv == IInv /\ Scan => IInv'
<1> SUFFICES ASSUME IInv, Scan PROVE IInv'
  OBVIOUS
<1>0. /\ ListOK /\ BlockOK /\ CursorOK /\ LoopOK /\ ~AtEnd
      /\ answer = 0 /\ pc = "scan" /\ ~Arrived
  BY DEF IInv, LoopOK, Scan
<1>1. /\ UNCHANGED list /\ UNCHANGED block /\ UNCHANGED <<freqs_buf, freqs_decoded>>
      /\ pos_in_block' = pos_in_block + 1
      /\ cur_docid' = cur_docid + docs_buf[pos_in_block + 1] + 1
      /\ pc' = pc /\ call' = call /\ answer' = answer
  BY DEF Scan
<1>2. /\ BlockOK' /\ CursorOK' /\ ~AtEnd'
      /\ position' = position + 1 /\ position + 1 \in 0..(length - 1)
  BY <1>0, <1>1, LoopGoesOn, StepInBlock
<1>3. /\ call \in {"new", "move", "next", "next_geq"} \X Nat
      /\ call[1] \in {"move", "next_geq"} /\ call[2] \in Nat
  BY <1>0 DEF IInv, CallOK, LoopOK
<1>4. /\ block_max(cur_block)' = block_max(cur_block)
      /\ Posting(cur_block, SizeOf(cur_block) - 1)'
           = Posting(cur_block, SizeOf(cur_block) - 1)
      /\ docs' = docs
  BY <1>1, SameList, SameBlock, <1>0 DEF block, Posting
<1>5. position \in 0..(length - 1) /\ cur_docid = docs[position] /\ cur_docid \in Nat
  BY <1>0, OnPosting
<1>6. ASSUME call[1] = "move"
      PROVE  call[2] \in (position + 1)..Posting(cur_block, SizeOf(cur_block) - 1)
  <2>1. call[2] \in position..Posting(cur_block, SizeOf(cur_block) - 1)
    BY <1>0, <1>6 DEF LoopOK
  <2>2. position < call[2]
    BY <1>0, <1>3, <1>5, <1>6 DEF Arrived
  <2> QED
    BY <1>3, <1>5, <2>1, <2>2
<1>7. ASSUME call[1] = "next_geq"
      PROVE  /\ call[2] <= block_max(cur_block)
             /\ \A q \in 0..position : docs[q] < call[2]
  <2>1. /\ call[2] <= block_max(cur_block)
        /\ \A q \in 0..(position - 1) : docs[q] < call[2]
    BY <1>0, <1>7 DEF LoopOK
  <2>2. docs[position] < call[2]
    BY <1>0, <1>3, <1>5, <1>7 DEF Arrived
  <2> QED
    BY <1>5, <2>1, <2>2
<1>8. LoopOK'
  <2>1. (position + 1) - 1 = position
    BY <1>5
  <2> QED
    BY <1>0, <1>1, <1>2, <1>3, <1>4, <1>6, <1>7, <2>1 DEF LoopOK
<1>9. call' \in {"move", "next_geq"} \X Nat
  BY <1>1, <1>3
<1> QED
  BY <1>0, <1>1, <1>2, <1>8, <1>9, Looping

LEMMA ReturnInv == IInv /\ Return => IInv'
<1> SUFFICES ASSUME IInv, Return PROVE IInv'
  OBVIOUS
<1>0. ListOK /\ BlockOK /\ CursorOK /\ answer = 0 /\ CallOK
  BY DEF IInv, LoopOK, Return
<1>1. /\ UNCHANGED list /\ UNCHANGED block /\ UNCHANGED <<freqs_buf, freqs_decoded>>
      /\ pos_in_block' = pos_in_block /\ cur_docid' = cur_docid
      /\ pc' = "idle" /\ call' = call /\ answer' = answer
  BY DEF Return
<1>2. /\ BlockOK' /\ SizeOf(cur_block)' = SizeOf(cur_block)
      /\ universe' = universe /\ docs' = docs /\ position' = position
      /\ (AtEnd' <=> AtEnd)
  BY <1>0, <1>1, SameBlock, SameList DEF position, AtEnd
<1>3. CursorOK'
  BY <1>0, <1>1, <1>2 DEF CursorOK
<1> QED
  BY <1>0, <1>1, <1>2, <1>3, Idle DEF CallOK

LEMMA FreqInv == IInv /\ Freq => IInv'
<1> SUFFICES ASSUME IInv, Freq PROVE IInv'
  OBVIOUS
<1> DEFINE b == cur_block
<1>0. ListOK /\ BlockOK /\ CursorOK /\ CallOK /\ ~AtEnd /\ pc = "idle"
  BY DEF IInv, Freq
<1>1. /\ UNCHANGED list /\ UNCHANGED block
      /\ pos_in_block' = pos_in_block /\ cur_docid' = cur_docid
      /\ pc' = pc /\ call' = call
      /\ freqs_decoded' = TRUE
      /\ freqs_buf' = IF freqs_decoded THEN freqs_buf ELSE DecodedFreqs
      /\ answer' = freqs_buf'[pos_in_block] + 1
  BY DEF Freq
<1>2. UNCHANGED <<cur_block, cur_block_max, cur_block_size, docs_buf, freqs_place>>
  BY <1>1 DEF block
<1>3. /\ b \in 0..(blocks - 1) /\ SizeOf(b) \in 1..block_size
      /\ cur_block_size = SizeOf(b) /\ order[freqs_place] = b
      /\ block_size \in Nat
  BY <1>0, BlockBounds, BlockInPlace, ListTypes DEF BlockOK
<1>4. ASSUME NEW i \in 0..(SizeOf(b) - 1)
      PROVE  freqs[Posting(b, i)] \in Nat \ {0}
  BY <1>0, <1>3, PostingInList, ListTypes
<1>5. /\ freqs_buf' \in [0..(block_size - 1) -> Nat]
      /\ \A i \in 0..(SizeOf(b) - 1) : freqs_buf'[i] = freqs[Posting(b, i)] - 1
  <2>1. CASE freqs_decoded
    BY <1>0, <1>1, <2>1 DEF BlockOK
  <2>2. CASE ~freqs_decoded
    <3>1. freqs_buf' = [i \in 0..(block_size - 1) |->
                          IF i < SizeOf(b) THEN freqs[Posting(b, i)] - 1
                                           ELSE freqs_buf[i]]
      BY <1>1, <1>3, <2>2 DEF DecodedFreqs
    <3>2. freqs_buf \in [0..(block_size - 1) -> Nat]
      BY <1>0 DEF BlockOK
    <3>3. ASSUME NEW i \in 0..(block_size - 1) PROVE freqs_buf'[i] \in Nat
      <4>1. CASE i < SizeOf(b)
        <5>1. i \in 0..(SizeOf(b) - 1)
          BY <1>3, <4>1
        <5>2. freqs_buf'[i] = freqs[Posting(b, i)] - 1
          BY <3>1, <4>1
        <5> QED
          BY <1>4, <5>1, <5>2
      <4>2. CASE ~(i < SizeOf(b))
        BY <3>1, <3>2, <4>2
      <4> QED
        BY <4>1, <4>2
    <3>4. freqs_buf' \in [0..(block_size - 1) -> Nat]
      BY <3>1, <3>3
    <3>5. \A i \in 0..(SizeOf(b) - 1) :
            /\ i \in 0..(block_size - 1) /\ i < SizeOf(b)
            /\ freqs_buf'[i] = freqs[Posting(b, i)] - 1
      BY <1>3, <3>1
    <3> QED
      BY <3>4, <3>5
  <2> QED
    BY <1>0, <2>1, <2>2 DEF BlockOK
<1>6. /\ SizeOf(cur_block)' = SizeOf(b)
      /\ Following(cur_block)' = Following(b)
      /\ block_max(cur_block)' = block_max(b)
      /\ PlaceOf(cur_block)' = PlaceOf(b)
      /\ \A i : Gap(cur_block, i)' = Gap(b, i)
      /\ \A i : Posting(cur_block, i)' = Posting(b, i)
      /\ blocks' = blocks /\ freqs' = freqs /\ docs' = docs /\ universe' = universe
      /\ position' = position /\ (AtEnd' <=> AtEnd) /\ ListOK'
  BY <1>0, <1>1, <1>2, SameList DEF position, AtEnd
<1>7. BlockOK'
  BY <1>0, <1>1, <1>2, <1>5, <1>6 DEF BlockOK
<1>8. CursorOK'
  BY <1>0, <1>1, <1>6 DEF CursorOK
<1>9. /\ pos_in_block \in 0..(SizeOf(b) - 1)
      /\ position = Posting(b, pos_in_block)
  BY <1>0, OnPosting
<1>10. answer' = freqs[position] /\ answer' \in Nat
  <2>1. freqs_buf'[pos_in_block] = freqs[position] - 1
    BY <1>5, <1>9
  <2>2. freqs[position] \in Nat
    BY <1>4, <1>9
  <2> QED
    BY <1>1, <2>1, <2>2
<1>11. LoopOK' /\ CallOK' /\ FreqIsOfPosition'
  BY <1>0, <1>1, <1>6, <1>10 DEF LoopOK, CallOK, FreqIsOfPosition
<1> QED
  BY <1>6, <1>7, <1>8, <1>11 DEF IInv

-----------------------------------------------------------------------------
(* The invariant holds *)

LEMMA InitInv == Init => IInv
<1> SUFFICES ASSUME Init PROVE IInv
  OBVIOUS
<1> DEFINE zero == [i \in 0..(block_size - 1) |-> 0]
<1>1. /\ ListOK
      /\ cur_block = 0 /\ pos_in_block = 0 /\ cur_block_max = block_max(0)
      /\ cur_block_size = SizeOf(0) /\ docs_buf = DecodedDocs(0, zero)
      /\ cur_docid = docs_buf[0] /\ freqs_buf = zero /\ freqs_place = 0
      /\ freqs_decoded = FALSE /\ pc = "idle" /\ call = <<"new", 0>>
      /\ answer = 0
  BY DEF Init, ListOK
<1>2. zero \in [0..(block_size - 1) -> Nat]
  OBVIOUS
<1> HIDE DEF zero
<1>3. 0 \in 0..(blocks - 1) /\ SizeOf(0) \in Nat /\ 0 < SizeOf(0)
  <2>1. 0 \in 0..(blocks - 1)
    BY <1>1, BlockBounds
  <2>2. SizeOf(0) \in 1..block_size
    BY <1>1, <2>1, BlockBounds
  <2> QED
    BY <1>1, <2>1, <2>2, ListTypes
<1>4. /\ docs_buf \in [0..(block_size - 1) -> Nat]
      /\ cur_docid = docs[Posting(0, 0)]
      /\ \A i \in Following(0) : docs_buf[i] = Gap(0, i)
  BY <1>1, <1>2, <1>3, Decoded
<1>5. BlockOK
  BY <1>1, <1>2, <1>3, <1>4 DEF BlockOK, PlaceOf
<1>6. CursorOK
  <2>1. Posting(0, 0) \in 0..(length - 1) /\ position = Posting(0, 0)
    <3>1. 0 \in 0..(SizeOf(0) - 1)
      BY <1>3
    <3> QED
      BY <1>1, <1>3, <3>1, PostingInList DEF position, Posting
  <2>2. cur_docid = docs[position] /\ cur_docid \in 0..universe
    BY <1>1, <1>4, <2>1, ListTypes
  <2> QED
    BY <1>1, <1>3, <2>2 DEF CursorOK
<1>7. LoopOK /\ CallOK /\ FreqIsOfPosition
  BY <1>1 DEF LoopOK, CallOK, FreqIsOfPosition
<1> QED
  BY <1>1, <1>5, <1>6, <1>7 DEF IInv

LEMMA StutterInv == IInv /\ UNCHANGED vars => IInv'
<1> SUFFICES ASSUME IInv, UNCHANGED vars PROVE IInv'
  OBVIOUS
<1>1. /\ UNCHANGED list /\ UNCHANGED block /\ UNCHANGED <<freqs_buf, freqs_decoded>>
      /\ UNCHANGED <<cur_block, pos_in_block, cur_docid, pc, call, answer>>
  BY DEF vars, list, block
<1>2. /\ BlockOK' /\ ListOK' /\ SizeOf(cur_block)' = SizeOf(cur_block)
      /\ block_max(cur_block)' = block_max(cur_block)
      /\ universe' = universe /\ docs' = docs /\ freqs' = freqs
      /\ position' = position /\ (AtEnd' <=> AtEnd)
  BY <1>1, SameBlock, SameList DEF IInv, position, AtEnd
<1>3. Posting(cur_block, SizeOf(cur_block) - 1)'
        = Posting(cur_block, SizeOf(cur_block) - 1)
  BY <1>1, <1>2 DEF Posting
<1>4. CursorOK'
  BY <1>1, <1>2 DEF IInv, CursorOK
<1>5. LoopOK'
  BY <1>1, <1>2, <1>3 DEF IInv, LoopOK
<1>6. CallOK' /\ FreqIsOfPosition'
  BY <1>1, <1>2 DEF IInv, CallOK, FreqIsOfPosition
<1> QED
  BY <1>2, <1>4, <1>5, <1>6 DEF IInv

-----------------------------------------------------------------------------
(* Theorems *)

\* Whatever calls are made, the members of the enumerator describe the block the
\* cursor is in, and a loop ends in the block it was started in.
THEOREM Invariance == Spec => []IInv
<1>1. IInv /\ [Step]_vars => IInv'
  BY ResetInv, NextInv, NextGeqInv, MoveInv, ScanInv, ReturnInv, FreqInv,
     StutterInv DEF Step
<1> QED
  BY InitInv, <1>1, PTL DEF Spec

\* The state of the enumerator has the type declared for it.
THEOREM TypeCorrect == Spec => []TypeOK
<1>1. ASSUME IInv PROVE TypeOK
  <2>1. ListOK /\ BlockOK /\ CursorOK /\ CallOK
    BY <1>1 DEF IInv
  <2>2. /\ cur_block \in 0..(blocks - 1) /\ SizeOf(cur_block) \in 1..block_size
        /\ cur_block_size = SizeOf(cur_block)
    BY <2>1, BlockBounds DEF BlockOK
  <2>3. 0 \in 0..(SizeOf(cur_block) - 1)
    BY <2>2, ListTypes, <2>1
  <2>4. cur_block_max \in 0..(universe - 1)
    BY <2>1, <2>2, <2>3, PostingInList DEF BlockOK
  <2>5. freqs_place \in 0..(blocks - 1)
    BY <2>1, <2>2, BlockInPlace DEF BlockOK
  <2> QED
    BY <2>1, <2>2, <2>4, <2>5 DEF ListOK, BlockOK, CursorOK, CallOK, TypeOK
<1> QED
  BY <1>1, Invariance, PTL

\* The document summed up gap by gap, across blocks and calls, is the one at the
\* cursor's position, and no loop runs over the end of the decoded block.
THEOREM DocidCorrect == Spec => []DocidIsOfPosition
<1>1. IInv => DocidIsOfPosition
  BY DEF IInv, BlockOK, CursorOK, DocidIsOfPosition
<1> QED
  BY <1>1, Invariance, PTL

\* freq() answers with the frequency of the current document, though its block of
\* frequencies is decoded later than the documents, from wherever it was written.
THEOREM FreqCorrect == Spec => []FreqIsOfPosition
<1>1. IInv => FreqIsOfPosition
  BY DEF IInv
<1> QED
  BY <1>1, Invariance, PTL

-----------------------------------------------------------------------------
(* The refinement *)

AbstractValue == IF pc = "scan" THEN docs[Target] ELSE cur_docid

First(bound) == Sorted!FirstAtLeast(docs, bound)

\* The operators of the abstract enumerator are those the lemmas are about.
LEMMA AbstractOperators ==
  ASSUME ListOK
  PROVE  /\ Abstract!SizeOf(docs) = length
         /\ \A p : Abstract!ValueIn(docs, universe, p)
                     = IF p = length THEN universe ELSE docs[p]
         /\ \A p \in 0..length : \A bound \in Nat :
              Abstract!Landing(docs, universe, p, bound) = First(bound)
         /\ Sorted!SizeOf(docs) = length
<1>0. \A s : Abstract!SizeOf(s) = Sorted!SizeOf(s)
  BY DEF Abstract!SizeOf, Sorted!SizeOf, Abstract!Cardinality,
         Sorted!Cardinality, Cardinality
<1>1. /\ length \in Nat /\ DOMAIN docs = 0..(length - 1) /\ universe \in Int
      /\ \A i \in 0..(length - 1) : docs[i] \in Int /\ docs[i] < universe
  BY ListTypes
<1>2. Sorted!SizeOf(docs) = length
  BY <1>1, Sorted!SizeOfSequence
<1>3. \A i, j \in 0..(length - 1) : i < j => docs[i] < docs[j]
  BY DocsAscend
<1>4. \A s, bound : Abstract!FirstAtLeast(s, bound) = Sorted!FirstAtLeast(s, bound)
  BY <1>0 DEF Abstract!FirstAtLeast, Sorted!FirstAtLeast
<1>5. \A s, u, p : Abstract!ValueIn(s, u, p) = Sorted!ValueIn(s, u, p)
  BY <1>0 DEF Abstract!ValueIn, Sorted!ValueIn
<1>6. \A s, u, p, bound :
        Abstract!Landing(s, u, p, bound) = Sorted!Landing(s, u, p, bound)
  BY <1>4, <1>5 DEF Abstract!Landing, Sorted!Landing
<1>7. ASSUME NEW p \in 0..length, NEW bound \in Nat
      PROVE  Abstract!Landing(docs, universe, p, bound) = First(bound)
  <2>1. Sorted!Landing(docs, universe, p, bound) = First(bound)
    BY <1>1, <1>3, Sorted!LandingIsFirst DEF First
  <2> QED
    BY <1>6, <2>1
<1> QED
  BY <1>0, <1>2, <1>5, <1>7 DEF Sorted!ValueIn

\* The first posting that reaches a bound: it is one of the list when the bound is
\* not above a document of it, and it is the only such posting.
LEMMA FirstIs ==
  ASSUME ListOK, NEW bound \in Nat
  PROVE  /\ First(bound) \in 0..length
         /\ First(bound) # length => docs[First(bound)] >= bound
         /\ \A q \in 0..(First(bound) - 1) : docs[q] < bound
         /\ \A p \in 0..length :
              /\ p = length \/ docs[p] >= bound
              /\ \A q \in 0..(p - 1) : docs[q] < bound
              => First(bound) = p
<1>1. /\ length \in Nat /\ DOMAIN docs = 0..(length - 1)
      /\ \A i \in 0..(length - 1) : docs[i] \in Int
      /\ bound \in Int
  BY ListTypes
<1>2. LET f == First(bound)
      IN /\ f \in 0..length
         /\ f = length \/ docs[f] >= bound
         /\ \A q \in 0..(f - 1) : docs[q] < bound
  BY <1>1, Sorted!FirstAtLeastFound, Zenon DEF First
<1>3. ASSUME NEW p \in 0..length,
             p = length \/ docs[p] >= bound,
             \A q \in 0..(p - 1) : docs[q] < bound
      PROVE  First(bound) = p
  BY <1>1, <1>3, Sorted!FirstAtLeastIs, Zenon DEF First
<1> QED
  BY <1>2, <1>3

\* Where a loop leads.
LEMMA TargetIs ==
  ASSUME ListOK
  PROVE  Target = IF call[1] = "move" THEN call[2] ELSE First(call[2])
<1>1. Sorted!SizeOf(docs) = length
  BY AbstractOperators
<1> QED
  BY <1>1 DEF Target, First, Sorted!FirstAtLeast

\* The position of the abstract enumerator, and the value there.
LEMMA AbstractState ==
  ASSUME IInv
  PROVE  /\ pc = "idle" /\ AtEnd =>
              /\ AbstractPosition = length /\ AbstractValue = universe
         /\ pc = "idle" /\ ~AtEnd =>
              /\ AbstractPosition = position /\ AbstractValue = docs[position]
              /\ position \in 0..(length - 1)
         /\ pc = "scan" =>
              /\ AbstractPosition = Target /\ AbstractValue = docs[Target]
              /\ Target \in 0..(length - 1)
<1>0. ListOK /\ BlockOK /\ CursorOK /\ LoopOK /\ CallOK
  BY DEF IInv
<1>1. pc = "idle" /\ AtEnd => AbstractPosition = length /\ AbstractValue = universe
  BY DEF AbstractPosition, AbstractValue, AtEnd
<1>2. ASSUME pc = "idle", ~AtEnd
      PROVE  /\ AbstractPosition = position /\ AbstractValue = docs[position]
             /\ position \in 0..(length - 1)
  BY <1>0, <1>2, OnPosting DEF AbstractPosition, AbstractValue
<1>3. ASSUME pc = "scan" PROVE Target \in 0..(length - 1)
  <2> DEFINE l == Posting(cur_block, SizeOf(cur_block) - 1)
  <2>1. ~AtEnd /\ call[2] \in Nat /\ call[1] \in {"move", "next_geq"}
    BY <1>0, <1>3 DEF LoopOK, CallOK
  <2>2. /\ cur_block \in 0..(blocks - 1)
        /\ SizeOf(cur_block) - 1 \in 0..(SizeOf(cur_block) - 1)
        /\ position \in 0..(length - 1) /\ length \in Nat
    <3>1. SizeOf(cur_block) \in 1..block_size /\ position \in 0..(length - 1)
      BY <1>0, <2>1, OnPosting
    <3> QED
      BY <1>0, <3>1, ListTypes DEF BlockOK
  <2>3. l \in 0..(length - 1) /\ docs[l] \in Nat /\ block_max(cur_block) = docs[l]
    BY <1>0, <2>2, PostingInList DEF block_max
  <2>4. CASE call[1] = "move"
    <3>1. call[2] \in position..l
      BY <1>0, <1>3, <2>4 DEF LoopOK
    <3> HIDE DEF l
    <3>2. call[2] \in 0..(length - 1)
      BY <2>2, <2>3, <3>1
    <3> QED
      BY <1>0, <2>4, <3>2, TargetIs
  <2>5. CASE call[1] = "next_geq"
    <3>1. call[2] <= docs[l]
      BY <1>0, <1>3, <2>3, <2>5 DEF LoopOK
    <3>2. /\ First(call[2]) \in 0..length
          /\ \A q \in 0..(First(call[2]) - 1) : docs[q] < call[2]
      BY <1>0, <2>1, FirstIs
    <3> HIDE DEF l
    <3>3. First(call[2]) # length
      BY <2>1, <2>3, <3>1, <3>2
    <3>4. First(call[2]) \in 0..(length - 1)
      BY <2>2, <3>2, <3>3
    <3> QED
      BY <1>0, <2>5, <3>4, TargetIs
  <2> QED
    BY <2>1, <2>4, <2>5
<1> QED
  BY <1>1, <1>2, <1>3 DEF AbstractPosition, AbstractValue

\* What a call has to show: it lands where the abstract call lands.
LEMMA Lands ==
  ASSUME ListOK, UNCHANGED list, NEW p,
         AbstractPosition' = p,
         AbstractValue' = IF p = length THEN universe ELSE docs[p]
  PROVE  Abstract!LandAt(p)
<1>1. UNCHANGED <<docs, universe>>
  BY DEF list
<1>2. Abstract!ValueIn(docs, universe, p) = IF p = length THEN universe ELSE docs[p]
  BY AbstractOperators
<1> QED
  BY <1>1, <1>2 DEF Abstract!LandAt, AbstractValue

\* The state a step leads to is one the lemmas speak of.
LEMMA AbstractStateAfter ==
  ASSUME IInv', UNCHANGED list
  PROVE  /\ pc' = "idle" /\ AtEnd' =>
              /\ AbstractPosition' = length /\ AbstractValue' = universe
         /\ pc' = "idle" /\ ~AtEnd' =>
              /\ AbstractPosition' = position' /\ AbstractValue' = docs[position']
              /\ position' \in 0..(length - 1)
         /\ pc' = "scan" =>
              /\ AbstractPosition' = Target' /\ AbstractValue' = docs[Target']
              /\ Target' \in 0..(length - 1)
              /\ Target' = IF call'[1] = "move" THEN call'[2] ELSE First(call'[2])
<1>1. UNCHANGED <<length, docs, universe>>
  BY DEF list
<1>2. (pc = "idle" /\ AtEnd =>
         AbstractPosition = length /\ AbstractValue = universe)'
  BY AbstractState, PTL
<1>3. (pc = "idle" /\ ~AtEnd =>
         /\ AbstractPosition = position /\ AbstractValue = docs[position]
         /\ position \in 0..(length - 1))'
  BY AbstractState, PTL
<1>4. (pc = "scan" =>
         /\ AbstractPosition = Target /\ AbstractValue = docs[Target]
         /\ Target \in 0..(length - 1))'
  BY AbstractState, PTL
<1>5. (ListOK => Target = IF call[1] = "move" THEN call[2] ELSE First(call[2]))'
  BY TargetIs, PTL
<1>6. ListOK'
  BY DEF IInv
<1>7. First(call[2])' = First(call'[2])
  BY <1>1 DEF First
<1>8. Target' = IF call'[1] = "move" THEN call'[2] ELSE First(call'[2])
  BY <1>5, <1>6, <1>7
<1>9. ASSUME pc' = "idle", AtEnd'
      PROVE  AbstractPosition' = length /\ AbstractValue' = universe
  BY <1>1, <1>2, <1>9
<1>10. ASSUME pc' = "idle", ~AtEnd'
       PROVE  /\ AbstractPosition' = position' /\ AbstractValue' = docs[position']
              /\ position' \in 0..(length - 1)
  BY <1>1, <1>3, <1>10
<1>11. ASSUME pc' = "scan"
       PROVE  /\ AbstractPosition' = Target' /\ AbstractValue' = docs[Target']
              /\ Target' \in 0..(length - 1)
  BY <1>1, <1>4, <1>11
<1> QED
  BY <1>8, <1>9, <1>10, <1>11

\* A call makes one step of the abstract enumerator, and its loop none.
LEMMA StepRefines == IInv /\ [Step]_vars => [Abstract!Step]_(Abstract!vars)
<1> SUFFICES ASSUME IInv, [Step]_vars
             PROVE  Abstract!Step \/ UNCHANGED Abstract!vars
  BY Zenon
<1>0. /\ IInv' /\ ListOK /\ BlockOK /\ CursorOK /\ LoopOK /\ CallOK
      /\ length \in Nat \ {0} /\ universe \in Nat \ {0}
  BY ResetInv, NextInv, NextGeqInv, MoveInv, ScanInv, ReturnInv, FreqInv,
     StutterInv, ListTypes DEF Step, IInv
<1>1. ASSUME Reset PROVE Abstract!Step
  <2>1. /\ UNCHANGED list /\ decode_docs_block(0) /\ pc' = "idle"
        /\ call' = <<"move", 0>>
    BY <1>1 DEF Reset, Called
  <2>2. 0 \in 0..(blocks - 1) /\ 0 * block_size = 0 /\ 0 \in 0..length
    BY <1>0, BlockBounds, ListTypes
  <2>3. ~AtEnd' /\ position' = 0
    BY <1>0, <2>1, <2>2, DecodeLands
  <2>4. AbstractPosition' = 0 /\ AbstractValue' = docs[0]
    BY <1>0, <2>1, <2>3, AbstractStateAfter
  <2>5. Abstract!LandAt(0)
    BY <1>0, <2>1, <2>4, Lands
  <2>6. Abstract!Move(0)
    BY <2>1, <2>5 DEF Abstract!Move
  <2> QED
    BY <1>0, <2>2, <2>6, AbstractOperators DEF Abstract!Step, Abstract!size
<1>2. ASSUME Next PROVE Abstract!Step
  <2>1. UNCHANGED list /\ pc = "idle" /\ pc' = "idle" /\ call' = <<"next", 0>>
    BY <1>2 DEF Next, Called
  <2>2. /\ ~AtEnd /\ position \in 0..(length - 1)
        /\ position + 1 = length => AtEnd'
        /\ position + 1 # length => ~AtEnd' /\ position' = position + 1
    BY <1>2, NextLands
  <2>3. AbstractPosition = position
    BY <2>1, <2>2, AbstractState
  <2>4. /\ AbstractPosition' = position + 1
        /\ AbstractValue' = IF position + 1 = length THEN universe
                                                     ELSE docs[position + 1]
    BY <1>0, <2>1, <2>2, AbstractStateAfter
  <2>5. Abstract!LandAt(position + 1)
    BY <1>0, <2>1, <2>4, Lands
  <2>6. Abstract!Next
    BY <1>0, <2>1, <2>2, <2>3, <2>5, AbstractOperators
    DEF Abstract!Next, Abstract!size
  <2> QED
    BY <2>6 DEF Abstract!Step
<1>3. ASSUME NEW bound \in 0..universe, NextGeq(bound) PROVE Abstract!Step
  <2>1. /\ UNCHANGED list /\ pc = "idle" /\ call' = <<"next_geq", bound>>
        /\ bound \in Nat /\ bound \in 0..(universe + 0)
    BY <1>0, <1>3 DEF NextGeq, Called
  <2>2. AbstractPosition \in 0..length
    BY <1>0, <2>1, AbstractState
  <2>3. Abstract!Landing(docs, universe, AbstractPosition, bound) = First(bound)
    BY <1>0, <2>1, <2>2, AbstractOperators
  <2>4. CASE pc' = "scan"
    <3>1. Target' = First(bound) /\ First(bound) \in 0..(length - 1)
      BY <1>0, <2>1, <2>4, AbstractStateAfter
    <3>2. /\ AbstractPosition' = First(bound)
          /\ AbstractValue' = IF First(bound) = length THEN universe
                                                       ELSE docs[First(bound)]
      BY <1>0, <2>1, <2>4, <3>1, AbstractStateAfter
    <3> QED
      BY <1>0, <2>1, <2>3, <3>2, Lands
      DEF Abstract!Step, Abstract!NextGeq
  <2>5. CASE pc' # "scan"
    <3>1. pc' = "idle" /\ cur_docid' = universe /\ bound > block_max(blocks - 1)
      BY <1>3, <2>1, <2>5 DEF NextGeq
    <3>2. universe' = universe /\ AtEnd'
      BY <2>1, <3>1, SameList
    <3>3. AbstractPosition' = length /\ AbstractValue' = universe
      BY <1>0, <2>1, <3>1, <3>2, AbstractStateAfter
    <3>4. ASSUME NEW q \in 0..(length - 1) PROVE docs[q] < bound
      <4> DEFINE l == length - 1
      <4>1. /\ blocks - 1 \in 0..(blocks - 1)
            /\ Posting(blocks - 1, SizeOf(blocks - 1) - 1) = l
        <5>1. blocks - 1 \in 0..(blocks - 1)
          BY <1>0, BlockBounds
        <5>2. /\ (blocks - 1) * block_size + SizeOf(blocks - 1) = length
              /\ (blocks - 1) * block_size \in Nat
              /\ SizeOf(blocks - 1) \in 1..block_size
          BY <1>0, <5>1, BlockBounds
        <5> DEFINE base == (blocks - 1) * block_size
        <5>3. /\ Posting(blocks - 1, SizeOf(blocks - 1) - 1)
                   = base + (SizeOf(blocks - 1) - 1)
              /\ block_size \in Nat
          BY <1>0, ListTypes DEF Posting
        <5>4. base + SizeOf(blocks - 1) = length /\ base \in Nat
          BY <5>2
        <5> HIDE DEF base
        <5> QED
          BY <1>0, <5>1, <5>2, <5>3, <5>4
      <4>2. block_max(blocks - 1) = docs[l] /\ l \in 0..(length - 1)
        BY <1>0, <4>1 DEF block_max
      <4>3. docs[q] \in Nat /\ docs[l] \in Nat
        BY <1>0, <4>2, ListTypes
      <4>4. docs[q] <= docs[l]
        <5>1. CASE q = l
          BY <4>3, <5>1
        <5>2. CASE q # l
          <6>1. q < l
            BY <1>0, <5>2
          <6>2. docs[q] < docs[l]
            BY <1>0, <4>2, <6>1, DocsAscend
          <6> QED
            BY <4>3, <6>2
        <5> QED
          BY <5>1, <5>2
      <4> HIDE DEF l
      <4> QED
        BY <2>1, <3>1, <4>2, <4>3, <4>4
    <3>5. First(bound) = length
      BY <1>0, <2>1, <3>4, FirstIs
    <3>6. Abstract!LandAt(length)
      BY <1>0, <2>1, <3>3, Lands
    <3>7. Abstract!NextGeq(bound)
      BY <2>1, <2>3, <3>5, <3>6 DEF Abstract!NextGeq
    <3> QED
      BY <2>1, <3>7 DEF Abstract!Step
  <2> QED
    BY <2>4, <2>5
<1>4. ASSUME NEW p \in 0..(length - 1), Move(p) PROVE Abstract!Step
  <2>1. UNCHANGED list /\ pc' = "scan" /\ call' = <<"move", p>>
    BY <1>4 DEF Move, Called
  <2>2. AbstractPosition' = p /\ AbstractValue' = docs[p] /\ p # length
    BY <1>0, <2>1, AbstractStateAfter
  <2>3. Abstract!LandAt(p)
    BY <1>0, <2>1, <2>2, Lands
  <2>4. Abstract!Move(p) /\ p \in 0..length
    BY <1>0, <2>1, <2>3 DEF Abstract!Move
  <2> QED
    BY <1>0, <2>4, AbstractOperators DEF Abstract!Step, Abstract!size
<1>5. ASSUME Scan PROVE UNCHANGED Abstract!vars
  <2>1. UNCHANGED list /\ pc = "scan" /\ pc' = "scan" /\ call' = call
    BY <1>5 DEF Scan
  <2>2. UNCHANGED <<length, docs, universe>>
    BY <2>1 DEF list
  <2>3. Target' = Target
    BY <2>1, <2>2 DEF Target
  <2> QED
    BY <2>1, <2>2, <2>3 DEF Abstract!vars, AbstractPosition
<1>6. ASSUME Return PROVE UNCHANGED Abstract!vars
  <2>1. /\ UNCHANGED list /\ pc = "scan" /\ pc' = "idle" /\ call' = call
        /\ cur_docid' = cur_docid /\ UNCHANGED block
        /\ pos_in_block' = pos_in_block /\ Arrived
    BY <1>6 DEF Return
  <2>2. UNCHANGED <<length, docs, universe, cur_block>>
    BY <2>1 DEF list, block
  <2>3. ~AtEnd /\ call[1] \in {"move", "next_geq"} /\ call[2] \in Nat
    BY <1>0, <2>1 DEF LoopOK, CallOK
  <2>4. ~AtEnd' /\ position' = position
    BY <2>1, <2>2, <2>3 DEF AtEnd, position
  <2>5. position \in 0..(length - 1) /\ cur_docid = docs[position] /\ cur_docid \in Nat
    BY <1>0, <2>3, OnPosting
  <2>6. Target = position
    <3>1. CASE call[1] = "move"
      <4>1. position >= call[2] /\ call[2] >= position
        BY <1>0, <2>1, <3>1 DEF Arrived, LoopOK
      <4> QED
        BY <1>0, <2>3, <2>5, <3>1, <4>1, TargetIs
    <3>2. CASE call[1] = "next_geq"
      <4>1. /\ docs[position] >= call[2]
            /\ \A q \in 0..(position - 1) : docs[q] < call[2]
        BY <1>0, <2>1, <2>5, <3>2 DEF Arrived, LoopOK
      <4>2. position \in 0..length
        BY <1>0, <2>5
      <4>3. First(call[2]) = position
        BY <1>0, <2>3, <4>1, <4>2, FirstIs
      <4> QED
        BY <1>0, <3>2, <4>3, TargetIs
    <3> QED
      BY <2>3, <3>1, <3>2
  <2>7. AbstractPosition = position /\ AbstractValue = docs[position]
    BY <2>1, <2>6, AbstractState
  <2>8. AbstractPosition' = position /\ AbstractValue' = docs[position]
    BY <1>0, <2>1, <2>4, AbstractStateAfter
  <2> QED
    BY <2>1, <2>2, <2>7, <2>8 DEF Abstract!vars, AbstractValue
<1>7. ASSUME Freq PROVE UNCHANGED Abstract!vars
  <2>1. /\ UNCHANGED list /\ pc = "idle" /\ pc' = "idle" /\ call' = call
        /\ cur_docid' = cur_docid /\ UNCHANGED block
        /\ pos_in_block' = pos_in_block
    BY <1>7 DEF Freq
  <2>2. UNCHANGED <<length, docs, universe, cur_block>>
    BY <2>1 DEF list, block
  <2> QED
    BY <2>1, <2>2 DEF Abstract!vars, AbstractPosition, AtEnd, position
<1>8. ASSUME UNCHANGED vars PROVE UNCHANGED Abstract!vars
  <2>1. UNCHANGED <<length, docs, universe, cur_block, pos_in_block, cur_docid,
                    pc, call>>
    BY <1>8 DEF vars
  <2> QED
    BY <2>1 DEF Abstract!vars, AbstractPosition, AtEnd, position, Target
<1> QED
  BY <1>1, <1>2, <1>3, <1>4, <1>5, <1>6, <1>7, <1>8 DEF Step

\* The document_enumerator of a block_posting_list is an enumerator of the index:
\* whatever was called before, move, next and next_geq lead where they lead on
\* the list itself.
THEOREM Refinement == Spec => RefinesSequenceEnumerator
<1>1. Init => Abstract!Init
  <2> SUFFICES ASSUME Init PROVE Abstract!Init
    OBVIOUS
  <2>1. IInv /\ pc = "idle" /\ call = <<"new", 0>>
    BY InitInv DEF Init
  <2>2. ListOK /\ ~AtEnd /\ position = 0
    <3>1. ListOK /\ CursorOK
      BY <2>1 DEF IInv
    <3>2. block_size \in Nat /\ cur_block = 0 /\ pos_in_block = 0
      BY <3>1, ListTypes DEF Init
    <3>3. position = 0
      BY <3>2 DEF position
    <3>4. cur_docid = docs[Posting(0, 0)] /\ Posting(0, 0) = 0
      <4>1. [i \in 0..(block_size - 1) |-> 0] \in [0..(block_size - 1) -> Nat]
        OBVIOUS
      <4>2. 0 \in 0..(blocks - 1)
        BY <3>1, BlockBounds
      <4>3. /\ docs_buf = DecodedDocs(0, [i \in 0..(block_size - 1) |-> 0])
            /\ cur_docid = docs_buf[0]
        BY DEF Init
      <4> QED
        BY <3>1, <3>2, <4>1, <4>2, <4>3, Decoded DEF Posting
    <3>5. docs[0] \in Nat /\ docs[0] < universe /\ universe \in Nat
      BY <3>1, ListTypes
    <3> QED
      BY <3>1, <3>3, <3>4, <3>5 DEF AtEnd
  <2>3. AbstractPosition = 0 /\ AbstractValue = docs[0] /\ 0 # length
    BY <2>1, <2>2, AbstractState, ListTypes
  <2> QED
    BY <2>1, <2>2, <2>3, AbstractOperators
    DEF Abstract!Init, Abstract!size, AbstractValue
<1> QED
  BY <1>1, StepRefines, Invariance, PTL
  DEF Spec, RefinesSequenceEnumerator, Abstract!Spec
=============================================================================

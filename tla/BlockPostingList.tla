-------------------------- MODULE BlockPostingList --------------------------
(***************************************************************************)
(* block_posting_list (src/block_posting_list.hpp): the postings of a term *)
(* in blocks of block_size, each block encoded on its own, with the last   *)
(* document of every block and the place of every block but the first in   *)
(* front of them; and the document_enumerator that decodes a block at a    *)
(* time and its frequencies only when they are asked for.                  *)
(*                                                                         *)
(* A call is one step, but for the loops of next_geq and move, which make  *)
(* one step per document passed: pc tells whether a loop is running.       *)
(*                                                                         *)
(* The codec is interpolative_block, the one that uses the sum it is given *)
(* (src/block_codecs.hpp): of the gaps of a block it stores the prefix     *)
(* sums without the last, which the decoder has to be told.  A gap does    *)
(* not count the document itself, so the prefix sum of the gaps up to the  *)
(* i-th document of a block is its distance from the base of the block     *)
(* less i.                                                                 *)
(***************************************************************************)
EXTENDS Integers, FiniteSets

CONSTANTS
  block_size,  \* BlockCodec::block_size
  Lengths,     \* the lengths of the lists
  Universes,   \* the numbers of documents of the collection
  Frequencies  \* the frequencies of postings

ASSUME BlockAssumption ==
  /\ block_size \in Nat \ {0}
  /\ Lengths \subseteq Nat \ {0}
  /\ Universes \subseteq Nat \ {0}
  /\ Frequencies \subseteq Nat \ {0}

VARIABLES
  length,          \* m_n
  docs,            \* the documents of the list, increasing
  freqs,           \* the frequency of each of them
  universe,        \* m_universe, the number of documents of the collection
  order,           \* which block is written in each place
  cur_block,       \* m_cur_block
  pos_in_block,    \* m_pos_in_block
  cur_block_max,   \* m_cur_block_max
  cur_block_size,  \* m_cur_block_size
  cur_docid,       \* m_cur_docid; universe past the end
  docs_buf,        \* m_docs_buf
  freqs_buf,       \* m_freqs_buf
  freqs_place,     \* m_freqs_block_data: the place whose frequencies come next
  freqs_decoded,   \* m_freqs_decoded
  pc,              \* "idle", or "scan" in the loop of next_geq or of move
  call,            \* the last call and its argument
  answer           \* what freq() returned; 0 when the cursor has moved since

list == <<length, docs, freqs, universe, order>>
block == <<cur_block, cur_block_max, cur_block_size, docs_buf, freqs_place>>
vars == <<length, docs, freqs, universe, order, cur_block, pos_in_block,
          cur_block_max, cur_block_size, cur_docid, docs_buf, freqs_buf,
          freqs_place, freqs_decoded, pc, call, answer>>

-----------------------------------------------------------------------------
(* write and write_blocks: the stored list *)

blocks == (length + block_size - 1) \div block_size

SizeOf(b) ==
  IF (b + 1) * block_size <= length THEN block_size ELSE length % block_size

\* The i-th posting of block b.
Posting(b, i) == b * block_size + i

block_max(b) == docs[Posting(b, SizeOf(b) - 1)]

\* Faulty variant: the base of a block is the last document before it.
BaseOnLastDocument(b) == IF b = 0 THEN 0 ELSE block_max(b - 1)

\* One past the last document of the blocks before.
Base(b) == IF b = 0 THEN 0 ELSE block_max(b - 1) + 1

\* What the codec stores of the documents of block b.
PrefixSum(b, i) ==
  docs[Posting(b, i)] - (IF b = 0 THEN 0 ELSE block_max(b - 1) + 1) - i

\* Where the reader finds block b: the first one is in front, the others where
\* their endpoints say.
PlaceOf(b) == IF b = 0 THEN 0 ELSE CHOOSE p \in DOMAIN order : order[p] = b

\* write leaves the blocks in order, write_blocks any block but the first in
\* any place.
Orders(count) ==
  {o \in [0..(count - 1) -> 0..(count - 1)] :
     /\ o[0] = 0
     /\ \A p, q \in 0..(count - 1) : o[p] = o[q] => p = q}

Lists(len, u) ==
  {d \in [0..(len - 1) -> 0..(u - 1)] : \A i \in 1..(len - 1) : d[i - 1] < d[i]}

-----------------------------------------------------------------------------
(* document_enumerator *)

position == cur_block * block_size + pos_in_block

AtEnd == cur_docid = universe

\* BlockCodec::decode on the documents of block b, the last prefix sum being
\* the one that follows from the maximum, and the base added to the first.
DecodedDocs(b, old) ==
  LET k == SizeOf(b)
      total == block_max(b) - Base(b) - (k - 1)
      Sum(i) == IF i = k - 1 THEN total ELSE PrefixSum(order[PlaceOf(b)], i)
  IN [i \in 0..(block_size - 1) |->
        IF i >= k THEN old[i]
        ELSE IF i = 0 THEN Sum(0) + Base(b)
        ELSE Sum(i) - Sum(i - 1)]

\* Faulty variant: the frequencies stay marked as decoded.
decode_docs_blockOnly(b) ==
  /\ cur_block' = b
  /\ cur_block_size' = SizeOf(b)
  /\ cur_block_max' = block_max(b)
  /\ docs_buf' = DecodedDocs(b, docs_buf)
  /\ freqs_place' = PlaceOf(b)
  /\ pos_in_block' = 0
  /\ cur_docid' = docs_buf'[0]
  /\ UNCHANGED <<freqs_buf, freqs_decoded>>

decode_docs_block(b) ==
  /\ cur_block' = b
  /\ cur_block_size' = SizeOf(b)
  /\ cur_block_max' = block_max(b)
  /\ docs_buf' = DecodedDocs(b, docs_buf)
  /\ freqs_place' = PlaceOf(b)
  /\ pos_in_block' = 0
  /\ cur_docid' = docs_buf'[0]
  /\ freqs_decoded' = FALSE
  /\ UNCHANGED freqs_buf

Init ==
  /\ length \in Lengths
  /\ universe \in Universes
  /\ docs \in Lists(length, universe)
  /\ freqs \in [0..(length - 1) -> Frequencies]
  /\ order \in Orders(blocks)
  /\ cur_block = 0
  /\ pos_in_block = 0
  /\ cur_block_max = block_max(0)
  /\ cur_block_size = SizeOf(0)
  /\ docs_buf = DecodedDocs(0, [i \in 0..(block_size - 1) |-> 0])
  /\ cur_docid = docs_buf[0]
  /\ freqs_buf = [i \in 0..(block_size - 1) |-> 0]
  /\ freqs_place = 0
  /\ freqs_decoded = FALSE
  /\ pc = "idle"
  /\ call = <<"new", 0>>
  /\ answer = 0

Called(op, arg) ==
  /\ pc = "idle"
  /\ call' = <<op, arg>>
  /\ answer' = 0
  /\ UNCHANGED list

\* Back to the first posting.
Reset ==
  /\ Called("move", 0)
  /\ decode_docs_block(0)
  /\ UNCHANGED pc

\* Not called at the end: there is no posting to leave.
Next ==
  /\ ~AtEnd
  /\ Called("next", 0)
  /\ IF pos_in_block + 1 < cur_block_size
     THEN /\ pos_in_block' = pos_in_block + 1
          /\ cur_docid' = cur_docid + docs_buf[pos_in_block + 1] + 1
          /\ UNCHANGED <<block, freqs_buf, freqs_decoded>>
     ELSE IF cur_block + 1 = blocks
     THEN /\ pos_in_block' = pos_in_block + 1
          /\ cur_docid' = universe
          /\ UNCHANGED <<block, freqs_buf, freqs_decoded>>
     ELSE decode_docs_block(cur_block + 1)
  /\ UNCHANGED pc

\* Faulty variant: the block that ends on the bound is passed.
BlockPassing(bound, b) ==
  CHOOSE c \in b..(blocks - 1) :
    /\ block_max(c) > bound \/ c = blocks - 1
    /\ \A d \in b..(c - 1) : block_max(d) <= bound

\* The first block from b on that reaches the bound.
BlockReaching(bound, b) ==
  CHOOSE c \in b..(blocks - 1) :
    /\ block_max(c) >= bound
    /\ \A d \in b..(c - 1) : block_max(d) < bound

\* The lower bound is not below the current document, but for a cursor on the
\* first posting, which may be asked for any (the assertion of next_geq).
NextGeq(bound) ==
  /\ bound >= cur_docid \/ (position = 0 /\ ~AtEnd)
  /\ Called("next_geq", bound)
  /\ IF bound <= cur_block_max
     THEN /\ pc' = "scan"
          /\ UNCHANGED <<block, pos_in_block, cur_docid, freqs_buf,
                         freqs_decoded>>
     ELSE IF bound > block_max(blocks - 1)
     THEN /\ cur_docid' = universe
          /\ UNCHANGED <<block, pc, pos_in_block, freqs_buf, freqs_decoded>>
     ELSE /\ decode_docs_block(BlockReaching(bound, cur_block + 1))
          /\ pc' = "scan"

\* Only to a posting at or after the current one.
Move(p) ==
  /\ ~AtEnd
  /\ p >= position /\ p < length
  /\ Called("move", p)
  /\ IF p \div block_size # cur_block
     THEN decode_docs_block(p \div block_size)
     ELSE UNCHANGED <<block, pos_in_block, cur_docid, freqs_buf, freqs_decoded>>
  /\ pc' = "scan"

Arrived ==
  IF call[1] = "next_geq" THEN cur_docid >= call[2] ELSE position >= call[2]

\* Faulty variant: the gap of the current document is added again.
ScanGapTwice ==
  /\ pc = "scan"
  /\ ~Arrived
  /\ pos_in_block' = pos_in_block + 1
  /\ cur_docid' = cur_docid + docs_buf[pos_in_block] + 1
  /\ UNCHANGED <<list, block, freqs_buf, freqs_decoded, pc, call, answer>>

Scan ==
  /\ pc = "scan"
  /\ ~Arrived
  /\ pos_in_block' = pos_in_block + 1
  /\ cur_docid' = cur_docid + docs_buf[pos_in_block + 1] + 1
  /\ UNCHANGED <<list, block, freqs_buf, freqs_decoded, pc, call, answer>>

Return ==
  /\ pc = "scan"
  /\ Arrived
  /\ pc' = "idle"
  /\ UNCHANGED <<list, block, pos_in_block, cur_docid, freqs_buf,
                 freqs_decoded, call, answer>>

\* decode_freqs_block: the frequencies are stored less one.
DecodedFreqs ==
  [i \in 0..(block_size - 1) |->
     IF i < cur_block_size
     THEN freqs[Posting(order[freqs_place], i)] - 1
     ELSE freqs_buf[i]]

\* freq() of a posting, past the end there is none.
Freq ==
  /\ pc = "idle"
  /\ ~AtEnd
  /\ freqs_decoded' = TRUE
  /\ freqs_buf' = IF freqs_decoded THEN freqs_buf ELSE DecodedFreqs
  /\ answer' = freqs_buf'[pos_in_block] + 1
  /\ UNCHANGED <<list, block, pos_in_block, cur_docid, pc, call>>

Step ==
  \/ Reset
  \/ Next
  \/ \E bound \in 0..universe : NextGeq(bound)
  \/ \E p \in 0..(length - 1) : Move(p)
  \/ Scan
  \/ Return
  \/ Freq

Spec == Init /\ [][Step]_vars

-----------------------------------------------------------------------------
(* Properties *)

TypeOK ==
  /\ length \in Lengths /\ universe \in Universes
  /\ docs \in Lists(length, universe)
  /\ freqs \in [0..(length - 1) -> Frequencies]
  /\ order \in Orders(blocks)
  /\ cur_block \in 0..(blocks - 1)
  /\ pos_in_block \in 0..cur_block_size
  /\ cur_block_max \in 0..(universe - 1)
  /\ cur_block_size \in 1..block_size
  /\ cur_docid \in 0..universe
  /\ docs_buf \in [0..(block_size - 1) -> Nat]
  /\ freqs_buf \in [0..(block_size - 1) -> Nat]
  /\ freqs_place \in 0..(blocks - 1)
  /\ freqs_decoded \in BOOLEAN
  /\ pc \in {"idle", "scan"}
  /\ call \in {"new", "move", "next", "next_geq"} \X Nat
  /\ answer \in Nat

\* The document the cursor has summed up gap by gap, across blocks and calls,
\* is the one at its position, and the loops never run over the end of the
\* decoded block (the assertion in the loop of next_geq).
DocidIsOfPosition ==
  ~AtEnd => /\ pos_in_block < cur_block_size
            /\ cur_docid = docs[position]

\* freq() answers with the frequency of the current document, though the block
\* of frequencies is decoded later than the documents, or not at all.
FreqIsOfPosition ==
  answer # 0 => /\ ~AtEnd
                /\ answer = freqs[position]

\* Every call leads where the abstract enumerator says it leads: a call has
\* its effect when it is made, and its loop ends there.
Target ==
  IF call[1] = "move"
  THEN call[2]
  ELSE CHOOSE p \in 0..length :
         /\ p = length \/ docs[p] >= call[2]
         /\ \A q \in 0..(p - 1) : docs[q] < call[2]

AbstractPosition ==
  IF pc = "scan" THEN Target ELSE IF AtEnd THEN length ELSE position

Abstract == INSTANCE SequenceEnumerator WITH
  seq <- docs,
  position <- AbstractPosition,
  value <- IF pc = "scan" THEN docs[Target] ELSE cur_docid,
  Beyond <- 0
RefinesSequenceEnumerator == Abstract!Spec
=============================================================================

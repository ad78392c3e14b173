-------------------------------- MODULE Arena --------------------------------
(***************************************************************************)
(* base/arena.cc.  A block has an address, [residue, bytes]: only the      *)
(* residue modulo the largest alignment matters, and aligned_malloc makes  *)
(* it a multiple of the alignment asked for, malloc of MallocAlignment.    *)
(* Alloc asks for alignment 1; the other alignments are those a derived    *)
(* class may ask GetMemory for.                                            *)
(***************************************************************************)
EXTENDS Integers, Sequences, FiniteSets

CONSTANTS
  BlockSizes,       \* the constructor's argument
  Requests,         \* sizes asked for
  Alignments,       \* powers of two asked for
  DefaultAlignment, \* kDefaultAlignment
  MallocAlignment,  \* what malloc guarantees, at least DefaultAlignment
  Residues,         \* addresses are told apart modulo the largest alignment
  MaxHanded         \* bound on the requests between two Resets

\* Sizes are natural and alignments positive.
ArenaAssumption ==
  /\ BlockSizes \cup Requests \cup Residues \subseteq Nat
  /\ Alignments \cup {DefaultAlignment, MallocAlignment} \subseteq Nat \ {0}

VARIABLES
  blockSize,  \* block_size_
  blocks,     \* first_blocks_ and overflow_blocks_ in use, oldest first
  current,    \* the block freestart_ points into
  start,      \* freestart_, as an offset in it
  remaining,  \* remaining_
  handed      \* history: the memory handed out since Reset: [block, lo, hi, align]

arenaVars == <<blockSize, blocks, current, start, remaining, handed>>

Gcd(a, b) == CHOOSE d \in 1..a : a % d = 0 /\ b % d = 0
               /\ \A e \in d + 1..a : ~(a % e = 0 /\ b % e = 0)

LeastCommonMultiple(a, b) == (a \div Gcd(a, b)) * b

\* What AllocNewBlock may give for a size and an alignment.
NewBlocks(size, alignment) ==
  LET a == IF alignment > 1 THEN LeastCommonMultiple(alignment, DefaultAlignment) ELSE 1
      excess == size % a
  IN IF a > 1
     THEN {[residue |-> r, size |-> IF size > a /\ excess > 0 THEN size + a - excess ELSE size] :
             r \in {r \in Residues : r % a = 0}}
     ELSE {[residue |-> r, size |-> size] : r \in {r \in Residues : r % MallocAlignment = 0}}

\* Fault: the bytes skipped are not taken off the remaining ones.
AlignedKeepsRemaining(block, at, left, alignment) ==
  LET overage == (block.residue + at) % alignment
      waste == IF overage > 0 THEN alignment - overage ELSE 0
  IN [ok |-> overage = 0 \/ waste < left, start |-> at + waste, remaining |-> left]

\* SatisfyAlignment with freestart_ at offset at of a block: whether the block
\* lasts, and freestart_ and remaining_ behind the bytes skipped.
Aligned(block, at, left, alignment) ==
  LET overage == (block.residue + at) % alignment
      waste == IF overage > 0 THEN alignment - overage ELSE 0
  IN IF overage = 0 \/ waste < left
     THEN [ok |-> TRUE, start |-> at + waste, remaining |-> left - waste]
     ELSE [ok |-> FALSE, start |-> at, remaining |-> left]

\* Reset's part on the first block, whose address stays the same.
Restart(first) ==
  LET s == Aligned(first, 0, first.size, DefaultAlignment)
  IN [block |-> 1, start |-> s.start, remaining |-> s.remaining]

At(s) == current' = s.block /\ start' = s.start /\ remaining' = s.remaining

Init ==
  /\ blockSize \in BlockSizes
  /\ \E b \in NewBlocks(blockSize, 1) :
       /\ blocks = <<b>>
       /\ current = Restart(b).block
       /\ start = Restart(b).start
       /\ remaining = Restart(b).remaining
  /\ handed = {}

Hand(block, lo, size, align) ==
  handed' = handed \cup {[block |-> block, lo |-> lo, hi |-> lo + size, align |-> align]}

\* The common case of GetMemory, and the end of GetMemoryFallback.
FromBlock(s, size, align) ==
  /\ At([s EXCEPT !.start = @ + size, !.remaining = @ - size])
  /\ Hand(s.block, s.start, size, align)

Here == [block |-> current, start |-> start, remaining |-> remaining]

Common(size, align) ==
  /\ size < remaining /\ align = 1
  /\ FromBlock(Here, size, align)
  /\ UNCHANGED <<blockSize, blocks>>

\* More than a quarter of a block: memory of its own.
Large(size, align) ==
  /\ 4 * size > blockSize
  /\ \E b \in NewBlocks(size, align) :
       /\ blocks' = Append(blocks, b)
       /\ Hand(Len(blocks) + 1, 0, size, align)
  /\ UNCHANGED <<blockSize, current, start, remaining>>

Small(size, align) ==
  /\ 4 * size <= blockSize
  /\ LET s == Aligned(blocks[current], start, remaining, align)
     IN IF s.ok /\ size <= s.remaining
        THEN /\ FromBlock([block |-> current, start |-> s.start, remaining |-> s.remaining],
                          size, align)
             /\ UNCHANGED blocks
        ELSE \E b \in NewBlocks(blockSize, align) :  \* MakeNewBlock
               /\ blocks' = Append(blocks, b)
               /\ LET n == Aligned(b, 0, b.size, align)
                  IN FromBlock([block |-> Len(blocks) + 1, start |-> n.start,
                                remaining |-> n.remaining], size, align)
  /\ UNCHANGED blockSize

\* Memory of 0 bytes is a null pointer and changes nothing.
GetMemory(size, align) ==
  /\ size > 0
  /\ Cardinality(handed) < MaxHanded
  /\ \/ Common(size, align)
     \/ /\ ~(size < remaining /\ align = 1)
        /\ Large(size, align) \/ Small(size, align)

Reset ==
  /\ blocks' = <<blocks[1]>>
  /\ At(Restart(blocks[1]))
  /\ handed' = {}
  /\ UNCHANGED blockSize

Next == (\E size \in Requests, align \in Alignments : GetMemory(size, align)) \/ Reset

Spec == Init /\ [][Next]_arenaVars

\* Memory that is handed out lies within its block, aligned as asked for,
\* beside all other memory handed out since the last Reset and beside what is
\* still free, whatever the sequence of sizes, alignments, new blocks and
\* separate allocations (arena.cc:49-61, 185-211; arena.h:45-54).
HandedOutApart ==
  /\ \A h \in handed :
       /\ 0 <= h.lo /\ h.hi <= blocks[h.block].size
       /\ (blocks[h.block].residue + h.lo) % h.align = 0
       /\ h.block = current => h.hi <= start
  /\ \A g, h \in handed : g # h /\ g.block = h.block => g.hi <= h.lo \/ h.hi <= g.lo
  /\ 0 <= remaining /\ start + remaining = blocks[current].size

\* assert(remaining_ <= block_size_);  // an invariant  (arena.h:46)
RemainingWithinBlockSize == remaining <= blockSize
=============================================================================

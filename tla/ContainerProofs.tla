---------------------------- MODULE ContainerProofs ----------------------------
(***************************************************************************)
(* Six components of MCContainers: Bitmap, for words and bitmaps of any    *)
(* size; Arena, for blocks, requests and alignments of any size;           *)
(* Histogram, for any limits and samples; InlinedVector, for any           *)
(* capacities and elements; WeightedPicker, for any weights and number of  *)
(* elements; and EditDistance, for words of any length. They rest on a     *)
(* little arithmetic: the provers do not find by themselves that quotient  *)
(* and remainder are determined, or what follows from multiplying both     *)
(* sides.                                                                  *)
(***************************************************************************)
EXTENDS MCContainers, FiniteSetTheorems, SequenceTheorems, WellFoundedInduction, TLAPS

(* A set of numbers has a least one. *)
LEMMA LeastElement ==
  ASSUME NEW S, S \subseteq Nat, S # {}
  PROVE  \E x \in S : \A y \in S : x <= y
<1> DEFINE Less == {ss \in Nat \X Nat : ss[1] < ss[2]}
<1>1. IsWellFoundedOn(Less, Nat)
  <2>1. Less = OpToRel(<, Nat)
    BY Zenon DEF OpToRel
  <2> QED
    BY <2>1, NatLessThanWellFounded, Zenon
<1>2. PICK x \in S : \A y \in S : ~ <<y, x>> \in Less
  <2> HIDE DEF Less
  <2> QED
    BY <1>1, WFMin
<1>3. ASSUME NEW y \in S PROVE x <= y
  <2>1. x \in Nat /\ y \in Nat
    OBVIOUS
  <2>2. y < x => <<y, x>> \in Less
    BY <2>1
  <2> HIDE DEF Less
  <2> QED
    BY <1>2, <2>1, <2>2
<1> QED
  BY <1>3

(* Multiples of the same number. *)
LEMMA Multiples ==
  ASSUME NEW a \in Nat, NEW b \in Nat, NEW c \in Nat \ {0}
  PROVE  /\ a * c \in Nat
         /\ a < b => a * c + c <= b * c
         /\ a <= b => a * c <= b * c
<1>1. a * c \in Nat /\ b * c \in Nat
  OBVIOUS
<1>2. ASSUME a < b PROVE a * c + c <= b * c
  <2> DEFINE d == b - a - 1
  <2>1. d \in Nat /\ b = a + 1 + d
    BY <1>2
  <2>2. d * c \in Nat
    BY <2>1
  <2>3. (a + 1 + d) * c = a * c + c + d * c
    BY <2>1
  <2> QED
    BY <1>1, <2>1, <2>2, <2>3
<1> QED
  BY <1>1, <1>2

(* Quotient and remainder. *)
LEMMA Division ==
  ASSUME NEW a \in Nat, NEW c \in Nat \ {0}
  PROVE  /\ a \div c \in Nat
         /\ a % c \in 0 .. c - 1
         /\ a = ((a \div c) * c) + (a % c)
OBVIOUS

(* They are determined. *)
LEMMA DivisionUnique ==
  ASSUME NEW q \in Nat, NEW c \in Nat \ {0}, NEW r \in 0 .. c - 1
  PROVE  /\ ((q * c) + r) \div c = q
         /\ ((q * c) + r) % c = r
<1> DEFINE a == (q * c) + r
           p == a \div c
           s == a % c
<1>1. a \in Nat
  BY Multiples
<1>2. p \in Nat /\ s \in 0 .. c - 1 /\ a = (p * c) + s
  BY <1>1, Division
<1>3. q * c \in Nat /\ p * c \in Nat
  BY <1>2, Multiples
<1>4. ~ p < q
  BY <1>2, <1>3, Multiples
<1>5. ~ q < p
  BY <1>2, <1>3, Multiples
<1>6. p = q
  BY <1>2, <1>4, <1>5
<1> QED
  BY <1>2, <1>3, <1>6

-----------------------------------------------------------------------------
(* Bitmap. *)

(* The words are there for all bits, and each bit is in its word.          *)
BitmapInv ==
  /\ nbits \in Nat
  /\ words \in [1 .. BM!NumWords(nbits) -> SUBSET BM!Positions]
  /\ ones \subseteq 0 .. nbits - 1
  /\ \A i \in 0 .. nbits - 1 : i % WordBits \in words[BM!WordOf(i)] <=> i \in ones

(* Where a bit is: its word, which is one of those there are, and its      *)
(* position.                                                               *)
LEMMA BitPlace ==
  ASSUME BM!BitmapAssumption, NEW bits \in Nat, NEW i \in 0 .. bits - 1
  PROVE  /\ BM!WordOf(i) \in 1 .. BM!NumWords(bits)
         /\ i % WordBits \in BM!Positions
         /\ i = ((BM!WordOf(i) - 1) * WordBits) + (i % WordBits)
<1> DEFINE q == i \div WordBits
           last == (bits + WordBits - 1) \div WordBits
           rest == (bits + WordBits - 1) % WordBits
<1>1. WordBits \in Nat \ {0}
  BY DEF BM!BitmapAssumption
<1>2. q \in Nat /\ i % WordBits \in 0 .. WordBits - 1 /\ i = (q * WordBits) + (i % WordBits)
  <2>1. i \in Nat
    OBVIOUS
  <2> QED
    BY <1>1, <2>1, Division
<1>3. bits + WordBits - 1 \in Nat
  BY <1>1
<1>4. last \in Nat /\ rest \in 0 .. WordBits - 1
      /\ bits + WordBits - 1 = (last * WordBits) + rest
  BY <1>1, <1>3, Division
<1>5. q < last
  <2>1. last * WordBits >= bits
    BY <1>1, <1>4, Multiples
  <2>2. q * WordBits <= i
    BY <1>1, <1>2, Multiples
  <2>3. last <= q => last * WordBits <= q * WordBits
    BY <1>1, <1>2, <1>4, Multiples
  <2>4. last * WordBits \in Nat /\ q * WordBits \in Nat
    BY <1>1, <1>2, <1>4, Multiples
  <2> HIDE DEF q, last
  <2> QED
    BY <2>1, <2>2, <2>3, <2>4, <1>2, <1>4
<1>6. BM!WordOf(i) = q + 1 /\ BM!NumWords(bits) = last
  BY DEF BM!WordOf, BM!NumWords
<1> HIDE DEF q, last
<1> QED
  BY <1>2, <1>4, <1>5, <1>6 DEF BM!Positions

(* Two bits at the same place are the same. *)
LEMMA BitPlaceUnique ==
  ASSUME BM!BitmapAssumption, NEW bits \in Nat, NEW i \in 0 .. bits - 1, NEW j \in 0 .. bits - 1,
         BM!WordOf(i) = BM!WordOf(j), i % WordBits = j % WordBits
  PROVE  i = j
<1>1. i = ((BM!WordOf(i) - 1) * WordBits) + (i % WordBits)
  BY BitPlace
<1>2. j = ((BM!WordOf(j) - 1) * WordBits) + (j % WordBits)
  BY BitPlace
<1> QED
  BY <1>1, <1>2

LEMMA BitmapInitial ==
  ASSUME BM!BitmapAssumption, BM!Init
  PROVE  BitmapInv
<1>1. WordBits \in Nat \ {0}
  BY DEF BM!BitmapAssumption
<1>2. BM!NumWords(0) = 0
  <2>1. (WordBits - 1) \div WordBits = 0
    BY <1>1, DivisionUnique
  <2> QED
    BY <1>1, <2>1 DEF BM!NumWords
<1>3. words \in [1 .. BM!NumWords(nbits) -> SUBSET BM!Positions]
  BY <1>2 DEF BM!Init
<1> QED
  BY <1>3 DEF BM!Init, BitmapInv

LEMMA ResetKeeps ==
  ASSUME BM!BitmapAssumption, BitmapInv, NEW bits \in 0 .. MaxBits, BM!Reset(bits)
  PROVE  BitmapInv'
<1>1. bits \in Nat
  BY DEF BM!BitmapAssumption
<1>2. \A i \in 0 .. bits - 1 : words'[BM!WordOf(i)] = {}
  <2> SUFFICES ASSUME NEW i \in 0 .. bits - 1 PROVE words'[BM!WordOf(i)] = {}
    OBVIOUS
  <2>1. BM!WordOf(i) \in 1 .. BM!NumWords(bits)
    BY <1>1, BitPlace
  <2> QED
    BY <2>1 DEF BM!Reset
<1>3. words' \in [1 .. BM!NumWords(bits) -> SUBSET BM!Positions]
  BY DEF BM!Reset
<1>4. nbits' = bits /\ ones' = {}
  BY DEF BM!Reset
<1>5. BM!NumWords(bits)' = BM!NumWords(bits)
  BY DEF BM!NumWords
<1> QED
  BY <1>1, <1>2, <1>3, <1>4, <1>5 DEF BitmapInv, BM!WordOf, BM!NumWords, BM!Positions

LEMMA SetKeeps ==
  ASSUME BM!BitmapAssumption, BitmapInv, NEW i \in 0 .. nbits - 1, BM!set(i) \/ BM!clear(i)
  PROVE  BitmapInv'
<1> DEFINE w == BM!WordOf(i)
           p == i % WordBits
<1>1. nbits \in Nat
  BY DEF BitmapInv
<1>2. w \in 1 .. BM!NumWords(nbits) /\ p \in BM!Positions
  BY <1>1, BitPlace
<1>3. nbits' = nbits
  BY DEF BM!set, BM!clear
<1>4. words' \in [1 .. BM!NumWords(nbits) -> SUBSET BM!Positions]
  BY <1>2 DEF BM!set, BM!clear, BM!Mask, BitmapInv
<1>5. ones' \subseteq 0 .. nbits - 1
  BY DEF BM!set, BM!clear, BitmapInv
<1>6. ASSUME NEW j \in 0 .. nbits - 1
      PROVE  j % WordBits \in words'[BM!WordOf(j)] <=> j \in ones'
  <2>1. BM!WordOf(j) \in 1 .. BM!NumWords(nbits)
    BY <1>1, BitPlace
  <2>2. j % WordBits \in words[BM!WordOf(j)] <=> j \in ones
    BY DEF BitmapInv
  <2>3. BM!WordOf(j) = w /\ j % WordBits = p => j = i
    BY <1>1, BitPlaceUnique
  <2>4. words \in [1 .. BM!NumWords(nbits) -> SUBSET BM!Positions]
    BY DEF BitmapInv
  <2>5. CASE BM!set(i)
    <3>1. words'[BM!WordOf(j)] = IF BM!WordOf(j) = w THEN words[w] \cup {p} ELSE words[BM!WordOf(j)]
      BY <1>2, <2>1, <2>4, <2>5 DEF BM!set, BM!Mask
    <3>2. ones' = ones \cup {i}
      BY <2>5 DEF BM!set
    <3> HIDE DEF w, p
    <3> QED
      BY <3>1, <3>2, <2>2, <2>3 DEF w, p
  <2>6. CASE BM!clear(i)
    <3>1. words'[BM!WordOf(j)] = IF BM!WordOf(j) = w THEN words[w] \ {p} ELSE words[BM!WordOf(j)]
      BY <1>2, <2>1, <2>4, <2>6 DEF BM!clear, BM!Mask
    <3>2. ones' = ones \ {i}
      BY <2>6 DEF BM!clear
    <3> QED
      BY <3>1, <3>2, <2>2, <2>3
  <2> QED
    BY <2>5, <2>6
<1> QED
  BY <1>1, <1>3, <1>4, <1>5, <1>6 DEF BitmapInv, BM!WordOf, BM!NumWords, BM!Positions

(* FindFirstSet gives the lowest bit, counted from 1. *)
LEMMA LowestBit ==
  ASSUME NEW word \in SUBSET Nat
  PROVE  /\ word = {} => BM!FindFirstSet(word) = 0
         /\ word # {} => \E i \in word : /\ BM!FindFirstSet(word) = 1 + i
                                         /\ \A j \in word : i <= j
<1>1. CASE word = {}
  BY <1>1 DEF BM!FindFirstSet
<1>2. CASE word # {}
  <2> DEFINE i == CHOOSE i \in word : \A j \in word : i <= j
  <2>1. i \in word /\ \A j \in word : i <= j
    BY <1>2, LeastElement
  <2>2. BM!FindFirstSet(word) = 1 + i
    BY <1>2 DEF BM!FindFirstSet
  <2> HIDE DEF i
  <2> QED
    BY <1>2, <2>1, <2>2
<1> QED
  BY <1>1, <1>2

(* FirstUnset(from) is the least index from there on of a bit that is not  *)
(* set. The bits of a word that FirstUnset has to look at are unset,       *)
(* not in front of from, and perhaps behind the last bit.                  *)
LEMMA FirstUnsetIsLeast ==
  ASSUME BM!BitmapAssumption, BitmapInv, NEW from \in Nat
  PROVE  LET unset == {i \in from .. nbits - 1 : i \notin ones}
         IN IF unset = {} THEN BM!FirstUnset(from) = nbits
            ELSE BM!FirstUnset(from) \in unset /\ \A i \in unset : BM!FirstUnset(from) <= i
<1> DEFINE first == from \div WordBits
           skipped(w) == IF w = first + 1 THEN 0 .. ((from % WordBits) - 1) ELSE {}
           free(w) == BM!Positions \ (words[w] \cup skipped(w))
           r(w) == BM!FindFirstSet(free(w))
           found == {w \in first + 1 .. BM!NumWords(nbits) : r(w) # 0}
           w0 == CHOOSE w \in found : \A v \in found : w <= v
           result == ((w0 - 1) * WordBits) + (r(w0) - 1)
           unset == {i \in from .. nbits - 1 : i \notin ones}
<1>1. WordBits \in Nat \ {0} /\ nbits \in Nat
  BY DEF BM!BitmapAssumption, BitmapInv
<1>2. BM!FirstUnset(from) = IF from >= nbits \/ found = {} \/ result > nbits THEN nbits ELSE result
  <2>1. \A w : BM!Unset(from, w) = free(w)
    BY Zenon DEF BM!Unset, BM!WordOf
  <2>2. BM!WordsWithUnset(from) = found
    BY Zenon, <2>1 DEF BM!WordsWithUnset, BM!WordOf
  <2>3. BM!FindFirstSet(BM!Unset(from, w0)) = r(w0)
    BY <2>1
  <2> QED
    <3> DEFINE g == BM!WordsWithUnset(from)
               f(w) == BM!FindFirstSet(BM!Unset(from, w))
               v0 == CHOOSE w \in g : \A v \in g : w <= v
    <3>1. BM!FirstUnset(from) = IF from >= nbits \/ g = {}
                                   \/ ((v0 - 1) * WordBits) + (f(v0) - 1) > nbits
                                THEN nbits ELSE ((v0 - 1) * WordBits) + (f(v0) - 1)
      BY DEF BM!FirstUnset
    <3>2. v0 = w0
      BY <2>2
    <3>3. f(v0) = r(w0)
      BY <2>3, <3>2
    <3>4. g = found
      BY <2>2
    <3> HIDE DEF v0, w0, g, f, r, found
    <3> QED
      BY <3>1, <3>2, <3>3, <3>4
<1>3. BM!NumWords(nbits) \in Int
  BY <1>1 DEF BM!NumWords
<1>4. /\ first \in Nat /\ from % WordBits \in 0 .. WordBits - 1
      /\ from = (first * WordBits) + (from % WordBits)
  BY <1>1, Division
<1>5. \A w : free(w) \in SUBSET Nat
  BY <1>1 DEF BM!Positions
<1>6. \A w : r(w) # 0 => \E p \in free(w) : r(w) = 1 + p /\ \A j \in free(w) : p <= j
  BY <1>5, LowestBit
<1>7. \A w : r(w) = 0 => free(w) = {}
  <2> SUFFICES ASSUME NEW w, r(w) = 0, free(w) # {} PROVE FALSE
    OBVIOUS
  <2>1. PICK p \in free(w) : r(w) = 1 + p
    BY <1>5, LowestBit
  <2>2. p \in Nat
    BY <1>5
  <2> QED
    BY <2>1, <2>2
<1>8. ASSUME NEW i \in unset
      PROVE  /\ BM!WordOf(i) \in found
             /\ i % WordBits \in free(BM!WordOf(i))
             /\ i = ((BM!WordOf(i) - 1) * WordBits) + (i % WordBits)
  <2> DEFINE w == BM!WordOf(i)
             p == i % WordBits
  <2>1. i \in 0 .. nbits - 1 /\ i \notin ones /\ from <= i
    OBVIOUS
  <2>2. /\ w \in 1 .. BM!NumWords(nbits)
        /\ p \in BM!Positions
        /\ i = ((w - 1) * WordBits) + p
    BY <1>1, <2>1, BitPlace
  <2>3. p \notin words[w]
    BY <2>1 DEF BitmapInv
  <2>4. p \in 0 .. WordBits - 1
    BY <2>2 DEF BM!Positions
  <2>5. w >= first + 1
    <3> SUFFICES ASSUME w - 1 < first PROVE FALSE
      BY <1>3, <1>4, <2>2
    <3>1. w - 1 \in Nat
      BY <1>3, <2>2
    <3>2. (w - 1) * WordBits + WordBits <= first * WordBits
      BY <1>1, <1>4, <3>1, Multiples
    <3>3. (w - 1) * WordBits \in Nat /\ first * WordBits \in Nat
      BY <1>1, <1>4, <3>1, Multiples
    <3> HIDE DEF w, p, first
    <3> QED
      BY <1>1, <1>4, <2>1, <2>2, <2>4, <3>2, <3>3
  <2>6. p \notin skipped(w)
    <3> SUFFICES ASSUME w = first + 1, p \in 0 .. ((from % WordBits) - 1) PROVE FALSE
      OBVIOUS
    <3>1. i = (first * WordBits) + p
      BY <1>4, <2>2
    <3>2. first * WordBits \in Nat
      BY <1>1, <1>4, Multiples
    <3> HIDE DEF w, p, first
    <3> QED
      BY <1>1, <1>4, <2>1, <2>4, <3>1, <3>2
  <2>7. p \in free(w)
    BY <2>2, <2>3, <2>6
  <2>8. w \in found
    <3>1. w \in first + 1 .. BM!NumWords(nbits)
      BY <1>3, <1>4, <2>2, <2>5
    <3>2. r(w) # 0
      BY <1>7, <2>7
    <3> HIDE DEF w, first, r
    <3> QED
      BY <3>1, <3>2
  <2> QED
    BY <2>2, <2>7, <2>8
<1>9. CASE from >= nbits \/ found = {}
  <2>1. unset = {}
    <3>1. from >= nbits => unset = {}
      BY <1>1
    <3>2. found = {} => unset = {}
      BY <1>8
    <3> QED
      BY <1>9, <3>1, <3>2
  <2>2. BM!FirstUnset(from) = nbits
    BY <1>2, <1>9
  <2> QED
    BY <2>1, <2>2
<1>10. CASE from < nbits /\ found # {}
  <2>1. w0 \in found /\ \A v \in found : w0 <= v
    <3>1. found \subseteq Nat
      BY <1>3, <1>4
    <3> HIDE DEF found
    <3> QED
      BY <1>10, <3>1, LeastElement
  <2>2. w0 \in first + 1 .. BM!NumWords(nbits)
    BY <2>1
  <2>3. PICK p \in free(w0) : r(w0) = 1 + p /\ \A j \in free(w0) : p <= j
    BY <1>6, <2>1
  <2>4. p \in 0 .. WordBits - 1 /\ p \notin words[w0] /\ p \notin skipped(w0)
    BY <2>3 DEF BM!Positions
  <2>5. w0 \in Int /\ w0 - 1 \in Nat /\ first + 1 <= w0
    <3> HIDE DEF w0, first
    <3> QED
      BY <1>3, <1>4, <2>2
  <2>6. result = ((w0 - 1) * WordBits) + p /\ (w0 - 1) * WordBits \in Nat
    <3>1. (w0 - 1) * WordBits \in Nat
      BY <1>1, <2>5, Multiples
    <3>2. p \in Nat
      BY <2>4
    <3> HIDE DEF w0, r
    <3> QED
      BY <2>3, <3>1, <3>2
  <2>7. result \in Nat
    <3> HIDE DEF w0, result
    <3>1. p \in Nat
      BY <2>4
    <3> QED
      BY <2>6, <3>1, SMTT(30)
  <2>8. result >= from
    <3>1. CASE w0 = first + 1
      <4>1. p \in 0 .. WordBits - 1 /\ ~ p \in 0 .. ((from % WordBits) - 1)
        BY <2>4, <3>1
      <4>2. p >= from % WordBits
        BY <1>1, <1>4, <4>1
      <4> HIDE DEF w0, first, result
      <4>3. w0 - 1 = first
        BY <1>4, <3>1
      <4> QED
        BY <1>1, <1>4, <2>4, <2>6, <4>2, <4>3
    <3>2. CASE w0 # first + 1
      <4> HIDE DEF w0, first, result
      <4>1. first < w0 - 1
        BY <1>4, <2>5, <3>2
      <4>2. first * WordBits + WordBits <= (w0 - 1) * WordBits
        BY <1>1, <1>4, <2>5, <4>1, Multiples
      <4>3. first * WordBits \in Nat
        BY <1>1, <1>4, Multiples
      <4> QED
        BY <1>1, <1>4, <2>4, <2>6, <4>2, <4>3
    <3> QED
      BY <3>1, <3>2
  <2>9. ASSUME NEW i \in unset PROVE result <= i
    <3> DEFINE w == BM!WordOf(i)
               q == i % WordBits
    <3>1. w \in found /\ q \in free(w) /\ i = ((w - 1) * WordBits) + q
      BY <1>8
    <3>2. q \in 0 .. WordBits - 1 /\ w0 <= w
      BY <2>1, <3>1 DEF BM!Positions
    <3>3. w \in Nat /\ w - 1 \in Nat
      <4>1. w \in first + 1 .. BM!NumWords(nbits)
        BY <3>1
      <4> HIDE DEF w, first
      <4> QED
        BY <1>3, <1>4, <4>1
    <3>4. (w - 1) * WordBits \in Nat
      BY <1>1, <3>3, Multiples
    <3>5. CASE w = w0
      <4>1. p <= q
        BY <2>3, <3>1, <3>5
      <4> HIDE DEF w0, w, q, result
      <4> QED
        BY <2>4, <2>6, <3>1, <3>2, <3>4, <3>5, <4>1
    <3>6. CASE w # w0
      <4> HIDE DEF w0, w, q, result
      <4>1. w0 - 1 < w - 1
        BY <2>5, <3>2, <3>3, <3>6
      <4>2. (w0 - 1) * WordBits + WordBits <= (w - 1) * WordBits
        BY <1>1, <2>5, <3>3, <4>1, Multiples
      <4> QED
        BY <1>1, <2>4, <2>6, <3>1, <3>2, <3>4, <4>2
    <3> QED
      BY <3>5, <3>6
  <2>10. ASSUME result < nbits PROVE result \in unset
    <3>1. result \in 0 .. nbits - 1 /\ result \in from .. nbits - 1
      <4> HIDE DEF result
      <4> QED
        BY <1>1, <2>7, <2>8, <2>10, SMTT(30)
    <3>2. result \div WordBits = w0 - 1 /\ result % WordBits = p
      <4> HIDE DEF result, w0
      <4> QED
        BY <1>1, <2>4, <2>5, <2>6, DivisionUnique
    <3>3. BM!WordOf(result) = w0
      <4> HIDE DEF result, w0
      <4> QED
        BY <2>5, <3>2 DEF BM!WordOf
    <3>4. result \notin ones
      <4> HIDE DEF result, w0
      <4> QED
        BY <2>4, <3>1, <3>2, <3>3 DEF BitmapInv
    <3> QED
      BY <3>1, <3>4
  <2>11. BM!FirstUnset(from) = IF result > nbits THEN nbits ELSE result
    <3> HIDE DEF result, found
    <3> QED
      BY <1>1, <1>2, <1>10
  <2>12. \A i \in unset : i < nbits /\ i \in Nat
    BY <1>1
  <2> HIDE DEF result, unset
  <2>13. CASE result < nbits
    <3>1. BM!FirstUnset(from) = result
      BY <1>1, <2>7, <2>11, <2>13
    <3>2. result \in unset
      BY <2>10, <2>13
    <3> QED
      BY <3>1, <3>2, <2>9 DEF unset
  <2>14. CASE result >= nbits
    <3>1. unset = {}
      BY <1>1, <2>7, <2>9, <2>12, <2>14
    <3>2. BM!FirstUnset(from) = nbits
      BY <1>1, <2>7, <2>11, <2>14
    <3> QED
      BY <3>1, <3>2 DEF unset
  <2> QED
    BY <1>1, <2>7, <2>13, <2>14
<1> HIDE DEF unset, found
<1> QED
  BY <1>1, <1>9, <1>10 DEF unset

LEMMA BitmapInvHolds ==
  ASSUME BM!BitmapAssumption, BitmapInv
  PROVE  BM!HoldsTheBits
<1>1. \A i \in 0 .. nbits - 1 : BM!get(i) <=> i \in ones
  BY DEF BitmapInv, BM!get, BM!Mask
<1>2. \A start_ \in 0 .. nbits + WordBits : start_ \in Nat
  BY DEF BitmapInv, BM!BitmapAssumption
<1> QED
  BY <1>1, <1>2, FirstUnsetIsLeast DEF BM!HoldsTheBits

LEMMA BitmapSteps ==
  ASSUME BM!BitmapAssumption, BitmapInv, BM!Next
  PROVE  BitmapInv'
BY ResetKeeps, SetKeeps DEF BM!Next

-----------------------------------------------------------------------------
(* Arena. *)

(* What the memory handed out is, before Reset takes it back.              *)
Memory == [block : Nat, lo : Nat, hi : Nat, align : Alignments]

Blocks == [residue : Residues, size : Nat]

(* HandedOutApart is inductive with the types: it already says that what   *)
(* was handed out of the current block lies in front of freestart_.        *)
ArenaInv ==
  /\ blockSize \in BlockSizes
  /\ blocks \in Seq(Blocks)
  /\ current \in 1 .. Len(blocks)
  /\ start \in Nat /\ remaining \in Nat
  /\ handed \in SUBSET Memory
  /\ \A h \in handed : h.block \in 1 .. Len(blocks)
  /\ AR!HandedOutApart

(* A sum is a multiple of c when what it lacks is added. *)
LEMMA RoundedUp ==
  ASSUME NEW a \in Nat, NEW c \in Nat \ {0}
  PROVE  (a + (c - (a % c))) % c = 0
<1> DEFINE q == a \div c
           r == a % c
<1>1. q \in Nat /\ r \in 0 .. c - 1 /\ a = (q * c) + r
  BY Division
<1>2. q * c \in Nat
  BY <1>1, Multiples
<1>3. (q + 1) * c = (q * c) + c
  BY <1>1
<1>4. (((q + 1) * c) + 0) % c = 0
  <2>1. q + 1 \in Nat /\ 0 \in 0 .. c - 1
    BY <1>1
  <2> QED
    BY <2>1, DivisionUnique
<1>5. a + (c - r) = ((q + 1) * c) + 0
  <2> HIDE DEF q, r
  <2> QED
    BY <1>1, <1>2, <1>3
<1> QED
  BY <1>4, <1>5

(* The greatest common divisor divides both. *)
LEMMA GcdDivides ==
  ASSUME NEW a \in Nat \ {0}, NEW b \in Nat \ {0}
  PROVE  /\ AR!Gcd(a, b) \in 1 .. a
         /\ a % AR!Gcd(a, b) = 0
         /\ b % AR!Gcd(a, b) = 0
<1> DEFINE Common(d) == a % d = 0 /\ b % d = 0
           rest == {k \in 0 .. a - 1 : Common(a - k)}
<1>1. Common(1)
  OBVIOUS
<1>2. a - 1 \in rest
  BY <1>1
<1>3. PICK k \in rest : \A l \in rest : k <= l
  <2>1. rest \subseteq Nat /\ rest # {}
    <3> HIDE DEF Common
    <3> QED
      BY <1>2
  <2> HIDE DEF rest
  <2> QED
    BY <2>1, LeastElement
<1>4. k \in 0 .. a - 1 /\ a - k \in 1 .. a /\ Common(a - k)
  BY <1>3
<1>5. ASSUME NEW e \in (a - k) + 1 .. a PROVE ~ Common(e)
  <2>1. a - e \in 0 .. a - 1 /\ a - (a - e) = e /\ a - e < k
    BY <1>3
  <2>2. a - e \notin rest
    <3> HIDE DEF rest
    <3> QED
      BY <1>3, <1>4, <2>1
  <2>3. ~ Common(a - (a - e))
    <3> HIDE DEF Common
    <3> QED
      BY <2>1, <2>2
  <2> HIDE DEF Common
  <2> QED
    BY <2>1, <2>3
<1>6. \E d \in 1 .. a : Common(d) /\ \A e \in d + 1 .. a : ~ Common(e)
  <2> HIDE DEF Common
  <2> QED
    BY <1>4, <1>5
<1>7. AR!Gcd(a, b) = CHOOSE d \in 1 .. a : a % d = 0 /\ b % d = 0
                       /\ \A e \in d + 1 .. a : ~ (a % e = 0 /\ b % e = 0)
  BY DEF AR!Gcd
<1> QED
  BY <1>6, <1>7

(* What is aligned to the least common multiple is aligned to the first. *)
LEMMA CommonMultiple ==
  ASSUME NEW a \in Nat \ {0}, NEW b \in Nat \ {0}
  PROVE  /\ AR!LeastCommonMultiple(a, b) \in Nat
         /\ AR!LeastCommonMultiple(a, b) >= a
         /\ \A x \in Nat : x % AR!LeastCommonMultiple(a, b) = 0 => x % a = 0
<1> DEFINE g == AR!Gcd(a, b)
           i == a \div g
           j == b \div g
           m == AR!LeastCommonMultiple(a, b)
<1>1. g \in Nat \ {0} /\ a % g = 0 /\ b % g = 0
  BY GcdDivides
<1> HIDE DEF g
<1>2. i \in Nat /\ a = i * g
  <2>1. i \in Nat /\ a = (i * g) + (a % g)
    BY <1>1, Division
  <2>2. i * g \in Nat
    BY <1>1, <2>1, Multiples
  <2> QED
    BY <1>1, <2>1, <2>2
<1>3. j \in Nat /\ b = j * g
  <2>1. j \in Nat /\ b = (j * g) + (b % g)
    BY <1>1, Division
  <2>2. j * g \in Nat
    BY <1>1, <2>1, Multiples
  <2> QED
    BY <1>1, <2>1, <2>2
<1>4. m = i * b
  BY DEF AR!LeastCommonMultiple, g
<1> HIDE DEF i, j, m
<1>5. m = j * a
  <2>1. i * (j * g) = j * (i * g)
    BY <1>1, <1>2, <1>3
  <2> QED
    BY <1>2, <1>3, <1>4, <2>1
<1>6. j # 0
  BY <1>1, <1>3
<1>7. m \in Nat /\ m >= a
  <2>1. 1 * a <= j * a /\ j * a \in Nat
    BY <1>3, <1>6, Multiples
  <2> QED
    BY <1>5, <2>1
<1>8. ASSUME NEW x \in Nat, x % m = 0 PROVE x % a = 0
  <2> DEFINE y == x \div m
  <2>1. y \in Nat /\ x = (y * m) + (x % m)
    BY <1>7, Division
  <2>2. y * m \in Nat
    BY <1>7, <2>1
  <2> HIDE DEF y
  <2>3. x = y * m
    BY <1>8, <2>1, <2>2
  <2>4. y * (j * a) = (y * j) * a
    BY <1>3, <2>1
  <2>5. y * j \in Nat /\ (y * j) * a \in Nat
    BY <1>3, <2>1
  <2>6. x = ((y * j) * a) + 0
    BY <1>5, <2>3, <2>4, <2>5
  <2>7. 0 \in 0 .. a - 1
    OBVIOUS
  <2> QED
    BY <2>5, <2>6, <2>7, DivisionUnique
<1> QED
  BY <1>7, <1>8 DEF m

(* A new block is large enough, and aligned as asked for. *)
LEMMA NewBlockFits ==
  ASSUME AR!ArenaAssumption, NEW bytes \in Nat, NEW al \in Nat \ {0},
         NEW b \in AR!NewBlocks(bytes, al)
  PROVE  /\ b \in Blocks
         /\ b.size >= bytes
         /\ b.residue % al = 0
<1> DEFINE a == IF al > 1 THEN AR!LeastCommonMultiple(al, DefaultAlignment) ELSE 1
           excess == bytes % a
           rounded == IF bytes > a /\ excess > 0 THEN bytes + a - excess ELSE bytes
<1>1. b \in IF a > 1
            THEN {[residue |-> x, size |-> rounded] : x \in {x \in Residues : x % a = 0}}
            ELSE {[residue |-> x, size |-> bytes] : x \in {x \in Residues : x % MallocAlignment = 0}}
  BY Zenon DEF AR!NewBlocks
<1>2. DefaultAlignment \in Nat \ {0} /\ Residues \subseteq Nat
  BY DEF AR!ArenaAssumption
<1>3. CASE al > 1
  <2>1. a \in Nat /\ a >= al /\ \A x \in Nat : x % a = 0 => x % al = 0
    BY <1>2, <1>3, CommonMultiple
  <2> HIDE DEF a
  <2>2. excess \in 0 .. a - 1
    BY <1>3, <2>1, Division
  <2> HIDE DEF excess
  <2>3. rounded \in Nat /\ rounded >= bytes
    BY <2>1, <2>2
  <2> HIDE DEF rounded
  <2>4. PICK x \in Residues : x % a = 0 /\ b = [residue |-> x, size |-> rounded]
    BY <1>1, <1>3, <2>1
  <2> QED
    BY <1>2, <2>1, <2>3, <2>4 DEF Blocks
<1>4. CASE al = 1
  <2>1. a = 1
    BY <1>4
  <2> HIDE DEF a, rounded
  <2>2. PICK x \in Residues : b = [residue |-> x, size |-> bytes]
    BY <1>1, <2>1
  <2>3. x % 1 = 0
    BY <1>2
  <2> QED
    BY <1>4, <2>2, <2>3 DEF Blocks
<1> QED
  BY <1>3, <1>4

(* Offset at of a block is aligned. *)
IsAligned(b, at, al) == (b.residue + at) % al = 0

(* SatisfyAlignment skips bytes of what is left and aligns freestart_, or  *)
(* leaves both alone (arena.cc:49-61).                                     *)
LEMMA AlignedSkips ==
  ASSUME AR!ArenaAssumption, NEW b \in Blocks, NEW at, NEW left, NEW al,
         at \in Nat, left \in Nat, al \in Nat \ {0}
  PROVE  /\ AR!Aligned(b, at, left, al).start \in Nat
         /\ AR!Aligned(b, at, left, al).remaining \in Nat
         /\ AR!Aligned(b, at, left, al).start >= at
         /\ AR!Aligned(b, at, left, al).start + AR!Aligned(b, at, left, al).remaining = at + left
         /\ AR!Aligned(b, at, left, al).ok => IsAligned(b, AR!Aligned(b, at, left, al).start, al)
         /\ IsAligned(b, at, al) => /\ AR!Aligned(b, at, left, al).ok
                                   /\ AR!Aligned(b, at, left, al).start = at
                                   /\ AR!Aligned(b, at, left, al).remaining = left
<1> DEFINE overage == (b.residue + at) % al
           waste == IF overage > 0 THEN al - overage ELSE 0
           s == AR!Aligned(b, at, left, al)
<1>1. b.residue \in Nat /\ b.residue + at \in Nat
  BY DEF AR!ArenaAssumption, Blocks
<1>2. overage \in 0 .. al - 1
  BY <1>1, Division
<1>3. s = IF overage = 0 \/ waste < left
          THEN [ok |-> TRUE, start |-> at + waste, remaining |-> left - waste]
          ELSE [ok |-> FALSE, start |-> at, remaining |-> left]
  BY Zenon DEF AR!Aligned
<1>4. ((b.residue + at) + (al - overage)) % al = 0
  BY <1>1, RoundedUp
<1> HIDE DEF s
<1>5. CASE overage = 0
  <2>1. waste = 0 /\ s = [ok |-> TRUE, start |-> at + waste, remaining |-> left - waste]
    BY <1>3, <1>5
  <2> HIDE DEF waste
  <2>2. s.ok /\ s.start = at /\ s.remaining = left
    BY <2>1
  <2> QED
    BY <1>5, <2>2 DEF s, IsAligned
<1>6. CASE overage > 0 /\ waste < left
  <2>1. waste = al - overage
    BY <1>6
  <2>2. s = [ok |-> TRUE, start |-> at + waste, remaining |-> left - waste]
    BY <1>3, <1>6
  <2>3. s.ok /\ s.start = at + waste /\ s.remaining = left - waste
    BY <2>2
  <2>4. b.residue + s.start = (b.residue + at) + (al - overage)
    BY <1>1, <1>2, <2>1, <2>3
  <2>5. (b.residue + s.start) % al = 0
    BY <1>4, <2>4
  <2>6. ~ (b.residue + at) % al = 0
    BY <1>2, <1>6
  <2>7. waste \in Nat /\ waste < left
    BY <1>2, <1>6, <2>1
  <2> HIDE DEF overage, waste
  <2> QED
    BY <2>3, <2>5, <2>6, <2>7 DEF s, IsAligned
<1>7. CASE overage > 0 /\ ~ waste < left
  <2>1. s = [ok |-> FALSE, start |-> at, remaining |-> left]
    BY <1>2, <1>3, <1>7
  <2>2. ~ (b.residue + at) % al = 0
    BY <1>2, <1>7
  <2> QED
    BY <2>1, <2>2 DEF s, IsAligned
<1> QED
  BY <1>2, <1>5, <1>6, <1>7

LEMMA RestartFits ==
  ASSUME AR!ArenaAssumption, NEW b \in Blocks
  PROVE  LET s == AR!Restart(b)
         IN /\ s.block = 1 /\ s.start \in Nat /\ s.remaining \in Nat
            /\ s.start + s.remaining = b.size
<1> DEFINE t == AR!Aligned(b, 0, b.size, DefaultAlignment)
<1>1. DefaultAlignment \in Nat \ {0} /\ b.size \in Nat
  BY DEF AR!ArenaAssumption, Blocks
<1>2. t.start \in Nat /\ t.remaining \in Nat /\ t.start + t.remaining = 0 + b.size
  <2>1. 0 \in Nat
    OBVIOUS
  <2> QED
    BY <1>1, <2>1, AlignedSkips
<1>3. AR!Restart(b) = [block |-> 1, start |-> t.start, remaining |-> t.remaining]
  BY DEF AR!Restart
<1> HIDE DEF t
<1> QED
  BY <1>1, <1>2, <1>3

(* Memory is added that lies in front of freestart_, or in a block of its  *)
(* own, and what is in front of freestart_ only grows.                     *)
LEMMA MemoryAdded ==
  ASSUME AR!ArenaAssumption, ArenaInv,
         NEW block, NEW lo, NEW bytes, NEW al \in Alignments,
         block \in Nat, lo \in Nat, bytes \in Nat,
         blockSize' = blockSize,
         blocks' \in Seq(Blocks), Len(blocks) <= Len(blocks'),
         \A i \in 1 .. Len(blocks) : blocks'[i] = blocks[i],
         current' \in 1 .. Len(blocks'), start' \in Nat, remaining' \in Nat,
         start' + remaining' = blocks'[current'].size,
         AR!Hand(block, lo, bytes, al),
         block \in 1 .. Len(blocks'),
         lo + bytes <= blocks'[block].size,
         IsAligned(blocks'[block], lo, al),
         block = current' => lo + bytes <= start',
         \/ block = current /\ start <= lo
         \/ block > Len(blocks),
         \/ current' = current /\ start <= start'
         \/ current' > Len(blocks)
  PROVE  ArenaInv'
<1> DEFINE new == [block |-> block, lo |-> lo, hi |-> lo + bytes, align |-> al]
<1>1. /\ new \in Memory
      /\ new.block = block /\ new.lo = lo /\ new.hi = lo + bytes /\ new.align = al
  BY DEF Memory
<1>2. handed' = handed \cup {new}
  BY DEF AR!Hand
<1> HIDE DEF new
<1>3. /\ handed \in SUBSET Memory
      /\ blocks \in Seq(Blocks) /\ Len(blocks) \in Nat /\ Len(blocks') \in Nat
      /\ current \in 1 .. Len(blocks)
      /\ start \in Nat
  BY DEF ArenaInv
<1>4. ASSUME NEW h \in handed
      PROVE  /\ h.block \in 1 .. Len(blocks)
             /\ h.lo \in Nat /\ h.hi \in Nat
             /\ 0 <= h.lo /\ h.hi <= blocks[h.block].size
             /\ IsAligned(blocks[h.block], h.lo, h.align)
             /\ h.block = current => h.hi <= start
  BY <1>3 DEF ArenaInv, AR!HandedOutApart, Memory, IsAligned
<1>5. ASSUME NEW h \in handed'
      PROVE  /\ h.block \in 1 .. Len(blocks')
             /\ 0 <= h.lo /\ h.hi <= blocks'[h.block].size
             /\ IsAligned(blocks'[h.block], h.lo, h.align)
             /\ h.block = current' => h.hi <= start'
  <2>1. CASE h = new
    BY <1>1, <2>1, SMTT(30)
  <2>2. CASE h \in handed
    <3>1. h.block \in 1 .. Len(blocks') /\ blocks'[h.block] = blocks[h.block]
      <4>1. PICK i \in 1 .. Len(blocks) : i = h.block
        BY <1>4, <2>2
      <4>2. i \in 1 .. Len(blocks') /\ blocks'[i] = blocks[i]
        BY <1>3
      <4> QED
        BY <4>1, <4>2
    <3>2. ASSUME h.block = current' PROVE h.hi <= start'
      <4>1. h.block <= Len(blocks) /\ h.hi \in Nat
        BY <1>3, <1>4, <2>2, SMTT(30)
      <4>2. current' = current /\ start <= start'
        BY <1>3, <3>2, <4>1
      <4>3. h.hi <= start
        BY <1>4, <2>2, <3>2, <4>2
      <4> QED
        BY <1>3, <4>1, <4>2, <4>3, SMTT(30)
    <3> QED
      BY <1>4, <2>2, <3>1, <3>2
  <2> QED
    BY <1>2, <2>1, <2>2
<1>6. ASSUME NEW h \in handed, h.block = new.block PROVE h.hi <= new.lo
  <2>1. block <= Len(blocks) /\ h.block = block
    BY <1>1, <1>3, <1>4, <1>6, SMTT(30)
  <2>2. block = current /\ start <= lo
    BY <1>3, <2>1
  <2>3. h.hi \in Nat /\ h.hi <= start
    BY <1>4, <2>1, <2>2
  <2> QED
    BY <1>1, <1>3, <2>2, <2>3, SMTT(30)
<1>7. ASSUME NEW g \in handed', NEW h \in handed', g # h, g.block = h.block
      PROVE  g.hi <= h.lo \/ h.hi <= g.lo
  <2>1. CASE g \in handed /\ h \in handed
    BY <1>7, <2>1 DEF ArenaInv, AR!HandedOutApart
  <2>2. CASE g = new /\ h \in handed
    BY <1>6, <1>7, <2>2
  <2>3. CASE g \in handed /\ h = new
    BY <1>6, <1>7, <2>3
  <2> QED
    BY <1>2, <1>7, <2>1, <2>2, <2>3
<1>8. handed' \in SUBSET Memory
  BY <1>1, <1>2, <1>3
<1>9. blockSize' \in BlockSizes
  BY DEF ArenaInv
<1>10. AR!HandedOutApart'
  BY <1>5, <1>7 DEF AR!HandedOutApart, IsAligned
<1> QED
  BY <1>5, <1>8, <1>9, <1>10 DEF ArenaInv

(* A new block comes behind those there are. *)
LEMMA BlockAppended ==
  ASSUME blocks \in Seq(Blocks), NEW b \in Blocks, blocks' = Append(blocks, b)
  PROVE  /\ blocks' \in Seq(Blocks) /\ Len(blocks) \in Nat
         /\ Len(blocks') = Len(blocks) + 1
         /\ blocks'[Len(blocks) + 1] = b
         /\ \A i \in 1 .. Len(blocks) : blocks'[i] = blocks[i]
OBVIOUS

LEMMA ArenaInitial ==
  ASSUME AR!ArenaAssumption, AR!Init
  PROVE  ArenaInv
<1>1. blockSize \in BlockSizes /\ handed = {}
  BY DEF AR!Init
<1>2. PICK b \in AR!NewBlocks(blockSize, 1) :
        /\ blocks = <<b>>
        /\ current = AR!Restart(b).block
        /\ start = AR!Restart(b).start
        /\ remaining = AR!Restart(b).remaining
  BY DEF AR!Init
<1>3. b \in Blocks
  BY <1>1, NewBlockFits DEF AR!ArenaAssumption
<1>4. current = 1 /\ start \in Nat /\ remaining \in Nat /\ start + remaining = b.size
  BY <1>2, <1>3, RestartFits
<1>5. blocks \in Seq(Blocks) /\ Len(blocks) = 1 /\ blocks[1] = b
  BY <1>2, <1>3
<1>6. AR!HandedOutApart
  BY <1>1, <1>4, <1>5 DEF AR!HandedOutApart
<1> QED
  BY <1>1, <1>4, <1>5, <1>6 DEF ArenaInv

LEMMA ArenaResetKeeps ==
  ASSUME AR!ArenaAssumption, ArenaInv, AR!Reset
  PROVE  ArenaInv'
<1> DEFINE b == blocks[1]
<1>1. b \in Blocks /\ blockSize' = blockSize /\ blockSize \in BlockSizes
  BY DEF ArenaInv, AR!Reset
<1>2. handed' = {} /\ blocks' = <<b>>
  BY DEF AR!Reset
<1>3. current' = AR!Restart(b).block /\ start' = AR!Restart(b).start
      /\ remaining' = AR!Restart(b).remaining
  BY DEF AR!Reset, AR!At
<1> HIDE DEF b
<1>4. current' = 1 /\ start' \in Nat /\ remaining' \in Nat /\ start' + remaining' = b.size
  BY <1>1, <1>3, RestartFits
<1>5. blocks' \in Seq(Blocks) /\ Len(blocks') = 1 /\ blocks'[1] = b
  BY <1>1, <1>2
<1>6. AR!HandedOutApart'
  BY <1>2, <1>4, <1>5 DEF AR!HandedOutApart
<1> QED
  BY <1>1, <1>2, <1>4, <1>5, <1>6 DEF ArenaInv

LEMMA LargeKeeps ==
  ASSUME AR!ArenaAssumption, ArenaInv, NEW bytes \in Nat, NEW al \in Alignments,
         AR!Large(bytes, al)
  PROVE  ArenaInv'
<1>1. al \in Nat \ {0}
  BY DEF AR!ArenaAssumption
<1>2. PICK b \in AR!NewBlocks(bytes, al) :
        blocks' = Append(blocks, b) /\ AR!Hand(Len(blocks) + 1, 0, bytes, al)
  BY DEF AR!Large
<1>3. b \in Blocks /\ b.size >= bytes /\ b.residue % al = 0 /\ b.residue \in Nat
  BY <1>1, <1>2, NewBlockFits DEF Blocks, AR!ArenaAssumption
<1>4. blocks \in Seq(Blocks)
  BY DEF ArenaInv
<1>5. /\ blocks' \in Seq(Blocks) /\ Len(blocks) \in Nat
      /\ Len(blocks') = Len(blocks) + 1
      /\ blocks'[Len(blocks) + 1] = b
      /\ \A i \in 1 .. Len(blocks) : blocks'[i] = blocks[i]
  BY <1>2, <1>3, <1>4, BlockAppended
<1>6. UNCHANGED <<blockSize, current, start, remaining>>
  BY DEF AR!Large
<1>7. /\ current \in 1 .. Len(blocks) /\ start \in Nat /\ remaining \in Nat
      /\ start + remaining = blocks[current].size
  BY DEF ArenaInv, AR!HandedOutApart
<1>8. IsAligned(b, 0, al) /\ 0 + bytes <= b.size
  BY <1>3 DEF IsAligned
<1>9. start' + remaining' = blocks'[current'].size /\ current' \in 1 .. Len(blocks')
  BY <1>5, <1>6, <1>7
<1>10. Len(blocks) + 1 # current'
  BY <1>5, <1>6, <1>7
<1> QED
  BY <1>2, <1>5, <1>6, <1>7, <1>8, <1>9, <1>10, MemoryAdded

LEMMA FromBlockKeeps ==
  ASSUME AR!ArenaAssumption, ArenaInv, NEW bytes \in Nat, NEW al \in Alignments,
         NEW s \in [block : Nat, start : Nat, remaining : Nat],
         blockSize' = blockSize,
         blocks' \in Seq(Blocks), Len(blocks) <= Len(blocks'),
         \A i \in 1 .. Len(blocks) : blocks'[i] = blocks[i],
         AR!FromBlock(s, bytes, al),
         s.block \in 1 .. Len(blocks'),
         s.start + s.remaining = blocks'[s.block].size,
         bytes <= s.remaining,
         IsAligned(blocks'[s.block], s.start, al),
         \/ s.block = current /\ start <= s.start
         \/ s.block > Len(blocks)
  PROVE  ArenaInv'
<1>1. s.block \in Nat /\ s.start \in Nat /\ s.remaining \in Nat
  OBVIOUS
<1>2. /\ current' = s.block
      /\ start' = s.start + bytes
      /\ remaining' = s.remaining - bytes
      /\ AR!Hand(s.block, s.start, bytes, al)
  BY DEF AR!FromBlock, AR!At
<1>3. start' \in Nat /\ remaining' \in Nat /\ start' + remaining' = blocks'[current'].size
  BY <1>1, <1>2
<1>4. s.start + bytes <= blocks'[s.block].size
  BY <1>1
<1>5. start \in Nat
  BY DEF ArenaInv
<1>6. \/ current' = current /\ start <= start'
      \/ current' > Len(blocks)
  BY <1>1, <1>2, <1>5
<1>7. s.start + bytes <= start' /\ current' \in 1 .. Len(blocks')
  BY <1>2, <1>3
<1>8. \/ s.block = current /\ start <= s.start
      \/ s.block > Len(blocks)
  OBVIOUS
<1> QED
  BY <1>1, <1>2, <1>3, <1>4, <1>6, <1>7, <1>8, MemoryAdded

LEMMA CommonKeeps ==
  ASSUME AR!ArenaAssumption, ArenaInv, NEW bytes \in Nat, NEW al \in Alignments,
         AR!Common(bytes, al)
  PROVE  ArenaInv'
<1> DEFINE s == [block |-> current, start |-> start, remaining |-> remaining]
<1>1. /\ blocks \in Seq(Blocks) /\ Len(blocks) \in Nat
      /\ current \in 1 .. Len(blocks) /\ start \in Nat /\ remaining \in Nat
      /\ start + remaining = blocks[current].size
  BY DEF ArenaInv, AR!HandedOutApart
<1>2. /\ bytes < remaining /\ al = 1
      /\ AR!FromBlock(s, bytes, al)
      /\ blockSize' = blockSize /\ blocks' = blocks
  BY DEF AR!Common, AR!Here
<1>3. /\ s \in [block : Nat, start : Nat, remaining : Nat]
      /\ s.block = current /\ s.start = start /\ s.remaining = remaining
  BY <1>1
<1> HIDE DEF s
<1>4. blocks[current] \in Blocks
  BY <1>1
<1>5. blocks[current].residue \in Nat
  BY <1>4 DEF Blocks, AR!ArenaAssumption
<1>6. IsAligned(blocks[current], start, al)
  BY <1>1, <1>2, <1>5 DEF IsAligned
<1> QED
  <2>1. s.block \in 1 .. Len(blocks') /\ Len(blocks) <= Len(blocks')
        /\ blocks' \in Seq(Blocks) /\ \A i \in 1 .. Len(blocks) : blocks'[i] = blocks[i]
    BY <1>1, <1>2, <1>3
  <2>2. s.start + s.remaining = blocks'[s.block].size
    BY <1>1, <1>2, <1>3
  <2>3. bytes <= s.remaining /\ start <= s.start
    BY <1>1, <1>2, <1>3
  <2>4. IsAligned(blocks'[s.block], s.start, al)
    BY <1>2, <1>3, <1>6
  <2> QED
    BY <1>2, <1>3, <2>1, <2>2, <2>3, <2>4, FromBlockKeeps

LEMMA SmallKeeps ==
  ASSUME AR!ArenaAssumption, ArenaInv, NEW bytes \in Nat, NEW al \in Alignments,
         AR!Small(bytes, al)
  PROVE  ArenaInv'
<1> DEFINE s == AR!Aligned(blocks[current], start, remaining, al)
           t == [block |-> current, start |-> s.start, remaining |-> s.remaining]
           n(b) == AR!Aligned(b, 0, b.size, al)
           u(b) == [block |-> Len(blocks) + 1, start |-> n(b).start, remaining |-> n(b).remaining]
<1>1. /\ blocks \in Seq(Blocks) /\ Len(blocks) \in Nat /\ blockSize \in BlockSizes
      /\ current \in 1 .. Len(blocks) /\ start \in Nat /\ remaining \in Nat
      /\ start + remaining = blocks[current].size
  BY DEF ArenaInv, AR!HandedOutApart
<1>2. al \in Nat \ {0} /\ blockSize \in Nat /\ blockSize' = blockSize /\ 4 * bytes <= blockSize
  BY <1>1 DEF AR!ArenaAssumption, AR!Small
<1>3. IF s.ok /\ bytes <= s.remaining
      THEN AR!FromBlock(t, bytes, al) /\ UNCHANGED blocks
      ELSE \E b \in AR!NewBlocks(blockSize, al) :
             blocks' = Append(blocks, b) /\ AR!FromBlock(u(b), bytes, al)
  BY DEF AR!Small
<1>4. CASE s.ok /\ bytes <= s.remaining
  <2>1. blocks[current] \in Blocks
    BY <1>1
  <2>2. /\ s.start \in Nat /\ s.remaining \in Nat /\ s.start >= start
        /\ s.start + s.remaining = start + remaining
        /\ IsAligned(blocks[current], s.start, al)
    BY <1>1, <1>2, <1>4, <2>1, AlignedSkips
  <2> HIDE DEF s
  <2>3. /\ t \in [block : Nat, start : Nat, remaining : Nat]
        /\ t.block = current /\ t.start = s.start /\ t.remaining = s.remaining
    BY <1>1, <2>2
  <2>4. AR!FromBlock(t, bytes, al) /\ blocks' = blocks
    BY <1>3, <1>4
  <2> HIDE DEF t
  <2> QED
    BY <1>1, <1>2, <1>4, <2>2, <2>3, <2>4, FromBlockKeeps, SMTT(30)
<1>5. CASE ~ (s.ok /\ bytes <= s.remaining)
  <2>1. PICK b \in AR!NewBlocks(blockSize, al) :
          blocks' = Append(blocks, b) /\ AR!FromBlock(u(b), bytes, al)
    <3> HIDE DEF s, t, u
    <3> QED
      BY <1>3, <1>5
  <2>2. b \in Blocks /\ b.size >= blockSize /\ b.residue % al = 0
    BY <1>2, NewBlockFits
  <2>3. b.size \in Nat /\ IsAligned(b, 0, al)
    <3>1. b.size \in Nat /\ b.residue + 0 = b.residue
      BY <2>2 DEF Blocks, AR!ArenaAssumption
    <3> QED
      BY <2>2, <3>1 DEF IsAligned
  <2>4. n(b).start = 0 /\ n(b).remaining = b.size
    BY <1>2, <2>2, <2>3, AlignedSkips
  <2>5. /\ blocks' \in Seq(Blocks)
        /\ Len(blocks') = Len(blocks) + 1
        /\ blocks'[Len(blocks) + 1] = b
        /\ \A i \in 1 .. Len(blocks) : blocks'[i] = blocks[i]
    BY <1>1, <2>1, <2>2, BlockAppended
  <2> HIDE DEF n
  <2>6. /\ u(b) \in [block : Nat, start : Nat, remaining : Nat]
        /\ u(b).block = Len(blocks) + 1 /\ u(b).start = 0 /\ u(b).remaining = b.size
    BY <1>1, <2>3, <2>4
  <2> HIDE DEF u
  <2>7. bytes <= b.size /\ 0 + b.size = b.size
    BY <1>2, <2>2, <2>3
  <2>8. Len(blocks) + 1 \in 1 .. Len(blocks') /\ Len(blocks) + 1 > Len(blocks)
        /\ Len(blocks) <= Len(blocks')
    BY <1>1, <2>5
  <2> QED
    BY <1>1, <1>2, <2>1, <2>2, <2>3, <2>5, <2>6, <2>7, <2>8, FromBlockKeeps
<1> QED
  BY <1>4, <1>5

LEMMA ArenaSteps ==
  ASSUME AR!ArenaAssumption, ArenaInv, AR!Next
  PROVE  ArenaInv'
<1>1. ASSUME NEW bytes \in Requests, NEW al \in Alignments, AR!GetMemory(bytes, al)
      PROVE  ArenaInv'
  <2>1. bytes \in Nat
    BY DEF AR!ArenaAssumption
  <2>2. AR!Common(bytes, al) \/ AR!Large(bytes, al) \/ AR!Small(bytes, al)
    BY <1>1 DEF AR!GetMemory
  <2> QED
    BY <2>1, <2>2, CommonKeeps, LargeKeeps, SmallKeeps
<1> QED
  BY <1>1, ArenaResetKeeps DEF AR!Next

-----------------------------------------------------------------------------
(* Induction over the numbers, as a fact about sets: what contains 0 and   *)
(* with each number the next contains them all.                            *)
LEMMA Induction ==
  ASSUME NEW S, 0 \in S, \A k \in Nat : k \in S => k + 1 \in S
  PROVE  \A k \in Nat : k \in S
<1> SUFFICES ASSUME NEW k \in Nat, k \notin S PROVE FALSE
  OBVIOUS
<1> DEFINE Rest == {x \in Nat : x \notin S}
<1>1. PICK x \in Rest : \A y \in Rest : x <= y
  BY LeastElement
<1>2. x \in Nat /\ x # 0
  OBVIOUS
<1>3. x - 1 \in Nat /\ (x - 1) + 1 = x /\ ~(x <= x - 1)
  BY <1>2
<1>4. x - 1 \in S
  BY <1>1, <1>3
<1>5. x \in S
  BY <1>3, <1>4
<1> QED
  BY <1>5

(* An instance has its own copy of the operators of FiniteSets; the copies *)
(* are the operators the library's theorems are about.                     *)
LEMMA SameCounting == \A S : HI!Cardinality(S) = Cardinality(S)
BY DEF HI!Cardinality, Cardinality

(* The samples smaller than x, by their places, and how many they are. *)
Below(x) == {i \in 1 .. Len(samples) : samples[i] < x}
Rank(x) == Cardinality(Below(x))

(* How many samples the first i buckets hold. *)
Count(i) == IF i = 0 THEN 0 ELSE Rank(limits[i])

(* The inductive invariant of Histogram: bucket b holds the samples from   *)
(* limit b - 1 on and below limit b, num_ is their number, and min_ and    *)
(* max_ are two of them that bound the others (histogram.cc:51-74).        *)
HistogramInv ==
  /\ limits \in LimitLists
  /\ buckets \in [1 .. Len(limits) -> Nat]
  /\ samples \in Seq(Samples) /\ num = Len(samples)
  /\ \A i \in 1 .. num : samples[i] < limits[Len(limits)]
  /\ min \in Int /\ max \in Int
  /\ num = 0 => min = limits[Len(limits)] /\ max = Lowest
  /\ num > 0 => /\ \E i \in 1 .. num : samples[i] = min
                /\ \E i \in 1 .. num : samples[i] = max
                /\ \A i \in 1 .. num : min <= samples[i] /\ samples[i] <= max
  /\ \A b \in 1 .. Len(limits) : buckets[b] = Count(b) - Count(b - 1)

(* The limits rise strictly (histogram.cc:35-49). *)
LEMMA LimitsAre ==
  ASSUME HI!HistogramAssumption, limits \in LimitLists
  PROVE  /\ Len(limits) \in Nat /\ Len(limits) >= 1
         /\ \A i \in 1 .. Len(limits) : limits[i] \in Int
         /\ \A i, j \in 1 .. Len(limits) : i < j => limits[i] < limits[j]
<1>1. limits \in Seq(Int) /\ limits # <<>>
  BY DEF HI!HistogramAssumption
<1>2. Len(limits) \in Nat /\ Len(limits) # 0 /\ \A i \in 1 .. Len(limits) : limits[i] \in Int
  BY <1>1, EmptySeq, LenProperties
<1> QED
  BY <1>2 DEF HI!HistogramAssumption

(* The samples are numbers. *)
LEMMA SamplesAre ==
  ASSUME HI!HistogramAssumption, samples \in Seq(Samples)
  PROVE  /\ Len(samples) \in Nat
         /\ \A i \in 1 .. Len(samples) : samples[i] \in Samples /\ samples[i] \in Int
<1>1. Len(samples) \in Nat /\ \A i \in 1 .. Len(samples) : samples[i] \in Samples
  BY LenProperties
<1> QED
  BY <1>1 DEF HI!HistogramAssumption

(* What the library says of the number of samples below x. *)
LEMMA Ranks ==
  ASSUME HI!HistogramAssumption, samples \in Seq(Samples), NEW x \in Int
  PROVE  /\ IsFiniteSet(Below(x)) /\ Rank(x) \in Nat /\ Rank(x) <= Len(samples)
         /\ Rank(x) = 0 => Below(x) = {}
         /\ Rank(x) = Len(samples) => Below(x) = 1 .. Len(samples)
         /\ Below(x) = 1 .. Len(samples) => Rank(x) = Len(samples)
<1>1. Len(samples) \in Nat
  BY SamplesAre
<1>2. IsFiniteSet(1 .. Len(samples)) /\ Cardinality(1 .. Len(samples)) = Len(samples)
  <2>1. PICK k \in Nat : k = Len(samples)
    BY <1>1
  <2>2. IsFiniteSet(1 .. k) /\ Cardinality(1 .. k) = (IF 1 > k THEN 0 ELSE k - 1 + 1)
    BY FS_Interval
  <2> QED
    BY <2>1, <2>2
<1>3. Below(x) \subseteq 1 .. Len(samples)
  BY DEF Below
<1>4. IsFiniteSet(Below(x)) /\ Cardinality(Below(x)) <= Cardinality(1 .. Len(samples))
      /\ (Cardinality(1 .. Len(samples)) = Cardinality(Below(x)) => 1 .. Len(samples) = Below(x))
  BY <1>2, <1>3, FS_Subset
<1>5. Cardinality(Below(x)) \in Nat /\ (Cardinality(Below(x)) = 0 <=> Below(x) = {})
  BY <1>4, FS_CardinalityType, FS_EmptySet
<1> QED
  BY <1>2, <1>4, <1>5 DEF Rank

(* Between two values with different counts there is a sample. *)
LEMMA SampleBetween ==
  ASSUME HI!HistogramAssumption, samples \in Seq(Samples), NEW x \in Int, NEW y \in Int,
         Rank(x) # Rank(y), x <= y
  PROVE  \E i \in 1 .. Len(samples) : x <= samples[i] /\ samples[i] < y
<1>1. SUFFICES ASSUME \A i \in 1 .. Len(samples) : ~(x <= samples[i] /\ samples[i] < y) PROVE FALSE
  OBVIOUS
<1>2. \A i \in 1 .. Len(samples) : samples[i] \in Int
  BY SamplesAre
<1>3. Below(x) = Below(y)
  BY <1>1, <1>2 DEF Below
<1> QED
  BY <1>3 DEF Rank

(* The buckets up to the last one hold all samples. *)
LEMMA CountIs ==
  ASSUME HI!HistogramAssumption, HistogramInv
  PROVE  /\ \A i \in 0 .. Len(limits) : Count(i) \in Nat /\ Count(i) <= num
         /\ Count(0) = 0 /\ Count(Len(limits)) = num
         /\ \A i \in 1 .. Len(limits) : Count(i) = Rank(limits[i])
<1>1. /\ samples \in Seq(Samples) /\ limits \in LimitLists /\ num = Len(samples) /\ num \in Nat
      /\ \A i \in 1 .. num : samples[i] < limits[Len(limits)]
  BY SamplesAre DEF HistogramInv
<1>2. Len(limits) \in Nat /\ Len(limits) >= 1 /\ \A i \in 1 .. Len(limits) : limits[i] \in Int
  BY <1>1, LimitsAre
<1>3. \A i \in 1 .. Len(limits) : Count(i) = Rank(limits[i])
  BY <1>2 DEF Count
<1>4. \A x \in Int : Rank(x) \in Nat /\ Rank(x) <= num
  BY <1>1, Ranks
<1>5. Below(limits[Len(limits)]) = 1 .. Len(samples)
  BY <1>1 DEF Below
<1>6. Len(limits) \in 1 .. Len(limits) /\ Rank(limits[Len(limits)]) = num
  <2>1. Len(limits) \in 1 .. Len(limits)
    BY <1>2
  <2>2. limits[Len(limits)] \in Int
    BY <1>2, <2>1
  <2>3. Rank(limits[Len(limits)]) = Len(samples)
    BY <1>1, <1>5, <2>2, Ranks
  <2> QED
    BY <1>1, <2>1, <2>3
<1>7. Count(0) = 0
  BY DEF Count
<1>8. ASSUME NEW i \in 0 .. Len(limits) PROVE Count(i) \in Nat /\ Count(i) <= num
  <2>1. CASE i = 0
    BY <1>1, <1>7, <2>1
  <2>2. CASE i # 0
    <3>1. i \in 1 .. Len(limits)
      BY <1>2, <2>2
    <3>2. limits[i] \in Int /\ Count(i) = Rank(limits[i])
      BY <1>2, <1>3, <3>1
    <3> QED
      BY <1>4, <3>2
  <2> QED
    BY <2>1, <2>2
<1> QED
  BY <1>2, <1>3, <1>6, <1>7, <1>8

(* The counts grow with the limits. *)
LEMMA CountGrows ==
  ASSUME HI!HistogramAssumption, HistogramInv,
         NEW i \in 0 .. Len(limits), NEW j \in 0 .. Len(limits), i <= j
  PROVE  Count(i) <= Count(j)
<1>1. /\ samples \in Seq(Samples) /\ limits \in LimitLists
  BY DEF HistogramInv
<1>2. /\ Len(limits) \in Nat /\ \A k \in 1 .. Len(limits) : limits[k] \in Int
      /\ \A k, l \in 1 .. Len(limits) : k < l => limits[k] < limits[l]
  BY <1>1, LimitsAre
<1>3. CASE i = 0
  BY <1>3, CountIs
<1>4. CASE i # 0
  <2>1. i \in 1 .. Len(limits) /\ j \in 1 .. Len(limits) /\ limits[i] <= limits[j]
        /\ limits[i] \in Int /\ limits[j] \in Int
    BY <1>2, <1>4
  <2>2. \A k \in 1 .. Len(samples) : samples[k] \in Int
    BY <1>1, SamplesAre
  <2>3. Below(limits[i]) \subseteq Below(limits[j])
    BY <2>1, <2>2 DEF Below
  <2>4. IsFiniteSet(Below(limits[j]))
    BY <1>1, <2>1, Ranks
  <2>5. Rank(limits[i]) <= Rank(limits[j])
    BY <2>3, <2>4, FS_Subset DEF Rank
  <2> QED
    BY <2>1, <2>5, CountIs
<1> QED
  BY <1>3, <1>4

(* The cumulative sums that Percentile computes (histogram.cc:81-86). *)
Sums ==
  CHOOSE sum : sum = [i \in 0 .. Len(limits) |-> IF i = 0 THEN 0 ELSE sum[i - 1] + buckets[i]]

(* They are the counts (histogram.cc:81-86). *)
LEMMA SumsCount ==
  ASSUME HI!HistogramAssumption, HistogramInv
  PROVE  \A i \in 0 .. Len(limits) : Sums[i] = Count(i)
<1>1. Len(limits) \in Nat
  BY LimitsAre DEF HistogramInv
<1>2. \A i \in 0 .. Len(limits) : Count(i) \in Nat
  BY CountIs
<1>3. \A i \in 1 .. Len(limits) : buckets[i] \in Nat /\ buckets[i] = Count(i) - Count(i - 1)
  BY DEF HistogramInv
<1> DEFINE Is(sum) == sum = [i \in 0 .. Len(limits) |-> IF i = 0 THEN 0 ELSE sum[i - 1] + buckets[i]]
           f == [i \in 0 .. Len(limits) |-> Count(i)]
<1>4. Is(f)
  <2> DEFINE g == [i \in 0 .. Len(limits) |-> IF i = 0 THEN 0 ELSE f[i - 1] + buckets[i]]
  <2>1. ASSUME NEW i \in 0 .. Len(limits) PROVE f[i] = g[i]
    <3>1. CASE i = 0
      BY <3>1, CountIs
    <3>2. CASE i # 0
      <4>1. i \in 1 .. Len(limits) /\ i - 1 \in 0 .. Len(limits)
        BY <1>1, <3>2
      <4>2. f[i] = Count(i) /\ f[i - 1] = Count(i - 1) /\ Count(i) \in Nat /\ Count(i - 1) \in Nat
        BY <1>2, <4>1
      <4>3. buckets[i] = Count(i) - Count(i - 1)
        BY <1>3, <4>1
      <4>4. g[i] = f[i - 1] + buckets[i]
        BY <3>2
      <4> HIDE DEF f, g
      <4> QED
        BY <4>2, <4>3, <4>4
    <3> QED
      BY <3>1, <3>2
  <2>2. f = [i \in 0 .. Len(limits) |-> f[i]] /\ g = [i \in 0 .. Len(limits) |-> g[i]]
    OBVIOUS
  <2>3. f = g
    <3> HIDE DEF f, g
    <3> QED
      BY <2>1, <2>2
  <2> QED
    BY <2>3
<1>5. Is(Sums)
  <2> HIDE DEF f
  <2>1. \E sum : Is(sum)
    BY <1>4
  <2> HIDE DEF Is
  <2>2. Is(CHOOSE sum : Is(sum))
    BY <2>1
  <2> QED
    BY <2>2 DEF Sums, Is
<1>6. Sums[0] = 0 /\ \A i \in 1 .. Len(limits) : Sums[i] = Sums[i - 1] + buckets[i]
  <2>1. Sums = [i \in 0 .. Len(limits) |-> IF i = 0 THEN 0 ELSE Sums[i - 1] + buckets[i]]
    BY <1>5
  <2> HIDE DEF Is
  <2>2. 0 \in 0 .. Len(limits) /\ \A i \in 1 .. Len(limits) : i \in 0 .. Len(limits) /\ i # 0
    BY <1>1
  <2> QED
    BY <2>1, <2>2
<1> DEFINE S == {k \in Nat : k <= Len(limits) => Sums[k] = Count(k)}
<1>7. 0 \in S
  BY <1>6, CountIs
<1>8. ASSUME NEW k \in Nat, k \in S PROVE k + 1 \in S
  <2> SUFFICES ASSUME k + 1 <= Len(limits) PROVE Sums[k + 1] = Count(k + 1)
    OBVIOUS
  <2>1. k + 1 \in 1 .. Len(limits) /\ k \in 0 .. Len(limits) /\ (k + 1) - 1 = k /\ k <= Len(limits)
    BY <1>1
  <2>2. Sums[k] = Count(k) /\ Count(k) \in Nat /\ Count(k + 1) \in Nat
    BY <1>2, <1>8, <2>1
  <2>3. buckets[k + 1] = Count(k + 1) - Count(k)
    BY <1>3, <2>1
  <2>4. Sums[k + 1] = Sums[k] + buckets[k + 1]
    BY <1>6, <2>1
  <2> QED
    BY <2>2, <2>3, <2>4
<1>9. \A k \in Nat : k \in S
  <2> HIDE DEF S
  <2> QED
    BY <1>7, <1>8, Induction
<1> QED
  BY <1>1, <1>9

(* The buckets that reach the threshold of percentile p and are not empty  *)
(* (histogram.cc:87-91).                                                   *)
Hits(p) == {i \in 1 .. Len(limits) : Count(i) * 100 >= num * p /\ Count(i) # Count(i - 1)}

(* The bounds of the interpolation (histogram.cc:93-98), its denominator,  *)
(* and the place in the bucket (histogram.cc:103).                         *)
Lhs(b) == HI!Larger(IF b = 1 \/ Count(b - 1) = 0 THEN min ELSE limits[b - 1], min)
Rhs(b) == HI!Smaller(limits[b], max)
Den(b) == 100 * (Count(b) - Count(b - 1))
Place(b, p) == num * p - 100 * Count(b - 1)

(* The first of them: the bucket that holds percentile p. *)
IsBucket(b, p) == b \in Hits(p) /\ \A i \in Hits(p) : b <= i

(* A histogram with samples has one for every percentile: the loop returns *)
(* before its end (histogram.cc:83-101).                                   *)
LEMMA BucketExists ==
  ASSUME HI!HistogramAssumption, HistogramInv, num > 0, NEW p \in 0 .. 100
  PROVE  \E b \in 1 .. Len(limits) : IsBucket(b, p)
<1>1. Len(limits) \in Nat /\ Len(limits) >= 1
  BY LimitsAre DEF HistogramInv
<1>2. num \in Nat
  BY SamplesAre DEF HistogramInv
<1> DEFINE Full == {k \in 1 .. Len(limits) : Count(k) = num}
<1>3. Len(limits) \in Full
  BY <1>1, CountIs
<1>4. PICK k \in Full : \A l \in Full : k <= l
  <2>1. Full \subseteq Nat
    BY <1>1
  <2> HIDE DEF Full
  <2> QED
    BY <1>3, <2>1, LeastElement
<1>5. k \in 1 .. Len(limits) /\ k - 1 \in 0 .. Len(limits) /\ Count(k) = num
  BY <1>1
<1>6. Count(k - 1) # num
  <2>1. CASE k = 1
    BY <1>2, <2>1, CountIs
  <2>2. CASE k # 1
    <3>1. k - 1 \in 1 .. Len(limits) /\ ~(k <= k - 1)
      BY <1>1, <1>5, <2>2
    <3> QED
      BY <1>4, <3>1
  <2> QED
    BY <2>1, <2>2
<1>7. num * 100 >= num * p
  <2>1. \A n \in Nat : n * 100 >= n * p
    BY SMT
  <2> QED
    BY <1>2, <2>1
<1>8. k \in Hits(p)
  BY <1>5, <1>6, <1>7 DEF Hits
<1>9. PICK b \in Hits(p) : \A i \in Hits(p) : b <= i
  <2>1. Hits(p) \subseteq Nat
    BY <1>1 DEF Hits
  <2> QED
    BY <1>8, <2>1, LeastElement
<1>10. b \in 1 .. Len(limits)
  BY DEF Hits
<1> QED
  BY <1>9, <1>10 DEF IsBucket

(* What Percentile answers, in terms of the counts (histogram.cc:78-117).  *)
LEMMA PercentileIs ==
  ASSUME HI!HistogramAssumption, HistogramInv, num > 0, NEW p \in 0 .. 100,
         NEW b \in 1 .. Len(limits), IsBucket(b, p)
  PROVE  HI!Percentile(p) =
           [num |-> Lhs(b) * Den(b) + Place(b, p) * (Rhs(b) - Lhs(b)), den |-> Den(b)]
<1>1. Len(limits) \in Nat
  BY LimitsAre DEF HistogramInv
<1>2. \A i \in 1 .. Len(limits) : Sums[i] = Count(i) /\ Sums[i - 1] = Count(i - 1)
  <2>1. \A i \in 1 .. Len(limits) : i \in 0 .. Len(limits) /\ i - 1 \in 0 .. Len(limits)
    BY <1>1
  <2> QED
    BY <2>1, SumsCount
<1> DEFINE hits == {i \in 1..Len(limits) : Sums[i] * 100 >= num * p /\ Sums[i] # Sums[i - 1]}
           c == CHOOSE i \in hits : \A j \in hits : i <= j
           lhs == HI!Larger(IF c = 1 \/ Sums[c - 1] = 0 THEN min ELSE limits[c - 1], min)
           rhs == HI!Smaller(limits[c], max)
           den == 100 * (Sums[c] - Sums[c - 1])
<1>3. HI!Percentile(p) = [num |-> lhs * den + (num * p - 100 * Sums[c - 1]) * (rhs - lhs), den |-> den]
  <2>1. num # 0
    BY SamplesAre DEF HistogramInv
  <2> QED
    BY <2>1 DEF HI!Percentile, Sums
<1>4. hits = Hits(p)
  BY <1>2 DEF Hits
<1>5. c = b
  <2> HIDE DEF hits
  <2>1. \A i \in hits : i \in Nat
    BY <1>1, <1>4 DEF Hits
  <2>2. b \in hits /\ \A j \in hits : b <= j
    BY <1>4 DEF IsBucket
  <2>3. c \in hits /\ \A j \in hits : c <= j
    BY <2>2
  <2> HIDE DEF c
  <2> QED
    BY <2>1, <2>2, <2>3
<1>6. Sums[b] = Count(b) /\ Sums[b - 1] = Count(b - 1)
  BY <1>2
<1> HIDE DEF c
<1>7. lhs = Lhs(b) /\ rhs = Rhs(b) /\ den = Den(b)
  BY <1>5, <1>6 DEF Lhs, Rhs, Den
<1> HIDE DEF lhs, rhs, den
<1> QED
  BY <1>3, <1>5, <1>6, <1>7 DEF Place

(* The counts before and behind that bucket enclose the threshold. *)
LEMMA InBucket ==
  ASSUME HI!HistogramAssumption, HistogramInv, num > 0, NEW p \in 0 .. 100,
         NEW b \in 1 .. Len(limits), IsBucket(b, p)
  PROVE  /\ Count(b - 1) \in Nat /\ Count(b) \in Nat /\ Count(b - 1) < Count(b)
         /\ num * p <= 100 * Count(b)
         /\ Count(b - 1) = 0 \/ 100 * Count(b - 1) < num * p
<1>1. Len(limits) \in Nat /\ num \in Nat /\ p \in Nat
  BY LimitsAre, SamplesAre DEF HistogramInv
<1>2. b \in 0 .. Len(limits) /\ b - 1 \in 0 .. Len(limits) /\ b - 1 <= b
  BY <1>1
<1>3. Count(b - 1) \in Nat /\ Count(b) \in Nat /\ Count(b - 1) <= Count(b)
  BY <1>2, CountIs, CountGrows
<1>4. Count(b) * 100 >= num * p /\ Count(b) # Count(b - 1)
  BY DEF IsBucket, Hits
<1>5. num * p \in Nat
  BY <1>1
<1>6. ASSUME Count(b - 1) # 0 PROVE 100 * Count(b - 1) < num * p
  <2> DEFINE Same == {k \in 0 .. Len(limits) : Count(k) = Count(b - 1)}
  <2>1. PICK k \in Same : \A l \in Same : k <= l
    <3>1. Same \subseteq Nat /\ b - 1 \in Same
      BY <1>1, <1>2
    <3> HIDE DEF Same
    <3> QED
      BY <3>1, LeastElement
  <2>2. k \in 0 .. Len(limits) /\ Count(k) = Count(b - 1) /\ k <= b - 1
    BY <1>2, <2>1
  <2>3. k # 0
    BY <1>6, <2>2, CountIs
  <2>4. k \in 1 .. Len(limits) /\ k - 1 \in 0 .. Len(limits) /\ ~(k <= k - 1) /\ ~(b <= k)
    BY <1>1, <2>2, <2>3
  <2>5. Count(k - 1) # Count(k)
    BY <2>1, <2>2, <2>4
  <2>6. k \notin Hits(p)
    BY <2>4 DEF IsBucket
  <2>7. ~(Count(k) * 100 >= num * p)
    BY <2>4, <2>5, <2>6 DEF Hits
  <2> QED
    BY <1>3, <1>5, <2>2, <2>7
<1> QED
  BY <1>3, <1>4, <1>5, <1>6

(* A bucket with a sample has bounds in order, between min_ and max_ and   *)
(* between its limits (histogram.cc:93-98).                                *)
LEMMA BoundsOK ==
  ASSUME HI!HistogramAssumption, HistogramInv, num > 0, NEW b \in 1 .. Len(limits),
         Count(b - 1) # Count(b)
  PROVE  /\ Lhs(b) \in Int /\ Rhs(b) \in Int
         /\ min <= Lhs(b) /\ Lhs(b) <= Rhs(b) /\ Rhs(b) <= max /\ Rhs(b) <= limits[b]
         /\ limits[b] \in Int
         /\ b # 1 => limits[b - 1] \in Int /\ limits[b - 1] <= Lhs(b)
         /\ Count(b - 1) = 0 => Lhs(b) = min
         /\ Count(b) = num => Rhs(b) = max
<1>1. /\ samples \in Seq(Samples) /\ limits \in LimitLists /\ num = Len(samples) /\ num \in Nat
      /\ Len(limits) \in Nat /\ min \in Int /\ max \in Int
      /\ \A i \in 1 .. num : samples[i] \in Int
  BY SamplesAre, LimitsAre DEF HistogramInv
<1>2. /\ \E i \in 1 .. num : samples[i] = min
      /\ \E i \in 1 .. num : samples[i] = max
      /\ \A i \in 1 .. num : min <= samples[i] /\ samples[i] <= max
  BY DEF HistogramInv
<1>3. limits[b] \in Int /\ Count(b) = Rank(limits[b]) /\ Count(b) \in Nat
  BY <1>1, LimitsAre, CountIs
<1>4. ASSUME b # 1
      PROVE  /\ b - 1 \in 1 .. Len(limits) /\ limits[b - 1] \in Int /\ limits[b - 1] < limits[b]
             /\ Count(b - 1) = Rank(limits[b - 1]) /\ Count(b - 1) \in Nat
  <2>1. b - 1 \in 1 .. Len(limits) /\ b - 1 < b /\ b - 1 \in 0 .. Len(limits)
    BY <1>1, <1>4
  <2> QED
    BY <1>1, <2>1, LimitsAre, CountIs
<1>5. \E i \in 1 .. num : samples[i] < limits[b] /\ (b # 1 => limits[b - 1] <= samples[i])
  <2>1. CASE b = 1
    <3>1. Count(b - 1) = 0
      BY <2>1, CountIs
    <3>2. Rank(limits[b]) # 0
      BY <1>3, <3>1
    <3>3. Below(limits[b]) # {}
      <4>1. Cardinality({}) = 0
        BY FS_EmptySet
      <4> QED
        BY <3>2, <4>1 DEF Rank
    <3> QED
      BY <1>1, <2>1, <3>3 DEF Below
  <2>2. CASE b # 1
    <3>1. Rank(limits[b - 1]) # Rank(limits[b]) /\ limits[b - 1] <= limits[b]
      BY <1>3, <1>4, <2>2
    <3> QED
      BY <1>1, <1>3, <1>4, <2>2, <3>1, SampleBetween
  <2> QED
    BY <2>1, <2>2
<1>6. PICK i \in 1 .. num : samples[i] < limits[b] /\ (b # 1 => limits[b - 1] <= samples[i])
  BY <1>5
<1>7. samples[i] \in Int /\ min <= samples[i] /\ samples[i] <= max
  BY <1>1, <1>2
<1>8. Rhs(b) \in Int /\ Rhs(b) <= max /\ Rhs(b) <= limits[b] /\ samples[i] <= Rhs(b)
  BY <1>1, <1>3, <1>6, <1>7 DEF Rhs, HI!Smaller
<1>9. Lhs(b) \in Int /\ min <= Lhs(b) /\ Lhs(b) <= samples[i]
  <2>1. CASE b = 1 \/ Count(b - 1) = 0
    BY <1>1, <1>7, <2>1 DEF Lhs, HI!Larger
  <2>2. CASE ~(b = 1 \/ Count(b - 1) = 0)
    BY <1>1, <1>4, <1>6, <1>7, <2>2 DEF Lhs, HI!Larger
  <2> QED
    BY <2>1, <2>2
<1>10. Count(b - 1) = 0 => Lhs(b) = min
  BY <1>1 DEF Lhs, HI!Larger
<1>11. ASSUME b # 1 PROVE limits[b - 1] <= Lhs(b)
  <2>1. CASE Count(b - 1) = 0
    <3>1. Below(limits[b - 1]) = {}
      BY <1>1, <1>4, <1>11, <2>1, Ranks
    <3>2. PICK j \in 1 .. num : samples[j] = min
      BY <1>2
    <3>3. ~(min < limits[b - 1])
      BY <1>1, <3>1, <3>2 DEF Below
    <3> QED
      BY <1>1, <1>4, <1>10, <1>11, <2>1, <3>3
  <2>2. CASE Count(b - 1) # 0
    BY <1>1, <1>4, <1>11, <2>2 DEF Lhs, HI!Larger
  <2> QED
    BY <2>1, <2>2
<1>12. ASSUME Count(b) = num PROVE Rhs(b) = max
  <2>1. Below(limits[b]) = 1 .. Len(samples)
    BY <1>1, <1>3, <1>12, Ranks
  <2>2. PICK j \in 1 .. num : samples[j] = max
    BY <1>2
  <2>3. max < limits[b]
    BY <1>1, <2>1, <2>2 DEF Below
  <2> QED
    BY <1>1, <1>3, <2>3 DEF Rhs, HI!Smaller
<1>13. Lhs(b) <= Rhs(b)
  BY <1>7, <1>8, <1>9
<1> QED
  BY <1>3, <1>4, <1>8, <1>9, <1>10, <1>11, <1>12, <1>13

(* Multiplying both sides. *)
LEMMA Times ==
  ASSUME NEW x \in Int, NEW y \in Int, NEW d \in Nat, x <= y
  PROVE  x * d <= y * d
<1> DEFINE c == y - x
<1>1. c \in Nat /\ y = x + c
  OBVIOUS
<1>2. c * d \in Nat /\ (x + c) * d = x * d + c * d /\ x * d \in Int
  BY <1>1
<1> HIDE DEF c
<1> QED
  BY <1>1, <1>2

(* Of the way from a to c, t parts of d lie between the two. *)
LEMMA Between ==
  ASSUME NEW a \in Int, NEW c \in Int, NEW t \in Nat, NEW d \in Nat, a <= c, t <= d
  PROVE  /\ a * d + t * (c - a) \in Int
         /\ a * d <= a * d + t * (c - a)
         /\ a * d + t * (c - a) <= c * d
<1> DEFINE w == c - a
<1>1. w \in Nat /\ c = a + w
  OBVIOUS
<1>2. t * w \in Nat /\ t * w <= d * w
  BY <1>1, Times
<1>3. (a + w) * d = a * d + d * w /\ a * d \in Int /\ d * w \in Nat
  BY <1>1
<1>4. c * d = a * d + d * w
  BY <1>1, <1>3
<1>5. t * (c - a) = t * w
  OBVIOUS
<1> HIDE DEF w
<1> QED
  BY <1>2, <1>3, <1>4, <1>5

(* The bucket that holds a percentile has a sample, so its bounds are in   *)
(* order.                                                                  *)
LEMMA BucketBounds ==
  ASSUME HI!HistogramAssumption, HistogramInv, num > 0, NEW p \in 0 .. 100,
         NEW b \in 1 .. Len(limits), IsBucket(b, p)
  PROVE  /\ Lhs(b) \in Int /\ Rhs(b) \in Int
         /\ min <= Lhs(b) /\ Lhs(b) <= Rhs(b) /\ Rhs(b) <= max /\ Rhs(b) <= limits[b]
         /\ limits[b] \in Int
         /\ b # 1 => limits[b - 1] \in Int /\ limits[b - 1] <= Lhs(b)
         /\ Count(b - 1) = 0 => Lhs(b) = min
         /\ Count(b) = num => Rhs(b) = max
<1>1. Count(b - 1) # Count(b)
  <2>1. Count(b - 1) \in Nat /\ Count(b) \in Nat /\ Count(b - 1) < Count(b)
    BY InBucket
  <2> QED
    BY <2>1
<1> QED
  BY <1>1, BoundsOK

(* The place in the bucket is within it, and nothing is divided by zero    *)
(* (histogram.cc:103-116).                                                 *)
LEMMA PlaceIn ==
  ASSUME HI!HistogramAssumption, HistogramInv, num > 0, NEW p \in 0 .. 100,
         NEW b \in 1 .. Len(limits), IsBucket(b, p)
  PROVE  Place(b, p) \in Nat /\ Den(b) \in Nat \ {0} /\ Place(b, p) <= Den(b)
<1>1. /\ Count(b - 1) \in Nat /\ Count(b) \in Nat /\ Count(b - 1) < Count(b)
      /\ num * p <= 100 * Count(b)
      /\ Count(b - 1) = 0 \/ 100 * Count(b - 1) < num * p
  BY InBucket
<1>2. num * p \in Nat
  BY SamplesAre DEF HistogramInv
<1>3. PICK m \in Nat : m = num * p
  BY <1>2
<1>4. PICK c \in Nat, e \in Nat : c = Count(b - 1) /\ e = Count(b)
  BY <1>1
<1>5. m <= 100 * e /\ (c = 0 \/ 100 * c < m) /\ c < e
  BY <1>1, <1>3, <1>4
<1>6. m - 100 * c \in Nat /\ 100 * (e - c) \in Nat \ {0} /\ m - 100 * c <= 100 * (e - c)
  BY <1>5
<1> QED
  BY <1>3, <1>4, <1>6 DEF Place, Den

(* A percentile is a fraction between the bounds of its bucket             *)
(* (histogram.cc:103-116).                                                 *)
LEMMA PercentileBounds ==
  ASSUME HI!HistogramAssumption, HistogramInv, num > 0, NEW p \in 0 .. 100,
         NEW b \in 1 .. Len(limits), IsBucket(b, p)
  PROVE  /\ HI!Percentile(p).num \in Int /\ HI!Percentile(p).den = Den(b)
         /\ HI!Percentile(p).num = Lhs(b) * Den(b) + Place(b, p) * (Rhs(b) - Lhs(b))
         /\ Lhs(b) * Den(b) <= HI!Percentile(p).num
         /\ HI!Percentile(p).num <= Rhs(b) * Den(b)
<1>1. HI!Percentile(p) =
        [num |-> Lhs(b) * Den(b) + Place(b, p) * (Rhs(b) - Lhs(b)), den |-> Den(b)]
  BY PercentileIs
<1>2. Place(b, p) \in Nat /\ Den(b) \in Nat /\ Place(b, p) <= Den(b)
  BY PlaceIn
<1>3. Lhs(b) \in Int /\ Rhs(b) \in Int /\ Lhs(b) <= Rhs(b)
  BY BucketBounds
<1>4. PICK x \in Int : x = Lhs(b) * Den(b) + Place(b, p) * (Rhs(b) - Lhs(b))
  BY <1>2, <1>3, Between
<1>5. Lhs(b) * Den(b) <= x /\ x <= Rhs(b) * Den(b)
  BY <1>2, <1>3, <1>4, Between
<1>6. HI!Percentile(p) = [num |-> x, den |-> Den(b)]
  BY <1>1, <1>4
<1> QED
  BY <1>4, <1>5, <1>6

(* A later percentile is further on in the same bucket or in a later one   *)
(* (histogram.cc:83-101).                                                  *)
LEMMA PercentilesRise ==
  ASSUME HI!HistogramAssumption, HistogramInv, num > 0, NEW p \in 0 .. 100, NEW q \in 0 .. 100,
         p <= q
  PROVE  HI!AtMost(HI!Percentile(p), HI!Percentile(q))
<1>1. PICK b \in 1 .. Len(limits) : IsBucket(b, p)
  BY BucketExists
<1>2. PICK c \in 1 .. Len(limits) : IsBucket(c, q)
  BY BucketExists
<1>3. PICK x \in Int, y \in Int : x = HI!Percentile(p).num /\ y = HI!Percentile(q).num
  BY <1>1, <1>2, PercentileBounds
<1>4. PICK d \in Nat, e \in Nat : d = Den(b) /\ e = Den(c)
  BY <1>1, <1>2, PlaceIn
<1>5. SUFFICES x * e <= y * d
  <2>1. HI!Percentile(p).den = d /\ HI!Percentile(q).den = e
    BY <1>1, <1>2, <1>4, PercentileBounds
  <2> QED
    BY <1>3, <2>1 DEF HI!AtMost
<1>6. Len(limits) \in Nat /\ num \in Nat
  BY LimitsAre, SamplesAre DEF HistogramInv
<1>a. num * p \in Int /\ num * q \in Int
  BY <1>6
<1>b. Count(b - 1) \in Int /\ Count(c) \in Int
  <2>1. Count(b - 1) \in Nat
    BY <1>1, InBucket
  <2>2. Count(c) \in Nat
    BY <1>2, InBucket
  <2> QED
    BY <2>1, <2>2
<1>c. 100 * Count(b - 1) \in Int /\ Count(c) * 100 \in Int
  BY <1>b
<1>7. PICK l \in Int, r \in Int : l = Lhs(b) /\ r = Rhs(b)
  BY <1>1, BucketBounds
<1>8. l <= r
  BY <1>1, <1>7, BucketBounds
<1>9. num * p <= num * q
  <2>1. \A n \in Nat, u, v \in Int : u <= v => n * u <= n * v
    BY Times
  <2> QED
    BY <1>6, <2>1
<1>10. b <= c
  <2>1. c \in Hits(q)
    BY <1>2 DEF IsBucket
  <2>2. Count(c) * 100 >= num * q /\ Count(c) # Count(c - 1)
    BY <2>1 DEF Hits
  <2>3. num * p \in Int /\ num * q \in Int /\ Count(c) * 100 \in Int
    BY <1>a, <1>c
  <2>4. c \in Hits(p)
    BY <1>9, <2>2, <2>3 DEF Hits
  <2> QED
    BY <1>1, <2>4 DEF IsBucket
<1>11. CASE b = c
  <2>1. PICK s \in Nat, t \in Nat : s = Place(b, p) /\ t = Place(b, q)
    BY <1>1, <1>2, <1>11, PlaceIn
  <2>2. s <= t
    <3>1. \A u, v, w \in Int : u <= v => u - w <= v - w
      OBVIOUS
    <3>2. num * p \in Int /\ num * q \in Int /\ 100 * Count(b - 1) \in Int
      BY <1>a, <1>c
    <3> QED
      BY <1>9, <2>1, <3>1, <3>2 DEF Place
  <2>3. x = l * d + s * (r - l) /\ y = l * d + t * (r - l)
    BY <1>1, <1>2, <1>3, <1>4, <1>7, <1>11, <2>1, PercentileBounds
  <2>4. r - l \in Nat
    BY <1>8
  <2>5. s * (r - l) <= t * (r - l)
    BY <2>2, <2>4, Times
  <2>6. s * (r - l) \in Int /\ t * (r - l) \in Int /\ l * d \in Int
    OBVIOUS
  <2>7. x <= y
    BY <2>3, <2>5, <2>6
  <2> QED
    BY <1>4, <1>11, <2>7, Times
<1>12. CASE b # c
  <2>1. b <= c - 1 /\ c - 1 \in 0 .. Len(limits) /\ b \in 0 .. Len(limits) /\ c # 1
        /\ c - 1 \in 1 .. Len(limits)
    BY <1>6, <1>10, <1>12
  <2>2. Count(b - 1) < Count(b) /\ Count(b) <= Count(c - 1) /\ Count(b - 1) \in Nat
    BY <1>1, <2>1, InBucket, CountGrows
  <2>3. PICK m \in Int, k \in Int : m = Lhs(c) /\ k = limits[c - 1]
    BY <1>2, <2>1, BucketBounds
  <2>4. k <= m
    BY <1>2, <2>1, <2>3, BucketBounds
  <2>5. r <= limits[b] /\ limits[b] \in Int
    BY <1>1, <1>7, BucketBounds
  <2>6. limits[b] <= k
    <3>1. limits \in LimitLists
      BY DEF HistogramInv
    <3>2. CASE b = c - 1
      BY <2>3, <2>5, <3>2
    <3>3. CASE b # c - 1
      <4>1. b < c - 1
        BY <2>1, <3>3
      <4>2. limits[b] < limits[c - 1]
        BY <2>1, <3>1, <4>1, LimitsAre
      <4> QED
        BY <2>3, <2>5, <4>2
    <3> QED
      BY <3>2, <3>3
  <2>7. r <= m
    BY <2>4, <2>5, <2>6
  <2>8. x <= r * d /\ m * e <= y
    BY <1>1, <1>2, <1>3, <1>4, <1>7, <2>3, PercentileBounds
  <2>9. r * d <= m * d /\ m * d \in Int /\ m * e \in Int /\ r * d \in Int
    BY <2>7, Times
  <2>10. x <= m * d
    BY <2>8, <2>9
  <2>11. x * e <= (m * d) * e
    BY <2>9, <2>10, Times
  <2>12. (m * e) * d <= y * d
    BY <2>8, <2>9, Times
  <2>13. (m * d) * e = (m * e) * d
    OBVIOUS
  <2>14. x * e \in Int /\ y * d \in Int /\ (m * d) * e \in Int
    BY <2>9
  <2> QED
    BY <2>11, <2>12, <2>13, <2>14
<1> QED
  BY <1>11, <1>12

(* The invariant implies what is claimed of Percentile                     *)
(* (histogram.cc:78-117).                                                  *)
LEMMA PercentilesFitNow ==
  ASSUME HI!HistogramAssumption, HistogramInv
  PROVE  HI!PercentilesFit
<1> SUFFICES ASSUME num > 0
             PROVE  /\ \E i \in 1..num : samples[i] = min
                    /\ \A i \in 1..num : min <= samples[i] /\ samples[i] <= max
                    /\ \A p \in Percents :
                         LET at(x) == [num |-> x, den |-> 1]
                         IN /\ HI!AtMost(at(min), HI!Percentile(p))
                            /\ HI!AtMost(HI!Percentile(p), at(max))
                            /\ p = 0 => HI!AtMost(HI!Percentile(p), at(min))
                            /\ p = 100 => HI!AtMost(at(max), HI!Percentile(p))
                            /\ \A q \in Percents :
                                 p <= q => HI!AtMost(HI!Percentile(p), HI!Percentile(q))
                            /\ \A i \in 1..Len(limits) :
                                 100 * HI!Cardinality({j \in 1..Len(samples) :
                                                         samples[j] <= limits[i] - 1}) < p * num
                                   => HI!AtMost(at(limits[i]), HI!Percentile(p))
  BY DEF HI!PercentilesFit
<1> DEFINE at(x) == [num |-> x, den |-> 1]
<1>1. \E i \in 1..num : samples[i] = min
  BY DEF HistogramInv
<1>2. \A i \in 1..num : min <= samples[i] /\ samples[i] <= max
  BY DEF HistogramInv
<1>3. ASSUME NEW p \in Percents
      PROVE  /\ HI!AtMost(at(min), HI!Percentile(p))
             /\ HI!AtMost(HI!Percentile(p), at(max))
             /\ p = 0 => HI!AtMost(HI!Percentile(p), at(min))
             /\ p = 100 => HI!AtMost(at(max), HI!Percentile(p))
             /\ \A q \in Percents : p <= q => HI!AtMost(HI!Percentile(p), HI!Percentile(q))
             /\ \A i \in 1..Len(limits) :
                  100 * HI!Cardinality({j \in 1..Len(samples) : samples[j] <= limits[i] - 1})
                      < p * num
                    => HI!AtMost(at(limits[i]), HI!Percentile(p))
  <2>1. p \in 0 .. 100 /\ \A q \in Percents : q \in 0 .. 100
    BY DEF HI!HistogramAssumption
  <2>2. PICK b \in 1 .. Len(limits) : IsBucket(b, p)
    BY <2>1, BucketExists
  <2>3. PICK x \in Int : x = HI!Percentile(p).num
    BY <2>1, <2>2, PercentileBounds
  <2>4. PICK d \in Nat, t \in Nat : d = Den(b) /\ t = Place(b, p)
    BY <2>1, <2>2, PlaceIn
  <2>5. PICK l \in Int, r \in Int : l = Lhs(b) /\ r = Rhs(b)
    BY <2>1, <2>2, BucketBounds
  <2>6. HI!Percentile(p).den = d
    BY <2>1, <2>2, <2>4, PercentileBounds
  <2>7. l * d <= x /\ x <= r * d /\ x = l * d + t * (r - l)
    BY <2>1, <2>2, <2>3, <2>4, <2>5, PercentileBounds
  <2>8. min <= l /\ r <= max /\ min \in Int /\ max \in Int
        /\ (Count(b - 1) = 0 => l = min) /\ (Count(b) = num => r = max)
    <3>1. min \in Int /\ max \in Int
      BY DEF HistogramInv
    <3> QED
      BY <2>1, <2>2, <2>5, <3>1, BucketBounds
  <2>9. \A v \in Int : /\ HI!AtMost(at(v), HI!Percentile(p)) <=> v * d <= x
                       /\ HI!AtMost(HI!Percentile(p), at(v)) <=> x <= v * d
    <3> SUFFICES ASSUME NEW v \in Int
                 PROVE  /\ HI!AtMost(at(v), HI!Percentile(p)) <=> v * d <= x
                        /\ HI!AtMost(HI!Percentile(p), at(v)) <=> x <= v * d
      OBVIOUS
    <3>1. at(v).num = v /\ at(v).den = 1
      OBVIOUS
    <3>2. x * 1 = x /\ v * d \in Int
      OBVIOUS
    <3> HIDE DEF at
    <3> QED
      BY <2>3, <2>6, <3>1, <3>2 DEF HI!AtMost
  <2> HIDE DEF at
  <2>10. min * d <= l * d /\ r * d <= max * d
    BY <2>8, Times
  <2>11. min * d <= x /\ x <= max * d
    <3>1. min * d \in Int /\ l * d \in Int /\ r * d \in Int /\ max * d \in Int
      BY <2>8
    <3> QED
      BY <2>7, <2>10, <3>1
  <2>12. /\ Count(b - 1) \in Nat /\ Count(b) \in Nat /\ Count(b - 1) < Count(b)
         /\ num * p <= 100 * Count(b)
         /\ Count(b - 1) = 0 \/ 100 * Count(b - 1) < num * p
    BY <2>1, <2>2, InBucket
  <2>13. PICK c \in Nat, e \in Nat, n \in Nat : c = Count(b - 1) /\ e = Count(b) /\ n = num
    BY <2>12, SamplesAre DEF HistogramInv
  <2>14. e <= n
    <3>1. b \in 0 .. Len(limits)
      BY LimitsAre DEF HistogramInv
    <3> QED
      BY <2>13, <3>1, CountIs
  <2>15. ASSUME p = 0 PROVE HI!AtMost(HI!Percentile(p), at(min))
    <3>1. num * p = 0
      BY <2>13, <2>15
    <3>2. c = 0 /\ t = 0
      BY <2>4, <2>12, <2>13, <3>1, SMTT(30) DEF Place
    <3>3. l = min
      BY <2>8, <2>13, <3>2
    <3>4. x = min * d
      <4>1. t * (r - l) = 0
        BY <3>2
      <4>2. min * d \in Int
        BY <2>8
      <4> QED
        BY <2>7, <3>3, <4>1, <4>2
    <3> QED
      BY <2>8, <2>9, <3>4
  <2>16. ASSUME p = 100 PROVE HI!AtMost(at(max), HI!Percentile(p))
    <3>1. num * p = n * 100
      BY <2>13, <2>16
    <3>2. e = n
      BY <2>12, <2>13, <2>14, <3>1
    <3>3. r = max
      BY <2>8, <2>13, <3>2
    <3>4. t = d
      BY <2>4, <2>13, <3>1, <3>2 DEF Place, Den
    <3>5. x = r * d
      <4>1. \A u, v, w \in Int : u * w + w * (v - u) = v * w
        OBVIOUS
      <4> QED
        BY <2>7, <3>4, <4>1
    <3> QED
      BY <2>8, <2>9, <3>3, <3>5
  <2>17. ASSUME NEW i \in 1..Len(limits),
                100 * HI!Cardinality({j \in 1..Len(samples) : samples[j] <= limits[i] - 1})
                    < p * num
         PROVE  HI!AtMost(at(limits[i]), HI!Percentile(p))
    <3>1. /\ limits \in LimitLists /\ samples \in Seq(Samples) /\ Len(limits) \in Nat
          /\ limits[i] \in Int /\ \A j \in 1..Len(samples) : samples[j] \in Int
      BY LimitsAre, SamplesAre DEF HistogramInv
    <3>2. {j \in 1..Len(samples) : samples[j] <= limits[i] - 1} = Below(limits[i])
      BY <3>1 DEF Below
    <3>3. HI!Cardinality({j \in 1..Len(samples) : samples[j] <= limits[i] - 1}) = Count(i)
      <4>1. Count(i) = Rank(limits[i])
        BY CountIs
      <4> QED
        BY <3>2, <4>1, SameCounting DEF Rank
    <3>4. PICK k \in Nat : k = Count(i)
      BY <3>1, CountIs
    <3>5. p * num = num * p /\ num * p \in Int
      BY <2>1, <2>13
    <3>6. k < e
      <4>1. 100 * k < num * p
        BY <2>17, <3>3, <3>4, <3>5
      <4>2. num * p <= 100 * e
        BY <2>12, <2>13
      <4>3. 100 * k < 100 * e
        BY <3>5, <4>1, <4>2
      <4> QED
        BY <4>3
    <3>7. i <= b - 1 /\ b - 1 \in 1 .. Len(limits) /\ b # 1
      <4>1. i \in 0 .. Len(limits) /\ b \in 0 .. Len(limits)
        BY <3>1
      <4>2. b <= i => Count(b) <= Count(i)
        BY <4>1, CountGrows
      <4>3. ~(b <= i)
        BY <2>13, <3>4, <3>6, <4>2
      <4> QED
        BY <3>1, <4>3
    <3>8. limits[b - 1] \in Int /\ limits[b - 1] <= l
      BY <2>1, <2>2, <2>5, <3>7, BucketBounds
    <3>9. limits[i] <= limits[b - 1]
      <4>1. CASE i = b - 1
        BY <3>1, <4>1
      <4>2. CASE i # b - 1
        <5>1. i < b - 1
          BY <3>1, <3>7, <4>2
        <5>2. limits[i] < limits[b - 1]
          BY <3>1, <3>7, <5>1, LimitsAre
        <5> QED
          BY <3>1, <3>8, <5>2
      <4> QED
        BY <4>1, <4>2
    <3>10. limits[i] * d <= l * d
      BY <3>1, <3>8, <3>9, Times
    <3>11. limits[i] * d <= x
      <4>1. limits[i] * d \in Int /\ l * d \in Int
        BY <3>1
      <4> QED
        BY <2>7, <3>10, <4>1
    <3> QED
      BY <2>9, <3>1, <3>11
  <2>18. ASSUME NEW q \in Percents, p <= q
         PROVE  HI!AtMost(HI!Percentile(p), HI!Percentile(q))
    BY <2>1, <2>18, PercentilesRise
  <2> QED
    BY <2>8, <2>9, <2>11, <2>15, <2>16, <2>17, <2>18
<1> QED
  BY <1>1, <1>2, <1>3

(* Add finds the first bucket whose limit is past the value                *)
(* (histogram.cc:64-66).                                                   *)
LEMMA UpperBoundIs ==
  ASSUME HI!HistogramAssumption, limits \in LimitLists, NEW v \in Int, v < limits[Len(limits)]
  PROVE  /\ HI!UpperBound(v) \in 1 .. Len(limits)
         /\ limits[HI!UpperBound(v)] > v
         /\ \A i \in 1 .. HI!UpperBound(v) - 1 : limits[i] <= v
<1>1. Len(limits) \in Nat /\ Len(limits) >= 1 /\ \A i \in 1 .. Len(limits) : limits[i] \in Int
  BY LimitsAre
<1> DEFINE Past == {b \in 1 .. Len(limits) : limits[b] > v}
           Is(b) == /\ b <= Len(limits) => limits[b] > v
                    /\ \A i \in 1 .. b - 1 : limits[i] <= v
<1>2. PICK b \in Past : \A c \in Past : b <= c
  <2>1. Past \subseteq Nat /\ Len(limits) \in Past
    BY <1>1
  <2> HIDE DEF Past
  <2> QED
    BY <2>1, LeastElement
<1>3. b \in 1 .. Len(limits) + 1 /\ Is(b)
  <2>1. b \in 1 .. Len(limits) /\ limits[b] > v
    OBVIOUS
  <2>2. ASSUME NEW i \in 1 .. b - 1 PROVE limits[i] <= v
    <3>1. i \in 1 .. Len(limits) /\ ~(b <= i)
      BY <1>1, <2>1
    <3>2. ~(limits[i] > v)
      BY <1>2, <3>1
    <3> QED
      BY <1>1, <3>1, <3>2
  <2> QED
    BY <1>1, <2>1, <2>2
<1>4. HI!UpperBound(v) \in 1 .. Len(limits) + 1 /\ Is(HI!UpperBound(v))
  <2>1. HI!UpperBound(v) = CHOOSE c \in 1 .. Len(limits) + 1 : Is(c)
    BY DEF HI!UpperBound
  <2> HIDE DEF Is
  <2> QED
    BY <1>3, <2>1
<1>5. HI!UpperBound(v) # Len(limits) + 1
  <2>1. ASSUME HI!UpperBound(v) = Len(limits) + 1 PROVE FALSE
    <3>1. Len(limits) \in 1 .. HI!UpperBound(v) - 1
      BY <1>1, <2>1
    <3>2. limits[Len(limits)] <= v
      BY <1>4, <3>1
    <3>3. limits[Len(limits)] \in Int
      BY <1>1
    <3> QED
      BY <3>2, <3>3
  <2> QED
    BY <2>1
<1> QED
  BY <1>1, <1>4, <1>5

(* A sample more is counted below the limits past it. *)
LEMMA RankOfAppended ==
  ASSUME HI!HistogramAssumption, samples \in Seq(Samples), NEW v \in Samples,
         samples' = Append(samples, v), NEW x \in Int
  PROVE  Cardinality({i \in 1 .. Len(samples') : samples'[i] < x}) =
           IF v < x THEN Rank(x) + 1 ELSE Rank(x)
<1>1. /\ Len(samples) \in Nat /\ Len(samples') = Len(samples) + 1
      /\ \A i \in 1 .. Len(samples) : samples'[i] = samples[i]
      /\ samples'[Len(samples) + 1] = v
  BY AppendProperties, LenProperties
<1>2. IsFiniteSet(Below(x))
  BY Ranks
<1> DEFINE After == {i \in 1 .. Len(samples') : samples'[i] < x}
           n == Len(samples) + 1
<1>3. n \notin Below(x)
  BY <1>1 DEF Below
<1>4. CASE v < x
  <2>1. After = Below(x) \cup {n}
    BY <1>1, <1>4 DEF Below
  <2> HIDE DEF After
  <2> QED
    BY <1>2, <1>3, <1>4, <2>1, FS_AddElement DEF Rank, After
<1>5. CASE ~(v < x)
  <2>1. After = Below(x)
    BY <1>1, <1>5 DEF Below
  <2> QED
    BY <1>5, <2>1 DEF Rank
<1> QED
  BY <1>4, <1>5

(* Without samples every count is 0. *)
LEMMA EmptyCounts ==
  ASSUME HI!HistogramAssumption, limits \in LimitLists, samples = <<>>
  PROVE  \A b \in 0 .. Len(limits) : Count(b) = 0
<1>1. \A x : Below(x) = {}
  BY DEF Below
<1>2. \A x : Rank(x) = 0
  BY <1>1, FS_EmptySet DEF Rank
<1> QED
  BY <1>2 DEF Count

(* A histogram just cleared is in order (histogram.cc:51-61). *)
LEMMA ClearedKeeps ==
  ASSUME HI!HistogramAssumption, limits \in LimitLists, HI!Cleared(limits)
  PROVE  HistogramInv
<1>1. Len(limits) \in Nat /\ Len(limits) >= 1 /\ \A i \in 1 .. Len(limits) : limits[i] \in Int
  BY LimitsAre
<1>2. \A b \in 0 .. Len(limits) : Count(b) = 0
  BY EmptyCounts DEF HI!Cleared
<1>3. \A b \in 1 .. Len(limits) : buckets[b] = Count(b) - Count(b - 1)
  <2>1. \A b \in 1 .. Len(limits) : b \in 0 .. Len(limits) /\ b - 1 \in 0 .. Len(limits)
    BY <1>1
  <2> QED
    BY <1>2, <2>1 DEF HI!Cleared
<1>4. samples \in Seq(Samples) /\ num = Len(samples) /\ num = 0
  BY EmptySeq DEF HI!Cleared
<1>5. min \in Int /\ max \in Int /\ min = limits[Len(limits)] /\ max = Lowest
  BY <1>1 DEF HI!Cleared, HI!HistogramAssumption
<1>6. buckets \in [1 .. Len(limits) -> Nat]
  BY DEF HI!Cleared
<1> QED
  BY <1>3, <1>4, <1>5, <1>6 DEF HistogramInv

(* Clear (histogram.cc:51-61). *)
LEMMA ClearKeeps ==
  ASSUME HI!HistogramAssumption, HistogramInv, HI!Clear
  PROVE  HistogramInv'
<1>1. limits' = limits /\ limits \in LimitLists
  BY DEF HI!Clear, HistogramInv
<1>2. (limits \in LimitLists)' /\ (HI!Cleared(limits))'
  BY <1>1 DEF HI!Clear, HI!Cleared
<1>3. HI!HistogramAssumption /\ limits \in LimitLists /\ HI!Cleared(limits) => HistogramInv
  BY ClearedKeeps
<1> QED
  BY <1>2, ClearedKeeps, PTL

(* Add: one bucket grows by one, and all counts from it on                 *)
(* (histogram.cc:63-74).                                                   *)
LEMMA AddKeeps ==
  ASSUME HI!HistogramAssumption, HistogramInv, NEW v \in Samples, HI!Add(v)
  PROVE  HistogramInv'
<1>1. /\ limits' = limits /\ limits \in LimitLists /\ samples \in Seq(Samples)
      /\ samples' = Append(samples, v) /\ v < limits[Len(limits)] /\ v \in Int
      /\ num' = num + 1 /\ num = Len(samples) /\ min \in Int /\ max \in Int
      /\ buckets \in [1 .. Len(limits) -> Nat]
      /\ Lowest \in Int /\ Lowest < v
  BY DEF HI!Add, HistogramInv, HI!HistogramAssumption
<1>2. /\ Len(samples) \in Nat /\ Len(samples') = Len(samples) + 1
      /\ samples' \in Seq(Samples)
      /\ \A i \in 1 .. Len(samples) : samples'[i] = samples[i] /\ samples[i] \in Int
      /\ samples'[Len(samples) + 1] = v
  BY <1>1, AppendProperties, SamplesAre
<1>3. /\ Len(limits) \in Nat /\ Len(limits) >= 1
      /\ \A i \in 1 .. Len(limits) : limits[i] \in Int
      /\ \A i, j \in 1 .. Len(limits) : i < j => limits[i] < limits[j]
  BY <1>1, LimitsAre
<1>4. PICK u \in 1 .. Len(limits) :
        u = HI!UpperBound(v) /\ limits[u] > v /\ \A i \in 1 .. u - 1 : limits[i] <= v
  BY <1>1, UpperBoundIs
<1>5. buckets' = [buckets EXCEPT ![u] = @ + 1]
  BY <1>4 DEF HI!Add
<1>a. \A i \in 1 .. u - 1 : i \in 1 .. Len(limits) /\ ~(v < limits[i])
  <2> SUFFICES ASSUME NEW i \in 1 .. u - 1 PROVE i \in 1 .. Len(limits) /\ ~(v < limits[i])
    OBVIOUS
  <2>1. i \in 1 .. Len(limits) /\ limits[i] <= v
    BY <1>3, <1>4
  <2> QED
    BY <1>1, <1>3, <2>1
<1>6. buckets' \in [1 .. Len(limits) -> Nat]
  <2>1. buckets[u] + 1 \in Nat
    BY <1>1
  <2> QED
    BY <1>1, <1>5, <2>1
<1>7. \A i \in 1 .. num' : samples'[i] < limits[Len(limits)]
  <2> SUFFICES ASSUME NEW i \in 1 .. num' PROVE samples'[i] < limits[Len(limits)]
    OBVIOUS
  <2>1. CASE i = Len(samples) + 1
    BY <1>1, <1>2, <2>1
  <2>2. CASE i # Len(samples) + 1
    <3>1. i \in 1 .. num
      BY <1>1, <1>2, <2>2
    <3> QED
      BY <1>1, <1>2, <3>1 DEF HistogramInv
  <2> QED
    BY <2>1, <2>2
<1>8. /\ min' \in Int /\ max' \in Int
      /\ \E i \in 1 .. num' : samples'[i] = min'
      /\ \E i \in 1 .. num' : samples'[i] = max'
      /\ \A i \in 1 .. num' : min' <= samples'[i] /\ samples'[i] <= max'
  <2>1. /\ min' = IF min > v THEN v ELSE min
        /\ max' = IF max < v THEN v ELSE max
    BY DEF HI!Add
  <2>2. min' \in Int /\ max' \in Int /\ min' <= v /\ v <= max' /\ min' <= min /\ max <= max'
    BY <1>1, <2>1
  <2>3. num + 1 \in 1 .. num' /\ samples'[num + 1] = v
    BY <1>1, <1>2
  <2>4. CASE num = 0
    <3>1. min' = v /\ max' = v
      <4>1. min = limits[Len(limits)] /\ max = Lowest
        BY <2>4 DEF HistogramInv
      <4> QED
        BY <1>1, <2>1, <4>1
    <3>2. \A i \in 1 .. num' : i = num + 1
      BY <1>1, <2>4
    <3> QED
      BY <1>1, <2>2, <2>3, <3>1, <3>2
  <2>5. CASE num # 0
    <3>1. /\ \E i \in 1 .. num : samples[i] = min
          /\ \E i \in 1 .. num : samples[i] = max
          /\ \A i \in 1 .. num : min <= samples[i] /\ samples[i] <= max
      BY <1>1, <1>2, <2>5 DEF HistogramInv
    <3>2. \A i \in 1 .. num : i \in 1 .. num' /\ samples'[i] = samples[i]
      BY <1>1, <1>2
    <3>3. \E i \in 1 .. num' : samples'[i] = min'
      BY <2>1, <2>3, <3>1, <3>2
    <3>4. \E i \in 1 .. num' : samples'[i] = max'
      BY <2>1, <2>3, <3>1, <3>2
    <3>5. ASSUME NEW i \in 1 .. num' PROVE min' <= samples'[i] /\ samples'[i] <= max'
      <4>1. CASE i = num + 1
        BY <2>2, <2>3, <4>1
      <4>2. CASE i # num + 1
        <5>1. i \in 1 .. num
          BY <1>1, <1>2, <4>2
        <5>2. samples[i] \in Int /\ min <= samples[i] /\ samples[i] <= max
              /\ samples'[i] = samples[i]
          BY <1>1, <1>2, <3>1, <3>2, <5>1
        <5> QED
          BY <1>1, <2>2, <5>2
      <4> QED
        BY <4>1, <4>2
    <3> QED
      BY <2>2, <3>3, <3>4, <3>5
  <2> QED
    BY <2>4, <2>5
<1>9. ASSUME NEW b \in 0 .. Len(limits)
      PROVE  /\ Count(b) \in Nat
             /\ Count(b)' = IF b # 0 /\ v < limits[b] THEN Count(b) + 1 ELSE Count(b)
  <2>1. Count(b) \in Nat
    BY CountIs
  <2>2. CASE b = 0
    BY <2>1, <2>2 DEF Count
  <2>3. CASE b # 0
    <3>1. b \in 1 .. Len(limits) /\ limits[b] \in Int
      BY <1>3, <2>3
    <3>2. Count(b)' = Cardinality({i \in 1 .. Len(samples') : samples'[i] < limits[b]})
      BY <1>1, <2>3 DEF Count, Rank, Below
    <3>3. Count(b) = Rank(limits[b])
      BY <2>3 DEF Count
    <3> QED
      BY <1>1, <2>1, <2>3, <3>1, <3>2, <3>3, RankOfAppended
  <2> QED
    BY <2>2, <2>3
<1>10. ASSUME NEW b \in 1 .. Len(limits)
       PROVE  buckets'[b] = Count(b)' - Count(b - 1)'
  <2>1. b \in 0 .. Len(limits) /\ b - 1 \in 0 .. Len(limits) /\ b # 0
    BY <1>3
  <2>2. buckets[b] = Count(b) - Count(b - 1) /\ buckets[b] \in Nat
    BY <1>1 DEF HistogramInv
  <2>3. /\ Count(b) \in Nat /\ Count(b - 1) \in Nat
        /\ Count(b)' = IF v < limits[b] THEN Count(b) + 1 ELSE Count(b)
        /\ Count(b - 1)' = IF b - 1 # 0 /\ v < limits[b - 1] THEN Count(b - 1) + 1
                           ELSE Count(b - 1)
    BY <1>9, <2>1
  <2>4. CASE b < u
    <3>1. b \in 1 .. u - 1 /\ (b - 1 # 0 => b - 1 \in 1 .. u - 1)
      BY <1>3, <2>4
    <3>2. ~(v < limits[b]) /\ (b - 1 # 0 => ~(v < limits[b - 1]))
      BY <1>a, <3>1
    <3>3. buckets'[b] = buckets[b]
      BY <1>1, <1>5, <2>4
    <3> QED
      BY <2>2, <2>3, <3>2, <3>3
  <2>5. CASE b = u
    <3>1. v < limits[b]
      BY <1>1, <1>3, <1>4, <2>5
    <3>2. b - 1 # 0 => ~(v < limits[b - 1])
      <4>1. b - 1 # 0 => b - 1 \in 1 .. u - 1 /\ b - 1 \in 1 .. Len(limits)
        BY <1>3, <2>5
      <4> QED
        BY <1>a, <4>1
    <3>3. buckets'[b] = buckets[b] + 1
      BY <1>1, <1>5, <2>5
    <3> QED
      BY <2>2, <2>3, <3>1, <3>2, <3>3, SMTT(30)
  <2>6. CASE u < b
    <3>1. v < limits[b] /\ b - 1 # 0 /\ v < limits[b - 1]
      <4>1. b - 1 \in 1 .. Len(limits) /\ u <= b - 1 /\ limits[u] \in Int
            /\ limits[b] \in Int /\ limits[b - 1] \in Int
        BY <1>3, <2>6
      <4>2. limits[u] < limits[b]
        BY <1>3, <2>6
      <4>3. limits[u] <= limits[b - 1]
        BY <1>3, <4>1, SMTT(30)
      <4> QED
        BY <1>1, <1>3, <1>4, <4>1, <4>2, <4>3, SMTT(30)
    <3>2. buckets'[b] = buckets[b]
      BY <1>1, <1>5, <2>6
    <3> QED
      BY <2>2, <2>3, <3>1, <3>2
  <2> QED
    BY <1>3, <2>4, <2>5, <2>6
<1>11. num' > 0 /\ num' = Len(samples')
  BY <1>1, <1>2
<1>12. ASSUME NEW b \in 1 .. Len(limits) PROVE buckets'[b] = (Count(b) - Count(b - 1))'
  BY <1>10
<1>13. /\ limits' \in LimitLists
       /\ buckets' \in [1 .. Len(limits') -> Nat]
       /\ samples' \in Seq(Samples) /\ num' = Len(samples')
       /\ \A i \in 1 .. num' : samples'[i] < limits'[Len(limits')]
       /\ min' \in Int /\ max' \in Int
  BY <1>1, <1>2, <1>6, <1>7, <1>8, <1>11
<1>14. /\ num' = 0 => min' = limits'[Len(limits')] /\ max' = Lowest
       /\ num' > 0 => /\ \E i \in 1 .. num' : samples'[i] = min'
                      /\ \E i \in 1 .. num' : samples'[i] = max'
                      /\ \A i \in 1 .. num' : min' <= samples'[i] /\ samples'[i] <= max'
  <2>1. num' # 0
    BY <1>11
  <2> QED
    BY <1>8, <2>1
<1>15. \A b \in 1 .. Len(limits') : buckets'[b] = (Count(b) - Count(b - 1))'
  BY <1>1, <1>12
<1> QED
  BY <1>13, <1>14, <1>15 DEF HistogramInv

(* Every operation of Histogram keeps the invariant. *)
LEMMA HistogramSteps ==
  ASSUME HI!HistogramAssumption, HistogramInv, HI!Next
  PROVE  HistogramInv'
BY ClearKeeps, AddKeeps DEF HI!Next

(* It is about the histogram's variables only. *)
LEMMA HistogramStands ==
  ASSUME HistogramInv, UNCHANGED histogramVars
  PROVE  HistogramInv'
BY DEF HistogramInv, Count, Rank, Below, histogramVars

(* A new histogram is in order (histogram.cc:35-49). *)
LEMMA HistogramInitial ==
  ASSUME HI!HistogramAssumption, HI!Init
  PROVE  HistogramInv
BY ClearedKeeps DEF HI!Init

-----------------------------------------------------------------------------
(* A function on 1..n is a sequence of length n. *)
LEMMA Listed ==
  ASSUME NEW S, NEW n \in Nat, NEW f \in [1 .. n -> S]
  PROVE  f \in Seq(S) /\ Len(f) = n
<1>1. f \in Seq(S)
  BY SeqDef
<1>2. DOMAIN f = 1 .. n /\ DOMAIN f = 1 .. Len(f) /\ Len(f) \in Nat
  BY <1>1, LenProperties
<1> QED
  BY <1>1, <1>2

(* The values g of a loop of n turns: b before the first turn, step[i] of  *)
(* the value before turn i behind it.                                      *)
Iterates(g, n, b, step) == g[0] = b /\ \A i \in 1 .. n : g[i] = step[i][g[i - 1]]

(* Every loop has its values. *)
LEMMA Iteration ==
  ASSUME NEW n \in Nat, NEW V, NEW b \in V, NEW step \in [1 .. n -> [V -> V]]
  PROVE  \E g \in [0 .. n -> V] : Iterates(g, n, b, step)
<1> DEFINE Good(k, g) == g[0] = b /\ \A i \in 1 .. k : g[i] = step[i][g[i - 1]]
           S == {k \in Nat : k <= n => \E g \in [0 .. k -> V] : Good(k, g)}
<1>1. 0 \in S
  <2> DEFINE g == [i \in 0 .. 0 |-> b]
  <2>1. g \in [0 .. 0 -> V] /\ Good(0, g)
    OBVIOUS
  <2> HIDE DEF g, Good
  <2> QED
    BY <2>1
<1>2. ASSUME NEW k \in Nat, k \in S PROVE k + 1 \in S
  <2> SUFFICES ASSUME k + 1 <= n PROVE \E h \in [0 .. k + 1 -> V] : Good(k + 1, h)
    OBVIOUS
  <2>1. PICK g \in [0 .. k -> V] : Good(k, g)
    BY <1>2
  <2>2. g[k] \in V /\ step[k + 1] \in [V -> V]
    OBVIOUS
  <2> DEFINE v == step[k + 1][g[k]]
  <2>3. v \in V
    BY <2>2
  <2> HIDE DEF v
  <2> DEFINE h == [i \in 0 .. k + 1 |-> IF i = k + 1 THEN v ELSE g[i]]
  <2>4. h \in [0 .. k + 1 -> V]
    BY <2>3
  <2>5. h[0] = b
    BY <2>1
  <2>6. ASSUME NEW i \in 1 .. k + 1 PROVE h[i] = step[i][h[i - 1]]
    <3>1. CASE i = k + 1
      <4>1. h[i] = v /\ h[i - 1] = g[k]
        BY <3>1
      <4> HIDE DEF h
      <4> QED
        BY <3>1, <4>1 DEF v
    <3>2. CASE i # k + 1
      <4>1. i \in 1 .. k /\ i - 1 \in 0 .. k
        BY <3>2
      <4>2. h[i] = g[i] /\ h[i - 1] = g[i - 1]
        BY <3>2, <4>1
      <4> HIDE DEF h
      <4> QED
        BY <2>1, <4>1, <4>2
    <3> QED
      BY <3>1, <3>2
  <2>7. Good(k + 1, h)
    BY <2>5, <2>6
  <2> QED
    BY <2>4, <2>7
<1>3. \A k \in Nat : k \in S
  <2> HIDE DEF S
  <2> QED
    BY <1>1, <1>2, Induction
<1> QED
  BY <1>3 DEF Iterates

(* Doubling from 1 gets past every number of elements                      *)
(* (inlined_vector.h:396-424).                                             *)
LEMMA GrownEnough ==
  ASSUME IV!InlinedVectorAssumption, NEW n \in 0 .. MaxSize + 1
  PROVE  IV!GrownCapacity(n) \in Nat /\ IV!GrownCapacity(n) >= n
<1> DEFINE K == MaxSize + Fit
           Is(d) == d = [k \in 0 .. K |-> IF k = 0 THEN 1 ELSE 2 * d[k - 1]]
<1>1. K \in Nat /\ Fit \in Nat /\ MaxSize \in Nat /\ n \in Nat
  BY DEF IV!InlinedVectorAssumption
<1>2. \E d : Is(d)
  <2> DEFINE twice == [x \in Nat |-> 2 * x]
             step == [i \in 1 .. K |-> twice]
  <2>1. twice \in [Nat -> Nat] /\ step \in [1 .. K -> [Nat -> Nat]]
    OBVIOUS
  <2>2. PICK g \in [0 .. K -> Nat] : Iterates(g, K, 1, step)
    <3> HIDE DEF step, K
    <3> QED
      BY <1>1, <2>1, Iteration
  <2>3. g[0] = 1 /\ \A i \in 1 .. K : g[i] = 2 * g[i - 1]
    <3>1. \A i \in 1 .. K : i - 1 \in 0 .. K /\ g[i - 1] \in Nat
      BY <1>1
    <3>2. \A i \in 1 .. K : g[i] = step[i][g[i - 1]]
      BY <2>2 DEF Iterates
    <3> QED
      BY <2>2, <3>1, <3>2 DEF Iterates
  <2>4. \A k \in 0 .. K : g[k] = IF k = 0 THEN 1 ELSE 2 * g[k - 1]
    BY <1>1, <2>3
  <2>5. g = [k \in 0 .. K |-> g[k]]
    OBVIOUS
  <2>6. Is(g)
    BY <2>4, <2>5
  <2> QED
    BY <2>6
<1> DEFINE d == CHOOSE x : Is(x)
<1>3. Is(d)
  <2> HIDE DEF Is
  <2> QED
    BY <1>2
<1>4. d[0] = 1 /\ \A k \in 1 .. K : d[k] = 2 * d[k - 1]
  <2>1. d = [k \in 0 .. K |-> IF k = 0 THEN 1 ELSE 2 * d[k - 1]]
    BY <1>3
  <2> HIDE DEF d, Is
  <2>2. 0 \in 0 .. K /\ \A k \in 1 .. K : k \in 0 .. K /\ k # 0
    BY <1>1
  <2> QED
    BY <2>1, <2>2
<1> DEFINE Enough(c) == c >= Fit /\ c >= n
           Tight(c) == Enough(c) /\ (c = 1 \/ c \div 2 < Fit \/ c \div 2 < n)
           Sizes == {d[k] : k \in 0 .. K}
<1>5. IV!GrownCapacity(n) = CHOOSE c \in Sizes : Tight(c)
  BY DEF IV!GrownCapacity
<1> HIDE DEF d, Is
<1>6. \A k \in 0 .. K : d[k] \in Nat /\ d[k] >= k + 1
  <2> DEFINE S == {k \in Nat : k <= K => d[k] \in Nat /\ d[k] >= k + 1}
  <2>1. 0 \in S
    BY <1>4
  <2>2. ASSUME NEW k \in Nat, k \in S PROVE k + 1 \in S
    <3> SUFFICES ASSUME k + 1 <= K PROVE d[k + 1] \in Nat /\ d[k + 1] >= k + 1 + 1
      OBVIOUS
    <3>1. k + 1 \in 1 .. K /\ (k + 1) - 1 = k /\ k <= K
      BY <1>1
    <3>2. d[k + 1] = 2 * d[k] /\ d[k] \in Nat /\ d[k] >= k + 1
      BY <1>4, <2>2, <3>1
    <3> QED
      BY <3>2
  <2>3. \A k \in Nat : k \in S
    <3> HIDE DEF S
    <3> QED
      BY <2>1, <2>2, Induction
  <2> QED
    BY <1>1, <2>3
<1> DEFINE Past == {k \in 0 .. K : Enough(d[k])}
<1>7. K \in Past
  <2>1. K \in 0 .. K /\ K >= Fit /\ K + 1 >= n
    BY <1>1 DEF IV!InlinedVectorAssumption
  <2>2. d[K] \in Nat /\ d[K] >= K + 1
    BY <1>6, <2>1
  <2> QED
    BY <1>1, <2>1, <2>2
<1>8. PICK k \in Past : \A l \in Past : k <= l
  <2>1. Past \subseteq Nat
    BY <1>1
  <2> HIDE DEF Past
  <2> QED
    BY <1>7, <2>1, LeastElement
<1>9. Tight(d[k])
  <2>1. k \in 0 .. K /\ Enough(d[k]) /\ d[k] \in Nat
    BY <1>6, <1>8
  <2>2. CASE k = 0
    BY <1>4, <2>1, <2>2
  <2>3. CASE k # 0
    <3>1. k \in 1 .. K /\ k - 1 \in 0 .. K /\ ~(k <= k - 1)
      BY <1>1, <2>1, <2>3
    <3>2. ~Enough(d[k - 1])
      BY <1>8, <3>1
    <3>3. d[k] = 2 * d[k - 1] /\ d[k - 1] \in Nat
      BY <1>4, <1>6, <3>1
    <3>4. \A x \in Nat : (2 * x) \div 2 = x
      BY SMT
    <3>5. d[k] \div 2 = d[k - 1]
      BY <3>3, <3>4
    <3> QED
      BY <1>1, <2>1, <3>2, <3>3, <3>5
  <2> QED
    BY <2>1, <2>2, <2>3
<1>10. IV!GrownCapacity(n) \in Sizes /\ Tight(IV!GrownCapacity(n))
  <2>1. \E c \in Sizes : Tight(c)
    <3>1. d[k] \in Sizes
      BY <1>8
    <3> QED
      BY <1>9, <3>1
  <2> HIDE DEF Tight, Sizes
  <2> QED
    BY <1>5, <2>1
<1> QED
  BY <1>6, <1>10

(* A vector with these fields, and one with another field. *)
Vec(h, k, c) == [heap |-> h, size |-> k, cells |-> c]
WithCells(v, c) == [v EXCEPT !.cells = c]
WithSize(v, k) == [v EXCEPT !.size = k]

(* What these are. *)
LEMMA Fields ==
  ASSUME NEW h, NEW k, NEW c
  PROVE  /\ Vec(h, k, c).heap = h /\ Vec(h, k, c).size = k /\ Vec(h, k, c).cells = c
         /\ IV!Capacity(Vec(h, k, c)) = Len(c)
         /\ \A d : WithCells(Vec(h, k, c), d) = Vec(h, k, d)
         /\ \A n : WithSize(Vec(h, k, c), n) = Vec(h, n, c)
BY DEF Vec, WithCells, WithSize, IV!Capacity

(* Storage of m cells that begins with s. *)
Cells(m, s) == [i \in 1 .. m |-> IF i <= Len(s) THEN s[i] ELSE Raw]

(* v holds s, in some storage, and nothing else. *)
Holds(v, s) ==
  /\ s \in Seq(Values)
  /\ \E h \in BOOLEAN, m \in Nat : m >= Len(s) /\ v = Vec(h, Len(s), Cells(m, s))

(* Such storage, cell by cell. *)
LEMMA CellsAre ==
  ASSUME NEW m \in Nat, NEW s \in Seq(Values)
  PROVE  /\ Len(s) \in Nat /\ \A i \in 1 .. Len(s) : s[i] \in Values
         /\ Len(Cells(m, s)) = m /\ Cells(m, s) \in Seq(Values \cup {Raw})
         /\ \A i \in 1 .. m : Cells(m, s)[i] = IF i <= Len(s) THEN s[i] ELSE Raw
<1>1. Len(s) \in Nat /\ \A i \in 1 .. Len(s) : s[i] \in Values
  BY LenProperties
<1>2. /\ Cells(m, s) \in [1 .. m -> Values \cup {Raw}]
      /\ \A i \in 1 .. m : Cells(m, s)[i] = IF i <= Len(s) THEN s[i] ELSE Raw
  BY <1>1 DEF Cells
<1> QED
  BY <1>1, <1>2, Listed

(* What a vector that holds s is, field by field. *)
LEMMA HoldsIs ==
  ASSUME NEW v, NEW s, Holds(v, s)
  PROVE  \E h \in BOOLEAN, m \in Nat :
           /\ s \in Seq(Values) /\ m >= Len(s) /\ v = Vec(h, Len(s), Cells(m, s))
           /\ v.heap = h /\ v.size = Len(s) /\ v.cells = Cells(m, s) /\ Len(v.cells) = m
           /\ IV!Capacity(v) = m /\ Len(s) \in Nat
           /\ \A i \in 1 .. Len(s) : s[i] \in Values
           /\ \A i \in 1 .. m : v.cells[i] = IF i <= Len(s) THEN s[i] ELSE Raw
<1>1. PICK h \in BOOLEAN, m \in Nat :
        m >= Len(s) /\ v = Vec(h, Len(s), Cells(m, s)) /\ s \in Seq(Values)
  BY DEF Holds
<1>2. v.heap = h /\ v.size = Len(s) /\ v.cells = Cells(m, s) /\ IV!Capacity(v) = Len(Cells(m, s))
  BY <1>1, Fields
<1>3. /\ Len(s) \in Nat /\ \A i \in 1 .. Len(s) : s[i] \in Values
      /\ Len(Cells(m, s)) = m
      /\ \A i \in 1 .. m : Cells(m, s)[i] = IF i <= Len(s) THEN s[i] ELSE Raw
  BY <1>1, CellsAre
<1>4. /\ s \in Seq(Values) /\ m >= Len(s) /\ v = Vec(h, Len(s), Cells(m, s))
      /\ v.heap = h /\ v.size = Len(s) /\ v.cells = Cells(m, s) /\ Len(v.cells) = m
      /\ IV!Capacity(v) = m /\ Len(s) \in Nat
      /\ \A i \in 1 .. Len(s) : s[i] \in Values
      /\ \A i \in 1 .. m : v.cells[i] = IF i <= Len(s) THEN s[i] ELSE Raw
  BY <1>1, <1>2, <1>3
<1> QED
  BY <1>4

(* What is put together cell by cell. *)
LEMMA HoldsBy ==
  ASSUME NEW h \in BOOLEAN, NEW m \in Nat, NEW s \in Seq(Values), NEW c, m >= Len(s),
         c = [i \in 1 .. m |-> c[i]],
         \A i \in 1 .. m : c[i] = IF i <= Len(s) THEN s[i] ELSE Raw
  PROVE  Holds(Vec(h, Len(s), c), s) /\ c = Cells(m, s)
<1>1. c = Cells(m, s)
  BY DEF Cells
<1> QED
  BY <1>1 DEF Holds

(* The first k elements of a sequence. *)
LEMMA CutOff ==
  ASSUME NEW s \in Seq(Values), NEW k \in 0 .. Len(s)
  PROVE  /\ SubSeq(s, 1, k) \in Seq(Values) /\ Len(SubSeq(s, 1, k)) = k
         /\ \A i \in 1 .. k : SubSeq(s, 1, k)[i] = s[i]
<1>1. Len(s) \in Nat /\ \A i \in 1 .. Len(s) : s[i] \in Values
  BY LenProperties
<1> QED
  BY <1>1, SubSeqProperties

(* Those from the k-th on. *)
LEMMA CutFrom ==
  ASSUME NEW s \in Seq(Values), NEW k \in 1 .. Len(s) + 1
  PROVE  /\ SubSeq(s, k, Len(s)) \in Seq(Values) /\ Len(SubSeq(s, k, Len(s))) = Len(s) + 1 - k
         /\ \A i \in 1 .. Len(s) + 1 - k : SubSeq(s, k, Len(s))[i] = s[k + i - 1]
<1>1. Len(s) \in Nat /\ \A i \in 1 .. Len(s) : s[i] \in Values
  BY LenProperties
<1> QED
  BY <1>1, SubSeqProperties

(* A vector that holds s has its elements. *)
LEMMA ElementsAre ==
  ASSUME NEW v, NEW s, Holds(v, s)
  PROVE  IV!Elements(v) = s
<1>1. PICK h \in BOOLEAN, m \in Nat :
        /\ s \in Seq(Values) /\ m >= Len(s) /\ v.size = Len(s)
        /\ v.cells = Cells(m, s) /\ Len(v.cells) = m /\ Len(s) \in Nat
        /\ \A i \in 1 .. m : v.cells[i] = IF i <= Len(s) THEN s[i] ELSE Raw
  BY HoldsIs
<1>2. v.cells \in Seq(Values \cup {Raw}) /\ s \in Seq(Values \cup {Raw})
  BY <1>1, CellsAre, SeqMonotonic
<1> DEFINE t == SubSeq(v.cells, 1, Len(s))
<1>3. t \in Seq(Values \cup {Raw}) /\ Len(t) = Len(s) /\ \A i \in 1 .. Len(s) : t[i] = v.cells[i]
  <2>1. Len(s) \in 0 .. Len(v.cells)
    BY <1>1
  <2>2. \A i \in 1 .. Len(s) : v.cells[i] \in Values \cup {Raw}
    <3>1. \A i \in 1 .. Len(v.cells) : v.cells[i] \in Values \cup {Raw}
      BY <1>2, ElementOfSeq
    <3> QED
      BY <1>1, <3>1
  <2> QED
    BY <1>1, <1>2, <2>1, <2>2, SubSeqProperties
<1>4. \A i \in 1 .. Len(s) : v.cells[i] = s[i]
  BY <1>1
<1> HIDE DEF t
<1>5. t = s
  BY <1>2, <1>3, <1>4, SeqEqual
<1> QED
  BY <1>1, <1>5 DEF t, IV!Elements

(* Moving to larger storage loses no element (inlined_vector.h:396-424). *)
LEMMA GrowHolds ==
  ASSUME IV!InlinedVectorAssumption, NEW v, NEW s, Holds(v, s), NEW n \in 0 .. MaxSize + 1,
         n >= Len(s)
  PROVE  Holds(IV!Grow(v, n), s) /\ IV!Capacity(IV!Grow(v, n)) >= n
<1>1. PICK m \in Nat :
        /\ s \in Seq(Values) /\ m >= Len(s) /\ v.size = Len(s) /\ Len(s) \in Nat
        /\ \A i \in 1 .. m : v.cells[i] = IF i <= Len(s) THEN s[i] ELSE Raw
  BY HoldsIs
<1>2. PICK g \in Nat : g = IV!GrownCapacity(n) /\ g >= n
  BY GrownEnough
<1> DEFINE c == [i \in 1 .. g |-> IF i <= v.size THEN v.cells[i] ELSE Raw]
<1>3. IV!Grow(v, n) = Vec(TRUE, Len(s), c)
  BY <1>1, <1>2 DEF IV!Grow, Vec
<1>4. \A i \in 1 .. g : c[i] = IF i <= Len(s) THEN s[i] ELSE Raw
  BY <1>1
<1>5. c = [i \in 1 .. g |-> c[i]] /\ g >= Len(s)
  BY <1>1, <1>2
<1> HIDE DEF c
<1>6. Holds(Vec(TRUE, Len(s), c), s) /\ c = Cells(g, s)
  BY <1>1, <1>4, <1>5, HoldsBy
<1>7. Len(c) = g
  BY <1>1, <1>6, CellsAre
<1>8. IV!Capacity(IV!Grow(v, n)) = g
  <2>1. IV!Capacity(Vec(TRUE, Len(s), c)) = Len(c)
    BY DEF IV!Capacity, Vec
  <2> QED
    BY <1>3, <1>7, <2>1
<1> QED
  BY <1>2, <1>3, <1>6, <1>8

(* reserve (inlined_vector.h:225-230). *)
LEMMA ReserveHolds ==
  ASSUME IV!InlinedVectorAssumption, NEW v, NEW s, Holds(v, s), NEW n \in 0 .. MaxSize + 1,
         n >= Len(s)
  PROVE  Holds(IV!Reserve(v, n), s) /\ IV!Capacity(IV!Reserve(v, n)) >= n
<1>1. PICK m \in Nat : IV!Capacity(v) = m
  BY HoldsIs
<1>2. CASE n > m
  BY <1>1, <1>2, GrowHolds DEF IV!Reserve
<1>3. CASE ~(n > m)
  BY <1>1, <1>3 DEF IV!Reserve
<1> QED
  BY <1>2, <1>3

(* One more element, where there is room for it. *)
LEMMA ConstructHolds ==
  ASSUME NEW v, NEW s, Holds(v, s), NEW x \in Values, Len(s) < IV!Capacity(v)
  PROVE  Holds(IV!Construct(v, x), Append(s, x))
<1>1. PICK h \in BOOLEAN, m \in Nat :
        /\ s \in Seq(Values) /\ m > Len(s) /\ v = Vec(h, Len(s), Cells(m, s))
        /\ v.size = Len(s) /\ v.cells = Cells(m, s) /\ Len(s) \in Nat
  BY HoldsIs
<1> DEFINE t == Append(s, x)
           c == [Cells(m, s) EXCEPT ![Len(s) + 1] = x]
<1>2. /\ t \in Seq(Values) /\ Len(t) = Len(s) + 1 /\ t[Len(s) + 1] = x
      /\ \A i \in 1 .. Len(s) : t[i] = s[i]
  BY <1>1, AppendProperties
<1>3. IV!Construct(v, x) = Vec(h, Len(s) + 1, c)
  <2>1. IV!Construct(v, x) =
          WithSize(WithCells(v, [v.cells EXCEPT ![v.size + 1] = x]), v.size + 1)
    BY Zenon DEF IV!Construct, WithSize, WithCells
  <2> QED
    BY <1>1, <2>1, Fields
<1>4. c = [i \in 1 .. m |-> c[i]]
  BY DEF Cells
<1>5. ASSUME NEW i \in 1 .. m PROVE c[i] = IF i <= Len(s) + 1 THEN t[i] ELSE Raw
  <2> HIDE DEF t
  <2>1. CASE i = Len(s) + 1
    BY <1>1, <1>2, <2>1 DEF Cells
  <2>2. CASE i # Len(s) + 1
    <3>1. c[i] = IF i <= Len(s) THEN s[i] ELSE Raw
      BY <1>1, <2>2 DEF Cells
    <3> QED
      BY <1>1, <1>2, <2>2, <3>1
  <2> QED
    BY <2>1, <2>2
<1> HIDE DEF c, t
<1>a. m >= Len(t)
  BY <1>1, <1>2
<1>6. Holds(Vec(h, Len(t), c), t)
  BY <1>1, <1>2, <1>4, <1>5, <1>a, HoldsBy, SMTT(30)
<1> QED
  BY <1>2, <1>3, <1>6 DEF t

(* emplace_back and push_back (inlined_vector.h:170-187). *)
LEMMA EmplaceBackHolds ==
  ASSUME IV!InlinedVectorAssumption, NEW v, NEW s, Holds(v, s), Len(s) <= MaxSize,
         NEW x \in Values
  PROVE  Holds(IV!EmplaceBack(v, x), Append(s, x))
<1>1. PICK m \in Nat : /\ v.size = Len(s) /\ Len(s) \in Nat /\ IV!Capacity(v) = m /\ m >= Len(s)
                       /\ MaxSize \in Nat
  BY HoldsIs DEF IV!InlinedVectorAssumption
<1>2. CASE v.size < IV!Capacity(v)
  BY <1>1, <1>2, ConstructHolds DEF IV!EmplaceBack
<1>3. CASE ~(v.size < IV!Capacity(v))
  <2>1. Len(s) + 1 \in 0 .. MaxSize + 1 /\ Len(s) + 1 >= Len(s)
    BY <1>1
  <2>2. Holds(IV!Grow(v, Len(s) + 1), s) /\ IV!Capacity(IV!Grow(v, Len(s) + 1)) >= Len(s) + 1
    BY <2>1, GrowHolds
  <2>3. Len(s) < IV!Capacity(IV!Grow(v, Len(s) + 1))
    <3>1. PICK g \in Nat : IV!Capacity(IV!Grow(v, Len(s) + 1)) = g
      BY <2>2, HoldsIs
    <3> QED
      BY <1>1, <2>2, <3>1
  <2> QED
    BY <1>1, <1>3, <2>2, <2>3, ConstructHolds DEF IV!EmplaceBack
<1> QED
  BY <1>2, <1>3

(* Room for one more. *)
RoomFor(v, n) == IF v.size = IV!Capacity(v) THEN IV!Grow(v, n) ELSE v

LEMMA RoomHolds ==
  ASSUME IV!InlinedVectorAssumption, NEW v, NEW s, Holds(v, s), Len(s) <= MaxSize
  PROVE  Holds(RoomFor(v, v.size + 1), s) /\ IV!Capacity(RoomFor(v, v.size + 1)) > Len(s)
<1>1. PICK m \in Nat : /\ v.size = Len(s) /\ Len(s) \in Nat /\ IV!Capacity(v) = m /\ m >= Len(s)
                       /\ MaxSize \in Nat
  BY HoldsIs DEF IV!InlinedVectorAssumption
<1>2. CASE v.size = IV!Capacity(v)
  <2>1. Len(s) + 1 \in 0 .. MaxSize + 1 /\ Len(s) + 1 >= Len(s)
    BY <1>1
  <2>2. Holds(IV!Grow(v, Len(s) + 1), s) /\ IV!Capacity(IV!Grow(v, Len(s) + 1)) >= Len(s) + 1
    BY <2>1, GrowHolds
  <2>3. IV!Capacity(IV!Grow(v, Len(s) + 1)) > Len(s)
    <3>1. PICK g \in Nat : IV!Capacity(IV!Grow(v, Len(s) + 1)) = g
      BY <2>2, HoldsIs
    <3> QED
      BY <1>1, <2>2, <3>1
  <2> QED
    BY <1>1, <1>2, <2>2, <2>3 DEF RoomFor
<1>3. CASE v.size # IV!Capacity(v)
  BY <1>1, <1>3 DEF RoomFor
<1> QED
  BY <1>2, <1>3

(* What lies between lo and hi is given up. *)
LEMMA DestroyIs ==
  ASSUME NEW h, NEW k, NEW c, NEW lo, NEW hi
  PROVE  IV!Destroy(Vec(h, k, c), lo, hi) =
           Vec(h, k, [i \in 1 .. Len(c) |-> IF lo < i /\ i <= hi THEN Raw ELSE c[i]])
BY Fields DEF IV!Destroy, WithCells

(* With what lies behind the first k elements given up, these are left. *)
LEMMA ShortenedHolds ==
  ASSUME NEW v, NEW s, Holds(v, s), NEW k \in 0 .. Len(s)
  PROVE  Holds(WithSize(IV!Destroy(v, k, v.size), k), SubSeq(s, 1, k))
<1>1. PICK h \in BOOLEAN, m \in Nat :
        /\ s \in Seq(Values) /\ m >= Len(s) /\ v = Vec(h, Len(s), Cells(m, s))
        /\ v.size = Len(s) /\ Len(s) \in Nat
  BY HoldsIs
<1>2. /\ Len(Cells(m, s)) = m
      /\ \A i \in 1 .. m : Cells(m, s)[i] = IF i <= Len(s) THEN s[i] ELSE Raw
  BY <1>1, CellsAre
<1>3. PICK t \in Seq(Values) : t = SubSeq(s, 1, k) /\ Len(t) = k /\ \A i \in 1 .. k : t[i] = s[i]
  BY <1>1, CutOff
<1> DEFINE c == [i \in 1 .. m |-> IF k < i /\ i <= Len(s) THEN Raw ELSE Cells(m, s)[i]]
<1>4. IV!Destroy(v, k, v.size) = Vec(h, Len(s), c)
  BY <1>1, <1>2, DestroyIs
<1>5. \A i \in 1 .. m : c[i] = IF i <= k THEN t[i] ELSE Raw
  BY <1>1, <1>2, <1>3
<1>6. c = [i \in 1 .. m |-> c[i]] /\ m >= k
  BY <1>1
<1> HIDE DEF c
<1>7. WithSize(IV!Destroy(v, k, v.size), k) = Vec(h, k, c)
  BY <1>4, Fields
<1>8. Holds(Vec(h, Len(t), c), t)
  BY <1>3, <1>5, <1>6, HoldsBy
<1> QED
  BY <1>3, <1>7, <1>8

(* pop_back (inlined_vector.h:189-194). *)
LEMMA PopBackHolds ==
  ASSUME NEW v, NEW s, Holds(v, s), Len(s) > 0
  PROVE  Holds(IV!PopBack(v), SubSeq(s, 1, Len(s) - 1))
<1>1. v.size = Len(s) /\ Len(s) \in Nat
  BY HoldsIs
<1>2. IV!PopBack(v) = WithSize(IV!Destroy(v, v.size - 1, v.size),
                               IV!Destroy(v, v.size - 1, v.size).size - 1)
  BY Zenon DEF IV!PopBack, WithSize
<1>3. IV!Destroy(v, v.size - 1, v.size).size = v.size
  <2>1. PICK h, c : v = Vec(h, v.size, c)
    BY <1>1, HoldsIs
  <2> DEFINE k == v.size
             d == [i \in 1 .. Len(c) |-> IF k - 1 < i /\ i <= k THEN Raw ELSE c[i]]
  <2> HIDE DEF k
  <2>2. IV!Destroy(Vec(h, k, c), k - 1, k) = Vec(h, k, d)
    BY DestroyIs
  <2> HIDE DEF d
  <2>3. Vec(h, k, d).size = k
    BY Fields
  <2> QED
    BY <2>1, <2>2, <2>3 DEF k
<1>4. Len(s) - 1 \in 0 .. Len(s)
  BY <1>1
<1> QED
  BY <1>1, <1>2, <1>3, <1>4, ShortenedHolds

(* A sequence with an element put in front of place p. *)
LEMMA Spliced ==
  ASSUME NEW s \in Seq(Values), NEW p \in 1 .. Len(s) + 1, NEW x \in Values
  PROVE  \E t \in Seq(Values) :
           /\ t = SubSeq(s, 1, p - 1) \o <<x>> \o SubSeq(s, p, Len(s))
           /\ Len(t) = Len(s) + 1 /\ t[p] = x
           /\ \A i \in 1 .. p - 1 : t[i] = s[i]
           /\ \A i \in p + 1 .. Len(s) + 1 : t[i] = s[i - 1]
<1>1. Len(s) \in Nat
  BY LenProperties
<1> DEFINE a == SubSeq(s, 1, p - 1)
           b == <<x>>
           c == SubSeq(s, p, Len(s))
<1>2. a \in Seq(Values) /\ Len(a) = p - 1 /\ \A i \in 1 .. p - 1 : a[i] = s[i]
  BY <1>1, CutOff
<1>3. b \in Seq(Values) /\ Len(b) = 1 /\ b[1] = x
  OBVIOUS
<1>4. c \in Seq(Values) /\ Len(c) = Len(s) + 1 - p
      /\ \A i \in 1 .. Len(s) + 1 - p : c[i] = s[p + i - 1]
  BY <1>1, CutFrom
<1> HIDE DEF a, b, c
<1>5. /\ a \o b \in Seq(Values) /\ Len(a \o b) = p
      /\ \A i \in 1 .. p : (a \o b)[i] = IF i <= p - 1 THEN a[i] ELSE b[i - (p - 1)]
  <2>1. /\ a \o b \in Seq(Values) /\ Len(a \o b) = Len(a) + Len(b)
        /\ \A i \in 1 .. Len(a) + Len(b) :
             (a \o b)[i] = IF i <= Len(a) THEN a[i] ELSE b[i - Len(a)]
    BY <1>2, <1>3, ConcatProperties
  <2>2. Len(a) + Len(b) = p
    BY <1>1, <1>2, <1>3
  <2> QED
    BY <1>2, <2>1, <2>2
<1> DEFINE d == a \o b
<1> HIDE DEF d
<1>6. /\ d \o c \in Seq(Values) /\ Len(d \o c) = Len(s) + 1
      /\ \A i \in 1 .. Len(s) + 1 : (d \o c)[i] = IF i <= p THEN d[i] ELSE c[i - p]
  <2>1. d \in Seq(Values) /\ Len(d) = p
    BY <1>5 DEF d
  <2>2. /\ d \o c \in Seq(Values) /\ Len(d \o c) = Len(d) + Len(c)
        /\ \A i \in 1 .. Len(d) + Len(c) :
             (d \o c)[i] = IF i <= Len(d) THEN d[i] ELSE c[i - Len(d)]
    BY <1>4, <2>1, ConcatProperties
  <2>3. Len(d) + Len(c) = Len(s) + 1
    BY <1>1, <1>4, <2>1
  <2> QED
    BY <2>1, <2>2, <2>3
<1> DEFINE t == d \o c
<1> HIDE DEF t
<1>7. t[p] = x
  <2>1. p \in 1 .. Len(s) + 1 /\ p - (p - 1) = 1 /\ ~(p <= p - 1) /\ p \in 1 .. p /\ p <= p
    BY <1>1
  <2> QED
    BY <1>3, <1>5, <1>6, <2>1 DEF t, d
<1>8. ASSUME NEW i \in 1 .. p - 1 PROVE t[i] = s[i]
  <2>1. i \in 1 .. Len(s) + 1 /\ i \in 1 .. p /\ i <= p /\ i <= p - 1
    BY <1>1
  <2> QED
    BY <1>2, <1>5, <1>6, <2>1 DEF t, d
<1>9. ASSUME NEW i \in p + 1 .. Len(s) + 1 PROVE t[i] = s[i - 1]
  <2>1. i \in 1 .. Len(s) + 1 /\ ~(i <= p) /\ i - p \in 1 .. Len(s) + 1 - p
        /\ p + (i - p) - 1 = i - 1
    BY <1>1
  <2> QED
    BY <1>4, <1>6, <2>1 DEF t
<1> QED
  BY <1>6, <1>7, <1>8, <1>9 DEF t, d, a, b, c

(* An argument that is no element of the vector's own. *)
Given(x) == [own |-> FALSE, value |-> x]

(* It is read as what it is, at any time. *)
LEMMA GivenRead == \A x, a, b : IV!Read(Given(x), a, b) = x
BY DEF IV!Read, Given

(* A function changed at p. *)
Put(c, p, x) == [c EXCEPT ![p] = x]

(* insert moves the last element, then the others, and then assigns        *)
(* (inlined_vector.h:542-564).                                             *)
LEMMA InsertIs ==
  ASSUME NEW v, NEW p, NEW x, NEW g, NEW moved, NEW put,
         g = RoomFor(v, v.size + 1),
         moved = [i \in 1 .. Len(g.cells) |->
                    IF p < i /\ i <= v.size + 1 THEN g.cells[i - 1] ELSE g.cells[i]],
         put = WithSize(WithCells(g, moved), g.size + 1)
  PROVE  IV!Insert(v, p, Given(x)) = WithCells(put, Put(put.cells, p, x))
<1>1. IV!Insert(v, p, Given(x)) = WithCells(put, Put(put.cells, p, IV!Read(Given(x), v, put)))
  BY Zenon DEF IV!Insert, WithSize, WithCells, RoomFor, Put
<1> QED
  BY <1>1, GivenRead, Zenon

(* insert (inlined_vector.h:542-564). *)
LEMMA InsertHolds ==
  ASSUME IV!InlinedVectorAssumption, NEW v, NEW s, Holds(v, s), Len(s) <= MaxSize,
         NEW p \in 1 .. Len(s), NEW x \in Values
  PROVE  Holds(IV!Insert(v, p, Given(x)),
               SubSeq(s, 1, p - 1) \o <<x>> \o SubSeq(s, p, Len(s)))
<1> DEFINE g == RoomFor(v, v.size + 1)
           moved == [i \in 1 .. Len(g.cells) |->
                       IF p < i /\ i <= v.size + 1 THEN g.cells[i - 1] ELSE g.cells[i]]
           put == WithSize(WithCells(g, moved), g.size + 1)
<1> HIDE DEF put, moved, g
<1>1. IV!Insert(v, p, Given(x)) = WithCells(put, Put(put.cells, p, x))
  <2>1. g = RoomFor(v, v.size + 1)
    BY DEF g
  <2>2. moved = [i \in 1 .. Len(g.cells) |->
                   IF p < i /\ i <= v.size + 1 THEN g.cells[i - 1] ELSE g.cells[i]]
    BY DEF moved
  <2>3. put = WithSize(WithCells(g, moved), g.size + 1)
    BY DEF put
  <2> QED
    BY <2>1, <2>2, <2>3, InsertIs
<1>2. v.size = Len(s) /\ Len(s) \in Nat
  BY HoldsIs
<1>3. Holds(g, s) /\ IV!Capacity(g) > Len(s)
  BY RoomHolds DEF g
<1>4. PICK h \in BOOLEAN, m \in Nat :
        /\ s \in Seq(Values) /\ m > Len(s) /\ g = Vec(h, Len(s), Cells(m, s))
        /\ g.size = Len(s) /\ g.cells = Cells(m, s) /\ Len(g.cells) = m
        /\ \A i \in 1 .. m : g.cells[i] = IF i <= Len(s) THEN s[i] ELSE Raw
  BY <1>3, HoldsIs
<1>5. PICK t \in Seq(Values) :
        /\ t = SubSeq(s, 1, p - 1) \o <<x>> \o SubSeq(s, p, Len(s))
        /\ Len(t) = Len(s) + 1 /\ t[p] = x
        /\ \A i \in 1 .. p - 1 : t[i] = s[i]
        /\ \A i \in p + 1 .. Len(s) + 1 : t[i] = s[i - 1]
  <2>1. p \in 1 .. Len(s) + 1
    BY <1>2
  <2> QED
    BY <1>4, <2>1, Spliced
<1>6. put = Vec(h, Len(s) + 1, moved)
  BY <1>4, Fields DEF put
<1>7. put.cells = moved
  BY <1>6, Fields
<1> DEFINE c == Put(moved, p, x)
<1>8. IV!Insert(v, p, Given(x)) = Vec(h, Len(s) + 1, c)
  <2>1. WithCells(put, c) = Vec(h, Len(s) + 1, c)
    BY <1>6, Fields
  <2> QED
    BY <1>1, <1>7, <2>1, Zenon
<1>9. moved = [i \in 1 .. m |-> IF p < i /\ i <= Len(s) + 1 THEN g.cells[i - 1] ELSE g.cells[i]]
  BY <1>2, <1>4 DEF moved
<1>10. c = [i \in 1 .. m |-> c[i]]
  BY <1>9 DEF Put
<1>11. ASSUME NEW i \in 1 .. m PROVE c[i] = IF i <= Len(t) THEN t[i] ELSE Raw
  <2>1. CASE i = p
    BY <1>2, <1>5, <1>9, <2>1 DEF Put
  <2>2. CASE i # p
    <3>1. c[i] = IF p < i /\ i <= Len(s) + 1 THEN g.cells[i - 1] ELSE g.cells[i]
      BY <1>9, <2>2 DEF Put
    <3>2. CASE i < p
      <4>1. i \in 1 .. p - 1 /\ i <= Len(s) /\ i <= Len(t)
        BY <1>2, <1>5, <3>2
      <4>2. c[i] = g.cells[i]
        BY <1>2, <3>1, <3>2
      <4> QED
        BY <1>4, <1>5, <4>1, <4>2
    <3>3. CASE p < i /\ i <= Len(s) + 1
      <4>1. i - 1 \in 1 .. m /\ i - 1 <= Len(s)
        BY <1>2, <1>4, <3>3
      <4>2. i \in p + 1 .. Len(s) + 1 /\ i <= Len(t)
        BY <1>2, <1>5, <3>3
      <4>3. c[i] = g.cells[i - 1]
        BY <3>1, <3>3
      <4>4. c[i] = s[i - 1]
        BY <1>4, <4>1, <4>3
      <4> QED
        BY <1>5, <4>2, <4>4
    <3>4. CASE i > Len(s) + 1
      BY <1>2, <1>4, <1>5, <3>1, <3>4
    <3> QED
      BY <1>2, <2>2, <3>2, <3>3, <3>4
  <2> QED
    BY <2>1, <2>2
<1>12. m >= Len(t)
  BY <1>2, <1>4, <1>5
<1> HIDE DEF c
<1>13. Holds(Vec(h, Len(t), c), t)
  BY <1>10, <1>11, <1>12, HoldsBy
<1> QED
  BY <1>5, <1>8, <1>13

(* A sequence without the elements from p to q - 1. *)
LEMMA Closed ==
  ASSUME NEW s \in Seq(Values), NEW p \in 1 .. Len(s) + 1, NEW q \in p .. Len(s) + 1
  PROVE  \E t \in Seq(Values) :
           /\ t = SubSeq(s, 1, p - 1) \o SubSeq(s, q, Len(s))
           /\ Len(t) = Len(s) - (q - p)
           /\ \A i \in 1 .. p - 1 : t[i] = s[i]
           /\ \A i \in p .. Len(s) - (q - p) : t[i] = s[i + (q - p)]
<1>1. Len(s) \in Nat
  BY LenProperties
<1> DEFINE a == SubSeq(s, 1, p - 1)
           c == SubSeq(s, q, Len(s))
<1>2. a \in Seq(Values) /\ Len(a) = p - 1 /\ \A i \in 1 .. p - 1 : a[i] = s[i]
  BY <1>1, CutOff
<1>3. c \in Seq(Values) /\ Len(c) = Len(s) + 1 - q
      /\ \A i \in 1 .. Len(s) + 1 - q : c[i] = s[q + i - 1]
  BY <1>1, CutFrom
<1> HIDE DEF a, c
<1> DEFINE t == a \o c
<1>4. /\ t \in Seq(Values) /\ Len(t) = Len(s) - (q - p)
      /\ \A i \in 1 .. Len(s) - (q - p) : t[i] = IF i <= p - 1 THEN a[i] ELSE c[i - (p - 1)]
  <2>1. /\ t \in Seq(Values) /\ Len(t) = Len(a) + Len(c)
        /\ \A i \in 1 .. Len(a) + Len(c) : t[i] = IF i <= Len(a) THEN a[i] ELSE c[i - Len(a)]
    BY <1>2, <1>3, ConcatProperties
  <2>2. Len(a) + Len(c) = Len(s) - (q - p)
    BY <1>1, <1>2, <1>3
  <2> QED
    BY <1>2, <2>1, <2>2
<1> HIDE DEF t
<1>5. ASSUME NEW i \in 1 .. p - 1 PROVE t[i] = s[i]
  <2>1. i \in 1 .. Len(s) - (q - p) /\ i <= p - 1
    BY <1>1
  <2> QED
    BY <1>2, <1>4, <2>1
<1>6. ASSUME NEW i \in p .. Len(s) - (q - p) PROVE t[i] = s[i + (q - p)]
  <2>1. /\ i \in 1 .. Len(s) - (q - p) /\ ~(i <= p - 1)
        /\ i - (p - 1) \in 1 .. Len(s) + 1 - q /\ q + (i - (p - 1)) - 1 = i + (q - p)
    BY <1>1
  <2> QED
    BY <1>3, <1>4, <2>1
<1> QED
  BY <1>4, <1>5, <1>6 DEF t, a, c

(* erase moves what is behind the gap and destroys the rest                *)
(* (inlined_vector.h:566-579).                                             *)
LEMMA EraseIs ==
  ASSUME NEW v, NEW p, NEW q
  PROVE  \E moved, put :
           /\ moved = WithCells(v, [i \in 1 .. Len(v.cells) |->
                         IF p <= i /\ i + (q - p) <= v.size THEN v.cells[i + (q - p)]
                         ELSE v.cells[i]])
           /\ put = IV!Destroy(moved, v.size - (q - p), v.size)
           /\ IV!Erase(v, p, q) = WithSize(put, put.size - (q - p))
BY Zenon DEF IV!Erase, WithSize, WithCells

(* erase (inlined_vector.h:566-579). *)
LEMMA EraseHolds ==
  ASSUME NEW v, NEW s, Holds(v, s), NEW p \in 1 .. Len(s) + 1, NEW q \in p .. Len(s) + 1
  PROVE  Holds(IV!Erase(v, p, q), SubSeq(s, 1, p - 1) \o SubSeq(s, q, Len(s)))
<1> DEFINE gap == q - p
<1>1. PICK moved, put :
        /\ moved = WithCells(v, [i \in 1 .. Len(v.cells) |->
                      IF p <= i /\ i + gap <= v.size THEN v.cells[i + gap] ELSE v.cells[i]])
        /\ put = IV!Destroy(moved, v.size - gap, v.size)
        /\ IV!Erase(v, p, q) = WithSize(put, put.size - gap)
  BY EraseIs
<1>2. PICK h \in BOOLEAN, m \in Nat :
        /\ s \in Seq(Values) /\ m >= Len(s) /\ v = Vec(h, Len(s), Cells(m, s))
        /\ v.size = Len(s) /\ v.cells = Cells(m, s) /\ Len(v.cells) = m /\ Len(s) \in Nat
        /\ \A i \in 1 .. Len(s) : s[i] \in Values
        /\ \A i \in 1 .. m : v.cells[i] = IF i <= Len(s) THEN s[i] ELSE Raw
  BY HoldsIs
<1>3. PICK t \in Seq(Values) :
        /\ t = SubSeq(s, 1, p - 1) \o SubSeq(s, q, Len(s))
        /\ Len(t) = Len(s) - gap
        /\ \A i \in 1 .. p - 1 : t[i] = s[i]
        /\ \A i \in p .. Len(s) - gap : t[i] = s[i + gap]
  BY <1>2, Closed
<1>4. gap \in Nat /\ gap <= Len(s) + 1 - p
  BY <1>2
<1> HIDE DEF gap
<1> DEFINE d == [i \in 1 .. m |-> IF p <= i /\ i + gap <= Len(s) THEN v.cells[i + gap] ELSE v.cells[i]]
           c == [i \in 1 .. m |-> IF Len(s) - gap < i /\ i <= Len(s) THEN Raw ELSE d[i]]
<1>5. moved = Vec(h, Len(s), d)
  BY <1>1, <1>2, Fields
<1>6. Len(d) = m
  <2>1. \A i \in 1 .. m : v.cells[i] \in Values \cup {Raw}
    BY <1>2
  <2>2. d \in [1 .. m -> Values \cup {Raw}]
    <3>1. \A i \in 1 .. m : i + gap <= Len(s) => i + gap \in 1 .. m
      BY <1>2, <1>4
    <3> QED
      BY <2>1, <3>1
  <2> HIDE DEF d
  <2> QED
    BY <2>2, Listed
<1>7. put = Vec(h, Len(s), c)
  <2> HIDE DEF d
  <2> QED
    BY <1>1, <1>2, <1>5, <1>6, DestroyIs
<1>8. /\ \A i \in 1 .. m : d[i] = IF p <= i /\ i + gap <= Len(s) THEN v.cells[i + gap] ELSE v.cells[i]
      /\ \A i \in 1 .. m : c[i] = IF Len(s) - gap < i /\ i <= Len(s) THEN Raw ELSE d[i]
      /\ c = [i \in 1 .. m |-> c[i]]
  OBVIOUS
<1> HIDE DEF c, d
<1>b. Len(s) \in Nat /\ Len(t) = Len(s) - gap
  BY <1>2, <1>3
<1>c. p \in Nat /\ p >= 1 /\ gap <= Len(s)
  BY <1>4, <1>b
<1>a. m >= Len(t) /\ Len(t) \in Nat /\ Len(t) <= Len(s) /\ p - 1 <= Len(t)
  BY <1>2, <1>4, <1>b, <1>c
<1>9. ASSUME NEW i \in 1 .. m PROVE c[i] = IF i <= Len(t) THEN t[i] ELSE Raw
  <2>1. CASE i < p
    <3>1. i \in 1 .. p - 1 /\ i <= Len(t) /\ i <= Len(s)
      BY <1>2, <1>a, <1>b, <1>c, <2>1
    <3>2. t[i] = s[i]
      BY <1>3, <3>1
    <3>3. d[i] = s[i]
      BY <1>2, <1>8, <1>c, <2>1, <3>1
    <3> QED
      BY <1>4, <1>8, <1>a, <1>b, <2>1, <3>1, <3>2, <3>3
  <2>2. CASE p <= i /\ i <= Len(s) - gap
    <3>1. i \in p .. Len(s) - gap /\ i + gap \in 1 .. m /\ i + gap <= Len(s) /\ i <= Len(t)
      BY <1>2, <1>4, <1>b, <1>c, <2>2
    <3>2. d[i] = s[i + gap]
      BY <1>2, <1>8, <2>2, <3>1
    <3>3. t[i] = s[i + gap]
      BY <1>3, <3>1
    <3>4. ~(Len(s) - gap < i)
      BY <1>4, <1>b, <2>2
    <3>5. c[i] = d[i]
      BY <1>8, <3>4
    <3> QED
      BY <3>1, <3>2, <3>3, <3>5
  <2>3. CASE p <= i /\ ~(i <= Len(s) - gap)
    <3>1. ~(i <= Len(t)) /\ ~(i + gap <= Len(s)) /\ Len(s) - gap < i
      BY <1>4, <1>b, <2>3
    <3>2. c[i] = IF i <= Len(s) THEN Raw ELSE v.cells[i]
      BY <1>8, <3>1
    <3> QED
      BY <1>2, <3>1, <3>2
  <2> QED
    BY <1>4, <1>b, <1>c, <2>1, <2>2, <2>3
<1>10. Holds(Vec(h, Len(t), c), t)
  BY <1>8, <1>9, <1>a, HoldsBy
<1>11. put.size = Len(s)
  BY <1>7, Fields
<1>12. WithSize(put, Len(s) - gap) = Vec(h, Len(s) - gap, c)
  BY <1>7, Fields
<1> QED
  BY <1>1, <1>3, <1>10, <1>11, <1>12 DEF gap

(* More elements behind those there are. *)
LEMMA Longer ==
  ASSUME NEW h \in BOOLEAN, NEW m \in Nat, NEW s \in Seq(Values), NEW e \in Seq(Values),
         Len(s) + Len(e) <= m, NEW c, c = [i \in 1 .. m |-> c[i]],
         \A i \in 1 .. m : c[i] = IF Len(s) < i /\ i <= Len(s) + Len(e) THEN e[i - Len(s)]
                                  ELSE Cells(m, s)[i]
  PROVE  Holds(Vec(h, Len(s) + Len(e), c), s \o e)
<1>1. Len(s) \in Nat /\ Len(e) \in Nat
  BY LenProperties
<1>2. \A i \in 1 .. m : Cells(m, s)[i] = IF i <= Len(s) THEN s[i] ELSE Raw
  BY CellsAre
<1> DEFINE t == s \o e
<1>3. /\ t \in Seq(Values) /\ Len(t) = Len(s) + Len(e)
      /\ \A i \in 1 .. Len(s) + Len(e) : t[i] = IF i <= Len(s) THEN s[i] ELSE e[i - Len(s)]
  BY ConcatProperties
<1> HIDE DEF t
<1>4. ASSUME NEW i \in 1 .. m PROVE c[i] = IF i <= Len(t) THEN t[i] ELSE Raw
  <2>1. CASE i <= Len(s)
    <3>1. i \in 1 .. Len(s) + Len(e) /\ i <= Len(t) /\ ~(Len(s) < i)
      BY <1>1, <1>3, <2>1
    <3> QED
      BY <1>2, <1>3, <2>1, <3>1
  <2>2. CASE Len(s) < i /\ i <= Len(s) + Len(e)
    <3>1. i \in 1 .. Len(s) + Len(e) /\ i <= Len(t) /\ ~(i <= Len(s))
      BY <1>1, <1>3, <2>2
    <3> QED
      BY <1>3, <2>2, <3>1
  <2>3. CASE Len(s) + Len(e) < i
    <3>1. ~(i <= Len(t)) /\ ~(i <= Len(s)) /\ ~(i <= Len(s) + Len(e))
      BY <1>1, <1>3, <2>3
    <3> QED
      BY <1>2, <3>1
  <2> QED
    BY <1>1, <2>1, <2>2, <2>3
<1>5. m >= Len(t)
  BY <1>3
<1>6. Holds(Vec(h, Len(t), c), t)
  BY <1>3, <1>4, <1>5, HoldsBy
<1> QED
  BY <1>3, <1>6 DEF t

(* As many elements x. *)
LEMMA CopiesAre ==
  ASSUME NEW n \in Nat, NEW x \in Values
  PROVE  /\ IV!Vectors!Copies(n, x) \in Seq(Values) /\ Len(IV!Vectors!Copies(n, x)) = n
         /\ \A i \in 1 .. n : IV!Vectors!Copies(n, x)[i] = x
<1>1. IV!Vectors!Copies(n, x) \in [1 .. n -> Values]
  BY DEF IV!Vectors!Copies
<1>2. \A i \in 1 .. n : IV!Vectors!Copies(n, x)[i] = x
  BY DEF IV!Vectors!Copies
<1> QED
  BY <1>1, <1>2, Listed

(* resize cuts off or reserves and fills (inlined_vector.h:430-442). *)
LEMMA ResizeIs ==
  ASSUME NEW v, NEW n, NEW x
  PROVE  IV!Resize(v, n, Given(x)) =
           IF n <= v.size THEN WithSize(IV!Destroy(v, n, v.size), n)
           ELSE LET r == WithSize(IV!Reserve(v, n), n)
                IN  WithCells(r, [i \in 1 .. Len(r.cells) |->
                                    IF v.size < i /\ i <= n THEN x ELSE r.cells[i]])
<1>1. IV!Resize(v, n, Given(x)) =
        IF n <= v.size THEN WithSize(IV!Destroy(v, n, v.size), n)
        ELSE LET r == WithSize(IV!Reserve(v, n), n)
             IN  WithCells(r, [i \in 1 .. Len(r.cells) |->
                                 IF v.size < i /\ i <= n
                                 THEN IV!Read(Given(x), v, IV!Reserve(v, n)) ELSE r.cells[i]])
  BY Zenon DEF IV!Resize, WithSize, WithCells
<1>2. IV!Read(Given(x), v, IV!Reserve(v, n)) = x
  BY GivenRead
<1> QED
  BY <1>1, <1>2, Zenon

(* resize (inlined_vector.h:430-442). *)
LEMMA ResizeHolds ==
  ASSUME IV!InlinedVectorAssumption, NEW v, NEW s, Holds(v, s), Len(s) <= MaxSize,
         NEW n \in 0 .. MaxSize, NEW x \in Values
  PROVE  Holds(IV!Resize(v, n, Given(x)),
               IF n <= Len(s) THEN SubSeq(s, 1, n)
               ELSE s \o IV!Vectors!Copies(n - Len(s), x))
<1>1. v.size = Len(s) /\ Len(s) \in Nat /\ s \in Seq(Values)
  BY HoldsIs
<1>2. CASE n <= Len(s)
  <2>1. n \in 0 .. Len(s)
    BY <1>1, <1>2
  <2>2. IV!Resize(v, n, Given(x)) = WithSize(IV!Destroy(v, n, v.size), n)
    BY <1>1, <1>2, ResizeIs
  <2> QED
    BY <1>2, <2>1, <2>2, ShortenedHolds
<1>3. CASE ~(n <= Len(s))
  <2> DEFINE r == IV!Reserve(v, n)
             e == IV!Vectors!Copies(n - Len(s), x)
  <2>1. MaxSize \in Nat /\ n \in 0 .. MaxSize + 1 /\ n >= Len(s) /\ n - Len(s) \in Nat
    BY <1>1, <1>3 DEF IV!InlinedVectorAssumption
  <2>2. Holds(r, s) /\ IV!Capacity(r) >= n
    BY <2>1, ReserveHolds
  <2>3. /\ e \in Seq(Values) /\ Len(e) = n - Len(s) /\ \A i \in 1 .. n - Len(s) : e[i] = x
    BY <2>1, CopiesAre
  <2> HIDE DEF r, e
  <2>4. PICK h \in BOOLEAN, m \in Nat :
          r = Vec(h, Len(s), Cells(m, s)) /\ r.cells = Cells(m, s) /\ Len(r.cells) = m /\ m >= n
    BY <2>2, HoldsIs
  <2>5. WithSize(r, n) = Vec(h, n, Cells(m, s)) /\ WithSize(r, n).cells = Cells(m, s)
    BY <2>4, Fields
  <2> DEFINE c == [i \in 1 .. m |-> IF Len(s) < i /\ i <= n THEN x ELSE Cells(m, s)[i]]
  <2>6. IV!Resize(v, n, Given(x)) = WithCells(WithSize(r, n), c)
    <3> DEFINE w == WithSize(r, n)
    <3>1. IV!Resize(v, n, Given(x)) =
            WithCells(w, [i \in 1 .. Len(w.cells) |->
                            IF v.size < i /\ i <= n THEN x ELSE w.cells[i]])
      BY <1>1, <1>3, ResizeIs DEF r
    <3>2. w.cells = Cells(m, s) /\ Len(w.cells) = m
      BY <2>4, <2>5
    <3> HIDE DEF w
    <3> QED
      BY <1>1, <3>1, <3>2 DEF w
  <2>7. c = [i \in 1 .. m |-> c[i]]
    OBVIOUS
  <2>8. ASSUME NEW i \in 1 .. m
        PROVE  c[i] = IF Len(s) < i /\ i <= Len(s) + Len(e) THEN e[i - Len(s)] ELSE Cells(m, s)[i]
    <3>1. Len(s) + Len(e) = n
      BY <1>1, <2>1, <2>3
    <3>2. Len(s) < i /\ i <= n => i - Len(s) \in 1 .. n - Len(s)
      BY <1>1, <2>1
    <3> QED
      BY <2>3, <3>1, <3>2
  <2> HIDE DEF c
  <2>9. Len(s) + Len(e) = n /\ Len(s) + Len(e) <= m
    BY <1>1, <2>1, <2>3, <2>4
  <2>10. Holds(Vec(h, Len(s) + Len(e), c), s \o e)
    BY <1>1, <2>3, <2>7, <2>8, <2>9, Longer
  <2>11. WithCells(WithSize(r, n), c) = Vec(h, n, c)
    BY <2>5, Fields
  <2> QED
    BY <1>3, <2>6, <2>9, <2>10, <2>11 DEF e
<1> QED
  BY <1>2, <1>3

(* clear, and a new vector (inlined_vector.h:118-122). *)
LEMMA EmptyHolds ==
  ASSUME IV!InlinedVectorAssumption
  PROVE  Holds(IV!Empty, <<>>)
<1>1. Fit \in Nat
  BY DEF IV!InlinedVectorAssumption
<1>2. PICK s \in Seq(Values) : s = <<>> /\ Len(s) = 0
  BY EmptySeq
<1>3. PICK h \in BOOLEAN : h = FALSE
  OBVIOUS
<1> DEFINE c == [i \in 1 .. Fit |-> Raw]
<1>4. IV!Empty = Vec(h, Len(s), c)
  BY <1>2, <1>3 DEF IV!Empty, IV!Storage, Vec
<1>5. c = [i \in 1 .. Fit |-> c[i]] /\ \A i \in 1 .. Fit : c[i] = Raw /\ ~(i <= 0)
  OBVIOUS
<1> HIDE DEF c
<1>6. Holds(Vec(h, Len(s), c), s)
  <2>1. Fit >= Len(s) /\ \A i \in 1 .. Fit : c[i] = IF i <= Len(s) THEN s[i] ELSE Raw
    BY <1>1, <1>2, <1>5
  <2>2. c = [i \in 1 .. Fit |-> c[i]]
    BY <1>5
  <2> QED
    BY <1>1, <2>1, <2>2, HoldsBy
<1> QED
  BY <1>2, <1>4, <1>6

(* The constructors append all elements at once                            *)
(* (inlined_vector.h:642-650).                                             *)
LEMMA AppendRangeHolds ==
  ASSUME IV!InlinedVectorAssumption, NEW v, NEW s, Holds(v, s), NEW e \in Seq(Values),
         Len(s) + Len(e) <= MaxSize + 1
  PROVE  Holds(IV!AppendRange(v, e), s \o e)
<1>1. v.size = Len(s) /\ Len(s) \in Nat /\ s \in Seq(Values) /\ Len(e) \in Nat /\ MaxSize \in Nat
  BY HoldsIs, LenProperties DEF IV!InlinedVectorAssumption
<1> DEFINE n == Len(s) + Len(e)
           r == IV!Reserve(v, n)
<1>2. n \in 0 .. MaxSize + 1 /\ n >= Len(s)
  BY <1>1
<1>3. Holds(r, s) /\ IV!Capacity(r) >= n
  BY <1>2, ReserveHolds
<1> HIDE DEF r
<1>4. PICK h \in BOOLEAN, m \in Nat :
        /\ r = Vec(h, Len(s), Cells(m, s)) /\ r.cells = Cells(m, s) /\ r.size = Len(s)
        /\ Len(r.cells) = m /\ m >= n
  BY <1>3, HoldsIs
<1>5. WithSize(r, n) = Vec(h, n, Cells(m, s)) /\ WithSize(r, n).cells = Cells(m, s)
  BY <1>4, Fields
<1> DEFINE c == [i \in 1 .. m |-> IF Len(s) < i /\ i <= n THEN e[i - Len(s)] ELSE Cells(m, s)[i]]
<1>6. IV!AppendRange(v, e) = WithCells(WithSize(r, n), c)
  <2> DEFINE w == WithSize(r, n)
  <2>1. IV!AppendRange(v, e) =
          LET rr == IV!Reserve(v, v.size + Len(e))
              w_1 == WithSize(rr, rr.size + Len(e))
          IN  WithCells(w_1, [i \in 1 .. Len(w_1.cells) |->
                          IF v.size < i /\ i <= v.size + Len(e) THEN e[i - v.size] ELSE w_1.cells[i]])
    BY Zenon DEF IV!AppendRange, WithSize, WithCells
  <2>2. IV!AppendRange(v, e) =
          WithCells(w, [i \in 1 .. Len(w.cells) |->
                          IF v.size < i /\ i <= n THEN e[i - v.size] ELSE w.cells[i]])
    BY <1>1, <1>4, <2>1 DEF r
  <2>3. w.cells = Cells(m, s) /\ Len(w.cells) = m
    BY <1>4, <1>5
  <2> HIDE DEF w
  <2> QED
    BY <1>1, <2>2, <2>3 DEF w
<1>7. c = [i \in 1 .. m |-> c[i]]
  OBVIOUS
<1>8. \A i \in 1 .. m :
        c[i] = IF Len(s) < i /\ i <= Len(s) + Len(e) THEN e[i - Len(s)] ELSE Cells(m, s)[i]
  OBVIOUS
<1> HIDE DEF c
<1>9. Holds(Vec(h, n, c), s \o e)
  BY <1>1, <1>4, <1>7, <1>8, Longer
<1>10. WithCells(WithSize(r, n), c) = Vec(h, n, c)
  BY <1>5, Fields
<1> QED
  BY <1>6, <1>9, <1>10

(* The smaller of two numbers. *)
LEMMA LeastOfTwo ==
  ASSUME NEW a \in Nat, NEW b \in Nat, a <= b
  PROVE  IV!Min({a, b}) = a
BY DEF IV!Min

(* The first elements of u overwritten with those of t: the loop of        *)
(* operator= (inlined_vector.h:75-89).                                     *)
Over(u, t) ==
  WithCells(u, [i \in 1 .. Len(u.cells) |->
                  IF i <= IV!Min({u.size, Len(t)}) THEN t[i] ELSE u.cells[i]])

(* It leaves as many elements as there were. *)
LEMMA OverIs ==
  ASSUME NEW h \in BOOLEAN, NEW m \in Nat, NEW s \in Seq(Values), NEW t \in Seq(Values),
         Len(s) <= m, Len(s) <= Len(t)
  PROVE  Over(Vec(h, Len(s), Cells(m, s)), t) = Vec(h, Len(s), Cells(m, SubSeq(t, 1, Len(s))))
<1>1. Len(s) \in Nat /\ Len(t) \in Nat /\ Len(s) \in 0 .. Len(t)
  BY LenProperties
<1> DEFINE u == Vec(h, Len(s), Cells(m, s))
           c == [i \in 1 .. m |-> IF i <= Len(s) THEN t[i] ELSE Cells(m, s)[i]]
           r == SubSeq(t, 1, Len(s))
<1>2. /\ u.size = Len(s) /\ u.cells = Cells(m, s) /\ Len(Cells(m, s)) = m
      /\ \A d : WithCells(u, d) = Vec(h, Len(s), d)
      /\ \A i \in 1 .. m : Cells(m, s)[i] = IF i <= Len(s) THEN s[i] ELSE Raw
  BY Fields, CellsAre
<1>3. IV!Min({u.size, Len(t)}) = Len(s)
  BY <1>1, <1>2, LeastOfTwo
<1> HIDE DEF u
<1>4. Over(u, t) = Vec(h, Len(s), c)
  BY <1>2, <1>3 DEF Over
<1>5. r \in Seq(Values) /\ Len(r) = Len(s) /\ \A i \in 1 .. Len(s) : r[i] = t[i]
  BY <1>1, CutOff
<1> HIDE DEF r
<1>6. ASSUME NEW i \in 1 .. m PROVE c[i] = IF i <= Len(r) THEN r[i] ELSE Raw
  <2>1. CASE i <= Len(s)
    BY <1>1, <1>5, <2>1
  <2>2. CASE ~(i <= Len(s))
    BY <1>2, <1>5, <2>2
  <2> QED
    BY <2>1, <2>2
<1>7. c = [i \in 1 .. m |-> c[i]]
  OBVIOUS
<1> HIDE DEF c
<1>8. c = Cells(m, r)
  BY <1>5, <1>6, <1>7, HoldsBy
<1> QED
  BY <1>4, <1>8 DEF u, r

(* One more element in the storage there is. *)
LEMMA ConstructIs ==
  ASSUME NEW h \in BOOLEAN, NEW m \in Nat, NEW s \in Seq(Values), NEW x \in Values, Len(s) < m
  PROVE  IV!EmplaceBack(Vec(h, Len(s), Cells(m, s)), x) =
           Vec(h, Len(s) + 1, Cells(m, Append(s, x)))
<1> DEFINE v == Vec(h, Len(s), Cells(m, s))
           t == Append(s, x)
           c == [Cells(m, s) EXCEPT ![Len(s) + 1] = x]
<1>1. /\ v.size = Len(s) /\ v.cells = Cells(m, s) /\ IV!Capacity(v) = m /\ Len(s) \in Nat
      /\ \A i \in 1 .. m : Cells(m, s)[i] = IF i <= Len(s) THEN s[i] ELSE Raw
  <2>1. /\ Len(s) \in Nat /\ Len(Cells(m, s)) = m
        /\ \A i \in 1 .. m : Cells(m, s)[i] = IF i <= Len(s) THEN s[i] ELSE Raw
    BY CellsAre
  <2>2. v.size = Len(s) /\ v.cells = Cells(m, s) /\ IV!Capacity(v) = Len(Cells(m, s))
    BY Fields
  <2> HIDE DEF v
  <2> QED
    BY <2>1, <2>2
<1>2. /\ t \in Seq(Values) /\ Len(t) = Len(s) + 1 /\ t[Len(s) + 1] = x
      /\ \A i \in 1 .. Len(s) : t[i] = s[i]
  BY AppendProperties
<1>3. IV!Construct(v, x) = Vec(h, Len(s) + 1, c)
  <2>1. IV!Construct(v, x) =
          WithSize(WithCells(v, [v.cells EXCEPT ![v.size + 1] = x]), v.size + 1)
    BY Zenon DEF IV!Construct, WithSize, WithCells
  <2> QED
    BY <1>1, <2>1, Fields
<1>4. c = [i \in 1 .. m |-> c[i]]
  BY DEF Cells
<1>5. ASSUME NEW i \in 1 .. m PROVE c[i] = IF i <= Len(t) THEN t[i] ELSE Raw
  <2> HIDE DEF t, v
  <2>1. CASE i = Len(s) + 1
    BY <1>1, <1>2, <2>1 DEF Cells
  <2>2. CASE i # Len(s) + 1
    <3>1. c[i] = IF i <= Len(s) THEN s[i] ELSE Raw
      BY <1>1, <2>2 DEF Cells
    <3> QED
      BY <1>1, <1>2, <2>2, <3>1
  <2> QED
    BY <2>1, <2>2
<1>6. IV!EmplaceBack(v, x) = IV!Construct(v, x)
  BY <1>1 DEF IV!EmplaceBack
<1> HIDE DEF c, t
<1>7. c = Cells(m, t)
  <2>1. m >= Len(t)
    BY <1>1, <1>2
  <2> QED
    BY <1>2, <1>4, <1>5, <2>1, HoldsBy
<1> QED
  BY <1>3, <1>6, <1>7 DEF t

(* The first n elements are the first n - 1 and the n-th. *)
LEMMA CutAppended ==
  ASSUME NEW t \in Seq(Values), NEW n \in 1 .. Len(t)
  PROVE  /\ Append(SubSeq(t, 1, n - 1), t[n]) = SubSeq(t, 1, n)
         /\ SubSeq(t, 1, n - 1) \in Seq(Values) /\ Len(SubSeq(t, 1, n - 1)) = n - 1
         /\ t[n] \in Values
<1>1. Len(t) \in Nat /\ t[n] \in Values
  BY LenProperties
<1>2. n - 1 \in 0 .. Len(t) /\ n \in 0 .. Len(t)
  BY <1>1
<1> DEFINE a == SubSeq(t, 1, n - 1)
           b == SubSeq(t, 1, n)
<1>3. a \in Seq(Values) /\ Len(a) = n - 1 /\ \A i \in 1 .. n - 1 : a[i] = t[i]
  BY <1>2, CutOff
<1>4. b \in Seq(Values) /\ Len(b) = n /\ \A i \in 1 .. n : b[i] = t[i]
  BY <1>2, CutOff
<1> HIDE DEF a, b
<1>5. /\ Append(a, t[n]) \in Seq(Values) /\ Len(Append(a, t[n])) = n
      /\ \A i \in 1 .. n - 1 : Append(a, t[n])[i] = a[i]
      /\ Append(a, t[n])[n] = t[n]
  <2>1. /\ Append(a, t[n]) \in Seq(Values) /\ Len(Append(a, t[n])) = Len(a) + 1
        /\ \A i \in 1 .. Len(a) : Append(a, t[n])[i] = a[i]
        /\ Append(a, t[n])[Len(a) + 1] = t[n]
    BY <1>1, <1>3, AppendProperties
  <2>2. Len(a) + 1 = n
    BY <1>3
  <2> QED
    BY <1>3, <2>1, <2>2
<1> DEFINE d == Append(a, t[n])
<1> HIDE DEF d
<1>6. ASSUME NEW i \in 1 .. Len(d) PROVE d[i] = b[i]
  <2>1. CASE i = n
    BY <1>4, <1>5, <2>1 DEF d
  <2>2. CASE i # n
    <3>1. i \in 1 .. n - 1 /\ i \in 1 .. n
      BY <1>5, <2>2 DEF d
    <3> QED
      BY <1>3, <1>4, <1>5, <3>1 DEF d
  <2> QED
    BY <2>1, <2>2
<1>7. d = b
  <2>1. d \in Seq(Values) /\ Len(d) = Len(b)
    BY <1>4, <1>5 DEF d
  <2> QED
    BY <1>4, <1>6, <2>1, SeqEqual
<1> QED
  BY <1>1, <1>3, <1>7 DEF a, b, d

(* The whole sequence. *)
LEMMA Whole ==
  ASSUME NEW t \in Seq(Values)
  PROVE  SubSeq(t, 1, Len(t)) = t
<1>1. Len(t) \in Nat /\ Len(t) \in 0 .. Len(t)
  BY LenProperties
<1> DEFINE a == SubSeq(t, 1, Len(t))
<1>2. a \in Seq(Values) /\ Len(a) = Len(t) /\ \A i \in 1 .. Len(t) : a[i] = t[i]
  BY <1>1, CutOff
<1> HIDE DEF a
<1>3. a = t
  BY <1>2, SeqEqual
<1> QED
  BY <1>3 DEF a

(* f holds what operator= makes of v, element by element, to hold t        *)
(* (inlined_vector.h:80-83).                                               *)
Pushes(f, v, t) ==
  f = [n \in v.size .. Len(t) |-> IF n = v.size THEN Over(IV!Reserve(v, Len(t)), t)
                                  ELSE IV!EmplaceBack(f[n - 1], t[n])]

(* The two ways of operator= (inlined_vector.h:75-89). *)
LEMMA AssignIs ==
  ASSUME NEW v, NEW w
  PROVE  IV!Assign(v, w) =
           IF v.size < Len(IV!Elements(w))
           THEN (CHOOSE f : Pushes(f, v, IV!Elements(w)))[Len(IV!Elements(w))]
           ELSE Over(IV!Erase(v, Len(IV!Elements(w)) + 1, v.size + 1), IV!Elements(w))
BY DEF IV!Assign, Pushes, Over, WithCells

(* From storage that is large enough, the elements pushed are those of t.  *)
LEMMA Pushed ==
  ASSUME NEW v, NEW s, NEW t \in Seq(Values), NEW h \in BOOLEAN, NEW m \in Nat,
         s \in Seq(Values), v.size = Len(s), Len(s) < Len(t), m >= Len(t),
         IV!Reserve(v, Len(t)) = Vec(h, Len(s), Cells(m, s))
  PROVE  (CHOOSE f : Pushes(f, v, t))[Len(t)] = Vec(h, Len(t), Cells(m, t))
<1>1. Len(s) \in Nat /\ Len(t) \in Nat
  BY LenProperties
<1> DEFINE At(n) == Vec(h, n, Cells(m, SubSeq(t, 1, n)))
           k == Len(s)
<1>2. Over(IV!Reserve(v, Len(t)), t) = At(k)
  <2>1. Len(s) <= m /\ Len(s) <= Len(t)
    BY <1>1
  <2> QED
    BY <2>1, OverIs
<1>3. ASSUME NEW n \in k + 1 .. Len(t)
      PROVE  IV!EmplaceBack(At(n - 1), t[n]) = At(n)
  <2>1. n \in 1 .. Len(t) /\ n - 1 < m /\ (n - 1) + 1 = n
    BY <1>1
  <2> DEFINE a == SubSeq(t, 1, n - 1)
  <2>2. /\ Append(a, t[n]) = SubSeq(t, 1, n) /\ a \in Seq(Values) /\ Len(a) = n - 1
        /\ t[n] \in Values
    BY <2>1, CutAppended
  <2> HIDE DEF a
  <2>3. IV!EmplaceBack(Vec(h, Len(a), Cells(m, a)), t[n]) =
          Vec(h, Len(a) + 1, Cells(m, Append(a, t[n])))
    BY <2>1, <2>2, ConstructIs
  <2> QED
    BY <2>1, <2>2, <2>3 DEF a
<1> HIDE DEF At
<1> DEFINE g == [n \in k .. Len(t) |-> At(n)]
<1>4. Pushes(g, v, t)
  <2>1. ASSUME NEW n \in k .. Len(t)
        PROVE  At(n) = IF n = k THEN Over(IV!Reserve(v, Len(t)), t)
                       ELSE IV!EmplaceBack(g[n - 1], t[n])
    <3>1. CASE n = k
      BY <1>2, <3>1
    <3>2. CASE n # k
      <4>1. n \in k + 1 .. Len(t) /\ n - 1 \in k .. Len(t)
        BY <1>1, <3>2
      <4>2. g[n - 1] = At(n - 1)
        BY <4>1
      <4> HIDE DEF g, k
      <4> QED
        BY <1>3, <3>2, <4>1, <4>2
    <3> QED
      BY <3>1, <3>2
  <2> QED
    BY <2>1 DEF Pushes
<1> DEFINE f == CHOOSE x : Pushes(x, v, t)
<1>5. Pushes(f, v, t)
  <2> HIDE DEF g
  <2> QED
    BY <1>4
<1> HIDE DEF f, g
<1>6. \A n \in k .. Len(t) : f[n] = IF n = k THEN At(k) ELSE IV!EmplaceBack(f[n - 1], t[n])
  <2>1. f = [n \in k .. Len(t) |-> IF n = k THEN At(k) ELSE IV!EmplaceBack(f[n - 1], t[n])]
    BY <1>2, <1>5 DEF Pushes
  <2> HIDE DEF k
  <2> QED
    BY <2>1
<1> DEFINE S == {j \in Nat : k + j <= Len(t) => f[k + j] = At(k + j)}
<1>7. 0 \in S
  <2>1. k \in k .. Len(t) /\ k + 0 = k
    BY <1>1
  <2> HIDE DEF k
  <2> QED
    BY <1>6, <2>1
<1>8. ASSUME NEW j \in Nat, j \in S PROVE j + 1 \in S
  <2> SUFFICES ASSUME k + (j + 1) <= Len(t) PROVE f[k + (j + 1)] = At(k + (j + 1))
    OBVIOUS
  <2>1. /\ k + (j + 1) \in k + 1 .. Len(t) /\ (k + (j + 1)) - 1 = k + j /\ k + j <= Len(t)
        /\ k + (j + 1) \in k .. Len(t) /\ k + (j + 1) # k
    BY <1>1
  <2>2. f[k + j] = At(k + j)
    BY <1>8, <2>1
  <2> DEFINE n == k + (j + 1)
  <2>3. n \in k + 1 .. Len(t) /\ n - 1 = k + j /\ n \in k .. Len(t) /\ n # k
    BY <2>1
  <2> HIDE DEF n, k
  <2>4. f[n] = IV!EmplaceBack(f[n - 1], t[n])
    BY <1>6, <2>3
  <2>5. f[n] = At(n)
    BY <1>3, <2>2, <2>3, <2>4
  <2> QED
    BY <2>5 DEF n
<1>9. \A j \in Nat : j \in S
  <2> HIDE DEF S
  <2> QED
    BY <1>7, <1>8, Induction
<1>10. PICK j \in Nat : k + j = Len(t)
  <2>1. Len(t) - k \in Nat /\ k + (Len(t) - k) = Len(t)
    BY <1>1
  <2> QED
    BY <2>1
<1>11. f[Len(t)] = At(Len(t))
  <2>1. f[k + j] = At(k + j)
    <3>1. k + j <= Len(t)
      BY <1>1, <1>10
    <3> QED
      BY <1>9, <3>1
  <2> QED
    BY <1>10, <2>1
<1> QED
  BY <1>11, Whole DEF At, f

(* operator= (inlined_vector.h:75-89). *)
LEMMA AssignHolds ==
  ASSUME IV!InlinedVectorAssumption, NEW v, NEW s, Holds(v, s), NEW w, NEW t, Holds(w, t),
         Len(t) <= MaxSize + 1
  PROVE  Holds(IV!Assign(v, w), t)
<1>1. /\ v.size = Len(s) /\ Len(s) \in Nat /\ s \in Seq(Values)
      /\ Len(t) \in Nat /\ t \in Seq(Values) /\ MaxSize \in Nat
  BY HoldsIs DEF IV!InlinedVectorAssumption
<1> DEFINE e == IV!Elements(w)
<1>2. e = t
  BY ElementsAre
<1>3. IV!Assign(v, w) = IF v.size < Len(e) THEN (CHOOSE f : Pushes(f, v, e))[Len(e)]
                        ELSE Over(IV!Erase(v, Len(e) + 1, v.size + 1), e)
  BY AssignIs
<1> HIDE DEF e
<1>4. CASE Len(s) < Len(e)
  <2>1. Len(e) \in 0 .. MaxSize + 1 /\ Len(e) >= Len(s) /\ e \in Seq(Values)
    BY <1>1, <1>2, <1>4
  <2>2. Holds(IV!Reserve(v, Len(e)), s) /\ IV!Capacity(IV!Reserve(v, Len(e))) >= Len(e)
    BY <2>1, ReserveHolds
  <2>3. PICK h \in BOOLEAN, m \in Nat :
          IV!Reserve(v, Len(e)) = Vec(h, Len(s), Cells(m, s)) /\ m >= Len(e)
    BY <2>2, HoldsIs
  <2>4. IV!Assign(v, w) = Vec(h, Len(e), Cells(m, e))
    <3>1. (CHOOSE f : Pushes(f, v, e))[Len(e)] = Vec(h, Len(e), Cells(m, e))
      BY <1>1, <1>4, <2>1, <2>3, Pushed
    <3> DEFINE last == (CHOOSE f : Pushes(f, v, e))[Len(e)]
    <3>2. IV!Assign(v, w) = IF v.size < Len(e) THEN last
                            ELSE Over(IV!Erase(v, Len(e) + 1, v.size + 1), e)
      BY <1>3
    <3>3. last = Vec(h, Len(e), Cells(m, e))
      BY <3>1
    <3> HIDE DEF last
    <3> QED
      BY <1>1, <1>4, <3>2, <3>3
  <2> QED
    BY <1>2, <2>1, <2>3, <2>4 DEF Holds
<1>5. CASE ~(Len(s) < Len(e))
  <2>1. Len(e) \in 0 .. Len(s) /\ Len(e) + 1 \in 1 .. Len(s) + 1 /\ Len(s) + 1 \in Len(e) + 1 .. Len(s) + 1
        /\ Len(s) + 1 \in 1 .. Len(s) + 1 /\ (Len(e) + 1) - 1 = Len(e) /\ e \in Seq(Values)
        /\ Len(e) \in Nat
    BY <1>1, <1>2, <1>5
  <2> DEFINE a == SubSeq(s, 1, (Len(e) + 1) - 1)
             b == SubSeq(s, Len(s) + 1, Len(s))
             z == a \o b
  <2>2. a \in Seq(Values) /\ Len(a) = Len(e)
    BY <1>1, <2>1, CutOff
  <2>3. b \in Seq(Values) /\ Len(b) = 0
    BY <1>1, <2>1, CutFrom
  <2>4. Holds(IV!Erase(v, Len(e) + 1, Len(s) + 1), z)
    BY <2>1, EraseHolds
  <2> HIDE DEF a, b
  <2>5. z \in Seq(Values) /\ Len(z) = Len(e)
    <3>1. z \in Seq(Values) /\ Len(z) = Len(a) + Len(b)
      BY <2>2, <2>3, ConcatProperties
    <3> QED
      BY <2>1, <2>2, <2>3, <3>1
  <2> HIDE DEF z
  <2>6. PICK h \in BOOLEAN, m \in Nat :
          IV!Erase(v, Len(e) + 1, Len(s) + 1) = Vec(h, Len(z), Cells(m, z)) /\ m >= Len(z)
    BY <2>4, HoldsIs
  <2>7. Over(IV!Erase(v, Len(e) + 1, Len(s) + 1), e) = Vec(h, Len(z), Cells(m, SubSeq(e, 1, Len(z))))
    BY <2>1, <2>5, <2>6, OverIs
  <2>8. Over(IV!Erase(v, Len(e) + 1, Len(s) + 1), e) = Vec(h, Len(e), Cells(m, e))
    BY <2>1, <2>5, <2>7, Whole
  <2>9. IV!Assign(v, w) = Over(IV!Erase(v, Len(e) + 1, Len(s) + 1), e)
    <3> DEFINE last == (CHOOSE f : Pushes(f, v, e))[Len(e)]
    <3>1. IV!Assign(v, w) = IF v.size < Len(e) THEN last
                            ELSE Over(IV!Erase(v, Len(e) + 1, v.size + 1), e)
      BY <1>3
    <3> HIDE DEF last
    <3> QED
      BY <1>1, <1>5, <3>1
  <2> QED
    BY <1>2, <2>1, <2>5, <2>6, <2>8, <2>9 DEF Holds
<1> QED
  BY <1>1, <1>2, <1>4, <1>5

(* InlinedVector(k, x), which assign moves from                            *)
(* (inlined_vector.h:526-534).                                             *)
Fresh(k, x) ==
  [IV!Reserve(IV!Empty, k) EXCEPT !.size = k,
    !.cells = [i \in 1 .. Len(@) |-> IF i <= k THEN x ELSE Raw]]

LEMMA FreshHolds ==
  ASSUME IV!InlinedVectorAssumption, NEW k \in 0 .. MaxSize, NEW x \in Values
  PROVE  Holds(Fresh(k, x), IV!Vectors!Copies(k, x))
<1>1. MaxSize \in Nat /\ k \in Nat /\ k \in 0 .. MaxSize + 1 /\ k >= 0
  BY DEF IV!InlinedVectorAssumption
<1> DEFINE r == IV!Reserve(IV!Empty, k)
           e == IV!Vectors!Copies(k, x)
<1>2. PICK s \in Seq(Values) : s = <<>> /\ Len(s) = 0
  BY EmptySeq
<1>3. Holds(r, s) /\ IV!Capacity(r) >= k
  <2>1. Holds(IV!Empty, s) /\ k >= Len(s)
    BY <1>1, <1>2, EmptyHolds
  <2> QED
    BY <1>1, <2>1, ReserveHolds
<1>4. e \in Seq(Values) /\ Len(e) = k /\ \A i \in 1 .. k : e[i] = x
  BY <1>1, CopiesAre
<1> HIDE DEF e
<1>5. PICK h \in BOOLEAN, m \in Nat : r = Vec(h, Len(s), Cells(m, s)) /\ Len(r.cells) = m /\ m >= k
  BY <1>3, HoldsIs
<1> DEFINE c == [i \in 1 .. m |-> IF i <= k THEN x ELSE Raw]
<1>6. Fresh(k, x) = Vec(h, k, c)
  <2>1. Fresh(k, x) =
          LET w == WithSize(r, k)
          IN  WithCells(w, [i \in 1 .. Len(w.cells) |-> IF i <= k THEN x ELSE Raw])
    BY Zenon DEF Fresh, WithSize, WithCells
  <2> HIDE DEF r
  <2>2. WithSize(r, k) = Vec(h, k, Cells(m, s)) /\ WithSize(r, k).cells = Cells(m, s)
    BY <1>5, Fields
  <2>3. Len(Cells(m, s)) = m
    BY CellsAre
  <2>4. WithCells(Vec(h, k, Cells(m, s)), c) = Vec(h, k, c)
    BY Fields
  <2> DEFINE w == WithSize(r, k)
  <2>5. Fresh(k, x) = WithCells(w, [i \in 1 .. Len(w.cells) |-> IF i <= k THEN x ELSE Raw])
    BY <2>1
  <2>6. w = Vec(h, k, Cells(m, s)) /\ Len(w.cells) = m
    BY <2>2, <2>3
  <2> HIDE DEF w
  <2>7. Fresh(k, x) = WithCells(w, c)
    BY <2>5, <2>6
  <2> QED
    BY <2>4, <2>6, <2>7
<1>7. c = [i \in 1 .. m |-> c[i]] /\ \A i \in 1 .. m : c[i] = IF i <= Len(e) THEN e[i] ELSE Raw
  BY <1>1, <1>4
<1> HIDE DEF c
<1>8. m >= Len(e)
  BY <1>4, <1>5
<1>9. Holds(Vec(h, Len(e), c), e)
  BY <1>4, <1>7, <1>8, HoldsBy
<1> QED
  BY <1>4, <1>6, <1>9 DEF e

(* swap of elements: those both have are exchanged, the others moved       *)
(* (inlined_vector.h:604-631).                                             *)
LEMMA SwapElementsIs ==
  ASSUME NEW a, NEW b
  PROVE  /\ IV!SwapElements(a, b).a =
              WithSize(IV!Destroy(WithCells(a, [i \in 1 .. Len(a.cells) |->
                                     IF i <= b.size THEN IV!Reserve(b, a.size).cells[i]
                                     ELSE a.cells[i]]),
                                  b.size, a.size),
                       b.size)
         /\ IV!SwapElements(a, b).b =
              WithSize(WithCells(IV!Reserve(b, a.size),
                         [i \in 1 .. Len(IV!Reserve(b, a.size).cells) |->
                            IF i <= a.size THEN a.cells[i]
                            ELSE IV!Reserve(b, a.size).cells[i]]),
                       a.size)
<1> DEFINE l == WithSize(IV!Destroy(WithCells(a, [i \in 1 .. Len(a.cells) |->
                                     IF i <= b.size THEN IV!Reserve(b, a.size).cells[i]
                                     ELSE a.cells[i]]),
                                  b.size, a.size),
                       b.size)
           r == WithSize(WithCells(IV!Reserve(b, a.size),
                         [i \in 1 .. Len(IV!Reserve(b, a.size).cells) |->
                            IF i <= a.size THEN a.cells[i]
                            ELSE IV!Reserve(b, a.size).cells[i]]),
                       a.size)
<1>1. IV!SwapElements(a, b) = [a |-> l, b |-> r]
  BY Zenon DEF IV!SwapElements, WithSize, WithCells
<1> HIDE DEF l, r
<1>2. IV!SwapElements(a, b).a = l /\ IV!SwapElements(a, b).b = r
  BY <1>1
<1> QED
  BY <1>2 DEF l, r

(* The larger one is a. *)
LEMMA SwapElementsHolds ==
  ASSUME IV!InlinedVectorAssumption, NEW a, NEW s, Holds(a, s), NEW b, NEW t, Holds(b, t),
         Len(s) <= MaxSize, Len(t) <= Len(s)
  PROVE  Holds(IV!SwapElements(a, b).a, t) /\ Holds(IV!SwapElements(a, b).b, s)
<1> DEFINE g == IV!Reserve(b, a.size)
<1>1. PICK h \in BOOLEAN, m \in Nat :
        /\ s \in Seq(Values) /\ m >= Len(s) /\ a = Vec(h, Len(s), Cells(m, s))
        /\ a.size = Len(s) /\ Len(s) \in Nat /\ Len(a.cells) = m
        /\ \A i \in 1 .. m : a.cells[i] = IF i <= Len(s) THEN s[i] ELSE Raw
  BY HoldsIs
<1>2. b.size = Len(t) /\ Len(t) \in Nat /\ t \in Seq(Values)
  BY HoldsIs
<1>3. Holds(g, t) /\ IV!Capacity(g) >= Len(s)
  <2>1. Len(s) \in 0 .. MaxSize + 1 /\ Len(s) >= Len(t)
    BY <1>1, <1>2 DEF IV!InlinedVectorAssumption
  <2> QED
    BY <1>1, <2>1, ReserveHolds
<1>4. PICK k \in BOOLEAN, n \in Nat :
        /\ n >= Len(s) /\ g = Vec(k, Len(t), Cells(n, t)) /\ Len(g.cells) = n
        /\ \A i \in 1 .. n : g.cells[i] = IF i <= Len(t) THEN t[i] ELSE Raw
  BY <1>3, HoldsIs
<1> DEFINE c == [i \in 1 .. m |-> IF i <= Len(t) THEN g.cells[i] ELSE a.cells[i]]
           d == [i \in 1 .. m |-> IF Len(t) < i /\ i <= Len(s) THEN Raw ELSE c[i]]
           e == [i \in 1 .. n |-> IF i <= Len(s) THEN a.cells[i] ELSE g.cells[i]]
<1>5. /\ IV!SwapElements(a, b).a =
           WithSize(IV!Destroy(WithCells(a, c), Len(t), Len(s)), Len(t))
      /\ IV!SwapElements(a, b).b = WithSize(WithCells(g, e), Len(s))
  <2> DEFINE cc == [i \in 1 .. Len(a.cells) |-> IF i <= b.size THEN g.cells[i] ELSE a.cells[i]]
             ee == [i \in 1 .. Len(g.cells) |-> IF i <= a.size THEN a.cells[i] ELSE g.cells[i]]
  <2>1. /\ IV!SwapElements(a, b).a =
             WithSize(IV!Destroy(WithCells(a, cc), b.size, a.size), b.size)
        /\ IV!SwapElements(a, b).b = WithSize(WithCells(g, ee), a.size)
    BY SwapElementsIs
  <2> HIDE DEF g
  <2>2. cc = c
    BY <1>1, <1>2
  <2>3. ee = e
    BY <1>1, <1>4
  <2> HIDE DEF c, e, cc, ee
  <2> QED
    BY <1>1, <1>2, <2>1, <2>2, <2>3
<1>6. ASSUME NEW i \in 1 .. m PROVE d[i] = IF i <= Len(t) THEN t[i] ELSE Raw
  <2>1. CASE i <= Len(t)
    <3>1. i \in 1 .. n /\ ~(Len(t) < i)
      BY <1>1, <1>2, <1>4, <2>1
    <3> QED
      BY <1>4, <2>1, <3>1
  <2>2. CASE ~(i <= Len(t))
    BY <1>1, <1>2, <2>2
  <2> QED
    BY <2>1, <2>2
<1>7. ASSUME NEW i \in 1 .. n PROVE e[i] = IF i <= Len(s) THEN s[i] ELSE Raw
  <2>1. CASE i <= Len(s)
    <3>1. i \in 1 .. m
      BY <1>1, <2>1
    <3> QED
      BY <1>1, <2>1, <3>1
  <2>2. CASE ~(i <= Len(s))
    <3>1. ~(i <= Len(t))
      BY <1>1, <1>2, <2>2
    <3> QED
      BY <1>4, <2>2, <3>1
  <2> QED
    BY <2>1, <2>2
<1>8. d = [i \in 1 .. m |-> d[i]] /\ e = [i \in 1 .. n |-> e[i]] /\ m >= Len(t)
  BY <1>1, <1>2
<1>9. IV!SwapElements(a, b).a = Vec(h, Len(t), d)
  <2>1. WithCells(a, c) = Vec(h, Len(s), c)
    <3> HIDE DEF c
    <3> QED
      BY <1>1, Fields
  <2>2. IV!Destroy(Vec(h, Len(s), c), Len(t), Len(s)) = Vec(h, Len(s), d)
    <3>1. Len(c) = m
      BY <1>1, Listed
    <3>2. IV!Destroy(Vec(h, Len(s), c), Len(t), Len(s)) =
            Vec(h, Len(s), [i \in 1 .. Len(c) |-> IF Len(t) < i /\ i <= Len(s) THEN Raw ELSE c[i]])
      <4> HIDE DEF c
      <4> QED
        BY DestroyIs
    <3> QED
      BY <3>1, <3>2
  <2>3. WithSize(Vec(h, Len(s), d), Len(t)) = Vec(h, Len(t), d)
    <3> HIDE DEF d
    <3> QED
      BY Fields
  <2> HIDE DEF c, d
  <2> QED
    BY <1>5, <2>1, <2>2, <2>3
<1>10. IV!SwapElements(a, b).b = Vec(k, Len(s), e)
  <2> HIDE DEF e, g
  <2>1. WithSize(WithCells(g, e), Len(s)) = Vec(k, Len(s), e)
    BY <1>4, Fields
  <2> QED
    BY <1>5, <2>1
<1> HIDE DEF c, d, e, g
<1>11. Holds(Vec(h, Len(t), d), t)
  BY <1>2, <1>6, <1>8, HoldsBy
<1>12. Holds(Vec(k, Len(s), e), s)
  BY <1>1, <1>4, <1>7, <1>8, HoldsBy
<1> QED
  BY <1>9, <1>10, <1>11, <1>12

(* swap, of pointers or of elements (inlined_vector.h:581-631). *)
LEMMA SwappedHolds ==
  ASSUME IV!InlinedVectorAssumption, NEW v, NEW s, Holds(v, s), NEW w, NEW t, Holds(w, t),
         Len(s) <= MaxSize, Len(t) <= MaxSize
  PROVE  Holds(IV!Swapped(v, w).a, t) /\ Holds(IV!Swapped(v, w).b, s)
<1>1. v.size = Len(s) /\ w.size = Len(t) /\ Len(s) \in Nat /\ Len(t) \in Nat
  BY HoldsIs
<1>2. CASE v.heap /\ w.heap
  BY <1>2 DEF IV!Swapped
<1>3. CASE ~(v.heap /\ w.heap) /\ v.size < w.size
  <2>1. Holds(IV!SwapElements(w, v).a, s) /\ Holds(IV!SwapElements(w, v).b, t)
    BY <1>1, <1>3, SwapElementsHolds
  <2>2. /\ IV!Swapped(v, w).a = IV!SwapElements(w, v).b
        /\ IV!Swapped(v, w).b = IV!SwapElements(w, v).a
    BY <1>3 DEF IV!Swapped
  <2> QED
    BY <2>1, <2>2
<1>4. CASE ~(v.heap /\ w.heap) /\ ~(v.size < w.size)
  <2>1. Holds(IV!SwapElements(v, w).a, t) /\ Holds(IV!SwapElements(v, w).b, s)
    BY <1>1, <1>4, SwapElementsHolds
  <2>2. IV!Swapped(v, w) = IV!SwapElements(v, w)
    BY <1>4 DEF IV!Swapped
  <2> QED
    BY <2>1, <2>2
<1> QED
  BY <1>2, <1>3, <1>4

(* What v is taken to hold by the refinement. *)
Abs(v) ==
  IF \A i \in 1 .. IV!Capacity(v) : v.cells[i] = Raw <=> i > v.size
  THEN IV!Elements(v) ELSE <<Raw>>

(* The two std::vectors. *)
Now == [n \in Names |-> Abs(vec[n])]

(* The inductive invariant of InlinedVector: each vector's storage is a    *)
(* prefix of elements and then nothing (inlined_vector.h:396-442).         *)
VectorsInv ==
  /\ vec = [n \in Names |-> vec[n]]
  /\ \A n \in Names : \E s : Holds(vec[n], s) /\ Len(s) <= MaxSize

(* A vector that holds s is taken to hold s. *)
LEMMA AbsIs ==
  ASSUME IV!InlinedVectorAssumption, NEW v, NEW s, Holds(v, s)
  PROVE  Abs(v) = s
<1>1. PICK m \in Nat :
        /\ IV!Capacity(v) = m /\ v.size = Len(s) /\ Len(s) \in Nat
        /\ \A i \in 1 .. Len(s) : s[i] \in Values
        /\ \A i \in 1 .. m : v.cells[i] = IF i <= Len(s) THEN s[i] ELSE Raw
  BY HoldsIs
<1>2. ASSUME NEW i \in 1 .. IV!Capacity(v) PROVE v.cells[i] = Raw <=> i > v.size
  <2>1. CASE i <= Len(s)
    <3>1. s[i] \in Values
      BY <1>1, <2>1
    <3> QED
      BY <1>1, <2>1, <3>1 DEF IV!InlinedVectorAssumption
  <2>2. CASE ~(i <= Len(s))
    BY <1>1, <2>2
  <2> QED
    BY <2>1, <2>2
<1>3. IV!Elements(v) = s
  BY ElementsAre
<1> QED
  BY <1>2, <1>3 DEF Abs

(* A vector replaced by one that holds t. *)
LEMMA BecomesHolds ==
  ASSUME IV!InlinedVectorAssumption, VectorsInv, NEW n \in Names, NEW v, NEW t, Holds(v, t),
         IV!Becomes(n, v)
  PROVE  VectorsInv' /\ Now' = [Now EXCEPT ![n] = t]
<1>1. v.size = Len(t)
  BY HoldsIs
<1>2. Len(t) <= MaxSize /\ vec' = [vec EXCEPT ![n] = v]
  BY <1>1 DEF IV!Becomes
<1>3. vec'[n] = v /\ (\A k \in Names \ {n} : vec'[k] = vec[k]) /\ vec' = [k \in Names |-> vec'[k]]
  BY <1>2 DEF VectorsInv
<1>4. VectorsInv'
  <2>1. ASSUME NEW k \in Names PROVE \E s : Holds(vec'[k], s) /\ Len(s) <= MaxSize
    BY <1>2, <1>3 DEF VectorsInv
  <2>2. VectorsInv' <=> /\ vec' = [k \in Names |-> vec'[k]]
                        /\ \A k \in Names : \E s : Holds(vec'[k], s) /\ Len(s) <= MaxSize
    BY DEF VectorsInv, Holds, Vec, Cells
  <2> QED
    BY <1>3, <2>1, <2>2
<1>5. Now' = [Now EXCEPT ![n] = t]
  <2>1. Now' = [k \in Names |-> Abs(vec'[k])]
    BY DEF Now, Abs, IV!Capacity, IV!Elements
  <2>2. Abs(v) = t
    BY AbsIs
  <2> QED
    BY <1>3, <2>1, <2>2 DEF Now
<1> QED
  BY <1>4, <1>5

(* What is held now. *)
LEMMA NowIs ==
  ASSUME IV!InlinedVectorAssumption, NEW n \in Names, NEW s, Holds(vec[n], s)
  PROVE  Now[n] = s
BY AbsIs DEF Now

(* The operations of std::vectors, on what the InlinedVectors hold. *)
LEMMA SeqIs ==
  /\ \A n, x : IV!Vectors!PushBack(n, x) <=> Now' = [Now EXCEPT ![n] = Append(Now[n], x)]
  /\ \A n : IV!Vectors!PopBack(n) <=>
       Now[n] # <<>> /\ Now' = [Now EXCEPT ![n] = SubSeq(Now[n], 1, Len(Now[n]) - 1)]
  /\ \A n, p, x : IV!Vectors!Insert(n, p, x) <=>
       Now' = [Now EXCEPT ![n] = SubSeq(Now[n], 1, p - 1) \o <<x>> \o SubSeq(Now[n], p, Len(Now[n]))]
  /\ \A n, p, q : IV!Vectors!Erase(n, p, q) <=>
       Now' = [Now EXCEPT ![n] = SubSeq(Now[n], 1, p - 1) \o SubSeq(Now[n], q, Len(Now[n]))]
  /\ \A n, k, x : IV!Vectors!Resize(n, k, x) <=>
       Now' = [Now EXCEPT ![n] = IF k <= Len(Now[n]) THEN SubSeq(Now[n], 1, k)
                                 ELSE Now[n] \o IV!Vectors!Copies(k - Len(Now[n]), x)]
  /\ \A n, w : IV!Vectors!Assign(n, w) <=> Now' = [Now EXCEPT ![n] = Now[w]]
  /\ \A n, k, x : IV!Vectors!AssignCopies(n, k, x) <=>
       Now' = [Now EXCEPT ![n] = IV!Vectors!Copies(k, x)]
  /\ \A n, w : IV!Vectors!Swap(n, w) <=> Now' = [Now EXCEPT ![n] = Now[w], ![w] = Now[n]]
  /\ \A n : IV!Vectors!Clear(n) <=> Now' = [Now EXCEPT ![n] = <<>>]
BY Zenon DEF Now, Abs, IV!Vectors!Becomes, IV!Vectors!PushBack, IV!Vectors!PopBack, IV!Vectors!Insert,
  IV!Vectors!Erase, IV!Vectors!Resize, IV!Vectors!Assign, IV!Vectors!AssignCopies,
  IV!Vectors!Swap, IV!Vectors!Clear

(* Each operation on one vector is one of a std::vector. *)
LEMMA ModifySteps ==
  ASSUME IV!InlinedVectorAssumption, VectorsInv, NEW n \in Names, IV!Modify(n)
  PROVE  VectorsInv' /\ IV!Vectors!Next
<1> DEFINE v == vec[n]
<1>1. PICK s : Holds(v, s) /\ Len(s) <= MaxSize
  BY DEF VectorsInv
<1>2. v.size = Len(s) /\ Len(s) \in Nat /\ s \in Seq(Values)
  BY <1>1, HoldsIs
<1>3. Now[n] = s
  BY <1>1, NowIs
<1>4. \A arg \in IV!Arguments(v) : \E x \in Values : arg = Given(x)
  <2>1. PICK h \in BOOLEAN : h = FALSE
    OBVIOUS
  <2>2. IV!Arguments(v) = [own : {h}, value : Values]
    BY <2>1 DEF IV!Arguments
  <2>3. \A x : Given(x) = [own |-> h, value |-> x]
    BY <2>1 DEF Given
  <2> QED
    BY <2>2, <2>3
<1> HIDE DEF v
<1>5. ASSUME NEW x \in Values, IV!Becomes(n, IV!EmplaceBack(v, x))
      PROVE  VectorsInv' /\ IV!Vectors!Next
  <2>1. Holds(IV!EmplaceBack(v, x), Append(s, x))
    BY <1>1, EmplaceBackHolds
  <2>2. VectorsInv' /\ Now' = [Now EXCEPT ![n] = Append(s, x)]
    BY <1>5, <2>1, BecomesHolds
  <2>3. IV!Vectors!PushBack(n, x)
    BY <1>3, <2>2, SeqIs
  <2> QED
    BY <2>2, <2>3, Zenon DEF IV!Vectors!Next
<1>6. ASSUME v.size > 0, IV!Becomes(n, IV!PopBack(v))
      PROVE  VectorsInv' /\ IV!Vectors!Next
  <2>1. Holds(IV!PopBack(v), SubSeq(s, 1, Len(s) - 1))
    BY <1>1, <1>2, <1>6, PopBackHolds
  <2>2. VectorsInv' /\ Now' = [Now EXCEPT ![n] = SubSeq(s, 1, Len(s) - 1)]
    BY <1>6, <2>1, BecomesHolds
  <2>3. s # <<>>
    BY <1>2, <1>6
  <2>4. IV!Vectors!PopBack(n)
    BY <1>3, <2>2, <2>3, SeqIs
  <2> QED
    BY <2>2, <2>4, Zenon DEF IV!Vectors!Next
<1>7. ASSUME NEW arg \in IV!Arguments(v), NEW p \in 1 .. v.size,
             IV!Becomes(n, IV!Insert(v, p, arg))
      PROVE  VectorsInv' /\ IV!Vectors!Next
  <2>1. PICK x \in Values : arg = Given(x)
    BY <1>4
  <2>2. p \in 1 .. Len(s)
    BY <1>2
  <2> DEFINE t == SubSeq(s, 1, p - 1) \o <<x>> \o SubSeq(s, p, Len(s))
  <2>3. Holds(IV!Insert(v, p, Given(x)), t)
    BY <1>1, <2>2, InsertHolds
  <2> HIDE DEF t
  <2>4. VectorsInv' /\ Now' = [Now EXCEPT ![n] = t]
    BY <1>7, <2>1, <2>3, BecomesHolds
  <2>5. IV!Vectors!Insert(n, p, x) /\ p \in 1 .. Len(Now[n])
    BY <1>3, <2>2, <2>4, SeqIs DEF t
  <2> QED
    BY <2>4, <2>5, Zenon DEF IV!Vectors!Next, Now, Abs
<1>8. ASSUME NEW p \in 1 .. v.size + 1, NEW q \in 1 .. v.size + 1, p <= q,
             IV!Becomes(n, IV!Erase(v, p, q))
      PROVE  VectorsInv' /\ IV!Vectors!Next
  <2>1. p \in 1 .. Len(s) + 1 /\ q \in p .. Len(s) + 1 /\ q \in 1 .. Len(s) + 1
    BY <1>2, <1>8
  <2> DEFINE t == SubSeq(s, 1, p - 1) \o SubSeq(s, q, Len(s))
  <2>2. Holds(IV!Erase(v, p, q), t)
    BY <1>1, <2>1, EraseHolds
  <2> HIDE DEF t
  <2>3. VectorsInv' /\ Now' = [Now EXCEPT ![n] = t]
    BY <1>8, <2>2, BecomesHolds
  <2>4. IV!Vectors!Erase(n, p, q) /\ p \in 1 .. Len(Now[n]) + 1 /\ q \in 1 .. Len(Now[n]) + 1
    BY <1>3, <2>1, <2>3, SeqIs DEF t
  <2> QED
    BY <1>8, <2>3, <2>4, Zenon DEF IV!Vectors!Next, Now, Abs
<1>9. ASSUME NEW k \in 0 .. MaxSize, NEW arg \in IV!Arguments(v),
             IV!Becomes(n, IV!Resize(v, k, arg))
      PROVE  VectorsInv' /\ IV!Vectors!Next
  <2>1. PICK x \in Values : arg = Given(x)
    BY <1>4
  <2> DEFINE t == IF k <= Len(s) THEN SubSeq(s, 1, k)
                  ELSE s \o IV!Vectors!Copies(k - Len(s), x)
  <2>2. Holds(IV!Resize(v, k, Given(x)), t)
    BY <1>1, ResizeHolds
  <2> HIDE DEF t
  <2>3. VectorsInv' /\ Now' = [Now EXCEPT ![n] = t]
    BY <1>9, <2>1, <2>2, BecomesHolds
  <2>4. IV!Vectors!Resize(n, k, x)
    BY <1>3, <2>3, SeqIs DEF t
  <2> QED
    BY <2>3, <2>4, Zenon DEF IV!Vectors!Next
<1>10. ASSUME IV!Becomes(n, IV!Empty)
       PROVE  VectorsInv' /\ IV!Vectors!Next
  <2>1. VectorsInv' /\ Now' = [Now EXCEPT ![n] = <<>>]
    BY <1>10, EmptyHolds, BecomesHolds
  <2>2. IV!Vectors!Clear(n)
    BY <2>1, SeqIs
  <2> QED
    BY <2>1, <2>2, Zenon DEF IV!Vectors!Next
<1>11. \/ \E x \in Values : IV!Becomes(n, IV!EmplaceBack(v, x))
       \/ v.size > 0 /\ IV!Becomes(n, IV!PopBack(v))
       \/ \E arg \in IV!Arguments(v), p \in 1 .. v.size : IV!Becomes(n, IV!Insert(v, p, arg))
       \/ \E p, q \in 1 .. v.size + 1 : p <= q /\ IV!Becomes(n, IV!Erase(v, p, q))
       \/ \E k \in 0 .. MaxSize, arg \in IV!Arguments(v) : IV!Becomes(n, IV!Resize(v, k, arg))
       \/ IV!Becomes(n, IV!Empty)
  BY Zenon DEF IV!Modify, v
<1> QED
  BY <1>5, <1>6, <1>7, <1>8, <1>9, <1>10, <1>11

(* assign is one of a std::vector (inlined_vector.h:526-534). *)
LEMMA AssignNewSteps ==
  ASSUME IV!InlinedVectorAssumption, VectorsInv, NEW n \in Names, IV!AssignNew(n)
  PROVE  VectorsInv' /\ IV!Vectors!Next
<1>1. PICK s : Holds(vec[n], s) /\ Len(s) <= MaxSize
  BY DEF VectorsInv
<1>2. PICK k \in 0 .. MaxSize, x \in Values : IV!Becomes(n, IV!Assign(vec[n], Fresh(k, x)))
  BY Zenon DEF IV!AssignNew, Fresh
<1> DEFINE t == IV!Vectors!Copies(k, x)
<1>3. Holds(Fresh(k, x), t)
  BY FreshHolds
<1>4. Len(t) = k /\ k \in Nat /\ MaxSize \in Nat
  <2>1. k \in Nat /\ MaxSize \in Nat
    BY DEF IV!InlinedVectorAssumption
  <2> QED
    BY <2>1, CopiesAre
<1> HIDE DEF t
<1>5. Holds(IV!Assign(vec[n], Fresh(k, x)), t)
  <2>1. Len(t) <= MaxSize + 1
    BY <1>4
  <2> QED
    BY <1>1, <1>3, <2>1, AssignHolds
<1>6. VectorsInv' /\ Now' = [Now EXCEPT ![n] = t]
  BY <1>2, <1>5, BecomesHolds
<1>7. IV!Vectors!AssignCopies(n, k, x)
  BY <1>6, SeqIs DEF t
<1> QED
  BY <1>6, <1>7, Zenon DEF IV!Vectors!Next

(* operator= and swap are operations of two std::vectors                   *)
(* (inlined_vector.h:75-89, 581-631).                                      *)
LEMMA BothSteps ==
  ASSUME IV!InlinedVectorAssumption, VectorsInv, NEW n \in Names, NEW w \in Names, IV!Both(n, w)
  PROVE  VectorsInv' /\ IV!Vectors!Next
<1>1. PICK s : Holds(vec[n], s) /\ Len(s) <= MaxSize
  BY DEF VectorsInv
<1>2. PICK t : Holds(vec[w], t) /\ Len(t) <= MaxSize
  BY DEF VectorsInv
<1>3. Now[n] = s /\ Now[w] = t
  BY <1>1, <1>2, NowIs
<1>4. ASSUME IV!Becomes(n, IV!Assign(vec[n], vec[w]))
      PROVE  VectorsInv' /\ IV!Vectors!Next
  <2>1. Len(t) <= MaxSize + 1
    BY <1>2, HoldsIs DEF IV!InlinedVectorAssumption
  <2>2. Holds(IV!Assign(vec[n], vec[w]), t)
    BY <1>1, <1>2, <2>1, AssignHolds
  <2>3. VectorsInv' /\ Now' = [Now EXCEPT ![n] = t]
    BY <1>4, <2>2, BecomesHolds
  <2>4. IV!Vectors!Assign(n, w)
    BY <1>3, <2>3, SeqIs
  <2> QED
    BY <2>3, <2>4, Zenon DEF IV!Vectors!Next
<1>5. ASSUME n # w,
             vec' = [vec EXCEPT ![n] = IV!Swapped(vec[n], vec[w]).a,
                                ![w] = IV!Swapped(vec[n], vec[w]).b]
      PROVE  VectorsInv' /\ IV!Vectors!Next
  <2>1. PICK a, b : a = IV!Swapped(vec[n], vec[w]).a /\ b = IV!Swapped(vec[n], vec[w]).b
    OBVIOUS
  <2>2. Holds(a, t) /\ Holds(b, s)
    BY <1>1, <1>2, <2>1, SwappedHolds
  <2> DEFINE half == [vec EXCEPT ![n] = a]
  <2>3. vec' = [half EXCEPT ![w] = b]
    BY <1>5, <2>1, Zenon
  <2>4. half = [k \in Names |-> half[k]] /\ half[n] = a /\ \A k \in Names \ {n} : half[k] = vec[k]
    BY DEF VectorsInv
  <2> HIDE DEF half
  <2>5. /\ vec'[n] = a /\ vec'[w] = b /\ \A k \in Names \ {n, w} : vec'[k] = vec[k]
        /\ vec' = [k \in Names |-> vec'[k]]
    BY <1>5, <2>3, <2>4
  <2>6. VectorsInv'
    <3>1. ASSUME NEW k \in Names PROVE \E r : Holds(vec'[k], r) /\ Len(r) <= MaxSize
      BY <1>1, <1>2, <2>2, <2>5 DEF VectorsInv
    <3>2. VectorsInv' <=> /\ vec' = [k \in Names |-> vec'[k]]
                          /\ \A k \in Names : \E r : Holds(vec'[k], r) /\ Len(r) <= MaxSize
      BY DEF VectorsInv, Holds, Vec, Cells
    <3> QED
      BY <2>5, <3>1, <3>2
  <2>7. Now' = [Now EXCEPT ![n] = t, ![w] = s]
    <3> DEFINE mid == [Now EXCEPT ![n] = t]
    <3>1. [Now EXCEPT ![n] = t, ![w] = s] = [mid EXCEPT ![w] = s]
      BY Zenon
    <3>2. mid = [k \in Names |-> IF k = n THEN t ELSE Abs(vec[k])]
      BY DEF Now
    <3> HIDE DEF mid
    <3>3. [mid EXCEPT ![w] = s] =
            [k \in Names |-> IF k = w THEN s ELSE IF k = n THEN t ELSE Abs(vec[k])]
      BY <3>2
    <3>4. Now' = [k \in Names |-> Abs(vec'[k])]
      BY DEF Now, Abs, IV!Capacity, IV!Elements
    <3>5. Abs(a) = t /\ Abs(b) = s
      BY <2>2, AbsIs
    <3>6. ASSUME NEW k \in Names
          PROVE  Abs(vec'[k]) = IF k = w THEN s ELSE IF k = n THEN t ELSE Abs(vec[k])
      BY <1>5, <2>5, <3>5
    <3> QED
      BY <3>1, <3>3, <3>4, <3>6
  <2>8. IV!Vectors!Swap(n, w)
    BY <1>3, <2>7, SeqIs, Zenon
  <2> QED
    BY <2>6, <2>8, Zenon DEF IV!Vectors!Next
<1> QED
  BY <1>4, <1>5 DEF IV!Both

(* Every step keeps the invariant and is a step of two std::vectors, or a  *)
(* stutter.                                                                *)
LEMMA VectorSteps ==
  ASSUME IV!InlinedVectorAssumption, VectorsInv, [IV!Next]_vec
  PROVE  VectorsInv' /\ [IV!Vectors!Next]_Now
<1>1. ASSUME NEW n \in Names, IV!Modify(n) PROVE VectorsInv' /\ IV!Vectors!Next
  BY <1>1, ModifySteps
<1>2. ASSUME NEW n \in Names, IV!AssignNew(n) PROVE VectorsInv' /\ IV!Vectors!Next
  BY <1>2, AssignNewSteps
<1>3. ASSUME NEW n \in Names, NEW w \in Names, IV!Both(n, w) PROVE VectorsInv' /\ IV!Vectors!Next
  BY <1>3, BothSteps
<1>4. CASE UNCHANGED vec
  <2>1. VectorsInv'
    BY <1>4 DEF VectorsInv, Holds, Vec, Cells
  <2>2. Now' = Now
    BY <1>4 DEF Now, Abs, IV!Capacity, IV!Elements
  <2> QED
    BY <2>1, <2>2
<1>5. CASE IV!Next
  BY <1>1, <1>2, <1>3, <1>5, Zenon DEF IV!Next
<1> QED
  BY <1>4, <1>5

(* Constructed vectors are in order (inlined_vector.h:642-650). *)
LEMMA VectorsInitial ==
  ASSUME IV!InlinedVectorAssumption, IV!Init
  PROVE  VectorsInv /\ IV!Vectors!Init
<1> DEFINE Lists == UNION {[1 .. n -> Values] : n \in 0 .. Fit + 1}
<1>1. Fit \in Nat /\ MaxSize \in Nat /\ Fit < MaxSize
  BY DEF IV!InlinedVectorAssumption
<1>2. ASSUME NEW e \in Lists
      PROVE  e \in Seq(Values) /\ Len(e) \in Nat /\ Len(e) <= MaxSize
             /\ Holds(IV!AppendRange(IV!Empty, e), e)
  <2>1. PICK n \in 0 .. Fit + 1 : e \in [1 .. n -> Values]
    BY <1>2
  <2>2. n \in Nat /\ n <= MaxSize
    BY <1>1
  <2>3. e \in Seq(Values) /\ Len(e) = n
    BY <2>1, <2>2, Listed
  <2>4. PICK z \in Seq(Values) : z = <<>> /\ Len(z) = 0
    BY EmptySeq
  <2>5. Holds(IV!Empty, z) /\ Len(z) + Len(e) <= MaxSize + 1
    BY <1>1, <2>2, <2>3, <2>4, EmptyHolds
  <2>6. Holds(IV!AppendRange(IV!Empty, e), z \o e)
    BY <2>3, <2>5, AppendRangeHolds
  <2>7. z \o e = e
    BY <2>3, <2>4, ConcatEmptySeq
  <2> QED
    BY <2>2, <2>3, <2>6, <2>7
<1>3. vec \in [Names -> {IV!AppendRange(IV!Empty, e) : e \in Lists}]
  BY Zenon DEF IV!Init
<1>4. \A n \in Names : \E e \in Lists : vec[n] = IV!AppendRange(IV!Empty, e)
  <2> HIDE DEF Lists
  <2> QED
    BY <1>3
<1> HIDE DEF Lists
<1>5. VectorsInv
  <2>1. vec = [n \in Names |-> vec[n]]
    BY <1>3
  <2>2. ASSUME NEW n \in Names PROVE \E s : Holds(vec[n], s) /\ Len(s) <= MaxSize
    BY <1>2, <1>4
  <2> QED
    BY <2>1, <2>2 DEF VectorsInv
<1>6. IV!Vectors!Init
  <2> DEFINE All == UNION {[1 .. n -> Values] : n \in 0 .. MaxSize}
  <2>1. ASSUME NEW n \in Names PROVE Abs(vec[n]) \in All
    <3>1. PICK e \in Lists : vec[n] = IV!AppendRange(IV!Empty, e)
      BY <1>4
    <3>2. /\ e \in Seq(Values) /\ Len(e) \in Nat /\ Len(e) <= MaxSize /\ Abs(vec[n]) = e
      BY <1>2, <3>1, AbsIs
    <3>3. Len(e) \in 0 .. MaxSize /\ e \in [1 .. Len(e) -> Values]
      BY <1>1, <3>2, LenProperties
    <3> QED
      BY <3>2, <3>3
  <2> HIDE DEF All
  <2>2. Now \in [Names -> All]
    BY <2>1 DEF Now
  <2> QED
    BY <2>2 DEF Now, Abs, All, IV!Vectors!Init
<1> QED
  BY <1>5, <1>6

-----------------------------------------------------------------------------
(* The same where the values of turn i are in V[i]. *)
LEMMA Turns ==
  ASSUME NEW n \in Nat, NEW V, NEW b \in V[0], NEW step,
         \A i \in 1 .. n : \A x \in V[i - 1] : step[i][x] \in V[i]
  PROVE  \E g : /\ g = [i \in 0 .. n |-> g[i]] /\ Iterates(g, n, b, step)
                /\ \A i \in 0 .. n : g[i] \in V[i]
<1> DEFINE Good(k, g) == /\ g = [i \in 0 .. k |-> g[i]] /\ Iterates(g, k, b, step)
                         /\ \A i \in 0 .. k : g[i] \in V[i]
           S == {k \in Nat : k <= n => \E g : Good(k, g)}
<1>1. 0 \in S
  <2> DEFINE g == [i \in 0 .. 0 |-> b]
  <2>1. Good(0, g)
    BY DEF Iterates
  <2> HIDE DEF g, Good
  <2> QED
    BY <2>1
<1>2. ASSUME NEW k \in Nat, k \in S PROVE k + 1 \in S
  <2> SUFFICES ASSUME k + 1 <= n PROVE \E h : Good(k + 1, h)
    OBVIOUS
  <2>1. PICK g : Good(k, g)
    BY <1>2
  <2>2. g[k] \in V[k]
    BY <2>1
  <2> DEFINE v == step[k + 1][g[k]]
  <2>3. v \in V[k + 1]
    <3>1. k + 1 \in 1 .. n /\ (k + 1) - 1 = k
      OBVIOUS
    <3> QED
      BY <2>2, <3>1
  <2> HIDE DEF v
  <2> DEFINE h == [i \in 0 .. k + 1 |-> IF i = k + 1 THEN v ELSE g[i]]
  <2>4. /\ h[0] = b /\ h[k + 1] = v /\ \A i \in 0 .. k : h[i] = g[i]
        /\ h = [i \in 0 .. k + 1 |-> h[i]]
    BY <2>1 DEF Iterates
  <2> HIDE DEF h
  <2>5. ASSUME NEW i \in 1 .. k + 1 PROVE h[i] = step[i][h[i - 1]]
    <3>1. CASE i = k + 1
      <4>1. i - 1 = k /\ k \in 0 .. k
        BY <3>1
      <4> QED
        BY <2>4, <3>1, <4>1 DEF v
    <3>2. CASE i # k + 1
      <4>1. i \in 1 .. k /\ i - 1 \in 0 .. k /\ i \in 0 .. k
        BY <3>2
      <4> QED
        BY <2>1, <2>4, <4>1 DEF Iterates
    <3> QED
      BY <3>1, <3>2
  <2>6. ASSUME NEW i \in 0 .. k + 1 PROVE h[i] \in V[i]
    <3>1. CASE i = k + 1
      BY <2>3, <2>4, <3>1
    <3>2. CASE i # k + 1
      <4>1. i \in 0 .. k
        BY <3>2
      <4> QED
        BY <2>1, <2>4, <4>1
    <3> QED
      BY <3>1, <3>2
  <2>7. Good(k + 1, h)
    BY <2>4, <2>5, <2>6 DEF Iterates
  <2> HIDE DEF Good
  <2> QED
    BY <2>7
<1>3. \A k \in Nat : k \in S
  <2> HIDE DEF S
  <2> QED
    BY <1>1, <1>2, Induction
<1> QED
  BY <1>3

(* The sums of the first i values of f, i up to m. *)
SumsUp(g, f, m) == g = [i \in 0 .. m |-> IF i = 0 THEN 0 ELSE g[i - 1] + f[i]]
SumsOf(f, m) == CHOOSE g : SumsUp(g, f, m)

(* There are such sums. *)
LEMMA SumsAre ==
  ASSUME NEW m \in Nat, NEW f, \A i \in 1 .. m : f[i] \in Int
  PROVE  /\ SumsOf(f, m) \in [0 .. m -> Int] /\ SumsOf(f, m)[0] = 0
         /\ \A i \in 1 .. m : SumsOf(f, m)[i] = SumsOf(f, m)[i - 1] + f[i]
<1> DEFINE V == [i \in 0 .. m |-> Int]
           step == [i \in 1 .. m |-> [x \in Int |-> x + f[i]]]
<1>1. ASSUME NEW i \in 1 .. m, NEW x \in V[i - 1]
      PROVE  x \in Int /\ step[i][x] = x + f[i] /\ step[i][x] \in V[i]
  <2>1. i - 1 \in 0 .. m /\ i \in 0 .. m
    OBVIOUS
  <2> QED
    BY <2>1
<1>2. PICK z : z = 0
  OBVIOUS
<1>3. \A i \in 0 .. m : V[i] = Int
  OBVIOUS
<1> HIDE DEF V, step
<1>4. z \in V[0]
  BY <1>2, <1>3
<1>5. PICK g : /\ g = [i \in 0 .. m |-> g[i]] /\ Iterates(g, m, z, step)
               /\ \A i \in 0 .. m : g[i] \in V[i]
  BY <1>1, <1>4, Turns
<1>6. SumsUp(g, f, m)
  <2>1. ASSUME NEW i \in 0 .. m PROVE g[i] = IF i = 0 THEN 0 ELSE g[i - 1] + f[i]
    <3>1. CASE i = 0
      BY <1>2, <1>5, <3>1 DEF Iterates
    <3>2. CASE i # 0
      <4>1. i \in 1 .. m /\ i - 1 \in 0 .. m
        BY <3>2
      <4>2. g[i - 1] \in V[i - 1]
        BY <1>5, <4>1
      <4> QED
        BY <1>1, <1>5, <3>2, <4>1, <4>2 DEF Iterates
    <3> QED
      BY <3>1, <3>2
  <2> QED
    BY <1>5, <2>1 DEF SumsUp
<1> DEFINE h == SumsOf(f, m)
<1>7. SumsUp(h, f, m)
  BY <1>6 DEF SumsOf
<1> HIDE DEF h
<1>8. h = [i \in 0 .. m |-> h[i]] /\ h[0] = 0 /\ \A i \in 1 .. m : h[i] = h[i - 1] + f[i]
  <2>1. h = [i \in 0 .. m |-> IF i = 0 THEN 0 ELSE h[i - 1] + f[i]]
    BY <1>7 DEF SumsUp
  <2> QED
    BY <2>1
<1> DEFINE S == {k \in Nat : k <= m => h[k] \in Int}
<1>9. 0 \in S
  BY <1>8
<1>10. ASSUME NEW k \in Nat, k \in S PROVE k + 1 \in S
  <2> SUFFICES ASSUME k + 1 <= m PROVE h[k + 1] \in Int
    OBVIOUS
  <2>1. k + 1 \in 1 .. m /\ (k + 1) - 1 = k /\ k <= m
    OBVIOUS
  <2>2. PICK j \in 1 .. m : j = k + 1 /\ j - 1 = k
    BY <2>1
  <2>3. h[j - 1] \in Int /\ f[j] \in Int /\ h[j] = h[j - 1] + f[j]
    BY <1>8, <1>10, <2>1, <2>2
  <2>4. h[j] \in Int
    BY <2>3
  <2> QED
    BY <2>2, <2>4
<1>11. \A k \in Nat : k \in S
  <2> HIDE DEF S
  <2> QED
    BY <1>9, <1>10, Induction
<1>12. \A k \in 0 .. m : h[k] \in Int
  BY <1>11
<1> QED
  BY <1>8, <1>12 DEF h

(* f and g begin with the same n integers. *)
Agree(f, g, n) == \A i \in 1 .. n : g[i] \in Int /\ f[i] = g[i]

(* Then they have the same sums up to n. *)
LEMMA SumsAgree ==
  ASSUME NEW m \in Nat, NEW f, Agree(f, f, m),
         NEW n \in Nat, NEW g, n <= m, Agree(f, g, n)
  PROVE  \A i \in 0 .. n : SumsOf(f, m)[i] = SumsOf(g, n)[i]
<1> DEFINE a == SumsOf(f, m)
           b == SumsOf(g, n)
<1>0. /\ \A i \in 1 .. m : f[i] \in Int
      /\ \A i \in 1 .. n : g[i] \in Int /\ f[i] = g[i]
  BY DEF Agree
<1>1. a[0] = 0 /\ \A i \in 1 .. m : a[i] = a[i - 1] + f[i]
  BY <1>0, SumsAre
<1>2. b[0] = 0 /\ \A i \in 1 .. n : b[i] = b[i - 1] + g[i]
  BY <1>0, SumsAre
<1> HIDE DEF a, b
<1> DEFINE S == {i \in Nat : i <= n => a[i] = b[i]}
<1>3. 0 \in S
  BY <1>1, <1>2
<1>4. ASSUME NEW i \in Nat, i \in S PROVE i + 1 \in S
  <2> SUFFICES ASSUME i + 1 <= n PROVE a[i + 1] = b[i + 1]
    OBVIOUS
  <2>1. PICK j \in 1 .. n : j = i + 1 /\ j - 1 = i
    OBVIOUS
  <2>2. j \in 1 .. m /\ i <= n
    BY <2>1
  <2>3. a[j - 1] = b[j - 1] /\ f[j] = g[j]
    BY <1>0, <1>4, <2>1, <2>2
  <2>4. a[j] = b[j]
    BY <1>1, <1>2, <2>2, <2>3
  <2> QED
    BY <2>1, <2>4
<1>5. \A i \in Nat : i \in S
  <2> HIDE DEF S
  <2> QED
    BY <1>3, <1>4, Induction
<1> QED
  BY <1>5 DEF a, b

(* Sums of naturals do not fall. *)
LEMMA SumsRise ==
  ASSUME NEW m \in Nat, NEW f, \A i \in 1 .. m : f[i] \in Nat
  PROVE  \A j \in 0 .. m : \A i \in 0 .. j : SumsOf(f, m)[i] <= SumsOf(f, m)[j]
<1> DEFINE a == SumsOf(f, m)
<1>1. a \in [0 .. m -> Int] /\ \A i \in 1 .. m : a[i] = a[i - 1] + f[i]
  BY SumsAre
<1> HIDE DEF a
<1> DEFINE S == {j \in Nat : j <= m => \A i \in 0 .. j : a[i] <= a[j]}
<1>2. 0 \in S
  BY <1>1
<1>3. ASSUME NEW k \in Nat, k \in S PROVE k + 1 \in S
  <2> SUFFICES ASSUME k + 1 <= m, NEW i \in 0 .. k + 1 PROVE a[i] <= a[k + 1]
    OBVIOUS
  <2>1. PICK j \in 1 .. m : j = k + 1 /\ j - 1 = k
    OBVIOUS
  <2>2. a[j] = a[j - 1] + f[j] /\ a[j - 1] \in Int /\ f[j] \in Nat /\ a[j] \in Int
    <3>1. j - 1 \in 0 .. m /\ j \in 0 .. m
      OBVIOUS
    <3> QED
      BY <1>1, <3>1
  <2>3. CASE i = j
    BY <2>1, <2>2, <2>3
  <2>4. CASE i # j
    <3>1. i \in 0 .. k /\ k <= m /\ i \in 0 .. m
      BY <2>1, <2>4
    <3>2. a[i] <= a[j - 1] /\ a[i] \in Int
      BY <1>1, <1>3, <2>1, <3>1
    <3> QED
      BY <2>1, <2>2, <3>2
  <2> QED
    BY <2>3, <2>4
<1>4. \A k \in Nat : k \in S
  <2> HIDE DEF S
  <2> QED
    BY <1>2, <1>3, Induction
<1> QED
  BY <1>4 DEF a

(* Pairs added give the same sums. *)
LEMMA SumsOfPairs ==
  ASSUME NEW m \in Nat, NEW f, \A i \in 1 .. 2 * m : f[i] \in Int,
         NEW g, \A i \in 1 .. m : g[i] = f[2 * i - 1] + f[2 * i]
  PROVE  \A i \in 0 .. m : SumsOf(g, m)[i] = SumsOf(f, 2 * m)[2 * i]
<1> DEFINE a == SumsOf(g, m)
           b == SumsOf(f, 2 * m)
<1>1. \A i \in 1 .. m : g[i] \in Int
  <2> TAKE i \in 1 .. m
  <2>1. 2 * i - 1 \in 1 .. 2 * m /\ 2 * i \in 1 .. 2 * m
    OBVIOUS
  <2>2. f[2 * i - 1] \in Int /\ f[2 * i] \in Int
    BY <2>1
  <2> QED
    BY <2>2
<1>2. a[0] = 0 /\ \A i \in 1 .. m : a[i] = a[i - 1] + g[i]
  BY <1>1, SumsAre
<1>3. b \in [0 .. 2 * m -> Int] /\ b[0] = 0 /\ \A i \in 1 .. 2 * m : b[i] = b[i - 1] + f[i]
  <2>1. 2 * m \in Nat
    OBVIOUS
  <2> QED
    BY <2>1, SumsAre
<1> HIDE DEF a, b
<1> DEFINE S == {i \in Nat : i <= m => a[i] = b[2 * i]}
<1>4. 0 \in S
  <2>1. 2 * 0 = 0
    OBVIOUS
  <2> QED
    BY <1>2, <1>3, <2>1
<1>5. ASSUME NEW i \in Nat, i \in S PROVE i + 1 \in S
  <2> SUFFICES ASSUME i + 1 <= m PROVE a[i + 1] = b[2 * (i + 1)]
    OBVIOUS
  <2>1. PICK j \in 1 .. m, k \in 1 .. 2 * m, l \in 1 .. 2 * m :
          /\ j = i + 1 /\ j - 1 = i /\ k = 2 * i + 1 /\ k - 1 = 2 * i
          /\ l = 2 * (i + 1) /\ l - 1 = k /\ k = 2 * j - 1 /\ l = 2 * j /\ i <= m
    <3>1. /\ i + 1 \in 1 .. m /\ 2 * i + 1 \in 1 .. 2 * m /\ 2 * (i + 1) \in 1 .. 2 * m
          /\ (i + 1) - 1 = i /\ (2 * i + 1) - 1 = 2 * i /\ 2 * (i + 1) - 1 = 2 * i + 1
          /\ 2 * i + 1 = 2 * (i + 1) - 1 /\ i <= m
      OBVIOUS
    <3> QED
      BY <3>1
  <2>2. a[j - 1] = b[k - 1]
    BY <1>5, <2>1
  <2>3. a[j] = a[j - 1] + g[j] /\ g[j] = f[k] + f[l]
    BY <1>2, <2>1
  <2>4. b[k] = b[k - 1] + f[k]
    BY <1>3
  <2>5. b[l] = b[l - 1] + f[l]
    BY <1>3
  <2>6. l - 1 = k /\ b[l - 1] = b[k]
    BY <2>1
  <2>7. b[k - 1] \in Int /\ f[k] \in Int /\ f[l] \in Int
    <3>1. k - 1 \in 0 .. 2 * m
      OBVIOUS
    <3> QED
      BY <1>3, <3>1
  <2>8. a[j] = b[l]
    BY <2>2, <2>3, <2>4, <2>5, <2>6, <2>7
  <2> QED
    BY <2>1, <2>8
<1>6. \A i \in Nat : i \in S
  <2> HIDE DEF S
  <2> QED
    BY <1>4, <1>5, Induction
<1> QED
  BY <1>6 DEF a, b

(* A recursive function on 1 .. k that begins at 1. *)
Ascends(g, k, b, step) == g = [l \in 1 .. k |-> IF l = 1 THEN b ELSE step[l][g[l - 1]]]

(* There is one, and its values are where each step leads. *)
LEMMA Ascent ==
  ASSUME NEW k \in Nat \ {0}, NEW V, NEW b \in V[1], NEW step,
         \A l \in 2 .. k : \A x \in V[l - 1] : step[l][x] \in V[l]
  PROVE  /\ \E g : Ascends(g, k, b, step)
         /\ \A g : Ascends(g, k, b, step) => \A l \in 1 .. k : g[l] \in V[l]
<1> DEFINE W == [j \in 0 .. k - 1 |-> V[j + 1]]
           turn == [j \in 1 .. k - 1 |-> step[j + 1]]
<1>1. \A j \in 0 .. k - 1 : W[j] = V[j + 1]
  OBVIOUS
<1>2. \A j \in 1 .. k - 1 : turn[j] = step[j + 1]
  OBVIOUS
<1> HIDE DEF W, turn
<1>3. ASSUME NEW j \in 1 .. k - 1, NEW x \in W[j - 1] PROVE turn[j][x] \in W[j]
  <2>1. PICK l \in 2 .. k : l = j + 1 /\ l - 1 = j /\ l - 1 = (j - 1) + 1
    OBVIOUS
  <2>2. j - 1 \in 0 .. k - 1 /\ j \in 0 .. k - 1
    OBVIOUS
  <2>3. x \in V[l - 1]
    <3>1. W[j - 1] = V[(j - 1) + 1]
      BY <1>1, <2>2
    <3> QED
      BY <2>1, <3>1
  <2>4. step[l][x] \in V[l]
    BY <2>3
  <2> QED
    BY <1>1, <1>2, <2>1, <2>2, <2>4
<1>4. b \in W[0]
  <2>1. 0 \in 0 .. k - 1 /\ 0 + 1 = 1
    OBVIOUS
  <2>2. W[0] = V[0 + 1]
    BY <1>1, <2>1
  <2> QED
    BY <2>1, <2>2
<1>5. \E g : Ascends(g, k, b, step)
  <2>1. k - 1 \in Nat
    OBVIOUS
  <2>2. PICK h : h = [j \in 0 .. k - 1 |-> h[j]] /\ Iterates(h, k - 1, b, turn)
    BY <1>3, <1>4, <2>1, Turns
  <2> DEFINE g == [l \in 1 .. k |-> h[l - 1]]
  <2>3. \A l \in 1 .. k : g[l] = h[l - 1]
    OBVIOUS
  <2>4. g = [l \in 1 .. k |-> g[l]]
    OBVIOUS
  <2> HIDE DEF g
  <2>5. ASSUME NEW l \in 1 .. k PROVE g[l] = IF l = 1 THEN b ELSE step[l][g[l - 1]]
    <3>1. CASE l = 1
      <4>1. l - 1 = 0
        BY <3>1
      <4> QED
        BY <2>2, <2>3, <3>1, <4>1 DEF Iterates
    <3>2. CASE l # 1
      <4>1. PICK j \in 1 .. k - 1 : j = l - 1 /\ l = j + 1
        BY <3>2
      <4>2. h[j] = turn[j][h[j - 1]]
        BY <2>2 DEF Iterates
      <4>3. j \in 1 .. k
        OBVIOUS
      <4>4. g[l] = h[j] /\ g[j] = h[j - 1] /\ turn[j] = step[l]
        BY <1>2, <2>3, <4>1, <4>3
      <4> QED
        BY <3>2, <4>1, <4>2, <4>4
    <3> QED
      BY <3>1, <3>2
  <2>6. Ascends(g, k, b, step)
    BY <2>4, <2>5 DEF Ascends
  <2> QED
    BY <2>6
<1>6. ASSUME NEW g, Ascends(g, k, b, step), NEW l \in 1 .. k PROVE g[l] \in V[l]
  <2>1. \A j \in 1 .. k : g[j] = IF j = 1 THEN b ELSE step[j][g[j - 1]]
    BY <1>6 DEF Ascends
  <2> DEFINE S == {j \in Nat : j + 1 <= k => g[j + 1] \in V[j + 1]}
  <2>2. 0 \in S
    <3>1. 0 + 1 = 1 /\ 1 \in 1 .. k
      OBVIOUS
    <3>2. g[1] = b
      BY <2>1, <3>1
    <3> QED
      BY <3>1, <3>2
  <2>3. ASSUME NEW j \in Nat, j \in S PROVE j + 1 \in S
    <3> SUFFICES ASSUME (j + 1) + 1 <= k PROVE g[(j + 1) + 1] \in V[(j + 1) + 1]
      OBVIOUS
    <3>1. PICK i \in 2 .. k : i = (j + 1) + 1 /\ i - 1 = j + 1 /\ i # 1 /\ i \in 1 .. k
      OBVIOUS
    <3>2. g[i - 1] \in V[i - 1]
      BY <2>3, <3>1
    <3>3. g[i] = step[i][g[i - 1]]
      BY <2>1, <3>1
    <3>4. g[i] \in V[i]
      BY <3>2, <3>3
    <3> QED
      BY <3>1, <3>4
  <2>4. \A j \in Nat : j \in S
    <3> HIDE DEF S
    <3> QED
      BY <2>2, <2>3, Induction
  <2>5. PICK j \in Nat : l = j + 1
    <3>1. l - 1 \in Nat /\ l = (l - 1) + 1
      OBVIOUS
    <3> QED
      BY <3>1
  <2> QED
    BY <2>4, <2>5
<1> QED
  BY <1>5, <1>6

(* A recursive function on 1 .. k that begins at k. *)
Descends(g, k, b, step) == g = [l \in 1 .. k |-> IF l = k THEN b ELSE step[l][g[l + 1]]]

(* There is one, and its values are where each step leads. *)
LEMMA Descent ==
  ASSUME NEW k \in Nat \ {0}, NEW V, NEW b \in V[k], NEW step,
         \A l \in 1 .. k - 1 : \A x \in V[l + 1] : step[l][x] \in V[l]
  PROVE  /\ \E g : Descends(g, k, b, step)
         /\ \A g : Descends(g, k, b, step) => \A l \in 1 .. k : g[l] \in V[l]
<1> DEFINE W == [j \in 1 .. k |-> V[k + 1 - j]]
           turn == [j \in 1 .. k |-> step[k + 1 - j]]
<1>1. \A j \in 1 .. k : W[j] = V[k + 1 - j]
  OBVIOUS
<1>2. \A j \in 1 .. k : turn[j] = step[k + 1 - j]
  OBVIOUS
<1> HIDE DEF W, turn
<1>3. ASSUME NEW j \in 2 .. k, NEW x \in W[j - 1] PROVE turn[j][x] \in W[j]
  <2>1. PICK l \in 1 .. k - 1 : l = k + 1 - j /\ l + 1 = k + 1 - (j - 1)
    OBVIOUS
  <2>2. j - 1 \in 1 .. k /\ j \in 1 .. k
    OBVIOUS
  <2>3. x \in V[l + 1]
    <3>1. W[j - 1] = V[k + 1 - (j - 1)]
      BY <1>1, <2>2
    <3> QED
      BY <2>1, <3>1
  <2>4. step[l][x] \in V[l]
    BY <2>3
  <2> QED
    BY <1>1, <1>2, <2>1, <2>2, <2>4
<1>4. b \in W[1]
  <2>1. 1 \in 1 .. k /\ k + 1 - 1 = k
    OBVIOUS
  <2>2. W[1] = V[k + 1 - 1]
    BY <1>1, <2>1
  <2> QED
    BY <2>1, <2>2
<1>5. /\ \E h : Ascends(h, k, b, turn)
      /\ \A h : Ascends(h, k, b, turn) => \A j \in 1 .. k : h[j] \in W[j]
  BY <1>3, <1>4, Ascent
<1>6. ASSUME NEW g, NEW h, h = [j \in 1 .. k |-> g[k + 1 - j]], g = [l \in 1 .. k |-> h[k + 1 - l]]
      PROVE  Descends(g, k, b, step) <=> Ascends(h, k, b, turn)
  <2>1. \A l \in 1 .. k : g[l] = h[k + 1 - l] /\ k + 1 - l \in 1 .. k
    BY <1>6
  <2>2. \A j \in 1 .. k : h[j] = g[k + 1 - j] /\ k + 1 - j \in 1 .. k
    BY <1>6
  <2>3. g = [l \in 1 .. k |-> g[l]] /\ h = [j \in 1 .. k |-> h[j]]
    BY <1>6
  <2>4. ASSUME \A l \in 1 .. k : g[l] = IF l = k THEN b ELSE step[l][g[l + 1]], NEW j \in 1 .. k
        PROVE  h[j] = IF j = 1 THEN b ELSE turn[j][h[j - 1]]
    <3>1. PICK l \in 1 .. k : l = k + 1 - j /\ (l = k <=> j = 1) /\ h[j] = g[l] /\ turn[j] = step[l]
      BY <1>2, <2>2
    <3>2. CASE j = 1
      BY <2>4, <3>1, <3>2
    <3>3. CASE j # 1
      <4>1. j - 1 \in 1 .. k /\ k + 1 - (j - 1) = l + 1
        BY <3>1, <3>3
      <4>2. h[j - 1] = g[k + 1 - (j - 1)]
        BY <2>2, <4>1
      <4>3. h[j - 1] = g[l + 1]
        BY <4>1, <4>2
      <4> QED
        BY <2>4, <3>1, <3>3, <4>3
    <3> QED
      BY <3>2, <3>3
  <2>5. ASSUME \A j \in 1 .. k : h[j] = IF j = 1 THEN b ELSE turn[j][h[j - 1]], NEW l \in 1 .. k
        PROVE  g[l] = IF l = k THEN b ELSE step[l][g[l + 1]]
    <3>1. PICK j \in 1 .. k : /\ j = k + 1 - l /\ (l = k <=> j = 1) /\ g[l] = h[j]
                              /\ l = k + 1 - j /\ turn[j] = step[l]
      BY <1>2, <2>1
    <3>2. CASE j = 1
      BY <2>5, <3>1, <3>2
    <3>3. CASE j # 1
      <4>1. l + 1 \in 1 .. k /\ k + 1 - (l + 1) = j - 1
        BY <3>1, <3>3
      <4>2. g[l + 1] = h[k + 1 - (l + 1)]
        BY <2>1, <4>1
      <4>3. g[l + 1] = h[j - 1]
        BY <4>1, <4>2
      <4> QED
        BY <2>5, <3>1, <3>3, <4>3
    <3> QED
      BY <3>2, <3>3
  <2>6. Descends(g, k, b, step) => Ascends(h, k, b, turn)
    <3> SUFFICES ASSUME Descends(g, k, b, step) PROVE Ascends(h, k, b, turn)
      OBVIOUS
    <3>1. \A l \in 1 .. k : g[l] = IF l = k THEN b ELSE step[l][g[l + 1]]
      BY DEF Descends
    <3> QED
      BY <2>3, <2>4, <3>1 DEF Ascends
  <2>7. Ascends(h, k, b, turn) => Descends(g, k, b, step)
    <3> SUFFICES ASSUME Ascends(h, k, b, turn) PROVE Descends(g, k, b, step)
      OBVIOUS
    <3>1. \A j \in 1 .. k : h[j] = IF j = 1 THEN b ELSE turn[j][h[j - 1]]
      BY DEF Ascends
    <3> QED
      BY <2>3, <2>5, <3>1 DEF Descends
  <2> QED
    BY <2>6, <2>7
<1>7. \E g : Descends(g, k, b, step)
  <2>1. PICK h : Ascends(h, k, b, turn)
    BY <1>5
  <2> DEFINE g == [l \in 1 .. k |-> h[k + 1 - l]]
  <2>2. h = [j \in 1 .. k |-> h[j]]
    BY <2>1 DEF Ascends
  <2>3. \A j \in 1 .. k : g[k + 1 - j] = h[j]
    <3> TAKE j \in 1 .. k
    <3>1. k + 1 - j \in 1 .. k /\ k + 1 - (k + 1 - j) = j
      OBVIOUS
    <3> QED
      BY <3>1
  <2> DEFINE hh == [j \in 1 .. k |-> g[k + 1 - j]]
  <2>4. hh = h
    <3> HIDE DEF g
    <3> QED
      BY <2>2, <2>3
  <2>5. Descends(g, k, b, step) <=> Ascends(h, k, b, turn)
    <3>1. g = [l \in 1 .. k |-> h[k + 1 - l]] /\ h = [j \in 1 .. k |-> g[k + 1 - j]]
      BY <2>4
    <3> HIDE DEF g, hh
    <3> QED
      BY <1>6, <3>1
  <2> QED
    BY <2>1, <2>5
<1>8. ASSUME NEW g, Descends(g, k, b, step), NEW l \in 1 .. k PROVE g[l] \in V[l]
  <2> DEFINE h == [j \in 1 .. k |-> g[k + 1 - j]]
  <2>1. g = [i \in 1 .. k |-> g[i]]
    BY <1>8 DEF Descends
  <2>2. \A i \in 1 .. k : k + 1 - i \in 1 .. k /\ h[k + 1 - i] = g[i]
    <3> TAKE i \in 1 .. k
    <3>1. k + 1 - i \in 1 .. k /\ k + 1 - (k + 1 - i) = i
      OBVIOUS
    <3> QED
      BY <3>1
  <2>3. h = [j \in 1 .. k |-> g[k + 1 - j]]
    OBVIOUS
  <2> HIDE DEF h
  <2>4. g = [i \in 1 .. k |-> h[k + 1 - i]]
    BY <2>1, <2>2
  <2>5. Ascends(h, k, b, turn)
    BY <1>6, <1>8, <2>3, <2>4, SMTT(30)
  <2>6. h[k + 1 - l] \in W[k + 1 - l]
    BY <1>5, <2>2, <2>5
  <2>7. PICK j \in 1 .. k : j = k + 1 - l /\ k + 1 - j = l
    OBVIOUS
  <2> QED
    BY <1>1, <2>2, <2>6, <2>7
<1> QED
  BY <1>7, <1>8

(* Each level has twice the nodes of the one above                         *)
(* (weighted_picker.cc:15-19).                                             *)
LEMMA LevelSizes ==
  ASSUME WP!WeightedPickerAssumption
  PROVE  /\ WP!LevelSize(1) = 1
         /\ \A l \in 1 .. MaxElements + 1 : WP!LevelSize(l) \in Nat /\ WP!LevelSize(l) >= l
         /\ \A l \in 1 .. MaxElements : WP!LevelSize(l + 1) = 2 * WP!LevelSize(l)
<1> DEFINE k == MaxElements + 1
           Is(d) == d = [l \in 1 .. k |-> IF l = 1 THEN 1 ELSE 2 * d[l - 1]]
           V == [l \in 1 .. k |-> {x \in Nat : x >= l}]
           step == [l \in 2 .. k |-> [x \in Nat |-> 2 * x]]
<1>1. k \in Nat \ {0} /\ MaxElements \in Nat
  BY DEF WP!WeightedPickerAssumption
<1> HIDE DEF k
<1>2. ASSUME NEW l \in 2 .. k, NEW x \in V[l - 1]
      PROVE  x \in Nat /\ step[l][x] = 2 * x /\ step[l][x] \in V[l]
  <2>1. l - 1 \in 1 .. k /\ l \in 1 .. k
    BY <1>1
  <2>2. V[l - 1] = {y \in Nat : y >= l - 1} /\ V[l] = {y \in Nat : y >= l}
    BY <2>1
  <2>3. x \in Nat /\ x >= l - 1 /\ step[l][x] = 2 * x
    BY <2>2
  <2>4. 2 * x \in Nat /\ 2 * x >= l
    BY <2>3
  <2> QED
    BY <2>2, <2>3, <2>4
<1>3. PICK b : b = 1
  OBVIOUS
<1>4. b \in V[1] /\ \A l \in 1 .. k : V[l] = {y \in Nat : y >= l}
  BY <1>1, <1>3
<1> HIDE DEF V, step
<1>5. /\ \E g : Ascends(g, k, b, step)
      /\ \A g : Ascends(g, k, b, step) => \A l \in 1 .. k : g[l] \in V[l]
  BY <1>1, <1>2, <1>4, Ascent
<1>6. PICK g : Ascends(g, k, b, step)
  BY <1>5
<1>7. Is(g)
  <2>1. ASSUME NEW l \in 1 .. k, l # 1 PROVE step[l][g[l - 1]] = 2 * g[l - 1]
    <3>1. l - 1 \in 1 .. k /\ l \in 2 .. k
      BY <1>1, <2>1
    <3>2. g[l - 1] \in V[l - 1]
      BY <1>5, <1>6, <3>1
    <3> QED
      BY <1>2, <3>1, <3>2
  <2> QED
    BY <1>3, <1>6, <2>1 DEF Ascends
<1> DEFINE d == CHOOSE x : Is(x)
<1>8. Is(d)
  <2> HIDE DEF Is
  <2> QED
    BY <1>7
<1>9. \A l : WP!LevelSize(l) = d[l]
  BY DEF WP!LevelSize, k
<1> HIDE DEF d
<1>10. /\ d = [l \in 1 .. k |-> d[l]]
       /\ \A l \in 1 .. k : d[l] = IF l = 1 THEN 1 ELSE 2 * d[l - 1]
  BY <1>8
<1> HIDE DEF Is
<1> DEFINE S == {j \in Nat : j + 1 <= k => d[j + 1] \in Nat /\ d[j + 1] >= j + 1}
<1>11. 0 \in S
  <2>1. 0 + 1 = 1 /\ 1 \in 1 .. k
    BY <1>1
  <2>2. d[1] = 1
    BY <1>10, <2>1
  <2> QED
    BY <2>1, <2>2
<1>12. ASSUME NEW j \in Nat, j \in S PROVE j + 1 \in S
  <2> SUFFICES ASSUME (j + 1) + 1 <= k PROVE d[(j + 1) + 1] \in Nat /\ d[(j + 1) + 1] >= (j + 1) + 1
    OBVIOUS
  <2>1. PICK i \in 1 .. k : i = (j + 1) + 1 /\ i - 1 = j + 1 /\ i # 1
    BY <1>1
  <2>2. d[i - 1] \in Nat /\ d[i - 1] >= i - 1
    BY <1>1, <1>12, <2>1
  <2>3. d[i] = 2 * d[i - 1]
    BY <1>10, <2>1
  <2>4. d[i] \in Nat /\ d[i] >= i
    BY <2>1, <2>2, <2>3
  <2> QED
    BY <2>1, <2>4
<1>13. \A j \in Nat : j \in S
  <2> HIDE DEF S
  <2> QED
    BY <1>11, <1>12, Induction
<1>14. ASSUME NEW l \in 1 .. k PROVE d[l] \in Nat /\ d[l] >= l
  <2>1. PICK j \in Nat : l = j + 1
    <3>1. l - 1 \in Nat /\ l = (l - 1) + 1
      BY <1>1
    <3> QED
      BY <3>1
  <2>2. j + 1 <= k
    BY <1>1, <2>1
  <2> QED
    BY <1>13, <2>1, <2>2
<1>15. ASSUME NEW l \in 1 .. MaxElements PROVE d[l + 1] = 2 * d[l]
  <2>1. PICK i \in 1 .. k : i = l + 1 /\ i - 1 = l /\ i # 1
    BY <1>1 DEF k
  <2> QED
    BY <1>10, <2>1
<1>16. d[1] = 1
  <2>1. 1 \in 1 .. k
    BY <1>1
  <2> QED
    BY <1>10, <2>1
<1> QED
  BY <1>9, <1>14, <1>15, <1>16 DEF k

(* The levels for n elements have room for them                            *)
(* (weighted_picker.cc:15-19).                                             *)
LEMMA LevelsEnough ==
  ASSUME WP!WeightedPickerAssumption, NEW n \in 0 .. MaxElements
  PROVE  WP!NumLevels(n) \in 1 .. MaxElements + 1 /\ WP!LevelSize(WP!NumLevels(n)) >= n
<1> DEFINE Enough(k) == WP!LevelSize(k) >= n
           Tight(k) == Enough(k) /\ (k = 1 \/ WP!LevelSize(k - 1) < n)
           Past == {k \in 1 .. n + 1 : Enough(k)}
<1>1. n \in Nat /\ MaxElements \in Nat /\ \A k \in 1 .. n + 1 : k \in 1 .. MaxElements + 1
  BY DEF WP!WeightedPickerAssumption
<1>2. \A k \in 1 .. n + 1 : WP!LevelSize(k) \in Nat /\ WP!LevelSize(k) >= k
  BY <1>1, LevelSizes
<1>3. n + 1 \in Past
  <2>1. n + 1 \in 1 .. n + 1
    BY <1>1
  <2>2. WP!LevelSize(n + 1) \in Nat /\ WP!LevelSize(n + 1) >= n + 1
    BY <1>2, <2>1
  <2>3. WP!LevelSize(n + 1) >= n
    BY <1>1, <2>2
  <2> QED
    BY <2>1, <2>3
<1>4. PICK k \in Past : \A j \in Past : k <= j
  <2>1. Past \subseteq Nat
    BY <1>1
  <2> HIDE DEF Past
  <2> QED
    BY <1>3, <2>1, LeastElement
<1>5. k \in 1 .. n + 1 /\ Tight(k)
  <2>1. CASE k = 1
    BY <1>4, <2>1
  <2>2. CASE k # 1
    <3>1. k - 1 \in 1 .. n + 1 /\ ~(k <= k - 1)
      BY <1>1, <2>2
    <3>2. ~Enough(k - 1)
      BY <1>4, <3>1
    <3>3. WP!LevelSize(k - 1) \in Nat
      BY <1>2, <3>1
    <3> QED
      BY <1>1, <1>4, <3>2, <3>3
  <2> QED
    BY <2>1, <2>2
<1>6. WP!NumLevels(n) = CHOOSE j \in 1 .. n + 1 : Tight(j)
  BY DEF WP!NumLevels
<1>7. WP!NumLevels(n) \in 1 .. n + 1 /\ Tight(WP!NumLevels(n))
  <2> HIDE DEF Tight
  <2> QED
    BY <1>5, <1>6
<1> QED
  BY <1>1, <1>7

(* t is a tree of k levels over the leaves f. *)
TreeOf(t, k, f) ==
  /\ k \in 1 .. MaxElements + 1
  /\ t = [l \in 1 .. k |-> t[l]]
  /\ \A l \in 1 .. k : t[l] \in [1 .. WP!LevelSize(l) -> Int]
  /\ f \in [1 .. WP!LevelSize(k) -> Nat] /\ t[k] = f
  /\ \A l \in 1 .. k - 1 : \A i \in 1 .. WP!LevelSize(l) :
       t[l][i] = t[l + 1][2 * i - 1] + t[l + 1][2 * i]

(* What follows for its levels. *)
LEMMA TreeLevels ==
  ASSUME WP!WeightedPickerAssumption, NEW t, NEW k, NEW f, TreeOf(t, k, f)
  PROVE  Len(t) = k /\ k \in Nat /\ WP!LevelSize(k) \in Nat /\ WP!Leaves(t) = f
<1>1. k \in 1 .. MaxElements + 1 /\ k \in Nat
  BY DEF TreeOf, WP!WeightedPickerAssumption
<1> DEFINE S == UNION {[1 .. WP!LevelSize(l) -> Int] : l \in 1 .. k}
<1>2. \A l \in 1 .. k : t[l] \in S
  BY DEF TreeOf
<1> HIDE DEF S
<1>3. t \in [1 .. k -> S]
  BY <1>2 DEF TreeOf
<1>4. Len(t) = k
  BY <1>1, <1>3, Listed
<1> QED
  BY <1>1, <1>4, LevelSizes DEF TreeOf, WP!Leaves

(* The leaves that begin with ws. *)
Padded(k, ws) == [i \in 1 .. WP!LevelSize(k) |-> IF i <= Len(ws) THEN ws[i] ELSE 0]

(* RebuildTreeWeights (weighted_picker.cc:152-160). *)
Rebuilds(g, k, ws) ==
  g = [l \in 1 .. k |-> IF l = k THEN Padded(l, ws)
                        ELSE [i \in 1 .. WP!LevelSize(l) |-> g[l + 1][2 * i - 1] + g[l + 1][2 * i]]]

(* It builds the tree over them. *)
LEMMA TreeIs ==
  ASSUME WP!WeightedPickerAssumption, NEW k \in 1 .. MaxElements + 1, NEW ws \in Seq(Nat)
  PROVE  TreeOf(WP!Tree(k, ws), k, Padded(k, ws))
<1>1. k \in Nat \ {0} /\ MaxElements \in Nat
  BY DEF WP!WeightedPickerAssumption
<1>2. \A l \in 1 .. k : WP!LevelSize(l) \in Nat
  BY <1>1, LevelSizes
<1>3. \A l \in 1 .. k - 1 : WP!LevelSize(l + 1) = 2 * WP!LevelSize(l)
  BY <1>1, LevelSizes
<1> DEFINE V == [l \in 1 .. k |-> [1 .. WP!LevelSize(l) -> Int]]
           step == [l \in 1 .. k |-> [x \in V[l + 1] |->
                      [i \in 1 .. WP!LevelSize(l) |-> x[2 * i - 1] + x[2 * i]]]]
           b == Padded(k, ws)
<1>4. b \in [1 .. WP!LevelSize(k) -> Nat] /\ b \in V[k]
  <2>1. \A i \in 1 .. Len(ws) : ws[i] \in Nat
    BY ElementOfSeq
  <2>2. Len(ws) \in Nat /\ WP!LevelSize(k) \in Nat
    BY <1>1, <1>2, LenProperties
  <2>3. b \in [1 .. WP!LevelSize(k) -> Nat]
    BY <2>1, <2>2 DEF Padded
  <2> HIDE DEF b
  <2>4. b \in [1 .. WP!LevelSize(k) -> Int]
    BY <2>3
  <2> QED
    BY <1>1, <2>3, <2>4
<1> HIDE DEF b
<1>5. ASSUME NEW l \in 1 .. k - 1, NEW x \in V[l + 1]
      PROVE  /\ step[l][x] = [i \in 1 .. WP!LevelSize(l) |-> x[2 * i - 1] + x[2 * i]]
             /\ step[l][x] \in V[l]
  <2>1. l \in 1 .. k /\ l + 1 \in 1 .. k
    BY <1>1
  <2>2. step[l][x] = [i \in 1 .. WP!LevelSize(l) |-> x[2 * i - 1] + x[2 * i]]
    BY <2>1
  <2>3. x \in [1 .. 2 * WP!LevelSize(l) -> Int]
    BY <1>3, <2>1
  <2>4. ASSUME NEW i \in 1 .. WP!LevelSize(l) PROVE x[2 * i - 1] + x[2 * i] \in Int
    <3>1. 2 * i - 1 \in 1 .. 2 * WP!LevelSize(l) /\ 2 * i \in 1 .. 2 * WP!LevelSize(l)
      BY <1>2, <2>1
    <3>2. x[2 * i - 1] \in Int /\ x[2 * i] \in Int
      BY <2>3, <3>1
    <3> QED
      BY <3>2
  <2>5. V[l] = [1 .. WP!LevelSize(l) -> Int]
    BY <2>1
  <2> HIDE DEF V, step
  <2> QED
    BY <2>2, <2>4, <2>5
<1>6. \A l \in 1 .. k : V[l] = [1 .. WP!LevelSize(l) -> Int]
  OBVIOUS
<1> HIDE DEF V, step
<1>7. /\ \E g : Descends(g, k, b, step)
      /\ \A g : Descends(g, k, b, step) => \A l \in 1 .. k : g[l] \in V[l]
  BY <1>1, <1>4, <1>5, Descent
<1>8. PICK g : Descends(g, k, b, step)
  BY <1>7
<1>9. Rebuilds(g, k, ws)
  <2>1. ASSUME NEW l \in 1 .. k, l # k
        PROVE  step[l][g[l + 1]] = [i \in 1 .. WP!LevelSize(l) |-> g[l + 1][2 * i - 1] + g[l + 1][2 * i]]
    <3>1. l \in 1 .. k - 1 /\ l + 1 \in 1 .. k
      BY <1>1, <2>1
    <3>2. g[l + 1] \in V[l + 1]
      BY <1>7, <1>8, <3>1
    <3> QED
      BY <1>5, <3>1, <3>2
  <2>2. \A l \in 1 .. k : g[l] = IF l = k THEN Padded(l, ws)
          ELSE [i \in 1 .. WP!LevelSize(l) |-> g[l + 1][2 * i - 1] + g[l + 1][2 * i]]
    BY <1>8, <2>1 DEF Descends, b
  <2>3. g = [l \in 1 .. k |-> g[l]]
    BY <1>8 DEF Descends
  <2> QED
    BY <2>2, <2>3 DEF Rebuilds
<1> DEFINE h == CHOOSE x : Rebuilds(x, k, ws)
<1>10. Rebuilds(h, k, ws)
  BY <1>9
<1>11. WP!Tree(k, ws) = [l \in 1 .. k |-> h[l]]
  BY DEF WP!Tree, Rebuilds, Padded
<1> HIDE DEF h
<1>12. /\ h = [l \in 1 .. k |-> h[l]] /\ h[k] = b
       /\ \A l \in 1 .. k - 1 :
            h[l] = [i \in 1 .. WP!LevelSize(l) |-> h[l + 1][2 * i - 1] + h[l + 1][2 * i]]
  <2>1. h = [l \in 1 .. k |-> h[l]]
    BY <1>10 DEF Rebuilds
  <2>2. \A l \in 1 .. k : h[l] = IF l = k THEN Padded(l, ws)
          ELSE [i \in 1 .. WP!LevelSize(l) |-> h[l + 1][2 * i - 1] + h[l + 1][2 * i]]
    BY <1>10 DEF Rebuilds
  <2>3. k \in 1 .. k /\ \A l \in 1 .. k - 1 : l \in 1 .. k /\ l # k
    BY <1>1
  <2>4. h[k] = b
    BY <2>2, <2>3 DEF b
  <2>5. \A l \in 1 .. k - 1 :
            h[l] = [i \in 1 .. WP!LevelSize(l) |-> h[l + 1][2 * i - 1] + h[l + 1][2 * i]]
    BY <2>2, <2>3
  <2> QED
    BY <2>1, <2>4, <2>5
<1>13. \A l \in 1 .. k : h[l] \in [1 .. WP!LevelSize(l) -> Int]
  <2> DEFINE S == {j \in Nat : j + 1 <= k => h[k - j] \in V[k - j]}
  <2>1. 0 \in S
    BY <1>1, <1>4, <1>12
  <2>2. ASSUME NEW j \in Nat, j \in S PROVE j + 1 \in S
    <3> SUFFICES ASSUME (j + 1) + 1 <= k PROVE h[k - (j + 1)] \in V[k - (j + 1)]
      OBVIOUS
    <3>1. PICK l \in 1 .. k - 1 : l = k - (j + 1) /\ l + 1 = k - j
      BY <1>1
    <3>2. h[l + 1] \in V[l + 1]
      BY <1>1, <2>2, <3>1
    <3>3. step[l][h[l + 1]] = h[l] /\ step[l][h[l + 1]] \in V[l]
      BY <1>5, <1>12, <3>2
    <3> QED
      BY <3>1, <3>3
  <2>3. \A j \in Nat : j \in S
    <3> HIDE DEF S
    <3> QED
      BY <2>1, <2>2, Induction
  <2>4. ASSUME NEW l \in 1 .. k PROVE h[l] \in V[l]
    <3>1. PICK j \in Nat : l = k - j /\ j + 1 <= k
      <4>1. k - l \in Nat /\ l = k - (k - l) /\ (k - l) + 1 <= k
        BY <1>1
      <4> QED
        BY <4>1
    <3> QED
      BY <2>3, <3>1
  <2> QED
    BY <1>6, <2>4
<1>14. ASSUME NEW l \in 1 .. k - 1, NEW i \in 1 .. WP!LevelSize(l)
       PROVE  h[l][i] = h[l + 1][2 * i - 1] + h[l + 1][2 * i]
  BY <1>12
<1>15. WP!Tree(k, ws) = h
  BY <1>11, <1>12
<1> QED
  BY <1>4, <1>12, <1>13, <1>14, <1>15 DEF TreeOf, b

(* The node above node x of the next level. *)
LEMMA Parent ==
  ASSUME NEW n \in Nat, NEW x \in 1 .. 2 * n
  PROVE  /\ (x - 1) \div 2 + 1 \in 1 .. n
         /\ \A j \in 1 .. n : j = (x - 1) \div 2 + 1 <=> (x = 2 * j - 1 \/ x = 2 * j)
OBVIOUS

(* The nodes above the leaf i (weighted_picker.cc:124-127). *)
Nodes(g, k, i) == g = [l \in 1 .. k |-> IF l = k THEN i ELSE (g[l + 1] - 1) \div 2 + 1]
Above(k, i) == CHOOSE g : Nodes(g, k, i)

(* There is one in each level. *)
LEMMA AboveIs ==
  ASSUME WP!WeightedPickerAssumption, NEW k \in 1 .. MaxElements + 1, NEW i \in 1 .. WP!LevelSize(k)
  PROVE  /\ \A l \in 1 .. k : Above(k, i)[l] \in 1 .. WP!LevelSize(l)
         /\ Above(k, i)[k] = i
         /\ \A l \in 1 .. k - 1 : \A j \in 1 .. WP!LevelSize(l) :
              j = Above(k, i)[l] <=> (Above(k, i)[l + 1] = 2 * j - 1 \/ Above(k, i)[l + 1] = 2 * j)
<1>1. k \in Nat \ {0} /\ MaxElements \in Nat
  BY DEF WP!WeightedPickerAssumption
<1>2. /\ \A l \in 1 .. k : WP!LevelSize(l) \in Nat
      /\ \A l \in 1 .. k - 1 : WP!LevelSize(l + 1) = 2 * WP!LevelSize(l)
  BY <1>1, LevelSizes
<1> DEFINE V == [l \in 1 .. k |-> 1 .. WP!LevelSize(l)]
           step == [l \in 1 .. k |-> [x \in V[l + 1] |-> (x - 1) \div 2 + 1]]
<1>3. \A l \in 1 .. k : V[l] = 1 .. WP!LevelSize(l)
  OBVIOUS
<1>4. \A l \in 1 .. k : \A x \in V[l + 1] : step[l][x] = (x - 1) \div 2 + 1
  OBVIOUS
<1> HIDE DEF V, step
<1>5. ASSUME NEW l \in 1 .. k - 1, NEW x \in V[l + 1]
      PROVE  /\ step[l][x] \in V[l] /\ x \in 1 .. 2 * WP!LevelSize(l)
             /\ step[l][x] = (x - 1) \div 2 + 1
  <2>1. l \in 1 .. k /\ l + 1 \in 1 .. k
    BY <1>1
  <2>2. x \in 1 .. 2 * WP!LevelSize(l)
    BY <1>2, <1>3, <2>1
  <2>3. PICK n \in Nat : n = WP!LevelSize(l)
    BY <1>2, <2>1
  <2>4. (x - 1) \div 2 + 1 \in 1 .. n
    BY <2>2, <2>3, Parent
  <2> QED
    BY <1>3, <1>4, <2>1, <2>2, <2>3, <2>4
<1>6. i \in V[k]
  <2>1. k \in 1 .. k
    BY <1>1
  <2> QED
    BY <1>3, <2>1
<1>7. /\ \E g : Descends(g, k, i, step)
      /\ \A g : Descends(g, k, i, step) => \A l \in 1 .. k : g[l] \in V[l]
  BY <1>1, <1>5, <1>6, Descent
<1>8. PICK g : Descends(g, k, i, step)
  BY <1>7
<1>9. Nodes(g, k, i)
  <2>1. ASSUME NEW l \in 1 .. k, l # k PROVE step[l][g[l + 1]] = (g[l + 1] - 1) \div 2 + 1
    <3>1. l \in 1 .. k - 1 /\ l + 1 \in 1 .. k
      BY <1>1, <2>1
    <3>2. g[l + 1] \in V[l + 1]
      BY <1>7, <1>8, <3>1
    <3> QED
      BY <1>5, <3>1, <3>2
  <2> QED
    BY <1>8, <2>1 DEF Descends, Nodes
<1> DEFINE h == Above(k, i)
<1>10. Nodes(h, k, i)
  BY <1>9 DEF Above
<1> HIDE DEF h
<1>11. h[k] = i /\ \A l \in 1 .. k - 1 : h[l] = (h[l + 1] - 1) \div 2 + 1
  <2>1. \A l \in 1 .. k : h[l] = IF l = k THEN i ELSE (h[l + 1] - 1) \div 2 + 1
    BY <1>10 DEF Nodes
  <2>2. k \in 1 .. k /\ \A l \in 1 .. k - 1 : l \in 1 .. k /\ l # k
    BY <1>1
  <2> QED
    BY <2>1, <2>2
<1>12. \A l \in 1 .. k : h[l] \in V[l]
  <2> DEFINE S == {j \in Nat : j + 1 <= k => h[k - j] \in V[k - j]}
  <2>1. 0 \in S
    BY <1>1, <1>6, <1>11
  <2>2. ASSUME NEW j \in Nat, j \in S PROVE j + 1 \in S
    <3> SUFFICES ASSUME (j + 1) + 1 <= k PROVE h[k - (j + 1)] \in V[k - (j + 1)]
      OBVIOUS
    <3>1. PICK l \in 1 .. k - 1 : l = k - (j + 1) /\ l + 1 = k - j
      BY <1>1
    <3>2. h[l + 1] \in V[l + 1]
      BY <1>1, <2>2, <3>1
    <3>3. step[l][h[l + 1]] = h[l] /\ step[l][h[l + 1]] \in V[l]
      BY <1>5, <1>11, <3>2
    <3> QED
      BY <3>1, <3>3
  <2>3. \A j \in Nat : j \in S
    <3> HIDE DEF S
    <3> QED
      BY <2>1, <2>2, Induction
  <2> TAKE l \in 1 .. k
  <2>4. PICK j \in Nat : l = k - j /\ j + 1 <= k
    <3>1. k - l \in Nat /\ l = k - (k - l) /\ (k - l) + 1 <= k
      BY <1>1
    <3> QED
      BY <3>1
  <2> QED
    BY <2>3, <2>4
<1>13. ASSUME NEW l \in 1 .. k - 1, NEW j \in 1 .. WP!LevelSize(l)
       PROVE  j = h[l] <=> (h[l + 1] = 2 * j - 1 \/ h[l + 1] = 2 * j)
  <2>1. l \in 1 .. k /\ l + 1 \in 1 .. k
    BY <1>1
  <2>2. PICK x : x = h[l + 1] /\ x \in 1 .. 2 * WP!LevelSize(l) /\ h[l] = (x - 1) \div 2 + 1
    BY <1>2, <1>3, <1>11, <1>12, <2>1
  <2>3. PICK n \in Nat : n = WP!LevelSize(l)
    BY <1>2, <2>1
  <2>4. j \in 1 .. n /\ x \in 1 .. 2 * n
    BY <2>2, <2>3
  <2>5. j = (x - 1) \div 2 + 1 <=> (x = 2 * j - 1 \/ x = 2 * j)
    BY <2>4, Parent
  <2> QED
    BY <2>2, <2>5
<1> QED
  BY <1>3, <1>11, <1>12, <1>13 DEF h

(* A level with d added to node n. *)
Bumped(f, n, d) == [f EXCEPT ![n] = f[n] + d]

(* What it is, node by node. *)
LEMMA BumpedIs ==
  ASSUME NEW m, NEW f \in [m -> Int], NEW n \in m, NEW d \in Int
  PROVE  /\ Bumped(f, n, d) \in [m -> Int]
         /\ \A j \in m : Bumped(f, n, d)[j] = IF j = n THEN f[j] + d ELSE f[j]
BY DEF Bumped

(* set_weight adds the difference to each of these nodes                   *)
(* (weighted_picker.cc:118-128).                                           *)
LEMMA SetWeightIs ==
  ASSUME NEW t, NEW i, NEW w
  PROVE  WP!SetWeight(t, i, w) =
           [l \in 1 .. Len(t) |-> Bumped(t[l], Above(Len(t), i)[l], w - WP!Leaves(t)[i])]
BY DEF WP!SetWeight, Bumped, Above, Nodes

(* It leaves a tree over the leaves with the new weight                    *)
(* (weighted_picker.cc:118-128).                                           *)
LEMMA SetWeightKeeps ==
  ASSUME WP!WeightedPickerAssumption, NEW t, NEW k, NEW f, TreeOf(t, k, f),
         NEW i \in 1 .. WP!LevelSize(k), NEW w \in Nat
  PROVE  TreeOf(WP!SetWeight(t, i, w), k, [f EXCEPT ![i] = w])
<1>1. /\ k \in 1 .. MaxElements + 1 /\ k \in Nat /\ MaxElements \in Nat
      /\ Len(t) = k /\ WP!Leaves(t) = f
      /\ \A l \in 1 .. k : WP!LevelSize(l) \in Nat
      /\ \A l \in 1 .. k - 1 : WP!LevelSize(l + 1) = 2 * WP!LevelSize(l)
  <2>1. k \in 1 .. MaxElements + 1 /\ MaxElements \in Nat
    BY DEF TreeOf, WP!WeightedPickerAssumption
  <2>2. k \in Nat /\ Len(t) = k /\ WP!Leaves(t) = f
    BY TreeLevels
  <2>3. \A l \in 1 .. k : l \in 1 .. MaxElements + 1
    BY <2>1
  <2>4. \A l \in 1 .. k - 1 : l \in 1 .. MaxElements
    BY <2>1
  <2> QED
    BY <2>1, <2>2, <2>3, <2>4, LevelSizes
<1> DEFINE n == Above(k, i)
           d == w - f[i]
           u == [l \in 1 .. k |-> Bumped(t[l], n[l], d)]
<1>2. /\ \A l \in 1 .. k : n[l] \in 1 .. WP!LevelSize(l)
      /\ n[k] = i
      /\ \A l \in 1 .. k - 1 : \A j \in 1 .. WP!LevelSize(l) :
           j = n[l] <=> (n[l + 1] = 2 * j - 1 \/ n[l + 1] = 2 * j)
  BY <1>1, AboveIs
<1>3. WP!SetWeight(t, i, w) = u
  BY <1>1, SetWeightIs
<1> HIDE DEF n
<1>4. /\ f \in [1 .. WP!LevelSize(k) -> Nat] /\ t[k] = f
      /\ \A l \in 1 .. k : t[l] \in [1 .. WP!LevelSize(l) -> Int]
      /\ \A l \in 1 .. k - 1 : \A j \in 1 .. WP!LevelSize(l) :
           t[l][j] = t[l + 1][2 * j - 1] + t[l + 1][2 * j]
  BY DEF TreeOf
<1>5. d \in Int /\ f[i] \in Nat
  BY <1>4
<1> HIDE DEF d
<1>6. ASSUME NEW l \in 1 .. k
      PROVE  /\ u[l] \in [1 .. WP!LevelSize(l) -> Int]
             /\ \A j \in 1 .. WP!LevelSize(l) : u[l][j] = IF j = n[l] THEN t[l][j] + d ELSE t[l][j]
  <2>1. u[l] = Bumped(t[l], n[l], d)
    OBVIOUS
  <2>2. t[l] \in [1 .. WP!LevelSize(l) -> Int]
    BY <1>4
  <2> QED
    <3> DEFINE m == 1 .. WP!LevelSize(l)
    <3>1. PICK F \in [m -> Int], N \in m, D \in Int : F = t[l] /\ N = n[l] /\ D = d
      BY <1>2, <1>5, <2>2
    <3>2. u[l] = Bumped(F, N, D)
      BY <2>1, <3>1
    <3> HIDE DEF m, u
    <3>3. /\ Bumped(F, N, D) \in [m -> Int]
          /\ \A j \in m : Bumped(F, N, D)[j] = IF j = N THEN F[j] + D ELSE F[j]
      BY BumpedIs
    <3> QED
      BY <3>1, <3>2, <3>3 DEF m
<1>7. u = [l \in 1 .. k |-> u[l]]
  OBVIOUS
<1> HIDE DEF u
<1>8. /\ u[k] = [f EXCEPT ![i] = w]
      /\ [f EXCEPT ![i] = w] \in [1 .. WP!LevelSize(k) -> Nat]
  <2>1. /\ u[k] \in [1 .. WP!LevelSize(k) -> Int]
        /\ \A j \in 1 .. WP!LevelSize(k) : u[k][j] = IF j = i THEN f[j] + d ELSE f[j]
    BY <1>1, <1>2, <1>4, <1>6
  <2>2. f[i] + d = w
    BY <1>5 DEF d
  <2> QED
    BY <1>4, <2>1, <2>2
<1>9. ASSUME NEW l \in 1 .. k - 1, NEW j \in 1 .. WP!LevelSize(l)
      PROVE  u[l][j] = u[l + 1][2 * j - 1] + u[l + 1][2 * j]
  <2>1. l \in 1 .. k /\ l + 1 \in 1 .. k
    BY <1>1
  <2>2. PICK x \in 1 .. WP!LevelSize(l + 1), y \in 1 .. WP!LevelSize(l + 1) :
          x = 2 * j - 1 /\ y = 2 * j /\ x # y
    <3>1. 2 * j - 1 \in 1 .. 2 * WP!LevelSize(l) /\ 2 * j \in 1 .. 2 * WP!LevelSize(l)
      BY <1>1, <2>1
    <3>2. 2 * j - 1 # 2 * j
      OBVIOUS
    <3> QED
      BY <1>1, <3>1, <3>2
  <2>3. /\ u[l + 1][x] = IF x = n[l + 1] THEN t[l + 1][x] + d ELSE t[l + 1][x]
        /\ u[l + 1][y] = IF y = n[l + 1] THEN t[l + 1][y] + d ELSE t[l + 1][y]
        /\ u[l][j] = IF j = n[l] THEN t[l][j] + d ELSE t[l][j]
    BY <1>6, <2>1
  <2>4. t[l + 1][x] \in Int /\ t[l + 1][y] \in Int /\ t[l][j] = t[l + 1][x] + t[l + 1][y]
    BY <1>4, <2>1, <2>2
  <2>5. j = n[l] <=> (n[l + 1] = x \/ n[l + 1] = y)
    BY <1>2, <2>2
  <2>6. u[l][j] = u[l + 1][x] + u[l + 1][y]
    <3>1. CASE n[l + 1] = x
      BY <1>5, <2>2, <2>3, <2>4, <2>5, <3>1
    <3>2. CASE n[l + 1] = y
      BY <1>5, <2>2, <2>3, <2>4, <2>5, <3>2
    <3>3. CASE n[l + 1] # x /\ n[l + 1] # y
      BY <2>3, <2>4, <2>5, <3>3
    <3> QED
      BY <3>1, <3>2, <3>3
  <2> QED
    BY <2>2, <2>6
<1> DEFINE e == [f EXCEPT ![i] = w]
<1>10. e \in [1 .. WP!LevelSize(k) -> Nat] /\ u[k] = e
  BY <1>8
<1> HIDE DEF e
<1>11. TreeOf(u, k, e)
  BY <1>1, <1>6, <1>7, <1>9, <1>10 DEF TreeOf
<1> QED
  BY <1>3, <1>11 DEF e

(* Where the trees of k levels are. *)
Trees(k) == [1 .. k -> UNION {[1 .. WP!LevelSize(l) -> Int] : l \in 1 .. k}]

(* Every tree is there. *)
LEMMA TreeIn ==
  ASSUME NEW t, NEW k, NEW f, TreeOf(t, k, f)
  PROVE  t \in Trees(k)
<1> DEFINE S == UNION {[1 .. WP!LevelSize(l) -> Int] : l \in 1 .. k}
<1>1. \A l \in 1 .. k : t[l] \in S
  BY DEF TreeOf
<1>2. t = [l \in 1 .. k |-> t[l]]
  BY DEF TreeOf
<1> HIDE DEF S
<1>3. t \in [1 .. k -> S]
  BY <1>1, <1>2
<1> QED
  BY <1>3 DEF S, Trees

(* The elements behind n and up to i without their weight. *)
Cleared(k, f, n, i) == [j \in 1 .. WP!LevelSize(k) |-> IF n < j /\ j <= i THEN 0 ELSE f[j]]

(* One more element cleared. *)
LEMMA ClearedTurn ==
  ASSUME WP!WeightedPickerAssumption, NEW t, NEW k, NEW f \in [1 .. WP!LevelSize(k) -> Nat],
         NEW n \in Nat, NEW i \in 1 .. WP!LevelSize(k), n < i, WP!LevelSize(k) \in Nat,
         TreeOf(t, k, Cleared(k, f, n, i - 1))
  PROVE  TreeOf(WP!SetWeight(t, i, 0), k, Cleared(k, f, n, i))
<1> DEFINE g == Cleared(k, f, n, i - 1)
<1>1. TreeOf(WP!SetWeight(t, i, 0), k, [g EXCEPT ![i] = 0])
  BY SetWeightKeeps
<1>2. [g EXCEPT ![i] = 0] = Cleared(k, f, n, i)
  <2> DEFINE e == [g EXCEPT ![i] = 0]
             c == Cleared(k, f, n, i)
  <2>1. e = [j \in 1 .. WP!LevelSize(k) |-> e[j]] /\ c = [j \in 1 .. WP!LevelSize(k) |-> c[j]]
    BY DEF Cleared
  <2>2. ASSUME NEW j \in 1 .. WP!LevelSize(k) PROVE e[j] = c[j]
    <3>1. j \in Nat /\ i \in Nat
      OBVIOUS
    <3>2. CASE j = i
      BY <3>1, <3>2 DEF Cleared
    <3>3. CASE j # i
      <4>1. e[j] = g[j]
        BY <3>3 DEF Cleared
      <4>2. (n < j /\ j <= i - 1) <=> (n < j /\ j <= i)
        BY <3>1, <3>3
      <4> QED
        BY <4>1, <4>2 DEF Cleared
    <3> QED
      BY <3>2, <3>3
  <2> HIDE DEF e, c
  <2> QED
    BY <2>1, <2>2 DEF e, c
<1> QED
  BY <1>1, <1>2

(* c holds what Resize makes of t, element by element. *)
Clears(c, t, n, m) == c = [i \in n .. m |-> IF i = n THEN t ELSE WP!SetWeight(c[i - 1], i, 0)]

(* Resize sets what is dropped to 0 (weighted_picker.cc:174-176). *)
LEMMA ClearedIs ==
  ASSUME WP!WeightedPickerAssumption, NEW t, NEW k, NEW f, TreeOf(t, k, f),
         NEW m \in 0 .. WP!LevelSize(k), NEW n \in 0 .. m
  PROVE  TreeOf((CHOOSE c : Clears(c, t, n, m))[m], k, Cleared(k, f, n, m))
<1>1. /\ WP!LevelSize(k) \in Nat /\ f \in [1 .. WP!LevelSize(k) -> Nat]
      /\ m \in Nat /\ n \in Nat /\ n <= m /\ m <= WP!LevelSize(k)
  <2>1. WP!LevelSize(k) \in Nat /\ f \in [1 .. WP!LevelSize(k) -> Nat]
    BY TreeLevels DEF TreeOf
  <2> QED
    BY <2>1
<1>2. TreeOf(t, k, Cleared(k, f, n, n))
  <2>1. f = [j \in 1 .. WP!LevelSize(k) |-> f[j]]
    BY <1>1
  <2>2. \A j \in 1 .. WP!LevelSize(k) : ~(n < j /\ j <= n)
    BY <1>1
  <2>3. Cleared(k, f, n, n) = f
    BY <2>1, <2>2 DEF Cleared
  <2> QED
    BY <2>3
<1>3. PICK d \in Nat : d = m - n /\ m = n + d
  <2>1. m - n \in Nat /\ m = n + (m - n)
    BY <1>1
  <2> QED
    BY <2>1
<1> DEFINE V == [j \in 0 .. d |-> {x \in Trees(k) : TreeOf(x, k, Cleared(k, f, n, n + j))}]
           step == [j \in 1 .. d |-> [x \in V[j - 1] |-> WP!SetWeight(x, n + j, 0)]]
<1>4. \A j \in 0 .. d : \A x : x \in V[j] <=> TreeOf(x, k, Cleared(k, f, n, n + j))
  BY TreeIn
<1>5. \A j \in 1 .. d : \A x \in V[j - 1] : step[j][x] = WP!SetWeight(x, n + j, 0)
  OBVIOUS
<1> HIDE DEF V, step
<1>6. ASSUME NEW i \in n + 1 .. m, NEW x, TreeOf(x, k, Cleared(k, f, n, i - 1))
      PROVE  TreeOf(WP!SetWeight(x, i, 0), k, Cleared(k, f, n, i))
  <2>1. i \in 1 .. WP!LevelSize(k) /\ n < i
    BY <1>1
  <2> QED
    BY <1>1, <1>6, <2>1, ClearedTurn
<1>7. ASSUME NEW j \in 1 .. d, NEW x \in V[j - 1]
      PROVE  step[j][x] \in V[j] /\ step[j][x] = WP!SetWeight(x, n + j, 0)
  <2>1. j - 1 \in 0 .. d /\ j \in 0 .. d
    BY <1>3
  <2>2. PICK i \in n + 1 .. m : i = n + j /\ i - 1 = n + (j - 1)
    BY <1>1, <1>3
  <2>3. TreeOf(x, k, Cleared(k, f, n, i - 1))
    BY <1>4, <2>1, <2>2
  <2>4. TreeOf(WP!SetWeight(x, i, 0), k, Cleared(k, f, n, i))
    BY <1>6, <2>3
  <2> QED
    BY <1>4, <1>5, <2>1, <2>2, <2>4
<1>8. t \in V[0]
  <2>1. 0 \in 0 .. d /\ n + 0 = n
    BY <1>1, <1>3
  <2> QED
    BY <1>2, <1>4, <2>1
<1>9. PICK g : Iterates(g, d, t, step) /\ \A j \in 0 .. d : g[j] \in V[j]
  BY <1>3, <1>7, <1>8, Turns
<1> DEFINE a == [i \in n .. m |-> g[i - n]]
<1>10. Clears(a, t, n, m)
  <2>1. ASSUME NEW i \in n .. m PROVE a[i] = IF i = n THEN t ELSE WP!SetWeight(a[i - 1], i, 0)
    <3>1. CASE i = n
      <4>1. i - n = 0
        BY <1>1, <3>1
      <4> QED
        BY <1>9, <3>1, <4>1 DEF Iterates
    <3>2. CASE i # n
      <4>1. PICK j \in 1 .. d : j = i - n /\ i = n + j /\ j - 1 = (i - 1) - n
        <5>1. i - n \in 1 .. d /\ i = n + (i - n) /\ (i - n) - 1 = (i - 1) - n
          BY <1>1, <1>3, <3>2
        <5> QED
          BY <5>1
      <4>2. i - 1 \in n .. m /\ j - 1 \in 0 .. d
        BY <1>1, <1>3, <3>2, <4>1
      <4>3. g[j] = step[j][g[j - 1]] /\ g[j - 1] \in V[j - 1]
        BY <1>9, <4>2 DEF Iterates
      <4>4. g[j] = WP!SetWeight(g[j - 1], i, 0)
        BY <1>7, <4>1, <4>3
      <4>5. a[i] = g[j] /\ a[i - 1] = g[j - 1]
        BY <4>1, <4>2
      <4> QED
        BY <3>2, <4>4, <4>5
    <3> QED
      BY <3>1, <3>2
  <2>2. a = [i \in n .. m |-> a[i]]
    OBVIOUS
  <2> HIDE DEF a
  <2> QED
    BY <2>1, <2>2 DEF Clears
<1> DEFINE c == CHOOSE x : Clears(x, t, n, m)
<1>11. Clears(c, t, n, m)
  <2> HIDE DEF a
  <2> QED
    BY <1>10
<1> HIDE DEF c
<1>12. \A i \in n .. m : c[i] = IF i = n THEN t ELSE WP!SetWeight(c[i - 1], i, 0)
  BY <1>11 DEF Clears
<1> DEFINE S == {j \in Nat : j <= d => TreeOf(c[n + j], k, Cleared(k, f, n, n + j))}
<1>13. 0 \in S
  <2>1. n + 0 = n /\ n \in n .. m
    BY <1>1
  <2>2. c[n] = t
    BY <1>12, <2>1
  <2> QED
    BY <1>2, <2>1, <2>2
<1>14. ASSUME NEW j \in Nat, j \in S PROVE j + 1 \in S
  <2> SUFFICES ASSUME j + 1 <= d
               PROVE  TreeOf(c[n + (j + 1)], k, Cleared(k, f, n, n + (j + 1)))
    OBVIOUS
  <2>1. PICK i \in n + 1 .. m : i = n + (j + 1) /\ i - 1 = n + j /\ i \in n .. m /\ i # n
    <3>1. n + (j + 1) \in n + 1 .. m /\ (n + (j + 1)) - 1 = n + j
      BY <1>1, <1>3
    <3>2. n + (j + 1) \in n .. m /\ n + (j + 1) # n
      BY <1>1, <1>3
    <3> QED
      BY <3>1, <3>2
  <2>2. TreeOf(c[i - 1], k, Cleared(k, f, n, i - 1))
    BY <1>3, <1>14, <2>1
  <2>3. c[i] = WP!SetWeight(c[i - 1], i, 0)
    BY <1>12, <2>1
  <2> QED
    BY <1>6, <2>1, <2>2, <2>3
<1>15. \A j \in Nat : j \in S
  <2> HIDE DEF S
  <2> QED
    BY <1>13, <1>14, Induction
<1>16. TreeOf(c[m], k, Cleared(k, f, n, m))
  BY <1>3, <1>15
<1> QED
  BY <1>16 DEF c

(* A picker of the weights ws: they and zeroes are the leaves of its tree. *)
PickerOf(t, k, ws) ==
  /\ TreeOf(t, k, Padded(k, ws)) /\ Len(ws) <= WP!LevelSize(k)
  /\ ws \in Seq(Nat) /\ Len(ws) <= MaxElements

(* The inductive invariant of WeightedPicker: the leaves behind the last   *)
(* element are 0 at all times, so that resizing need not touch them        *)
(* (weighted_picker.cc:178-181).                                           *)
PickerInv == size = Len(weights) /\ \E k : PickerOf(levels, k, weights)

(* What these leaves are. *)
LEMMA PaddedIs ==
  ASSUME NEW k, WP!LevelSize(k) \in Nat, NEW ws \in Seq(Nat)
  PROVE  /\ Padded(k, ws) \in [1 .. WP!LevelSize(k) -> Nat]
         /\ \A i \in 1 .. WP!LevelSize(k) : Padded(k, ws)[i] = IF i <= Len(ws) THEN ws[i] ELSE 0
<1>1. Len(ws) \in Nat /\ \A i \in 1 .. Len(ws) : ws[i] \in Nat
  BY LenProperties, ElementOfSeq
<1> QED
  BY <1>1 DEF Padded

(* The same leaves. *)
LEMMA SameLeaves ==
  ASSUME NEW k, NEW ws \in Seq(Nat), WP!LevelSize(k) \in Nat,
         NEW f \in [1 .. WP!LevelSize(k) -> Nat],
         \A i \in 1 .. WP!LevelSize(k) : f[i] = IF i <= Len(ws) THEN ws[i] ELSE 0
  PROVE  f = Padded(k, ws)
<1> DEFINE p == Padded(k, ws)
<1>1. /\ p \in [1 .. WP!LevelSize(k) -> Nat]
      /\ \A i \in 1 .. WP!LevelSize(k) : p[i] = IF i <= Len(ws) THEN ws[i] ELSE 0
  BY PaddedIs
<1> HIDE DEF p
<1>2. ASSUME NEW i \in 1 .. WP!LevelSize(k) PROVE f[i] = p[i]
  BY <1>1
<1>3. f = p
  BY <1>1, <1>2
<1> QED
  BY <1>3 DEF p

(* A tree built anew (weighted_picker.cc:152-160). *)
LEMMA NewTree ==
  ASSUME WP!WeightedPickerAssumption, NEW k \in 1 .. MaxElements + 1, NEW ws \in Seq(Nat),
         Len(ws) <= WP!LevelSize(k), Len(ws) <= MaxElements
  PROVE  PickerOf(WP!Tree(k, ws), k, ws)
BY TreeIs DEF PickerOf

(* What a picker is, part by part. *)
LEMMA SizeIs ==
  ASSUME WP!WeightedPickerAssumption, NEW t, NEW k, NEW ws, PickerOf(t, k, ws)
  PROVE  /\ k \in 1 .. MaxElements + 1 /\ Len(t) = k /\ WP!LevelSize(k) \in Nat
         /\ WP!Leaves(t) = Padded(k, ws) /\ ws \in Seq(Nat) /\ Len(ws) \in Nat
         /\ \A i \in 1 .. Len(ws) : ws[i] \in Nat
         /\ Len(ws) <= WP!LevelSize(k) /\ Len(ws) <= MaxElements /\ MaxElements \in Nat
<1>1. k \in 1 .. MaxElements + 1 /\ TreeOf(t, k, Padded(k, ws))
  BY DEF PickerOf, TreeOf
<1>2. Len(t) = k /\ WP!LevelSize(k) \in Nat /\ WP!Leaves(t) = Padded(k, ws)
  BY <1>1, TreeLevels
<1>3. ws \in Seq(Nat) /\ Len(ws) <= WP!LevelSize(k) /\ Len(ws) <= MaxElements
  BY DEF PickerOf
<1>4. Len(ws) \in Nat /\ \A i \in 1 .. Len(ws) : ws[i] \in Nat
  BY <1>3, LenProperties, ElementOfSeq
<1> QED
  BY <1>1, <1>2, <1>3, <1>4 DEF WP!WeightedPickerAssumption

(* The weights a picker resized to n elements has. *)
Extended(ws, n) == [i \in 1 .. n |-> IF i <= Len(ws) THEN ws[i] ELSE 0]

(* What these are. *)
LEMMA ExtendedIs ==
  ASSUME NEW ws \in Seq(Nat), NEW n \in Nat
  PROVE  /\ Extended(ws, n) \in Seq(Nat) /\ Len(Extended(ws, n)) = n
         /\ \A i \in 1 .. n : Extended(ws, n)[i] = IF i <= Len(ws) THEN ws[i] ELSE 0
<1>1. Len(ws) \in Nat /\ \A i \in 1 .. Len(ws) : ws[i] \in Nat
  BY LenProperties, ElementOfSeq
<1>2. Extended(ws, n) \in [1 .. n -> Nat]
  BY <1>1 DEF Extended
<1>3. Extended(ws, n) \in Seq(Nat) /\ Len(Extended(ws, n)) = n
  BY <1>2, Listed
<1> QED
  BY <1>3 DEF Extended

(* The three ways of Resize (weighted_picker.cc:167-200). *)
LEMMA ResizedIs ==
  ASSUME NEW n
  PROVE  WP!Resized(n) =
    IF n > WP!LevelSize(Len(levels))
    THEN WP!Tree(WP!NumLevels(n), SubSeq(WP!Leaves(levels), 1, size))
    ELSE IF n < size THEN (CHOOSE c : Clears(c, levels, n, size))[size] ELSE levels
BY DEF WP!Resized, Clears

(* Resize (weighted_picker.cc:167-200). *)
LEMMA ResizedHolds ==
  ASSUME WP!WeightedPickerAssumption, PickerInv, NEW n \in 0 .. MaxElements
  PROVE  \E k : PickerOf(WP!Resized(n), k, Extended(weights, n))
<1>1. PICK k : PickerOf(levels, k, weights) /\ size = Len(weights)
  BY DEF PickerInv
<1> DEFINE p == Padded(k, weights)
           x == Extended(weights, n)
<1>2. /\ k \in 1 .. MaxElements + 1 /\ Len(levels) = k /\ WP!LevelSize(k) \in Nat
      /\ WP!Leaves(levels) = p /\ weights \in Seq(Nat) /\ size \in Nat
      /\ size <= WP!LevelSize(k) /\ size <= MaxElements /\ MaxElements \in Nat
      /\ \A i \in 1 .. size : weights[i] \in Nat
  BY <1>1, SizeIs
<1>3. n \in Nat /\ n <= MaxElements
  BY <1>2
<1>4. /\ x \in Seq(Nat) /\ Len(x) = n
      /\ \A i \in 1 .. n : x[i] = IF i <= size THEN weights[i] ELSE 0
  BY <1>1, <1>2, <1>3, ExtendedIs
<1>5. /\ p \in [1 .. WP!LevelSize(k) -> Nat]
      /\ \A i \in 1 .. WP!LevelSize(k) : p[i] = IF i <= size THEN weights[i] ELSE 0
  BY <1>1, <1>2, PaddedIs
<1>6. TreeOf(levels, k, p)
  BY <1>1 DEF PickerOf
<1> HIDE DEF p, x
<1>7. CASE n > WP!LevelSize(k)
  <2> DEFINE m == WP!NumLevels(n)
             s == SubSeq(p, 1, size)
  <2>1. m \in 1 .. MaxElements + 1 /\ WP!LevelSize(m) >= n /\ WP!LevelSize(m) \in Nat
    <3>1. m \in 1 .. MaxElements + 1 /\ WP!LevelSize(m) >= n
      BY LevelsEnough
    <3> QED
      BY <3>1, LevelSizes
  <2>2. WP!Resized(n) = WP!Tree(m, s)
    BY <1>2, <1>7, ResizedIs
  <2>3. s = weights
    <3>1. p \in Seq(Nat) /\ Len(p) = WP!LevelSize(k)
      BY <1>2, <1>5, Listed
    <3>2. /\ s \in Seq(Nat) /\ Len(s) = size
          /\ \A i \in 1 .. size : s[i] = p[i]
      BY <1>2, <3>1, SubSeqProperties
    <3> HIDE DEF s
    <3>3. \A i \in 1 .. size : s[i] = weights[i]
      BY <1>2, <1>5, <3>2
    <3> QED
      BY <1>1, <1>2, <3>2, <3>3, SeqEqual
  <2>4. TreeOf(WP!Tree(m, s), m, Padded(m, weights))
    BY <1>2, <2>1, <2>3, TreeIs
  <2>5. Padded(m, weights) = Padded(m, x)
    <3>1. /\ Padded(m, weights) \in [1 .. WP!LevelSize(m) -> Nat]
          /\ \A i \in 1 .. WP!LevelSize(m) : Padded(m, weights)[i] = IF i <= size THEN weights[i] ELSE 0
      BY <1>1, <1>2, <2>1, PaddedIs
    <3>2. PICK f \in [1 .. WP!LevelSize(m) -> Nat] :
            /\ f = Padded(m, weights)
            /\ \A i \in 1 .. WP!LevelSize(m) : f[i] = IF i <= size THEN weights[i] ELSE 0
      BY <3>1
    <3>3. ASSUME NEW i \in 1 .. WP!LevelSize(m) PROVE f[i] = IF i <= Len(x) THEN x[i] ELSE 0
      <4>1. i \in Nat /\ size < n
        BY <1>2, <1>3, <1>7
      <4> QED
        BY <1>2, <1>3, <1>4, <3>2, <4>1
    <3> QED
      BY <1>4, <2>1, <3>2, <3>3, SameLeaves
  <2>6. PickerOf(WP!Tree(m, s), m, x)
    BY <1>3, <1>4, <2>1, <2>4, <2>5 DEF PickerOf
  <2> QED
    BY <2>2, <2>6 DEF x
<1>8. CASE n <= WP!LevelSize(k) /\ n < size
  <2> DEFINE t == (CHOOSE c : Clears(c, levels, n, size))[size]
             f == Cleared(k, p, n, size)
  <2>1. ~(n > WP!LevelSize(k))
    BY <1>2, <1>3, <1>8
  <2>2. WP!Resized(n) = t
    BY <1>2, <1>8, <2>1, ResizedIs
  <2>3. TreeOf(t, k, f)
    <3>1. size \in 0 .. WP!LevelSize(k) /\ n \in 0 .. size
      BY <1>2, <1>3, <1>8
    <3> QED
      BY <1>6, <3>1, ClearedIs
  <2>4. f = Padded(k, x)
    <3>1. /\ f = [i \in 1 .. WP!LevelSize(k) |-> f[i]]
          /\ \A i \in 1 .. WP!LevelSize(k) : f[i] = IF n < i /\ i <= size THEN 0 ELSE p[i]
      BY DEF Cleared
    <3> HIDE DEF f
    <3>2. ASSUME NEW i \in 1 .. WP!LevelSize(k) PROVE f[i] = IF i <= Len(x) THEN x[i] ELSE 0
      <4>1. i \in Nat /\ f[i] = IF n < i /\ i <= size THEN 0 ELSE p[i]
        BY <3>1
      <4>2. CASE i <= n
        <5>1. ~(n < i) /\ i <= size /\ i \in 1 .. n
          BY <1>2, <1>3, <1>8, <4>1, <4>2
        <5>2. p[i] = weights[i] /\ x[i] = weights[i]
          BY <1>4, <1>5, <5>1
        <5> QED
          BY <1>4, <4>1, <4>2, <5>1, <5>2
      <4>3. CASE ~(i <= n)
        <5>1. n < i
          BY <1>3, <4>1, <4>3
        <5>2. ~(i <= size) => p[i] = 0
          BY <1>5
        <5> QED
          BY <1>4, <4>1, <4>3, <5>1, <5>2
      <4> QED
        BY <4>2, <4>3
    <3>3. f \in [1 .. WP!LevelSize(k) -> Nat]
      BY <1>5, <3>1
    <3> QED
      BY <1>2, <1>4, <3>2, <3>3, SameLeaves
  <2> HIDE DEF t, f
  <2>5. PickerOf(t, k, x)
    BY <1>3, <1>4, <1>8, <2>3, <2>4 DEF PickerOf
  <2> QED
    BY <2>2, <2>5 DEF x
<1>9. CASE n <= WP!LevelSize(k) /\ ~(n < size)
  <2>1. ~(n > WP!LevelSize(k))
    BY <1>2, <1>3, <1>9
  <2>2. WP!Resized(n) = levels
    BY <1>2, <1>9, <2>1, ResizedIs
  <2>3. p = Padded(k, x)
    <3>1. ASSUME NEW i \in 1 .. WP!LevelSize(k) PROVE p[i] = IF i <= Len(x) THEN x[i] ELSE 0
      BY <1>2, <1>3, <1>4, <1>5, <1>9
    <3> QED
      BY <1>2, <1>4, <1>5, <3>1, SameLeaves
  <2>4. PickerOf(levels, k, x)
    BY <1>3, <1>4, <1>6, <1>9, <2>3 DEF PickerOf
  <2> QED
    BY <2>2, <2>4 DEF x
<1> QED
  BY <1>2, <1>3, <1>7, <1>8, <1>9

(* set_weight of an element (weighted_picker.cc:118-128). *)
LEMMA SetWeightHolds ==
  ASSUME WP!WeightedPickerAssumption, NEW t, NEW k, NEW ws, PickerOf(t, k, ws),
         NEW i \in 1 .. Len(ws), NEW w \in Nat
  PROVE  /\ PickerOf(WP!SetWeight(t, i, w), k, [ws EXCEPT ![i] = w])
         /\ Len([ws EXCEPT ![i] = w]) = Len(ws)
<1> DEFINE p == Padded(k, ws)
           e == [ws EXCEPT ![i] = w]
           f == [p EXCEPT ![i] = w]
<1>1. /\ WP!LevelSize(k) \in Nat /\ ws \in Seq(Nat) /\ Len(ws) \in Nat
      /\ Len(ws) <= WP!LevelSize(k) /\ Len(ws) <= MaxElements
  BY SizeIs
<1>2. e \in Seq(Nat) /\ Len(e) = Len(ws) /\ \A j \in 1 .. Len(ws) : e[j] = IF j = i THEN w ELSE ws[j]
  BY <1>1, ExceptSeq
<1>3. /\ p \in [1 .. WP!LevelSize(k) -> Nat]
      /\ \A j \in 1 .. WP!LevelSize(k) : p[j] = IF j <= Len(ws) THEN ws[j] ELSE 0
  BY <1>1, PaddedIs
<1>4. i \in 1 .. WP!LevelSize(k)
  BY <1>1
<1>5. TreeOf(WP!SetWeight(t, i, w), k, f)
  BY <1>4, SetWeightKeeps DEF PickerOf
<1> HIDE DEF p, e
<1>6. f \in [1 .. WP!LevelSize(k) -> Nat] /\ \A j \in 1 .. WP!LevelSize(k) : f[j] = IF j = i THEN w ELSE p[j]
  BY <1>3, <1>4
<1> HIDE DEF f
<1>7. ASSUME NEW j \in 1 .. WP!LevelSize(k) PROVE f[j] = IF j <= Len(e) THEN e[j] ELSE 0
  <2>1. CASE j <= Len(ws)
    <3>1. j \in 1 .. Len(ws)
      BY <1>1, <2>1
    <3>2. e[j] = IF j = i THEN w ELSE ws[j]
      BY <1>2, <3>1
    <3>3. p[j] = ws[j]
      BY <1>3, <2>1
    <3> QED
      BY <1>2, <1>6, <2>1, <3>2, <3>3
  <2>2. CASE ~(j <= Len(ws))
    <3>1. j # i
      BY <1>1, <2>2
    <3> QED
      BY <1>2, <1>3, <1>6, <2>2, <3>1
  <2> QED
    BY <2>1, <2>2
<1>8. f = Padded(k, e)
  BY <1>1, <1>2, <1>6, <1>7, SameLeaves
<1>9. PickerOf(WP!SetWeight(t, i, w), k, e)
  BY <1>1, <1>2, <1>5, <1>8 DEF PickerOf
<1> QED
  BY <1>2, <1>9 DEF e

(* Append sets the weight of a new element (weighted_picker.cc:162-165). *)
LEMMA AppendedIs ==
  ASSUME NEW ws \in Seq(Nat), NEW w \in Nat
  PROVE  [Extended(ws, Len(ws) + 1) EXCEPT ![Len(ws) + 1] = w] = Append(ws, w)
<1> DEFINE n == Len(ws) + 1
           x == Extended(ws, n)
           e == [x EXCEPT ![n] = w]
           a == Append(ws, w)
<1>1. Len(ws) \in Nat /\ n \in Nat /\ n \in 1 .. n
  BY LenProperties
<1>2. /\ x \in Seq(Nat) /\ Len(x) = n
      /\ \A i \in 1 .. n : x[i] = IF i <= Len(ws) THEN ws[i] ELSE 0
  BY <1>1, ExtendedIs
<1>3. /\ a \in Seq(Nat) /\ Len(a) = n /\ a[n] = w
      /\ \A i \in 1 .. Len(ws) : a[i] = ws[i]
  BY AppendProperties
<1>4. e \in Seq(Nat) /\ Len(e) = n /\ \A i \in 1 .. n : e[i] = IF i = n THEN w ELSE x[i]
  BY <1>1, <1>2, ExceptSeq
<1> HIDE DEF x, e, a
<1>5. ASSUME NEW i \in 1 .. n PROVE e[i] = a[i]
  <2>1. CASE i = n
    BY <1>3, <1>4, <2>1
  <2>2. CASE i # n
    <3>1. i \in 1 .. Len(ws) /\ i <= Len(ws)
      BY <1>1, <2>2
    <3> QED
      BY <1>2, <1>3, <1>4, <2>2, <3>1
  <2> QED
    BY <2>1, <2>2
<1> HIDE DEF n
<1>6. e = a
  BY <1>3, <1>4, <1>5, SeqEqual
<1> QED
  BY <1>6 DEF e, a, x, n

(* As many elements, all of weight w. *)
LEMMA AllAre ==
  ASSUME NEW n \in Nat, NEW w \in Nat
  PROVE  [i \in 1 .. n |-> w] \in Seq(Nat) /\ Len([i \in 1 .. n |-> w]) = n
<1>1. [i \in 1 .. n |-> w] \in [1 .. n -> Nat]
  OBVIOUS
<1> QED
  BY <1>1, Listed

(* A new picker is in order (weighted_picker.cc:11-28). *)
LEMMA PickerInitial ==
  ASSUME WP!WeightedPickerAssumption, WP!Init
  PROVE  PickerInv
<1>1. PICK n \in 0 .. MaxElements :
        size = n /\ levels = WP!Tree(WP!NumLevels(n), WP!Ones(n)) /\ weights = WP!Ones(n)
  BY DEF WP!Init
<1>2. n \in Nat /\ n <= MaxElements
  BY DEF WP!WeightedPickerAssumption
<1>3. WP!Ones(n) \in Seq(Nat) /\ Len(WP!Ones(n)) = n
  BY <1>2, AllAre DEF WP!Ones
<1>4. PickerOf(WP!Tree(WP!NumLevels(n), WP!Ones(n)), WP!NumLevels(n), WP!Ones(n))
  <2>1. WP!NumLevels(n) \in 1 .. MaxElements + 1 /\ WP!LevelSize(WP!NumLevels(n)) >= n
    BY LevelsEnough
  <2> QED
    BY <1>2, <1>3, <2>1, NewTree
<1> QED
  BY <1>1, <1>3, <1>4 DEF PickerInv

(* Every operation keeps it so (weighted_picker.cc:118-200). *)
LEMMA PickerSteps ==
  ASSUME WP!WeightedPickerAssumption, PickerInv, [WP!Next]_pickerVars
  PROVE  PickerInv'
<1>1. PICK k : PickerOf(levels, k, weights) /\ size = Len(weights)
  BY DEF PickerInv
<1>2. /\ k \in 1 .. MaxElements + 1 /\ Len(levels) = k /\ WP!LevelSize(k) \in Nat
      /\ weights \in Seq(Nat) /\ size \in Nat /\ size <= WP!LevelSize(k)
      /\ size <= MaxElements /\ MaxElements \in Nat
  BY <1>1, SizeIs
<1>3. Weights \subseteq Nat
  BY DEF WP!WeightedPickerAssumption
<1>4. ASSUME NEW t, NEW n, NEW ws, PickerOf(t, n, ws), levels' = t, weights' = ws, size' = Len(ws)
      PROVE  PickerInv'
  BY <1>4 DEF PickerInv
<1>5. CASE UNCHANGED pickerVars
  BY <1>1, <1>4, <1>5 DEF pickerVars
<1>6. ASSUME NEW i \in 1 .. size, NEW w \in Weights, WP!set_weight(i, w)
      PROVE  PickerInv'
  <2>1. /\ PickerOf(WP!SetWeight(levels, i, w), k, [weights EXCEPT ![i] = w])
        /\ Len([weights EXCEPT ![i] = w]) = size
    BY <1>1, <1>3, SetWeightHolds
  <2> QED
    BY <1>4, <1>6, <2>1 DEF WP!set_weight
<1>7. ASSUME NEW w \in Weights, WP!SetAllWeights(w)
      PROVE  PickerInv'
  <2> DEFINE ws == [i \in 1 .. size |-> w]
  <2>1. ws \in Seq(Nat) /\ Len(ws) = size
    BY <1>2, <1>3, AllAre
  <2>2. levels' = WP!Tree(k, ws) /\ weights' = ws /\ size' = size
    BY <1>2, <1>7 DEF WP!SetAllWeights
  <2> HIDE DEF ws
  <2>3. PickerOf(WP!Tree(k, ws), k, ws)
    BY <1>2, <2>1, NewTree
  <2> QED
    BY <1>4, <2>1, <2>2, <2>3
<1>8. ASSUME NEW n \in 0 .. MaxElements, WP!Resize(n)
      PROVE  PickerInv'
  <2>1. n \in Nat
    BY <1>2
  <2>2. Len(Extended(weights, n)) = n
    BY <1>2, <2>1, ExtendedIs
  <2>3. PICK m : PickerOf(WP!Resized(n), m, Extended(weights, n))
    BY ResizedHolds
  <2>4. levels' = WP!Resized(n) /\ weights' = Extended(weights, n) /\ size' = n
    BY <1>1, <1>8 DEF WP!Resize, WP!Extended, Extended
  <2> QED
    BY <1>4, <2>2, <2>3, <2>4
<1>9. ASSUME NEW n \in 0 .. MaxElements, NEW ws \in [1 .. n -> Weights], WP!SetWeightsFromArray(ws)
      PROVE  PickerInv'
  <2>1. n \in Nat /\ n <= MaxElements
    BY <1>2
  <2>2. ws \in [1 .. n -> Nat]
    BY <1>3
  <2>3. ws \in Seq(Nat) /\ Len(ws) = n
    BY <2>1, <2>2, Listed
  <2>4. PICK m : PickerOf(WP!Resized(n), m, Extended(weights, n))
    BY ResizedHolds
  <2>5. m \in 1 .. MaxElements + 1 /\ Len(WP!Resized(n)) = m /\ n <= WP!LevelSize(m)
    <3>1. Len(Extended(weights, n)) = n
      BY <1>2, <2>1, ExtendedIs
    <3> QED
      BY <2>4, <3>1, SizeIs
  <2>6. PickerOf(WP!Tree(m, ws), m, ws)
    BY <2>1, <2>3, <2>5, NewTree
  <2>7. levels' = WP!Tree(m, ws) /\ weights' = ws /\ size' = Len(ws)
    BY <1>9, <2>3, <2>5 DEF WP!SetWeightsFromArray
  <2> QED
    BY <1>4, <2>6, <2>7
<1>10. ASSUME NEW w \in Weights, WP!AppendWeight(w)
       PROVE  PickerInv'
  <2> DEFINE n == size + 1
             x == Extended(weights, n)
  <2>1. n \in Nat /\ n \in 0 .. MaxElements /\ w \in Nat
    BY <1>2, <1>3, <1>10 DEF WP!AppendWeight
  <2>2. Len(x) = n /\ n \in 1 .. Len(x)
    <3>1. n \in 1 .. n
      BY <1>2
    <3>2. Len(x) = n
      <4> HIDE DEF n
      <4> QED
        BY <1>2, <2>1, ExtendedIs
    <3> HIDE DEF x, n
    <3> QED
      BY <3>1, <3>2
  <2>3. PICK m : PickerOf(WP!Resized(n), m, x)
    BY <2>1, ResizedHolds
  <2>4. /\ PickerOf(WP!SetWeight(WP!Resized(n), n, w), m, [x EXCEPT ![n] = w])
        /\ Len([x EXCEPT ![n] = w]) = n
    <3>1. PICK i \in 1 .. Len(x), u \in Nat : i = n /\ u = w
      BY <2>1, <2>2
    <3> HIDE DEF n, x
    <3>2. PICK t : t = WP!Resized(n)
      OBVIOUS
    <3>3. /\ PickerOf(WP!SetWeight(t, i, u), m, [x EXCEPT ![i] = u])
          /\ Len([x EXCEPT ![i] = u]) = Len(x)
      <4>1. PickerOf(t, m, x)
        BY <2>3, <3>2
      <4> QED
        BY <3>1, <4>1, SetWeightHolds
    <3> QED
      BY <2>2, <3>1, <3>2, <3>3
  <2>5. [x EXCEPT ![n] = w] = Append(weights, w)
    BY <1>1, <1>2, <2>1, AppendedIs
  <2>6. /\ levels' = WP!SetWeight(WP!Resized(n), n, w)
        /\ weights' = Append(weights, w) /\ size' = n
    BY <1>10 DEF WP!AppendWeight
  <2> HIDE DEF n, x
  <2> QED
    BY <1>4, <2>4, <2>5, <2>6
<1> QED
  BY <1>5, <1>6, <1>7, <1>8, <1>9, <1>10 DEF WP!Next

(* What a tree's levels and their sums are. *)
LEMMA LevelsAre ==
  ASSUME WP!WeightedPickerAssumption, NEW t, NEW k, NEW f, TreeOf(t, k, f), NEW l \in 1 .. k
  PROVE  /\ k \in Nat /\ WP!LevelSize(l) \in Nat /\ t[l] \in [1 .. WP!LevelSize(l) -> Int]
         /\ SumsOf(t[l], WP!LevelSize(l)) \in [0 .. WP!LevelSize(l) -> Int]
         /\ SumsOf(t[l], WP!LevelSize(l))[0] = 0
         /\ \A i \in 1 .. WP!LevelSize(l) :
              SumsOf(t[l], WP!LevelSize(l))[i] = SumsOf(t[l], WP!LevelSize(l))[i - 1] + t[l][i]
<1>1. k \in Nat /\ l \in 1 .. MaxElements + 1 /\ t[l] \in [1 .. WP!LevelSize(l) -> Int]
  BY DEF TreeOf, WP!WeightedPickerAssumption
<1>2. WP!LevelSize(l) \in Nat
  BY <1>1, LevelSizes
<1>3. \A i \in 1 .. WP!LevelSize(l) : t[l][i] \in Int
  BY <1>1
<1> QED
  BY <1>1, <1>2, <1>3, SumsAre

(* The sums of one level are among those of the next. *)
LEMMA LevelSums ==
  ASSUME WP!WeightedPickerAssumption, NEW t, NEW k, NEW f, TreeOf(t, k, f), NEW l \in 1 .. k - 1
  PROVE  /\ WP!LevelSize(l + 1) = 2 * WP!LevelSize(l)
         /\ \A i \in 0 .. WP!LevelSize(l) :
              SumsOf(t[l], WP!LevelSize(l))[i] = SumsOf(t[l + 1], WP!LevelSize(l + 1))[2 * i]
<1>1. k \in Nat /\ l \in 1 .. k /\ l + 1 \in 1 .. k /\ l \in 1 .. MaxElements
  BY DEF TreeOf, WP!WeightedPickerAssumption
<1>2. WP!LevelSize(l + 1) = 2 * WP!LevelSize(l) /\ WP!LevelSize(l) \in Nat
  BY <1>1, LevelSizes, LevelsAre
<1>3. PICK m \in Nat : m = WP!LevelSize(l)
  BY <1>2
<1> DEFINE g == t[l]
           h == t[l + 1]
<1>4. \A i \in 1 .. 2 * m : h[i] \in Int
  <2>1. h \in [1 .. 2 * m -> Int]
    BY <1>1, <1>2, <1>3, LevelsAre
  <2> HIDE DEF h
  <2> QED
    BY <2>1
<1>5. \A i \in 1 .. m : g[i] = h[2 * i - 1] + h[2 * i]
  BY <1>3 DEF TreeOf
<1> HIDE DEF g, h
<1>6. \A i \in 0 .. m : SumsOf(g, m)[i] = SumsOf(h, 2 * m)[2 * i]
  BY <1>4, <1>5, SumsOfPairs
<1> QED
  BY <1>2, <1>3, <1>6 DEF g, h

(* The nodes of level l that cover x, and what is left of x there. *)
At(t, l, x) ==
  {r \in [index : 1 .. WP!LevelSize(l), position : Nat] :
     /\ x = SumsOf(t[l], WP!LevelSize(l))[r.index - 1] + r.position
     /\ r.position < t[l][r.index]}

(* One level down (weighted_picker.cc:100-113). *)
Down(t, l, r) ==
  IF r.position < t[l][2 * r.index - 1]
  THEN [index |-> 2 * r.index - 1, position |-> r.position]
  ELSE [index |-> 2 * r.index, position |-> r.position - t[l][2 * r.index - 1]]

(* It is the node below that covers x. *)
LEMMA DownHolds ==
  ASSUME WP!WeightedPickerAssumption, NEW t, NEW k, NEW f, TreeOf(t, k, f), NEW x \in Int,
         NEW l \in 1 .. k - 1, NEW r \in At(t, l, x)
  PROVE  Down(t, l + 1, r) \in At(t, l + 1, x)
<1>a. l \in 1 .. k /\ l + 1 \in 1 .. k
  BY TreeLevels
<1>b. /\ WP!LevelSize(l) \in Nat /\ t[l] \in [1 .. WP!LevelSize(l) -> Int]
      /\ SumsOf(t[l], WP!LevelSize(l)) \in [0 .. WP!LevelSize(l) -> Int]
  BY <1>a, LevelsAre
<1>c. /\ t[l + 1] \in [1 .. WP!LevelSize(l + 1) -> Int]
      /\ SumsOf(t[l + 1], WP!LevelSize(l + 1)) \in [0 .. WP!LevelSize(l + 1) -> Int]
      /\ WP!LevelSize(l + 1) = 2 * WP!LevelSize(l)
  BY <1>a, LevelsAre, LevelSums
<1>d. PICK m \in Nat, n \in Nat : m = WP!LevelSize(l) /\ n = WP!LevelSize(l + 1) /\ n = 2 * m
  BY <1>b, <1>c
<1>e. PICK g \in [1 .. m -> Int], h \in [1 .. n -> Int] : g = t[l] /\ h = t[l + 1]
  BY <1>b, <1>c, <1>d
<1>f. PICK a \in [0 .. m -> Int], b \in [0 .. n -> Int] : a = SumsOf(g, m) /\ b = SumsOf(h, n)
  BY <1>b, <1>c, <1>d, <1>e
<1>1. \A i \in 0 .. m : a[i] = b[2 * i]
  BY <1>d, <1>e, <1>f, LevelSums
<1>2. /\ \A i \in 1 .. n : b[i] = b[i - 1] + h[i]
      /\ \A i \in 1 .. m : g[i] = h[2 * i - 1] + h[2 * i]
  <2>2. \A i \in 1 .. n : b[i] = b[i - 1] + h[i]
    BY <1>a, <1>d, <1>e, <1>f, LevelsAre, SMTT(30)
  <2>3. \A i \in 1 .. m : g[i] = h[2 * i - 1] + h[2 * i]
    BY <1>d, <1>e DEF TreeOf
  <2> QED
    BY <2>2, <2>3
<1>3. PICK u \in 1 .. m, p \in Nat :
        r.index = u /\ r.position = p /\ x = a[u - 1] + p /\ p < g[u]
  BY <1>d, <1>e, <1>f DEF At
<1>4. PICK v \in 1 .. n, w \in 1 .. n :
        v = 2 * u - 1 /\ w = 2 * u /\ v - 1 = 2 * (u - 1) /\ w - 1 = v
  <2>1. 2 * u - 1 \in 1 .. n /\ 2 * u \in 1 .. n /\ (2 * u - 1) - 1 = 2 * (u - 1)
    BY <1>d
  <2> QED
    BY <2>1
<1>5. /\ a[u - 1] = b[v - 1] /\ b[v] = b[v - 1] + h[v] /\ g[u] = h[v] + h[w]
      /\ h[v] \in Int /\ h[w] \in Int /\ b[v - 1] \in Int /\ b[v] \in Int
  <2>1. u - 1 \in 0 .. m /\ v - 1 \in 0 .. n /\ v \in 0 .. n
    BY <1>d
  <2>2. a[u - 1] = b[2 * (u - 1)]
    BY <1>1, <1>d, <2>1
  <2>3. h[v] \in Int /\ h[w] \in Int /\ b[v - 1] \in Int /\ b[v] \in Int
    BY <2>1
  <2>4. b[v] = b[v - 1] + h[v]
    BY <1>2
  <2>5. g[u] = h[v] + h[w]
    BY <1>2, <1>4
  <2> QED
    BY <1>4, <2>2, <2>3, <2>4, <2>5
<1>6. \A i \in 1 .. n, q \in Nat :
        x = b[i - 1] + q /\ q < h[i] => [index |-> i, position |-> q] \in At(t, l + 1, x)
  BY <1>d, <1>e, <1>f DEF At
<1>7. CASE p < h[v]
  <2>1. Down(t, l + 1, r) = [index |-> v, position |-> p]
    BY <1>e, <1>3, <1>4, <1>7 DEF Down
  <2> QED
    BY <1>3, <1>5, <1>6, <1>7, <2>1
<1>8. CASE ~(p < h[v])
  <2>1. Down(t, l + 1, r) = [index |-> w, position |-> p - h[v]]
    BY <1>e, <1>3, <1>4, <1>8 DEF Down
  <2>2. PICK q \in Nat : q = p - h[v] /\ q < h[w] /\ x = b[v] + q
    <3>a. PICK y \in Int, z \in Int, c \in Int : y = h[v] /\ z = h[w] /\ c = b[v - 1]
      BY <1>5
    <3>b. x = c + p /\ p < y + z /\ b[v] = c + y /\ ~(p < y)
      BY <1>3, <1>5, <1>8, <3>a
    <3>c. p - y \in Nat /\ p - y < z /\ x = (c + y) + (p - y)
      BY <3>b
    <3>1. p - h[v] \in Nat /\ p - h[v] < h[w] /\ x = b[v] + (p - h[v])
      BY <3>a, <3>b, <3>c
    <3> QED
      BY <3>1
  <2>3. x = b[w - 1] + q
    BY <1>4, <2>2
  <2> QED
    BY <1>6, <2>1, <2>2, <2>3
<1> QED
  BY <1>7, <1>8

(* d is PickAt's way down. *)
Walks(d, t, x) ==
  d = [l \in 1 .. Len(t) |-> IF l = 1 THEN [index |-> 1, position |-> x] ELSE Down(t, l, d[l - 1])]

(* PickAt goes down to the leaf that covers x (weighted_picker.cc:94-116). *)
LEMMA WalkIs ==
  ASSUME WP!WeightedPickerAssumption, NEW t, NEW k, NEW f, TreeOf(t, k, f),
         NEW x \in Nat, x < t[1][1]
  PROVE  (CHOOSE d : Walks(d, t, x))[k] \in At(t, k, x)
<1>1. k \in Nat \ {0} /\ Len(t) = k
  BY TreeLevels DEF TreeOf
<1> DEFINE V == [l \in 1 .. k |-> At(t, l, x)]
           step == [l \in 1 .. k |-> [r \in V[l - 1] |-> Down(t, l, r)]]
           b == [index |-> 1, position |-> x]
<1>2. \A l \in 1 .. k : V[l] = At(t, l, x)
  OBVIOUS
<1>3. \A l \in 1 .. k : \A r \in V[l - 1] : step[l][r] = Down(t, l, r)
  OBVIOUS
<1> HIDE DEF V, step
<1>4. ASSUME NEW l \in 2 .. k, NEW r \in V[l - 1]
      PROVE  Down(t, l, r) \in V[l] /\ step[l][r] = Down(t, l, r)
  <2>1. PICK j \in 1 .. k - 1 : j = l - 1 /\ l = j + 1 /\ j \in 1 .. k /\ l \in 1 .. k
    BY <1>1
  <2>2. r \in At(t, j, x)
    BY <1>2, <2>1
  <2>3. Down(t, j + 1, r) \in At(t, j + 1, x)
    BY <2>2, DownHolds
  <2> QED
    BY <1>2, <1>3, <2>1, <2>3
<1>5. b \in V[1]
  <2>1. 1 \in 1 .. k
    BY <1>1
  <2>2. WP!LevelSize(1) = 1
    BY LevelSizes
  <2>3. SumsOf(t[1], WP!LevelSize(1))[0] = 0
    BY <2>1, LevelsAre
  <2>4. b \in At(t, 1, x)
    BY <2>2, <2>3 DEF At
  <2> QED
    BY <1>2, <2>1, <2>4
<1> HIDE DEF b
<1>a. \A l \in 2 .. k : \A r \in V[l - 1] : step[l][r] \in V[l]
  BY <1>4
<1>6. /\ \E g : Ascends(g, k, b, step)
      /\ \A g : Ascends(g, k, b, step) => \A l \in 1 .. k : g[l] \in V[l]
  BY <1>1, <1>5, <1>a, Ascent
<1>7. PICK g : Ascends(g, k, b, step)
  BY <1>6
<1>8. Walks(g, t, x)
  <2>1. ASSUME NEW l \in 1 .. k, l # 1 PROVE step[l][g[l - 1]] = Down(t, l, g[l - 1])
    <3>1. l - 1 \in 1 .. k /\ l \in 2 .. k
      BY <1>1, <2>1
    <3>2. g[l - 1] \in V[l - 1]
      BY <1>6, <1>7, <3>1
    <3> QED
      BY <1>4, <3>1, <3>2
  <2> QED
    BY <1>1, <1>7, <2>1 DEF Ascends, Walks, b
<1> DEFINE d == CHOOSE e : Walks(e, t, x)
<1>9. Walks(d, t, x)
  BY <1>8
<1> HIDE DEF d
<1>10. \A l \in 1 .. k : d[l] = IF l = 1 THEN b ELSE Down(t, l, d[l - 1])
  BY <1>1, <1>9 DEF Walks, b
<1> DEFINE S == {j \in Nat : j + 1 <= k => d[j + 1] \in V[j + 1]}
<1>11. 0 \in S
  <2>1. 1 \in 1 .. k /\ 0 + 1 = 1
    BY <1>1
  <2>2. d[1] = b
    BY <1>10, <2>1
  <2> QED
    BY <1>5, <2>1, <2>2
<1>12. ASSUME NEW j \in Nat, j \in S PROVE j + 1 \in S
  <2> SUFFICES ASSUME (j + 1) + 1 <= k PROVE d[(j + 1) + 1] \in V[(j + 1) + 1]
    OBVIOUS
  <2>1. PICK l \in 2 .. k : l = (j + 1) + 1 /\ l - 1 = j + 1 /\ l \in 1 .. k /\ l # 1
    BY <1>1
  <2>2. d[l - 1] \in V[l - 1]
    BY <1>1, <1>12, <2>1
  <2>3. d[l] = Down(t, l, d[l - 1])
    BY <1>10, <2>1
  <2> QED
    BY <1>4, <2>1, <2>2, <2>3
<1>13. \A j \in Nat : j \in S
  <2> HIDE DEF S
  <2> QED
    BY <1>11, <1>12, Induction
<1>14. d[k] \in V[k] /\ k \in 1 .. k
  <2>1. PICK j \in Nat : k = j + 1
    <3>1. k - 1 \in Nat /\ k = (k - 1) + 1
      BY <1>1
    <3> QED
      BY <3>1
  <2> QED
    BY <1>1, <1>13, <2>1
<1>15. d[k] \in At(t, k, x)
  BY <1>2, <1>14
<1> QED
  BY <1>15 DEF d

(* The root has the sum of the leaves. *)
LEMMA RootIs ==
  ASSUME WP!WeightedPickerAssumption, NEW t, NEW k, NEW f, TreeOf(t, k, f)
  PROVE  t[1][1] = SumsOf(f, WP!LevelSize(k))[WP!LevelSize(k)]
<1>1. k \in Nat \ {0} /\ t[k] = f
  BY TreeLevels DEF TreeOf
<1> DEFINE Total(l) == SumsOf(t[l], WP!LevelSize(l))[WP!LevelSize(l)]
           S == {j \in Nat : j + 1 <= k => t[1][1] = Total(j + 1)}
<1>2. 0 \in S
  <2>1. 1 \in 1 .. k /\ WP!LevelSize(1) = 1 /\ 0 + 1 = 1 /\ 1 - 1 = 0
    BY <1>1, LevelSizes
  <2>2. PICK a, g : a = SumsOf(t[1], WP!LevelSize(1)) /\ g = t[1]
    OBVIOUS
  <2>3. g \in [1 .. 1 -> Int] /\ a[0] = 0 /\ a[1] = a[1 - 1] + g[1]
    <3>1. /\ g \in [1 .. WP!LevelSize(1) -> Int] /\ a[0] = 0
          /\ \A i \in 1 .. WP!LevelSize(1) : a[i] = a[i - 1] + g[i]
      BY <2>1, <2>2, LevelsAre
    <3>2. 1 \in 1 .. 1
      OBVIOUS
    <3> QED
      BY <2>1, <3>1, <3>2
  <2>4. a[1] = g[1]
    BY <2>3
  <2> QED
    BY <2>1, <2>2, <2>4
<1>3. ASSUME NEW j \in Nat, j \in S PROVE j + 1 \in S
  <2> SUFFICES ASSUME (j + 1) + 1 <= k PROVE t[1][1] = Total((j + 1) + 1)
    OBVIOUS
  <2>1. PICK l \in 1 .. k - 1 : l = j + 1 /\ l + 1 = (j + 1) + 1 /\ l \in 1 .. k
    BY <1>1
  <2>2. t[1][1] = Total(l)
    BY <1>1, <1>3, <2>1
  <2>3. WP!LevelSize(l) \in 0 .. WP!LevelSize(l)
    <3>1. WP!LevelSize(l) \in Nat
      BY <2>1, LevelsAre
    <3> QED
      BY <3>1
  <2>4. /\ WP!LevelSize(l + 1) = 2 * WP!LevelSize(l)
        /\ SumsOf(t[l], WP!LevelSize(l))[WP!LevelSize(l)] =
             SumsOf(t[l + 1], WP!LevelSize(l + 1))[2 * WP!LevelSize(l)]
    BY <2>3, LevelSums
  <2>5. Total(l) = Total(l + 1)
    BY <2>4
  <2> QED
    BY <2>1, <2>2, <2>5
<1>4. \A j \in Nat : j \in S
  <2> HIDE DEF S
  <2> QED
    BY <1>2, <1>3, Induction
<1> HIDE DEF Total
<1>5. t[1][1] = Total(k)
  <2>1. PICK j \in Nat : k = j + 1
    <3>1. k - 1 \in Nat /\ k = (k - 1) + 1
      BY <1>1
    <3> QED
      BY <3>1
  <2> QED
    BY <1>1, <1>4, <2>1
<1> QED
  BY <1>1, <1>5 DEF Total

(* The sum of a sequence. *)
LEMMA SumIs ==
  ASSUME NEW s
  PROVE  WP!Sum(s) = SumsOf(s, Len(s))[Len(s)]
BY DEF WP!Sum, SumsOf, SumsUp

(* The sums of the leaves are those of the weights. *)
LEMMA LeafSums ==
  ASSUME NEW k, WP!LevelSize(k) \in Nat, NEW ws \in Seq(Nat), Len(ws) <= WP!LevelSize(k)
  PROVE  /\ \A i \in 0 .. Len(ws) :
              WP!Sum(SubSeq(ws, 1, i)) = SumsOf(Padded(k, ws), WP!LevelSize(k))[i]
         /\ WP!Sum(ws) = SumsOf(Padded(k, ws), WP!LevelSize(k))[WP!LevelSize(k)]
         /\ WP!Sum(ws) = SumsOf(Padded(k, ws), WP!LevelSize(k))[Len(ws)]
<1>1. PICK m \in Nat, n \in Nat : m = WP!LevelSize(k) /\ n = Len(ws) /\ n <= m
  BY LenProperties
<1>2. PICK f \in [1 .. m -> Nat] : f = Padded(k, ws) /\ \A i \in 1 .. m : f[i] = IF i <= n THEN ws[i] ELSE 0
  BY <1>1, PaddedIs
<1>3. \A i \in 1 .. m : f[i] \in Int
  OBVIOUS
<1>4. PICK a \in [0 .. m -> Int] :
        a = SumsOf(f, m) /\ \A i \in 1 .. m : a[i] = a[i - 1] + f[i]
  BY <1>3, SumsAre
<1>5. ASSUME NEW i \in 0 .. n, NEW s \in Seq(Nat), Len(s) = i, \A j \in 1 .. i : s[j] = ws[j]
      PROVE  WP!Sum(s) = a[i]
  <2>1. i \in Nat /\ i <= m /\ i <= i /\ i \in 0 .. i
    BY <1>1
  <2>2. \A j \in 1 .. i : s[j] \in Int
    BY <1>5, ElementOfSeq
  <2>3. \A j \in 1 .. i : f[j] = s[j]
    <3> TAKE j \in 1 .. i
    <3>1. j \in 1 .. m /\ j <= n
      BY <1>1
    <3> QED
      BY <1>2, <1>5, <3>1
  <2>4. \A j \in 0 .. i : SumsOf(f, m)[j] = SumsOf(s, i)[j]
    <3>1. Agree(f, s, i)
      BY <2>2, <2>3 DEF Agree
    <3>2. Agree(f, f, m)
      BY <1>3 DEF Agree
    <3> QED
      BY <2>1, <3>1, <3>2, SumsAgree
  <2> QED
    BY <1>4, <1>5, <2>1, <2>4, SumIs
<1>6. ASSUME NEW i \in 0 .. n PROVE WP!Sum(SubSeq(ws, 1, i)) = a[i]
  <2> DEFINE s == SubSeq(ws, 1, i)
  <2>1. s \in Seq(Nat) /\ Len(s) = i /\ \A j \in 1 .. i : s[j] = ws[j]
    BY <1>1, SubSeqProperties
  <2> HIDE DEF s
  <2>2. WP!Sum(s) = a[i]
    BY <1>5, <2>1
  <2> QED
    BY <2>2 DEF s
<1>7. WP!Sum(ws) = a[n]
  <2>1. n \in 0 .. n
    BY <1>1
  <2> QED
    BY <1>1, <1>5, <2>1
<1> DEFINE S == {j \in Nat : n + j <= m => a[n + j] = a[n]}
<1>8. 0 \in S
  OBVIOUS
<1>9. ASSUME NEW j \in Nat, j \in S PROVE j + 1 \in S
  <2> SUFFICES ASSUME n + (j + 1) <= m PROVE a[n + (j + 1)] = a[n]
    OBVIOUS
  <2>1. PICK i \in 1 .. m : i = n + (j + 1) /\ i - 1 = n + j /\ ~(i <= n)
    BY <1>1
  <2>2. a[i - 1] = a[n]
    BY <1>1, <1>9, <2>1
  <2>3. a[i] = a[i - 1] + f[i] /\ f[i] = 0
    BY <1>2, <1>4, <2>1
  <2>4. n \in 0 .. m /\ a[n] \in Int
    BY <1>1
  <2> QED
    BY <2>1, <2>2, <2>3, <2>4
<1>10. \A j \in Nat : j \in S
  <2> HIDE DEF S
  <2> QED
    BY <1>8, <1>9, Induction
<1>11. a[m] = a[n]
  <2>1. PICK j \in Nat : m = n + j
    <3>1. m - n \in Nat /\ m = n + (m - n)
      BY <1>1
    <3> QED
      BY <3>1
  <2>2. n + j <= m
    BY <2>1
  <2>3. a[n + j] = a[n]
    BY <1>10, <2>2
  <2> QED
    BY <2>1, <2>3
<1> QED
  BY <1>1, <1>2, <1>4, <1>6, <1>7, <1>11

(* PickAt of a total or more, or of less than 0, is none                   *)
(* (weighted_picker.cc:94-116).                                            *)
LEMMA PickAtIs ==
  ASSUME NEW x
  PROVE  WP!PickAt(x) =
           IF x < 0 \/ x >= levels[1][1] THEN 0
           ELSE (CHOOSE d : Walks(d, levels, x))[Len(levels)].index
BY DEF WP!PickAt, WP!total_weight, Walks, Down

(* In order, PickAt picks what is covered (weighted_picker.cc:94-116). *)
LEMMA PickerPicks ==
  ASSUME WP!WeightedPickerAssumption, PickerInv
  PROVE  WP!PicksWhatIsCovered
<1>1. PICK k : PickerOf(levels, k, weights) /\ size = Len(weights)
  BY DEF PickerInv
<1>2. /\ Len(levels) = k /\ WP!LevelSize(k) \in Nat /\ weights \in Seq(Nat) /\ size \in Nat
      /\ size <= WP!LevelSize(k) /\ k \in Nat /\ k \in 1 .. k
  <2>1. /\ k \in 1 .. MaxElements + 1 /\ MaxElements \in Nat /\ Len(levels) = k
        /\ WP!LevelSize(k) \in Nat /\ weights \in Seq(Nat) /\ size \in Nat
        /\ size <= WP!LevelSize(k)
    BY <1>1, SizeIs
  <2> QED
    BY <2>1
<1>3. PICK m \in Nat, n \in Nat : m = WP!LevelSize(k) /\ n = size /\ n <= m
  BY <1>2
<1>4. PICK f \in [1 .. m -> Nat] :
        /\ f = Padded(k, weights) /\ TreeOf(levels, k, f)
        /\ \A i \in 1 .. m : f[i] = IF i <= n THEN weights[i] ELSE 0
  <2>1. TreeOf(levels, k, Padded(k, weights))
    BY <1>1 DEF PickerOf
  <2> QED
    BY <1>1, <1>2, <1>3, <2>1, PaddedIs
<1>5. \A i \in 1 .. m : f[i] \in Int
  OBVIOUS
<1>6. PICK a \in [0 .. m -> Int] :
        a = SumsOf(f, m) /\ a[0] = 0 /\ \A i \in 1 .. m : a[i] = a[i - 1] + f[i]
  BY <1>5, SumsAre
<1>7. \A j \in 0 .. m : \A i \in 0 .. j : a[i] <= a[j]
  BY <1>6, SumsRise
<1>8. /\ \A i \in 0 .. n : WP!Sum(SubSeq(weights, 1, i)) = a[i]
      /\ WP!Sum(weights) = a[m]
  BY <1>1, <1>2, <1>3, <1>4, <1>6, LeafSums
<1>9. levels[1][1] = a[m] /\ a[m] \in Nat
  <2>1. levels[1][1] = a[m]
    BY <1>3, <1>4, <1>6, RootIs
  <2>2. m \in 0 .. m /\ 0 \in 0 .. m
    OBVIOUS
  <2>3. a[m] \in Int /\ a[0] <= a[m]
    BY <1>7, <2>2
  <2> QED
    BY <1>6, <2>1, <2>3
<1> DEFINE covers(x) == {i \in 1 .. size : /\ WP!Sum(SubSeq(weights, 1, i - 1)) <= x
                                            /\ x < WP!Sum(SubSeq(weights, 1, i))}
<1>10. ASSUME NEW x \in Int, NEW i \in 1 .. n
       PROVE  i \in covers(x) <=> a[i - 1] <= x /\ x < a[i]
  <2>1. i \in 0 .. n /\ i - 1 \in 0 .. n
    OBVIOUS
  <2>2. WP!Sum(SubSeq(weights, 1, i)) = a[i] /\ WP!Sum(SubSeq(weights, 1, i - 1)) = a[i - 1]
    BY <1>8, <2>1
  <2> QED
    BY <1>3, <2>2
<1>11. \A x : covers(x) \subseteq 1 .. n
  BY <1>3
<1> HIDE DEF covers
<1>12. ASSUME NEW x \in Nat, x < a[m]
       PROVE  WP!PickAt(x) # 0 /\ covers(x) = {WP!PickAt(x)}
  <2> DEFINE r == (CHOOSE d : Walks(d, levels, x))[k]
  <2>1. r \in At(levels, k, x)
    <3>1. x < levels[1][1]
      BY <1>9, <1>12
    <3> QED
      BY <1>4, <3>1, WalkIs
  <2>2. WP!PickAt(x) = r.index
    <3>1. ~(x < 0 \/ x >= levels[1][1])
      BY <1>9, <1>12
    <3> QED
      BY <1>2, <3>1, PickAtIs
  <2> HIDE DEF r
  <2>3. levels[k] = f
    BY <1>4 DEF TreeOf
  <2>4. PICK i \in 1 .. m, p \in Nat : r.index = i /\ x = a[i - 1] + p /\ p < f[i]
    BY <1>3, <1>6, <2>1, <2>3 DEF At
  <2>5. i \in 1 .. n
    <3>1. f[i] # 0
      BY <2>4
    <3>2. i <= n
      BY <1>4, <3>1
    <3> QED
      BY <3>2
  <2>6. i - 1 \in 0 .. m /\ i \in 0 .. m /\ a[i - 1] \in Int /\ a[i] \in Int /\ f[i] \in Int
    <3>1. i - 1 \in 0 .. m /\ i \in 0 .. m
      BY <1>3
    <3> QED
      BY <3>1
  <2>7. a[i - 1] <= x /\ x < a[i]
    <3>1. a[i] = a[i - 1] + f[i]
      BY <1>6
    <3>2. PICK b \in Int, c \in Int : b = a[i - 1] /\ c = f[i]
      BY <2>6
    <3>3. x = b + p /\ p < c /\ a[i] = b + c
      BY <2>4, <3>1, <3>2
    <3>4. b <= x /\ x < b + c
      BY <3>3
    <3> QED
      BY <3>2, <3>3, <3>4
  <2>8. i \in covers(x)
    BY <1>10, <2>5, <2>7
  <2>9. ASSUME NEW y \in covers(x) PROVE y = i
    <3>0. PICK j \in 1 .. n : j = y
      BY <1>11
    <3>1. a[j - 1] <= x /\ x < a[j]
      BY <1>10, <3>0
    <3>2. j \in 0 .. m /\ j - 1 \in 0 .. m /\ a[j] \in Int /\ a[j - 1] \in Int
      BY <1>3
    <3>3. CASE j < i
      <4>1. j \in 0 .. i - 1
        BY <3>3
      <4>2. a[j] <= a[i - 1]
        BY <1>7, <2>6, <4>1
      <4> QED
        BY <2>6, <2>7, <3>1, <3>2, <4>2
    <3>4. CASE i < j
      <4>1. i \in 0 .. j - 1
        BY <3>4
      <4>2. a[i] <= a[j - 1]
        BY <1>7, <3>2, <4>1
      <4> QED
        BY <2>6, <2>7, <3>1, <3>2, <4>2
    <3> QED
      BY <3>0, <3>3, <3>4
  <2>10. covers(x) = {i}
    BY <2>8, <2>9
  <2> QED
    BY <2>2, <2>4, <2>10
<1>13. ASSUME NEW x \in -1 .. a[m]
       PROVE  IF WP!PickAt(x) = 0 THEN x < 0 \/ x >= WP!Sum(weights) ELSE covers(x) = {WP!PickAt(x)}
  <2>1. x \in Int
    BY <1>9
  <2>2. CASE x < 0 \/ x >= a[m]
    <3>1. WP!PickAt(x) = 0
      BY <1>9, <2>2, PickAtIs
    <3> QED
      BY <1>8, <2>2, <3>1
  <2>3. CASE ~(x < 0 \/ x >= a[m])
    <3>1. x \in Nat /\ x < a[m]
      BY <1>9, <2>1, <2>3
    <3> QED
      BY <1>12, <3>1
  <2> QED
    BY <2>2, <2>3
<1> QED
  BY <1>8, <1>9, <1>13 DEF WP!PicksWhatIsCovered, WP!total_weight, covers

-----------------------------------------------------------------------------
(* The ways to pair the first i elements of a sequence with the first j of *)
(* another.                                                                *)
Ways(i, j) ==
  {m \in SUBSET ((1 .. i) \X (1 .. j)) :
     \A p, q \in m : p # q => \/ p[1] < q[1] /\ p[2] < q[2]
                              \/ q[1] < p[1] /\ q[2] < p[2]}

(* The pairs that are substituted. *)
Apart(a, b, m) == {p \in m : a[p[1]] # b[p[2]]}

(* What the pairing m of the first i of a and the first j of b costs. *)
Cost(a, b, i, j, m) == i + j - 2 * Cardinality(m) + Cardinality(Apart(a, b, m))

(* d is the least cost. *)
IsLeast(d, a, b, i, j) ==
  /\ d \in Nat
  /\ \E m \in Ways(i, j) : Cost(a, b, i, j, m) = d
  /\ \A m \in Ways(i, j) : d <= Cost(a, b, i, j, m)

(* What a pairing is, pair by pair. *)
LEMMA WayIs ==
  ASSUME NEW i \in Nat, NEW j \in Nat, NEW m
  PROVE  m \in Ways(i, j) <=>
           /\ \A p \in m : \E x \in 1 .. i, y \in 1 .. j : p = <<x, y>>
           /\ \A p, q \in m : p # q => \/ p[1] < q[1] /\ p[2] < q[2]
                                       \/ q[1] < p[1] /\ q[2] < p[2]
BY DEF Ways

(* A pairing is finite, and what it costs an integer. *)
LEMMA WaysFinite ==
  ASSUME NEW a, NEW b, NEW i \in Nat, NEW j \in Nat, NEW m \in Ways(i, j)
  PROVE  /\ IsFiniteSet(m) /\ IsFiniteSet(Apart(a, b, m))
         /\ Cardinality(m) \in Nat /\ Cardinality(Apart(a, b, m)) \in Nat
         /\ Cost(a, b, i, j, m) \in Int
<1>1. IsFiniteSet((1 .. i) \X (1 .. j))
  <2>1. IsFiniteSet(1 .. i) /\ IsFiniteSet(1 .. j)
    BY FS_Interval
  <2> QED
    BY <2>1, FS_Product
<1>2. m \in SUBSET ((1 .. i) \X (1 .. j))
  BY DEF Ways
<1>3. IsFiniteSet(m)
  BY <1>1, <1>2, FS_Subset
<1>4. Apart(a, b, m) \in SUBSET m
  BY DEF Apart
<1>5. IsFiniteSet(Apart(a, b, m))
  BY <1>3, <1>4, FS_Subset
<1>6. Cardinality(m) \in Nat /\ Cardinality(Apart(a, b, m)) \in Nat
  BY <1>3, <1>5, FS_CardinalityType
<1> QED
  BY <1>3, <1>5, <1>6 DEF Cost

(* An element more that no pair has costs 1. *)
LEMMA CostDeleted ==
  ASSUME NEW a, NEW b, NEW i \in Nat, NEW j \in Nat, NEW m
  PROVE  /\ m \in Ways(i, j) => /\ m \in Ways(i + 1, j)
                                /\ Cost(a, b, i + 1, j, m) = Cost(a, b, i, j, m) + 1
         /\ m \in Ways(i, j) => /\ m \in Ways(i, j + 1)
                                /\ Cost(a, b, i, j + 1, m) = Cost(a, b, i, j, m) + 1
<1> SUFFICES ASSUME m \in Ways(i, j)
             PROVE  /\ m \in Ways(i + 1, j) /\ m \in Ways(i, j + 1)
                    /\ Cost(a, b, i + 1, j, m) = Cost(a, b, i, j, m) + 1
                    /\ Cost(a, b, i, j + 1, m) = Cost(a, b, i, j, m) + 1
  OBVIOUS
<1>1. m \in Ways(i + 1, j) /\ m \in Ways(i, j + 1)
  BY DEF Ways
<1>2. PICK c \in Nat, e \in Nat : c = Cardinality(m) /\ e = Cardinality(Apart(a, b, m))
  BY WaysFinite
<1>3. /\ Cost(a, b, i + 1, j, m) = Cost(a, b, i, j, m) + 1
      /\ Cost(a, b, i, j + 1, m) = Cost(a, b, i, j, m) + 1
  BY <1>2 DEF Cost
<1> QED
  BY <1>1, <1>3

(* A pair more costs 1 when its elements differ. *)
LEMMA CostPaired ==
  ASSUME NEW a, NEW b, NEW i \in Nat, NEW j \in Nat, NEW m \in Ways(i, j)
  PROVE  /\ m \cup {<<i + 1, j + 1>>} \in Ways(i + 1, j + 1)
         /\ Cost(a, b, i + 1, j + 1, m \cup {<<i + 1, j + 1>>}) =
              Cost(a, b, i, j, m) + IF a[i + 1] = b[j + 1] THEN 0 ELSE 1
<1> DEFINE o == <<i + 1, j + 1>>
           k == m \cup {o}
<1>1. \A p \in m : \E x \in 1 .. i, y \in 1 .. j : p = <<x, y>>
  BY DEF Ways
<1>2. o \notin m
  <2>1. ASSUME o \in m PROVE FALSE
    <3>1. PICK x \in 1 .. i, y \in 1 .. j : o = <<x, y>>
      BY <1>1, <2>1
    <3> QED
      BY <3>1
  <2> QED
    BY <2>1
<1>3. k \in Ways(i + 1, j + 1)
  <2>1. \A p \in k : \E x \in 1 .. i + 1, y \in 1 .. j + 1 : p = <<x, y>>
    <3>1. ASSUME NEW p \in m PROVE \E x \in 1 .. i + 1, y \in 1 .. j + 1 : p = <<x, y>>
      BY <1>1
    <3>2. i + 1 \in 1 .. i + 1 /\ j + 1 \in 1 .. j + 1
      OBVIOUS
    <3> QED
      BY <3>1, <3>2
  <2>2. ASSUME NEW p \in m PROVE p[1] < o[1] /\ p[2] < o[2]
    BY <1>1
  <2>3. \A p, q \in m : p # q => \/ p[1] < q[1] /\ p[2] < q[2]
                                 \/ q[1] < p[1] /\ q[2] < p[2]
    BY DEF Ways
  <2>4. \A p, q \in k : p # q => \/ p[1] < q[1] /\ p[2] < q[2]
                                 \/ q[1] < p[1] /\ q[2] < p[2]
    <3> HIDE DEF o
    <3> QED
      BY <2>2, <2>3
  <2> HIDE DEF k
  <2> QED
    BY <2>1, <2>4, WayIs
<1>4. Apart(a, b, k) = IF a[i + 1] = b[j + 1] THEN Apart(a, b, m) ELSE Apart(a, b, m) \cup {o}
  <2>1. o[1] = i + 1 /\ o[2] = j + 1
    OBVIOUS
  <2> HIDE DEF o
  <2> QED
    BY <2>1 DEF Apart
<1>5. o \notin Apart(a, b, m)
  BY <1>2 DEF Apart
<1> HIDE DEF o
<1>6. /\ IsFiniteSet(m) /\ IsFiniteSet(Apart(a, b, m))
      /\ Cardinality(m) \in Nat /\ Cardinality(Apart(a, b, m)) \in Nat
  BY WaysFinite
<1>7. Cardinality(k) = Cardinality(m) + 1
  BY <1>2, <1>6, FS_AddElement
<1>8. Cardinality(Apart(a, b, k)) = Cardinality(Apart(a, b, m)) + IF a[i + 1] = b[j + 1] THEN 0 ELSE 1
  <2>1. CASE a[i + 1] = b[j + 1]
    BY <1>4, <1>6, <2>1
  <2>2. CASE a[i + 1] # b[j + 1]
    <3>1. Apart(a, b, k) = Apart(a, b, m) \cup {o}
      BY <1>4, <2>2
    <3> HIDE DEF k
    <3>2. Cardinality(Apart(a, b, m) \cup {o}) = Cardinality(Apart(a, b, m)) + 1
      BY <1>5, <1>6, FS_AddElement
    <3> QED
      BY <2>2, <3>1, <3>2
  <2> QED
    BY <2>1, <2>2
<1> HIDE DEF k
<1>9. PICK c \in Nat, e \in Nat, d \in Nat :
        /\ c = Cardinality(m) /\ e = Cardinality(Apart(a, b, m))
        /\ d = IF a[i + 1] = b[j + 1] THEN 0 ELSE 1
  BY <1>6
<1>10. Cost(a, b, i + 1, j + 1, k) = Cost(a, b, i, j, m) + d
  BY <1>7, <1>8, <1>9 DEF Cost
<1> QED
  BY <1>3, <1>9, <1>10 DEF k, o

(* A pairing pairs the two last elements, or leaves one of them alone. *)
LEMMA LastPair ==
  ASSUME NEW i \in Nat, NEW j \in Nat, NEW m \in Ways(i + 1, j + 1)
  PROVE  \/ m \in Ways(i, j + 1) \/ m \in Ways(i + 1, j)
         \/ \E k \in Ways(i, j) : m = k \cup {<<i + 1, j + 1>>}
<1> DEFINE o == <<i + 1, j + 1>>
<1>1. /\ \A p \in m : \E x \in 1 .. i + 1, y \in 1 .. j + 1 : p = <<x, y>>
      /\ \A p, q \in m : p # q => \/ p[1] < q[1] /\ p[2] < q[2]
                                  \/ q[1] < p[1] /\ q[2] < p[2]
  BY WayIs
<1>2. CASE o \in m
  <2> DEFINE k == m \ {o}
  <2>1. ASSUME NEW p \in k PROVE \E x \in 1 .. i, y \in 1 .. j : p = <<x, y>>
    <3>1. PICK x \in 1 .. i + 1, y \in 1 .. j + 1 : p = <<x, y>>
      BY <1>1
    <3>2. \/ x < i + 1 /\ y < j + 1
          \/ i + 1 < x /\ j + 1 < y
      BY <1>1, <1>2, <3>1
    <3>3. x \in 1 .. i /\ y \in 1 .. j
      BY <3>2
    <3> QED
      BY <3>1, <3>3
  <2>2. \A p, q \in k : p # q => \/ p[1] < q[1] /\ p[2] < q[2]
                                 \/ q[1] < p[1] /\ q[2] < p[2]
    BY <1>1
  <2>3. m = k \cup {o}
    BY <1>2
  <2> HIDE DEF k
  <2>4. k \in Ways(i, j)
    BY <2>1, <2>2, WayIs
  <2> QED
    BY <2>3, <2>4
<1>3. CASE \A p \in m : p[1] # i + 1
  <2>1. ASSUME NEW p \in m PROVE \E x \in 1 .. i, y \in 1 .. j + 1 : p = <<x, y>>
    <3>1. PICK x \in 1 .. i + 1, y \in 1 .. j + 1 : p = <<x, y>>
      BY <1>1
    <3>2. x \in 1 .. i
      BY <1>3, <3>1
    <3> QED
      BY <3>1, <3>2
  <2>2. m \in Ways(i, j + 1)
    BY <1>1, <2>1, WayIs
  <2> QED
    BY <2>2
<1>4. CASE \A p \in m : p[2] # j + 1
  <2>1. ASSUME NEW p \in m PROVE \E x \in 1 .. i + 1, y \in 1 .. j : p = <<x, y>>
    <3>1. PICK x \in 1 .. i + 1, y \in 1 .. j + 1 : p = <<x, y>>
      BY <1>1
    <3>2. y \in 1 .. j
      BY <1>4, <3>1
    <3> QED
      BY <3>1, <3>2
  <2>2. m \in Ways(i + 1, j)
    BY <1>1, <2>1, WayIs
  <2> QED
    BY <2>2
<1>5. ASSUME o \notin m, NEW p \in m, p[1] = i + 1, NEW q \in m, q[2] = j + 1
      PROVE  FALSE
  <2>1. PICK y \in 1 .. j + 1 : p = <<i + 1, y>>
    BY <1>1, <1>5
  <2>2. PICK x \in 1 .. i + 1 : q = <<x, j + 1>>
    BY <1>1, <1>5
  <2>3. p # q
    BY <1>5, <2>1, <2>2
  <2>4. \/ i + 1 < x /\ y < j + 1
        \/ x < i + 1 /\ j + 1 < y
    BY <1>1, <2>1, <2>2, <2>3
  <2> QED
    BY <2>4
<1> QED
  BY <1>2, <1>3, <1>4, <1>5

(* With nothing on one side, every element costs 1                         *)
(* (edit_distance.h:37-38).                                                *)
LEMMA LeastEdges ==
  ASSUME NEW a, NEW b, NEW i \in Nat
  PROVE  IsLeast(i, a, b, i, 0) /\ IsLeast(i, a, b, 0, i)
<1>1. Ways(i, 0) = {{}} /\ Ways(0, i) = {{}}
  <2>1. 1 .. 0 = {}
    OBVIOUS
  <2> QED
    BY <2>1 DEF Ways
<1>2. Apart(a, b, {}) = {}
  BY DEF Apart
<1>3. Cardinality({}) = 0
  BY FS_EmptySet
<1>4. Cost(a, b, i, 0, {}) = i /\ Cost(a, b, 0, i, {}) = i
  BY <1>2, <1>3 DEF Cost
<1>5. IsLeast(i, a, b, i, 0)
  BY <1>1, <1>4 DEF IsLeast
<1>6. IsLeast(i, a, b, 0, i)
  BY <1>1, <1>4 DEF IsLeast
<1> QED
  BY <1>5, <1>6

(* The least cost from the three before it (edit_distance.h:61-65). *)
LEMMA LeastStep ==
  ASSUME NEW a, NEW b, NEW i \in Nat, NEW j \in Nat, NEW x \in Nat, NEW y \in Nat, NEW z \in Nat,
         NEW d, IsLeast(x, a, b, i, j + 1), IsLeast(y, a, b, i + 1, j), IsLeast(z, a, b, i, j),
         d \in {y + 1, x + 1, z + IF a[i + 1] = b[j + 1] THEN 0 ELSE 1},
         \A e \in {y + 1, x + 1, z + IF a[i + 1] = b[j + 1] THEN 0 ELSE 1} : d <= e
  PROVE  IsLeast(d, a, b, i + 1, j + 1)
<1>1. PICK c \in Nat : c = IF a[i + 1] = b[j + 1] THEN 0 ELSE 1
  OBVIOUS
<1>2. d \in Nat /\ d <= y + 1 /\ d <= x + 1 /\ d <= z + c
  BY <1>1
<1>3. \E m \in Ways(i + 1, j + 1) : Cost(a, b, i + 1, j + 1, m) = d
  <2>1. CASE d = y + 1
    <3>1. PICK m \in Ways(i + 1, j) : Cost(a, b, i + 1, j, m) = y
      BY DEF IsLeast
    <3> QED
      BY <2>1, <3>1, CostDeleted
  <2>2. CASE d = x + 1
    <3>1. PICK m \in Ways(i, j + 1) : Cost(a, b, i, j + 1, m) = x
      BY DEF IsLeast
    <3> QED
      BY <2>2, <3>1, CostDeleted
  <2>3. CASE d = z + c
    <3>1. PICK m \in Ways(i, j) : Cost(a, b, i, j, m) = z
      BY DEF IsLeast
    <3>2. /\ m \cup {<<i + 1, j + 1>>} \in Ways(i + 1, j + 1)
          /\ Cost(a, b, i + 1, j + 1, m \cup {<<i + 1, j + 1>>}) =
                Cost(a, b, i, j, m) + IF a[i + 1] = b[j + 1] THEN 0 ELSE 1
      BY CostPaired
    <3> QED
      BY <1>1, <2>3, <3>1, <3>2
  <2> QED
    BY <1>1, <2>1, <2>2, <2>3
<1>4. ASSUME NEW m \in Ways(i + 1, j + 1) PROVE d <= Cost(a, b, i + 1, j + 1, m)
  <2>1. CASE m \in Ways(i, j + 1)
    <3>1. PICK e \in Int : e = Cost(a, b, i, j + 1, m)
      BY <2>1, WaysFinite
    <3>2. x <= e
      BY <2>1, <3>1 DEF IsLeast
    <3>3. Cost(a, b, i + 1, j + 1, m) = e + 1
      BY <2>1, <3>1, CostDeleted
    <3> QED
      BY <1>2, <3>2, <3>3
  <2>2. CASE m \in Ways(i + 1, j)
    <3>1. PICK e \in Int : e = Cost(a, b, i + 1, j, m)
      BY <2>2, WaysFinite
    <3>2. y <= e
      BY <2>2, <3>1 DEF IsLeast
    <3>3. Cost(a, b, i + 1, j + 1, m) = e + 1
      BY <2>2, <3>1, CostDeleted
    <3> QED
      BY <1>2, <3>2, <3>3
  <2>3. CASE \E k \in Ways(i, j) : m = k \cup {<<i + 1, j + 1>>}
    <3>1. PICK k \in Ways(i, j) : m = k \cup {<<i + 1, j + 1>>}
      BY <2>3
    <3>2. PICK e \in Int : e = Cost(a, b, i, j, k)
      BY WaysFinite
    <3>3. z <= e
      BY <3>2 DEF IsLeast
    <3>4. Cost(a, b, i + 1, j + 1, m) = e + c
      BY <1>1, <3>1, <3>2, CostPaired
    <3> QED
      BY <1>2, <3>3, <3>4
  <2> QED
    BY <2>1, <2>2, <2>3, LastPair
<1> QED
  BY <1>2, <1>3, <1>4 DEF IsLeast

(* The least of three numbers. *)
LEMMA MinOfThree ==
  ASSUME NEW x \in Int, NEW y \in Int, NEW z \in Int
  PROVE  /\ ED!Min({x, y, z}) \in {x, y, z}
         /\ \A e \in {x, y, z} : ED!Min({x, y, z}) <= e
<1>1. \E d \in {x, y, z} : \A e \in {x, y, z} : d <= e
  OBVIOUS
<1> QED
  BY <1>1 DEF ED!Min

(* f is the row of Row. *)
RowOf(f, previous, c, t, i) ==
  f = [j \in 0 .. Len(t) |->
         IF j = 0 THEN i
         ELSE ED!Min({f[j - 1] + 1,
                      previous[j] + 1,
                      previous[j - 1] + IF c = t[j] THEN 0 ELSE 1})]

(* From a row of least costs Row makes the next (edit_distance.h:57-66). *)
LEMMA RowIs ==
  ASSUME NEW a, NEW b, NEW i \in Nat, NEW n \in Nat, n = Len(b),
         NEW p \in [0 .. n -> Nat],
         \A j \in 0 .. n : IsLeast(p[j], a, b, i, j)
  PROVE  /\ ED!Row(p, a[i + 1], b, i + 1) \in [0 .. n -> Nat]
         /\ \A j \in 0 .. n : IsLeast(ED!Row(p, a[i + 1], b, i + 1)[j], a, b, i + 1, j)
<1> DEFINE c(j) == IF a[i + 1] = b[j] THEN 0 ELSE 1
           best(x, j) == ED!Min({x + 1, p[j] + 1, p[j - 1] + c(j)})
           V == [j \in 0 .. n |-> {d \in Nat : IsLeast(d, a, b, i + 1, j)}]
           step == [j \in 1 .. n |-> [x \in V[j - 1] |-> best(x, j)]]
<1>1. \A j \in 0 .. n : V[j] = {d \in Nat : IsLeast(d, a, b, i + 1, j)}
  OBVIOUS
<1>2. i + 1 \in V[0]
  <2>1. IsLeast(i + 1, a, b, i + 1, 0)
    BY LeastEdges
  <2>2. 0 \in 0 .. n
    OBVIOUS
  <2> HIDE DEF V
  <2> QED
    BY <1>1, <2>1, <2>2
<1>3. \A j \in 1 .. n : \A x \in V[j - 1] : step[j][x] = best(x, j)
  OBVIOUS
<1> HIDE DEF V, step
<1>4. ASSUME NEW j \in 1 .. n, NEW x \in V[j - 1] PROVE step[j][x] \in V[j]
  <2>1. PICK k \in Nat : j = k + 1 /\ j - 1 = k /\ k \in 0 .. n /\ j \in 0 .. n
    OBVIOUS
  <2>2. x \in Nat /\ IsLeast(x, a, b, i + 1, k)
    BY <1>1, <2>1
  <2>3. PICK y \in Nat, z \in Nat : y = p[j] /\ z = p[k]
    BY <2>1
  <2>4. PICK e \in Nat : e = c(j)
    OBVIOUS
  <2>5. e = IF a[i + 1] = b[k + 1] THEN 0 ELSE 1
    BY <2>1, <2>4
  <2>6. best(x, j) = ED!Min({x + 1, y + 1, z + e})
    BY <2>1, <2>3, <2>4
  <2> HIDE DEF c, best
  <2>7. PICK d : d = best(x, j)
    OBVIOUS
  <2>8. /\ d \in {x + 1, y + 1, z + e}
        /\ \A v \in {x + 1, y + 1, z + e} : d <= v
    <3>1. PICK u \in Int, v \in Int, w \in Int : u = x + 1 /\ v = y + 1 /\ w = z + e
      BY <2>2
    <3>2. /\ ED!Min({u, v, w}) \in {u, v, w}
          /\ \A o \in {u, v, w} : ED!Min({u, v, w}) <= o
      BY MinOfThree
    <3>3. d = ED!Min({u, v, w})
      BY <2>6, <2>7, <3>1
    <3> QED
      BY <3>1, <3>2, <3>3
  <2>9. IsLeast(y, a, b, i, k + 1) /\ IsLeast(z, a, b, i, k)
    BY <2>1, <2>3
  <2>10. IsLeast(d, a, b, i + 1, k + 1)
    BY <2>2, <2>5, <2>8, <2>9, LeastStep
  <2>11. d \in Nat
    BY <2>10 DEF IsLeast
  <2> QED
    BY <1>1, <1>3, <2>1, <2>7, <2>10, <2>11
<1>5. PICK g : /\ g = [j \in 0 .. n |-> g[j]] /\ Iterates(g, n, i + 1, step)
               /\ \A j \in 0 .. n : g[j] \in V[j]
  BY <1>2, <1>4, Turns
<1>6. RowOf(g, p, a[i + 1], b, i + 1)
  <2>3. ASSUME NEW j \in 1 .. n PROVE step[j][g[j - 1]] = best(g[j - 1], j)
    <3>1. j - 1 \in 0 .. n
      OBVIOUS
    <3> QED
      BY <1>3, <1>5, <3>1
  <2>4. ASSUME NEW j \in 0 .. n
        PROVE  g[j] = IF j = 0 THEN i + 1 ELSE best(g[j - 1], j)
    <3>1. j = 0 \/ j \in 1 .. n
      OBVIOUS
    <3>2. g[j] = IF j = 0 THEN i + 1 ELSE step[j][g[j - 1]]
      BY <1>5, <3>1 DEF Iterates
    <3> HIDE DEF best
    <3> QED
      BY <2>3, <3>1, <3>2
  <2> QED
    BY <1>5, <2>4 DEF RowOf
<1>7. ASSUME NEW h, RowOf(h, p, a[i + 1], b, i + 1) PROVE \A j \in 0 .. n : h[j] \in V[j]
  <2>1. /\ h = [j \in 0 .. n |-> h[j]]
        /\ \A j \in 0 .. n : h[j] = IF j = 0 THEN i + 1 ELSE best(h[j - 1], j)
    BY <1>7 DEF RowOf
  <2> DEFINE S == {j \in Nat : j <= n => h[j] \in V[j]}
  <2>2. 0 \in S
    <3>1. 0 \in 0 .. n
      OBVIOUS
    <3> HIDE DEF best
    <3> QED
      BY <1>2, <2>1, <3>1
  <2>3. ASSUME NEW k \in Nat, k \in S PROVE k + 1 \in S
    <3> SUFFICES ASSUME k + 1 <= n PROVE h[k + 1] \in V[k + 1]
      OBVIOUS
    <3>1. PICK j \in 1 .. n : j = k + 1 /\ j - 1 = k /\ j \in 0 .. n /\ j # 0
      OBVIOUS
    <3>2. h[j - 1] \in V[j - 1]
      BY <2>3, <3>1
    <3>3. step[j][h[j - 1]] \in V[j] /\ step[j][h[j - 1]] = best(h[j - 1], j)
      BY <1>3, <1>4, <3>2
    <3> HIDE DEF best
    <3> QED
      BY <2>1, <3>1, <3>3
  <2>4. \A k \in Nat : k \in S
    <3> HIDE DEF S
    <3> QED
      BY <2>2, <2>3, Induction
  <2> QED
    BY <2>4
<1>8. RowOf(ED!Row(p, a[i + 1], b, i + 1), p, a[i + 1], b, i + 1)
  <2>1. ED!Row(p, a[i + 1], b, i + 1) = CHOOSE h : RowOf(h, p, a[i + 1], b, i + 1)
    BY DEF ED!Row, RowOf
  <2> QED
    BY <1>6, <2>1
<1> DEFINE r == ED!Row(p, a[i + 1], b, i + 1)
<1>9. r = [j \in 0 .. n |-> r[j]]
  BY <1>8 DEF RowOf
<1>10. \A j \in 0 .. n : r[j] \in V[j]
  BY <1>7, <1>8
<1> HIDE DEF r
<1>11. \A j \in 0 .. n : r[j] \in Nat /\ IsLeast(r[j], a, b, i + 1, j)
  BY <1>1, <1>10
<1>12. r \in [0 .. n -> Nat]
  BY <1>9, <1>11
<1> QED
  BY <1>11, <1>12 DEF r

(* g has the rows of LevenshteinDistance. *)
RowsOf(g, a, b) ==
  g = [i \in 0 .. Len(a) |->
         IF i = 0 THEN [j \in 0 .. Len(b) |-> j]
         ELSE ED!Row(g[i - 1], a[i], b, i)]

(* There are such rows, and the last ends in the least cost. *)
LEMMA RowsAre ==
  ASSUME NEW S, NEW a \in Seq(S), NEW b \in Seq(S)
  PROVE  /\ \E g : RowsOf(g, a, b)
         /\ \A g : RowsOf(g, a, b) => IsLeast(g[Len(a)][Len(b)], a, b, Len(a), Len(b))
<1> DEFINE n == Len(a)
           m == Len(b)
           V == [i \in 0 .. n |-> {p \in [0 .. m -> Nat] : \A j \in 0 .. m : IsLeast(p[j], a, b, i, j)}]
           step == [i \in 1 .. n |-> [p \in V[i - 1] |-> ED!Row(p, a[i], b, i)]]
           first == [j \in 0 .. m |-> j]
<1>1. n \in Nat /\ m \in Nat
  BY LenProperties
<1>2. \A i \in 0 .. n : V[i] = {p \in [0 .. m -> Nat] : \A j \in 0 .. m : IsLeast(p[j], a, b, i, j)}
  OBVIOUS
<1>3. first \in V[0]
  <2>1. 0 \in 0 .. n
    BY <1>1
  <2>2. first \in [0 .. m -> Nat]
    OBVIOUS
  <2>3. ASSUME NEW j \in 0 .. m PROVE IsLeast(first[j], a, b, 0, j)
    <3>1. j \in Nat /\ first[j] = j
      OBVIOUS
    <3> QED
      BY <3>1, LeastEdges
  <2> HIDE DEF first, V, n, m
  <2> QED
    BY <1>2, <2>1, <2>2, <2>3
<1>4. \A i \in 1 .. n : \A p \in V[i - 1] : step[i][p] = ED!Row(p, a[i], b, i)
  OBVIOUS
<1> HIDE DEF V, step
<1>5. ASSUME NEW i \in 1 .. n, NEW p \in V[i - 1]
      PROVE  ED!Row(p, a[i], b, i) \in V[i]
  <2>1. PICK k \in Nat : i = k + 1 /\ i - 1 = k /\ k \in 0 .. n /\ i \in 0 .. n
    BY <1>1
  <2>2. p \in [0 .. m -> Nat] /\ \A j \in 0 .. m : IsLeast(p[j], a, b, k, j)
    BY <1>2, <2>1
  <2>3. m = Len(b)
    OBVIOUS
  <2> HIDE DEF m
  <2>4. /\ ED!Row(p, a[k + 1], b, k + 1) \in [0 .. m -> Nat]
        /\ \A j \in 0 .. m : IsLeast(ED!Row(p, a[k + 1], b, k + 1)[j], a, b, k + 1, j)
    BY <1>1, <2>2, <2>3, RowIs
  <2> HIDE DEF n
  <2> QED
    BY <1>2, <2>1, <2>4
<1>6. ASSUME NEW i \in 1 .. n, NEW p \in V[i - 1] PROVE step[i][p] \in V[i]
  BY <1>4, <1>5
<1> HIDE DEF first
<1>7. PICK g : /\ g = [i \in 0 .. n |-> g[i]] /\ Iterates(g, n, first, step)
               /\ \A i \in 0 .. n : g[i] \in V[i]
  <2> HIDE DEF n
  <2> QED
    BY <1>1, <1>3, <1>6, Turns
<1>8. RowsOf(g, a, b)
  <2>1. ASSUME NEW i \in 1 .. n PROVE step[i][g[i - 1]] = ED!Row(g[i - 1], a[i], b, i)
    <3>1. i - 1 \in 0 .. n
      BY <1>1
    <3> QED
      BY <1>4, <1>7, <3>1
  <2>2. ASSUME NEW i \in 0 .. n
        PROVE  g[i] = IF i = 0 THEN first ELSE ED!Row(g[i - 1], a[i], b, i)
    <3>1. i = 0 \/ i \in 1 .. n
      BY <1>1
    <3>2. g[i] = IF i = 0 THEN first ELSE step[i][g[i - 1]]
      BY <1>7, <3>1 DEF Iterates
    <3> QED
      BY <2>1, <3>1, <3>2
  <2> QED
    BY <1>7, <2>2 DEF RowsOf, first
<1>9. ASSUME NEW h, RowsOf(h, a, b) PROVE IsLeast(h[n][m], a, b, n, m)
  <2>1. \A i \in 0 .. n : h[i] = IF i = 0 THEN first ELSE ED!Row(h[i - 1], a[i], b, i)
    BY <1>9 DEF RowsOf, first
  <2> DEFINE W == {i \in Nat : i <= n => h[i] \in V[i]}
  <2>2. 0 \in W
    <3>1. 0 \in 0 .. n
      BY <1>1
    <3> QED
      BY <1>3, <2>1, <3>1
  <2>3. ASSUME NEW k \in Nat, k \in W PROVE k + 1 \in W
    <3> SUFFICES ASSUME k + 1 <= n PROVE h[k + 1] \in V[k + 1]
      OBVIOUS
    <3>1. PICK i \in 1 .. n : i = k + 1 /\ i - 1 = k /\ i \in 0 .. n /\ i # 0
      BY <1>1
    <3>2. h[i - 1] \in V[i - 1]
      BY <1>1, <2>3, <3>1
    <3>3. ED!Row(h[i - 1], a[i], b, i) \in V[i]
      BY <1>5, <3>2
    <3> QED
      BY <2>1, <3>1, <3>3
  <2>4. \A k \in Nat : k \in W
    <3> HIDE DEF W
    <3> QED
      BY <2>2, <2>3, Induction
  <2>5. h[n] \in V[n] /\ n \in 0 .. n /\ m \in 0 .. m
    BY <1>1, <2>4
  <2> HIDE DEF n, m
  <2> QED
    BY <1>2, <2>5
<1> QED
  BY <1>8, <1>9

(* The same pairing seen from the other sequence. *)
Flip(m) == {<<p[2], p[1]>> : p \in m}

(* It is a pairing, and has the same pairs substituted. *)
LEMMA FlipIs ==
  ASSUME NEW a, NEW b, NEW i \in Nat, NEW j \in Nat, NEW m \in Ways(i, j)
  PROVE  /\ Flip(m) \in Ways(j, i) /\ Flip(Flip(m)) = m
         /\ Flip(Apart(a, b, m)) = Apart(b, a, Flip(m))
<1>1. /\ \A p \in m : \E x \in 1 .. i, y \in 1 .. j : p = <<x, y>>
      /\ \A p, q \in m : p # q => \/ p[1] < q[1] /\ p[2] < q[2]
                                  \/ q[1] < p[1] /\ q[2] < p[2]
  BY WayIs
<1>2. ASSUME NEW p \in m PROVE p = <<p[1], p[2]>>
  BY <1>1
<1>3. ASSUME NEW q \in Flip(m) PROVE \E p \in m : q = <<p[2], p[1]>> /\ q[1] = p[2] /\ q[2] = p[1]
  BY DEF Flip
<1>4. \A q \in Flip(m) : \E x \in 1 .. j, y \in 1 .. i : q = <<x, y>>
  <2> SUFFICES ASSUME NEW q \in Flip(m) PROVE \E x \in 1 .. j, y \in 1 .. i : q = <<x, y>>
    OBVIOUS
  <2>1. PICK p \in m : q = <<p[2], p[1]>>
    BY <1>3
  <2>2. p[1] \in 1 .. i /\ p[2] \in 1 .. j
    BY <1>1
  <2> QED
    BY <2>1, <2>2
<1>5. \A q, r \in Flip(m) : q # r => \/ q[1] < r[1] /\ q[2] < r[2]
                                     \/ r[1] < q[1] /\ r[2] < q[2]
  BY <1>1, <1>3
<1>6. Flip(m) \in Ways(j, i)
  BY <1>4, <1>5, WayIs
<1>7. Flip(Flip(m)) = m
  <2>1. ASSUME NEW p \in m PROVE p \in Flip(Flip(m))
    <3>1. <<p[2], p[1]>> \in Flip(m)
      BY DEF Flip
    <3> QED
      BY <1>2, <3>1 DEF Flip
  <2>2. ASSUME NEW p \in Flip(Flip(m)) PROVE p \in m
    <3>1. PICK q \in Flip(m) : p = <<q[2], q[1]>>
      BY DEF Flip
    <3>2. PICK r \in m : q[1] = r[2] /\ q[2] = r[1]
      BY <1>3
    <3> QED
      BY <1>2, <3>1, <3>2
  <2> QED
    BY <2>1, <2>2
<1>8. Flip(Apart(a, b, m)) = Apart(b, a, Flip(m))
  <2>1. ASSUME NEW q \in Flip(Apart(a, b, m)) PROVE q \in Apart(b, a, Flip(m))
    BY DEF Flip, Apart
  <2>2. ASSUME NEW q \in Apart(b, a, Flip(m)) PROVE q \in Flip(Apart(a, b, m))
    BY DEF Flip, Apart
  <2> QED
    BY <2>1, <2>2
<1> QED
  BY <1>6, <1>7, <1>8

(* It has as many pairs. *)
LEMMA FlipCount ==
  ASSUME NEW m, IsFiniteSet(m), Flip(Flip(m)) = m
  PROVE  IsFiniteSet(Flip(m)) /\ Cardinality(Flip(m)) = Cardinality(m)
<1> DEFINE f == [p \in m |-> <<p[2], p[1]>>]
           g == [p \in Flip(m) |-> <<p[2], p[1]>>]
<1>1. f \in Surjection(m, Flip(m))
  BY DEF Flip, Surjection
<1>2. g \in Surjection(Flip(m), m)
  <2>1. Flip(Flip(m)) = {<<p[2], p[1]>> : p \in Flip(m)}
    BY DEF Flip
  <2>2. g \in Surjection(Flip(m), Flip(Flip(m)))
    BY <2>1 DEF Surjection
  <2> QED
    BY <2>2
<1> HIDE DEF f, g
<1>3. IsFiniteSet(Flip(m)) /\ Cardinality(Flip(m)) <= Cardinality(m)
  BY <1>1, FS_Surjection
<1>4. Cardinality(m) <= Cardinality(Flip(m))
  BY <1>2, <1>3, FS_Surjection
<1>5. Cardinality(m) \in Nat /\ Cardinality(Flip(m)) \in Nat
  BY <1>3, FS_CardinalityType
<1> QED
  BY <1>3, <1>4, <1>5

(* It costs the same. *)
LEMMA FlipCost ==
  ASSUME NEW a, NEW b, NEW i \in Nat, NEW j \in Nat, NEW m \in Ways(i, j)
  PROVE  Cost(b, a, j, i, Flip(m)) = Cost(a, b, i, j, m)
<1>1. /\ IsFiniteSet(m) /\ IsFiniteSet(Apart(a, b, m))
      /\ Cardinality(m) \in Nat /\ Cardinality(Apart(a, b, m)) \in Nat
  BY WaysFinite
<1>2. /\ Flip(Flip(m)) = m
      /\ Flip(Apart(a, b, m)) = Apart(b, a, Flip(m))
  BY FlipIs
<1>3. Flip(Flip(Apart(a, b, m))) = Apart(a, b, m)
  <2>1. Flip(m) \in Ways(j, i)
    BY FlipIs
  <2>2. Flip(Apart(b, a, Flip(m))) = Apart(a, b, Flip(Flip(m)))
    BY <2>1, FlipIs
  <2> QED
    BY <1>2, <2>2
<1>4. Cardinality(Flip(m)) = Cardinality(m)
  BY <1>1, <1>2, FlipCount
<1>5. Cardinality(Apart(b, a, Flip(m))) = Cardinality(Apart(a, b, m))
  BY <1>1, <1>2, <1>3, FlipCount
<1>6. PICK c \in Nat, e \in Nat : c = Cardinality(m) /\ e = Cardinality(Apart(a, b, m))
  BY <1>1
<1> QED
  BY <1>4, <1>5, <1>6 DEF Cost

(* So the longer sequence may be either (edit_distance.h:40). *)
LEMMA LeastFlips ==
  ASSUME NEW a, NEW b, NEW i \in Nat, NEW j \in Nat, NEW d, IsLeast(d, a, b, i, j)
  PROVE  IsLeast(d, b, a, j, i)
<1>1. PICK m \in Ways(i, j) : Cost(a, b, i, j, m) = d
  BY DEF IsLeast
<1>2. Flip(m) \in Ways(j, i) /\ Cost(b, a, j, i, Flip(m)) = d
  BY <1>1, FlipIs, FlipCost
<1>3. ASSUME NEW k \in Ways(j, i) PROVE d <= Cost(b, a, j, i, k)
  <2>1. Flip(k) \in Ways(i, j) /\ Cost(a, b, i, j, Flip(k)) = Cost(b, a, j, i, k)
    BY FlipIs, FlipCost
  <2>2. d <= Cost(a, b, i, j, Flip(k))
    BY <2>1 DEF IsLeast
  <2> QED
    BY <2>1, <2>2
<1> QED
  BY <1>2, <1>3 DEF IsLeast

(* Pairing each element of a sequence with itself costs nothing. *)
LEMMA SameCosts ==
  ASSUME NEW a
  PROVE  \A n \in Nat : \E m \in Ways(n, n) : Cost(a, a, n, n, m) = 0
<1> DEFINE S == {n \in Nat : \E m \in Ways(n, n) : Cost(a, a, n, n, m) = 0}
<1>1. 0 \in S
  <2>1. IsLeast(0, a, a, 0, 0)
    BY LeastEdges
  <2> QED
    BY <2>1 DEF IsLeast
<1>2. ASSUME NEW n \in Nat, n \in S PROVE n + 1 \in S
  <2>1. PICK m \in Ways(n, n) : Cost(a, a, n, n, m) = 0
    BY <1>2
  <2>2. ASSUME NEW b, NEW k \in Nat, m \in Ways(n, k)
        PROVE  /\ m \cup {<<n + 1, k + 1>>} \in Ways(n + 1, k + 1)
               /\ Cost(a, b, n + 1, k + 1, m \cup {<<n + 1, k + 1>>}) =
                    Cost(a, b, n, k, m) + IF a[n + 1] = b[k + 1] THEN 0 ELSE 1
    BY <2>2, CostPaired
  <2>3. /\ m \cup {<<n + 1, n + 1>>} \in Ways(n + 1, n + 1)
        /\ Cost(a, a, n + 1, n + 1, m \cup {<<n + 1, n + 1>>}) =
             0 + IF a[n + 1] = a[n + 1] THEN 0 ELSE 1
    BY <2>1, <2>2
  <2>4. 0 + (IF a[n + 1] = a[n + 1] THEN 0 ELSE 1) = 0
    OBVIOUS
  <2>5. Cost(a, a, n + 1, n + 1, m \cup {<<n + 1, n + 1>>}) = 0
    BY <2>3, <2>4
  <2> QED
    BY <2>3, <2>5
<1>3. \A n \in Nat : n \in S
  <2> HIDE DEF S
  <2> QED
    BY <1>1, <1>2, Induction
<1> QED
  BY <1>3

(* Nothing costs less (edit_distance.h:39). *)
LEMMA SameLeast ==
  ASSUME NEW S, NEW a \in Seq(S)
  PROVE  IsLeast(0, a, a, Len(a), Len(a))
<1>1. PICK n \in Nat : n = Len(a)
  BY LenProperties
<1>2. PICK g : RowsOf(g, a, a)
  BY RowsAre
<1>3. PICK d : IsLeast(d, a, a, n, n)
  BY <1>1, <1>2, RowsAre
<1>4. ASSUME NEW m \in Ways(n, n) PROVE 0 <= Cost(a, a, n, n, m)
  <2>1. PICK e \in Int, c \in Nat : e = Cost(a, a, n, n, m) /\ c = d /\ c <= e
    BY <1>3, WaysFinite DEF IsLeast
  <2> QED
    BY <2>1
<1>5. \E m \in Ways(n, n) : Cost(a, a, n, n, m) = 0
  BY SameCosts
<1>6. IsLeast(0, a, a, n, n)
  BY <1>4, <1>5 DEF IsLeast
<1> QED
  BY <1>1, <1>6

(* The rows that LevenshteinDistance chooses. *)
LEMMA RowsChosen ==
  ASSUME NEW S, NEW a \in Seq(S), NEW b \in Seq(S)
  PROVE  IsLeast((CHOOSE g : RowsOf(g, a, b))[Len(a)][Len(b)], a, b, Len(a), Len(b))
<1>1. RowsOf(CHOOSE g : RowsOf(g, a, b), a, b)
  BY RowsAre
<1> QED
  BY <1>1, RowsAre

(* LevenshteinDistance of any two sequences (edit_distance.h:32-70). *)
LEMMA DistanceOf ==
  ASSUME NEW S, NEW s \in Seq(S), NEW t \in Seq(S)
  PROVE  IsLeast(ED!LevenshteinDistance(s, t), s, t, Len(s), Len(t))
<1>1. PICK i \in Nat, j \in Nat : i = Len(s) /\ j = Len(t)
  BY LenProperties
<1>2. CASE s = <<>>
  <2>1. i = 0 /\ ED!LevenshteinDistance(s, t) = j
    BY <1>1, <1>2 DEF ED!LevenshteinDistance
  <2> QED
    BY <1>1, <2>1, LeastEdges
<1>3. CASE s # <<>> /\ t = <<>>
  <2>1. j = 0 /\ ED!LevenshteinDistance(s, t) = i
    BY <1>1, <1>3 DEF ED!LevenshteinDistance
  <2> QED
    BY <1>1, <2>1, LeastEdges
<1>4. CASE s # <<>> /\ t # <<>> /\ s = t
  <2>1. ED!LevenshteinDistance(s, t) = 0
    BY <1>4 DEF ED!LevenshteinDistance
  <2> QED
    BY <1>4, <2>1, SameLeast
<1>5. CASE s # <<>> /\ t # <<>> /\ s # t /\ Len(t) > Len(s)
  <2>1. ED!LevenshteinDistance(s, t) = (CHOOSE g : RowsOf(g, t, s))[Len(t)][Len(s)]
    BY <1>5 DEF ED!LevenshteinDistance, RowsOf
  <2>2. IsLeast(ED!LevenshteinDistance(s, t), t, s, j, i)
    BY <1>1, <2>1, RowsChosen
  <2> QED
    BY <1>1, <2>2, LeastFlips
<1>6. CASE s # <<>> /\ t # <<>> /\ s # t /\ ~(Len(t) > Len(s))
  <2>1. ED!LevenshteinDistance(s, t) = (CHOOSE g : RowsOf(g, s, t))[Len(s)][Len(t)]
    BY <1>6 DEF ED!LevenshteinDistance, RowsOf
  <2> QED
    BY <2>1, RowsChosen
<1> QED
  BY <1>2, <1>3, <1>4, <1>5, <1>6

(* The least cost is the minimum of the costs. *)
LEMMA LeastIsMin ==
  ASSUME NEW d, NEW a, NEW b, NEW i \in Nat, NEW j \in Nat, IsLeast(d, a, b, i, j)
  PROVE  d = ED!Min({Cost(a, b, i, j, m) : m \in Ways(i, j)})
<1> DEFINE C == {Cost(a, b, i, j, m) : m \in Ways(i, j)}
<1>1. d \in C /\ \A e \in C : d <= e
  BY DEF IsLeast
<1>2. C \subseteq Int
  BY WaysFinite
<1> HIDE DEF C
<1>3. ED!Min(C) = CHOOSE x \in C : \A y \in C : x <= y
  BY DEF ED!Min
<1>4. ED!Min(C) \in C /\ \A e \in C : ED!Min(C) <= e
  BY <1>1, <1>3
<1>5. PICK x \in Int, y \in Int : x = d /\ y = ED!Min(C) /\ x <= y /\ y <= x
  BY <1>1, <1>2, <1>4
<1>6. x = y
  BY <1>5
<1> QED
  BY <1>5, <1>6 DEF C

(* An instance has its own copy of the operators of FiniteSets. *)
LEMMA EditCounting == \A S : ED!Cardinality(S) = Cardinality(S)
BY DEF ED!Cardinality, Cardinality

(* The two sequences, which no step changes. *)
EditInv == source \in Seq(Letters) /\ target \in Seq(Letters)

(* They are sequences at first. *)
LEMMA EditInitial == ED!Init \/ (source = <<>> /\ target = <<>>) => EditInv
<1>1. ASSUME NEW w \in ED!Words PROVE w \in Seq(Letters)
  <2>1. PICK n \in 0 .. MaxLength : w \in [1 .. n -> Letters]
    BY DEF ED!Words
  <2>2. n \in Nat
    OBVIOUS
  <2> QED
    BY <2>1, <2>2, Listed
<1>2. <<>> \in Seq(Letters)
  OBVIOUS
<1> QED
  BY <1>1, <1>2 DEF ED!Init, EditInv

(* And then the distance is the least cost. *)
LEMMA EditAnswers == EditInv => ED!DistanceIsLeast
<1> SUFFICES ASSUME EditInv PROVE ED!DistanceIsLeast
  OBVIOUS
<1> DEFINE i == Len(source)
           j == Len(target)
<1>1. source \in Seq(Letters) /\ target \in Seq(Letters)
  BY DEF EditInv
<1>2. i \in Nat /\ j \in Nat
  BY <1>1, LenProperties
<1>3. IsLeast(ED!LevenshteinDistance(source, target), source, target, i, j)
  BY <1>1, DistanceOf
<1>4. ED!Pairings(source, target) = Ways(i, j)
  BY DEF ED!Pairings, Ways
<1> DEFINE cost(m) == Len(source) + Len(target) - 2 * ED!Cardinality(m)
                        + ED!Cardinality({p \in m : source[p[1]] # target[p[2]]})
<1>5. \A m : cost(m) = Cost(source, target, i, j, m)
  BY EditCounting DEF Cost, Apart
<1>6. {cost(m) : m \in ED!Pairings(source, target)} = {Cost(source, target, i, j, m) : m \in Ways(i, j)}
  <2> HIDE DEF cost, i, j
  <2> QED
    BY <1>4, <1>5
<1>7. ED!LevenshteinDistance(source, target) = ED!Min({Cost(source, target, i, j, m) : m \in Ways(i, j)})
  <2> HIDE DEF i, j
  <2> QED
    BY <1>2, <1>3, LeastIsMin
<1>8. ED!LevenshteinDistance(source, target) = ED!Min({cost(m) : m \in ED!Pairings(source, target)})
  <2> HIDE DEF cost, i, j
  <2> QED
    BY <1>6, <1>7
<1> QED
  BY <1>8 DEF ED!DistanceIsLeast

-----------------------------------------------------------------------------
(* A step of MCContainers is a step of one component. *)
LEMMA OneContainerSteps ==
  ASSUME [Next]_containersVars
  PROVE  /\ [BM!Next]_bitmapVars
         /\ [AR!Next]_arenaVars
         /\ [HI!Next]_histogramVars
         /\ [IV!Next]_vec
         /\ [WP!Next]_pickerVars
BY DEF Next, containersVars, InlinedVectorRuns, TopNRuns, ArenaRuns, WeightedPickerRuns,
  HistogramRuns, BitmapRuns

(* get answers what was set, and FirstUnset the least index that is not    *)
(* set, at every boundary of a word, for words and bitmaps of any size     *)
(* (bitmap.cc:7-79, bitmap.h:72-85).                                       *)
THEOREM BitmapHoldsTheBits == Spec => []HoldsTheBits
<1>1. Init => BitmapInv
  BY BitmapInitial, ContainersAssumption DEF Init, ContainersAssumption
<1>2. BitmapInv /\ [Next]_containersVars => BitmapInv'
  <2> SUFFICES ASSUME BitmapInv, [Next]_containersVars PROVE BitmapInv'
    OBVIOUS
  <2>1. BM!BitmapAssumption
    BY ContainersAssumption DEF ContainersAssumption
  <2>2. CASE BM!Next
    BY <2>1, <2>2, BitmapSteps
  <2>3. CASE UNCHANGED bitmapVars
    BY <2>3 DEF bitmapVars, BitmapInv, BM!NumWords, BM!Positions, BM!WordOf
  <2> QED
    BY <2>2, <2>3, OneContainerSteps
<1>3. BitmapInv => HoldsTheBits
  BY BitmapInvHolds, ContainersAssumption DEF HoldsTheBits, ContainersAssumption
<1> QED
  BY <1>1, <1>2, <1>3, PTL DEF Spec

(* No two requests share memory, each has the alignment it asked for and   *)
(* lies within its block, for any sizes, alignments and addresses          *)
(* (arena.cc:49-211, arena.h:45-54).                                       *)
THEOREM ArenaHandsOutApart == Spec => []HandedOutApart
<1>1. Init => ArenaInv
  BY ArenaInitial, ContainersAssumption DEF Init, ContainersAssumption
<1>2. ArenaInv /\ [Next]_containersVars => ArenaInv'
  <2> SUFFICES ASSUME ArenaInv, [Next]_containersVars PROVE ArenaInv'
    OBVIOUS
  <2>1. AR!ArenaAssumption
    BY ContainersAssumption DEF ContainersAssumption
  <2>2. CASE AR!Next
    BY <2>1, <2>2, ArenaSteps
  <2>3. CASE UNCHANGED arenaVars
    BY <2>3 DEF arenaVars, ArenaInv, AR!HandedOutApart
  <2> QED
    BY <2>2, <2>3, OneContainerSteps
<1>3. ArenaInv => HandedOutApart
  BY DEF ArenaInv, HandedOutApart
<1> QED
  BY <1>1, <1>2, <1>3, PTL DEF Spec

(* Whatever was added, every percentile lies between the smallest and the  *)
(* greatest sample and never falls as p grows, 0 and 100 are those two,    *)
(* and a percentile reaches every limit that too few samples lie under,    *)
(* for any limits (histogram.cc:63-117).                                   *)
THEOREM HistogramPercentilesFit == Spec => []PercentilesFit
<1>1. Init => HistogramInv
  BY HistogramInitial, ContainersAssumption DEF Init, ContainersAssumption
<1>2. HistogramInv /\ [Next]_containersVars => HistogramInv'
  <2> SUFFICES ASSUME HistogramInv, [Next]_containersVars PROVE HistogramInv'
    OBVIOUS
  <2>1. HI!HistogramAssumption
    BY ContainersAssumption DEF ContainersAssumption
  <2>2. CASE HI!Next
    BY <2>1, <2>2, HistogramSteps
  <2>3. CASE UNCHANGED histogramVars
    BY <2>3, HistogramStands
  <2> QED
    BY <2>2, <2>3, OneContainerSteps
<1>3. HistogramInv => PercentilesFit
  BY PercentilesFitNow, ContainersAssumption DEF PercentilesFit, ContainersAssumption
<1> QED
  BY <1>1, <1>2, <1>3, PTL DEF Spec

(* InlinedVectors hold what std::vectors would and nothing else, through   *)
(* every change between storage in the object and on the heap, whatever    *)
(* fits into the object, as long as insert and resize are not given an     *)
(* element of the vector itself (inlined_vector.h:397-442, 542-650).       *)
THEOREM InlinedVectorsAreSequences == Spec => VectorsAreSequences
<1>1. Init => VectorsInv /\ IV!Vectors!Init
  BY VectorsInitial, ContainersAssumption DEF Init, ContainersAssumption
<1>2. VectorsInv /\ [Next]_containersVars => VectorsInv' /\ [IV!Vectors!Next]_Now
  BY VectorSteps, OneContainerSteps, ContainersAssumption DEF ContainersAssumption
<1> QED
  BY <1>1, <1>2, PTL DEF Spec, VectorsAreSequences, IV!VectorsAreSequences, IV!Vectors!Spec, Now, Abs

(* Whatever was set, resized and appended, PickAt gives the element whose  *)
(* weight covers the index and none outside the total, for any weights and *)
(* number of elements (weighted_picker.cc:94-116, 118-128, 167-200).       *)
THEOREM PickerPicksWhatIsCovered == Spec => []PicksWhatIsCovered
<1>1. Init => PickerInv
  BY PickerInitial, ContainersAssumption DEF Init, ContainersAssumption
<1>2. PickerInv /\ [Next]_containersVars => PickerInv'
  BY PickerSteps, OneContainerSteps, ContainersAssumption DEF ContainersAssumption
<1>3. PickerInv => PicksWhatIsCovered
  BY PickerPicks, ContainersAssumption DEF PicksWhatIsCovered, ContainersAssumption
<1> QED
  BY <1>1, <1>2, <1>3, PTL DEF Spec

(* For any two words LevenshteinDistance is the cost of the cheapest way   *)
(* to turn one into the other, whichever is the longer and with or without *)
(* the early answers (edit_distance.h:32-70).                              *)
THEOREM EditDistanceIsLeast == Spec => []DistanceIsLeast
<1>1. Init => EditInv
  BY EditInitial DEF Init
<1>2. EditInv /\ [Next]_containersVars => EditInv'
  <2> SUFFICES ASSUME EditInv, [Next]_containersVars PROVE UNCHANGED editVars
    BY DEF EditInv, editVars
  <2> USE DEF editVars
  <2>1. CASE InlinedVectorRuns
    BY <2>1 DEF InlinedVectorRuns
  <2>2. CASE TopNRuns
    BY <2>2 DEF TopNRuns
  <2>3. CASE ArenaRuns
    BY <2>3 DEF ArenaRuns
  <2>4. CASE WeightedPickerRuns
    BY <2>4 DEF WeightedPickerRuns
  <2>5. CASE HistogramRuns
    BY <2>5 DEF HistogramRuns
  <2>6. CASE BitmapRuns
    BY <2>6 DEF BitmapRuns
  <2>7. CASE UNCHANGED containersVars
    BY <2>7 DEF containersVars
  <2> QED
    BY <2>1, <2>2, <2>3, <2>4, <2>5, <2>6, <2>7 DEF Next
<1>3. EditInv => DistanceIsLeast
  BY EditAnswers DEF DistanceIsLeast
<1> QED
  BY <1>1, <1>2, <1>3, PTL DEF Spec
=============================================================================

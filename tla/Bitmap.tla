-------------------------------- MODULE Bitmap --------------------------------
(***************************************************************************)
(* base/bitmap.cc: a bitmap in words of WordBits bits (kBits = 32).  A     *)
(* word is the set of the positions, from 0, of the bits that are set.     *)
(***************************************************************************)
EXTENDS Integers, Sequences

CONSTANTS
  WordBits,  \* kBits
  MaxBits    \* bound on the bits of a bitmap

\* A word has bits.
BitmapAssumption == WordBits \in Nat \ {0} /\ MaxBits \in Nat

VARIABLES
  nbits,  \* nbits_
  words,  \* word_
  ones    \* history: the bits set and not cleared since the last Reset

bitmapVars == <<nbits, words, ones>>

Positions == 0..WordBits - 1

NumWords(n) == (n + WordBits - 1) \div WordBits

Init == nbits = 0 /\ words = <<>> /\ ones = {}

Reset(n) ==
  /\ nbits' = n
  /\ words' = [w \in 1..NumWords(n) |-> {}]
  /\ ones' = {}

WordOf(i) == i \div WordBits + 1

Mask(i) == {i % WordBits}

get(i) == Mask(i) \subseteq words[WordOf(i)]

set(i) ==
  /\ words' = [words EXCEPT ![WordOf(i)] = @ \cup Mask(i)]
  /\ ones' = ones \cup {i}
  /\ UNCHANGED nbits

clear(i) ==
  /\ words' = [words EXCEPT ![WordOf(i)] = @ \ Mask(i)]
  /\ ones' = ones \ {i}
  /\ UNCHANGED nbits

Next ==
  \/ \E n \in 0..MaxBits : Reset(n)
  \/ \E i \in 0..nbits - 1 : set(i) \/ clear(i)

Spec == Init /\ [][Next]_bitmapVars

\* One more than the lowest bit of a word, 0 for none.
FindFirstSet(word) ==
  IF word = {} THEN 0
  ELSE 1 + (CHOOSE i \in word : \A j \in word : i <= j)

\* Fault: the bits in front of start are ignored in every word.
UnsetKeepsMask(start, w) ==
  Positions \ (words[w] \cup 0..((start % WordBits) - 1))

\* The unset bits of a word; in the word of start those in front of start do
\* not count.
Unset(start, w) ==
  Positions \ (words[w] \cup IF w = WordOf(start) THEN 0..((start % WordBits) - 1) ELSE {})

\* The words with such a bit, from that of start on.
WordsWithUnset(start) ==
  {w \in WordOf(start)..NumWords(nbits) : FindFirstSet(Unset(start, w)) # 0}

FirstUnset(start) ==
  LET found == WordsWithUnset(start)
      w0 == CHOOSE w \in found : \A v \in found : w <= v
      result == (w0 - 1) * WordBits + (FindFirstSet(Unset(start, w0)) - 1)
  IN IF start >= nbits \/ found = {} \/ result > nbits THEN nbits ELSE result

\* get is what set and clear made of the bit, and FirstUnset the smallest
\* index at or past start that is not set, bits() if there is none: at every
\* boundary of a word, also in the last one, whose tail is never used
\* (bitmap.cc:7-17 and 58-79, bitmap.h:72-85).
HoldsTheBits ==
  /\ \A i \in 0..nbits - 1 : get(i) <=> i \in ones
  /\ \A start \in 0..nbits + WordBits :
       LET unset == {i \in start..nbits - 1 : i \notin ones}
       IN IF unset = {} THEN FirstUnset(start) = nbits
          ELSE FirstUnset(start) \in unset /\ \A i \in unset : FirstUnset(start) <= i
=============================================================================

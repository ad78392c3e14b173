-------------------------------- MODULE Block --------------------------------
(***************************************************************************)
(* The blocks of a sorted table (base/io/table/block.cc): BlockBuilder,    *)
(* which leaves out what a key shares with the one before except at        *)
(* restart points, and Block::Iter, which searches the restart points and  *)
(* puts the keys together again.  A key is a sequence of bytes; an offset  *)
(* in a block is the number of entries in front of it.  A builder and an   *)
(* iterator are records, their operations are operators on them.           *)
(***************************************************************************)
EXTENDS Integers, Sequences

\* The smaller of two numbers, std::min.
Lesser(a, b) == IF a < b THEN a ELSE b

\* How many bytes two keys have in common at their start.
Common(a, b) ==
  CHOOSE n \in 0..Lesser(Len(a), Len(b)) :
    /\ \A i \in 1..n : a[i] = b[i]
    /\ n < Lesser(Len(a), Len(b)) => a[n + 1] # b[n + 1]

\* StringPiece::compare(b) < 0.
Before(a, b) ==
  LET n == Common(a, b)
  IN IF n < Len(a) /\ n < Len(b) THEN a[n + 1] < b[n + 1] ELSE Len(a) < Len(b)

----------------------------------------------------------------------------
(* BlockBuilder.  The size of a value is its own affair: bytes counts it.  *)

EmptyBuilder == [entries |-> <<>>, restarts |-> <<0>>, counter |-> 0,
                 lastKey |-> <<>>, bytes |-> 0]

CurrentSizeEstimate(b) == b.bytes + 4 * Len(b.restarts) + 4

BlockAdd(b, key, value, size, interval) ==
  LET restart == b.counter >= interval
      shared == IF restart THEN 0 ELSE Common(b.lastKey, key)
      delta == SubSeq(key, shared + 1, Len(key))
  IN [entries |-> Append(b.entries, [shared |-> shared, delta |-> delta, value |-> value]),
      restarts |-> IF restart THEN Append(b.restarts, Len(b.entries)) ELSE b.restarts,
      counter |-> IF restart THEN 1 ELSE b.counter + 1,
      lastKey |-> SubSeq(b.lastKey, 1, shared) \o delta,
      bytes |-> b.bytes + 3 + Len(delta) + size]

\* The assertions of BlockBuilder::Add.
MayAdd(b, key, interval) ==
  /\ b.counter <= interval
  /\ b.entries = <<>> \/ Before(b.lastKey, key)

\* The contents of the block.
Finished(b) == [entries |-> b.entries, restarts |-> b.restarts]

----------------------------------------------------------------------------
(* Block::Iter: current is the entry it is at, Len(entries) when invalid.  *)

NewIter(block) ==
  [block |-> block, current |-> Len(block.entries), key |-> <<>>, status |-> "OK"]

\* NewErrorIterator: never valid, and seeking changes nothing.
ErrorIter(st) ==
  [block |-> [entries |-> <<>>, restarts |-> <<>>], current |-> 0, key |-> <<>>, status |-> st]

Valid(it) == it.current < Len(it.block.entries)

Value(it) == it.block.entries[it.current + 1].value

Corrupt(it) ==
  [it EXCEPT !.current = Len(it.block.entries), !.key = <<>>, !.status = "DATA_LOSS"]

\* ParseNextKey with the next entry at offset next and key_ as it stands.
ParseNextKey(it, next, key) ==
  IF next >= Len(it.block.entries)
  THEN [it EXCEPT !.current = Len(it.block.entries)]
  ELSE LET e == it.block.entries[next + 1]
       IN IF Len(key) < e.shared
          THEN Corrupt(it)
          ELSE [it EXCEPT !.current = next, !.key = SubSeq(key, 1, e.shared) \o e.delta]

IterNext(it) == ParseNextKey(it, it.current + 1, it.key)

IterSeekToFirst(it) ==
  IF it.block.restarts = <<>> THEN it ELSE ParseNextKey(it, it.block.restarts[1], <<>>)

\* The binary search: the last of the restart points left..right (counted
\* from 0) whose key is before target, or left; -1 if one shares a prefix.
LastRestartBefore(block, target) ==
  LET n == Len(block.restarts)
      search[b \in (0..n - 1) \X (0..n - 1)] ==
        LET left == b[1]
            right == b[2]
            mid == (left + right + 1) \div 2
            e == block.entries[block.restarts[mid + 1] + 1]
        IN IF left >= right THEN left
           ELSE IF e.shared # 0 THEN -1
           ELSE IF Before(e.delta, target) THEN search[<<mid, right>>]
           ELSE search[<<left, mid - 1>>]
  IN search[<<0, n - 1>>]

\* The linear search from a restart point for the first key at or past target.
LinearSearch(it, from, target) ==
  LET last == Len(it.block.entries)
      found[i \in from..last] ==  \* the iterator having parsed entry i
        IF i = from THEN ParseNextKey(it, from, <<>>)
        ELSE LET p == found[i - 1]
             IN IF Valid(p) /\ Before(p.key, target) THEN IterNext(p) ELSE p
  IN found[last]

IterSeek(it, target) ==
  IF it.block.restarts = <<>> THEN it
  ELSE LET r == LastRestartBefore(it.block, target)
       IN IF r = -1 THEN Corrupt(it)
          ELSE LinearSearch(it, it.block.restarts[r + 1], target)
=============================================================================

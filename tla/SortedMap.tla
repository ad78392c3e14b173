------------------------------ MODULE SortedMap ------------------------------
(***************************************************************************)
(* What an Iterator over a Table promises (base/io/table/iterator.h): a    *)
(* cursor in a sorted sequence of keys.  A block that cannot be read may   *)
(* make it pass over keys, but never backwards and never without leaving   *)
(* an error in status() for good.                                          *)
(***************************************************************************)
EXTENDS Block

CONSTANT Targets  \* what callers seek

VARIABLES
  open,    \* there is an iterator
  keys,    \* the keys of the source, in order
  cursor,  \* the entry the iterator is at, Len(keys) + 1 when it is not valid
  failed   \* an error has occurred

vars == <<open, keys, cursor, failed>>

Init == ~open /\ keys = <<>> /\ cursor = 1 /\ ~failed

\* A table is opened and an iterator made for it, which is not valid yet.
NewIterator ==
  /\ ~open /\ open'
  /\ keys' \in Seq(Targets)
  /\ \A i \in 1..Len(keys') - 1 : Before(keys'[i], keys'[i + 1])
  /\ cursor' = Len(keys') + 1
  /\ ~failed'

\* The first entry at or past target.
AtOrPast(target) ==
  CHOOSE i \in 1..Len(keys) + 1 :
    /\ i <= Len(keys) => ~Before(keys[i], target)
    /\ \A j \in 1..i - 1 : Before(keys[j], target)

\* The cursor goes to entry i; with an error it may be further on.
GoTo(i) ==
  /\ open
  /\ cursor' \in i..Len(keys) + 1
  /\ failed => failed'
  /\ cursor' # i => failed'
  /\ UNCHANGED <<open, keys>>

Seek(target) == GoTo(AtOrPast(target))

SeekToFirst == GoTo(1)

Next == cursor <= Len(keys) /\ GoTo(cursor + 1)

Step ==
  \/ NewIterator
  \/ SeekToFirst
  \/ Next
  \/ \E target \in Targets : Seek(target)

Spec == Init /\ [][Step]_vars
=============================================================================

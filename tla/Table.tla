-------------------------------- MODULE Table --------------------------------
(***************************************************************************)
(* base/io/table/table_builder.cc: one client adds keys in order; data     *)
(* blocks go to the file when they are full, each with a trailer, then the *)
(* metaindex block, the index block and the footer.  Every Append to the   *)
(* file may fail, and the process may die, leaving a prefix of the file.   *)
(* A file is a sequence of units: a block's bytes, a trailer, the footer.  *)
(*                                                                         *)
(* base/io/table/table.cc and two_level_iterator.cc, reading what was      *)
(* written: Open, and one iterator with its two levels.  A read of a block *)
(* may fail or find a wrong checksum.  One turn of                         *)
(* SkipEmptyDataBlocksForward is one step.                                 *)
(***************************************************************************)
EXTENDS Block

CONSTANTS
  Keys,             \* the keys of the instance
  Sizes,            \* the sizes of values
  MaxByte,          \* 0xff
  BlockSize,        \* options.block_size
  RestartInterval,  \* options.block_restart_interval
  MaxEntries,       \* bound: calls of Add
  ReadErrors        \* how reading a block may fail

\* What the constants must be; whoever instantiates the module assumes it.
TableAssumption ==
  /\ RestartInterval \in Nat \ {0} /\ BlockSize \in Nat /\ MaxByte \in Nat
  /\ Keys \subseteq Seq(0..MaxByte) /\ Sizes \subseteq Nat /\ MaxEntries \in Nat
  /\ "OK" \notin ReadErrors

VARIABLES  \* of the builder
  file,        \* the units appended so far
  offset,      \* Rep::offset
  status,      \* Rep::status
  dataBlock,   \* Rep::data_block
  indexBlock,  \* Rep::index_block
  lastKey,     \* Rep::last_key
  pending,     \* Rep::pending_handle, or NoHandle without a pending_index_entry
  closed,      \* Rep::closed, or the process has died
  added        \* history: the entries added, in order

builderVars == <<file, offset, status, dataBlock, indexBlock, lastKey, pending, closed, added>>

NoHandle == -1

Body(contents) == [unit |-> "block", contents |-> contents]
Trailer == [unit |-> "trailer"]
Footer(at, metaindex) == [unit |-> "footer", index |-> at, metaindex |-> metaindex]

BuilderInit ==
  /\ file = <<>> /\ offset = 0 /\ status = "OK"
  /\ dataBlock = EmptyBuilder /\ indexBlock = EmptyBuilder
  /\ lastKey = <<>> /\ pending = NoHandle /\ closed = FALSE /\ added = <<>>

----------------------------------------------------------------------------
(* The keys of the index.                                                  *)

\* Fault: the shortened key may reach the next block's first one.
FindShortestSeparatorAtLimit(start, limit) ==
  LET n == Common(start, limit)
  IN IF /\ n < Lesser(Len(start), Len(limit))
        /\ start[n + 1] < MaxByte
        /\ start[n + 1] + 1 <= limit[n + 1]
     THEN Append(SubSeq(start, 1, n), start[n + 1] + 1)
     ELSE start

FindShortestSeparator(start, limit) ==
  LET n == Common(start, limit)
  IN IF /\ n < Lesser(Len(start), Len(limit))
        /\ start[n + 1] < MaxByte
        /\ start[n + 1] + 1 < limit[n + 1]
     THEN Append(SubSeq(start, 1, n), start[n + 1] + 1)
     ELSE start

FindShortSuccessor(key) ==
  IF \A i \in 1..Len(key) : key[i] = MaxByte
  THEN key
  ELSE LET n == CHOOSE i \in 1..Len(key) :
                  key[i] # MaxByte /\ \A j \in 1..i - 1 : key[j] = MaxByte
       IN Append(SubSeq(key, 1, n - 1), key[n] + 1)

----------------------------------------------------------------------------
(* Writing.  The builder as a record, so that one call can do several of   *)
(* the steps; failing is the number of Appends that succeed before one     *)
(* fails.                                                                  *)

Builder == [file |-> file, offset |-> offset, status |-> status, data |-> dataBlock,
            index |-> indexBlock, lastKey |-> lastKey, pending |-> pending]

Become(r) ==
  /\ file' = r.file /\ offset' = r.offset /\ status' = r.status
  /\ dataBlock' = r.data /\ indexBlock' = r.index
  /\ lastKey' = r.lastKey /\ pending' = r.pending

FileAppend(r, unit, ok) ==
  IF ok THEN [r EXCEPT !.file = Append(@, unit)] ELSE [r EXCEPT !.status = "IO_ERROR"]

\* The block is written at r.offset, its handle.
WriteRawBlock(r, contents, bodyOk, trailerOk) ==
  LET b == FileAppend(r, Body(contents), bodyOk)
      t == FileAppend(b, Trailer, trailerOk)
  IN IF b.status # "OK" THEN b
     ELSE IF t.status # "OK" THEN t
     ELSE [t EXCEPT !.offset = @ + 2]

DoFlush(r, bodyOk, trailerOk) ==
  IF r.status # "OK" \/ r.data.entries = <<>> THEN r
  ELSE LET w == [WriteRawBlock(r, Finished(r.data), bodyOk, trailerOk)
                   EXCEPT !.data = EmptyBuilder]
       IN IF w.status = "OK" THEN [w EXCEPT !.pending = r.offset] ELSE w

HandleSize == 2

AddIndexEntry(r, key) ==
  [r EXCEPT !.lastKey = key, !.pending = NoHandle,
            !.index = BlockAdd(@, key, r.pending, HandleSize, 1)]

\* The end of Add: the entry goes into the data block.
PutEntry(r, key, size) ==
  LET i == IF r.pending = NoHandle THEN r
           ELSE AddIndexEntry(r, FindShortestSeparator(r.lastKey, key))
  IN [i EXCEPT !.lastKey = key, !.data = BlockAdd(@, key, size, size, RestartInterval)]

\* Whether the entry is so large that the block at hand is written first.
OverlyLarge(key, size) == added # <<>> /\ Len(key) + size >= 2 * BlockSize

Add(key, size) ==
  /\ ~closed
  /\ status = "OK"  \* otherwise Add returns at once
  /\ Len(added) < MaxEntries
  /\ added # <<>> => Before(added[Len(added)].key, key)
  /\ \E bodyOk, trailerOk, bodyOk2, trailerOk2 \in BOOLEAN :
       LET f == IF OverlyLarge(key, size) THEN DoFlush(Builder, bodyOk, trailerOk) ELSE Builder
           p == PutEntry(f, key, size)
       IN Become(IF CurrentSizeEstimate(p.data) >= BlockSize
                 THEN DoFlush(p, bodyOk2, trailerOk2) ELSE p)
  /\ added' = Append(added, [key |-> key, size |-> size])
  /\ UNCHANGED closed

Flush ==
  /\ ~closed
  /\ \E bodyOk, trailerOk \in BOOLEAN : Become(DoFlush(Builder, bodyOk, trailerOk))
  /\ UNCHANGED <<closed, added>>

\* The three last steps of Finish; each is left out after an error.
WriteMetaindex(r, bodyOk, trailerOk) ==
  IF r.status # "OK" THEN r
  ELSE WriteRawBlock(r, Finished(EmptyBuilder), bodyOk, trailerOk)

WriteIndex(r, bodyOk, trailerOk) ==
  IF r.status # "OK" THEN r
  ELSE LET i == IF r.pending = NoHandle THEN r
                ELSE AddIndexEntry(r, FindShortSuccessor(r.lastKey))
       IN [WriteRawBlock(i, Finished(i.index), bodyOk, trailerOk) EXCEPT !.index = EmptyBuilder]

WriteFooter(r, metaindex, at, ok) ==
  IF r.status # "OK" THEN r
  ELSE LET f == FileAppend(r, Footer(at, metaindex), ok)
       IN IF f.status = "OK" THEN [f EXCEPT !.offset = @ + 1] ELSE f

Finish ==
  /\ ~closed /\ closed' = TRUE
  /\ \E failing \in 0..7 :  \* the Append that fails; 0 for none
       LET ok(i) == failing # i
           data == DoFlush(Builder, ok(1), ok(2))
           meta == WriteMetaindex(data, ok(3), ok(4))
           index == WriteIndex(meta, ok(5), ok(6))
       IN Become(WriteFooter(index, data.offset, meta.offset, ok(7)))
  /\ UNCHANGED added

Abandon == ~closed /\ closed' = TRUE /\ UNCHANGED <<file, offset, status, dataBlock, indexBlock, lastKey, pending, added>>

\* The process dies: what the file's buffer still held is gone.
Crash ==
  /\ ~closed /\ closed' = TRUE
  /\ \E n \in 0..Len(file) : file' = SubSeq(file, 1, n)
  /\ UNCHANGED <<offset, status, dataBlock, indexBlock, lastKey, pending, added>>

Build ==
  \/ \E key \in Keys, size \in Sizes : Add(key, size)
  \/ Flush
  \/ Finish
  \/ Abandon
  \/ Crash

-----------------------------------------------------------------------------
VARIABLES  \* of the reader
  opened,     \* what Open returned: "none", "OK" or an error
  index,      \* index_iter_
  data,       \* data_iter_, or NoIter
  handle,     \* data_block_handle_
  itStatus,   \* status_ of the two-level iterator
  skipping,   \* SkipEmptyDataBlocksForward is running
  before      \* history: [cursor, failed] as they were when the call began

iterVars == <<index, data, handle, itStatus>>
readVars == <<opened, iterVars, skipping, before>>
vars == <<builderVars, readVars>>

NoIter == ErrorIter("none")

Init ==
  /\ BuilderInit
  /\ opened = "none"
  /\ index = NoIter /\ data = NoIter /\ handle = NoHandle
  /\ itStatus = "OK" /\ skipping = FALSE
  /\ before = [cursor |-> 1, failed |-> FALSE]

\* ReadBlock at a handle, unless the read or the checksum fails.
Holds(h) == /\ h + 2 <= Len(file)
            /\ file[h + 1].unit = "block"
            /\ file[h + 2].unit = "trailer"

BlockReader(h) ==
  {ErrorIter(e) : e \in ReadErrors} \cup
  (IF Holds(h) THEN {NewIter(file[h + 1].contents)} ELSE {})

\* Table::Open reads the footer and the index block, and the caller makes an
\* iterator.
Open ==
  /\ closed /\ opened = "none"
  /\ UNCHANGED <<builderVars, data, handle, itStatus, skipping, before>>
  /\ IF file # <<>> /\ file[Len(file)].unit = "footer"
     THEN \E it \in BlockReader(file[Len(file)].index) :
            IF it.status = "OK"
            THEN opened' = "OK" /\ index' = it
            ELSE opened' = it.status /\ UNCHANGED index
     ELSE opened' = "DATA_LOSS" /\ UNCHANGED index

\* Fault: a later status replaces the first error.
SaveErrorLast(st) == st

SaveError(st) == IF itStatus = "OK" THEN st ELSE itStatus

\* SetDataIterator; status() of NoIter is not asked.
SetDataIterator(it) ==
  /\ data' = it
  /\ itStatus' = IF data = NoIter THEN itStatus ELSE SaveError(data.status)

\* The data iterator is already at the block the index points to.
AtBlock(ix) == Valid(ix) /\ data # NoIter /\ handle = Value(ix)

\* The data iterators InitDataBlock may leave with the index at ix.
InitDataBlock(ix) ==
  IF ~Valid(ix) THEN {NoIter}
  ELSE IF AtBlock(ix) THEN {data} ELSE BlockReader(Value(ix))

\* InitDataBlock, then op on the data iterator.
InitAnd(ix, op(_)) ==
  /\ handle' = IF Valid(ix) THEN Value(ix) ELSE handle
  /\ \E it \in InitDataBlock(ix) :
       LET new == IF it = NoIter THEN it ELSE op(it)
       IN IF AtBlock(ix) THEN data' = new /\ UNCHANGED itStatus
          ELSE SetDataIterator(new)

IteratorValid == data # NoIter /\ Valid(data)

\* status()
Status == IF index.status # "OK" THEN index.status
          ELSE IF data # NoIter /\ data.status # "OK" THEN data.status
          ELSE itStatus

\* Which of the entries added the iterator shows.
Cursor ==
  LET is == {i \in 1..Len(added) : added[i].key = data.key}
  IN IF ~IteratorValid THEN Len(added) + 1 ELSE IF is = {} THEN 0 ELSE CHOOSE i \in is : TRUE

\* A call on the iterator begins; the loop at its end follows.
Call ==
  /\ opened = "OK" /\ ~skipping /\ skipping' = TRUE
  /\ before' = [cursor |-> Cursor, failed |-> Status # "OK"]
  /\ UNCHANGED <<builderVars, opened>>

Seek(target) ==
  /\ Call
  /\ index' = IterSeek(index, target)
  /\ InitAnd(index', LAMBDA it : IterSeek(it, target))

SeekToFirst ==
  /\ Call
  /\ index' = IterSeekToFirst(index)
  /\ InitAnd(index', IterSeekToFirst)

Next ==
  /\ IteratorValid
  /\ Call
  /\ data' = IterNext(data)
  /\ UNCHANGED <<index, handle, itStatus>>

SkipEmptyDataBlocksForward ==
  /\ skipping
  /\ IF IteratorValid
     THEN skipping' = FALSE /\ UNCHANGED iterVars
     ELSE IF ~Valid(index)
     THEN SetDataIterator(NoIter) /\ skipping' = FALSE /\ UNCHANGED <<index, handle>>
     ELSE /\ index' = IterNext(index)
          /\ InitAnd(index', IterSeekToFirst)
          /\ UNCHANGED skipping
  /\ UNCHANGED <<builderVars, opened, before>>

Step ==
  \/ Build /\ UNCHANGED readVars
  \/ Open
  \/ \E target \in Keys : Seek(target)
  \/ SeekToFirst
  \/ Next
  \/ SkipEmptyDataBlocksForward

Spec == Init /\ [][Step]_vars

----------------------------------------------------------------------------
(* Table::InternalGet and ApproximateOffsetOf, which change nothing.       *)

\* The entry InternalGet hands to the saver, with no read error; <<>> if none.
InternalGet(key) ==
  LET ix == IterSeek(index, key)
      it == IterSeek(NewIter(file[Value(ix) + 1].contents), key)
  IN IF Valid(ix) /\ Valid(it) THEN [key |-> it.key, size |-> Value(it)] ELSE <<>>

ApproximateOffsetOf(key) ==
  LET ix == IterSeek(index, key)
  IN IF Valid(ix) THEN Value(ix) ELSE file[Len(file)].metaindex

----------------------------------------------------------------------------

\* A table whose Finish succeeded is the sorted map of what was added, for its
\* iterator: seeking and stepping find every key in order, however keys were
\* shortened, compressed and cut into blocks, and a block that could not be
\* read shows in status(), whatever is called afterwards (block.cc:136-221,
\* two_level_iterator.cc:79-134).
Map == INSTANCE SortedMap WITH
  Targets <- Keys,
  open <- opened = "OK",
  keys <- IF opened = "OK" THEN [i \in 1..Len(added) |-> added[i].key] ELSE <<>>,
  cursor <- IF opened # "OK" THEN 1 ELSE IF skipping THEN before.cursor ELSE Cursor,
  failed <- IF skipping THEN before.failed ELSE opened = "OK" /\ Status # "OK"

IsASortedMap == Map!Spec

\* The keys of a block, in order.
KeysOf(block) ==
  LET n == Len(block.entries)
      it[i \in 1..n] == IF i = 1 THEN IterSeekToFirst(NewIter(block)) ELSE IterNext(it[i - 1])
  IN [i \in 1..n |-> it[i].key]

\* The keys of the index are in strict order, as BlockBuilder::Add asserts,
\* and each is at or past every key of its block and before every key of the
\* next one, although it was shortened (table_builder.cc:18-52 and 118-125).
IndexSeparates ==
  LET separators == KeysOf(Finished(indexBlock))
      block(i) == KeysOf(file[indexBlock.entries[i].value + 1].contents)
  IN ~closed =>
       /\ pending # NoHandle => dataBlock.entries = <<>>
       /\ \A i \in 1..Len(separators) :
            /\ \A j \in 1..Len(block(i)) : ~Before(separators[i], block(i)[j])
            /\ i > 1 => /\ Before(separators[i - 1], separators[i])
                       /\ Before(separators[i - 1], block(i)[1])

\* InternalGet finds the value of every key that was added, and never an entry
\* before the one asked for; ApproximateOffsetOf never goes back when keys go
\* on; and the shortened keys of the index, by which both find a block, keep
\* the blocks apart (table.cc:115-162, table_builder.cc:18-52).
LookupsFind ==
  /\ IndexSeparates
  /\ opened = "OK" =>
       /\ \A i \in 1..Len(added) : InternalGet(added[i].key) = added[i]
       /\ \A k \in Keys : InternalGet(k) # <<>> => ~Before(InternalGet(k).key, k)
       /\ \A k, l \in Keys : Before(k, l) => ApproximateOffsetOf(k) <= ApproximateOffsetOf(l)
=============================================================================

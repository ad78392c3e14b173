------------------------------ MODULE MCStorage ------------------------------
(***************************************************************************)
(* Instances for TLC of what reads and writes files: the two buffered      *)
(* readers, zlib's reader and writer, the sorted table and the log.  They  *)
(* do not know each other: `part' is the one that runs, the others stay in *)
(* one of their initial states.  The two readers share their variables.    *)
(***************************************************************************)
EXTENDS Readers

CONSTANTS
  ZFiles, ReadCounts, ZInputSize, ZOutputSize,              \* ZlibInputStream
  FlushModes, InputSize, OutputSize, MarkerSize, Lengths, MaxBytes, Failures,
  Entries, Writers, Indices, NoEntry                        \* LeveldbDatabase

CONSTANTS ha, hb, w1, w2

VARIABLES
  part,
  zfile, filePos_z, in_z, out_z, held_z, mode, call_z, left_z, got_z, reply_z, done,
  flushMode, written, out, held, finished, in, nextIn, pc_o, call_o, open, reply_o,
  taken, failures,
  db, process, checkFailed, cursor, contiguous_size_, sparse_entries_, id_by_hash_,
  pc_l, entry, reply_l, failing, scan, partial

-----------------------------------------------------------------------------
(* Every file of up to three bytes, one of them with bit 7 set, and every  *)
(* length a caller might ask for.                                          *)
BytesUpTo3(bytes) == UNION {[1..k -> bytes] : k \in 0..3}
SmallFiles == BytesUpTo3({1, 9, LF, CR})
SmallCounts == -1..4

(* Compressed streams of up to three literals and matches, ended by a      *)
(* checksum or spoilt, and raw ones, which end with a match.               *)
Token(bytes) == [out |-> bytes, last |-> FALSE, bad |-> FALSE]
Checksum == [out |-> <<>>, last |-> TRUE, bad |-> FALSE]
Corrupt == [out |-> <<>>, last |-> FALSE, bad |-> TRUE]
Tokens == BytesUpTo3({Token(<<1>>), Token(<<1, 2, 3>>), Token(<<2, 1, 2, 1, 2>>)})
CheckedFiles == {Append(b, Checksum) : b \in Tokens}
                \cup {b \o <<Corrupt, Token(<<1>>)>> : b \in Tokens}
LastMatch == [out |-> <<1, 2, 3>>, last |-> TRUE, bad |-> FALSE]
RawFiles == {Append(b, LastMatch) : b \in BytesUpTo3({Token(<<1>>), Token(<<1, 2, 3>>)})}

ZI == INSTANCE ZlibInputStream WITH
        InputSize <- ZInputSize, OutputSize <- ZOutputSize,
        Partial <- FALSE, filePos <- filePos_z, in <- in_z, out <- out_z, held <- held_z,
        call <- call_z, left <- left_z, got <- got_z, reply <- reply_z

ZO == INSTANCE ZlibOutputBuffer WITH pc <- pc_o, call <- call_o, reply <- reply_o

(* Keys that share prefixes, are prefixes of each other, and end in 0xff.  *)
SmallKeys == {<<0>>, <<0, 2>>, <<1>>, <<2, 2>>}

(* Two entries compete for number 1, and hash ha occurs at 0, 1 and 2. *)
Entry(s, h) == [seq |-> s, hash |-> h]
Competing == {Entry(0, ha), Entry(1, ha), Entry(1, hb), Entry(2, ha)}

(* Sequence numbers that int64_t allows below 0. *)
Negative == {Entry(-1, ha), Entry(0, hb)}

LV == INSTANCE LeveldbDatabase WITH pc <- pc_l, reply <- reply_l

ASSUME StorageAssumption ==
  /\ BS!BufferedInputStreamAssumption
  /\ LV!LeveldbDatabaseAssumption
  /\ ZO!ZlibOutputBufferAssumption

-----------------------------------------------------------------------------
inputVars == <<zfile, filePos_z, in_z, out_z, held_z, mode, call_z, left_z, got_z, reply_z, done>>
outputVars == <<flushMode, written, out, held, finished, in, nextIn, pc_o, call_o, open,
                reply_o, taken, failures>>
logVars == <<db, process, checkFailed, cursor, contiguous_size_, sparse_entries_,
             id_by_hash_, pc_l, entry, reply_l, failing, scan, partial>>

storageVars == <<part, readerVars, inputVars, outputVars, tableVars, logVars>>

Parts == {"inputbuffer", "buffered_inputstream", "zlib_inputstream", "zlib_outputbuffer",
          "table", "leveldb_database"}

Init ==
  /\ part \in Parts
  /\ IF part = "inputbuffer" THEN IB!Init /\ left = BS!NotSkipping ELSE BS!StreamInit
  /\ part \notin {"inputbuffer", "buffered_inputstream"} => file = <<>>
  /\ ZI!Init
  /\ part # "zlib_inputstream" => zfile = CHOOSE f \in ZFiles : TRUE
  /\ ZO!Init
  /\ part # "zlib_outputbuffer" => flushMode = "NO_FLUSH"
  /\ TB!Init
  /\ LV!Init
  /\ part # "leveldb_database" => ~failing

InputBufferRuns ==
  /\ part = "inputbuffer" /\ IB!Next
  /\ UNCHANGED <<part, left, inputVars, outputVars, tableVars, logVars>>

BufferedInputStreamRuns ==
  /\ part = "buffered_inputstream" /\ BS!Next
  /\ UNCHANGED <<part, inputVars, outputVars, tableVars, logVars>>

ZlibInputStreamRuns ==
  /\ part = "zlib_inputstream" /\ ZI!Next
  /\ UNCHANGED <<part, readerVars, outputVars, tableVars, logVars>>

ZlibOutputBufferRuns ==
  /\ part = "zlib_outputbuffer" /\ ZO!Next
  /\ UNCHANGED <<part, readerVars, inputVars, tableVars, logVars>>

TableRuns ==
  /\ part = "table" /\ TB!Step
  /\ UNCHANGED <<part, readerVars, inputVars, outputVars, logVars>>

LeveldbDatabaseRuns ==
  /\ part = "leveldb_database" /\ LV!Next
  /\ UNCHANGED <<part, readerVars, inputVars, outputVars, tableVars>>

Next ==
  \/ InputBufferRuns
  \/ BufferedInputStreamRuns
  \/ ZlibInputStreamRuns
  \/ ZlibOutputBufferRuns
  \/ TableRuns
  \/ LeveldbDatabaseRuns

Spec == Init /\ [][Next]_storageVars

-----------------------------------------------------------------------------
(* InputBuffer reads its file as one stream of bytes                       *)
(* (inputbuffer.cc:17-158).                                                *)
InputBufferIsAStream == IB!InputBufferIsAStream

(* BufferedInputStream does so too (buffered_inputstream.cc:27-152).       *)
BufferedIsAStream == BS!BufferedIsAStream

(* ZlibInputStream is the stream of the decompressed bytes                 *)
(* (zlib_inputstream.cc:29-173).                                           *)
ZlibInputIsAStream == ZI!ZlibInputIsAStream

(* ZlibOutputBuffer loses and repeats nothing, whichever append to its     *)
(* file fails (zlib_outputbuffer.cc:56-196).                               *)
NothingLost == ZO!NothingLost

(* A finished table is the sorted map of what was added                    *)
(* (two_level_iterator.cc:79-134).                                         *)
IsASortedMap == TB!IsASortedMap

(* A lookup in a table finds every key (table.cc:115-162).                 *)
LookupsFind == TB!LookupsFind

(* The log's index agrees with its file (leveldb_database.cc:173-212).     *)
IndexOK == LV!IndexOK

(* The log is an EntryLog for its callers, through crashes                 *)
(* (leveldb_database.cc:101-167).                                          *)
ImplementsEntryLog == LV!ImplementsEntryLog

(* "OUT_OF_RANGE: If there are not enough bytes to read before the end of  *)
(* the stream" (zlib_inputstream.h).                                       *)
EndMeansAllRead == ZI!EndMeansAllRead

(* An entry is stored under the key of its own sequence number             *)
(* (leveldb_database.cc:189).                                              *)
StoredUnderOwnKey == LV!StoredUnderOwnKey
=============================================================================

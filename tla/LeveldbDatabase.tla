--------------------------- MODULE LeveldbDatabase ---------------------------
(***************************************************************************)
(* log/leveldb_database.cc: a log of entries in a LevelDB file, with an    *)
(* index in memory (id_by_hash_, contiguous_size_, sparse_entries_) that   *)
(* every start rebuilds from the file.  Writers hold lock_ from the Get to *)
(* the end of InsertEntryMapping; LookupByHash takes lock_, LookupByIndex  *)
(* and the Iterator do not.  The process may be killed between any two     *)
(* steps, and aborts when a CHECK fails; what has been Put stays.  One     *)
(* Iterator is open at a time.                                             *)
(*                                                                         *)
(* LoggedEntry is a stub in the code: an entry is a record with its        *)
(* sequence number and hash, and serializing it is injective.  LevelDB is  *)
(* external: a map from keys to entries, iterated in the order of keys.    *)
(***************************************************************************)
EXTENDS Integers, FiniteSets, FiniteSetsExt

CONSTANTS
  Entries,     \* LoggedEntry values callers try to create
  Writers,     \* threads calling CreateSequencedEntry
  Indices,     \* arguments of LookupByIndex
  NoEntry      \* no entry, NOT_FOUND

(* What the constants must be; whoever instantiates the module assumes it. *)
LeveldbDatabaseAssumption ==
  /\ IsFiniteSet(Entries) /\ NoEntry \notin Entries
  /\ (\A e \in Entries : e.seq \in Int) /\ Indices \subseteq Int

Hashes == {e.hash : e \in Entries}
Sequences == {e.seq : e \in Entries}

(* IndexToKey followed by the order of keys: its loop stops at once for a  *)
(* negative index, which leaves sixteen zero nibbles.  KeyToIndex reads    *)
(* the nibbles back.                                                       *)
IndexToKey(i) == IF i > 0 THEN i ELSE 0

Keys == {IndexToKey(s) : s \in Sequences \cup Indices}

VARIABLES
  db,                \* the file: key -> entry or NoEntry
  process,           \* "building" (in the constructor), "up" or "down"
  checkFailed,       \* history: a CHECK on the index or an entry has failed
  cursor,            \* BuildIndex: keys below it are indexed
  contiguous_size_,
  sparse_entries_,
  id_by_hash_,       \* hash -> sequence number, on the hashes it knows
  pc, entry,         \* where a writer is in CreateSequencedEntry, and with what
  reply,             \* the last return value
  failing,           \* whether leveldb may answer with an error; it does not change
  scan,              \* the Iterator of ScanEntries: open, and the <<key, entry>> left
  partial            \* history: this BuildIndex ended at an error of leveldb's iterator

index == <<contiguous_size_, sparse_entries_, id_by_hash_>>
vars == <<db, process, checkFailed, cursor, index, pc, entry, reply, failing, scan, partial>>

EmptyMap == [h \in {} |-> 0]
Closed == [open |-> FALSE, left |-> {}]
Returned(call, arg, result) == [call |-> call, arg |-> arg, result |-> result]

Init ==
  /\ db = [k \in Keys |-> NoEntry]
  /\ process = "building"
  /\ checkFailed = FALSE
  /\ cursor = 0
  /\ contiguous_size_ = 0 /\ sparse_entries_ = {} /\ id_by_hash_ = EmptyMap
  /\ pc = [w \in Writers |-> "idle"]
  /\ entry = [w \in Writers |-> NoEntry]
  /\ reply = Returned("none", NoEntry, NoEntry)
  /\ failing \in BOOLEAN
  /\ scan = Closed
  /\ partial = FALSE

Stored == {k \in Keys : db[k] # NoEntry}

(* The process is gone, with its threads and its memory. *)
Down ==
  /\ process' = "down"
  /\ pc' = [w \in Writers |-> "idle"]
  /\ entry' = [w \in Writers |-> NoEntry]
  /\ contiguous_size_' = 0 /\ sparse_entries_' = {} /\ id_by_hash_' = EmptyMap
  /\ cursor' = 0
  /\ scan' = Closed
  /\ partial' = FALSE
  /\ UNCHANGED <<reply, failing>>

CheckFails == checkFailed' = TRUE /\ Down

Crash == process # "down" /\ Down /\ UNCHANGED <<db, checkFailed>>

Open ==
  /\ process = "down"
  /\ process' = "building"
  /\ UNCHANGED <<db, checkFailed, cursor, index, pc, entry, reply, failing, scan, partial>>

-----------------------------------------------------------------------------
(* InsertEntryMapping *)

(* Where the loop over sparse_entries_ ends that starts behind n. *)
EndOfRun(n) == Min({m \in n + 1 .. n + 1 + Cardinality(sparse_entries_) : m \notin sparse_entries_})

MapHash(s, hash) ==
  id_by_hash_' = [h \in DOMAIN id_by_hash_ \cup {hash} |->
                    IF h # hash THEN id_by_hash_[h]
                    ELSE IF h \in DOMAIN id_by_hash_ THEN Min({id_by_hash_[h], s}) ELSE s]

Mappable(s) == s = contiguous_size_ \/ s \notin sparse_entries_

(* Fault: only the new entry is counted, the run behind it is left in      *)
(* sparse_entries_.                                                        *)
InsertEntryMappingOne(s, hash) ==
  /\ MapHash(s, hash)
  /\ IF s = contiguous_size_
     THEN contiguous_size_' = contiguous_size_ + 1 /\ UNCHANGED sparse_entries_
     ELSE sparse_entries_' = sparse_entries_ \cup {s} /\ UNCHANGED contiguous_size_

(* Fault: ++contiguous_size_ before the comparison. *)
InsertEntryMappingPast(s, hash) ==
  /\ MapHash(s, hash)
  /\ IF s = contiguous_size_
     THEN contiguous_size_' = EndOfRun(s) + 1 /\ UNCHANGED sparse_entries_
     ELSE sparse_entries_' = sparse_entries_ \cup {s} /\ UNCHANGED contiguous_size_

(* An entry at contiguous_size_ closes the gap to the run behind it; any   *)
(* other is remembered as sparse.                                          *)
InsertEntryMapping(s, hash) ==
  /\ MapHash(s, hash)
  /\ \/ /\ s = contiguous_size_
        /\ contiguous_size_' = EndOfRun(s)
        /\ sparse_entries_' = sparse_entries_ \ (s + 1 .. EndOfRun(s))
     \/ /\ s # contiguous_size_
        /\ sparse_entries_' = sparse_entries_ \cup {s}
        /\ UNCHANGED contiguous_size_

-----------------------------------------------------------------------------
(* BuildIndex: one turn of its loop, or its end *)

Unindexed == {k \in Stored : k >= cursor}

IndexNext ==
  LET k == Min(Unindexed)
      e == db[k]
  IN
  /\ process = "building" /\ Unindexed # {}
  /\ \/ /\ e.seq = k /\ Mappable(e.seq)
        /\ InsertEntryMapping(e.seq, e.hash)
        /\ cursor' = k + 1
        /\ UNCHANGED <<process, checkFailed, pc, entry, reply, failing, scan, partial>>
     \/ ~(e.seq = k /\ Mappable(e.seq)) /\ CheckFails
  /\ UNCHANGED db

(* Fault: the loop stops before the last entry. *)
IndexDoneEarly ==
  /\ process = "building" /\ Cardinality(Unindexed) <= 1
  /\ process' = "up"
  /\ UNCHANGED <<db, checkFailed, cursor, index, pc, entry, reply, failing, scan, partial>>

(* leveldb's iterator is no longer valid: it has reached the end, or it    *)
(* has met an error, which the loop takes for the end.                     *)
IndexDone ==
  /\ process = "building"
  /\ Unindexed = {} \/ failing
  /\ process' = "up"
  /\ partial' = (Unindexed # {})
  /\ UNCHANGED <<db, checkFailed, cursor, index, pc, entry, reply, failing, scan>>

-----------------------------------------------------------------------------
(* CreateSequencedEntry *)

LockFree == \A w \in Writers : pc[w] = "idle"

Returns(e, result) == reply' = Returned("create", e, result)

(* Fault: the Get is made before lock_ is taken. *)
GetUnlocked(w, e) ==
  LET existing == db[IndexToKey(e.seq)] IN
  /\ process = "up" /\ pc[w] = "idle"
  /\ IF existing = NoEntry
     THEN /\ pc' = [pc EXCEPT ![w] = "put"]
          /\ entry' = [entry EXCEPT ![w] = e]
          /\ UNCHANGED reply
     ELSE /\ Returns(e, IF existing = e THEN "OK" ELSE "SEQUENCE_NUMBER_ALREADY_IN_USE")
          /\ UNCHANGED <<pc, entry>>
  /\ UNCHANGED <<db, process, checkFailed, cursor, index, failing, scan, partial>>

(* Fault: whatever is stored counts as the same entry. *)
GetAcceptsAny(w, e) ==
  LET existing == db[IndexToKey(e.seq)] IN
  /\ process = "up" /\ LockFree
  /\ IF existing = NoEntry
     THEN /\ pc' = [pc EXCEPT ![w] = "put"]
          /\ entry' = [entry EXCEPT ![w] = e]
          /\ UNCHANGED reply
     ELSE Returns(e, "OK") /\ UNCHANGED <<pc, entry>>
  /\ UNCHANGED <<db, process, checkFailed, cursor, index, failing, scan, partial>>

(* lock_ is taken and the key looked up.  Only NotFound leads to the Put;  *)
(* the same data is answered with OK, and anything else, an error status   *)
(* too, with SEQUENCE_NUMBER_ALREADY_IN_USE.                               *)
Get(w, e) ==
  LET existing == db[IndexToKey(e.seq)] IN
  /\ process = "up" /\ LockFree
  /\ \/ /\ existing = NoEntry
        /\ pc' = [pc EXCEPT ![w] = "put"]
        /\ entry' = [entry EXCEPT ![w] = e]
        /\ UNCHANGED reply
     \/ /\ existing = e
        /\ Returns(e, "OK")
        /\ UNCHANGED <<pc, entry>>
     \/ /\ existing \notin {e, NoEntry} \/ failing
        /\ Returns(e, "SEQUENCE_NUMBER_ALREADY_IN_USE")
        /\ UNCHANGED <<pc, entry>>
  /\ UNCHANGED <<db, process, checkFailed, cursor, index, failing, scan, partial>>

Put(w) ==
  /\ pc[w] = "put"
  /\ db' = [db EXCEPT ![IndexToKey(entry[w].seq)] = entry[w]]
  /\ pc' = [pc EXCEPT ![w] = "map"]
  /\ UNCHANGED <<process, checkFailed, cursor, index, entry, reply, failing, scan, partial>>

(* The Put reports an error, whether or not it reached the file: abort. *)
PutFails(w) ==
  /\ failing /\ pc[w] = "put"
  /\ db' \in {db, [db EXCEPT ![IndexToKey(entry[w].seq)] = entry[w]]}
  /\ Down /\ UNCHANGED checkFailed

(* InsertEntryMapping, unlock, return. *)
Map(w) ==
  /\ pc[w] = "map"
  /\ \/ /\ Mappable(entry[w].seq)
        /\ InsertEntryMapping(entry[w].seq, entry[w].hash)
        /\ Returns(entry[w], "OK")
        /\ pc' = [pc EXCEPT ![w] = "idle"]
        /\ entry' = [entry EXCEPT ![w] = NoEntry]
        /\ UNCHANGED <<process, checkFailed, cursor, failing, scan, partial>>
     \/ ~Mappable(entry[w].seq) /\ CheckFails
  /\ UNCHANGED db

-----------------------------------------------------------------------------
(* Lookups *)

LookupByHash(h) ==
  LET s == id_by_hash_[h]
      found == db[IndexToKey(s)]
  IN
  /\ process = "up" /\ LockFree
  /\ \/ /\ h \notin DOMAIN id_by_hash_
        /\ reply' = Returned("hash", h, NoEntry)
        /\ UNCHANGED <<process, checkFailed, cursor, index, pc, entry, failing, scan, partial>>
     \/ /\ h \in DOMAIN id_by_hash_
        /\ found # NoEntry => found.hash = h
        /\ reply' = Returned("hash", h, found)
        /\ UNCHANGED <<process, checkFailed, cursor, index, pc, entry, failing, scan, partial>>
     \/ /\ h \in DOMAIN id_by_hash_
        /\ found # NoEntry /\ found.hash # h
        /\ CheckFails
  /\ UNCHANGED db

(* Without lock_: it may fall between a writer's steps. *)
LookupByIndex(i) ==
  LET found == db[IndexToKey(i)] IN
  /\ process = "up"
  /\ \/ /\ found # NoEntry => found.seq = i
        /\ reply' = Returned("index", i, found)
        /\ UNCHANGED <<process, checkFailed, cursor, index, pc, entry, failing, scan, partial>>
     \/ /\ found # NoEntry /\ found.seq # i
        /\ CheckFails
  /\ UNCHANGED db

(* NewIterator sees the file as it is now, whatever is written later. *)
ScanEntries(i) ==
  /\ process = "up"
  /\ scan' = [open |-> TRUE, left |-> {<<k, db[k]>> : k \in {x \in Stored : x >= IndexToKey(i)}}]
  /\ UNCHANGED <<db, process, checkFailed, cursor, index, pc, entry, reply, failing, partial>>

(* The entries in the order of their keys, then false; an error of         *)
(* leveldb's iterator, too, looks like the end.                            *)
GetNextEntry ==
  LET next == CHOOSE x \in scan.left : \A y \in scan.left : x[1] <= y[1] IN
  /\ scan.open
  /\ \/ /\ scan.left = {} \/ failing
        /\ reply' = Returned("next", NoEntry, NoEntry)
        /\ scan' = [scan EXCEPT !.left = {}]
        /\ UNCHANGED <<process, checkFailed, cursor, index, pc, entry, failing, partial>>
     \/ /\ scan.left # {} /\ next[2].seq = next[1]
        /\ reply' = Returned("next", NoEntry, next[2])
        /\ scan' = [scan EXCEPT !.left = @ \ {next}]
        /\ UNCHANGED <<process, checkFailed, cursor, index, pc, entry, failing, partial>>
     \/ /\ scan.left # {} /\ next[2].seq # next[1]
        /\ CheckFails
  /\ UNCHANGED db

(* A lookup meets an error status: abort. *)
LookupFails == failing /\ process = "up" /\ Down /\ UNCHANGED <<db, checkFailed>>

-----------------------------------------------------------------------------
BuildIndex == IndexNext \/ IndexDone

Next ==
  \/ Open \/ Crash
  \/ BuildIndex
  \/ \E w \in Writers : (\E e \in Entries : Get(w, e)) \/ Put(w) \/ PutFails(w) \/ Map(w)
  \/ \E h \in Hashes : LookupByHash(h)
  \/ \E i \in Indices : LookupByIndex(i) \/ ScanEntries(i)
  \/ GetNextEntry
  \/ LookupFails

Spec == Init /\ [][Next]_vars

-----------------------------------------------------------------------------
TypeOK ==
  /\ db \in [Keys -> Entries \cup {NoEntry}]
  /\ process \in {"building", "up", "down"}
  /\ checkFailed \in BOOLEAN
  /\ {cursor, contiguous_size_} \subseteq {0} \cup {s + 1 : s \in Sequences}
  /\ sparse_entries_ \subseteq Sequences
  /\ DOMAIN id_by_hash_ \subseteq Hashes
  /\ \A h \in DOMAIN id_by_hash_ : id_by_hash_[h] \in Sequences
  /\ pc \in [Writers -> {"idle", "put", "map"}]
  /\ entry \in [Writers -> Entries \cup {NoEntry}]
  /\ failing \in BOOLEAN /\ partial \in BOOLEAN
  /\ scan \in [open : BOOLEAN, left : SUBSET (Keys \X Entries)]

(* The entries the index stands for: all that are stored but the one a     *)
(* writer has Put and not yet mapped; while building, those passed.        *)
Indexed ==
  IF process = "building" THEN {k \in Stored : k < cursor}
  ELSE Stored \ {IndexToKey(entry[w].seq) : w \in {v \in Writers : pc[v] = "map"}}

(* After any order of insertions, crashes and rebuilds contiguous_size_ is *)
(* the first sequence number missing, sparse_entries_ are those beyond it, *)
(* and a hash leads to its entry of least sequence number, unless leveldb  *)
(* cut the rebuilding short.                                               *)
IndexMatchesFile ==
  process # "down" /\ ~partial =>
    /\ Indexed = 0 .. contiguous_size_ - 1 \cup sparse_entries_
    /\ \A s \in sparse_entries_ : s > contiguous_size_
    /\ \A h \in Hashes :
         LET same == {k \in Indexed : db[k].hash = h} IN
           /\ h \in DOMAIN id_by_hash_ <=> same # {}
           /\ same # {} => id_by_hash_[h] = Min(same)

(* None of the CHECKs on entries and on the index fails: an abort on one   *)
(* of those in BuildIndex would repeat itself at every restart.            *)
ChecksHold == ~checkFailed

(* The index and the file agree at every moment, through crashes in the    *)
(* middle of an entry and of a rebuilding, and so no CHECK on their        *)
(* agreement fails (leveldb_database.cc:101-124 and 173-212).              *)
IndexOK == TypeOK /\ IndexMatchesFile /\ ChecksHold

(* Seen by its callers, crashes included, the database is an EntryLog. *)
EL == INSTANCE EntryLog WITH
        NotFound <- NoEntry, log <- {db[k] : k \in Stored},
        scan <- [open |-> scan.open, left |-> {x[2] : x \in scan.left}]

ImplementsEntryLog == EL!Spec

(* The assertion at leveldb_database.cc:189 ("Entry has unexpected         *)
(* sequence_number") and at 74 and 163: an entry is stored under the key   *)
(* of its own sequence number.                                             *)
StoredUnderOwnKey == \A k \in Stored : db[k].seq = k
=============================================================================

----------------------------- MODULE StorageProofs -----------------------------
(***************************************************************************)
(* Five components of MCStorage. The log, for any entries, writers and     *)
(* lookups: its index agrees with its file and it implements EntryLog. The *)
(* inductive invariant LogInv says of every moment who holds lock_ and     *)
(* with what, what the index stands for and what an iterator has before    *)
(* it; one lemma for each action shows that it is kept, and one more that  *)
(* EntryLog sees the action as one of its own.                             *)
(*                                                                         *)
(* ZlibOutputBuffer, for any sizes: no byte is lost or written twice. Its  *)
(* inductive invariant WriterInv says where the bytes are at each point of *)
(* a call.                                                                 *)
(*                                                                         *)
(* InputBuffer, BufferedInputStream and Table: ReaderProofs shows that the *)
(* first two are ByteStreams and that lookups in the third find what was   *)
(* added; the end of this module shows that the specification which the    *)
(* run checks has their steps.                                             *)
(*                                                                         *)
(* ZlibInputStream, and that a table is a SortedMap, are only model-       *)
(* checked.                                                                *)
(***************************************************************************)
EXTENDS MCStorage, ReaderProofs, FiniteSetTheorems

(* An instance has its own copy of the operators of FiniteSets; the copies *)
(* are the operators the library's theorems are about.                     *)
LEMMA SameCounting ==
  /\ \A S : LV!Cardinality(S) = Cardinality(S)
  /\ \A S : LV!IsFiniteSet(S) <=> IsFiniteSet(S)
<1>1. \A S : LV!Cardinality(S) = Cardinality(S)
  BY DEF LV!Cardinality, Cardinality
<1>2. \A S : LV!IsFiniteSet(S) <=> IsFiniteSet(S)
  BY DEF LV!IsFiniteSet, IsFiniteSet
<1> QED
  BY <1>1, <1>2

(* What the theorems assume of the callers beyond                          *)
(* LeveldbDatabaseAssumption: no negative number is used as a sequence     *)
(* number or looked up. Every negative one is stored under the key of 0    *)
(* (leveldb_database.cc:32), and the run log_negative shows what that      *)
(* leads to.                                                               *)
NumbersNatural == (\A e \in Entries : e.seq \in Nat) /\ Indices \subseteq Nat

(* A writer inside CreateSequencedEntry, behind the Get. *)
Busy(w) == pc_l[w] # "idle"

(* lock_ is held by one writer at a time, from the Get on; before the Put  *)
(* its key is free, and behind it holds its entry                          *)
(* (leveldb_database.cc:102-124).                                          *)
WritersOK ==
  /\ \A w \in Writers : Busy(w) => process = "up" /\ entry[w] \in Entries
  /\ \A v, w \in Writers : Busy(v) /\ Busy(w) => v = w
  /\ \A w \in Writers : pc_l[w] = "put" => db[entry[w].seq] = NoEntry
  /\ \A w \in Writers : pc_l[w] = "map" => db[entry[w].seq] = entry[w]

(* What is indexed is stored, whether or not leveldb cut the rebuilding    *)
(* short.                                                                  *)
IndexSound ==
  /\ (0 .. contiguous_size_ - 1) \cup sparse_entries_ \subseteq LV!Indexed
  /\ \A s \in sparse_entries_ : s > contiguous_size_
  /\ \A h \in DOMAIN id_by_hash_ : id_by_hash_[h] \in LV!Indexed /\ db[id_by_hash_[h]].hash = h

(* What is stored is indexed, and under its hash nothing later. *)
IndexComplete ==
  /\ LV!Indexed \subseteq (0 .. contiguous_size_ - 1) \cup sparse_entries_
  /\ \A k \in LV!Indexed : db[k].hash \in DOMAIN id_by_hash_ /\ id_by_hash_[db[k].hash] <= k

(* A process that is down has no index, and an incomplete index is         *)
(* leveldb's fault.                                                        *)
StatusOK ==
  /\ process = "down" => /\ contiguous_size_ = 0 /\ sparse_entries_ = {} /\ cursor = 0
                         /\ id_by_hash_ = LV!EmptyMap
  /\ partial => process = "up" /\ failing

(* An iterator is part of the process, and what is left to it is still     *)
(* stored as it saw it, since nothing stored is ever replaced.             *)
ScanOK ==
  /\ scan.open => process = "up"
  /\ ~scan.open => scan.left = {}
  /\ \A x \in scan.left : x[1] \in LV!Stored /\ x[2] = db[x[1]]

(* The inductive invariant. IndexOK is not inductive: InsertEntryMapping   *)
(* keeps it only of a number that is not indexed yet, which is so because  *)
(* an entry is stored under its own key, the writer that inserts it holds  *)
(* lock_, and BuildIndex has not passed its key.                           *)
LogInv ==
  /\ LV!TypeOK
  /\ LV!StoredUnderOwnKey
  /\ WritersOK
  /\ process # "down" => IndexSound
  /\ process # "down" /\ ~partial => IndexComplete
  /\ StatusOK
  /\ ScanOK
  /\ LV!ChecksHold

(* Min is the least number of a set. *)
LEMMA MinIsLeast ==
  ASSUME NEW S, S \subseteq Nat, S # {}
  PROVE  /\ LV!Min(S) \in S
         /\ \A y \in S : LV!Min(S) <= y
BY LeastNumber DEF LV!Min

(* IndexToKey and KeyToIndex are inverse on the numbers that are not       *)
(* negative (leveldb_database.cc:29-51).                                   *)
LEMMA KeyOfNumber ==
  ASSUME NumbersNatural
  PROVE  /\ \A s \in LV!Sequences \cup Indices : LV!IndexToKey(s) = s
         /\ LV!Keys = LV!Sequences \cup Indices
         /\ LV!Keys \subseteq Nat /\ LV!Sequences \subseteq Nat
         /\ \A e \in Entries : e.seq \in LV!Sequences /\ e.hash \in LV!Hashes
<1>1. ASSUME NEW s \in LV!Sequences \cup Indices PROVE s \in Nat /\ LV!IndexToKey(s) = s
  <2>1. s \in Nat
    BY DEF NumbersNatural, LV!Sequences
  <2> QED
    BY <2>1 DEF LV!IndexToKey
<1> QED
  BY <1>1 DEF LV!Keys, LV!Sequences, LV!Hashes

(* The loop behind contiguous_size_ ends (leveldb_database.cc:203-207):    *)
(* among the numbers after n one more than there are sparse entries, one   *)
(* is not sparse, and all before the first such are.                       *)
LEMMA RunEnds ==
  ASSUME NumbersNatural, LV!LeveldbDatabaseAssumption, sparse_entries_ \subseteq LV!Sequences,
         NEW n \in Nat
  PROVE  /\ LV!EndOfRun(n) \in Nat /\ LV!EndOfRun(n) > n
         /\ LV!EndOfRun(n) \notin sparse_entries_
         /\ \A m \in n + 1 .. LV!EndOfRun(n) - 1 : m \in sparse_entries_
<1> DEFINE C == Cardinality(sparse_entries_)
           D == n + 1 .. n + 1 + C
           Gaps == {m \in D : m \notin sparse_entries_}
<1>1. IsFiniteSet(sparse_entries_) /\ C \in Nat
  <2>1. IsFiniteSet(Entries)
    BY SameCounting DEF LV!LeveldbDatabaseAssumption
  <2> DEFINE Number == [e \in Entries |-> e.seq]
  <2>2. Number \in Surjection(Entries, LV!Sequences)
    BY DEF Surjection, LV!Sequences
  <2>3. IsFiniteSet(LV!Sequences)
    BY <2>1, <2>2, FS_Surjection
  <2> QED
    BY <2>3, FS_Subset, FS_CardinalityType
<1>2. Gaps # {}
  <2> SUFFICES ASSUME D \subseteq sparse_entries_ PROVE FALSE
    OBVIOUS
  <2>1. Cardinality(D) <= C
    BY <1>1, FS_Subset
  <2>2. Cardinality(D) = n + 1 + C - (n + 1) + 1
    BY <1>1, FS_Interval
  <2> QED
    BY <1>1, <2>1, <2>2
<1>3. LV!EndOfRun(n) = LV!Min(Gaps)
  BY SameCounting DEF LV!EndOfRun
<1>4. LV!Min(Gaps) \in Gaps /\ \A y \in Gaps : LV!Min(Gaps) <= y
  <2>1. Gaps \subseteq Nat
    BY <1>1
  <2> HIDE DEF Gaps
  <2> QED
    BY <1>2, <2>1, MinIsLeast
<1>5. LV!EndOfRun(n) \in D /\ LV!EndOfRun(n) \notin sparse_entries_
  BY <1>3, <1>4
<1>6. ASSUME NEW m \in n + 1 .. LV!EndOfRun(n) - 1, m \notin sparse_entries_ PROVE FALSE
  <2>1. m \in D
    <3> HIDE DEF C
    <3> QED
      BY <1>1, <1>5
  <2>2. m \in Gaps
    BY <2>1, <1>6
  <2>3. LV!EndOfRun(n) <= m
    BY <1>3, <1>4, <2>2
  <2> QED
    <3> HIDE DEF C, Gaps
    <3> QED
      BY <1>1, <1>5, <2>3
<1> QED
  <2> HIDE DEF C
  <2> QED
    BY <1>1, <1>5, <1>6

(* InsertEntryMapping adds exactly one number to those the two variables   *)
(* stand for, and the sparse ones stay beyond contiguous_size_             *)
(* (leveldb_database.cc:201-211).                                          *)
LEMMA CoverageGrows ==
  ASSUME NumbersNatural, LV!LeveldbDatabaseAssumption, LV!TypeOK, IndexSound,
         NEW s \in LV!Sequences, s \notin LV!Indexed, NEW hash, LV!InsertEntryMapping(s, hash)
  PROVE  /\ (0 .. contiguous_size_ - 1) \cup sparse_entries_ \cup {s}
              = (0 .. contiguous_size_' - 1) \cup sparse_entries_'
         /\ \A x \in sparse_entries_' : x > contiguous_size_'
         /\ contiguous_size_' \in {0} \cup {x + 1 : x \in LV!Sequences}
         /\ sparse_entries_' \subseteq LV!Sequences
<1> DEFINE c == contiguous_size_
           S == sparse_entries_
<1>1. c \in Nat /\ s \in Nat /\ S \subseteq LV!Sequences /\ LV!Sequences \subseteq Nat
  BY KeyOfNumber DEF LV!TypeOK
<1>2. s \notin 0 .. c - 1 /\ s \notin S
  BY DEF IndexSound
<1>3. \A x \in S : x > c
  BY DEF IndexSound
<1>4. CASE s = c
  <2> DEFINE end == LV!EndOfRun(s)
  <2>1. /\ contiguous_size_' = end
        /\ sparse_entries_' = S \ (s + 1 .. end)
    BY <1>4 DEF LV!InsertEntryMapping
  <2>2. /\ end \in Nat /\ end > s
        /\ end \notin S
        /\ \A m \in s + 1 .. end - 1 : m \in S
    BY <1>1, RunEnds
  <2> HIDE DEF end
  <2>3. /\ (0 .. c - 1) \cup S \cup {s} = (0 .. end - 1) \cup (S \ (s + 1 .. end))
        /\ \A x \in S \ (s + 1 .. end) : x > end
    BY <1>1, <1>3, <1>4, <2>2
  <2>4. end - 1 \in LV!Sequences
    <3>1. end - 1 = s \/ end - 1 \in s + 1 .. end - 1
      BY <1>1, <2>2
    <3> QED
      BY <1>1, <2>2, <3>1
  <2>5. end = (end - 1) + 1
    BY <2>2
  <2> QED
    BY <1>1, <2>1, <2>3, <2>4, <2>5
<1>5. CASE s # c
  <2>1. sparse_entries_' = S \cup {s} /\ contiguous_size_' = c
    BY <1>5 DEF LV!InsertEntryMapping
  <2>2. s > c
    BY <1>1, <1>2, <1>5
  <2> QED
    BY <1>1, <1>3, <2>1, <2>2 DEF LV!TypeOK
<1> QED
  BY <1>4, <1>5

(* A hash leads to the least of the numbers inserted with it               *)
(* (leveldb_database.cc:197-199).                                          *)
LEMMA HashesGrow ==
  ASSUME NumbersNatural, LV!TypeOK, NEW s \in LV!Sequences, NEW hash \in LV!Hashes,
         LV!MapHash(s, hash)
  PROVE  /\ DOMAIN id_by_hash_' = DOMAIN id_by_hash_ \cup {hash}
         /\ \A h \in DOMAIN id_by_hash_ \ {hash} : id_by_hash_'[h] = id_by_hash_[h]
         /\ id_by_hash_'[hash] <= s
         /\ hash \notin DOMAIN id_by_hash_ => id_by_hash_'[hash] = s
         /\ hash \in DOMAIN id_by_hash_ => /\ id_by_hash_'[hash] \in {id_by_hash_[hash], s}
                                           /\ id_by_hash_'[hash] <= id_by_hash_[hash]
<1>1. s \in Nat /\ LV!Sequences \subseteq Nat
  BY KeyOfNumber
<1>2. CASE hash \in DOMAIN id_by_hash_
  <2> DEFINE pair == {id_by_hash_[hash], s}
  <2>1. pair \subseteq Nat /\ pair # {}
    BY <1>1, <1>2 DEF LV!TypeOK
  <2>2. LV!Min(pair) \in pair /\ \A y \in pair : LV!Min(pair) <= y
    <3> HIDE DEF pair
    <3> QED
      BY <2>1, MinIsLeast
  <2>3. id_by_hash_'[hash] = LV!Min(pair)
    BY <1>2 DEF LV!MapHash
  <2> QED
    BY <1>2, <2>2, <2>3 DEF LV!MapHash
<1>3. CASE hash \notin DOMAIN id_by_hash_
  BY <1>1, <1>3 DEF LV!MapHash
<1> QED
  BY <1>2, <1>3

(* InsertEntryMapping keeps the index in step with what it stands for when *)
(* the number is new to it.                                                *)
LEMMA InsertionKeeps ==
  ASSUME NumbersNatural, LV!LeveldbDatabaseAssumption, LV!TypeOK, IndexSound,
         NEW s \in LV!Sequences, s \notin LV!Indexed, NEW hash \in LV!Hashes,
         LV!InsertEntryMapping(s, hash), UNCHANGED db,
         db[s].hash = hash, LV!Indexed' = LV!Indexed \cup {s}
  PROVE  /\ IndexSound' /\ (IndexComplete => IndexComplete')
         /\ contiguous_size_' \in {0} \cup {x + 1 : x \in LV!Sequences}
         /\ sparse_entries_' \subseteq LV!Sequences
         /\ DOMAIN id_by_hash_' \subseteq LV!Hashes
         /\ \A h \in DOMAIN id_by_hash_' : id_by_hash_'[h] \in LV!Sequences
<1>1. /\ (0 .. contiguous_size_ - 1) \cup sparse_entries_ \cup {s}
              = (0 .. contiguous_size_' - 1) \cup sparse_entries_'
      /\ \A x \in sparse_entries_' : x > contiguous_size_'
      /\ contiguous_size_' \in {0} \cup {x + 1 : x \in LV!Sequences}
      /\ sparse_entries_' \subseteq LV!Sequences
  BY CoverageGrows
<1>2. /\ DOMAIN id_by_hash_' = DOMAIN id_by_hash_ \cup {hash}
      /\ \A h \in DOMAIN id_by_hash_ \ {hash} : id_by_hash_'[h] = id_by_hash_[h]
      /\ id_by_hash_'[hash] <= s
      /\ hash \notin DOMAIN id_by_hash_ => id_by_hash_'[hash] = s
      /\ hash \in DOMAIN id_by_hash_ => /\ id_by_hash_'[hash] \in {id_by_hash_[hash], s}
                                        /\ id_by_hash_'[hash] <= id_by_hash_[hash]
  BY HashesGrow DEF LV!InsertEntryMapping
<1>3. /\ DOMAIN id_by_hash_' \subseteq LV!Hashes
      /\ \A h \in DOMAIN id_by_hash_' : id_by_hash_'[h] \in LV!Sequences
  BY <1>2 DEF LV!TypeOK
<1>4. /\ (0 .. contiguous_size_' - 1) \cup sparse_entries_' \subseteq LV!Indexed'
      /\ IndexComplete =>
           LV!Indexed' \subseteq (0 .. contiguous_size_' - 1) \cup sparse_entries_'
  BY <1>1 DEF IndexSound, IndexComplete
<1>5. ASSUME NEW h \in DOMAIN id_by_hash_'
      PROVE  id_by_hash_'[h] \in LV!Indexed' /\ db'[id_by_hash_'[h]].hash = h
  BY <1>2, <1>5 DEF IndexSound
<1>6. ASSUME IndexComplete, NEW k \in LV!Indexed'
      PROVE  db'[k].hash \in DOMAIN id_by_hash_' /\ id_by_hash_'[db'[k].hash] <= k
  <2>1. CASE k = s
    BY <1>2, <2>1
  <2>2. CASE k # s
    <3> DEFINE h == db[k].hash
    <3>1. k \in LV!Indexed /\ h \in DOMAIN id_by_hash_ /\ id_by_hash_[h] <= k
      BY <1>6, <2>2 DEF IndexComplete
    <3>2. k \in Nat /\ id_by_hash_[h] \in Nat /\ s \in Nat
      BY <3>1, KeyOfNumber DEF LV!TypeOK, LV!Indexed, LV!Stored
    <3>3. id_by_hash_'[h] <= id_by_hash_[h] /\ id_by_hash_'[h] \in Nat
      <4>1. id_by_hash_'[h] \in {id_by_hash_[h], s}
        BY <1>2, <3>1
      <4>2. h # hash => id_by_hash_'[h] = id_by_hash_[h]
        BY <1>2, <3>1
      <4> QED
        BY <1>2, <3>1, <3>2, <4>1, <4>2
    <3> QED
      BY <1>2, <3>1, <3>2, <3>3
  <2> QED
    BY <2>1, <2>2
<1>7. IndexSound'
  BY <1>1, <1>4, <1>5 DEF IndexSound
<1>8. IndexComplete => IndexComplete'
  BY <1>4, <1>6 DEF IndexComplete
<1> QED
  BY <1>1, <1>3, <1>7, <1>8

(* The inductive invariant says what IndexOK says. *)
LEMMA LogInvImpliesIndexOK == ASSUME NumbersNatural, LogInv PROVE LV!IndexOK
<1>1. ASSUME process # "down", ~partial, NEW h \in LV!Hashes
      PROVE  LET same == {k \in LV!Indexed : db[k].hash = h} IN
               /\ h \in DOMAIN id_by_hash_ <=> same # {}
               /\ same # {} => id_by_hash_[h] = LV!Min(same)
  <2> DEFINE same == {k \in LV!Indexed : db[k].hash = h}
  <2>1. IndexSound /\ IndexComplete
    BY <1>1 DEF LogInv
  <2>2. same \subseteq Nat
    BY KeyOfNumber DEF LV!Indexed, LV!Stored
  <2>3. h \in DOMAIN id_by_hash_ => id_by_hash_[h] \in same
    BY <2>1 DEF IndexSound
  <2>4. ASSUME NEW k \in same PROVE h \in DOMAIN id_by_hash_ /\ id_by_hash_[h] <= k
    BY <2>1 DEF IndexComplete
  <2> HIDE DEF same
  <2>5. ASSUME same # {} PROVE id_by_hash_[h] = LV!Min(same)
    <3>1. LV!Min(same) \in same /\ \A y \in same : LV!Min(same) <= y
      BY <2>2, <2>5, MinIsLeast
    <3>2. id_by_hash_[h] \in same /\ id_by_hash_[h] <= LV!Min(same)
      BY <2>3, <2>4, <3>1
    <3>3. LV!Min(same) <= id_by_hash_[h]
      BY <3>1, <3>2
    <3>4. LV!Min(same) \in Nat /\ id_by_hash_[h] \in Nat
      BY <2>2, <3>1, <3>2
    <3> QED
      BY <3>2, <3>3, <3>4
  <2>6. h \in DOMAIN id_by_hash_ <=> same # {}
    BY <2>3, <2>4
  <2> QED
    BY <2>5, <2>6 DEF same
<1>2. LV!IndexMatchesFile
  BY <1>1 DEF LV!IndexMatchesFile, LogInv, IndexSound, IndexComplete
<1> QED
  BY <1>2 DEF LV!IndexOK, LogInv

(* The constructor starts with an empty file and an empty index. *)
LEMMA LogInitially == ASSUME NumbersNatural, LV!Init PROVE LogInv
<1>1. LV!Stored = {} /\ LV!Indexed = {}
  BY DEF LV!Init, LV!Stored, LV!Indexed
<1>2. LV!TypeOK
  BY DEF LV!Init, LV!TypeOK, LV!EmptyMap, LV!Closed
<1>3. IndexSound /\ IndexComplete
  BY <1>1 DEF LV!Init, IndexSound, IndexComplete, LV!EmptyMap
<1> QED
  BY <1>1, <1>2, <1>3 DEF LV!Init, LogInv, LV!StoredUnderOwnKey, WritersOK, Busy, StatusOK,
       ScanOK, LV!Closed, LV!ChecksHold

(* Whatever stops the process, what has been Put stays and everything else *)
(* is gone.                                                                *)
LEMMA GoingDownKeeps ==
  ASSUME LogInv, LV!Down, checkFailed' = FALSE,
         \/ db' = db
         \/ \E w \in Writers : pc_l[w] = "put" /\ db' = [db EXCEPT ![entry[w].seq] = entry[w]]
  PROVE  LogInv'
<1>1. LV!TypeOK'
  <2>1. db' \in [LV!Keys -> Entries \cup {NoEntry}]
    BY DEF LogInv, LV!TypeOK, WritersOK, Busy
  <2>2. DOMAIN id_by_hash_' = {}
    BY DEF LV!Down, LV!EmptyMap
  <2> QED
    BY <2>1, <2>2 DEF LogInv, LV!TypeOK, LV!Down, LV!Closed
<1>2. LV!StoredUnderOwnKey'
  BY DEF LogInv, LV!StoredUnderOwnKey, LV!Stored, LV!TypeOK
<1> QED
  BY <1>1, <1>2 DEF LogInv, WritersOK, Busy, StatusOK, ScanOK, LV!Closed, LV!ChecksHold, LV!Down

(* A restart begins with an index of nothing, which is right for a cursor  *)
(* at 0.                                                                   *)
LEMMA OpenKeeps == ASSUME NumbersNatural, LogInv, LV!Open PROVE LogInv'
<1>1. LV!TypeOK' /\ LV!StoredUnderOwnKey'
  BY DEF LogInv, LV!TypeOK, LV!StoredUnderOwnKey, LV!Stored, LV!Open, LV!index
<1>2. WritersOK' /\ StatusOK' /\ ScanOK' /\ LV!ChecksHold'
  BY DEF LogInv, WritersOK, Busy, StatusOK, ScanOK, LV!Stored, LV!ChecksHold, LV!Open, LV!index
<1>3. LV!Indexed' = {}
  BY KeyOfNumber DEF LogInv, StatusOK, LV!Open, LV!index, LV!Indexed, LV!Stored
<1>4. IndexSound' /\ IndexComplete'
  BY <1>3 DEF LogInv, StatusOK, LV!Open, LV!index, IndexSound, IndexComplete, LV!EmptyMap
<1> QED
  BY <1>1, <1>2, <1>4 DEF LogInv

(* A step that changes at most the iterator and the reply. *)
LEMMA OnlyScanChanges ==
  ASSUME LogInv, db' = db, process' = process, checkFailed' = checkFailed, cursor' = cursor,
         UNCHANGED LV!index, pc_l' = pc_l, entry' = entry, failing' = failing,
         partial' = partial,
         ScanOK', scan' \in [open : BOOLEAN, left : SUBSET (LV!Keys \X Entries)]
  PROVE  LogInv'
<1> USE DEF LV!index
<1>1. LV!TypeOK'
  BY DEF LogInv, LV!TypeOK
<1>2. LV!Stored' = LV!Stored /\ LV!Indexed' = LV!Indexed
  BY DEF LV!Stored, LV!Indexed
<1>3. /\ LV!StoredUnderOwnKey' /\ WritersOK' /\ StatusOK' /\ LV!ChecksHold'
      /\ (IndexSound => IndexSound') /\ (IndexComplete => IndexComplete')
  BY <1>2 DEF LogInv, LV!StoredUnderOwnKey, WritersOK, Busy, StatusOK, LV!ChecksHold,
       IndexSound, IndexComplete
<1> QED
  BY <1>1, <1>3 DEF LogInv

(* A step that only answers. *)
LEMMA OnlyReplyChanges ==
  ASSUME LogInv, db' = db, process' = process, checkFailed' = checkFailed, cursor' = cursor,
         UNCHANGED LV!index, pc_l' = pc_l, entry' = entry, failing' = failing,
         partial' = partial,
         scan' = scan
  PROVE  LogInv'
<1>1. ScanOK' /\ scan' \in [open : BOOLEAN, left : SUBSET (LV!Keys \X Entries)]
  BY DEF LogInv, LV!TypeOK, ScanOK, LV!Stored
<1> QED
  BY <1>1, OnlyScanChanges

(* A crash, or an abort on an error status in a lookup. *)
LEMMA CrashKeeps ==
  ASSUME LogInv, LV!Crash \/ LV!LookupFails
  PROVE  LogInv'
<1>1. LV!Down /\ UNCHANGED <<db, checkFailed>>
  BY DEF LV!Crash, LV!LookupFails
<1> QED
  BY <1>1, GoingDownKeeps DEF LogInv, LV!TypeOK, LV!ChecksHold

(* One turn of BuildIndex's loop: the least key not passed yet holds an    *)
(* entry with that number, so that no CHECK fails, and it is inserted      *)
(* (leveldb_database.cc:182-193).                                          *)
LEMMA IndexNextKeeps ==
  ASSUME NumbersNatural, LV!LeveldbDatabaseAssumption, LogInv, LV!IndexNext
  PROVE  LogInv'
<1> DEFINE k == LV!Min(LV!Unindexed)
           e == db[k]
<1>1. k \in LV!Unindexed /\ \A y \in LV!Unindexed : k <= y
  <2>1. LV!Unindexed \subseteq Nat /\ LV!Unindexed # {}
    BY KeyOfNumber DEF LV!IndexNext, LV!Unindexed, LV!Stored
  <2> HIDE DEF k
  <2> QED
    BY <2>1, MinIsLeast DEF k
<1>2. /\ process = "building" /\ IndexSound /\ IndexComplete
      /\ \A w \in Writers : ~Busy(w)
  BY DEF LV!IndexNext, LogInv, StatusOK, WritersOK
<1>3. k \in LV!Keys /\ k \in LV!Stored /\ k \notin LV!Indexed /\ e.seq = k /\ e \in Entries
  BY <1>1, <1>2, KeyOfNumber
  DEF LV!Unindexed, LV!Indexed, LV!Stored, LogInv, LV!TypeOK, LV!StoredUnderOwnKey
<1>4. k \in LV!Sequences /\ e.hash \in LV!Hashes
  BY <1>3, KeyOfNumber
<1>5. k \notin sparse_entries_
  BY <1>2, <1>3 DEF IndexSound
<1>6. /\ LV!InsertEntryMapping(k, e.hash)
      /\ cursor' = k + 1
      /\ UNCHANGED <<process, checkFailed, pc_l, entry, reply_l, failing, scan, partial>>
      /\ UNCHANGED db
  BY <1>3, <1>5 DEF LV!IndexNext, LV!Mappable
<1> HIDE DEF k
<1>7. LV!Stored' = LV!Stored /\ LV!Indexed' = LV!Indexed \cup {k}
  <2>1. LV!Stored' = LV!Stored
    BY <1>6 DEF LV!Stored
  <2>2. \A j \in LV!Stored : j < k + 1 <=> j < cursor \/ j = k
    <3>1. \A j \in LV!Stored : j \in Nat
      BY KeyOfNumber DEF LV!Stored
    <3>2. k \in Nat /\ k >= cursor /\ cursor \in Nat /\ k \in LV!Stored
      BY <1>1, <3>1, KeyOfNumber DEF LV!Unindexed, LogInv, LV!TypeOK
    <3>3. \A j \in LV!Stored : j >= cursor => k <= j
      BY <1>1 DEF LV!Unindexed
    <3> QED
      BY <3>1, <3>2, <3>3
  <2> QED
    BY <1>2, <1>3, <1>6, <2>1, <2>2 DEF LV!Indexed
<1>8. /\ IndexSound' /\ IndexComplete'
      /\ contiguous_size_' \in {0} \cup {x + 1 : x \in LV!Sequences}
      /\ sparse_entries_' \subseteq LV!Sequences
      /\ DOMAIN id_by_hash_' \subseteq LV!Hashes
      /\ \A h \in DOMAIN id_by_hash_' : id_by_hash_'[h] \in LV!Sequences
  BY <1>2, <1>3, <1>4, <1>6, <1>7, InsertionKeeps DEF LogInv, e
<1>9. LV!TypeOK'
  BY <1>4, <1>6, <1>8 DEF LogInv, LV!TypeOK
<1> QED
  BY <1>2, <1>6, <1>7, <1>8, <1>9
  DEF LogInv, LV!StoredUnderOwnKey, WritersOK, Busy, StatusOK, ScanOK, LV!ChecksHold

(* BuildIndex ends with everything indexed, or leaves the index incomplete *)
(* because leveldb failed.                                                 *)
LEMMA IndexDoneKeeps == ASSUME NumbersNatural, LogInv, LV!IndexDone PROVE LogInv'
<1>1. /\ process = "building" /\ process' = "up"
      /\ partial' = (LV!Unindexed # {})
      /\ UNCHANGED <<db, checkFailed, cursor, LV!index, pc_l, entry, reply_l, failing, scan>>
      /\ IndexSound /\ IndexComplete
      /\ \A w \in Writers : ~Busy(w)
  BY DEF LV!IndexDone, LogInv, StatusOK, WritersOK
<1>2. LV!Stored' = LV!Stored /\ LV!Indexed' = LV!Stored /\ LV!Indexed \subseteq LV!Stored
  BY <1>1 DEF LV!Stored, LV!Indexed, Busy
<1>3. ~partial' => LV!Indexed' = LV!Indexed
  <2>1. cursor \in Int /\ LV!Stored \subseteq Int
    BY KeyOfNumber DEF LogInv, LV!TypeOK, LV!Stored
  <2>2. ASSUME LV!Unindexed = {} PROVE LV!Stored \subseteq LV!Indexed
    BY <1>1, <2>1, <2>2 DEF LV!Unindexed, LV!Indexed
  <2> QED
    BY <1>1, <1>2, <2>2
<1>4. LV!TypeOK'
  BY <1>1 DEF LogInv, LV!TypeOK, LV!index
<1>5. IndexSound'
  BY <1>1, <1>2 DEF IndexSound, LV!index
<1>6. ~partial' => IndexComplete'
  BY <1>1, <1>3 DEF IndexComplete, LV!index
<1>7. partial' => failing'
  <2>1. LV!Unindexed = {} => partial' = FALSE
    BY <1>1
  <2>2. failing' = failing
    BY <1>1
  <2> QED
    BY <2>1, <2>2 DEF LV!IndexDone
<1> QED
  BY <1>1, <1>2, <1>4, <1>5, <1>6, <1>7
  DEF LogInv, LV!StoredUnderOwnKey, WritersOK, Busy, StatusOK, ScanOK, LV!ChecksHold, LV!index

(* The Get of CreateSequencedEntry, under lock_                            *)
(* (leveldb_database.cc:101-119).                                          *)
LEMMA GetKeeps ==
  ASSUME NumbersNatural, LogInv, NEW w \in Writers, NEW e \in Entries, LV!Get(w, e)
  PROVE  LogInv'
<1>1. LV!IndexToKey(e.seq) = e.seq /\ e.seq \in LV!Keys
  BY KeyOfNumber
<1>2. /\ process = "up" /\ \A v \in Writers : ~Busy(v)
      /\ UNCHANGED <<db, process, checkFailed, cursor, LV!index, failing, scan, partial>>
  BY DEF LV!Get, LV!LockFree, Busy
<1>3. CASE UNCHANGED <<pc_l, entry>>
  <2>1. /\ db' = db /\ process' = process /\ checkFailed' = checkFailed /\ cursor' = cursor
        /\ UNCHANGED LV!index /\ pc_l' = pc_l /\ entry' = entry /\ failing' = failing
        /\ partial' = partial /\ scan' = scan
    BY <1>2, <1>3
  <2> QED
    BY <2>1, OnlyReplyChanges
<1>4. CASE /\ db[e.seq] = NoEntry
           /\ pc_l' = [pc_l EXCEPT ![w] = "put"]
           /\ entry' = [entry EXCEPT ![w] = e]
  <2>1. LV!TypeOK'
    BY <1>2, <1>4 DEF LogInv, LV!TypeOK, LV!index
  <2>2. WritersOK'
    <3>1. /\ pc_l'[w] = "put" /\ entry'[w] = e
          /\ \A v \in Writers \ {w} : pc_l'[v] = "idle"
      BY <1>2, <1>4 DEF LogInv, LV!TypeOK, Busy
    <3> QED
      BY <1>2, <1>4, <3>1 DEF WritersOK, Busy
  <2>3. LV!Stored' = LV!Stored /\ LV!Indexed' = LV!Indexed
    <3>1. \A v \in Writers : pc_l[v] # "map" /\ pc_l'[v] # "map"
      BY <1>2, <1>4 DEF LogInv, LV!TypeOK, Busy
    <3> QED
      BY <1>2, <3>1 DEF LV!Stored, LV!Indexed
  <2>4. (IndexSound => IndexSound') /\ (IndexComplete => IndexComplete')
    BY <1>2, <2>3 DEF IndexSound, IndexComplete, LV!index
  <2> QED
    BY <1>2, <2>1, <2>2, <2>3, <2>4
    DEF LogInv, LV!StoredUnderOwnKey, StatusOK, ScanOK, LV!ChecksHold, LV!index
<1> QED
  BY <1>1, <1>3, <1>4 DEF LV!Get

(* The Put of CreateSequencedEntry: the entry is in the file and not in    *)
(* the index, until its writer maps it.                                    *)
LEMMA PutKeeps ==
  ASSUME NumbersNatural, LV!LeveldbDatabaseAssumption, LogInv, NEW w \in Writers, LV!Put(w)
  PROVE  LogInv'
<1> DEFINE e == entry[w]
           s == e.seq
<1>1. /\ process = "up" /\ e \in Entries /\ db[s] = NoEntry
      /\ \A v \in Writers \ {w} : pc_l[v] = "idle"
  BY DEF LV!Put, LogInv, WritersOK, Busy
<1>2. LV!IndexToKey(s) = s /\ s \in LV!Keys /\ s \in Nat
  BY <1>1, KeyOfNumber
<1>3. /\ pc_l[w] = "put" /\ db' = [db EXCEPT ![s] = e]
      /\ pc_l' = [pc_l EXCEPT ![w] = "map"]
      /\ UNCHANGED <<process, checkFailed, cursor, LV!index, entry, reply_l, failing, scan,
                     partial>>
  BY <1>2 DEF LV!Put
<1>4. e # NoEntry
  BY <1>1 DEF LV!LeveldbDatabaseAssumption
<1>5. LV!Stored' = LV!Stored \cup {s} /\ s \notin LV!Stored
  BY <1>1, <1>2, <1>3, <1>4 DEF LogInv, LV!TypeOK, LV!Stored
<1>6. \A k \in LV!Stored : db'[k] = db[k]
  BY <1>3, <1>5 DEF LogInv, LV!TypeOK, LV!Stored
<1>7. LV!Indexed = LV!Stored /\ LV!Indexed' = LV!Stored
  <2>1. {v \in Writers : pc_l[v] = "map"} = {} /\ {v \in Writers : pc_l'[v] = "map"} = {w}
    BY <1>1, <1>3 DEF LogInv, LV!TypeOK
  <2>2. entry'[w].seq = s
    BY <1>3
  <2> QED
    BY <1>1, <1>2, <1>3, <1>5, <2>1, <2>2 DEF LV!Indexed
<1>8. LV!TypeOK'
  BY <1>1, <1>2, <1>3 DEF LogInv, LV!TypeOK, LV!index
<1>9. LV!StoredUnderOwnKey'
  BY <1>2, <1>3, <1>5 DEF LogInv, LV!TypeOK, LV!StoredUnderOwnKey, LV!Stored
<1>10. WritersOK'
  <2>1. /\ \A v \in Writers \ {w} : pc_l'[v] = "idle"
        /\ pc_l'[w] = "map" /\ entry' = entry /\ db'[s] = e /\ process' = "up"
    BY <1>1, <1>2, <1>3 DEF LogInv, LV!TypeOK
  <2> QED
    BY <1>1, <2>1 DEF WritersOK, Busy
<1>11. IndexSound => IndexSound'
  BY <1>3, <1>6, <1>7 DEF IndexSound, LV!index
<1>12. IndexComplete => IndexComplete'
  BY <1>3, <1>6, <1>7 DEF IndexComplete, LV!index
<1>13. ScanOK'
  BY <1>3, <1>5, <1>6 DEF LogInv, ScanOK
<1> QED
  BY <1>3, <1>8, <1>9, <1>10, <1>11, <1>12, <1>13 DEF LogInv, StatusOK, LV!ChecksHold, LV!index

(* InsertEntryMapping at the end of CreateSequencedEntry: the number is    *)
(* not in the index, so that no CHECK fails.                               *)
LEMMA MapKeeps ==
  ASSUME NumbersNatural, LV!LeveldbDatabaseAssumption, LogInv, NEW w \in Writers, LV!Map(w)
  PROVE  LogInv'
<1> DEFINE e == entry[w]
           s == e.seq
<1>1. /\ pc_l[w] = "map" /\ process = "up" /\ e \in Entries /\ db[s] = e
      /\ \A v \in Writers \ {w} : pc_l[v] = "idle"
      /\ IndexSound
  BY DEF LV!Map, LogInv, WritersOK, Busy
<1>2. /\ LV!IndexToKey(s) = s /\ s \in LV!Keys /\ s \in LV!Sequences /\ e.hash \in LV!Hashes
      /\ e # NoEntry
  BY <1>1, KeyOfNumber DEF LV!LeveldbDatabaseAssumption
<1>3. s \in LV!Stored /\ LV!Indexed = LV!Stored \ {s}
  <2>1. {v \in Writers : pc_l[v] = "map"} = {w}
    BY <1>1
  <2> QED
    BY <1>1, <1>2, <2>1 DEF LV!Indexed, LV!Stored
<1>4. s \notin sparse_entries_
  BY <1>1, <1>3 DEF IndexSound
<1>5. /\ LV!InsertEntryMapping(s, e.hash)
      /\ pc_l' = [pc_l EXCEPT ![w] = "idle"]
      /\ entry' = [entry EXCEPT ![w] = NoEntry]
      /\ UNCHANGED <<process, checkFailed, cursor, failing, scan, partial>>
      /\ UNCHANGED db
  BY <1>4 DEF LV!Map, LV!Mappable
<1>6. \A v \in Writers : pc_l'[v] = "idle"
  BY <1>1, <1>5 DEF LogInv, LV!TypeOK
<1>7. LV!Stored' = LV!Stored /\ LV!Indexed' = LV!Indexed \cup {s}
  BY <1>1, <1>3, <1>5, <1>6 DEF LV!Stored, LV!Indexed
<1>8. /\ IndexSound' /\ (IndexComplete => IndexComplete')
      /\ contiguous_size_' \in {0} \cup {x + 1 : x \in LV!Sequences}
      /\ sparse_entries_' \subseteq LV!Sequences
      /\ DOMAIN id_by_hash_' \subseteq LV!Hashes
      /\ \A h \in DOMAIN id_by_hash_' : id_by_hash_'[h] \in LV!Sequences
  BY <1>1, <1>2, <1>3, <1>5, <1>7, InsertionKeeps DEF LogInv
<1>9. LV!TypeOK'
  BY <1>5, <1>8 DEF LogInv, LV!TypeOK
<1> QED
  BY <1>1, <1>5, <1>6, <1>7, <1>8, <1>9
  DEF LogInv, LV!StoredUnderOwnKey, WritersOK, Busy, StatusOK, ScanOK, LV!ChecksHold

(* Neither lookup finds an entry that is not the one looked for, so no     *)
(* CHECK fails (leveldb_database.cc:126-167).                              *)
LEMMA LookupsKeep ==
  ASSUME NumbersNatural, LogInv,
         \/ \E h \in LV!Hashes : LV!LookupByHash(h)
         \/ \E i \in Indices : LV!LookupByIndex(i)
  PROVE  LogInv'
<1>1. ASSUME NEW h \in LV!Hashes, LV!LookupByHash(h) PROVE LogInv'
  <2>1. process = "up" /\ IndexSound
    BY <1>1 DEF LV!LookupByHash, LogInv
  <2>2. h \in DOMAIN id_by_hash_ =>
           db[LV!IndexToKey(id_by_hash_[h])].hash = h
    BY <2>1, KeyOfNumber DEF IndexSound, LogInv, LV!TypeOK
  <2>3. /\ db' = db /\ process' = process /\ checkFailed' = checkFailed /\ cursor' = cursor
        /\ UNCHANGED LV!index /\ pc_l' = pc_l /\ entry' = entry /\ failing' = failing
        /\ partial' = partial /\ scan' = scan
    BY <1>1, <2>2 DEF LV!LookupByHash
  <2> QED
    BY <2>3, OnlyReplyChanges
<1>2. ASSUME NEW i \in Indices, LV!LookupByIndex(i) PROVE LogInv'
  <2>1. LV!IndexToKey(i) = i /\ i \in LV!Keys
    BY KeyOfNumber
  <2>2. db[i] # NoEntry => db[i].seq = i
    BY <2>1 DEF LogInv, LV!StoredUnderOwnKey, LV!Stored
  <2>3. /\ db' = db /\ process' = process /\ checkFailed' = checkFailed /\ cursor' = cursor
        /\ UNCHANGED LV!index /\ pc_l' = pc_l /\ entry' = entry /\ failing' = failing
        /\ partial' = partial /\ scan' = scan
    BY <1>2, <2>1, <2>2 DEF LV!LookupByIndex
  <2> QED
    BY <2>3, OnlyReplyChanges
<1> QED
  BY <1>1, <1>2

(* A record of this shape with another field left. *)
LEMMA LeftReplaced ==
  \A l, o, m : [[left |-> l, open |-> o] EXCEPT !.left = m] = [left |-> m, open |-> o]
OBVIOUS

(* The entry the iterator is at. *)
NextToCome == CHOOSE x \in scan.left : \A y \in scan.left : x[1] <= y[1]

(* The iterator is at the least key left to it, whose entry is the one     *)
(* with that number.                                                       *)
LEMMA IteratorInOrder ==
  ASSUME NumbersNatural, LogInv
  PROVE  /\ \A x \in scan.left : /\ x[1] \in LV!Stored /\ x[2] = db[x[1]] /\ x[2].seq = x[1]
                                 /\ x \in LV!Keys \X Entries
         /\ scan.left # {} => /\ NextToCome \in scan.left
                              /\ \A y \in scan.left : NextToCome[1] <= y[1]
<1>1. \A x \in scan.left : /\ x[1] \in LV!Stored /\ x[2] = db[x[1]] /\ x[2].seq = x[1]
                           /\ x \in LV!Keys \X Entries
  BY DEF LogInv, LV!TypeOK, ScanOK, LV!StoredUnderOwnKey
<1>2. ASSUME scan.left # {}
      PROVE  \E x \in scan.left : \A y \in scan.left : x[1] <= y[1]
  <2> DEFINE numbers == {x[1] : x \in scan.left}
  <2>1. numbers \subseteq Nat /\ numbers # {}
    BY <1>1, <1>2, KeyOfNumber
  <2>2. LV!Min(numbers) \in numbers /\ \A y \in numbers : LV!Min(numbers) <= y
    <3> HIDE DEF numbers
    <3> QED
      BY <2>1, MinIsLeast
  <2> QED
    BY <2>2
<1> QED
  BY <1>1, <1>2 DEF NextToCome

(* An iterator is made, or moves on (leveldb_database.cc:57-79). *)
LEMMA ScanKeeps ==
  ASSUME NumbersNatural, LogInv, (\E i \in Indices : LV!ScanEntries(i)) \/ LV!GetNextEntry
  PROVE  LogInv'
<1>1. ASSUME NEW i \in Indices, LV!ScanEntries(i) PROVE LogInv'
  <2> DEFINE found == {<<k, db[k]>> : k \in {x \in LV!Stored : x >= LV!IndexToKey(i)}}
  <2>1. process = "up" /\ scan' = [open |-> TRUE, left |-> found]
        /\ db' = db /\ process' = process /\ checkFailed' = checkFailed /\ cursor' = cursor
        /\ UNCHANGED LV!index /\ pc_l' = pc_l /\ entry' = entry /\ failing' = failing
        /\ partial' = partial
    BY <1>1 DEF LV!ScanEntries
  <2>2. \A x \in found : x[1] \in LV!Stored /\ x[2] = db[x[1]] /\ x \in LV!Keys \X Entries
    BY DEF LV!Stored, LogInv, LV!TypeOK
  <2> HIDE DEF found
  <2>3. ScanOK' /\ scan' \in [open : BOOLEAN, left : SUBSET (LV!Keys \X Entries)]
    BY <2>1, <2>2 DEF ScanOK, LV!Stored
  <2> QED
    BY <2>1, <2>3, OnlyScanChanges
<1>2. ASSUME LV!GetNextEntry PROVE LogInv'
  <2>1. scan.left # {} => NextToCome \in scan.left /\ NextToCome[2].seq = NextToCome[1]
    BY IteratorInOrder
  <2>2. scan.open /\ process = "up"
    BY <1>2 DEF LV!GetNextEntry, LogInv, ScanOK
  <2>3. /\ db' = db /\ process' = process /\ checkFailed' = checkFailed /\ cursor' = cursor
        /\ UNCHANGED LV!index /\ pc_l' = pc_l /\ entry' = entry /\ failing' = failing
        /\ partial' = partial
        /\ \/ scan' = [scan EXCEPT !.left = {}]
           \/ scan' = [scan EXCEPT !.left = scan.left \ {NextToCome}]
    BY <1>2, <2>1 DEF LV!GetNextEntry, NextToCome
  <2>4. scan = [open |-> TRUE, left |-> scan.left] /\ scan.left \subseteq LV!Keys \X Entries
    BY <2>2 DEF LogInv, LV!TypeOK
  <2>5. \A rest : [scan EXCEPT !.left = rest] = [left |-> rest, open |-> TRUE]
    <3>1. PICK l : scan = [left |-> l, open |-> TRUE]
      BY <2>4
    <3> QED
      BY <3>1, LeftReplaced, Zenon
  <2>6. \E rest : rest \subseteq scan.left /\ scan' = [left |-> rest, open |-> TRUE]
    <3>1. \E rest : rest \subseteq scan.left /\ scan' = [scan EXCEPT !.left = rest]
      BY <2>3, Zenon
    <3> QED
      BY <2>5, <3>1, Zenon
  <2>7. ScanOK' /\ scan' \in [open : BOOLEAN, left : SUBSET (LV!Keys \X Entries)]
    BY <2>2, <2>3, <2>4, <2>6 DEF LogInv, ScanOK, LV!Stored
  <2> QED
    BY <2>3, <2>7, OnlyScanChanges
<1> QED
  BY <1>1, <1>2

(* Every step of LeveldbDatabase keeps the invariant. *)
LEMMA LogPreserved ==
  ASSUME NumbersNatural, LV!LeveldbDatabaseAssumption, LogInv, [LV!Next]_LV!vars
  PROVE  LogInv'
<1>1. ASSUME NEW w \in Writers, LV!PutFails(w) PROVE LogInv'
  <2>1. LV!IndexToKey(entry[w].seq) = entry[w].seq
    BY <1>1, KeyOfNumber DEF LV!PutFails, LogInv, WritersOK, Busy
  <2>2. LV!Down /\ checkFailed' = checkFailed /\ pc_l[w] = "put"
    BY <1>1 DEF LV!PutFails
  <2>3. db' = db \/ db' = [db EXCEPT ![entry[w].seq] = entry[w]]
    BY <1>1, <2>1 DEF LV!PutFails
  <2>4. checkFailed' = FALSE
    BY <2>2 DEF LogInv, LV!TypeOK, LV!ChecksHold
  <2> QED
    BY <2>2, <2>3, <2>4, GoingDownKeeps
<1>2. CASE UNCHANGED LV!vars
  BY <1>2, OnlyReplyChanges DEF LV!vars
<1> QED
  BY <1>1, <1>2, CrashKeeps, OpenKeeps, IndexNextKeeps, IndexDoneKeeps, GetKeeps, PutKeeps,
     MapKeeps, LookupsKeep, ScanKeeps DEF LV!Next, LV!BuildIndex

(* What EntryLog calls the log. *)
Log == {db[k] : k \in LV!Stored}

(* The log and the file: each entry once, under its own number. *)
LEMMA LogHolds ==
  ASSUME NumbersNatural, LV!LeveldbDatabaseAssumption, LogInv
  PROVE  /\ \A x \in Log : /\ x \in Entries /\ x.seq \in LV!Stored
                          /\ db[x.seq] = x /\ x.seq \in Nat
         /\ \A k \in LV!Keys : db[k] # NoEntry => db[k] \in Log /\ db[k].seq = k
         /\ NoEntry \notin Log
<1>1. \A k \in LV!Stored : db[k] \in Entries /\ db[k].seq = k /\ k \in Nat
  BY KeyOfNumber DEF LogInv, LV!TypeOK, LV!StoredUnderOwnKey, LV!Stored
<1> QED
  BY <1>1 DEF Log, LV!Stored, LV!LeveldbDatabaseAssumption

(* EntryLog's First is determined, since no two entries share a number. *)
LEMMA FirstIs ==
  ASSUME NumbersNatural, LV!LeveldbDatabaseAssumption, LogInv,
         NEW found \in SUBSET Log, NEW x \in found, \A y \in found : x.seq <= y.seq
  PROVE  LV!EL!First(found) = x
<1> DEFINE z == CHOOSE v \in found : \A y \in found : v.seq <= y.seq
<1>1. z \in found /\ \A y \in found : z.seq <= y.seq
  OBVIOUS
<1>2. LV!EL!First(found) = z
  BY DEF LV!EL!First
<1> HIDE DEF z
<1>3. z.seq = x.seq
  BY <1>1, LogHolds
<1> QED
  BY <1>1, <1>2, <1>3, LogHolds

(* A step that changes neither the file, nor a reply, nor the iterator is  *)
(* not seen.                                                               *)
LEMMA NotSeen ==
  ASSUME UNCHANGED <<db, reply_l, failing, scan>>
  PROVE  UNCHANGED LV!EL!vars
BY DEF LV!EL!vars, LV!Stored

(* A crash is seen as the end of the iterator, and nothing else. *)
LEMMA GoneIsClosed ==
  ASSUME LV!Down, UNCHANGED db
  PROVE  LV!EL!CloseScan
<1>1. scan' = [open |-> FALSE, left |-> {}]
  BY DEF LV!Down, LV!Closed
<1>2. {x[2] : x \in scan'.left} = {} /\ scan'.open = FALSE
  BY <1>1
<1> QED
  BY <1>2 DEF LV!Down, LV!EL!CloseScan, LV!EL!Closed, LV!Stored

(* A Get is seen when it answers: Accept of the same entry, Refuse of      *)
(* another.                                                                *)
LEMMA GetSimulates ==
  ASSUME NumbersNatural, LV!LeveldbDatabaseAssumption, LogInv,
         NEW w \in Writers, NEW e \in Entries, LV!Get(w, e)
  PROVE  LV!EL!Accept(e) \/ LV!EL!Refuse(e) \/ UNCHANGED LV!EL!vars
<1>1. LV!IndexToKey(e.seq) = e.seq /\ e.seq \in LV!Keys
  BY KeyOfNumber
<1>2. UNCHANGED <<db, failing, scan>>
  BY DEF LV!Get
<1>3. UNCHANGED <<{db[k] : k \in LV!Stored}, failing,
                  [open |-> scan.open, left |-> {x[2] : x \in scan.left}]>>
  BY <1>2 DEF LV!Stored
<1>4. CASE UNCHANGED reply_l
  BY <1>2, <1>4, NotSeen
<1>5. CASE db[e.seq] = e /\ LV!Returns(e, "OK")
  <2>1. e \in {db[k] : k \in LV!Stored}
    BY <1>1, <1>5, LogHolds DEF Log, LV!LeveldbDatabaseAssumption
  <2> QED
    BY <1>3, <1>5, <2>1 DEF LV!EL!Accept, LV!EL!Returned, LV!Returns, LV!Returned
<1>6. CASE /\ db[e.seq] \notin {e, NoEntry} \/ failing
           /\ LV!Returns(e, "SEQUENCE_NUMBER_ALREADY_IN_USE")
  <2>1. failing \/ \E x \in {db[k] : k \in LV!Stored} : x.seq = e.seq /\ x # e
    BY <1>1, <1>6, LogHolds DEF Log
  <2> QED
    BY <1>3, <1>6, <2>1 DEF LV!EL!Refuse, LV!EL!Returned, LV!Returns, LV!Returned
<1> QED
  BY <1>1, <1>4, <1>5, <1>6 DEF LV!Get

(* The Put adds one entry to the log, whose number no entry there has. *)
LEMMA PutStores ==
  ASSUME NumbersNatural, LV!LeveldbDatabaseAssumption, LogInv,
         NEW w \in Writers, pc_l[w] = "put",
         db' = [db EXCEPT ![LV!IndexToKey(entry[w].seq)] = entry[w]]
  PROVE  /\ entry[w] \in Entries
         /\ \A x \in Log : x.seq # entry[w].seq
         /\ Log' = Log \cup {entry[w]}
<1> DEFINE e == entry[w]
           s == e.seq
<1>1. e \in Entries /\ db[s] = NoEntry
  BY DEF LogInv, WritersOK, Busy
<1>2. s \in LV!Keys /\ db' = [db EXCEPT ![s] = e] /\ e # NoEntry
  BY <1>1, KeyOfNumber DEF LV!LeveldbDatabaseAssumption
<1>3. LV!Stored' = LV!Stored \cup {s} /\ s \notin LV!Stored
  BY <1>1, <1>2 DEF LogInv, LV!TypeOK, LV!Stored
<1>4. db'[s] = e /\ \A k \in LV!Stored : db'[k] = db[k]
  BY <1>2, <1>3 DEF LogInv, LV!TypeOK, LV!Stored
<1>5. Log' = Log \cup {e}
  BY <1>3, <1>4 DEF Log
<1>6. \A x \in Log : x.seq # s
  BY <1>1, LogHolds DEF LV!Stored
<1> QED
  BY <1>1, <1>5, <1>6

(* The Put is what stores the entry; a Put that fails stores it or not,    *)
(* and ends the process.                                                   *)
LEMMA PutSimulates ==
  ASSUME NumbersNatural, LV!LeveldbDatabaseAssumption, LogInv, NEW w \in Writers,
         LV!Put(w) \/ LV!PutFails(w)
  PROVE  (\E e \in Entries : LV!EL!Store(e)) \/ LV!EL!CloseScan
<1>1. CASE LV!Down /\ UNCHANGED db
  BY <1>1, GoneIsClosed
<1>2. CASE db' = [db EXCEPT ![LV!IndexToKey(entry[w].seq)] = entry[w]]
  <2>1. pc_l[w] = "put" /\ UNCHANGED <<reply_l, failing>>
    BY DEF LV!Put, LV!PutFails, LV!Down
  <2>2. /\ entry[w] \in Entries
        /\ \A x \in {db[k] : k \in LV!Stored} : x.seq # entry[w].seq
        /\ {db[k] : k \in LV!Stored}' = {db[k] : k \in LV!Stored} \cup {entry[w]}
    BY <1>2, <2>1, PutStores DEF Log
  <2>3. \/ UNCHANGED [open |-> scan.open, left |-> {x[2] : x \in scan.left}]
        \/ failing /\ [open |-> scan.open, left |-> {x[2] : x \in scan.left}]' = LV!EL!Closed
    <3>1. CASE LV!Put(w)
      BY <3>1 DEF LV!Put
    <3>2. CASE LV!PutFails(w)
      <4>1. failing /\ scan' = [open |-> FALSE, left |-> {}]
        BY <3>2 DEF LV!PutFails, LV!Down, LV!Closed
      <4>2. {x[2] : x \in scan'.left} = {} /\ scan'.open = FALSE
        BY <4>1
      <4> QED
        BY <4>1, <4>2 DEF LV!EL!Closed
    <3> QED
      BY <3>1, <3>2
  <2> QED
    BY <2>1, <2>2, <2>3 DEF LV!EL!Store
<1> QED
  BY <1>1, <1>2 DEF LV!Put, LV!PutFails

(* The end of CreateSequencedEntry is its acknowledgement. *)
LEMMA MapSimulates ==
  ASSUME NumbersNatural, LV!LeveldbDatabaseAssumption, LogInv, NEW w \in Writers, LV!Map(w)
  PROVE  LV!EL!Accept(entry[w]) /\ entry[w] \in Entries
<1>1. entry[w] \in Entries /\ db[entry[w].seq] = entry[w] /\ entry[w] # NoEntry
  BY DEF LV!Map, LogInv, WritersOK, Busy, LV!LeveldbDatabaseAssumption
<1>2. IndexSound /\ entry[w].seq \notin LV!Indexed
  <2>1. LV!IndexToKey(entry[w].seq) = entry[w].seq
    BY <1>1, KeyOfNumber
  <2> QED
    BY <1>1, <2>1 DEF LV!Map, LogInv, WritersOK, Busy, LV!Indexed
<1>3. entry[w].seq \notin sparse_entries_
  BY <1>2 DEF IndexSound
<1>4. LV!Returns(entry[w], "OK") /\ UNCHANGED <<db, failing, scan>>
  BY <1>3 DEF LV!Map, LV!Mappable
<1>5. entry[w] \in {db[k] : k \in LV!Stored}
  BY <1>1, KeyOfNumber DEF LV!Stored
<1>6. UNCHANGED <<{db[k] : k \in LV!Stored}, failing,
                  [open |-> scan.open, left |-> {x[2] : x \in scan.left}]>>
  BY <1>4 DEF LV!Stored
<1> QED
  BY <1>1, <1>4, <1>5, <1>6 DEF LV!EL!Accept, LV!EL!Returned, LV!Returns, LV!Returned

(* A lookup by hash finds the first entry with the hash; if leveldb cut    *)
(* the rebuilding short it may find a later one, or none.                  *)
LEMMA LookupByHashSimulates ==
  ASSUME NumbersNatural, LV!LeveldbDatabaseAssumption, LogInv,
         NEW h \in LV!Hashes, LV!LookupByHash(h)
  PROVE  LV!EL!LookupByHash(h)
<1> DEFINE same == {x \in Log : x.hash = h}
           s == id_by_hash_[h]
<1>1. process = "up" /\ IndexSound /\ LV!Indexed = LV!Stored /\ (~partial => IndexComplete)
      /\ (partial => failing)
  BY DEF LV!LookupByHash, LV!LockFree, LogInv, LV!Indexed, StatusOK
<1>2. UNCHANGED <<db, failing, scan>> /\
      \/ h \notin DOMAIN id_by_hash_ /\ reply_l' = LV!Returned("hash", h, NoEntry)
      \/ h \in DOMAIN id_by_hash_ /\ reply_l' = LV!Returned("hash", h, db[s])
  <2>1. h \in DOMAIN id_by_hash_ => LV!IndexToKey(s) = s /\ db[s].hash = h
    BY <1>1, KeyOfNumber DEF IndexSound, LogInv, LV!TypeOK
  <2> QED
    BY <2>1 DEF LV!LookupByHash
<1>3. \E found \in {LV!EL!First(same)} \cup (IF failing THEN {NoEntry} \cup same ELSE {}) :
         reply_l' = LV!Returned("hash", h, found)
  <2>1. CASE h \notin DOMAIN id_by_hash_ /\ failing
    BY <1>2, <2>1
  <2>2. CASE h \notin DOMAIN id_by_hash_ /\ ~partial
    <3>1. same = {}
      BY <1>1, <2>2 DEF IndexComplete, Log
    <3>2. LV!EL!First(same) = NoEntry
      BY <3>1 DEF LV!EL!First
    <3> QED
      BY <1>2, <2>2, <3>2
  <2>3. CASE h \in DOMAIN id_by_hash_ /\ failing
    <3>1. db[s] \in same
      BY <1>1, <2>3 DEF IndexSound, Log
    <3> QED
      BY <1>2, <2>3, <3>1
  <2>4. CASE h \in DOMAIN id_by_hash_ /\ ~partial
    <3>1. db[s] \in same /\ s \in LV!Stored
      BY <1>1, <2>4 DEF IndexSound, Log
    <3>2. ASSUME NEW y \in same PROVE db[s].seq <= y.seq
      <4>1. y.seq \in LV!Stored /\ db[y.seq] = y
        BY LogHolds
      <4>2. s <= y.seq
        BY <1>1, <2>4, <4>1 DEF IndexComplete
      <4>3. db[s].seq = s
        BY <3>1, LogHolds DEF LV!Stored
      <4> QED
        BY <4>2, <4>3
    <3>3. LV!EL!First(same) = db[s]
      BY <3>1, <3>2, FirstIs
    <3> QED
      BY <1>2, <2>4, <3>3
  <2> QED
    BY <1>1, <2>1, <2>2, <2>3, <2>4
<1>4. UNCHANGED <<{db[k] : k \in LV!Stored}, failing,
                  [open |-> scan.open, left |-> {x[2] : x \in scan.left}]>>
  BY <1>2 DEF LV!Stored
<1> QED
  BY <1>3, <1>4 DEF LV!EL!LookupByHash, LV!EL!Returned, LV!Returned, Log

(* A lookup by number finds the entry with the number, between any two     *)
(* steps of a writer too.                                                  *)
LEMMA LookupByIndexSimulates ==
  ASSUME NumbersNatural, LV!LeveldbDatabaseAssumption, LogInv,
         NEW i \in Indices, LV!LookupByIndex(i)
  PROVE  LV!EL!LookupByIndex(i)
<1> DEFINE same == {x \in Log : x.seq = i}
<1>1. LV!IndexToKey(i) = i /\ i \in LV!Keys
  BY KeyOfNumber
<1>2. db[i] # NoEntry => db[i].seq = i
  BY <1>1, LogHolds
<1>3. reply_l' = LV!Returned("index", i, db[i]) /\ UNCHANGED <<db, failing, scan>>
  BY <1>1, <1>2 DEF LV!LookupByIndex
<1>4. LV!EL!First(same) = db[i]
  <2>1. CASE db[i] = NoEntry
    <3>1. same = {}
      BY <2>1, LogHolds DEF LV!Stored
    <3> QED
      BY <2>1, <3>1 DEF LV!EL!First
  <2>2. CASE db[i] # NoEntry
    <3>1. db[i] \in same /\ \A y \in same : y.seq = i
      BY <1>1, <1>2, <2>2, LogHolds
    <3>2. \A y \in same : db[i].seq <= y.seq
      BY <1>1, <1>2, <2>2, <3>1, KeyOfNumber
    <3> QED
      BY <3>1, <3>2, FirstIs
  <2> QED
    BY <2>1, <2>2
<1>5. UNCHANGED <<{db[k] : k \in LV!Stored}, failing,
                  [open |-> scan.open, left |-> {x[2] : x \in scan.left}]>>
  BY <1>3 DEF LV!Stored
<1> QED
  BY <1>3, <1>4, <1>5 DEF LV!EL!LookupByIndex, LV!EL!Returned, LV!Returned, Log

(* A new iterator has before it what is stored from its number on. *)
LEMMA ScanEntriesSimulates ==
  ASSUME NumbersNatural, LV!LeveldbDatabaseAssumption, LogInv,
         NEW i \in Indices, LV!ScanEntries(i)
  PROVE  LV!EL!OpenScan(i)
<1> DEFINE found == {<<k, db[k]>> : k \in {x \in LV!Stored : x >= LV!IndexToKey(i)}}
<1>1. LV!IndexToKey(i) = i
  BY KeyOfNumber
<1>2. scan'.open = TRUE /\ scan'.left = found /\ UNCHANGED <<db, reply_l, failing>>
  BY DEF LV!ScanEntries
<1>3. {x[2] : x \in found} = {x \in Log : x.seq >= i}
  <2>1. \A k \in LV!Stored : db[k] \in Log /\ db[k].seq = k
    BY LogHolds DEF LV!Stored, Log
  <2>2. \A x \in found : x[2] \in Log /\ x[2].seq >= i
    BY <1>1, <2>1
  <2>3. ASSUME NEW x \in Log, x.seq >= i PROVE \E y \in found : y[2] = x
    <3>1. <<x.seq, db[x.seq]>> \in found /\ db[x.seq] = x
      BY <1>1, <2>3, LogHolds
    <3> QED
      BY <3>1
  <2> HIDE DEF found
  <2> QED
    BY <2>2, <2>3
<1> QED
  BY <1>2, <1>3 DEF LV!EL!OpenScan, Log, LV!Stored

(* The iterator as EntryLog sees it. *)
Seen == [open |-> scan.open, left |-> {x[2] : x \in scan.left}]

(* The fields of Seen. *)
LEMMA SeenRecord ==
  /\ Seen.open = scan.open /\ Seen.left = {x[2] : x \in scan.left}
  /\ Seen = [left |-> {x[2] : x \in scan.left}, open |-> scan.open]
BY DEF Seen

(* EntryLog's NextEntry, with the state it sees named. *)
LEMMA NextEntryIs ==
  LV!EL!NextEntry <=>
    /\ Seen.open
    /\ \/ /\ reply_l' = LV!Returned("next", NoEntry, LV!EL!First(Seen.left))
          /\ Seen' = [Seen EXCEPT !.left = Seen.left \ {LV!EL!First(Seen.left)}]
       \/ /\ failing
          /\ reply_l' = LV!Returned("next", NoEntry, NoEntry)
          /\ Seen' = [Seen EXCEPT !.left = {}]
    /\ UNCHANGED <<Log, failing>>
BY Zenon DEF LV!EL!NextEntry, LV!EL!Returned, LV!Returned, Seen, Log

(* The iterator yields the entries in order of their numbers, and ends     *)
(* early only when leveldb fails.                                          *)
LEMMA GetNextEntrySimulates ==
  ASSUME NumbersNatural, LV!LeveldbDatabaseAssumption, LogInv, LV!GetNextEntry
  PROVE  LV!EL!NextEntry
<1> DEFINE ahead == {x[2] : x \in scan.left}
<1>1. /\ \A x \in scan.left : x[2] \in Log /\ x[2].seq = x[1] /\ x = <<x[1], x[2]>>
      /\ scan.open
  BY IteratorInOrder DEF LV!GetNextEntry, Log
<1>2. \A rest : [scan EXCEPT !.left = rest] = [left |-> rest, open |-> TRUE]
  <2>1. PICK l : scan = [left |-> l, open |-> TRUE]
    BY <1>1 DEF LogInv, LV!TypeOK
  <2> QED
    BY <2>1, LeftReplaced, Zenon
<1>3. \A rest : [Seen EXCEPT !.left = rest] = [left |-> rest, open |-> TRUE]
  <2>1. PICK l : Seen = [left |-> l, open |-> TRUE]
    BY <1>1, SeenRecord
  <2> QED
    BY <2>1, LeftReplaced, Zenon
<1>4. CASE /\ scan.left = {} \/ failing
           /\ reply_l' = LV!Returned("next", NoEntry, NoEntry)
           /\ scan' = [scan EXCEPT !.left = {}]
           /\ UNCHANGED <<db, failing>>
  <2>1. scan' = [left |-> {}, open |-> TRUE]
    BY <1>2, <1>4
  <2>2. Seen' = [left |-> {}, open |-> TRUE]
    <3>1. scan'.open = TRUE /\ {x[2] : x \in scan'.left} = {}
      BY <2>1
    <3> QED
      BY <3>1, SeenRecord DEF Seen
  <2>3. CASE failing
    <3>1. Seen' = [Seen EXCEPT !.left = {}]
      BY <1>3, <2>2
    <3> QED
      BY <1>1, <1>4, <2>3, <3>1, SeenRecord, NextEntryIs DEF Log, LV!Stored
  <2>4. CASE scan.left = {}
    <3>1. ahead = {} /\ LV!EL!First(ahead) = NoEntry
      BY <2>4 DEF LV!EL!First
    <3>2. Seen' = [Seen EXCEPT !.left = ahead \ {LV!EL!First(ahead)}]
      <4>1. ahead \ {LV!EL!First(ahead)} = {}
        BY <3>1
      <4> QED
        BY <1>3, <2>2, <4>1
    <3> QED
      BY <1>1, <1>4, <3>1, <3>2, SeenRecord, NextEntryIs DEF Log, LV!Stored
  <2> QED
    BY <1>4, <2>3, <2>4
<1>5. CASE /\ scan.left # {}
           /\ reply_l' = LV!Returned("next", NoEntry, NextToCome[2])
           /\ scan' = [scan EXCEPT !.left = scan.left \ {NextToCome}]
           /\ UNCHANGED <<db, failing>>
  <2>1. scan' = [left |-> scan.left \ {NextToCome}, open |-> TRUE]
    BY <1>2, <1>5
  <2>2. NextToCome \in scan.left /\ \A y \in scan.left : NextToCome[1] <= y[1]
    BY <1>5, IteratorInOrder
  <2>3. LV!EL!First(ahead) = NextToCome[2]
    <3>1. ahead \in SUBSET Log /\ NextToCome[2] \in ahead
      BY <1>1, <2>2
    <3>2. \A y \in ahead : NextToCome[2].seq <= y.seq
      BY <1>1, <2>2
    <3> QED
      BY <3>1, <3>2, FirstIs
  <2>4. {x[2] : x \in scan.left \ {NextToCome}} = ahead \ {NextToCome[2]}
    <3>1. \A x \in scan.left : x[2] = NextToCome[2] => x = NextToCome
      BY <1>1, <2>2
    <3> QED
      BY <3>1
  <2>5. Seen' = [left |-> ahead \ {NextToCome[2]}, open |-> TRUE]
    <3>1. scan'.open = TRUE /\ {x[2] : x \in scan'.left} = ahead \ {NextToCome[2]}
      BY <2>1, <2>4
    <3> QED
      BY <3>1 DEF Seen
  <2>6. Seen' = [Seen EXCEPT !.left = ahead \ {LV!EL!First(ahead)}]
    BY <1>3, <2>3, <2>5
  <2> QED
    BY <1>1, <1>5, <2>3, <2>6, SeenRecord, NextEntryIs DEF Log, LV!Stored
<1> QED
  BY <1>1, <1>4, <1>5, IteratorInOrder DEF LV!GetNextEntry, NextToCome

(* Every step of the database is a step of EntryLog, or is not seen. *)
LEMMA StepSimulation ==
  ASSUME NumbersNatural, LV!LeveldbDatabaseAssumption, LogInv, [LV!Next]_LV!vars
  PROVE  [LV!EL!Next]_LV!EL!vars
<1>1. CASE LV!Open \/ LV!IndexNext \/ LV!IndexDone
  <2>1. CASE LV!Down /\ UNCHANGED db
    BY <2>1, GoneIsClosed DEF LV!EL!Next
  <2>2. CASE UNCHANGED <<db, reply_l, failing, scan>>
    BY <2>2, NotSeen
  <2> QED
    BY <1>1, <2>1, <2>2 DEF LV!Open, LV!IndexNext, LV!IndexDone, LV!CheckFails
<1>2. CASE LV!Crash \/ LV!LookupFails
  BY <1>2, GoneIsClosed DEF LV!Crash, LV!LookupFails, LV!EL!Next
<1>3. CASE UNCHANGED LV!vars
  BY <1>3, NotSeen DEF LV!vars
<1> QED
  BY <1>1, <1>2, <1>3, GetSimulates, PutSimulates, MapSimulates, LookupByHashSimulates,
     LookupByIndexSimulates, ScanEntriesSimulates, GetNextEntrySimulates
  DEF LV!Next, LV!BuildIndex, LV!EL!Next

-----------------------------------------------------------------------------
(* A step of MCStorage is a step of the log or leaves it alone. *)
LEMMA LogSteps == ASSUME [Next]_storageVars PROVE [LV!Next]_LV!vars
BY DEF Next, storageVars, logVars, LV!vars, LV!index, InputBufferRuns, BufferedInputStreamRuns,
  ZlibInputStreamRuns, ZlibOutputBufferRuns, TableRuns, LeveldbDatabaseRuns

(* For any entries, writers and lookups by numbers that are not negative,  *)
(* and through any crashes, the index is that of the file and no CHECK on  *)
(* their agreement fails (leveldb_database.cc:101-124 and 173-212).        *)
THEOREM IndexAlwaysOK == ASSUME NumbersNatural PROVE Spec => []IndexOK
<1>1. Init => LogInv
  BY LogInitially DEF Init
<1>2. LogInv /\ [Next]_storageVars => LogInv'
  BY LogPreserved, LogSteps, StorageAssumption DEF StorageAssumption
<1>3. LogInv => IndexOK
  BY LogInvImpliesIndexOK DEF IndexOK
<1> QED
  BY <1>1, <1>2, <1>3, PTL DEF Spec

(* Under the same condition the database is an EntryLog for its callers:   *)
(* an entry once stored is never replaced or lost, no two share a number,  *)
(* and lookups answer from what is stored (leveldb_database.cc:101-167).   *)
THEOREM LogImplements == ASSUME NumbersNatural PROVE Spec => ImplementsEntryLog
<1>1. Init => LogInv /\ LV!EL!Init
  <2>1. ASSUME LV!Init PROVE LV!EL!Init
    <3>1. {db[k] : k \in LV!Stored} = {}
      BY <2>1 DEF LV!Init, LV!Stored
    <3>2. scan.open = FALSE /\ {x[2] : x \in scan.left} = {}
      BY <2>1 DEF LV!Init, LV!Closed
    <3> QED
      BY <2>1, <3>1, <3>2 DEF LV!Init, LV!EL!Init, LV!EL!Closed, LV!EL!Returned, LV!Returned
  <2> QED
    BY <2>1, LogInitially DEF Init
<1>2. LogInv /\ [Next]_storageVars => LogInv' /\ [LV!EL!Next]_LV!EL!vars
  BY LogPreserved, StepSimulation, LogSteps, StorageAssumption DEF StorageAssumption
<1> QED
  BY <1>1, <1>2, PTL DEF Spec, ImplementsEntryLog, LV!ImplementsEntryLog, LV!EL!Spec

-----------------------------------------------------------------------------
(***************************************************************************)
(* ZlibOutputBuffer.                                                       *)
(***************************************************************************)
(* The types of ZlibOutputBuffer's variables. A byte of its streams is the *)
(* number of one of the caller's bytes, or End.                            *)
WriterTypes ==
  /\ flushMode \in {"NO_FLUSH", "SYNC_FLUSH"}
  /\ written \in Units /\ out \in Units /\ held \in Units /\ in \in Units /\ taken \in Units
  /\ nextIn \in Nat \cup {ZO!Outside}
  /\ finished \in BOOLEAN /\ open \in BOOLEAN
  /\ pc_o \in {"idle", "room", "deflate", "add", "write"}
  /\ call_o \in [op : {"none", "Append", "Flush", "Sync", "Close"}, data : Units]

(* One stream behind another. The proofs use \o by this name, and of it    *)
(* only what the lemmas below say: what the prover knows of \o itself is   *)
(* about single elements and leads nowhere in longer chains.               *)
Join(r, s) == r \o s

(* What is in the file, the output buffer, z_stream and the input buffer,  *)
(* one behind the other, is what was taken over.                           *)
NothingMissing ==
  Join(Join(Join(written, out), held), in) =
    IF finished THEN Join(taken, <<ZO!End>>) ELSE taken

(* What each point of a call has behind it: DeflateBuffered leaves no      *)
(* input, with a flush nothing inside z_stream, and with Z_FINISH the end  *)
(* of the stream; only Append deflates the caller's data directly.         *)
CallOK ==
  /\ pc_o # "idle" => call_o.op # "none" /\ reply_o.op = "none"
  /\ pc_o # "idle" /\ nextIn = ZO!Outside => call_o.op = "Append"
  /\ pc_o = "add" => call_o.op = "Append" /\ in = <<>> /\ nextIn = 0
  /\ pc_o = "write" => /\ call_o.op \in {"Flush", "Sync", "Close"} /\ in = <<>>
                       /\ ZO!Mode # "NO_FLUSH" => held = <<>>
                       /\ call_o.op = "Close" => finished

(* Once z_stream has taken Z_FINISH, Close is the only call, and after one *)
(* that succeeded nothing is left anywhere but in the file.                *)
EndOK ==
  /\ finished => in = <<>> /\ call_o.op \in {"none", "Close"}
  /\ ~open => pc_o = "idle" /\ finished /\ out = <<>> /\ held = <<>>

(* The input stays within its buffer, next_in being somewhere in it. *)
InputFits == nextIn # ZO!Outside => nextIn + Len(in) <= InputSize

(* A Flush that returned OK left nothing behind, if zlib was told to flush *)
(* too.                                                                    *)
FlushOK ==
  reply_o.op \in {"Flush", "Sync"} /\ reply_o.status = "OK" /\ flushMode = "SYNC_FLUSH" =>
    written = taken

(* The inductive invariant of the writer. NothingLost is not inductive: it *)
(* does not say where the units are when a call is half done.              *)
WriterInv ==
  WriterTypes /\ NothingMissing /\ CallOK /\ EndOK /\ InputFits /\ FlushOK

(* Streams joined are a stream, as long as both. *)
LEMMA JoinTyped ==
  \A r, s \in Units : Join(r, s) \in Units /\ Len(Join(r, s)) = Len(r) + Len(s)
<1>1. ASSUME NEW r \in Units, NEW s \in Units
      PROVE  Join(r, s) \in Units /\ Len(Join(r, s)) = Len(r) + Len(s)
  BY ConcatProperties DEF Units, Join
<1> QED
  BY <1>1

(* Nothing, before or behind it, changes nothing. *)
LEMMA JoinEmpty ==
  \A r \in Units : Join(r, <<>>) = r /\ Join(<<>>, r) = r
<1>1. ASSUME NEW r \in Units
      PROVE  Join(r, <<>>) = r /\ Join(<<>>, r) = r
  BY ConcatEmptySeq DEF Units, Join
<1> QED
  BY <1>1

(* It does not matter which are joined first. *)
LEMMA JoinGrouped ==
  ASSUME NEW r \in Units, NEW s \in Units, NEW t \in Units
  PROVE  Join(Join(r, s), t) = Join(r, Join(s, t))
<1>1. r \in Seq(Nat) /\ s \in Seq(Nat) /\ t \in Seq(Nat)
  BY DEF Units
<1>2. (r \o s) \o t = r \o (s \o t)
  BY <1>1, ConcatAssociative, SMTT(60)
<1> QED
  BY <1>2 DEF Join

(* Only the empty stream has no units. *)
LEMMA EmptyIs == <<>> \in Units /\ Len(<<>>) = 0 /\ \A s \in Units : Len(s) = 0 => s = <<>>
BY EmptySeq DEF Units

(* The length of a stream is a number. *)
LEMMA LengthIs == \A s \in Units : Len(s) \in Nat
BY LenProperties DEF Units

(* A stream cut in two. *)
LEMMA CutInTwo ==
  ASSUME NEW s \in Units, NEW k \in 0 .. Len(s)
  PROVE  /\ SubSeq(s, 1, k) \in Units /\ Len(SubSeq(s, 1, k)) = k
         /\ SubSeq(s, k + 1, Len(s)) \in Units /\ Len(SubSeq(s, k + 1, Len(s))) = Len(s) - k
         /\ Join(SubSeq(s, 1, k), SubSeq(s, k + 1, Len(s))) = s
<1>1. /\ Len(s) \in Nat
      /\ \A i \in 1 .. Len(s) : s[i] \in Nat
  BY LenProperties DEF Units
<1>2. SubSeq(s, 1, k) \in Seq(Nat) /\ Len(SubSeq(s, 1, k)) = k
  <2>1. \A i \in 1 .. k : s[i] \in Nat
    BY <1>1
  <2>2. /\ SubSeq(s, 1, k) \in Seq(Nat)
        /\ Len(SubSeq(s, 1, k)) = IF 1 <= k THEN k - 1 + 1 ELSE 0
    BY <1>1, <2>1, SubSeqProperties
  <2> QED
    BY <1>1, <2>2
<1>3. /\ SubSeq(s, k + 1, Len(s)) \in Seq(Nat)
      /\ Len(SubSeq(s, k + 1, Len(s))) = Len(s) - k
  <2>1. \A i \in k + 1 .. Len(s) : s[i] \in Nat
    BY <1>1
  <2>2. /\ SubSeq(s, k + 1, Len(s)) \in Seq(Nat)
        /\ Len(SubSeq(s, k + 1, Len(s))) = IF k + 1 <= Len(s) THEN Len(s) - (k + 1) + 1 ELSE 0
    BY <1>1, <2>1, SubSeqProperties
  <2> QED
    BY <1>1, <2>2
<1>4. SubSeq(s, 1, k) \o SubSeq(s, k + 1, Len(s)) = SubSeq(s, 1, Len(s))
  <2>1. 1 \in 1 .. Len(s) + 1 /\ k \in 1 - 1 .. Len(s) /\ Len(s) \in k .. Len(s)
    BY <1>1
  <2> QED
    BY <2>1, ConcatAdjacentSubSeq DEF Units
<1> QED
  BY <1>2, <1>3, <1>4, SubSeqFull DEF Units, Join

(* The end of the stream is one unit. *)
LEMMA EndIs == <<ZO!End>> \in Units /\ Len(<<ZO!End>>) = 1
BY DEF ZO!End, Units

(* Units that move on to the stream in front of theirs leave the whole as  *)
(* it is.                                                                  *)
LEMMA Moved ==
  ASSUME NEW w \in Units, NEW o \in Units, NEW p \in Units, NEW q \in Units
  PROVE  Join(Join(w, Join(o, p)), q) = Join(Join(w, o), Join(p, q))
<1>1. Join(w, o) \in Units
  BY JoinTyped
<1>2. Join(w, Join(o, p)) = Join(Join(w, o), p)
  BY JoinGrouped
<1>3. Join(Join(Join(w, o), p), q) = Join(Join(w, o), Join(p, q))
  BY <1>1, JoinGrouped
<1> QED
  BY <1>2, <1>3

-----------------------------------------------------------------------------
(* The writer starts so. *)
LEMMA WriterInitially ==
  ASSUME ZO!ZlibOutputBufferAssumption, ZO!Init
  PROVE  WriterInv
<1>1. <<>> \in Units /\ Len(<<>>) = 0 /\ Join(<<>>, <<>>) = <<>>
  BY EmptyIs, JoinEmpty
<1>2. 0 \in Nat /\ 0 # ZO!Outside
  BY DEF ZO!Outside
<1>3. WriterTypes
  BY <1>1, <1>2 DEF ZO!ZlibOutputBufferAssumption, ZO!Init, WriterTypes, ZO!NoCall
<1>4. NothingMissing
  BY <1>1 DEF ZO!Init, NothingMissing
<1> QED
  BY <1>1, <1>2, <1>3, <1>4
  DEF ZO!ZlibOutputBufferAssumption, ZO!Init, WriterInv, CallOK, EndOK, InputFits, FlushOK

(* AddToInputBuffer, of data that fits: the input stays within its buffer  *)
(* and what was taken over grows by what the input does.                   *)
LEMMA AddKeeps ==
  ASSUME WriterTypes, ZO!ZlibOutputBufferAssumption, NothingMissing, InputFits, ~finished,
         nextIn # ZO!Outside, NEW d \in Units, ZO!Fits(d), ZO!AddToInputBuffer(d),
         UNCHANGED <<written, out, held, finished>>
  PROVE  /\ in' \in Units /\ taken' \in Units /\ nextIn' \in Nat
         /\ NothingMissing'
         /\ InputFits'
<1>0. /\ written \in Units /\ out \in Units /\ held \in Units /\ in \in Units
      /\ taken \in Units
  BY DEF WriterTypes
<1>1. in' = Join(in, d) /\ taken' = Join(taken, d)
  BY DEF ZO!AddToInputBuffer, Join
<1>2. in' \in Units /\ taken' \in Units /\ Len(in') = Len(in) + Len(d)
  BY <1>0, <1>1, JoinTyped
<1>3. nextIn \in Nat /\ Len(in) \in Nat /\ Len(d) \in Nat /\ InputSize \in Nat
  BY LengthIs DEF WriterTypes, ZO!ZlibOutputBufferAssumption
<1>4. nextIn' = IF Len(d) > InputSize - (nextIn + Len(in)) THEN 0 ELSE nextIn
  BY DEF ZO!AddToInputBuffer
<1>5. Len(d) <= InputSize - Len(in)
  BY DEF ZO!Fits, ZO!AvailableInputSpace
<1>6. nextIn' \in Nat /\ nextIn' + Len(in') <= InputSize
  BY <1>2, <1>3, <1>4, <1>5 DEF InputFits
<1>7. NothingMissing'
  <2>1. Join(Join(written, out), held) \in Units
    BY <1>0, JoinTyped
  <2>2. Join(Join(Join(Join(written, out), held), in), d)
          = Join(Join(Join(written, out), held), Join(in, d))
    BY <1>0, <2>1, JoinGrouped
  <2> QED
    BY <1>1, <2>2 DEF NothingMissing
<1> QED
  BY <1>2, <1>6, <1>7 DEF InputFits

(* One deflate(): what comes out and what stays inside is what was inside  *)
(* and what went in, in the same order.                                    *)
LEMMA DeflatedKeeps ==
  ASSUME WriterTypes, NothingMissing, EndOK, NEW k \in Nat, NEW c \in 0 .. Len(in),
         ZO!Deflated(k, c), UNCHANGED <<written, taken>>
  PROVE  /\ out' \in Units /\ held' \in Units /\ in' \in Units
         /\ finished' = (finished \/ (ZO!Mode = "FINISH" /\ c = Len(in)))
         /\ NothingMissing'
         /\ Len(out') = Len(out) + k /\ Len(in') = Len(in) - c
         /\ k < ZO!Room => c = Len(in) /\ (ZO!Mode # "NO_FLUSH" => held' = <<>>)
<1> DEFINE tail == IF ZO!Mode = "FINISH" /\ ~finished THEN <<ZO!End>> ELSE <<>>
           all == Join(Join(held, in), tail)
           inside == IF c = Len(in) THEN all ELSE Join(held, SubSeq(in, 1, c))
<1>0. /\ written \in Units /\ out \in Units /\ held \in Units /\ in \in Units
      /\ taken \in Units /\ <<>> \in Units
  BY EmptyIs DEF WriterTypes
<1>1. Len(in) \in Nat /\ Len(held) \in Nat /\ Len(out) \in Nat
  BY <1>0, LengthIs
<1>2. tail \in Units
  BY EndIs, EmptyIs
<1>3. /\ all \in Units /\ Join(held, in) \in Units
      /\ Len(all) = Len(held) + Len(in) + Len(tail)
  <2>1. Join(held, in) \in Units /\ Len(Join(held, in)) = Len(held) + Len(in)
    BY <1>0, JoinTyped
  <2> HIDE DEF tail
  <2> QED
    BY <1>2, <2>1, JoinTyped
<1>4. ZO!Pending = all
  BY DEF ZO!Pending, Join
<1>5. /\ out' = Join(out, SubSeq(all, 1, k))
      /\ in' = SubSeq(in, c + 1, Len(in))
      /\ held' = SubSeq(inside, k + 1, Len(inside))
      /\ finished' = (finished \/ (ZO!Mode = "FINISH" /\ c = Len(in)))
  BY <1>4 DEF ZO!Deflated, Join
<1>10. /\ c # Len(in) => k <= Len(held) + c + 0
       /\ c = Len(in) => k <= Len(held) + c + (Len(all) - Len(held) - Len(in))
  BY <1>4 DEF ZO!Deflated
<1>11. k < ZO!Room => c = Len(in) /\ (ZO!Mode # "NO_FLUSH" => k = Len(all))
  BY <1>4 DEF ZO!Deflated
<1> HIDE DEF all
<1>6. /\ SubSeq(in, 1, c) \in Units /\ Len(SubSeq(in, 1, c)) = c
      /\ in' \in Units /\ Len(in') = Len(in) - c
      /\ Join(SubSeq(in, 1, c), in') = in
  BY <1>0, <1>5, CutInTwo
<1>7. Join(Join(written, out), held) \in Units
  BY <1>0, JoinTyped
<1>8. CASE c = Len(in)
  <2>1. inside = all /\ k \in 0 .. Len(all)
    BY <1>1, <1>3, <1>10, <1>8, LengthIs
  <2>2. held' \in Units /\ Len(held') = Len(all) - k
    BY <1>3, <1>5, <2>1, CutInTwo
  <2>3. PICK p \in Units : Len(p) = k /\ Join(p, held') = all /\ out' = Join(out, p)
    <3>1. /\ SubSeq(all, 1, k) \in Units /\ Len(SubSeq(all, 1, k)) = k
          /\ Join(SubSeq(all, 1, k), SubSeq(all, k + 1, Len(all))) = all
      BY <1>3, <2>1, CutInTwo
    <3>2. held' = SubSeq(all, k + 1, Len(all))
      BY <1>5, <2>1
    <3>3. Join(SubSeq(all, 1, k), held') = all
      BY <3>1, <3>2
    <3> QED
      BY <1>5, <3>1, <3>3
  <2>4. in' = <<>>
    BY <1>1, <1>6, <1>8, EmptyIs
  <2>5. out' \in Units /\ Len(out') = Len(out) + k
    <3>1. Join(out, p) \in Units /\ Len(Join(out, p)) = Len(out) + Len(p)
      BY <1>0, <2>3, JoinTyped
    <3> QED
      BY <2>3, <3>1
  <2>10. Join(Join(Join(written, out'), held'), in')
          = Join(Join(Join(Join(written, out), held), in), tail)
    <3> HIDE DEF tail
    <3>1. Join(written, out) \in Units
      BY <1>0, JoinTyped
    <3>2. Join(Join(written, out'), held') = Join(Join(written, out), all)
      BY <1>0, <2>2, <2>3, Moved
    <3>3. Join(Join(written, out), all) = Join(Join(Join(written, out), Join(held, in)), tail)
      BY <1>2, <1>3, <3>1, JoinGrouped DEF all
    <3>4. Join(Join(Join(written, out), held), in) = Join(Join(written, out), Join(held, in))
      BY <1>0, <3>1, JoinGrouped
    <3>5. Join(Join(written, out), all) \in Units
      BY <1>3, <3>1, JoinTyped
    <3>6. Join(Join(Join(written, out), all), <<>>) = Join(Join(written, out), all)
      BY <3>5, JoinEmpty
    <3> QED
      BY <2>4, <3>2, <3>3, <3>4, <3>6
  <2>6. NothingMissing'
    <3>1. \A s \in Units : Join(s, <<>>) = s
      BY JoinEmpty
    <3>2. CASE finished
      <4>1. tail = <<>> /\ finished'
        BY <1>5, <3>2
      <4>2. Join(taken, <<ZO!End>>) \in Units
        BY <1>0, EndIs, JoinTyped
      <4> QED
        BY <2>10, <3>1, <3>2, <4>1, <4>2 DEF NothingMissing
    <3>3. CASE ~finished /\ ZO!Mode = "FINISH"
      <4>1. tail = <<ZO!End>> /\ finished'
        BY <1>5, <1>8, <3>3
      <4> QED
        BY <2>10, <3>3, <4>1 DEF NothingMissing
    <3>4. CASE ~finished /\ ZO!Mode # "FINISH"
      <4>1. tail = <<>> /\ ~finished'
        BY <1>5, <3>4
      <4> QED
        BY <1>0, <2>10, <3>1, <3>4, <4>1 DEF NothingMissing
    <3> QED
      BY <3>2, <3>3, <3>4
  <2>7. Len(all) \in Nat
    BY <1>3, LengthIs
  <2>8. k < ZO!Room /\ ZO!Mode # "NO_FLUSH" => held' = <<>>
    BY <1>11, <2>2, <2>7, EmptyIs
  <2> QED
    BY <1>5, <1>6, <1>8, <1>11, <2>2, <2>5, <2>6, <2>8
<1>9. CASE c # Len(in)
  <2>1. PICK a \in Units : a = SubSeq(in, 1, c) /\ Len(a) = c /\ Join(a, in') = in
    BY <1>6
  <2>2. inside = Join(held, a)
    BY <1>9, <2>1
  <2>3. inside \in Units /\ Len(inside) = Len(held) + c
    <3>1. Join(held, a) \in Units /\ Len(Join(held, a)) = Len(held) + Len(a)
      BY <1>0, JoinTyped
    <3> QED
      BY <2>1, <2>2, <3>1
  <2> HIDE DEF inside
  <2>4. k <= Len(held) + c
    BY <1>1, <1>10, <1>9
  <2>5. k \in 0 .. Len(inside)
    BY <1>1, <2>3, <2>4
  <2>6. held' \in Units
    BY <1>5, <2>3, <2>5, CutInTwo
  <2>8. SubSeq(all, 1, k) = SubSeq(inside, 1, k)
    <3> HIDE DEF tail
    <3>1. Join(in', tail) \in Units
      BY <1>2, <1>6, JoinTyped
    <3>2. all = Join(inside, Join(in', tail))
      <4>1. Join(Join(held, a), in') = Join(held, Join(a, in'))
        BY <1>0, <1>6, JoinGrouped
      <4>2. Join(Join(inside, in'), tail) = Join(inside, Join(in', tail))
        BY <1>2, <1>6, <2>3, JoinGrouped
      <4> QED
        BY <2>1, <2>2, <4>1, <4>2 DEF all
    <3>3. CASE k = 0
      BY <3>3, SubSeqEmpty
    <3>4. CASE k # 0
      <4>1. 1 \in 1 .. Len(inside) /\ k \in 1 .. Len(inside)
        BY <1>1, <2>3, <2>5, <3>4
      <4> QED
        BY <2>3, <3>1, <3>2, <4>1, SubSeqOfConcat1 DEF Units, Join
    <3> QED
      BY <3>3, <3>4
  <2>9. PICK p \in Units : Len(p) = k /\ Join(p, held') = inside /\ out' = Join(out, p)
    <3>1. /\ SubSeq(inside, 1, k) \in Units /\ Len(SubSeq(inside, 1, k)) = k
          /\ Join(SubSeq(inside, 1, k), SubSeq(inside, k + 1, Len(inside))) = inside
      BY <2>3, <2>5, CutInTwo
    <3>2. held' = SubSeq(inside, k + 1, Len(inside))
      BY <1>5
    <3>3. Join(SubSeq(inside, 1, k), held') = inside
      BY <3>1, <3>2
    <3> QED
      BY <1>5, <2>8, <3>1, <3>3
  <2>10. out' \in Units /\ Len(out') = Len(out) + k
    <3>1. Join(out, p) \in Units /\ Len(Join(out, p)) = Len(out) + Len(p)
      BY <1>0, <2>9, JoinTyped
    <3> QED
      BY <2>9, <3>1
  <2>11. Join(Join(Join(written, out'), held'), in') = Join(Join(Join(written, out), held), in)
    <3>1. Join(written, out) \in Units /\ Join(Join(written, out), held) \in Units
      BY <1>0, <1>7, JoinTyped
    <3>2. Join(Join(written, out'), held') = Join(Join(written, out), Join(held, a))
      BY <1>0, <2>2, <2>6, <2>9, Moved
    <3>3. Join(Join(written, out), Join(held, a)) = Join(Join(Join(written, out), held), a)
      BY <1>0, <2>1, <3>1, JoinGrouped
    <3>4. Join(Join(Join(Join(written, out), held), a), in')
            = Join(Join(Join(written, out), held), Join(a, in'))
      BY <1>6, <2>1, <3>1, JoinGrouped
    <3> QED
      BY <2>1, <3>2, <3>3, <3>4
  <2>12. finished' = finished
    BY <1>5, <1>9 DEF WriterTypes
  <2>13. NothingMissing'
    BY <2>11, <2>12 DEF NothingMissing
  <2> QED
    BY <1>5, <1>6, <1>9, <1>11, <2>6, <2>10, <2>13
<1> QED
  BY <1>8, <1>9

-----------------------------------------------------------------------------
(* The end of a call. *)
LEMMA ReturnIs ==
  ASSUME NEW st, ZO!Return(st)
  PROVE  /\ pc_o' = "idle" /\ call_o'.op = "none"
         /\ call_o' \in [op : {"none", "Append", "Flush", "Sync", "Close"}, data : Units]
         /\ reply_o'.op = call_o.op /\ reply_o'.status = st
BY EmptyIs DEF ZO!Return, ZO!NoCall

(* FlushOutputBufferToFile that succeeds moves units on. *)
LEMMA FileKeeps ==
  ASSUME WriterTypes, NothingMissing, ZO!AppendToFile, UNCHANGED <<held, finished, in, taken>>
  PROVE  /\ written' \in Units /\ out' \in Units /\ out' = <<>>
         /\ written' = Join(written, out)
         /\ NothingMissing'
<1>1. /\ written \in Units /\ out \in Units /\ held \in Units /\ in \in Units
      /\ <<>> \in Units
  BY EmptyIs DEF WriterTypes
<1>2. written' = Join(written, out) /\ out' = <<>>
  BY DEF ZO!AppendToFile, Join
<1>3. Join(written, out) \in Units
  BY <1>1, JoinTyped
<1>4. Join(Join(written, out), <<>>) = Join(written, out)
  BY <1>3, JoinEmpty
<1> QED
  BY <1>1, <1>2, <1>3, <1>4 DEF NothingMissing

(* One that fails ends the call and leaves the units where they are. *)
LEMMA FailureKeeps ==
  ASSUME WriterInv, pc_o # "idle", ZO!FileFails
  PROVE  WriterInv'
<1>1. UNCHANGED <<flushMode, written, out, held, finished, in, nextIn, open, taken>>
  BY DEF ZO!FileFails, ZO!zstream
<1>2. /\ pc_o' = "idle" /\ call_o'.op = "none" /\ reply_o'.status = "IO_ERROR"
      /\ call_o' \in [op : {"none", "Append", "Flush", "Sync", "Close"}, data : Units]
  BY ReturnIs DEF ZO!FileFails
<1> QED
  BY <1>1, <1>2
  DEF WriterInv, WriterTypes, NothingMissing, CallOK, EndOK, InputFits, FlushOK, ZO!Outside

(* Flush, Sync and Close begin. *)
LEMMA CallKeeps ==
  ASSUME WriterInv, NEW op \in {"Flush", "Sync", "Close"}, ZO!Call(op)
  PROVE  WriterInv'
<1>1. UNCHANGED <<flushMode, written, out, held, finished, in, nextIn, open, taken>>
  BY DEF ZO!Call, ZO!zstream
<1>2. /\ pc_o' = "room" /\ reply_o'.op = "none" /\ open /\ nextIn # ZO!Outside
      /\ finished => op = "Close"
  BY DEF ZO!Call
<1>3. /\ call_o' \in [op : {"none", "Append", "Flush", "Sync", "Close"}, data : Units]
      /\ call_o'.op = op
  BY EmptyIs DEF ZO!Call
<1> QED
  BY <1>1, <1>2, <1>3
  DEF WriterInv, WriterTypes, NothingMissing, CallOK, EndOK, InputFits, FlushOK

(* The bytes a caller appends are units. *)
LEMMA DataIs ==
  ASSUME WriterTypes, NEW n \in Nat
  PROVE  ZO!Data(n) \in Units
<1> DEFINE e(i) == Len(taken) + i
<1>1. Len(taken) \in Nat
  BY LengthIs DEF WriterTypes
<1>2. \A i \in 1 .. n : e(i) \in Nat
  BY <1>1
<1>3. [i \in 1 .. n |-> e(i)] \in Seq(Nat)
  <2> HIDE DEF e
  <2> QED
    BY <1>2, IsASeq
<1> QED
  BY <1>3 DEF ZO!Data, Units

(* Append, up to DeflateBuffered. *)
LEMMA AppendKeeps ==
  ASSUME WriterInv, ZO!ZlibOutputBufferAssumption, NEW n \in Lengths, ZO!Append_(n)
  PROVE  WriterInv'
<1>1. PICK d \in Units : d = ZO!Data(n)
  BY DataIs DEF WriterInv, ZO!ZlibOutputBufferAssumption
<1>2. /\ pc_o = "idle" /\ open /\ nextIn # ZO!Outside /\ ~finished
      /\ UNCHANGED <<flushMode, written, out, held, finished, open>>
  BY DEF ZO!Append_
<1>3. CASE ZO!Fits(d)
  <2>1. /\ ZO!AddToInputBuffer(d)
        /\ reply_o' = [op |-> "Append", status |-> "OK"]
        /\ UNCHANGED <<pc_o, call_o>>
    BY <1>1, <1>3 DEF ZO!Append_
  <2>2. in' \in Units /\ taken' \in Units /\ nextIn' \in Nat /\ NothingMissing' /\ InputFits'
    BY <1>2, <1>3, <2>1, AddKeeps DEF WriterInv
  <2> QED
    BY <1>2, <2>1, <2>2 DEF WriterInv, WriterTypes, CallOK, EndOK, FlushOK
<1>4. CASE ~ZO!Fits(d)
  <2>1. /\ pc_o' = "room" /\ reply_o'.op = "none"
        /\ call_o' = [op |-> "Append", data |-> d]
        /\ UNCHANGED <<in, nextIn, taken>>
    BY <1>1, <1>4 DEF ZO!Append_
  <2> QED
    BY <1>2, <2>1
    DEF WriterInv, WriterTypes, NothingMissing, CallOK, EndOK, InputFits, FlushOK
<1> QED
  BY <1>3, <1>4

(* The loops of DeflateBuffered and Append, up to deflate(). *)
LEMMA MakeRoomKeeps ==
  ASSUME WriterInv, ZO!MakeRoom
  PROVE  WriterInv'
<1>1. pc_o = "room"
  BY DEF ZO!MakeRoom
<1>2. CASE /\ ZO!AppendToFile
           /\ pc_o' = "deflate"
           /\ UNCHANGED <<flushMode, held, finished, in, nextIn, call_o, open, reply_o, taken>>
  <2>1. written' \in Units /\ out' \in Units /\ NothingMissing'
    BY <1>2, FileKeeps DEF WriterInv
  <2> QED
    BY <1>1, <1>2, <2>1
    DEF WriterInv, WriterTypes, CallOK, EndOK, InputFits, FlushOK
<1>3. CASE /\ pc_o' = "deflate"
           /\ UNCHANGED <<flushMode, written, out, held, finished, in, nextIn, call_o, open,
                          reply_o, taken>>
  BY <1>1, <1>3
  DEF WriterInv, WriterTypes, NothingMissing, CallOK, EndOK, InputFits, FlushOK
<1> QED
  BY <1>1, <1>2, <1>3, FailureKeeps DEF ZO!MakeRoom, ZO!zstream

(* deflate(), and what follows the loop. *)
LEMMA DeflateKeeps ==
  ASSUME WriterInv, ZO!ZlibOutputBufferAssumption, ZO!Deflate
  PROVE  WriterInv'
<1>1. PICK k \in 0 .. ZO!Room, c \in 0 .. Len(in) : ZO!Deflated(k, c)
  BY DEF ZO!Deflate
<1>2. /\ pc_o = "deflate" /\ open
      /\ UNCHANGED <<flushMode, written, open, taken>>
  BY DEF ZO!Deflate, WriterInv, EndOK
<1>3. /\ Len(in) \in Nat /\ Len(out) \in Nat /\ InputSize \in Nat /\ OutputSize \in Nat
      /\ k \in Nat /\ c \in Nat
  BY LengthIs DEF WriterInv, WriterTypes, ZO!ZlibOutputBufferAssumption
<1>4. /\ out' \in Units /\ held' \in Units /\ in' \in Units
      /\ finished' = (finished \/ (ZO!Mode = "FINISH" /\ c = Len(in)))
      /\ NothingMissing'
      /\ Len(out') = Len(out) + k /\ Len(in') = Len(in) - c
      /\ k < ZO!Room => c = Len(in) /\ (ZO!Mode # "NO_FLUSH" => held' = <<>>)
  BY <1>1, <1>2, <1>3, DeflatedKeeps DEF WriterInv
<1>5. finished' => in' = <<>> /\ call_o.op \in {"none", "Close"}
  <2>1. CASE finished
    <3>1. in = <<>> /\ call_o.op \in {"none", "Close"}
      BY <2>1 DEF WriterInv, EndOK
    <3>2. Len(in') = 0
      BY <1>3, <1>4, <3>1, EmptyIs
    <3> QED
      BY <1>4, <3>1, <3>2, EmptyIs
  <2>2. CASE ZO!Mode = "FINISH" /\ c = Len(in)
    <3>1. call_o.op = "Close"
      BY <2>2 DEF ZO!Mode, WriterInv, WriterTypes
    <3>2. Len(in') = 0
      BY <1>3, <1>4, <2>2
    <3> QED
      BY <1>4, <3>1, <3>2, EmptyIs
  <2> QED
    BY <1>4, <2>1, <2>2
<1>6. finished' \in BOOLEAN
  BY <1>4 DEF WriterInv, WriterTypes
<1>7. CASE /\ pc_o' = "room"
           /\ nextIn' = IF ZO!Buffered THEN nextIn + (Len(in) - Len(in')) ELSE ZO!Outside
           /\ UNCHANGED <<call_o, reply_o>>
  <2>1. CASE ZO!Buffered
    <3>1. /\ nextIn \in Nat /\ nextIn + Len(in) <= InputSize
      BY <2>1 DEF ZO!Buffered, WriterInv, WriterTypes, InputFits
    <3>2. nextIn' \in Nat /\ nextIn' + Len(in') <= InputSize /\ nextIn' # ZO!Outside
      BY <1>3, <1>4, <1>7, <2>1, <3>1 DEF ZO!Outside
    <3> QED
      BY <1>2, <1>4, <1>5, <1>6, <1>7, <3>2
      DEF WriterInv, WriterTypes, CallOK, EndOK, InputFits, FlushOK
  <2>2. CASE ~ZO!Buffered
    <3>1. nextIn = ZO!Outside /\ nextIn' = ZO!Outside
      BY <1>7, <2>2 DEF ZO!Buffered
    <3> QED
      BY <1>2, <1>4, <1>5, <1>6, <1>7, <3>1
      DEF WriterInv, WriterTypes, CallOK, EndOK, InputFits, FlushOK
  <2> QED
    BY <2>1, <2>2
<1>8. CASE /\ Len(out') < OutputSize
           /\ nextIn' = 0
           /\ IF ~ZO!Buffered
              THEN ZO!Return("OK")
              ELSE /\ pc_o' = IF call_o.op = "Append" THEN "add" ELSE "write"
                   /\ UNCHANGED <<call_o, reply_o>>
  <2>1. k < ZO!Room
    BY <1>3, <1>4, <1>8 DEF ZO!Room
  <2>2. c = Len(in) /\ (ZO!Mode # "NO_FLUSH" => held' = <<>>)
    BY <1>4, <2>1
  <2>3. in' = <<>> /\ Len(in') = 0
    BY <1>3, <1>4, <2>2, EmptyIs
  <2>4. 0 \in Nat /\ 0 # ZO!Outside /\ InputFits'
    BY <1>3, <1>8, <2>3 DEF InputFits, ZO!Outside
  <2>5. CASE ~ZO!Buffered
    <3>1. call_o.op = "Append"
      BY <1>2, <2>5 DEF ZO!Buffered, WriterInv, CallOK
    <3>2. /\ pc_o' = "idle" /\ call_o'.op = "none" /\ reply_o'.op = "Append"
          /\ call_o' \in [op : {"none", "Append", "Flush", "Sync", "Close"}, data : Units]
      BY <1>8, <2>5, <3>1, ReturnIs
    <3> QED
      BY <1>2, <1>4, <1>6, <1>8, <2>3, <2>4, <3>2
      DEF WriterInv, WriterTypes, CallOK, EndOK, FlushOK
  <2>6. CASE ZO!Buffered
    <3>1. /\ pc_o' = IF call_o.op = "Append" THEN "add" ELSE "write"
          /\ UNCHANGED <<call_o, reply_o>>
      BY <1>8, <2>6
    <3>2. ZO!Mode' = ZO!Mode
      BY <1>2, <3>1 DEF ZO!Mode
    <3>3. call_o.op = "Close" => finished'
      BY <1>4, <2>2 DEF ZO!Mode
    <3>4. CallOK'
      <4>1. call_o.op \in {"Append", "Flush", "Sync", "Close"} /\ reply_o.op = "none"
        BY <1>2 DEF WriterInv, WriterTypes, CallOK
      <4>2. nextIn' # ZO!Outside
        BY <1>8, <2>4
      <4> QED
        BY <1>8, <2>2, <2>3, <3>1, <3>2, <3>3, <4>1, <4>2 DEF CallOK
    <3> QED
      BY <1>2, <1>4, <1>5, <1>6, <1>8, <2>4, <3>1, <3>4
      DEF WriterInv, WriterTypes, CallOK, EndOK, FlushOK
  <2> QED
    BY <2>5, <2>6
<1> QED
  BY <1>7, <1>8 DEF ZO!Deflate

(* Append behind DeflateBuffered. *)
LEMMA AppendRestKeeps ==
  ASSUME WriterInv, ZO!ZlibOutputBufferAssumption, ZO!AppendRest
  PROVE  WriterInv'
<1>1. /\ pc_o = "add" /\ open
      /\ UNCHANGED <<flushMode, written, out, held, finished, open>>
  BY DEF ZO!AppendRest, WriterInv, EndOK
<1>2. /\ call_o.op = "Append" /\ in = <<>> /\ nextIn = 0 /\ nextIn # ZO!Outside
      /\ ~finished /\ reply_o.op = "none" /\ call_o.data \in Units
  BY <1>1 DEF WriterInv, WriterTypes, CallOK, EndOK, ZO!Outside
<1>3. CASE ZO!Fits(call_o.data)
  <2>1. ZO!AddToInputBuffer(call_o.data) /\ ZO!Return("OK")
    BY <1>3 DEF ZO!AppendRest
  <2>2. in' \in Units /\ taken' \in Units /\ nextIn' \in Nat /\ NothingMissing' /\ InputFits'
    BY <1>1, <1>2, <1>3, <2>1, AddKeeps DEF WriterInv
  <2>3. /\ pc_o' = "idle" /\ call_o'.op = "none" /\ reply_o'.op = "Append"
        /\ call_o' \in [op : {"none", "Append", "Flush", "Sync", "Close"}, data : Units]
    BY <1>2, <2>1, ReturnIs
  <2> QED
    BY <1>1, <1>2, <2>2, <2>3 DEF WriterInv, WriterTypes, CallOK, EndOK, FlushOK
<1>4. CASE ~ZO!Fits(call_o.data)
  <2>1. /\ in' = call_o.data /\ nextIn' = ZO!Outside /\ pc_o' = "room"
        /\ taken' = Join(taken, call_o.data)
        /\ UNCHANGED <<call_o, reply_o>>
    BY <1>4 DEF ZO!AppendRest, Join
  <2>2. taken' \in Units
    BY <1>2, <2>1, JoinTyped DEF WriterInv, WriterTypes
  <2>3. NothingMissing'
    <3>1. Join(Join(written, out), held) \in Units
      BY JoinTyped DEF WriterInv, WriterTypes
    <3>2. Join(Join(written, out), held) = taken
      BY <1>2, <3>1, JoinEmpty DEF WriterInv, NothingMissing
    <3> QED
      BY <1>1, <1>2, <2>1, <3>2 DEF NothingMissing
  <2> QED
    BY <1>1, <1>2, <2>1, <2>2, <2>3
    DEF WriterInv, WriterTypes, CallOK, EndOK, InputFits, FlushOK
<1> QED
  BY <1>3, <1>4 DEF ZO!AppendRest

(* The end of Flush, Sync and Close. *)
LEMMA WriteRestKeeps ==
  ASSUME WriterInv, ZO!WriteRest
  PROVE  WriterInv'
<1>1. /\ pc_o = "write" /\ open
      /\ call_o.op \in {"Flush", "Sync", "Close"} /\ in = <<>>
      /\ ZO!Mode # "NO_FLUSH" => held = <<>>
      /\ call_o.op = "Close" => finished
  BY DEF ZO!WriteRest, WriterInv, CallOK, EndOK
<1>2. ASSUME ZO!AppendToFile, UNCHANGED <<flushMode, held, finished, in, nextIn, taken>>,
             NEW st, ZO!Return(st), st \in {"OK", "IO_ERROR"},
             open' = (st = "OK" => call_o.op # "Close")
      PROVE  WriterInv'
  <2>1. /\ written' \in Units /\ out' \in Units /\ out' = <<>> /\ NothingMissing'
        /\ written' = Join(written, out)
    BY <1>2, FileKeeps DEF WriterInv
  <2>2. /\ pc_o' = "idle" /\ call_o'.op = "none"
        /\ call_o' \in [op : {"none", "Append", "Flush", "Sync", "Close"}, data : Units]
        /\ reply_o'.op = call_o.op /\ reply_o'.status = st
    BY <1>2, ReturnIs
  <2>3. EndOK'
    <3>1. ~open' => finished /\ held = <<>>
      <4>1. call_o.op = "Close" => ZO!Mode = "FINISH"
        BY DEF ZO!Mode
      <4> QED
        BY <1>1, <1>2, <4>1
    <3> QED
      BY <1>1, <1>2, <2>1, <2>2, <3>1 DEF WriterInv, EndOK
  <2>4. FlushOK'
    <3> SUFFICES ASSUME call_o.op \in {"Flush", "Sync"}, flushMode = "SYNC_FLUSH"
                 PROVE  written' = taken'
      BY <1>2, <2>2 DEF FlushOK
    <3>1. ZO!Mode = "SYNC_FLUSH" /\ held = <<>>
      <4>1. ZO!Mode = "SYNC_FLUSH"
        BY DEF ZO!Mode
      <4> QED
        BY <1>1, <4>1
    <3>2. ~finished
      BY DEF WriterInv, EndOK
    <3>3. Join(written, out) \in Units
      BY JoinTyped DEF WriterInv, WriterTypes
    <3>4. Join(Join(Join(written, out), <<>>), <<>>) = Join(written, out)
      BY <3>3, JoinEmpty
    <3> QED
      BY <1>1, <1>2, <2>1, <3>1, <3>2, <3>4 DEF WriterInv, NothingMissing
  <2> QED
    BY <1>2, <2>1, <2>2, <2>3, <2>4 DEF WriterInv, WriterTypes, CallOK, InputFits
<1>3. ASSUME ZO!AppendToFile, open' = (call_o.op # "Close"), ZO!Return("OK"),
             UNCHANGED <<flushMode, held, finished, in, nextIn, taken>>
      PROVE  WriterInv'
  BY <1>2, <1>3
<1>4. ASSUME ZO!AppendToFile, ZO!Return("IO_ERROR"),
             UNCHANGED <<flushMode, held, finished, in, nextIn, open, taken>>
      PROVE  WriterInv'
  BY <1>1, <1>2, <1>4
<1> QED
  BY <1>1, <1>3, <1>4, FailureKeeps DEF ZO!WriteRest

(* Every step keeps the invariant. *)
LEMMA WriterPreserved ==
  ASSUME WriterInv, ZO!ZlibOutputBufferAssumption, [ZO!Next]_ZO!vars
  PROVE  WriterInv'
<1>1. CASE UNCHANGED ZO!vars
  <2>1. UNCHANGED <<flushMode, written, out, held, finished, in, nextIn, pc_o, call_o, open,
                    reply_o, taken>>
    BY <1>1 DEF ZO!vars
  <2>2. ZO!Mode' = ZO!Mode
    BY <2>1 DEF ZO!Mode
  <2> QED
    BY <2>1, <2>2
    DEF WriterInv, WriterTypes, NothingMissing, CallOK, EndOK, InputFits, FlushOK
<1> QED
  BY <1>1, CallKeeps, AppendKeeps, MakeRoomKeeps, DeflateKeeps, AppendRestKeeps, WriteRestKeeps
  DEF ZO!Next

(* What the invariant says of the streams. *)
LEMMA WriterInvImpliesNothingLost ==
  ASSUME WriterInv
  PROVE  ZO!NothingLost
<1>1. /\ written \in Units /\ out \in Units /\ held \in Units /\ in \in Units
      /\ taken \in Units
  BY DEF WriterInv, WriterTypes
<1>2. ZO!End \in Nat
  BY DEF ZO!End
<1>3. Append(taken, ZO!End) = Join(taken, <<ZO!End>>)
  BY <1>1, <1>2, AppendIsConcat DEF Units, Join
<1>4. written \o out \o held \o in = IF finished THEN Append(taken, ZO!End) ELSE taken
  BY <1>3 DEF WriterInv, NothingMissing, Join
<1>5. ~open => written = Append(taken, ZO!End)
  <2> SUFFICES ASSUME ~open PROVE written = Append(taken, ZO!End)
    OBVIOUS
  <2>1. finished /\ out = <<>> /\ held = <<>> /\ in = <<>>
    BY DEF WriterInv, EndOK
  <2>2. Join(Join(Join(written, <<>>), <<>>), <<>>) = written
    BY <1>1, JoinEmpty
  <2> QED
    BY <1>3, <2>1, <2>2 DEF WriterInv, NothingMissing
<1> QED
  BY <1>4, <1>5 DEF ZO!NothingLost, WriterInv, InputFits, FlushOK

(* A step of MCStorage is a step of the writer or leaves it alone. *)
LEMMA WriterSteps == ASSUME [Next]_storageVars PROVE [ZO!Next]_ZO!vars
BY DEF Next, storageVars, outputVars, ZO!vars, InputBufferRuns, BufferedInputStreamRuns,
  ZlibInputStreamRuns, ZlibOutputBufferRuns, TableRuns, LeveldbDatabaseRuns

(* For buffers of any size, data of any lengths and any errors of the      *)
(* file: every byte taken over is in one place, once and in order, and     *)
(* after a Close that returned OK the file holds everything                *)
(* (zlib_outputbuffer.cc:56-196).                                          *)
THEOREM NothingEverLost == Spec => []NothingLost
<1>1. Init => WriterInv
  BY WriterInitially, StorageAssumption DEF Init, StorageAssumption
<1>2. WriterInv /\ [Next]_storageVars => WriterInv'
  BY WriterPreserved, WriterSteps, StorageAssumption DEF StorageAssumption
<1>3. WriterInv => NothingLost
  BY WriterInvImpliesNothingLost DEF NothingLost
<1> QED
  BY <1>1, <1>2, <1>3, PTL DEF Spec
-----------------------------------------------------------------------------
(***************************************************************************)
(* InputBuffer and BufferedInputStream.                                    *)
(***************************************************************************)
(* The inductive invariant of the reader that runs. *)
ReadersInv ==
  /\ part = "inputbuffer" => InputBufferInv
  /\ part = "buffered_inputstream" => BufferedInv

(* The assumption on the constants, as the lemmas use it. *)
LEMMA StreamAssumed == StreamAssumption
BY StorageAssumption DEF StorageAssumption, BS!BufferedInputStreamAssumption,
  BS!ReadBufferAssumption, StreamAssumption, Units

(* Both readers start in order, at the beginning of their file. *)
LEMMA ReadersInitially == ASSUME Init PROVE ReadersInv /\ IB!Stream!Init
<1>1. CASE part = "inputbuffer"
  BY <1>1, InputBufferInitially, StreamAssumed DEF Init, ReadersInv
<1>2. CASE part # "inputbuffer"
  BY <1>2, BufferedInitially, StreamAssumed DEF Init, ReadersInv
<1> QED
  BY <1>1, <1>2

(* A step of MCStorage is one of the reader that runs, or leaves both      *)
(* alone.                                                                  *)
LEMMA ReadersKeep ==
  ASSUME ReadersInv, [Next]_storageVars
  PROVE  ReadersInv' /\ [IB!Stream!Next]_(IB!Stream!vars)
<1>1. part' = part
  BY DEF Next, storageVars, InputBufferRuns, BufferedInputStreamRuns, ZlibInputStreamRuns,
    ZlibOutputBufferRuns, TableRuns, LeveldbDatabaseRuns
<1>2. CASE part = "inputbuffer"
  <2>1. [IB!Next]_(IB!vars)
    BY <1>2 DEF Next, storageVars, readerVars, InputBufferRuns, BufferedInputStreamRuns,
      ZlibInputStreamRuns, ZlibOutputBufferRuns, TableRuns, LeveldbDatabaseRuns, IB!vars
  <2>2. InputBufferInv' /\ StreamStep
    BY <1>2, <2>1, InputBufferKeeps, StreamAssumed DEF ReadersInv
  <2> QED
    BY <1>1, <1>2, <2>2 DEF ReadersInv, StreamStep
<1>3. CASE part = "buffered_inputstream"
  <2>1. [BS!Next]_(BS!streamVars)
    BY <1>3 DEF Next, storageVars, readerVars, InputBufferRuns, BufferedInputStreamRuns,
      ZlibInputStreamRuns, ZlibOutputBufferRuns, TableRuns, LeveldbDatabaseRuns,
      BS!streamVars, BS!vars
  <2>2. BufferedInv' /\ StreamStep
    BY <1>3, <2>1, BufferedKeeps, StreamAssumed DEF ReadersInv
  <2> QED
    BY <1>1, <1>3, <2>2 DEF ReadersInv, StreamStep
<1>4. CASE part \notin {"inputbuffer", "buffered_inputstream"}
  <2>1. UNCHANGED readerVars
    BY <1>4 DEF Next, storageVars, InputBufferRuns, BufferedInputStreamRuns, ZlibInputStreamRuns,
      ZlibOutputBufferRuns, TableRuns, LeveldbDatabaseRuns
  <2>2. UNCHANGED IB!Stream!vars
    BY <2>1 DEF readerVars, IB!Stream!vars, IB!Offset, IB!Tell
  <2> QED
    BY <1>1, <1>4, <2>2 DEF ReadersInv
<1> QED
  BY <1>2, <1>3, <1>4

(* For any file, any lengths and positions asked for and a buffer of any   *)
(* size: whatever the operating system delivers and wherever it stops,     *)
(* InputBuffer's caller reads one stream of bytes (inputbuffer.cc:17-158). *)
THEOREM InputBufferReadsAStream == Spec => InputBufferIsAStream
<1>1. Init => ReadersInv /\ IB!Stream!Init
  BY ReadersInitially
<1>2. ReadersInv /\ [Next]_storageVars => ReadersInv' /\ [IB!Stream!Next]_(IB!Stream!vars)
  BY ReadersKeep
<1> QED
  BY <1>1, <1>2, PTL DEF Spec, InputBufferIsAStream, IB!InputBufferIsAStream, IB!Stream!Spec

(* BufferedInputStream's caller does so too, also across a skip or a seek  *)
(* that the stream below makes in pieces, as long as a read that fails has *)
(* delivered nothing (buffered_inputstream.cc:27-152).                     *)
THEOREM BufferedReadsAStream == Spec => BufferedIsAStream
<1>1. Init => ReadersInv /\ BS!Stream!Init
  BY ReadersInitially, SameStream
<1>2. ReadersInv /\ [Next]_storageVars => ReadersInv' /\ [BS!Stream!Next]_(BS!Stream!vars)
  BY ReadersKeep, SameStream
<1> QED
  BY <1>1, <1>2, PTL DEF Spec, BufferedIsAStream, BS!BufferedIsAStream, BS!Stream!Spec

(* The specification of MCStorage starts with an empty builder and makes   *)
(* steps of Table only.                                                    *)
LEMMA TableKeeps ==
  /\ Init => TableInv
  /\ TableInv /\ [Next]_storageVars => TableInv'
<1>1. Init => TableInv
  BY TableInit DEF Init
<1>2. ASSUME TableInv, [Next]_storageVars PROVE TableInv'
  <2>1. TB!Step \/ UNCHANGED tableVars
    BY <1>2 DEF Next, storageVars, InputBufferRuns, BufferedInputStreamRuns, ZlibInputStreamRuns,
      ZlibOutputBufferRuns, TableRuns, LeveldbDatabaseRuns
  <2>2. CASE TB!Step
    BY <1>2, <2>2, TableStep
  <2>3. CASE UNCHANGED tableVars
    <3>1. /\ opened' = opened /\ closed' = closed /\ file_t' = file_t /\ added' = added
          /\ UNCHANGED <<offset, status_t, dataBlock, indexBlock, lastKey, pending>>
          /\ index' = index
      BY <2>3 DEF tableVars
    <3> QED
      BY <1>2, <3>1, Moves
  <2> QED
    BY <2>1, <2>2, <2>3
<1> QED
  BY <1>1, <1>2

(* For any keys and sizes of blocks, whatever Append fails and wherever    *)
(* building ends: while a table is built the keys of its index keep the    *)
(* blocks apart, and in a table that opens InternalGet finds what was      *)
(* added and nothing before the key asked for, and ApproximateOffsetOf     *)
(* never goes back (table.cc:115-162, table_builder.cc:18-52).             *)
THEOREM TableLookupsFind == Spec => []LookupsFind
<1>1. Init => TableInv
  BY TableKeeps
<1>2. TableInv /\ [Next]_storageVars => TableInv'
  BY TableKeeps
<1>3. TableInv => LookupsFind
  BY TableFinds DEF LookupsFind
<1> QED
  BY <1>1, <1>2, <1>3, PTL DEF Spec
=============================================================================

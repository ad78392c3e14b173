------------------------------ MODULE EntryLog ------------------------------
(***************************************************************************)
(* What the log database promises (log/database.h): an entry, once stored, *)
(* is never replaced, no two entries share a sequence number, and lookups  *)
(* answer from what is stored, the one by hash with the entry of least     *)
(* sequence number.  Crashes and restarts end an iterator and are          *)
(* otherwise not visible.                                                  *)
(***************************************************************************)
EXTENDS Integers

CONSTANTS Entries,    \* records with at least the fields seq and hash
          Indices,    \* sequence numbers callers look up
          Hashes,     \* hashes callers look up
          NotFound    \* LookupResult NOT_FOUND

VARIABLES log,      \* the stored entries
          reply,    \* the last return value: the call, its argument, the result
          failing,  \* whether the storage below may fail
          scan      \* an iterator: whether there is one, and what is left to it

vars == <<log, reply, failing, scan>>

Closed == [open |-> FALSE, left |-> {}]
Returned(call, arg, result) == [call |-> call, arg |-> arg, result |-> result]

Init ==
  /\ log = {}
  /\ reply = Returned("none", NotFound, NotFound)
  /\ failing \in BOOLEAN
  /\ scan = Closed

(* Storing precedes acknowledging: whoever asks in between may see the     *)
(* entry, and a caller who never got an answer may ask again.              *)
Store(e) ==
  /\ \A x \in log : x.seq # e.seq
  /\ log' = log \cup {e}
  /\ scan' = scan \/ (failing /\ scan' = Closed)
  /\ UNCHANGED <<reply, failing>>

Accept(e) ==
  /\ e \in log
  /\ reply' = Returned("create", e, "OK")
  /\ UNCHANGED <<log, failing, scan>>

(* The number is taken, or it cannot be found out. *)
Refuse(e) ==
  /\ failing \/ \E x \in log : x.seq = e.seq /\ x # e
  /\ reply' = Returned("create", e, "SEQUENCE_NUMBER_ALREADY_IN_USE")
  /\ UNCHANGED <<log, failing, scan>>

(* The member of found with the least sequence number. *)
First(found) ==
  IF found = {} THEN NotFound
  ELSE CHOOSE x \in found : \A y \in found : x.seq <= y.seq

LookupByIndex(i) ==
  /\ reply' = Returned("index", i, First({x \in log : x.seq = i}))
  /\ UNCHANGED <<log, failing, scan>>

(* Storage that fails may hide entries from a search, never change them. *)
LookupByHash(h) ==
  LET same == {x \in log : x.hash = h} IN
  /\ \E found \in {First(same)} \cup (IF failing THEN {NotFound} \cup same ELSE {}) :
       reply' = Returned("hash", h, found)
  /\ UNCHANGED <<log, failing, scan>>

(* An iterator goes through what is stored when it is made, in the order   *)
(* of sequence numbers; it ends early only if the storage fails.           *)
OpenScan(i) ==
  /\ scan' = [open |-> TRUE, left |-> {x \in log : x.seq >= i}]
  /\ UNCHANGED <<log, reply, failing>>

NextEntry ==
  /\ scan.open
  /\ \/ /\ reply' = Returned("next", NotFound, First(scan.left))
        /\ scan' = [scan EXCEPT !.left = @ \ {First(scan.left)}]
     \/ /\ failing
        /\ reply' = Returned("next", NotFound, NotFound)
        /\ scan' = [scan EXCEPT !.left = {}]
  /\ UNCHANGED <<log, failing>>

CloseScan == scan' = Closed /\ UNCHANGED <<log, reply, failing>>

Next ==
  \/ \E e \in Entries : Store(e) \/ Accept(e) \/ Refuse(e)
  \/ \E i \in Indices : LookupByIndex(i) \/ OpenScan(i)
  \/ NextEntry \/ CloseScan
  \/ \E h \in Hashes : LookupByHash(h)

Spec == Init /\ [][Next]_vars
=============================================================================

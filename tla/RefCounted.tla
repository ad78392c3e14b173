------------------------------ MODULE RefCounted ------------------------------
(***************************************************************************)
(* base/ref_counted.h: objects with an atomic count of the scoped_refptr   *)
(* variables that point to them.  A variable belongs to one thread; a      *)
(* pointer reaches another thread only inside a closure handed to it.      *)
(*                                                                         *)
(* Unref reads the count and, unless it is one, decrements it: two atomic  *)
(* steps, between which other threads Ref and Unref the same object.       *)
(***************************************************************************)
EXTENDS Integers, FiniteSets

CONSTANTS
  Owners,     \* the threads
  Pointers,   \* names of a thread's scoped_refptr variables
  Objects,    \* objects that may be created
  Null        \* nullptr; also a variable that is not constructed

VARIABLES
  ref,        \* ref_ of each object
  life,       \* "unborn", "live" or "deleted"
  ptr,        \* ptr_ of each variable of each thread
  unref       \* what each thread's Unref is doing, and to which object

refVars == <<ref, life, ptr, unref>>

(* Finitely many variables hold references, nullptr is no object, and the  *)
(* name of a pending Unref is no variable.                                 *)
RefCountedAssumption ==
  /\ IsFiniteSet(Owners)
  /\ IsFiniteSet(Pointers)
  /\ Null \notin Objects
  /\ "unref" \notin Pointers

Idle == [at |-> "idle", obj |-> Null]

Init ==
  /\ ref = [o \in Objects |-> 0]
  /\ life = [o \in Objects |-> "unborn"]
  /\ ptr = [t \in Owners |-> [p \in Pointers |-> Null]]
  /\ unref = [t \in Owners |-> Idle]

(* What ref_ is after Ref() on o. *)
Ref(o) == IF o = Null THEN ref ELSE [ref EXCEPT ![o] = @ + 1]

(* Unref(o) begins in thread t; nothing for a null pointer. *)
BeginUnref(t, o) ==
  unref' = IF o = Null THEN unref
           ELSE [unref EXCEPT ![t] = [at |-> "load", obj |-> o]]

-----------------------------------------------------------------------------
(* scoped_refptr<T> p(new T): the count the constructor of the object set  *)
(* to one is taken over.                                                   *)
Create(t, p, o) ==
  /\ unref[t] = Idle
  /\ ptr[t][p] = Null
  /\ life[o] = "unborn"
  /\ life' = [life EXCEPT ![o] = "live"]
  /\ ref' = [ref EXCEPT ![o] = 1]
  /\ ptr' = [ptr EXCEPT ![t][p] = o]
  /\ UNCHANGED unref

CopyConstruct(t, p, q) ==
  /\ unref[t] = Idle
  /\ ptr[t][p] = Null
  /\ ptr[t][q] # Null
  /\ ref' = Ref(ptr[t][q])
  /\ ptr' = [ptr EXCEPT ![t][p] = ptr[t][q]]
  /\ UNCHANGED <<life, unref>>

(* The move constructor, in the same thread or into the closure that       *)
(* thread u gets.                                                          *)
MoveConstruct(t, q, u, p) ==
  /\ unref[t] = Idle
  /\ <<t, q>> # <<u, p>>
  /\ ptr[t][q] # Null
  /\ ptr[u][p] = Null
  /\ ptr' = IF t = u THEN [ptr EXCEPT ![t] = [@ EXCEPT ![p] = ptr[t][q], ![q] = Null]]
            ELSE [ptr EXCEPT ![u][p] = ptr[t][q], ![t][q] = Null]
  /\ UNCHANGED <<ref, life, unref>>

Destruct(t, p) ==
  /\ unref[t] = Idle
  /\ ptr[t][p] # Null
  /\ ptr' = [ptr EXCEPT ![t][p] = Null]
  /\ BeginUnref(t, ptr[t][p])
  /\ UNCHANGED <<ref, life>>

(* operator= of a raw pointer the thread keeps alive, and through it       *)
(* copy assignment: the new one is Ref'd before the old one is Unref'd,    *)
(* also when they are the same.                                            *)
Assign(t, p, o) ==
  /\ unref[t] = Idle
  /\ o = Null \/ \E q \in Pointers : ptr[t][q] = o
  /\ ref' = Ref(o)
  /\ ptr' = [ptr EXCEPT ![t][p] = o]
  /\ BeginUnref(t, ptr[t][p])
  /\ UNCHANGED life

(* operator=(scoped_refptr<U>&&): a temporary takes the pointer, is        *)
(* swapped with the variable, and its destructor drops the old one.        *)
MoveAssign(t, p, q) ==
  /\ unref[t] = Idle
  /\ p # q
  /\ ptr' = [ptr EXCEPT ![t] = [@ EXCEPT ![p] = ptr[t][q], ![q] = Null]]
  /\ BeginUnref(t, ptr[t][p])
  /\ UNCHANGED <<ref, life>>

Swap(t, p, q) ==
  /\ unref[t] = Idle
  /\ p # q
  /\ ptr' = [ptr EXCEPT ![t] = [@ EXCEPT ![p] = ptr[t][q], ![q] = ptr[t][p]]]
  /\ UNCHANGED <<ref, life, unref>>

-----------------------------------------------------------------------------
(* ref_.load() == 1: the caller's is the last reference. *)
LoadCount(t) ==
  /\ unref[t].at = "load"
  /\ unref' = [unref EXCEPT ![t].at = IF ref[unref[t].obj] = 1 THEN "delete" ELSE "sub"]
  /\ UNCHANGED <<ref, life, ptr>>

(* Fault: what fetch_sub returned is not looked at. *)
FetchSubUnseen(t) ==
  /\ unref[t].at = "sub"
  /\ ref' = [ref EXCEPT ![unref[t].obj] = @ - 1]
  /\ unref' = [unref EXCEPT ![t] = Idle]
  /\ UNCHANGED <<life, ptr>>

(* ref_.fetch_sub(1) == 1 *)
FetchSub(t) ==
  /\ unref[t].at = "sub"
  /\ LET o == unref[t].obj IN
       /\ ref' = [ref EXCEPT ![o] = @ - 1]
       /\ unref' = [unref EXCEPT ![t] = IF ref[o] = 1 THEN [@ EXCEPT !.at = "delete"] ELSE Idle]
  /\ UNCHANGED <<life, ptr>>

(* Traits::Destruct *)
Delete(t) ==
  /\ unref[t].at = "delete"
  /\ life' = [life EXCEPT ![unref[t].obj] = "deleted"]
  /\ unref' = [unref EXCEPT ![t] = Idle]
  /\ UNCHANGED <<ref, ptr>>

Next ==
  \/ \E t \in Owners, p \in Pointers, o \in Objects : Create(t, p, o)
  \/ \E t \in Owners, p \in Pointers, q \in Pointers : CopyConstruct(t, p, q)
  \/ \E t, u \in Owners, p, q \in Pointers : MoveConstruct(t, q, u, p)
  \/ \E t \in Owners, p \in Pointers : Destruct(t, p)
  \/ \E t \in Owners, p \in Pointers, o \in Objects \cup {Null} : Assign(t, p, o)
  \/ \E t \in Owners, p \in Pointers, q \in Pointers : MoveAssign(t, p, q) \/ Swap(t, p, q)
  \/ \E t \in Owners : LoadCount(t) \/ FetchSub(t) \/ Delete(t)

Spec == Init /\ [][Next]_refVars

-----------------------------------------------------------------------------
(* The references to o: variables, and Unrefs that have yet to count down. *)
References(o) ==
  {v \in Owners \X Pointers : ptr[v[1]][v[2]] = o}
  \cup {<<t, "unref">> : t \in {u \in Owners : unref[u].obj = o
                                              /\ unref[u].at \in {"load", "sub"}}}

Deleters(o) == {t \in Owners : unref[t].obj = o /\ unref[t].at = "delete"}

(* An object is deleted once, by the thread that drops the last reference, *)
(* and only then: while it lives the count is the number of references, a  *)
(* reference never points to a deleted object, and an object nobody refers *)
(* to is being deleted (ref_counted.h:18-33 and 93-166).                   *)
DeletedWithTheLast ==
  \A o \in Objects :
    /\ References(o) # {} => life[o] = "live"
    /\ Deleters(o) # {} => /\ life[o] = "live"
                           /\ References(o) = {}
                           /\ Cardinality(Deleters(o)) = 1
    /\ life[o] = "live" /\ Deleters(o) = {} =>
         ref[o] = Cardinality(References(o)) /\ ref[o] > 0
=============================================================================

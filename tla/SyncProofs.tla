------------------------------ MODULE SyncProofs ------------------------------
(***************************************************************************)
(* The safety of four components of MCSync, for any threads, objects,      *)
(* recorders, labels, handlers and requests: Notification (proved in its   *)
(* own module), RefCounted, Monitoring and FilterChain. Each has an        *)
(* inductive invariant of its own; OneComponentSteps carries the four      *)
(* proofs over to the specification that the run checks.                   *)
(*                                                                         *)
(* tlapm takes an operator of FiniteSets seen through an instance for an   *)
(* operator of its own, hence SameCounting.                                *)
(***************************************************************************)
EXTENDS MCSync, FiniteSetTheorems, SequenceTheorems, TLAPS

(* An instance has its own copy of the operators of FiniteSets; the copies *)
(* are the operators the library's theorems are about.                     *)
LEMMA SameCounting ==
  /\ \A S : RC!Cardinality(S) = Cardinality(S)
  /\ \A S : MO!Cardinality(S) = Cardinality(S)
  /\ \A S : PF!Cardinality(S) = Cardinality(S)
  /\ \A S : RC!IsFiniteSet(S) <=> IsFiniteSet(S)
  /\ \A S : PF!IsFiniteSet(S) <=> IsFiniteSet(S)
<1>1. \A S : RC!Cardinality(S) = Cardinality(S)
  BY DEF RC!Cardinality, Cardinality
<1>2. \A S : MO!Cardinality(S) = Cardinality(S)
  BY DEF MO!Cardinality, Cardinality
<1>3. \A S : RC!IsFiniteSet(S) <=> IsFiniteSet(S)
  BY DEF RC!IsFiniteSet, IsFiniteSet
<1>4. \A S : PF!Cardinality(S) = Cardinality(S)
  BY DEF PF!Cardinality, Cardinality
<1>5. \A S : PF!IsFiniteSet(S) <=> IsFiniteSet(S)
  BY DEF PF!IsFiniteSet, IsFiniteSet
<1> QED
  BY <1>1, <1>2, <1>3, <1>4, <1>5

-----------------------------------------------------------------------------
(* The types of the reference counts, without a bound on them. *)
RefTypeOK ==
  /\ ref \in [Objects -> Int]
  /\ life \in [Objects -> {"unborn", "live", "deleted"}]
  /\ ptr \in [Owners -> [Pointers -> Objects \cup {Null}]]
  /\ unref \in [Owners -> [at : {"load", "sub", "delete"}, obj : Objects] \cup {RC!Idle}]

(* DeletedWithTheLast is inductive by itself: it already counts the        *)
(* references that are still being dropped.                                *)
RefInv == RefTypeOK /\ RC!DeletedWithTheLast

(* One element in the place of another leaves the size of a set as it is. *)
LEMMA Exchanged ==
  ASSUME NEW S, IsFiniteSet(S), NEW x \in S, NEW y, y \notin S
  PROVE  Cardinality((S \ {x}) \cup {y}) = Cardinality(S)
<1>1. IsFiniteSet(S \ {x}) /\ Cardinality(S \ {x}) = Cardinality(S) - 1
  BY FS_RemoveElement
<1>2. Cardinality((S \ {x}) \cup {y}) = Cardinality(S) - 1 + 1
  BY <1>1, FS_AddElement
<1> QED
  BY <1>2, FS_CardinalityType

(* The references to an object can be counted: they are variables and      *)
(* pending Unrefs, at most one of each per thread.                         *)
LEMMA ReferencesFinite ==
  ASSUME RC!RefCountedAssumption, NEW o
  PROVE  /\ IsFiniteSet(RC!References(o))
         /\ Cardinality(RC!References(o)) \in Nat
<1> DEFINE All == Owners \X (Pointers \cup {"unref"})
<1>1. IsFiniteSet(Pointers \cup {"unref"})
  BY FS_AddElement, SameCounting DEF RC!RefCountedAssumption
<1>2. IsFiniteSet(All)
  BY <1>1, FS_Product, SameCounting DEF RC!RefCountedAssumption
<1>3. RC!References(o) \in SUBSET All
  BY DEF RC!References
<1> QED
  BY <1>2, <1>3, FS_Subset, FS_CardinalityType

(* DeletedWithTheLast for one object. *)
ObjectOK(o) ==
  /\ RC!References(o) # {} => life[o] = "live"
  /\ RC!Deleters(o) # {} => /\ life[o] = "live"
                         /\ RC!References(o) = {}
                         /\ Cardinality(RC!Deleters(o)) = 1
  /\ life[o] = "live" /\ RC!Deleters(o) = {} =>
       ref[o] = Cardinality(RC!References(o)) /\ ref[o] > 0

(* DeletedWithTheLast is a statement about each object by itself, so a     *)
(* step need only be looked at where it touches one.                       *)
LEMMA ObjectByObject == RC!DeletedWithTheLast <=> \A o \in Objects : ObjectOK(o)
BY SameCounting DEF RC!DeletedWithTheLast, ObjectOK

(* A step that leaves an object, its references and its deleters alone. *)
LEMMA Kept ==
  ASSUME NEW o, ObjectOK(o), life'[o] = life[o], ref'[o] = ref[o],
         RC!References(o)' = RC!References(o), RC!Deleters(o)' = RC!Deleters(o)
  PROVE  ObjectOK(o)'
BY DEF ObjectOK

(* ref_.fetch_add (ref_counted.h:18-21): one more reference to an object   *)
(* that has one, and one more counted.                                     *)
LEMMA Gained ==
  ASSUME RC!RefCountedAssumption, NEW o \in Objects, ObjectOK(o), ref[o] \in Int,
         RC!References(o) # {}, NEW x, x \notin RC!References(o),
         life'[o] = life[o], ref'[o] = ref[o] + 1,
         RC!References(o)' = RC!References(o) \cup {x}, RC!Deleters(o)' = RC!Deleters(o)
  PROVE  ObjectOK(o)'
<1>1. IsFiniteSet(RC!References(o)) /\ Cardinality(RC!References(o)) \in Nat
  BY ReferencesFinite
<1>2. Cardinality(RC!References(o)') = Cardinality(RC!References(o)) + 1
  BY <1>1, FS_AddElement
<1> QED
  BY <1>1, <1>2 DEF ObjectOK

(* A reference changes its place, as when a variable's pointer goes to the *)
(* Unref that drops it, and the count stays (ref_counted.h:68-72).         *)
LEMMA Moved ==
  ASSUME RC!RefCountedAssumption, NEW o \in Objects, ObjectOK(o),
         NEW x \in RC!References(o), NEW y, y \notin RC!References(o),
         life'[o] = life[o], ref'[o] = ref[o],
         RC!References(o)' = (RC!References(o) \ {x}) \cup {y}, RC!Deleters(o)' = RC!Deleters(o)
  PROVE  ObjectOK(o)'
<1>1. Cardinality(RC!References(o)') = Cardinality(RC!References(o))
  BY ReferencesFinite, Exchanged
<1> QED
  BY <1>1 DEF ObjectOK

(* At first there are no objects and no references. *)
LEMMA RefInitially == ASSUME RC!RefCountedAssumption PROVE RC!Init => RefInv
<1> SUFFICES ASSUME RC!Init PROVE RefInv
  OBVIOUS
<1>1. RefTypeOK
  BY DEF RC!Init, RefTypeOK
<1>2. ASSUME NEW o \in Objects PROVE ObjectOK(o)
  BY DEF RC!Init, ObjectOK, RC!References, RC!Deleters, RC!Idle, RC!RefCountedAssumption
<1> QED
  BY <1>1, <1>2, ObjectByObject DEF RefInv

(* Every operation of scoped_refptr keeps the types. *)
LEMMA RefTypePreserved ==
  ASSUME RC!RefCountedAssumption, RefTypeOK, [RC!Next]_RC!refVars
  PROVE  RefTypeOK'
<1> USE DEF RefTypeOK, RC!Ref, RC!BeginUnref, RC!Idle
<1>1. ASSUME NEW t \in Owners, NEW p \in Pointers, NEW o \in Objects, RC!Create(t, p, o)
      PROVE  RefTypeOK'
  BY <1>1 DEF RC!Create
<1>2. ASSUME NEW t \in Owners, NEW p \in Pointers, NEW q \in Pointers, RC!CopyConstruct(t, p, q)
      PROVE  RefTypeOK'
  BY <1>2 DEF RC!CopyConstruct
<1>3. ASSUME NEW t \in Owners, NEW u \in Owners, NEW p \in Pointers, NEW q \in Pointers,
             RC!MoveConstruct(t, q, u, p)
      PROVE  RefTypeOK'
  <2> DEFINE Rows == [Owners -> [Pointers -> Objects \cup {Null}]]
  <2>1. ptr[t][q] \in Objects \cup {Null}
    OBVIOUS
  <2>2. CASE t = u
    <3>1. ptr' = [ptr EXCEPT ![t] = [@ EXCEPT ![p] = ptr[t][q], ![q] = Null]]
      BY <1>3, <2>2 DEF RC!MoveConstruct
    <3>2. [ptr[t] EXCEPT ![p] = ptr[t][q], ![q] = Null] \in [Pointers -> Objects \cup {Null}]
      BY <2>1
    <3> QED
      BY <1>3, <3>1, <3>2 DEF RC!MoveConstruct
  <2>3. CASE t # u
    <3> DEFINE mid == [ptr EXCEPT ![u] = [@ EXCEPT ![p] = ptr[t][q]]]
    <3>1. mid \in Rows
      BY <2>1
    <3>2. ptr' = [mid EXCEPT ![t] = [@ EXCEPT ![q] = Null]]
      BY <1>3, <2>3 DEF RC!MoveConstruct
    <3> HIDE DEF mid
    <3>3. ptr' \in Rows
      BY <3>1, <3>2
    <3> QED
      BY <1>3, <3>3 DEF RC!MoveConstruct
  <2> QED
    BY <2>2, <2>3
<1>4. ASSUME NEW t \in Owners, NEW p \in Pointers, RC!Destruct(t, p) PROVE RefTypeOK'
  BY <1>4 DEF RC!Destruct
<1>5. ASSUME NEW t \in Owners, NEW p \in Pointers, NEW o \in Objects \cup {Null},
             RC!Assign(t, p, o)
      PROVE  RefTypeOK'
  BY <1>5 DEF RC!Assign
<1>6. ASSUME NEW t \in Owners, NEW p \in Pointers, NEW q \in Pointers, RC!MoveAssign(t, p, q)
      PROVE  RefTypeOK'
  BY <1>6 DEF RC!MoveAssign
<1>7. ASSUME NEW t \in Owners, NEW p \in Pointers, NEW q \in Pointers, RC!Swap(t, p, q)
      PROVE  RefTypeOK'
  BY <1>7 DEF RC!Swap
<1>8. ASSUME NEW t \in Owners, RC!LoadCount(t) PROVE RefTypeOK'
  BY <1>8 DEF RC!LoadCount
<1>9. ASSUME NEW t \in Owners, RC!FetchSub(t) PROVE RefTypeOK'
  BY <1>9 DEF RC!FetchSub
<1>10. ASSUME NEW t \in Owners, RC!Delete(t) PROVE RefTypeOK'
  BY <1>10 DEF RC!Delete
<1>11. CASE UNCHANGED RC!refVars
  BY <1>11 DEF RC!refVars
<1> QED
  BY <1>1, <1>2, <1>3, <1>4, <1>5, <1>6, <1>7, <1>8, <1>9, <1>10, <1>11 DEF RC!Next

(* `new T' starts with a count of one, for the variable that takes it over *)
(* (ref_counted.h:15-16).                                                  *)
LEMMA CreateKeeps ==
  ASSUME RC!RefCountedAssumption, RefInv, NEW t \in Owners, NEW p \in Pointers,
         NEW o1 \in Objects, RC!Create(t, p, o1), NEW o \in Objects
  PROVE  ObjectOK(o)'
<1> USE DEF RefTypeOK
<1>0. ObjectOK(o) /\ RefTypeOK
  BY ObjectByObject DEF RefInv
<1>1. RC!Deleters(o)' = RC!Deleters(o)
  BY DEF RC!Create, RC!Deleters
<1>2. CASE o = o1
  <2>1. RC!References(o) = {} /\ RC!Deleters(o) = {}
    BY <1>0, <1>2 DEF RC!Create, ObjectOK
  <2>2. RC!References(o)' = RC!References(o) \cup {<<t, p>>}
    BY <1>0, <1>2 DEF RC!Create, RC!References, RC!RefCountedAssumption
  <2>3. Cardinality(RC!References(o)') = 1
    BY <2>1, <2>2, FS_Singleton
  <2> QED
    BY <1>0, <1>1, <1>2, <2>1, <2>2, <2>3 DEF RC!Create, ObjectOK
<1>3. CASE o # o1
  <2>1. RC!References(o)' = RC!References(o)
    BY <1>0, <1>3 DEF RC!Create, RC!References, RC!RefCountedAssumption
  <2> QED
    BY <1>0, <1>1, <1>3, <2>1, Kept DEF RC!Create
<1> QED
  BY <1>2, <1>3

(* A copy is one more reference to an object the thread holds already. *)
LEMMA CopyConstructKeeps ==
  ASSUME RC!RefCountedAssumption, RefInv, NEW t \in Owners, NEW p \in Pointers,
         NEW q \in Pointers, RC!CopyConstruct(t, p, q), NEW o \in Objects
  PROVE  ObjectOK(o)'
<1> USE DEF RefTypeOK
<1>0. ObjectOK(o) /\ RefTypeOK
  BY ObjectByObject DEF RefInv
<1>1. RC!Deleters(o)' = RC!Deleters(o)
  BY DEF RC!CopyConstruct, RC!Deleters
<1>2. CASE o = ptr[t][q]
  <2>1. <<t, q>> \in RC!References(o)
    BY <1>2 DEF RC!References
  <2>2. <<t, p>> \notin RC!References(o)
    BY <1>2 DEF RC!References, RC!CopyConstruct, RC!RefCountedAssumption
  <2>3. RC!References(o)' = RC!References(o) \cup {<<t, p>>}
    BY <1>0, <1>2 DEF RC!CopyConstruct, RC!References, RC!RefCountedAssumption
  <2>4. ref'[o] = ref[o] + 1 /\ life'[o] = life[o]
    BY <1>0, <1>2 DEF RC!CopyConstruct, RC!Ref
  <2> QED
    BY <1>0, <1>1, <2>1, <2>2, <2>3, <2>4, Gained
<1>3. CASE o # ptr[t][q]
  <2>1. RC!References(o)' = RC!References(o)
    BY <1>0, <1>3 DEF RC!CopyConstruct, RC!References, RC!RefCountedAssumption
  <2> QED
    BY <1>0, <1>1, <1>3, <2>1, Kept DEF RC!CopyConstruct, RC!Ref
<1> QED
  BY <1>2, <1>3

(* A move, also into another thread's closure, takes one variable out and  *)
(* puts one in.                                                            *)
LEMMA MoveConstructKeeps ==
  ASSUME RC!RefCountedAssumption, RefInv, NEW t \in Owners, NEW u \in Owners,
         NEW p \in Pointers, NEW q \in Pointers, RC!MoveConstruct(t, q, u, p), NEW o \in Objects
  PROVE  ObjectOK(o)'
<1> USE DEF RefTypeOK
<1>0. ObjectOK(o) /\ RefTypeOK
  BY ObjectByObject DEF RefInv
<1>1. /\ RC!Deleters(o)' = RC!Deleters(o)
      /\ life'[o] = life[o]
      /\ ref'[o] = ref[o]
  BY DEF RC!MoveConstruct, RC!Deleters
<1>2. \A s \in Owners, v \in Pointers :
        ptr'[s][v] = IF s = u /\ v = p THEN ptr[t][q]
                     ELSE IF s = t /\ v = q THEN Null ELSE ptr[s][v]
  <2>1. CASE t = u
    BY <1>0, <2>1 DEF RC!MoveConstruct
  <2>2. CASE t # u
    <3>1. ptr' = [ptr EXCEPT ![u][p] = ptr[t][q], ![t][q] = Null]
      BY <2>2 DEF RC!MoveConstruct
    <3> QED
      BY <1>0, <2>2, <3>1
  <2> QED
    BY <2>1, <2>2
<1>3. unref' = unref /\ ptr[u][p] = Null /\ <<t, q>> # <<u, p>>
  BY DEF RC!MoveConstruct
<1>4. CASE o = ptr[t][q]
  <2>1. <<t, q>> \in RC!References(o)
    BY <1>4 DEF RC!References
  <2>2. <<u, p>> \notin RC!References(o)
    BY <1>3 DEF RC!References, RC!RefCountedAssumption
  <2>3. RC!References(o)' = (RC!References(o) \ {<<t, q>>}) \cup {<<u, p>>}
    BY <1>0, <1>2, <1>3, <1>4 DEF RC!References, RC!RefCountedAssumption
  <2> QED
    BY <1>0, <1>1, <2>1, <2>2, <2>3, Moved
<1>5. CASE o # ptr[t][q]
  <2>1. RC!References(o)' = RC!References(o)
    BY <1>0, <1>2, <1>3, <1>5 DEF RC!References, RC!RefCountedAssumption
  <2> QED
    BY <1>0, <1>1, <2>1, Kept
<1> QED
  BY <1>4, <1>5

(* A destructed variable is replaced by the Unref it starts. *)
LEMMA DestructKeeps ==
  ASSUME RC!RefCountedAssumption, RefInv, NEW t \in Owners, NEW p \in Pointers,
         RC!Destruct(t, p), NEW o \in Objects
  PROVE  ObjectOK(o)'
<1> USE DEF RefTypeOK
<1>0. ObjectOK(o) /\ RefTypeOK
  BY ObjectByObject DEF RefInv
<1>1. unref[t] = RC!Idle /\ ptr[t][p] \in Objects
      /\ ptr' = [ptr EXCEPT ![t] = [@ EXCEPT ![p] = Null]]
      /\ unref' = [unref EXCEPT ![t] = [at |-> "load", obj |-> ptr[t][p]]]
  BY <1>0 DEF RC!Destruct, RC!BeginUnref
<1>2. /\ RC!Deleters(o)' = RC!Deleters(o)
      /\ life'[o] = life[o]
      /\ ref'[o] = ref[o]
  BY <1>0, <1>1 DEF RC!Destruct, RC!Deleters, RC!Idle
<1>3. CASE o = ptr[t][p]
  <2>1. <<t, p>> \in RC!References(o)
    BY <1>3 DEF RC!References
  <2>2. <<t, "unref">> \notin RC!References(o)
    BY <1>1 DEF RC!References, RC!RefCountedAssumption, RC!Idle
  <2>3. RC!References(o)' = (RC!References(o) \ {<<t, p>>}) \cup {<<t, "unref">>}
    BY <1>0, <1>1, <1>3 DEF RC!References, RC!RefCountedAssumption, RC!Idle
  <2> QED
    BY <1>0, <1>2, <2>1, <2>2, <2>3, Moved
<1>4. CASE o # ptr[t][p]
  <2>1. RC!References(o)' = RC!References(o)
    BY <1>0, <1>1, <1>4 DEF RC!References, RC!RefCountedAssumption, RC!Idle
  <2> QED
    BY <1>0, <1>2, <2>1, Kept
<1> QED
  BY <1>3, <1>4

(* Assignment Refs the new object before it Unrefs the old one, also when  *)
(* the two are the same.                                                   *)
LEMMA AssignKeeps ==
  ASSUME RC!RefCountedAssumption, RefInv, NEW t \in Owners, NEW p \in Pointers,
         NEW new \in Objects \cup {Null}, RC!Assign(t, p, new), NEW o \in Objects
  PROVE  ObjectOK(o)'
<1> USE DEF RefTypeOK
<1> DEFINE old == ptr[t][p]
<1>0. ObjectOK(o) /\ RefTypeOK
  BY ObjectByObject DEF RefInv
<1>1. unref[t] = RC!Idle /\ ptr' = [ptr EXCEPT ![t] = [@ EXCEPT ![p] = new]]
      /\ unref' = IF old = Null THEN unref
                  ELSE [unref EXCEPT ![t] = [at |-> "load", obj |-> old]]
  BY <1>0 DEF RC!Assign, RC!BeginUnref
<1>2. RC!Deleters(o)' = RC!Deleters(o) /\ life'[o] = life[o]
  BY <1>0, <1>1 DEF RC!Assign, RC!Deleters, RC!Idle
<1>3. ref'[o] = IF o = new THEN ref[o] + 1 ELSE ref[o]
  BY <1>0 DEF RC!Assign, RC!Ref, RC!RefCountedAssumption
<1>4. ASSUME o = new PROVE RC!References(o) # {}
  <2>1. PICK q \in Pointers : ptr[t][q] = o
    BY <1>4 DEF RC!Assign, RC!RefCountedAssumption
  <2>2. <<t, q>> \in RC!References(o)
    BY <2>1 DEF RC!References
  <2> QED
    BY <2>2
<1>5. <<t, "unref">> \notin RC!References(o)
  BY <1>1 DEF RC!References, RC!RefCountedAssumption, RC!Idle
<1>6. <<t, p>> \in RC!References(o) <=> o = old
  BY DEF RC!References, RC!RefCountedAssumption
<1>7. CASE o = new /\ o = old
  <2>1. RC!References(o)' = RC!References(o) \cup {<<t, "unref">>}
    BY <1>0, <1>1, <1>7 DEF RC!References, RC!RefCountedAssumption, RC!Idle
  <2> QED
    BY <1>0, <1>2, <1>3, <1>4, <1>5, <1>7, <2>1, Gained
<1>8. CASE o = new /\ o # old
  <2>1. RC!References(o)' = RC!References(o) \cup {<<t, p>>}
    BY <1>0, <1>1, <1>8 DEF RC!References, RC!RefCountedAssumption, RC!Idle
  <2> QED
    BY <1>0, <1>2, <1>3, <1>4, <1>6, <1>8, <2>1, Gained
<1>9. CASE o # new /\ o = old
  <2>1. RC!References(o)' = (RC!References(o) \ {<<t, p>>}) \cup {<<t, "unref">>}
    BY <1>0, <1>1, <1>9 DEF RC!References, RC!RefCountedAssumption, RC!Idle
  <2> QED
    BY <1>0, <1>2, <1>3, <1>5, <1>6, <1>9, <2>1, Moved
<1>10. CASE o # new /\ o # old
  <2>1. RC!References(o)' = RC!References(o)
    BY <1>0, <1>1, <1>10 DEF RC!References, RC!RefCountedAssumption, RC!Idle
  <2> QED
    BY <1>0, <1>2, <1>3, <1>10, <2>1, Kept
<1> QED
  BY <1>7, <1>8, <1>9, <1>10

(* Move assignment drops the old object and moves the new one. *)
LEMMA MoveAssignKeeps ==
  ASSUME RC!RefCountedAssumption, RefInv, NEW t \in Owners, NEW p \in Pointers,
         NEW q \in Pointers, RC!MoveAssign(t, p, q), NEW o \in Objects
  PROVE  ObjectOK(o)'
<1> USE DEF RefTypeOK
<1> DEFINE old == ptr[t][p]
           new == ptr[t][q]
<1>0. ObjectOK(o) /\ RefTypeOK
  BY ObjectByObject DEF RefInv
<1>1. unref[t] = RC!Idle /\ p # q
      /\ ptr' = [ptr EXCEPT ![t] = [@ EXCEPT ![p] = new, ![q] = Null]]
      /\ unref' = IF old = Null THEN unref
                  ELSE [unref EXCEPT ![t] = [at |-> "load", obj |-> old]]
  BY <1>0 DEF RC!MoveAssign, RC!BeginUnref
<1>2. /\ RC!Deleters(o)' = RC!Deleters(o)
      /\ life'[o] = life[o]
      /\ ref'[o] = ref[o]
  BY <1>0, <1>1 DEF RC!MoveAssign, RC!Deleters, RC!Idle
<1>3. <<t, "unref">> \notin RC!References(o)
  BY <1>1 DEF RC!References, RC!RefCountedAssumption, RC!Idle
<1>4. /\ <<t, p>> \in RC!References(o) <=> o = old
      /\ <<t, q>> \in RC!References(o) <=> o = new
  BY DEF RC!References, RC!RefCountedAssumption
<1>5. CASE o = new /\ o = old
  <2>1. RC!References(o)' = (RC!References(o) \ {<<t, q>>}) \cup {<<t, "unref">>}
    BY <1>0, <1>1, <1>5 DEF RC!References, RC!RefCountedAssumption, RC!Idle
  <2> QED
    BY <1>0, <1>2, <1>3, <1>4, <1>5, <2>1, Moved
<1>6. CASE o = new /\ o # old
  <2>1. RC!References(o)' = (RC!References(o) \ {<<t, q>>}) \cup {<<t, p>>}
    BY <1>0, <1>1, <1>6 DEF RC!References, RC!RefCountedAssumption, RC!Idle
  <2> QED
    BY <1>0, <1>2, <1>4, <1>6, <2>1, Moved
<1>7. CASE o # new /\ o = old
  <2>1. RC!References(o)' = (RC!References(o) \ {<<t, p>>}) \cup {<<t, "unref">>}
    BY <1>0, <1>1, <1>7 DEF RC!References, RC!RefCountedAssumption, RC!Idle
  <2> QED
    BY <1>0, <1>2, <1>3, <1>4, <1>7, <2>1, Moved
<1>8. CASE o # new /\ o # old
  <2>1. RC!References(o)' = RC!References(o)
    BY <1>0, <1>1, <1>8 DEF RC!References, RC!RefCountedAssumption, RC!Idle
  <2> QED
    BY <1>0, <1>2, <2>1, Kept
<1> QED
  BY <1>5, <1>6, <1>7, <1>8

(* swap exchanges two variables of a thread. *)
LEMMA SwapKeeps ==
  ASSUME RC!RefCountedAssumption, RefInv, NEW t \in Owners, NEW p \in Pointers,
         NEW q \in Pointers, RC!Swap(t, p, q), NEW o \in Objects
  PROVE  ObjectOK(o)'
<1> USE DEF RefTypeOK
<1> DEFINE old == ptr[t][p]
           new == ptr[t][q]
<1>0. ObjectOK(o) /\ RefTypeOK
  BY ObjectByObject DEF RefInv
<1>1. unref' = unref /\ p # q
      /\ ptr' = [ptr EXCEPT ![t] = [@ EXCEPT ![p] = new, ![q] = old]]
  BY <1>0 DEF RC!Swap
<1>2. /\ RC!Deleters(o)' = RC!Deleters(o)
      /\ life'[o] = life[o]
      /\ ref'[o] = ref[o]
  BY DEF RC!Swap, RC!Deleters
<1>3. /\ <<t, p>> \in RC!References(o) <=> o = old
      /\ <<t, q>> \in RC!References(o) <=> o = new
  BY DEF RC!References, RC!RefCountedAssumption
<1>4. CASE o = new /\ o # old
  <2>1. RC!References(o)' = (RC!References(o) \ {<<t, q>>}) \cup {<<t, p>>}
    BY <1>0, <1>1, <1>4 DEF RC!References, RC!RefCountedAssumption
  <2> QED
    BY <1>0, <1>2, <1>3, <1>4, <2>1, Moved
<1>5. CASE o # new /\ o = old
  <2>1. RC!References(o)' = (RC!References(o) \ {<<t, p>>}) \cup {<<t, q>>}
    BY <1>0, <1>1, <1>5 DEF RC!References, RC!RefCountedAssumption
  <2> QED
    BY <1>0, <1>2, <1>3, <1>5, <2>1, Moved
<1>6. CASE o = new <=> o = old
  <2>1. RC!References(o)' = RC!References(o)
    BY <1>0, <1>1, <1>6 DEF RC!References, RC!RefCountedAssumption
  <2> QED
    BY <1>0, <1>2, <2>1, Kept
<1> QED
  BY <1>4, <1>5, <1>6

(* When ref_.load() is one, no other reference is left, so nobody else can *)
(* begin or finish an Unref of the object: the thread may delete it        *)
(* (ref_counted.h:23-25).                                                  *)
LEMMA LoadCountKeeps ==
  ASSUME RC!RefCountedAssumption, RefInv, NEW t \in Owners, RC!LoadCount(t), NEW o \in Objects
  PROVE  ObjectOK(o)'
<1> USE DEF RefTypeOK
<1> DEFINE mine == unref[t].obj
<1>0. ObjectOK(o) /\ RefTypeOK
  BY ObjectByObject DEF RefInv
<1>1. /\ mine \in Objects /\ unref[t].at = "load"
      /\ unref' = [unref EXCEPT ![t] = [at |-> IF ref[mine] = 1 THEN "delete" ELSE "sub",
                                        obj |-> mine]]
      /\ UNCHANGED <<ref, life, ptr>>
  <2>1. unref[t] # RC!Idle /\ unref[t] = [at |-> unref[t].at, obj |-> mine] /\ mine \in Objects
    BY <1>0 DEF RC!LoadCount, RC!Idle
  <2>2. ASSUME NEW a PROVE [unref[t] EXCEPT !.at = a] = [at |-> a, obj |-> mine]
    BY <2>1
  <2>3. unref' = [unref EXCEPT ![t] = [at |-> IF ref[mine] = 1 THEN "delete" ELSE "sub",
                                         obj |-> mine]]
    BY <2>2 DEF RC!LoadCount
  <2> QED
    BY <2>1, <2>3 DEF RC!LoadCount
<1>2. CASE o = mine /\ ref[o] = 1
  <2>1. <<t, "unref">> \in RC!References(o)
    BY <1>1, <1>2 DEF RC!References
  <2>2. life[o] = "live" /\ RC!Deleters(o) = {} /\ Cardinality(RC!References(o)) = 1
    BY <1>0, <1>2, <2>1 DEF ObjectOK
  <2>3. RC!References(o) = {<<t, "unref">>}
    BY <2>1, <2>2, ReferencesFinite, FS_Singleton
  <2>4. RC!Deleters(o)' = {t}
    BY <1>0, <1>1, <1>2, <2>2 DEF RC!Deleters
  <2>5. RC!References(o)' = RC!References(o) \ {<<t, "unref">>}
    BY <1>0, <1>1, <1>2 DEF RC!References, RC!RefCountedAssumption
  <2> QED
    BY <1>1, <2>2, <2>3, <2>4, <2>5, FS_Singleton DEF ObjectOK
<1>3. CASE ~(o = mine /\ ref[o] = 1)
  <2>1. RC!References(o)' = RC!References(o)
    BY <1>0, <1>1, <1>3 DEF RC!References, RC!RefCountedAssumption
  <2>2. RC!Deleters(o)' = RC!Deleters(o)
    BY <1>0, <1>1, <1>3 DEF RC!Deleters
  <2> QED
    BY <1>0, <1>1, <2>1, <2>2, Kept
<1> QED
  BY <1>2, <1>3

(* Of the threads that all read a count above one, exactly the one whose   *)
(* fetch_sub returns one goes on to delete (ref_counted.h:26-32).          *)
LEMMA FetchSubKeeps ==
  ASSUME RC!RefCountedAssumption, RefInv, NEW t \in Owners, RC!FetchSub(t), NEW o \in Objects
  PROVE  ObjectOK(o)'
<1> USE DEF RefTypeOK
<1> DEFINE mine == unref[t].obj
<1>0. ObjectOK(o) /\ RefTypeOK
  BY ObjectByObject DEF RefInv
<1>1. /\ mine \in Objects /\ unref[t].at = "sub"
      /\ ref' = [ref EXCEPT ![mine] = @ - 1]
      /\ unref' = [unref EXCEPT ![t] = IF ref[mine] = 1 THEN [at |-> "delete", obj |-> mine]
                                       ELSE RC!Idle]
      /\ UNCHANGED <<life, ptr>>
  <2>1. unref[t] # RC!Idle /\ unref[t] = [at |-> unref[t].at, obj |-> mine] /\ mine \in Objects
    BY <1>0 DEF RC!FetchSub, RC!Idle
  <2>2. ASSUME NEW a PROVE [unref[t] EXCEPT !.at = a] = [at |-> a, obj |-> mine]
    BY <2>1
  <2>3. unref' = [unref EXCEPT ![t] = IF ref[mine] = 1 THEN [at |-> "delete", obj |-> mine]
                                        ELSE RC!Idle]
    BY <2>2 DEF RC!FetchSub
  <2> QED
    BY <2>1, <2>3 DEF RC!FetchSub
<1>2. CASE o = mine
  <2>1. <<t, "unref">> \in RC!References(o)
    BY <1>1, <1>2 DEF RC!References
  <2>2. /\ life[o] = "live" /\ RC!Deleters(o) = {}
        /\ Cardinality(RC!References(o)) = ref[o] /\ ref[o] > 0
    BY <1>0, <2>1 DEF ObjectOK
  <2>3. RC!References(o)' = RC!References(o) \ {<<t, "unref">>}
    BY <1>0, <1>1, <1>2 DEF RC!References, RC!RefCountedAssumption, RC!Idle
  <2>4. Cardinality(RC!References(o)') = ref[o] - 1
    BY <2>1, <2>2, <2>3, ReferencesFinite, FS_RemoveElement
  <2>5. ref'[o] = ref[o] - 1 /\ life'[o] = "live"
    BY <1>0, <1>1, <1>2, <2>2
  <2>6. CASE ref[o] = 1
    <3>1. RC!Deleters(o)' = {t}
      BY <1>0, <1>1, <1>2, <2>2, <2>6 DEF RC!Deleters
    <3>2. RC!References(o) = {<<t, "unref">>}
      BY <2>1, <2>2, <2>6, ReferencesFinite, FS_Singleton
    <3> QED
      BY <2>3, <2>5, <3>1, <3>2, FS_Singleton DEF ObjectOK
  <2>7. CASE ref[o] # 1
    <3>1. RC!Deleters(o)' = {}
      BY <1>0, <1>1, <1>2, <2>2, <2>7 DEF RC!Deleters, RC!Idle
    <3>2. ref[o] - 1 > 0
      BY <1>0, <2>2, <2>7
    <3> QED
      BY <2>4, <2>5, <3>1, <3>2 DEF ObjectOK
  <2> QED
    BY <2>6, <2>7
<1>3. CASE o # mine
  <2>1. RC!References(o)' = RC!References(o)
    BY <1>0, <1>1, <1>3 DEF RC!References, RC!RefCountedAssumption, RC!Idle
  <2>2. RC!Deleters(o)' = RC!Deleters(o)
    BY <1>0, <1>1, <1>3 DEF RC!Deleters, RC!Idle
  <2>3. ref'[o] = ref[o]
    BY <1>0, <1>1, <1>3
  <2> QED
    BY <1>0, <1>1, <2>1, <2>2, <2>3, Kept
<1> QED
  BY <1>2, <1>3

(* The object is deleted by the one thread that was to, with no reference  *)
(* left (ref_counted.h:68-79).                                             *)
LEMMA DeleteKeeps ==
  ASSUME RC!RefCountedAssumption, RefInv, NEW t \in Owners, RC!Delete(t), NEW o \in Objects
  PROVE  ObjectOK(o)'
<1> USE DEF RefTypeOK
<1> DEFINE mine == unref[t].obj
<1>0. ObjectOK(o) /\ RefTypeOK
  BY ObjectByObject DEF RefInv
<1>1. /\ mine \in Objects /\ unref[t].at = "delete"
      /\ life' = [life EXCEPT ![mine] = "deleted"]
      /\ unref' = [unref EXCEPT ![t] = RC!Idle]
      /\ UNCHANGED <<ref, ptr>>
  BY <1>0 DEF RC!Delete, RC!Idle
<1>2. RC!References(o)' = RC!References(o)
  BY <1>0, <1>1 DEF RC!References, RC!RefCountedAssumption, RC!Idle
<1>3. CASE o = mine
  <2>1. t \in RC!Deleters(o)
    BY <1>1, <1>3 DEF RC!Deleters
  <2>2. IsFiniteSet(RC!Deleters(o))
    BY FS_Subset, SameCounting DEF RC!Deleters, RC!RefCountedAssumption
  <2>3. RC!References(o) = {} /\ RC!Deleters(o) = {t}
    BY <1>0, <2>1, <2>2, FS_Singleton DEF ObjectOK
  <2>4. RC!Deleters(o)' = {}
    BY <1>0, <1>1, <1>3, <2>3 DEF RC!Deleters, RC!Idle
  <2>5. life'[o] = "deleted"
    BY <1>0, <1>1, <1>3
  <2> QED
    BY <1>2, <2>3, <2>4, <2>5 DEF ObjectOK
<1>4. CASE o # mine
  <2>1. RC!Deleters(o)' = RC!Deleters(o)
    BY <1>0, <1>1, <1>4 DEF RC!Deleters, RC!Idle
  <2>2. life'[o] = life[o]
    BY <1>0, <1>1, <1>4
  <2> QED
    BY <1>0, <1>1, <1>2, <2>1, <2>2, Kept
<1> QED
  BY <1>3, <1>4

(* Every step of RefCounted keeps the invariant. *)
LEMMA RefPreserved ==
  ASSUME RC!RefCountedAssumption, RefInv, [RC!Next]_RC!refVars
  PROVE  RefInv'
<1>1. RefTypeOK'
  BY RefTypePreserved DEF RefInv
<1>2. ASSUME NEW o \in Objects PROVE ObjectOK(o)'
  <2>1. ObjectOK(o)
    BY ObjectByObject DEF RefInv
  <2>2. CASE UNCHANGED RC!refVars
    BY <2>1, <2>2 DEF RC!refVars, ObjectOK, RC!References, RC!Deleters
  <2> QED
    BY <2>2, CreateKeeps, CopyConstructKeeps, MoveConstructKeeps, DestructKeeps, AssignKeeps,
       MoveAssignKeeps, SwapKeeps, LoadCountKeeps, FetchSubKeeps, DeleteKeeps DEF RC!Next
<1>3. RC!DeletedWithTheLast'
  BY <1>2, SameCounting DEF RC!DeletedWithTheLast, ObjectOK
<1> QED
  BY <1>1, <1>3 DEF RefInv

-----------------------------------------------------------------------------
(* A recorder has added to the sum for labels l and not yet to the count. *)
Counting(l) == \E r \in Recorders : event[r].at = "count" /\ event[r].labels = l

(* The events by which the sum for l is ahead of the count. *)
HalfAdded(l) == IF Counting(l) THEN 1 ELSE 0

(* In the map f, the sum for l is that of k events. *)
SumOf(f, k, l) == k \in Nat /\ MO!Get(f, l) = Amount * k

(* Types, and that whoever records an event holds the metric's mutex_. *)
MetricTypeOK ==
  /\ event \in [Recorders -> [at : {"total", "count"}, labels : Labels] \cup {MO!NoEvent}]
  /\ \A r \in Recorders : event[r] # MO!NoEvent => mutex = {r}
  /\ DOMAIN values = MO!Metrics /\ values = [m \in MO!Metrics |-> values[m]]
  /\ DOMAIN exported = MO!Metrics /\ exported = [m \in MO!Metrics |-> exported[m]]
  /\ toExport \in MO!Orders \cup {<<>>, <<"overall_sum">>, <<"count">>}

(* What SumAndCountAgree says of the two counters, by multiplication: the  *)
(* sum is that of the events counted and of the one between its additions. *)
Counted ==
  \A l \in Labels :
    /\ MO!Get(values["count"], l) \in Nat
    /\ SumOf(values["overall_sum"], MO!Get(values["count"], l) + HalfAdded(l), l)

(* What the exporter read first is no later than what it is about to read: *)
(* at most one event too many in the sum, never one too many in the count. *)
ExportedBefore ==
  /\ toExport = <<"count">> =>
       \A l \in Labels : \E k \in 0 .. MO!Get(values["count"], l) + 1 :
         SumOf(exported["overall_sum"], k, l)
  /\ toExport = <<"overall_sum">> =>
       \A l \in Labels : MO!Get(exported["count"], l) \in 0 .. MO!Get(values["count"], l)

(* The inductive invariant: SumAndCountAgree itself speaks of quotients    *)
(* and of cardinalities, which no step is described by.                    *)
MetricInv == MetricTypeOK /\ Counted /\ ExportedBefore

(* LabelledValues::IncrementBy adds to one cell and leaves the others      *)
(* (labelled_values.h:110-121).                                            *)
LEMMA Incremented ==
  ASSUME NEW f, NEW l, NEW amount, NEW k
  PROVE  MO!Get(MO!IncrementBy(f, l, amount), k)
           = IF k = l THEN MO!Get(f, l) + amount ELSE MO!Get(f, k)
BY DEF MO!IncrementBy, MO!Get

(* A sum of k events is a multiple of an event, and its quotient is k. *)
LEMMA WholeEvents ==
  ASSUME MO!MonitoringAssumption, NEW k \in Nat
  PROVE  (Amount * k) % Amount = 0 /\ (Amount * k) \div Amount = k
BY DEF MO!MonitoringAssumption

(* Nothing is counted at first. *)
LEMMA MetricInitially == ASSUME MO!MonitoringAssumption PROVE MO!Init => MetricInv
<1> SUFFICES ASSUME MO!Init PROVE MetricInv
  OBVIOUS
<1>1. MetricTypeOK
  BY DEF MO!Init, MetricTypeOK
<1>2. \A m \in MO!Metrics, l \in Labels : MO!Get(values[m], l) = 0
  BY DEF MO!Init, MO!Get
<1>3. \A l \in Labels : HalfAdded(l) = 0
  BY DEF MO!Init, HalfAdded, Counting, MO!NoEvent
<1>4. Amount * 0 = 0
  BY DEF MO!MonitoringAssumption
<1>5. Counted
  BY <1>2, <1>3, <1>4 DEF Counted, SumOf, MO!Metrics
<1>6. ExportedBefore
  BY DEF MO!Init, ExportedBefore
<1> QED
  BY <1>1, <1>5, <1>6 DEF MetricInv

(* A set without two different elements has at most one. *)
LEMMA AtMostOne ==
  ASSUME NEW S, \A x, y \in S : x = y
  PROVE  Cardinality(S) <= 1
<1>1. CASE S = {}
  BY <1>1, FS_EmptySet
<1>2. CASE S # {}
  <2>1. PICK x \in S : S = {x}
    BY <1>2
  <2>2. Cardinality({x}) = 1
    BY FS_Singleton
  <2> QED
    BY <2>1, <2>2
<1> QED
  BY <1>1, <1>2

(* mutex_ is held by one recorder at a time (event_metric.h:56-62). *)
LEMMA OneAtATime ==
  ASSUME MetricTypeOK, NEW r \in Recorders, NEW s \in Recorders,
         event[r] # MO!NoEvent, event[s] # MO!NoEvent
  PROVE  r = s
<1>1. mutex = {r} /\ mutex = {s}
  BY DEF MetricTypeOK
<1> QED
  BY <1>1

(* The inductive invariant says what SumAndCountAgree says. *)
LEMMA MetricAgrees == ASSUME MO!MonitoringAssumption, MetricInv PROVE MO!SumAndCountAgree
<1> USE DEF MetricInv, MetricTypeOK
<1>1. ASSUME NEW l \in Labels PROVE Cardinality(MO!Between(l)) = HalfAdded(l)
  <2>1. CASE Counting(l)
    <3>1. PICK r \in Recorders : event[r].at = "count" /\ event[r].labels = l
      BY <2>1 DEF Counting
    <3>2. MO!Between(l) = {r}
      BY <3>1, OneAtATime DEF MO!Between, MO!NoEvent
    <3> QED
      BY <2>1, <3>2, FS_Singleton DEF HalfAdded
  <2>2. CASE ~Counting(l)
    BY <2>2, FS_EmptySet, ZenonT(30) DEF HalfAdded, Counting, MO!Between
  <2> QED
    BY <2>1, <2>2
<1>2. Cardinality(UNION {MO!Between(l) : l \in Labels}) <= 1
  <2> DEFINE All == UNION {MO!Between(l) : l \in Labels}
  <2>1. \A r, s \in All : r = s
    BY OneAtATime DEF MO!Between, MO!NoEvent
  <2> QED
    BY <2>1, AtMostOne
<1>3. ASSUME NEW l \in Labels
      PROVE  /\ MO!Get(values["overall_sum"], l) % Amount = 0
             /\ MO!EventsIn(values["overall_sum"], l)
                  = MO!Get(values["count"], l) + Cardinality(MO!Between(l))
             /\ MO!Get(values["count"], l) \in Nat
             /\ MO!EventsIn(values["overall_sum"], l) >= MO!Get(values["count"], l)
  <2> DEFINE k == MO!Get(values["count"], l) + HalfAdded(l)
  <2>1. SumOf(values["overall_sum"], k, l) /\ MO!Get(values["count"], l) \in Nat
    BY DEF Counted
  <2>2. HalfAdded(l) \in {0, 1}
    BY DEF HalfAdded
  <2> HIDE DEF k
  <2>3. /\ MO!Get(values["overall_sum"], l) % Amount = 0
        /\ MO!EventsIn(values["overall_sum"], l) = k
    BY <2>1, WholeEvents DEF SumOf, MO!EventsIn
  <2> QED
    BY <1>1, <2>1, <2>2, <2>3 DEF k
<1>4. ASSUME toExport = <<"count">>, NEW l \in Labels
      PROVE  MO!EventsIn(exported["overall_sum"], l) <= MO!Get(values["count"], l) + 1
  <2>1. PICK k \in 0 .. MO!Get(values["count"], l) + 1 : SumOf(exported["overall_sum"], k, l)
    BY <1>4 DEF ExportedBefore
  <2>2. MO!EventsIn(exported["overall_sum"], l) = k
    BY <2>1, WholeEvents DEF SumOf, MO!EventsIn
  <2> QED
    BY <1>3, <2>2
<1>5. ASSUME toExport = <<"overall_sum">>, NEW l \in Labels
      PROVE  MO!Get(exported["count"], l) <= MO!EventsIn(values["overall_sum"], l)
  <2>1. MO!Get(exported["count"], l) \in 0 .. MO!Get(values["count"], l)
    BY <1>5 DEF ExportedBefore
  <2>2. MO!EventsIn(values["overall_sum"], l) \in Int
    BY <1>1, <1>3 DEF HalfAdded
  <2>3. \A c \in Nat, e \in Int : \A x \in 0 .. c : e >= c => x <= e
    OBVIOUS
  <2> QED
    BY <1>3, <2>1, <2>2, <2>3
<1> QED
  BY <1>2, <1>3, <1>4, <1>5, SameCounting DEF MO!SumAndCountAgree

(* The exporter's copy of the registry has two metrics; after the first    *)
(* there is the second.                                                    *)
LEMMA TailOfPair ==
  ASSUME NEW S, NEW a \in S, NEW b \in S
  PROVE  Tail(<<a, b>>) = <<b>>
<1>1. <<a, b>> \in Seq(S) /\ <<a, b>> # <<>> /\ Len(<<a, b>>) = 2 /\ <<a, b>>[2] = b
  OBVIOUS
<1>2. Tail(<<a, b>>) \in Seq(S) /\ Len(Tail(<<a, b>>)) = 1 /\ Tail(<<a, b>>)[1] = b
  BY ONLY <1>1, HeadTailProperties
<1>3. <<b>> \in Seq(S) /\ Len(<<b>>) = 1 /\ <<b>>[1] = b
  OBVIOUS
<1>4. \A i \in 1 .. 1 : i = 1
  OBVIOUS
<1> QED
  BY ONLY <1>2, <1>3, <1>4, SeqEqual

(* One turn of the exporter's loop over its copy (exporter.cc:73-81). *)
LEMMA ExportSteps ==
  ASSUME toExport \in MO!Orders \cup {<<>>, <<"overall_sum">>, <<"count">>}, toExport # <<>>
  PROVE  \/ toExport \in MO!Orders /\ Tail(toExport) = IF Head(toExport) = "count"
                                                     THEN <<"overall_sum">> ELSE <<"count">>
         \/ toExport \notin MO!Orders /\ Tail(toExport) = <<>>
<1>1. ASSUME NEW a \in MO!Metrics, NEW b \in MO!Metrics
      PROVE  Tail(<<a, b>>) = <<b>> /\ Head(<<a, b>>) = a /\ <<a, b>> # <<b>>
  BY TailOfPair
<1>2. ASSUME NEW a PROVE Tail(<<a>>) = <<>>
  OBVIOUS
<1>3. ASSUME NEW a, NEW order \in MO!Orders PROVE <<a>> # order
  BY DEF MO!Orders
<1> QED
  BY <1>1, <1>2, <1>3 DEF MO!Orders, MO!Metrics

(* Every step of the metric and of the exporter keeps the types, and the   *)
(* mutex its holder.                                                       *)
LEMMA MetricTypePreserved ==
  ASSUME MetricTypeOK, [MO!Next]_MO!monitoringVars
  PROVE  MetricTypeOK'
<1> USE DEF MetricTypeOK
<1>1. ASSUME NEW r \in Recorders, NEW l \in Labels, MO!RecordEvent(r, l) PROVE MetricTypeOK'
  BY <1>1 DEF MO!RecordEvent
<1>2. ASSUME NEW r \in Recorders, MO!AddTotal(r) PROVE MetricTypeOK'
  <2>1. event[r] = [at |-> "total", labels |-> event[r].labels] /\ event[r].labels \in Labels
    BY <1>2 DEF MO!AddTotal, MO!NoEvent
  <2>2. [event[r] EXCEPT !.at = "count"] = [at |-> "count", labels |-> event[r].labels]
    BY <2>1
  <2>3. event' = [event EXCEPT ![r] = [at |-> "count", labels |-> event[r].labels]]
    BY <1>2, <2>2 DEF MO!AddTotal
  <2>4. mutex = {r}
    BY <2>1 DEF MO!NoEvent
  <2>5. event' \in [Recorders -> [at : {"total", "count"}, labels : Labels] \cup {MO!NoEvent}]
    BY <2>1, <2>3
  <2>6. \A s \in Recorders : event'[s] # MO!NoEvent => mutex = {s}
    BY <2>3, <2>4
  <2>7. UNCHANGED <<mutex, toExport, exported>> /\ DOMAIN values' = MO!Metrics
        /\ values' = [m \in MO!Metrics |-> values'[m]]
    BY <1>2 DEF MO!AddTotal
  <2> QED
    BY <2>5, <2>6, <2>7
<1>3. ASSUME NEW r \in Recorders, MO!AddCount(r) PROVE MetricTypeOK'
  BY <1>3 DEF MO!AddCount
<1>4. ASSUME NEW order \in MO!Orders, MO!Export(order) PROVE MetricTypeOK'
  BY <1>4 DEF MO!Export
<1>5. CASE MO!PopulateMetricFamily
  <2>1. toExport' \in {<<>>, <<"overall_sum">>, <<"count">>}
    BY <1>5, ExportSteps DEF MO!PopulateMetricFamily
  <2> QED
    BY <1>5, <2>1 DEF MO!PopulateMetricFamily
<1>6. CASE UNCHANGED MO!monitoringVars
  BY <1>6 DEF MO!monitoringVars
<1> QED
  BY <1>1, <1>2, <1>3, <1>4, <1>5, <1>6 DEF MO!Next

(* Each of RecordEvent's two additions keeps sum and count one event       *)
(* apart, and no count ever falls.                                         *)
LEMMA CountedPreserved ==
  ASSUME MO!MonitoringAssumption, MetricInv, [MO!Next]_MO!monitoringVars
  PROVE  /\ Counted'
             /\ \A l \in Labels : MO!Get(values["count"], l) <= MO!Get(values["count"], l)'
<1> USE DEF MetricInv
<1>0. /\ \A l \in Labels : MO!Get(values["count"], l) \in Nat
      /\ DOMAIN values = MO!Metrics /\ "count" \in MO!Metrics /\ "overall_sum" \in MO!Metrics
  BY DEF Counted, MetricTypeOK, MO!Metrics
<1>1. ASSUME UNCHANGED values, \A l \in Labels : HalfAdded(l)' = HalfAdded(l)
      PROVE  /\ Counted'
             /\ \A l \in Labels : MO!Get(values["count"], l) <= MO!Get(values["count"], l)'
  BY <1>0, <1>1 DEF Counted, SumOf
<1>2. ASSUME NEW r \in Recorders, NEW l \in Labels, MO!RecordEvent(r, l)
      PROVE  \A k \in Labels : HalfAdded(k)' = HalfAdded(k)
  BY <1>2 DEF MO!RecordEvent, HalfAdded, Counting, MO!NoEvent, MetricTypeOK
<1>3. ASSUME NEW r \in Recorders, MO!AddTotal(r)
      PROVE  /\ Counted'
             /\ \A l \in Labels : MO!Get(values["count"], l) <= MO!Get(values["count"], l)'
  <2> DEFINE mine == event[r].labels
  <2>1. mine \in Labels /\ event[r] # MO!NoEvent
    BY <1>3 DEF MO!AddTotal, MetricTypeOK, MO!NoEvent
  <2>2. \A k \in Labels : HalfAdded(k) = 0
    BY <1>3, <2>1, OneAtATime DEF MO!AddTotal, HalfAdded, Counting, MO!NoEvent
  <2>3. \A k \in Labels : HalfAdded(k)' = IF k = mine THEN 1 ELSE 0
    BY <1>3, <2>1, OneAtATime DEF MO!AddTotal, HalfAdded, Counting, MO!NoEvent, MetricTypeOK
  <2>4. /\ values'["count"] = values["count"]
        /\ values'["overall_sum"] = MO!IncrementBy(values["overall_sum"], mine, Amount)
    BY <1>0, <1>3 DEF MO!AddTotal
  <2>5. ASSUME NEW k \in Labels
        PROVE  SumOf(values'["overall_sum"], MO!Get(values["count"], k) + HalfAdded(k)', k)
    <3> DEFINE c == MO!Get(values["count"], k)
    <3>1. c \in Nat /\ MO!Get(values["overall_sum"], k) = Amount * c
      BY <2>2 DEF Counted, SumOf
    <3> HIDE DEF c
    <3>2. Amount * (c + 1) = Amount * c + Amount /\ Amount * (c + 0) = Amount * c
      BY <3>1 DEF MO!MonitoringAssumption
    <3> QED
      BY <2>3, <2>4, <3>1, <3>2, Incremented DEF SumOf, c
  <2> QED
    BY <1>0, <2>4, <2>5 DEF Counted
<1>4. ASSUME NEW r \in Recorders, MO!AddCount(r)
      PROVE  /\ Counted'
             /\ \A l \in Labels : MO!Get(values["count"], l) <= MO!Get(values["count"], l)'
  <2> DEFINE mine == event[r].labels
  <2>1. mine \in Labels /\ event[r] # MO!NoEvent
    BY <1>4 DEF MO!AddCount, MetricTypeOK, MO!NoEvent
  <2>2. \A k \in Labels : HalfAdded(k)' = 0
    BY <1>4, <2>1, OneAtATime DEF MO!AddCount, HalfAdded, Counting, MO!NoEvent, MetricTypeOK
  <2>3. \A k \in Labels : HalfAdded(k) = IF k = mine THEN 1 ELSE 0
    BY <1>4, <2>1, OneAtATime DEF MO!AddCount, HalfAdded, Counting, MO!NoEvent
  <2>4. /\ values'["count"] = MO!IncrementBy(values["count"], mine, 1)
        /\ values'["overall_sum"] = values["overall_sum"]
    BY <1>0, <1>4 DEF MO!AddCount
  <2>5. \A k \in Labels :
          MO!Get(values["count"], k)' = MO!Get(values["count"], k) + HalfAdded(k)
    BY <1>0, <2>3, <2>4, Incremented
  <2> QED
    BY <1>0, <2>2, <2>3, <2>4, <2>5 DEF Counted, SumOf
<1>5. ASSUME NEW order \in MO!Orders, MO!Export(order)
      PROVE  UNCHANGED values /\ \A k \in Labels : HalfAdded(k)' = HalfAdded(k)
  BY <1>5 DEF MO!Export, HalfAdded, Counting
<1>6. CASE MO!PopulateMetricFamily
  BY <1>1, <1>6 DEF MO!PopulateMetricFamily, HalfAdded, Counting
<1>7. CASE UNCHANGED MO!monitoringVars
  BY <1>1, <1>7 DEF MO!monitoringVars, HalfAdded, Counting
<1> QED
  BY <1>1, <1>2, <1>3, <1>4, <1>5, <1>6, <1>7 DEF MO!Next, MO!RecordEvent

(* What has been exported stays behind what grows. *)
LEMMA ExportedPreserved ==
  ASSUME MO!MonitoringAssumption, MetricInv, [MO!Next]_MO!monitoringVars
  PROVE  ExportedBefore'
<1> USE DEF MetricInv
<1>1. \A l \in Labels : /\ MO!Get(values["count"], l) \in Nat
                        /\ MO!Get(values["count"], l)' \in Nat
                        /\ MO!Get(values["count"], l) <= MO!Get(values["count"], l)'
  BY CountedPreserved DEF Counted
<1>2. ASSUME UNCHANGED <<toExport, exported>> PROVE ExportedBefore'
  <2>1. ASSUME toExport = <<"count">>, NEW l \in Labels
        PROVE  \E k \in 0 .. MO!Get(values["count"], l)' + 1 :
                 SumOf(exported["overall_sum"], k, l)
    <3>1. PICK k \in 0 .. MO!Get(values["count"], l) + 1 : SumOf(exported["overall_sum"], k, l)
      BY <2>1 DEF ExportedBefore
    <3>2. k \in 0 .. MO!Get(values["count"], l)' + 1
      BY <1>1, <3>1
    <3> QED
      BY <3>1, <3>2
  <2>2. ASSUME toExport = <<"overall_sum">>, NEW l \in Labels
        PROVE  MO!Get(exported["count"], l) \in 0 .. MO!Get(values["count"], l)'
    BY <1>1, <2>2 DEF ExportedBefore
  <2> QED
    BY <1>2, <2>1, <2>2 DEF ExportedBefore, SumOf
<1>3. ASSUME NEW order \in MO!Orders, MO!Export(order) PROVE ExportedBefore'
  <2>1. toExport' # <<"count">> /\ toExport' # <<"overall_sum">>
    <3>1. \A a, b, c : <<a, b>> # <<c>>
      OBVIOUS
    <3> QED
      BY <1>3, <3>1 DEF MO!Export, MO!Orders
  <2> QED
    BY <2>1 DEF ExportedBefore
<1>4. CASE MO!PopulateMetricFamily
  <2>1. UNCHANGED values /\ toExport # <<>> /\ DOMAIN exported = MO!Metrics
        /\ exported' = [exported EXCEPT ![Head(toExport)] = values[Head(toExport)]]
        /\ toExport' = Tail(toExport)
    BY <1>4 DEF MO!PopulateMetricFamily, MetricTypeOK
  <2>2. toExport' = <<"count">> => /\ Head(toExport) = "overall_sum"
                                   /\ exported'["overall_sum"] = values["overall_sum"]
    BY <2>1 DEF MetricTypeOK, MO!Orders, MO!Metrics
  <2>3. toExport' = <<"overall_sum">> => /\ Head(toExport) = "count"
                                         /\ exported'["count"] = values["count"]
    BY <2>1 DEF MetricTypeOK, MO!Orders, MO!Metrics
  <2>4. ASSUME NEW l \in Labels
        PROVE  \E k \in 0 .. MO!Get(values["count"], l) + 1 : SumOf(values["overall_sum"], k, l)
    <3>1. MO!Get(values["count"], l) + HalfAdded(l) \in 0 .. MO!Get(values["count"], l) + 1
      BY <1>1 DEF HalfAdded
    <3> QED
      BY <3>1 DEF Counted
  <2>5. \A l \in Labels : MO!Get(values["count"], l) \in 0 .. MO!Get(values["count"], l)
    BY <1>1
  <2> QED
    BY <2>1, <2>2, <2>3, <2>4, <2>5 DEF ExportedBefore, SumOf
<1> QED
  BY <1>2, <1>3, <1>4 DEF MO!Next, MO!RecordEvent, MO!AddTotal, MO!AddCount, MO!monitoringVars

(* Every step of Monitoring keeps the invariant. *)
LEMMA MetricPreserved ==
  ASSUME MO!MonitoringAssumption, MetricInv, [MO!Next]_MO!monitoringVars
  PROVE  MetricInv'
BY MetricTypePreserved, CountedPreserved, ExportedPreserved DEF MetricInv

-----------------------------------------------------------------------------
(* The types of the chain, without a bound on its length. *)
ChainTypeOK ==
  /\ container \in Seq(Handlers)
  /\ mu_f \in Requests \cup {NoOne}
  /\ pc_f \in [Requests -> {"new", "iterate", "done"}]
  /\ it \in [Requests -> Nat]
  /\ ran \in [Requests -> Seq(Handlers)]

(* AddHandler inserts a handler only once, so at most one is null. *)
RegisteredOnce ==
  \A i, j \in 1 .. Len(container) : container[i] = container[j] => i = j

(* A request that has not locked the chain has run no handler. *)
NothingRun == \A r \in Requests : pc_f[r] = "new" => ran[r] = <<>>

(* An iterator is at a handler, or at end(). *)
WithinChain == \A r \in Requests : pc_f[r] = "iterate" => it[r] \in 1 .. Len(container) + 1

(* IteratorValid and what it needs to be inductive. *)
ChainInv == ChainTypeOK /\ RegisteredOnce /\ NothingRun /\ WithinChain /\ FC!IteratorValid

(* HandlerSequence's NonNull(c, k), what a request has run of the first k  *)
(* handlers, grows by the handler behind them unless that one is null      *)
(* (handler_chain.h, the loop in Execute).                                 *)
LEMMA NonNullGrows ==
  ASSUME NEW c \in Seq(Handlers), \A i, j \in 1 .. Len(c) : c[i] = c[j] => i = j,
         NEW k \in Nat, k < Len(c), FC!HS!NonNull(c, k) \in Seq(Handlers)
  PROVE  FC!HS!NonNull(c, k + 1) = IF c[k + 1] = Null THEN FC!HS!NonNull(c, k)
                                ELSE Append(FC!HS!NonNull(c, k), c[k + 1])
<1> DEFINE s == FC!HS!NonNull(c, k)
           u == FC!HS!NonNull(c, k + 1)
<1>1. FC!HS!NullIn(c, k + 1) <=> FC!HS!NullIn(c, k) \/ c[k + 1] = Null
  BY DEF FC!HS!NullIn
<1>2. CASE c[k + 1] = Null
  <2>1. ~FC!HS!NullIn(c, k)
    BY <1>2 DEF FC!HS!NullIn
  <2> QED
    BY <1>1, <1>2, <2>1 DEF FC!HS!NonNull
<1>3. CASE c[k + 1] # Null
  <2> DEFINE m == IF FC!HS!NullIn(c, k) THEN k - 1 ELSE k
  <2>1. m \in Nat
    BY DEF FC!HS!NullIn
  <2>2. Len(s) = m
    BY <2>1 DEF FC!HS!NonNull
  <2>3. Append(s, c[k + 1]) = [i \in 1 .. m + 1 |-> IF i = m + 1 THEN c[k + 1] ELSE s[i]]
    BY <2>1, <2>2
  <2>4. u = [i \in 1 .. m + 1 |-> IF FC!HS!NullIn(c, i) THEN c[i + 1] ELSE c[i]]
    BY <1>1, <1>3, <2>1 DEF FC!HS!NonNull
  <2>5. \A i \in 1 .. m : s[i] = IF FC!HS!NullIn(c, i) THEN c[i + 1] ELSE c[i]
    BY DEF FC!HS!NonNull
  <2>6. (IF FC!HS!NullIn(c, m + 1) THEN c[m + 2] ELSE c[m + 1]) = c[k + 1]
    <3>1. CASE FC!HS!NullIn(c, k)
      BY <3>1 DEF FC!HS!NullIn
    <3>2. CASE ~FC!HS!NullIn(c, k)
      BY <1>3, <3>2 DEF FC!HS!NullIn
    <3> QED
      BY <3>1, <3>2
  <2>7. \A i \in 1 .. m + 1 : i = m + 1 \/ i \in 1 .. m
    BY <2>1
  <2> HIDE DEF s, u, m
  <2>8. \A i \in 1 .. m + 1 : (IF FC!HS!NullIn(c, i) THEN c[i + 1] ELSE c[i])
                              = IF i = m + 1 THEN c[k + 1] ELSE s[i]
    <3>1. (m + 1) + 1 = m + 2
      BY <2>1
    <3> QED
      BY <2>5, <2>6, <2>7, <3>1
  <2>9. u = Append(s, c[k + 1])
    BY <2>3, <2>4, <2>8
  <2> QED
    BY <1>3, <2>9 DEF s, u
<1> QED
  BY <1>2, <1>3

(* The chain starts empty, with no request in it. *)
LEMMA ChainInitially == ASSUME FC!FilterChainAssumption PROVE FC!Init => ChainInv
BY DEF FC!Init, ChainInv, ChainTypeOK, RegisteredOnce, NothingRun, WithinChain, FC!IteratorValid

(* AddHandler inserts at the front, which moves every handler: the         *)
(* invariant survives because mu_ is then free, so that no request is      *)
(* iterating.                                                              *)
LEMMA ChainPreserved ==
  ASSUME FC!FilterChainAssumption, ChainInv, [FC!Next]_FC!vars
  PROVE  ChainInv'
<1> USE DEF ChainInv, ChainTypeOK, RegisteredOnce, NothingRun, WithinChain, FC!IteratorValid
<1>1. ASSUME NEW h \in Handlers, FC!AddHandler(h) PROVE ChainInv'
  <2>1. <<h>> \in Seq(Handlers) /\ Len(<<h>>) = 1 /\ <<h>>[1] = h
    OBVIOUS
  <2>2. /\ container' \in Seq(Handlers)
        /\ Len(container') = Len(container) + 1
        /\ container'[1] = h
        /\ \A i \in 2 .. Len(container) + 1 : container'[i] = container[i - 1]
    BY <1>1, <2>1, ConcatProperties DEF FC!AddHandler
  <2>3. RegisteredOnce'
    <3>1. \A i \in 1 .. Len(container) : container[i] # h
      BY <1>1 DEF FC!AddHandler, FC!InContainer
    <3>2. ASSUME NEW i \in 1 .. Len(container'), NEW j \in 1 .. Len(container'),
                 container'[i] = container'[j]
          PROVE  i = j
      <4>1. i = 1 \/ (i \in 2 .. Len(container) + 1 /\ i - 1 \in 1 .. Len(container))
        BY <2>2
      <4>2. j = 1 \/ (j \in 2 .. Len(container) + 1 /\ j - 1 \in 1 .. Len(container))
        BY <2>2
      <4>3. CASE i = 1 \/ j = 1
        BY <2>2, <3>1, <3>2, <4>1, <4>2, <4>3
      <4>4. CASE i # 1 /\ j # 1
        <5>1. container[i - 1] = container[j - 1]
          BY <2>2, <3>2, <4>1, <4>2, <4>4
        <5>2. i - 1 = j - 1
          BY <4>1, <4>2, <4>4, <5>1
        <5> QED
          BY <4>1, <4>2, <4>4, <5>2
      <4> QED
        BY <4>3, <4>4
    <3> QED
      BY <3>2
  <2>4. \A r \in Requests : pc_f[r] # "iterate"
    BY <1>1 DEF FC!AddHandler, FC!FilterChainAssumption
  <2> QED
    BY <1>1, <2>2, <2>3, <2>4 DEF FC!AddHandler
<1>2. ASSUME NEW r \in Requests, FC!Lock(r) PROVE ChainInv'
  <2>1. FC!HS!NonNull(container, 0) = <<>>
    BY DEF FC!HS!NonNull, FC!HS!NullIn
  <2>2. UNCHANGED <<container, ran>> /\ \A x \in Requests : pc_f[x] # "iterate"
    BY <1>2 DEF FC!Lock, FC!FilterChainAssumption
  <2>3. CASE container = <<>>
    <3>1. pc_f' = [pc_f EXCEPT ![r] = "done"] /\ UNCHANGED <<mu_f, it>>
      BY <1>2, <2>3 DEF FC!Lock
    <3> QED
      BY <2>2, <3>1
  <2>4. CASE container # <<>>
    <3>1. /\ pc_f' = [pc_f EXCEPT ![r] = "iterate"] /\ mu_f' = r /\ it' = [it EXCEPT ![r] = 1]
          /\ ran[r] = <<>> /\ it'[r] - 1 = 0
      BY <1>2, <2>4 DEF FC!Lock
    <3> QED
      BY <2>1, <2>2, <3>1
  <2> QED
    BY <2>3, <2>4
<1>3. ASSUME NEW r \in Requests, FC!HandleOne(r) PROVE ChainInv'
  <2> DEFINE k == it[r] - 1
  <2>1. k \in Nat /\ k < Len(container) /\ ran[r] = FC!HS!NonNull(container, k)
        /\ FC!HS!NonNull(container, k) \in Seq(Handlers) /\ k + 1 = it[r]
    BY <1>3 DEF FC!HandleOne
  <2>2. ran'[r] = FC!HS!NonNull(container, k + 1)
    BY <1>3, <2>1, NonNullGrows DEF FC!HandleOne
  <2>3. ran' \in [Requests -> Seq(Handlers)]
    BY <1>3 DEF FC!HandleOne
  <2>4. /\ UNCHANGED <<container, mu_f, pc_f>> /\ pc_f[r] = "iterate"
        /\ it' = [it EXCEPT ![r] = it[r] + 1] /\ it'[r] - 1 = k + 1
        /\ \A x \in Requests : x # r => pc_f[x] # "iterate"
        /\ \A x \in Requests : x # r => ran'[x] = ran[x]
    <3>1. mu_f = r /\ pc_f[r] = "iterate" /\ UNCHANGED <<container, mu_f, pc_f>>
      BY <1>3 DEF FC!HandleOne
    <3>2. \A x \in Requests : x # r => pc_f[x] # "iterate"
      BY <3>1
    <3>3. it' = [it EXCEPT ![r] = it[r] + 1] /\ it'[r] - 1 = k + 1
      <4>1. it' = [it EXCEPT ![r] = it[r] + 1] /\ it[r] \in Nat
        BY <1>3 DEF FC!HandleOne
      <4>2. it'[r] = it[r] + 1
        BY <4>1
      <4>3. it'[r] - 1 = k + 1
        BY <4>1, <4>2
      <4> QED
        BY <4>1, <4>3
    <3>4. \A x \in Requests : x # r => ran'[x] = ran[x]
      BY <1>3 DEF FC!HandleOne
    <3> QED
      BY <3>1, <3>2, <3>3, <3>4
  <2> HIDE DEF k
  <2>5. FC!IteratorValid'
    BY <2>2, <2>4
  <2>6. WithinChain'
    BY <2>1, <2>4
  <2>7. ChainTypeOK'
    BY <2>1, <2>3, <2>4
  <2> QED
    BY <2>4, <2>5, <2>6, <2>7
<1>4. ASSUME NEW r \in Requests, FC!Complete(r) PROVE ChainInv'
  BY <1>4 DEF FC!Complete
<1>5. CASE UNCHANGED FC!vars
  BY <1>5 DEF FC!vars
<1> QED
  BY <1>1, <1>2, <1>3, <1>4, <1>5 DEF FC!Next, FC!Execute

(* Every step of the chain is a step of HandlerSequence or none: a         *)
(* registration is Register, the end of a request's iteration is Pass, all *)
(* else is not seen.                                                       *)
LEMMA ChainStepSimulation ==
  ASSUME FC!FilterChainAssumption, ChainInv, [FC!Next]_FC!vars
  PROVE  [FC!HS!Next]_FC!HS!vars
<1> DEFINE passed == [r \in Requests |-> IF pc_f[r] = "done" THEN ran[r] ELSE <<>>]
<1> USE DEF ChainInv, ChainTypeOK
<1>1. ASSUME NEW h \in Handlers, FC!AddHandler(h) PROVE FC!HS!Register(h)
  BY <1>1 DEF FC!AddHandler, FC!InContainer, FC!HS!Register, FC!HS!Registered
<1>2. ASSUME NEW r \in Requests, FC!Lock(r) PROVE UNCHANGED FC!HS!vars
  BY <1>2 DEF FC!Lock, NothingRun, FC!HS!vars
<1>3. ASSUME NEW r \in Requests, FC!HandleOne(r) PROVE UNCHANGED FC!HS!vars
  BY <1>3 DEF FC!HandleOne, FC!HS!vars
<1>4. ASSUME NEW r \in Requests, FC!Complete(r) PROVE FC!HS!Pass(r)
  <2>1. it[r] - 1 = Len(container)
    BY <1>4 DEF FC!Complete, WithinChain
  <2>2. ran[r] = FC!HS!NonNull(container, Len(container))
    BY <1>4, <2>1 DEF FC!Complete, FC!IteratorValid
  <2> QED
    BY <1>4, <2>2 DEF FC!Complete, FC!HS!Pass
<1>5. CASE UNCHANGED FC!vars
  BY <1>5 DEF FC!vars, FC!HS!vars
<1> QED
  BY <1>1, <1>2, <1>3, <1>4, <1>5 DEF FC!Next, FC!Execute, FC!HS!Next

-----------------------------------------------------------------------------
(* Notification. The threads inside Notify are the holders of mu_, there   *)
(* is one at most, and the flag is set exactly from its SetFlag on.        *)
NotifyMutex ==
  /\ \A t \in Notifiers : t \in mu_n <=> npc_n[t] \in {"locked", "set"}
  /\ \A t, u \in Notifiers : npc_n[t] # "out" /\ npc_n[u] # "out" => t = u
  /\ notified_n <=> \E t \in Notifiers : npc_n[t] \in {"set", "left"}

NotificationInv ==
  /\ mu_n \subseteq Notifiers
  /\ npc_n \in [Notifiers -> {"out", "locked", "set", "left"}]
  /\ wpc_n \in [NT!Sleepers -> {"out", "lock", "asleep", "expired", "returned"}]
  /\ notified_n \in BOOLEAN
  /\ alive_n \in BOOLEAN
  /\ \A w \in NT!Sleepers : wpc_n[w] = "expired" => w \in Timed
  /\ NotifyMutex
  /\ NT!NotifierHasLeft

(* The empty notification satisfies the invariant (notification.h:15).     *)
LEMMA NotificationInitially == NT!Init => NotificationInv
  BY DEF NT!Init, NotificationInv, NotifyMutex, NT!NotifierHasLeft, NT!Sleepers

(* Every critical section of Notify, of the waits and of the destructor    *)
(* preserves the invariant (notification.h:16-44).                         *)
LEMMA NotificationPreserved ==
  ASSUME NT!NotificationAssumption, NotificationInv, [NT!Next]_NT!notificationVars
  PROVE  NotificationInv'
<1> USE DEF NotificationInv, NotifyMutex, NT!NotifierHasLeft, NT!Sleepers
<1>1. ASSUME NEW t \in Notifiers, NT!NotifyLock(t) PROVE NotificationInv'
  BY <1>1 DEF NT!NotifyLock
<1>2. ASSUME NEW t \in Notifiers, NT!SetFlag(t) PROVE NotificationInv'
  BY <1>2 DEF NT!SetFlag, NT!Woken
<1>3. ASSUME NEW t \in Notifiers, NT!NotifyUnlock(t) PROVE NotificationInv'
  BY <1>3 DEF NT!NotifyUnlock
<1>4. ASSUME NEW w \in NT!Sleepers, NT!Enter(w) PROVE NotificationInv'
  BY <1>4 DEF NT!Enter
<1>5. ASSUME NEW w \in NT!Sleepers, NT!TestFlag(w) PROVE NotificationInv'
  BY <1>5 DEF NT!TestFlag
<1>6. ASSUME NEW w \in NT!Sleepers, NT!SpuriousWakeup(w) PROVE NotificationInv'
  BY <1>6 DEF NT!SpuriousWakeup
<1>7. ASSUME NEW w \in NT!Sleepers, NT!Expire(w) PROVE NotificationInv'
  BY <1>7 DEF NT!Expire
<1>8. ASSUME NEW w \in NT!Sleepers, NT!TestExpired(w) PROVE NotificationInv'
  BY <1>8, NT!NotificationAssumption DEF NT!TestExpired, NT!NotificationAssumption
<1>9. CASE NT!Destroy
  BY <1>9 DEF NT!Destroy, NT!HasBeenNotified
<1>10. CASE UNCHANGED NT!notificationVars
  BY <1>10 DEF NT!notificationVars
<1> QED
  BY <1>1, <1>2, <1>3, <1>4, <1>5, <1>6, <1>7, <1>8, <1>9, <1>10
  DEF NT!Next, NT!Destroyed

-----------------------------------------------------------------------------
(* ParallelFor. Ranges are cut at multiples of block_size only, so the     *)
(* leaves of the halving are the blocks of [0, n), which is what divup     *)
(* counts: WorkOK says that the ranges queued and handled are apart, that  *)
(* they have every index f was not called on, and that the barrier expects *)
(* as many Notify calls as there are multiples of block_size in them. When *)
(* Wait returns the barrier expects none, so no range is left. The block   *)
(* size comes from a search whose variables PlanOK describes.              *)

(* No Index sum wraps: n and a block, the block_align multiple or the      *)
(* threads can be added. Beyond that int overflows, which the code leaves  *)
(* undefined (device_thread_pool.h:20-28).                                 *)
NoOverflow ==
  \A x \in Sizes : /\ 2 * x <= IntMax
                   /\ x + PF!NumThreads <= IntMax
                   /\ \A y \in Aligns : x + y <= IntMax

(* x is a multiple of y. *)
IsMultiple(x, y) == x % y = 0

(* k is x divided by y and rounded up. *)
RoundedUp(k, x, y) == k \in Nat /\ x <= k * y /\ k * y < x + y

(* divup (device_thread_pool.h:20-28) rounds up, as long as the sum does   *)
(* not overflow.                                                           *)
LEMMA DivUpRounds ==
  ASSUME IntMax \in Nat, NEW x \in Nat, NEW y \in Nat \ {0}, x + y <= IntMax
  PROVE  RoundedUp(PF!DivUp(x, y), x, y)
<1> DEFINE k == (x + y - 1) \div y
<1>1. PF!DivUp(x, y) = k
  BY DEF PF!DivUp, PF!Quotient, PF!Wrap
<1>2. k \in Nat /\ k * y <= x + y - 1 /\ x + y - 1 < k * y + y
  OBVIOUS
<1> QED
  BY ONLY <1>1, <1>2, x \in Nat, y \in Nat \ {0} DEF RoundedUp

(* What is counted in blocks of y is a multiple of y. *)
LEMMA MultipleOf ==
  ASSUME NEW k \in Int, NEW y \in Nat \ {0}
  PROVE  IsMultiple(k * y, y)
BY DEF IsMultiple

(* A multiple of y is so many blocks of y. *)
LEMMA MultipleIs ==
  ASSUME NEW x \in Int, NEW y \in Nat \ {0}, IsMultiple(x, y)
  PROVE  \E k \in Int : x = k * y
<1>1. x = (x \div y) * y
  BY DEF IsMultiple
<1>2. x \div y \in Int
  OBVIOUS
<1> QED
  BY <1>1, <1>2

(* More blocks hold more indices ... *)
LEMMA Monotone ==
  ASSUME NEW x \in Int, NEW y \in Int, NEW z \in Nat, x <= y
  PROVE  x * z <= y * z
OBVIOUS

(* ... and more indices need more blocks. *)
LEMMA Cancels ==
  ASSUME NEW x \in Int, NEW y \in Int, NEW z \in Nat \ {0}, x * z <= y * z
  PROVE  x <= y
OBVIOUS

(* Multiples less than one step apart are equal. *)
LEMMA OneMultiple ==
  ASSUME NEW x \in Int, NEW y \in Int, NEW z \in Nat \ {0},
         IsMultiple(x, z), IsMultiple(y, z), x <= y, y < x + z
  PROVE  x = y
<1>1. PICK j \in Int : x = j * z
  BY MultipleIs
<1>2. PICK k \in Int : y = k * z
  BY MultipleIs
<1>3. j <= k
  BY <1>1, <1>2, Cancels
<1>4. CASE j + 1 <= k
  <2>1. (j + 1) * z <= k * z
    BY <1>4, Monotone
  <2>2. (j + 1) * z = x + z
    BY <1>1
  <2> QED BY <2>1, <2>2, <1>2
<1> QED
  BY <1>1, <1>2, <1>3, <1>4

(* Something is cut into one block at least and into blocks of one at      *)
(* most.                                                                   *)
LEMMA RoundedAtMost ==
  ASSUME NEW x \in Nat \ {0}, NEW y \in Nat \ {0}, NEW k, RoundedUp(k, x, y)
  PROVE  k \in 1..x
<1>1. k \in Nat /\ x <= k * y /\ k * y < x + y
  BY DEF RoundedUp
<1>2. k # 0
  BY <1>1
<1>3. CASE k > x
  <2>1. (x + 1) * y <= k * y
    BY <1>1, <1>3, Monotone
  <2>2. x * y >= x * 1
    BY Monotone
  <2> QED BY <1>1, <2>1, <2>2
<1> QED
  BY <1>1, <1>2, <1>3

-----------------------------------------------------------------------------
(* The arguments of the call. *)
ArgumentsOK == n \in Sizes /\ cost \in Costs /\ align \in Aligns

(* A fraction with a positive denominator. *)
IsShare(e) == \E x \in Nat : \E y \in Nat \ {0} : e = <<x, y>>

(* f is no better than e. *)
NoBetter(f, e) == f[1] * e[2] <= e[1] * f[2]

(* A size that ParallelFor may choose for its blocks. *)
BlockOK(size) == size \in 1..n /\ (size = n \/ IsMultiple(size, align))

(* The efficiency of the cost model's choice. *)
FirstEfficiency == PF!Efficiency(PF!DivUp(n, PF!Least(n, PF!BlockAlign(PF!FirstBlock))))

(* What the search for the block size (device_thread_pool.h:158-196) keeps *)
(* true of its variables.                                                  *)
PlanOK ==
  /\ n > 1 /\ PF!NumThreads > 1 /\ align > 0
  /\ BlockOK(blockSize)
  /\ RoundedUp(blockCount, n, blockSize)
  /\ prevCount \in 1..n
  /\ IsShare(best)
  /\ IsShare(FirstEfficiency)
  /\ NoBetter(FirstEfficiency, best)
  /\ PF!NearlyAsGood(PF!Efficiency(blockCount), best)

(* NumThreads() is a number. *)
LEMMA SomeThreads == ASSUME PF!ParallelForAssumption PROVE PF!NumThreads \in Nat
BY FS_CardinalityType, SameCounting DEF PF!NumThreads, PF!ParallelForAssumption

(* The arguments are numbers whose sums do not overflow. *)
LEMMA ArgumentsAreNumbers ==
  ASSUME PF!ParallelForAssumption, NoOverflow, ArgumentsOK
  PROVE  /\ IntMax \in Nat /\ n \in Nat /\ cost \in Nat /\ align \in Nat
         /\ 2 * n <= IntMax /\ n + PF!NumThreads <= IntMax /\ n + align <= IntMax
BY DEF PF!ParallelForAssumption, NoOverflow, ArgumentsOK

(* Only work that costs something is split (cost_model.h:45-69), so        *)
(* nothing is divided by zero (device_thread_pool.h:158).                  *)
LEMMA SplitCosts ==
  ASSUME PF!ParallelForAssumption, n \in Nat, cost \in Nat, PF!Parallel
  PROVE  cost > 0 /\ n > 1 /\ PF!NumThreads > 1
<1>1. PF!NumThreads \in Nat
  BY SomeThreads
<1>2. CASE cost = 0
  <2>1. n * cost - 10000 = -10000
    BY <1>2
  <2>2. PF!Quotient(n * cost - 10000, 100000) = 0
    BY <2>1 DEF PF!Quotient
  <2> QED BY <1>1, <2>2 DEF PF!Parallel, PF!CostThreads, PF!Least, PF!Most
<1> QED
  BY <1>2 DEF PF!Parallel

(* block_align never makes a block smaller. *)
LEMMA AlignedBlock ==
  ASSUME IntMax \in Nat, n \in Nat, n > 1, align \in Nat \ {0}, n + align <= IntMax,
         NEW x \in 1..n
  PROVE  BlockOK(PF!Least(n, PF!BlockAlign(x)))
<1> DEFINE k == PF!DivUp(x, align)
<1>1. RoundedUp(k, x, align)
  BY DivUpRounds
<1>2. k \in Nat /\ x <= k * align
  BY <1>1 DEF RoundedUp
<1>3. IsMultiple(k * align, align)
  BY <1>2, MultipleOf
<1> HIDE DEF k
<1> QED
  BY <1>2, <1>3 DEF BlockOK, PF!Least, PF!BlockAlign, k

(* divup of n by a size (device_thread_pool.h:168 and 184) is a number of  *)
(* blocks that hold all n.                                                 *)
LEMMA Blocks ==
  ASSUME IntMax \in Nat, n \in Nat, 2 * n <= IntMax, NEW size \in 1..n
  PROVE  /\ PF!DivUp(n, size) \in 1..n
         /\ RoundedUp(PF!DivUp(n, size), n, size)
<1>1. RoundedUp(PF!DivUp(n, size), n, size)
  BY DivUpRounds
<1> QED
  BY <1>1, RoundedAtMost

(* The efficiency of any number of blocks divides by a positive number     *)
(* (device_thread_pool.h:169-171).                                         *)
LEMMA EfficiencyIsShare ==
  ASSUME IntMax \in Nat, n \in Nat, PF!NumThreads \in Nat \ {0}, n + PF!NumThreads <= IntMax,
         NEW x \in 1..n
  PROVE  IsShare(PF!Efficiency(x))
<1> DEFINE k == PF!DivUp(x, PF!NumThreads)
<1>1. RoundedUp(k, x, PF!NumThreads)
  BY DivUpRounds
<1>2. k \in Nat /\ x <= k * PF!NumThreads
  BY <1>1 DEF RoundedUp
<1>3. k * PF!NumThreads \in Nat \ {0}
  BY <1>2
<1> HIDE DEF k
<1> QED
  BY <1>3 DEF IsShare, PF!Efficiency, k

(* No efficiency is worse than itself. *)
LEMMA AsGoodAsItself == ASSUME NEW e, IsShare(e) PROVE PF!NearlyAsGood(e, e) /\ NoBetter(e, e)
<1>1. PICK x \in Nat, y \in Nat \ {0} : e = <<x, y>>
  BY DEF IsShare
<1>2. y * y >= 0 /\ 100 * x * y + y * y >= 100 * x * y
  OBVIOUS
<1> QED
  BY <1>1, <1>2 DEF PF!NearlyAsGood, NoBetter

(* A new max_efficiency (device_thread_pool.h:192-194) is no worse than    *)
(* what the old one was no worse than.                                     *)
LEMMA WorstStays ==
  ASSUME NEW f, NEW e, NEW m, IsShare(f), IsShare(e), IsShare(m), NoBetter(f, m),
         PF!Better(e, m)
  PROVE  NoBetter(f, e)
<1>1. PICK f1 \in Nat, f2 \in Nat \ {0} : f = <<f1, f2>>
  BY DEF IsShare
<1>2. PICK e1 \in Nat, e2 \in Nat \ {0} : e = <<e1, e2>>
  BY DEF IsShare
<1>3. PICK m1 \in Nat, m2 \in Nat \ {0} : m = <<m1, m2>>
  BY DEF IsShare
<1>4. f1 * m2 <= m1 * f2 /\ m1 * e2 <= e1 * m2
  BY <1>1, <1>2, <1>3 DEF NoBetter, PF!Better
<1>5. (f1 * m2) * e2 <= (m1 * f2) * e2 /\ (m1 * e2) * f2 <= (e1 * m2) * f2
  BY <1>4, Monotone
<1>6. (f1 * e2) * m2 <= (e1 * f2) * m2
  BY <1>5
<1>7. f1 * e2 <= e1 * f2
  BY <1>6, Cancels
<1> QED
  BY <1>1, <1>2, <1>7 DEF NoBetter

(* What is nearly as good as max_efficiency (device_thread_pool.h:189) is  *)
(* nearly as good as what is no better than that.                          *)
LEMMA GoodEnough ==
  ASSUME NEW f, NEW e, NEW m, IsShare(f), IsShare(e), IsShare(m), NoBetter(f, m),
         PF!NearlyAsGood(e, m)
  PROVE  PF!NearlyAsGood(e, f)
<1>1. PICK f1 \in Nat, f2 \in Nat \ {0} : f = <<f1, f2>>
  BY DEF IsShare
<1>2. PICK e1 \in Nat, e2 \in Nat \ {0} : e = <<e1, e2>>
  BY DEF IsShare
<1>3. PICK m1 \in Nat, m2 \in Nat \ {0} : m = <<m1, m2>>
  BY DEF IsShare
<1> DEFINE g == 100 * e1 + e2
<1>4. f1 * m2 <= m1 * f2 /\ (100 * m1) * e2 <= g * m2
  BY <1>1, <1>2, <1>3 DEF NoBetter, PF!NearlyAsGood
<1> HIDE DEF g
<1>5. g \in Nat
  BY DEF g
<1>6. (f1 * m2) * (100 * e2) <= (m1 * f2) * (100 * e2)
      /\ ((100 * m1) * e2) * f2 <= (g * m2) * f2
  BY <1>4, <1>5, Monotone
<1>7. ((100 * f1) * e2) * m2 <= (g * f2) * m2
  BY <1>5, <1>6
<1>8. (100 * f1) * e2 <= g * f2
  BY <1>5, <1>7, Cancels
<1> QED
  BY <1>1, <1>2, <1>8 DEF PF!NearlyAsGood, g

(* The first choice of a block size is a plan                              *)
(* (device_thread_pool.h:158-171).                                         *)
LEMMA ChooseBlockPlans ==
  ASSUME PF!ParallelForAssumption, NoOverflow, ArgumentsOK, PF!ChooseBlock
  PROVE  PlanOK'
<1> DEFINE size == PF!Least(n, PF!BlockAlign(PF!FirstBlock))
           blocks == PF!DivUp(n, size)
<1>1. /\ IntMax \in Nat /\ n \in Nat /\ cost \in Nat /\ align \in Nat \ {0}
      /\ 2 * n <= IntMax /\ n + PF!NumThreads <= IntMax /\ n + align <= IntMax
  BY ArgumentsAreNumbers DEF PF!ChooseBlock
<1>2. cost > 0 /\ n > 1 /\ PF!NumThreads > 1 /\ PF!NumThreads \in Nat
  BY <1>1, SplitCosts, SomeThreads DEF PF!ChooseBlock
<1>3. PF!FirstBlock \in 1..n
  <2>1. PF!kTaskSize \div cost \in Nat
    BY <1>1, <1>2 DEF PF!kTaskSize
  <2> QED BY <1>1, <1>2, <2>1 DEF PF!FirstBlock, PF!Least, PF!Most
<1>4. BlockOK(size)
  BY <1>1, <1>2, <1>3, AlignedBlock
<1>5. blocks \in 1..n /\ RoundedUp(blocks, n, size)
  BY <1>1, <1>4, Blocks DEF BlockOK
<1>6. IsShare(PF!Efficiency(blocks))
  BY <1>1, <1>2, <1>5, EfficiencyIsShare
<1>7. PF!NearlyAsGood(PF!Efficiency(blocks), PF!Efficiency(blocks))
      /\ NoBetter(PF!Efficiency(blocks), PF!Efficiency(blocks))
  BY <1>6, AsGoodAsItself
<1>8. /\ n' = n /\ align' = align /\ cost' = cost
      /\ blockSize' = size /\ blockCount' = blocks /\ prevCount' = blocks
         /\ best' = PF!Efficiency(blocks)
  BY DEF PF!ChooseBlock, PF!inputs
<1>9. FirstEfficiency' = PF!Efficiency(blocks)
  BY <1>8 DEF FirstEfficiency, PF!FirstBlock, PF!BlockAlign
<1> HIDE DEF size, blocks
<1> QED
  BY <1>1, <1>2, <1>4, <1>5, <1>6, <1>7, <1>8, <1>9 DEF PlanOK, BlockOK

(* A turn of the loop that tries larger blocks leaves a plan, whether it   *)
(* accepts the size or not (device_thread_pool.h:173-196).                 *)
LEMMA CoarsenPlans ==
  ASSUME PF!ParallelForAssumption, NoOverflow, ArgumentsOK, PlanOK, PF!Coarsen
  PROVE  PlanOK'
<1> DEFINE size == PF!CoarserSize
           blocks == PF!DivUp(n, size)
           e == PF!Efficiency(blocks)
<1>1. /\ IntMax \in Nat /\ n \in Nat /\ cost \in Nat /\ align \in Nat \ {0}
      /\ 2 * n <= IntMax /\ n + PF!NumThreads <= IntMax /\ n + align <= IntMax
  BY ArgumentsAreNumbers DEF PlanOK
<1>2. n > 1 /\ PF!NumThreads > 1 /\ PF!NumThreads \in Nat /\ prevCount \in 1..n
      /\ prevCount > 1
  BY SomeThreads DEF PF!Coarsen, PlanOK
<1>3. BlockOK(size)
  <2>1. prevCount - 1 \in 1..n
    BY <1>1, <1>2
  <2>2. PF!DivUp(n, prevCount - 1) \in 1..n
    BY <1>1, <2>1, Blocks
  <2> QED
    BY <1>1, <1>2, <2>2, AlignedBlock DEF PF!CoarserSize
<1>4. blocks \in 1..n /\ RoundedUp(blocks, n, size)
  BY <1>1, <1>3, Blocks DEF BlockOK
<1>5. IsShare(e)
  BY <1>1, <1>2, <1>4, EfficiencyIsShare
<1>6. PF!NearlyAsGood(e, e)
  BY <1>5, AsGoodAsItself
<1>7. n' = n /\ align' = align /\ cost' = cost /\ prevCount' = blocks
  BY DEF PF!Coarsen, PF!inputs
<1>8. FirstEfficiency' = FirstEfficiency
  BY <1>7 DEF FirstEfficiency, PF!FirstBlock, PF!BlockAlign
<1>9. \/ /\ PF!NearlyAsGood(e, best) /\ blockSize' = size /\ blockCount' = blocks
         /\ best' = IF PF!Better(e, best) THEN e ELSE best
      \/ UNCHANGED <<blockSize, blockCount, best>>
  BY <1>7 DEF PF!Coarsen
<1>10. PF!Better(e, best) => NoBetter(FirstEfficiency, e)
  BY <1>5, WorstStays DEF PlanOK
<1> HIDE DEF size, blocks, e
<1>11. IsShare(best') /\ IsShare(FirstEfficiency') /\ NoBetter(FirstEfficiency', best')
  BY <1>5, <1>8, <1>9, <1>10 DEF PlanOK
<1>12. PF!NearlyAsGood(PF!Efficiency(blockCount'), best')
  BY <1>6, <1>9 DEF PlanOK, e
<1>13. BlockOK(blockSize)' /\ RoundedUp(blockCount', n, blockSize')
  BY <1>3, <1>4, <1>7, <1>9 DEF PlanOK, BlockOK
<1> QED
  BY <1>4, <1>7, <1>11, <1>12, <1>13 DEF PlanOK

(* assert(new_block_size >= block_size) (device_thread_pool.h:165).        *)
LEMMA AlignedNotSmaller ==
  ASSUME IntMax \in Nat, n \in Nat, align \in Nat \ {0}, n + align <= IntMax, NEW x \in 1..n
  PROVE  LET size == PF!Least(n, PF!BlockAlign(x)) IN size = n \/ size >= x
<1> DEFINE k == PF!DivUp(x, align)
<1>1. x \in Nat /\ x + align <= IntMax
  OBVIOUS
<1>2. RoundedUp(k, x, align)
  BY <1>1, DivUpRounds
<1> HIDE DEF k
<1>3. k * align >= x
  BY <1>2 DEF RoundedUp
<1> QED
  BY <1>3 DEF PF!Least, PF!BlockAlign, k

(* assert(coarser_block_count < prev_block_count)                          *)
(* (device_thread_pool.h:184): a size that n fits into prev_block_count-1  *)
(* times is not made smaller by block_align, so there are fewer blocks.    *)
LEMMA CoarserIsFewer ==
  ASSUME PF!ParallelForAssumption, NoOverflow, ArgumentsOK, PlanOK, PF!Coarsen
  PROVE  prevCount' \in 1..(prevCount - 1)
<1> DEFINE parts == prevCount - 1
           size == PF!CoarserSize
           least == PF!DivUp(n, parts)
           blocks == PF!DivUp(n, size)
<1>1. /\ IntMax \in Nat /\ n \in Nat /\ n > 1 /\ align \in Nat \ {0}
      /\ 2 * n <= IntMax /\ n + align <= IntMax
      /\ prevCount \in 1..n /\ parts \in Nat \ {0} /\ parts \in 1..n
  BY ArgumentsAreNumbers DEF PF!Coarsen, PlanOK
<1>2. prevCount' = blocks
  BY DEF PF!Coarsen, PF!inputs
<1>3. least \in 1..n /\ n <= least * parts
  BY <1>1, Blocks DEF RoundedUp
<1>4. size = n \/ size >= least
  BY <1>1, <1>3, AlignedNotSmaller DEF PF!CoarserSize
<1>5. size \in 1..n
  BY <1>1, <1>3, AlignedBlock DEF BlockOK, PF!CoarserSize
<1>6. blocks \in 1..n /\ blocks * size < n + size
  BY <1>1, <1>5, Blocks DEF RoundedUp
<1> HIDE DEF size, least, blocks, parts
<1>7. n <= size * parts
  <2>1. CASE size = n
    <3>1. 1 * n <= parts * n
      BY <1>1, Monotone
    <3> QED BY <1>1, <2>1, <3>1
  <2>2. CASE size >= least
    <3>1. least * parts <= size * parts
      BY <1>1, <1>3, <1>5, <2>2, Monotone
    <3> QED BY <1>1, <1>3, <1>5, <3>1
  <2> QED BY <1>4, <2>1, <2>2
<1>8. blocks <= parts
  <2> SUFFICES ASSUME parts + 1 <= blocks PROVE FALSE
    BY <1>1, <1>6
  <2>1. (parts + 1) * size <= blocks * size
    BY <1>1, <1>5, <1>6, Monotone
  <2>2. (parts + 1) * size = size * parts + size
    BY <1>1, <1>5
  <2> QED BY <1>1, <1>5, <1>6, <1>7, <2>1, <2>2
<1> QED
  BY <1>2, <1>6, <1>8 DEF parts

(* Steps that leave the arguments and the plan alone. *)
LEMMA PlanStays == ASSUME PlanOK, UNCHANGED PF!inputs, UNCHANGED PF!plan PROVE PlanOK'
BY DEF PlanOK, PF!inputs, PF!plan, BlockOK, FirstEfficiency, PF!FirstBlock, PF!BlockAlign

(* What the plan means for the ranges. *)
LEMMA PlanNumbers ==
  ASSUME PF!ParallelForAssumption, NoOverflow, ArgumentsOK, PlanOK
  PROVE  /\ n \in Nat /\ 2 * n <= IntMax /\ IntMax \in Nat
         /\ blockSize \in 1..n /\ align \in Nat \ {0}
BY ArgumentsAreNumbers DEF PlanOK, BlockOK

-----------------------------------------------------------------------------
(* Ranges and blocks are small enough for halving not to overflow. *)
Sized == IntMax \in Nat /\ n \in Nat /\ 2 * n <= IntMax /\ blockSize \in 1..n

(* A range that HandleRange may be called with: not empty, and cut at      *)
(* multiples of block_size.                                                *)
RangeOK(r) ==
  /\ r \in Nat \X Nat
  /\ r[1] < r[2] /\ r[2] <= n
  /\ IsMultiple(r[1], blockSize)

(* mid (device_thread_pool.h:206) is inside a range that does not fit a    *)
(* block, whatever its length, and a multiple of block_size: if it reached *)
(* the end, the range would be shorter than two blocks, its half than one, *)
(* and mid would be one block after the beginning.                         *)
LEMMA MidInside ==
  ASSUME Sized,
         NEW r, RangeOK(r), ~PF!Fits(r)
  PROVE  PF!Mid(r) \in Nat /\ r[1] < PF!Mid(r) /\ PF!Mid(r) < r[2]
         /\ IsMultiple(PF!Mid(r), blockSize)
<1> USE DEF Sized
<1>1. PICK a \in Nat, b \in Nat : r = <<a, b>>
  BY DEF RangeOK
<1>2. a < b /\ b <= n /\ b - a > blockSize /\ IsMultiple(a, blockSize)
      /\ blockSize \in Nat \ {0}
  BY <1>1 DEF RangeOK, PF!Fits
<1> DEFINE h == (b - a) \div 2
           k == PF!DivUp(h, blockSize)
<1>3. h \in Nat /\ 2 * h <= b - a /\ h >= 1 /\ h + blockSize <= IntMax
  BY <1>2
<1> HIDE DEF h
<1>4. RoundedUp(k, h, blockSize)
  BY <1>2, <1>3, DivUpRounds
<1> HIDE DEF k
<1>5. k \in Nat /\ h <= k * blockSize /\ k * blockSize < h + blockSize
  BY <1>4 DEF RoundedUp
<1>6. k >= 1
  BY <1>3, <1>5
<1>7. k * blockSize >= blockSize
  BY <1>2, <1>5, <1>6, Monotone
<1>8. k * blockSize < b - a
  <2>1. CASE k = 1
    BY <1>2, <2>1
  <2>2. CASE k >= 2
    <3>1. 2 * blockSize <= k * blockSize
      BY <1>2, <1>5, <2>2, Monotone
    <3> QED BY <1>1, <1>2, <1>3, <1>5, <3>1
  <2> QED BY <1>5, <1>6, <2>1, <2>2
<1>9. PF!Mid(r) = a + k * blockSize
  BY <1>1 DEF PF!Mid, k, h
<1>10. PICK j \in Int : a = j * blockSize
  BY <1>2, MultipleIs
<1>11. a + k * blockSize = (j + k) * blockSize /\ j + k \in Int
  BY <1>2, <1>5, <1>10
<1>12. IsMultiple((j + k) * blockSize, blockSize)
  BY <1>2, <1>11, MultipleOf
<1>13. k * blockSize \in Nat
  BY <1>2, <1>5
<1> QED
  BY <1>1, <1>2, <1>7, <1>8, <1>9, <1>11, <1>12, <1>13

(* A block begins at one multiple of block_size and holds no other. *)
LEMMA OneInBlock ==
  ASSUME n \in Nat, blockSize \in 1..n, NEW r, RangeOK(r), PF!Fits(r),
         NEW i \in PF!Indices(r), IsMultiple(i, blockSize)
  PROVE  i = r[1]
<1>1. PICK a \in Nat, b \in Nat : r = <<a, b>>
  BY DEF RangeOK
<1>2. /\ IsMultiple(a, blockSize) /\ b - a <= blockSize /\ blockSize \in Nat \ {0}
      /\ i \in Int /\ a <= i /\ i < b
  BY <1>1 DEF RangeOK, PF!Fits, PF!Indices
<1>3. i < a + blockSize
  BY <1>2
<1>4. a = i
  BY <1>2, <1>3, OneMultiple
<1> QED
  BY <1>1, <1>4

(* Whether block_size is n or not, ranges begin at multiples of align. *)
LEMMA RangesAligned ==
  ASSUME n \in Nat, n > 1, align \in Nat \ {0}, BlockOK(blockSize), NEW r, RangeOK(r)
  PROVE  r[1] % align = 0
<1>1. PICK a \in Nat, b \in Nat : r = <<a, b>>
  BY DEF RangeOK
<1>2. IsMultiple(a, blockSize) /\ a < n /\ blockSize \in Nat \ {0}
  BY <1>1 DEF RangeOK, BlockOK
<1>3. PICK j \in Int : a = j * blockSize
  BY <1>2, MultipleIs
<1>4. CASE blockSize = n
  <2>1. j < 1
    <3>1. j * n < 1 * n
      BY <1>2, <1>3, <1>4
    <3> SUFFICES ASSUME 1 <= j PROVE FALSE
      BY <1>3
    <3>2. 1 * n <= j * n
      BY Monotone
    <3> QED BY <3>1, <3>2
  <2>2. j >= 0
    <3> SUFFICES ASSUME j + 1 <= 0 PROVE FALSE
      BY <1>3
    <3>1. (j + 1) * n <= 0 * n
      BY Monotone
    <3> QED BY <1>3, <1>4, <3>1
  <2>3. j = 0
    BY <2>1, <2>2
  <2>4. a = 0
    BY <1>2, <1>3, <2>3
  <2> QED BY <1>1, <2>4
<1>5. CASE IsMultiple(blockSize, align)
  <2>1. PICK c \in Int : blockSize = c * align
    <3>1. blockSize \in Int
      BY <1>2
    <3> QED BY <1>5, <3>1, MultipleIs
  <2>2. a = (j * c) * align /\ j * c \in Int
    BY <1>3, <2>1
  <2>3. IsMultiple((j * c) * align, align)
    BY <2>2, MultipleOf
  <2> QED BY <1>1, <2>2, <2>3 DEF IsMultiple
<1> QED
  BY <1>4, <1>5 DEF BlockOK

(* The two halves of a range are ranges HandleRange may be called with. *)
LEMMA Halves ==
  ASSUME Sized,
         NEW r, RangeOK(r), ~PF!Fits(r)
  PROVE  /\ RangeOK(<<r[1], PF!Mid(r)>>) /\ RangeOK(<<PF!Mid(r), r[2]>>)
         /\ r[1] < PF!Mid(r) /\ PF!Mid(r) < r[2]
         /\ r[1] \in Nat /\ r[2] \in Nat /\ PF!Mid(r) \in Nat /\ r = <<r[1], r[2]>>
<1> USE DEF Sized
<1>1. PICK a \in Nat, b \in Nat : r = <<a, b>>
  BY DEF RangeOK
<1>2. r[1] = a /\ r[2] = b /\ b <= n /\ IsMultiple(a, blockSize)
  BY <1>1 DEF RangeOK
<1> DEFINE m == PF!Mid(r)
<1>3. m \in Nat /\ a < m /\ m < b /\ IsMultiple(m, blockSize)
  BY <1>2, MidInside
<1> HIDE DEF m
<1>4. RangeOK(<<a, m>>) /\ RangeOK(<<m, b>>)
  BY <1>2, <1>3 DEF RangeOK
<1> QED
  BY <1>1, <1>2, <1>3, <1>4 DEF m

-----------------------------------------------------------------------------
(* Ranges of which one ends before the other begins. *)
Disjoint(r, s) == r[2] <= s[1] \/ s[2] <= r[1]

(* Some range that is still to be worked on, or to be notified of, has i. *)
Open(i) == \/ \E r \in queue : i \in PF!Indices(r)
           \/ \E t \in PF!Runners : \E r \in PF!Held(t) : i \in PF!Indices(r)
Reached(i) == \/ \E r \in queue : i \in PF!Indices(r)
              \/ \E t \in PF!Runners : \E r \in PF!Claimed(t) : i \in PF!Indices(r)

(* Thread t handles a range that may be handled, and passes on or notifies *)
(* of it as its length says.                                               *)
ThreadOK(t) ==
  /\ hpc[t] # "idle" => RangeOK(range[t])
  /\ hpc[t] = "half" => ~PF!Fits(range[t])
  /\ hpc[t] = "notify" => PF!Fits(range[t])

(* Every range, queued or handled, may be handled. *)
RangesOK ==
  /\ hpc \in [PF!Runners -> {"idle", "range", "half", "notify"}]
  /\ range \in [PF!Runners -> Nat \X Nat]
  /\ covered \in [0..(n - 1) -> {0, 1}]
  /\ \A r \in queue : RangeOK(r)
  /\ \A t \in PF!Runners : ThreadOK(t)

(* No two ranges of the queue and the threads have an index in common. *)
Apart ==
  /\ \A r, s \in queue : r # s => Disjoint(r, s)
  /\ \A t, u \in PF!Runners : t # u
     => \A r \in PF!Claimed(t), s \in PF!Claimed(u) : Disjoint(r, s)
  /\ \A t \in PF!Runners : \A r \in queue, s \in PF!Claimed(t) : Disjoint(r, s)

(* f has been called on an index, or its range is still on the way to it. *)
CoveredOrOpen == \A i \in 0..(n - 1) : covered[i] = 0 <=> Open(i)

(* Everything that holds while the ranges are handled. *)
WorkOK == RangesOK /\ Apart /\ CoveredOrOpen /\ count_p = Cardinality(PF!BlocksToCome)

(* Disjoint ranges have no index in common. *)
LEMMA NoneInBoth ==
  ASSUME NEW r \in Nat \X Nat, NEW s \in Nat \X Nat, Disjoint(r, s), NEW i,
         i \in PF!Indices(r), i \in PF!Indices(s)
  PROVE  FALSE
BY DEF Disjoint, PF!Indices

(* What a thread has yet to pass on or to notify of is such a range. *)
LEMMA ClaimsOK ==
  ASSUME Sized,
         NEW t \in PF!Runners, ThreadOK(t), NEW r \in PF!Claimed(t)
  PROVE  RangeOK(r) /\ hpc[t] # "idle"
BY Halves DEF PF!Claimed, PF!Held, ThreadOK

(* A thread that has yet to call f has yet to notify. *)
LEMMA HeldIsClaimed == \A t \in PF!Runners : PF!Held(t) \subseteq PF!Claimed(t)
BY DEF PF!Held, PF!Claimed

(* A step of one thread leaves the ranges of the others alone. *)
LEMMA OthersStay ==
  ASSUME NEW u \in PF!Runners, hpc'[u] = hpc[u], range'[u] = range[u],
         UNCHANGED n, UNCHANGED blockSize
  PROVE  /\ PF!Held(u)' = PF!Held(u) /\ PF!Claimed(u)' = PF!Claimed(u)
         /\ ThreadOK(u) => ThreadOK(u)'
BY DEF PF!Held, PF!Claimed, PF!Mid, ThreadOK, RangeOK, PF!Fits

(* The index set of a range is that of its halves. *)
LEMMA HalvesCover ==
  ASSUME NEW a \in Nat, NEW b \in Nat, NEW c \in Nat, a < b, b < c
  PROVE  \A i : i \in PF!Indices(<<a, c>>)
         <=> i \in PF!Indices(<<a, b>>) \/ i \in PF!Indices(<<b, c>>)
BY DEF PF!Indices

(* When no index is reached that was not, or the reverse, the number of    *)
(* blocks to come stays.                                                   *)
LEMMA SameBlocks ==
  ASSUME UNCHANGED <<n, blockSize, count_p>>, \A i : Reached(i)' <=> Reached(i),
         count_p = Cardinality(PF!BlocksToCome)
  PROVE  (count_p = Cardinality(PF!BlocksToCome))'
<1>1. PF!BlocksToCome' = PF!BlocksToCome
  BY DEF PF!BlocksToCome, Reached
<1> QED
  BY <1>1

(* When no index is opened or closed, and f not called, CoveredOrOpen      *)
(* stays.                                                                  *)
LEMMA SameCoverage ==
  ASSUME UNCHANGED <<n, covered>>, \A i : Open(i)' <=> Open(i), CoveredOrOpen
  PROVE  CoveredOrOpen'
BY DEF CoveredOrOpen

(* f(first, last): each index of the range, not done before, is done       *)
(* (device_thread_pool.h:201-202).                                         *)
LEMMA LeafKeeps ==
  ASSUME Sized, WorkOK, NEW t \in PF!Runners, PF!HandleLeaf(t)
  PROVE  WorkOK'
<1>1. /\ hpc[t] = "range" /\ PF!Fits(range[t]) /\ hpc'[t] = "notify" /\ RangeOK(range[t])
      /\ UNCHANGED <<n, blockSize, queue, range, count_p>> /\ covered' = PF!Cover(range[t])
      /\ \A u \in PF!Runners : u # t => hpc'[u] = hpc[u]
  BY DEF PF!HandleLeaf, PF!inputs, PF!plan, PF!barrier, WorkOK, RangesOK, ThreadOK
<1>2. \A u \in PF!Runners : PF!Claimed(u)' = PF!Claimed(u)
  <2>1. PF!Claimed(t)' = PF!Claimed(t)
    BY <1>1 DEF PF!Claimed, PF!Held
  <2> QED BY <1>1, <2>1, OthersStay
<1>3. \A u \in PF!Runners : u # t => PF!Held(u)' = PF!Held(u) /\ ThreadOK(u)'
  BY <1>1, OthersStay DEF WorkOK, RangesOK
<1>4. PF!Held(t) = {range[t]} /\ PF!Held(t)' = {} /\ PF!Claimed(t) = {range[t]}
  BY <1>1 DEF PF!Held, PF!Claimed
<1>5. ThreadOK(t)' /\ \A r \in queue : RangeOK(r)'
  BY <1>1 DEF ThreadOK, PF!Fits, RangeOK, WorkOK, RangesOK
<1>6. \A i \in 0..(n - 1) :
         covered'[i] = IF i \in PF!Indices(range[t]) THEN covered[i] + 1 ELSE covered[i]
  BY <1>1 DEF PF!Cover, WorkOK, RangesOK
<1>7. \A i \in 0..(n - 1) : i \in PF!Indices(range[t]) => covered[i] = 0
  BY <1>4 DEF WorkOK, CoveredOrOpen, Open
<1>8. covered' \in [0..(n - 1) -> {0, 1}]
  <2>1. covered' = [i \in 0..(n - 1) |-> covered'[i]]
    BY <1>1 DEF PF!Cover, WorkOK, RangesOK
  <2>2. \A i \in 0..(n - 1) : covered'[i] \in {0, 1}
    BY <1>6, <1>7 DEF WorkOK, RangesOK
  <2> QED BY <2>1, <2>2
<1>9. RangesOK'
  BY <1>1, <1>3, <1>5, <1>8 DEF WorkOK, RangesOK, PF!HandleLeaf
<1>10. Apart'
  BY <1>1, <1>2 DEF WorkOK, Apart, Disjoint
<1>11. CoveredOrOpen'
  <2> SUFFICES ASSUME NEW i \in 0..(n - 1) PROVE covered'[i] = 0 <=> Open(i)'
    BY <1>1 DEF CoveredOrOpen
  <2>1. CASE i \in PF!Indices(range[t])
    <3>1. covered'[i] = 1
      BY <1>6, <1>7, <2>1
    <3>2. \A r \in queue : i \notin PF!Indices(r)
      <4> SUFFICES ASSUME NEW r \in queue, i \in PF!Indices(r) PROVE FALSE
        OBVIOUS
      <4>1. Disjoint(r, range[t]) /\ r \in Nat \X Nat /\ range[t] \in Nat \X Nat
        BY <1>1, <1>4 DEF WorkOK, Apart, RangesOK, RangeOK
      <4> QED BY <2>1, <4>1, NoneInBoth
    <3>3. \A u \in PF!Runners : u # t => \A r \in PF!Held(u) : i \notin PF!Indices(r)
      <4> SUFFICES ASSUME NEW u \in PF!Runners, u # t, NEW r \in PF!Held(u),
          i \in PF!Indices(r) PROVE FALSE
        OBVIOUS
      <4>1. Disjoint(r, range[t])
        BY <1>4, HeldIsClaimed DEF WorkOK, Apart
      <4>2. r \in Nat \X Nat /\ range[t] \in Nat \X Nat
        BY <1>1, ClaimsOK, HeldIsClaimed DEF RangeOK, WorkOK, RangesOK
      <4> QED BY <2>1, <4>1, <4>2, NoneInBoth
    <3>4. ~Open(i)'
      BY <1>1, <1>3, <1>4, <3>2, <3>3 DEF Open
    <3> QED BY <3>1, <3>4
  <2>2. CASE i \notin PF!Indices(range[t])
    <3>1. covered'[i] = covered[i]
      BY <1>6, <2>2
    <3>2. Open(i)' <=> Open(i)
      BY <1>1, <1>3, <1>4, <2>2 DEF Open
    <3> QED BY <3>1, <3>2 DEF WorkOK, CoveredOrOpen
  <2> QED BY <2>1, <2>2
<1>12. (count_p = Cardinality(PF!BlocksToCome))'
  <2>1. \A i : Reached(i)' <=> Reached(i)
    BY <1>1, <1>2 DEF Reached
  <2> QED BY <1>1, <2>1, SameBlocks DEF WorkOK
<1> QED
  BY <1>9, <1>10, <1>11, <1>12 DEF WorkOK

(* The upper half is scheduled, the lower one kept: together they have the *)
(* indices of the range (device_thread_pool.h:206-207).                    *)
LEMMA UpperKeeps ==
  ASSUME Sized, WorkOK, NEW t \in PF!Runners, PF!ScheduleUpper(t)
  PROVE  WorkOK'
<1> DEFINE a == range[t][1]
           m == PF!Mid(range[t])
           b == range[t][2]
<1>1. /\ hpc[t] = "range" /\ ~PF!Fits(range[t]) /\ hpc'[t] = "half" /\ RangeOK(range[t])
      /\ UNCHANGED <<n, blockSize, range, covered, count_p>> /\ queue' = queue \cup {<<m, b>>}
      /\ \A u \in PF!Runners : u # t => hpc'[u] = hpc[u]
  BY DEF PF!ScheduleUpper, PF!inputs, PF!plan, PF!barrier, WorkOK, RangesOK, ThreadOK
<1>2. /\ RangeOK(<<a, m>>) /\ RangeOK(<<m, b>>) /\ a < m /\ m < b
      /\ a \in Nat /\ b \in Nat /\ m \in Nat /\ range[t] = <<a, b>>
  BY <1>1, Halves
<1>3. PF!Claimed(t) = {<<a, b>>} /\ PF!Claimed(t)' = {<<a, m>>}
      /\ PF!Held(t) = {<<a, b>>} /\ PF!Held(t)' = {<<a, m>>}
  BY <1>1, <1>2 DEF PF!Claimed, PF!Held, PF!Mid
<1>4. ThreadOK(t)'
  BY <1>1 DEF ThreadOK, RangeOK, PF!Fits
<1> HIDE DEF a, m, b
<1>5. \A u \in PF!Runners : u # t => PF!Held(u)' = PF!Held(u)
      /\ PF!Claimed(u)' = PF!Claimed(u) /\ ThreadOK(u)'
  BY <1>1, OthersStay DEF WorkOK, RangesOK
<1>6. \A r \in queue' : RangeOK(r)'
  BY <1>1, <1>2 DEF RangeOK, WorkOK, RangesOK
<1>7. RangesOK'
  BY <1>1, <1>4, <1>5, <1>6 DEF WorkOK, RangesOK, PF!ScheduleUpper
<1>8. \A r \in queue : Disjoint(r, <<a, b>>)
  BY <1>3 DEF WorkOK, Apart
<1>9. \A u \in PF!Runners : u # t => \A r \in PF!Claimed(u) : Disjoint(r, <<a, b>>)
  BY <1>3 DEF WorkOK, Apart
<1>10. \A r : RangeOK(r) /\ Disjoint(r, <<a, b>>) =>
          /\ Disjoint(r, <<a, m>>) /\ Disjoint(<<a, m>>, r)
          /\ Disjoint(r, <<m, b>>) /\ Disjoint(<<m, b>>, r)
  BY <1>2 DEF Disjoint, RangeOK
<1>11. Disjoint(<<a, m>>, <<m, b>>) /\ Disjoint(<<m, b>>, <<a, m>>)
  BY <1>2 DEF Disjoint
<1>12. \A u \in PF!Runners : \A r \in PF!Claimed(u) : RangeOK(r)
  BY ClaimsOK DEF WorkOK, RangesOK
<1>13. Apart'
  <2>1. \A r, s \in queue' : r # s => Disjoint(r, s)
    <3>1. \A r, s \in queue : r # s => Disjoint(r, s)
      BY DEF WorkOK, Apart
    <3>2. \A r \in queue : Disjoint(r, <<m, b>>) /\ Disjoint(<<m, b>>, r)
      BY <1>8, <1>10 DEF WorkOK, RangesOK
    <3> QED BY <1>1, <3>1, <3>2
  <2>2. \A u, v \in PF!Runners : u # v
        => \A r \in PF!Claimed(u)', s \in PF!Claimed(v)' : Disjoint(r, s)
    BY <1>3, <1>5, <1>9, <1>10, <1>12 DEF WorkOK, Apart
  <2>3. \A u \in PF!Runners : \A r \in queue', s \in PF!Claimed(u)' : Disjoint(r, s)
    <3>1. \A u \in PF!Runners : \A r \in queue, s \in PF!Claimed(u) : Disjoint(r, s)
      BY DEF WorkOK, Apart
    <3>2. \A r \in queue : Disjoint(r, <<a, m>>)
      BY <1>8, <1>10 DEF WorkOK, RangesOK
    <3>3. \A u \in PF!Runners : u # t => \A s \in PF!Claimed(u) : Disjoint(<<m, b>>, s)
      BY <1>9, <1>10, <1>12
    <3> QED BY <1>1, <1>3, <1>5, <1>11, <3>1, <3>2, <3>3
  <2> QED BY <2>1, <2>2, <2>3 DEF Apart, Disjoint
<1>14. \A i : i \in PF!Indices(<<a, b>>)
       <=> i \in PF!Indices(<<a, m>>) \/ i \in PF!Indices(<<m, b>>)
  BY <1>2, HalvesCover
<1>15. CoveredOrOpen'
  <2>1. \A i : Open(i)' <=> Open(i)
    BY <1>1, <1>3, <1>5, <1>14 DEF Open
  <2> QED BY <1>1, <2>1, SameCoverage DEF WorkOK
<1>16. (count_p = Cardinality(PF!BlocksToCome))'
  <2>1. \A i : Reached(i)' <=> Reached(i)
    BY <1>1, <1>3, <1>5, <1>14 DEF Reached
  <2> QED BY <1>1, <2>1, SameBlocks DEF WorkOK
<1> QED
  BY <1>7, <1>13, <1>15, <1>16 DEF WorkOK

(* The lower half is scheduled (device_thread_pool.h:208-209). *)
LEMMA LowerKeeps ==
  ASSUME Sized, WorkOK, NEW t \in PF!Runners, PF!ScheduleLower(t)
  PROVE  WorkOK'
<1> DEFINE r == <<range[t][1], PF!Mid(range[t])>>
<1>1. /\ hpc[t] = "half" /\ hpc'[t] = "idle" /\ ThreadOK(t)
      /\ UNCHANGED <<n, blockSize, covered, count_p>> /\ queue' = queue \cup {r}
      /\ \A u \in PF!Runners : u # t => hpc'[u] = hpc[u] /\ range'[u] = range[u]
  BY DEF PF!ScheduleLower, PF!Leave, PF!inputs, PF!plan, PF!barrier, WorkOK, RangesOK
<1>2. hpc' \in [PF!Runners -> {"idle", "range", "half", "notify"}]
      /\ range' \in [PF!Runners -> Nat \X Nat]
  BY DEF PF!ScheduleLower, PF!Leave, WorkOK, RangesOK
<1>3. RangeOK(r)
  BY <1>1, Halves DEF ThreadOK
<1>4. PF!Claimed(t) = {r} /\ PF!Claimed(t)' = {} /\ PF!Held(t) = {r} /\ PF!Held(t)' = {}
      /\ ThreadOK(t)'
  BY <1>1 DEF PF!Claimed, PF!Held, ThreadOK
<1> HIDE DEF r
<1>5. \A u \in PF!Runners : u # t => PF!Held(u)' = PF!Held(u)
      /\ PF!Claimed(u)' = PF!Claimed(u) /\ ThreadOK(u)'
  BY <1>1, OthersStay DEF WorkOK, RangesOK
<1>6. \A s \in queue' : RangeOK(s)'
  BY <1>1, <1>3 DEF RangeOK, WorkOK, RangesOK
<1>7. RangesOK'
  BY <1>1, <1>2, <1>4, <1>5, <1>6 DEF WorkOK, RangesOK
<1>8. Apart'
  <2>1. \A s \in queue : Disjoint(s, r) /\ Disjoint(r, s)
    BY <1>4 DEF WorkOK, Apart, Disjoint
  <2>2. \A u \in PF!Runners : u # t => \A s \in PF!Claimed(u) : Disjoint(r, s)
    BY <1>4 DEF WorkOK, Apart
  <2>3. \A s, v \in queue' : s # v => Disjoint(s, v)
    BY <1>1, <2>1 DEF WorkOK, Apart
  <2>4. \A u, v \in PF!Runners : u # v
        => \A s \in PF!Claimed(u)', w \in PF!Claimed(v)' : Disjoint(s, w)
    BY <1>4, <1>5 DEF WorkOK, Apart
  <2>5. \A u \in PF!Runners : \A s \in queue', w \in PF!Claimed(u)' : Disjoint(s, w)
    BY <1>1, <1>4, <1>5, <2>2 DEF WorkOK, Apart
  <2> QED BY <2>3, <2>4, <2>5 DEF Apart, Disjoint
<1>9. CoveredOrOpen'
  <2>1. \A i : Open(i)' <=> Open(i)
    BY <1>1, <1>4, <1>5 DEF Open
  <2> QED BY <1>1, <2>1, SameCoverage DEF WorkOK
<1>10. (count_p = Cardinality(PF!BlocksToCome))'
  <2>1. \A i : Reached(i)' <=> Reached(i)
    BY <1>1, <1>4, <1>5 DEF Reached
  <2> QED BY <1>1, <2>1, SameBlocks DEF WorkOK
<1> QED
  BY <1>7, <1>8, <1>9, <1>10 DEF WorkOK

(* A range goes from the queue to a worker (simple_thread_pool.h:98-108). *)
LEMMA TakeKeeps ==
  ASSUME Sized, WorkOK, NEW t \in PF!Runners, NEW r \in queue, PF!Take(t, r)
  PROVE  WorkOK'
<1>1. /\ hpc[t] = "idle" /\ hpc'[t] = "range" /\ range'[t] = r /\ RangeOK(r)
      /\ UNCHANGED <<n, blockSize, covered, count_p>> /\ queue' = queue \ {r}
      /\ \A u \in PF!Runners : u # t => hpc'[u] = hpc[u] /\ range'[u] = range[u]
  BY DEF PF!Take, PF!inputs, PF!plan, PF!barrier, WorkOK, RangesOK
<1>2. hpc' \in [PF!Runners -> {"idle", "range", "half", "notify"}]
      /\ range' \in [PF!Runners -> Nat \X Nat]
  BY <1>1 DEF PF!Take, WorkOK, RangesOK, RangeOK
<1>3. PF!Claimed(t) = {} /\ PF!Claimed(t)' = {r} /\ PF!Held(t) = {} /\ PF!Held(t)' = {r}
      /\ ThreadOK(t)'
  BY <1>1 DEF PF!Claimed, PF!Held, ThreadOK, RangeOK
<1>4. \A u \in PF!Runners : u # t => PF!Held(u)' = PF!Held(u)
      /\ PF!Claimed(u)' = PF!Claimed(u) /\ ThreadOK(u)'
  BY <1>1, OthersStay DEF WorkOK, RangesOK
<1>5. \A s \in queue' : RangeOK(s)'
  BY <1>1 DEF RangeOK, WorkOK, RangesOK
<1>6. RangesOK'
  BY <1>1, <1>2, <1>3, <1>4, <1>5 DEF WorkOK, RangesOK
<1>7. Apart'
  <2>1. \A s \in queue' : Disjoint(s, r)
    BY <1>1 DEF WorkOK, Apart, Disjoint
  <2>2. \A u \in PF!Runners : u # t => \A s \in PF!Claimed(u) : Disjoint(r, s)
        /\ Disjoint(s, r)
    BY DEF WorkOK, Apart, Disjoint
  <2>3. \A s, v \in queue' : s # v => Disjoint(s, v)
    BY <1>1 DEF WorkOK, Apart
  <2>4. \A u, v \in PF!Runners : u # v
        => \A s \in PF!Claimed(u)', w \in PF!Claimed(v)' : Disjoint(s, w)
    BY <1>3, <1>4, <2>2 DEF WorkOK, Apart
  <2>5. \A u \in PF!Runners : \A s \in queue', w \in PF!Claimed(u)' : Disjoint(s, w)
    BY <1>1, <1>3, <1>4, <2>1 DEF WorkOK, Apart
  <2> QED BY <2>3, <2>4, <2>5 DEF Apart, Disjoint
<1>8. CoveredOrOpen'
  <2>1. \A i : Open(i)' <=> Open(i)
    BY <1>1, <1>3, <1>4 DEF Open
  <2> QED BY <1>1, <2>1, SameCoverage DEF WorkOK
<1>9. (count_p = Cardinality(PF!BlocksToCome))'
  <2>1. \A i : Reached(i)' <=> Reached(i)
    BY <1>1, <1>3, <1>4 DEF Reached
  <2> QED BY <1>1, <2>1, SameBlocks DEF WorkOK
<1> QED
  BY <1>6, <1>7, <1>8, <1>9 DEF WorkOK

(* The blocks to come can be counted. *)
LEMMA BlocksFinite ==
  ASSUME n \in Nat
  PROVE  IsFiniteSet(PF!BlocksToCome) /\ Cardinality(PF!BlocksToCome) \in Nat
<1>1. IsFiniteSet(0..(n - 1))
  BY FS_Interval
<1>2. PF!BlocksToCome \subseteq 0..(n - 1)
  BY DEF PF!BlocksToCome
<1> QED
  BY <1>1, <1>2, FS_Subset, FS_CardinalityType

(* barrier.Notify() (device_thread_pool.h:203): one block less to come,    *)
(* one less expected.                                                      *)
LEMMA NotifyKeeps ==
  ASSUME Sized, WorkOK, NEW t \in PF!Runners, PF!NotifyBarrier(t)
  PROVE  WorkOK'
<1> DEFINE r == range[t]
           a == range[t][1]
<1>1. /\ hpc[t] = "notify" /\ hpc'[t] = "idle" /\ ThreadOK(t)
      /\ UNCHANGED <<n, blockSize, covered, queue>> /\ count_p' = count_p - 1
      /\ \A u \in PF!Runners : u # t => hpc'[u] = hpc[u] /\ range'[u] = range[u]
  BY DEF PF!NotifyBarrier, PF!B!Notify, PF!Leave, PF!inputs, PF!plan, WorkOK, RangesOK
<1>2. hpc' \in [PF!Runners -> {"idle", "range", "half", "notify"}]
      /\ range' \in [PF!Runners -> Nat \X Nat]
  BY DEF PF!NotifyBarrier, PF!Leave, WorkOK, RangesOK
<1>3. PF!Claimed(t) = {r} /\ PF!Claimed(t)' = {} /\ PF!Held(t) = {} /\ PF!Held(t)' = {}
      /\ ThreadOK(t)'
  BY <1>1 DEF PF!Claimed, PF!Held, ThreadOK
<1>4. RangeOK(r) /\ PF!Fits(r)
  BY <1>1 DEF ThreadOK
<1>5. a \in PF!Indices(r) /\ a \in 0..(n - 1) /\ IsMultiple(a, blockSize) /\ r \in Nat \X Nat
  BY <1>4 DEF RangeOK, PF!Indices, Sized
<1>6. \A i \in PF!Indices(r) : IsMultiple(i, blockSize) => i = a
  BY <1>4, OneInBlock DEF Sized
<1> HIDE DEF r, a
<1>7. \A u \in PF!Runners : u # t => PF!Held(u)' = PF!Held(u)
      /\ PF!Claimed(u)' = PF!Claimed(u) /\ ThreadOK(u)'
  BY <1>1, OthersStay DEF WorkOK, RangesOK
<1>8. RangesOK'
  BY <1>1, <1>2, <1>3, <1>7 DEF WorkOK, RangesOK, RangeOK
<1>9. Apart'
  BY <1>1, <1>3, <1>7 DEF WorkOK, Apart, Disjoint
<1>10. CoveredOrOpen'
  <2>1. \A i : Open(i)' <=> Open(i)
    BY <1>1, <1>3, <1>7 DEF Open
  <2> QED BY <1>1, <2>1, SameCoverage DEF WorkOK
<1>11. PF!BlocksToCome' = PF!BlocksToCome \ {a}
  <2>1. \A i \in PF!Indices(r) : \A s \in queue : i \notin PF!Indices(s)
    BY <1>3, <1>5, NoneInBoth DEF WorkOK, Apart, RangesOK, RangeOK
  <2>2. \A i \in PF!Indices(r) : \A u \in PF!Runners : u # t
        => \A s \in PF!Claimed(u) : i \notin PF!Indices(s)
    BY <1>3, <1>5, NoneInBoth, ClaimsOK DEF WorkOK, Apart, RangesOK, RangeOK
  <2>3. \A i : Reached(i)' <=> Reached(i) /\ i \notin PF!Indices(r)
    BY <1>1, <1>3, <1>7, <2>1, <2>2 DEF Reached
  <2>4. \A i : i \in PF!BlocksToCome <=> i \in 0..(n - 1) /\ IsMultiple(i, blockSize)
        /\ Reached(i)
    BY DEF PF!BlocksToCome, Reached, IsMultiple
  <2>5. \A i : i \in PF!BlocksToCome' <=> i \in 0..(n - 1) /\ IsMultiple(i, blockSize)
        /\ Reached(i)'
    BY <1>1 DEF PF!BlocksToCome, Reached, IsMultiple
  <2> QED BY <1>5, <1>6, <2>3, <2>4, <2>5
<1>12. a \in PF!BlocksToCome
  BY <1>3, <1>5 DEF PF!BlocksToCome, IsMultiple
<1>13. Cardinality(PF!BlocksToCome \ {a}) = Cardinality(PF!BlocksToCome) - 1
  BY <1>12, BlocksFinite, FS_RemoveElement DEF Sized
<1>14. (count_p = Cardinality(PF!BlocksToCome))'
  BY <1>1, <1>11, <1>13 DEF WorkOK
<1> QED
  BY <1>8, <1>9, <1>10, <1>14 DEF WorkOK

-----------------------------------------------------------------------------
(* Before Start nothing is shared. *)
Fresh ==
  /\ queue = {}
  /\ hpc = [t \in PF!Runners |-> "idle"]
  /\ range = [t \in PF!Runners |-> <<0, 0>>]
  /\ covered = [i \in 0..(n - 1) |-> 0]
  /\ PF!B!Construct(0)

(* block_count is the number of blocks that [0, n) is cut into. *)
LEMMA BlocksOfAll ==
  ASSUME Sized, NEW k, RoundedUp(k, n, blockSize)
  PROVE  Cardinality({i \in 0..(n - 1) : IsMultiple(i, blockSize)}) = k
<1> DEFINE S == {i \in 0..(n - 1) : IsMultiple(i, blockSize)}
           begin == [j \in 1..k |-> (j - 1) * blockSize]
<1>1. k \in Nat /\ n <= k * blockSize /\ k * blockSize < n + blockSize
  BY DEF RoundedUp
<1>2. n \in Nat /\ blockSize \in Nat \ {0}
  BY DEF Sized
<1>3. ASSUME NEW j \in 1..k PROVE (j - 1) * blockSize \in S
  <2>1. j * blockSize <= k * blockSize
    BY <1>1, <1>2, <1>3, Monotone
  <2>2. 0 * blockSize <= (j - 1) * blockSize
    BY <1>2, Monotone
  <2>3. (j - 1) * blockSize = j * blockSize - blockSize /\ (j - 1) * blockSize \in Int
    BY <1>2
  <2>4. IsMultiple((j - 1) * blockSize, blockSize)
    <3>1. j - 1 \in Int
      OBVIOUS
    <3> QED BY <1>2, <3>1, MultipleOf
  <2> QED BY <1>1, <1>2, <2>1, <2>2, <2>3, <2>4
<1>4. ASSUME NEW j1 \in 1..k, NEW j2 \in 1..k,
      (j1 - 1) * blockSize = (j2 - 1) * blockSize PROVE j1 = j2
  <2>1. j1 - 1 <= j2 - 1 /\ j2 - 1 <= j1 - 1
    BY <1>2, <1>4, Cancels
  <2> QED BY <2>1
<1>5. ASSUME NEW i \in S PROVE \E j \in 1..k : (j - 1) * blockSize = i
  <2>1. i \in 0..(n - 1) /\ IsMultiple(i, blockSize)
    OBVIOUS
  <2>2. PICK x \in Int : i = x * blockSize
    BY <1>2, <2>1, MultipleIs
  <2>3. x >= 0
    <3> SUFFICES ASSUME x + 1 <= 0 PROVE FALSE
      OBVIOUS
    <3>1. (x + 1) * blockSize <= 0 * blockSize
      BY <1>2, Monotone
    <3> QED BY <1>2, <2>1, <2>2, <3>1
  <2>4. x < k
    <3> SUFFICES ASSUME k <= x PROVE FALSE
      BY <1>1
    <3>1. k * blockSize <= x * blockSize
      BY <1>1, <1>2, Monotone
    <3> QED BY <1>1, <1>2, <2>1, <2>2, <3>1
  <2>5. x + 1 \in 1..k /\ ((x + 1) - 1) * blockSize = i
    BY <1>1, <2>2, <2>3, <2>4
  <2> QED BY <2>5
<1> HIDE DEF S
<1>6. begin \in Bijection(1..k, S)
  <2>1. begin \in [1..k -> S]
    BY <1>3
  <2>2. \A j1, j2 \in 1..k : begin[j1] = begin[j2] => j1 = j2
    BY <1>4
  <2>3. \A i \in S : \E j \in 1..k : begin[j] = i
    BY <1>5
  <2> QED BY <2>1, <2>2, <2>3 DEF Bijection, Injection, Surjection, IsInjective
<1>7. ExistsBijection(1..k, S)
  BY <1>6 DEF ExistsBijection
<1>8. IsFiniteSet(1..k) /\ Cardinality(1..k) = k
  BY <1>1, FS_Interval
<1>9. Cardinality(S) = k
  BY <1>7, <1>8, FS_Bijection
<1> QED
  BY <1>9 DEF S

(* Barrier(block_count) and HandleRange(0, n)                              *)
(* (device_thread_pool.h:198-210): the barrier expects as many blocks as   *)
(* there are in [0, n).                                                    *)
LEMMA StartWorks ==
  ASSUME PF!ParallelForAssumption, NoOverflow, ArgumentsOK, PlanOK, Fresh, PF!Start
  PROVE  WorkOK'
<1>1. Sized /\ blockCount \in Nat /\ n > 1
  BY PlanNumbers DEF Sized, PlanOK, RoundedUp
<1>2. /\ UNCHANGED <<n, blockSize, queue, covered>> /\ count_p' = blockCount /\ queue = {}
      /\ hpc' = [hpc EXCEPT ![Caller] = "range"]
         /\ range' = [range EXCEPT ![Caller] = <<0, n>>]
      /\ Caller \in PF!Runners
  BY <1>1 DEF PF!Start, PF!inputs, PF!plan, Fresh, PF!Runners
<1>3. /\ hpc'[Caller] = "range" /\ range'[Caller] = <<0, n>>
      /\ \A u \in PF!Runners : u # Caller => hpc'[u] = "idle"
  BY <1>2 DEF Fresh
<1>4. /\ PF!Claimed(Caller)' = {<<0, n>>} /\ PF!Held(Caller)' = {<<0, n>>}
      /\ \A u \in PF!Runners : u # Caller => PF!Claimed(u)' = {} /\ PF!Held(u)' = {}
         /\ ThreadOK(u)'
  BY <1>3 DEF PF!Claimed, PF!Held, ThreadOK
<1>5. RangeOK(<<0, n>>)'
  <2>1. IsMultiple(0, blockSize)
    BY <1>1 DEF IsMultiple, Sized
  <2> QED BY <1>1, <1>2, <2>1 DEF RangeOK, Sized
<1>6. RangesOK'
  <2>1. hpc' \in [PF!Runners -> {"idle", "range", "half", "notify"}]
        /\ range' \in [PF!Runners -> Nat \X Nat]
    BY <1>1, <1>2 DEF Fresh, Sized
  <2>2. covered' \in [0..(n' - 1) -> {0, 1}]
    BY <1>2 DEF Fresh
  <2>3. ThreadOK(Caller)'
    BY <1>2, <1>3, <1>5 DEF ThreadOK, RangeOK
  <2> QED BY <1>2, <1>4, <2>1, <2>2, <2>3 DEF RangesOK
<1>7. Apart'
  BY <1>2, <1>4 DEF Apart
<1>8. \A i \in 0..(n - 1) : i \in PF!Indices(<<0, n>>)
  BY DEF PF!Indices
<1>9. CoveredOrOpen'
  BY <1>2, <1>4, <1>8 DEF CoveredOrOpen, Open, Fresh
<1>10. PF!BlocksToCome' = {i \in 0..(n - 1) : IsMultiple(i, blockSize)}
  BY <1>2, <1>4, <1>8 DEF PF!BlocksToCome, IsMultiple
<1>11. Cardinality({i \in 0..(n - 1) : IsMultiple(i, blockSize)}) = blockCount
  BY <1>1, BlocksOfAll DEF PlanOK
<1> QED
  BY <1>2, <1>6, <1>7, <1>9, <1>10, <1>11 DEF WorkOK

(* Steps that concern neither ranges nor the count. *)
LEMMA WorkStays ==
  ASSUME UNCHANGED <<n, blockSize, queue, hpc, range, covered, count_p>>, WorkOK
  PROVE  WorkOK'
<1>1. \A u \in PF!Runners : PF!Held(u)' = PF!Held(u) /\ PF!Claimed(u)' = PF!Claimed(u)
      /\ (ThreadOK(u) => ThreadOK(u)')
  BY OthersStay
<1>2. RangesOK'
  BY <1>1 DEF WorkOK, RangesOK, RangeOK
<1>3. Apart'
  BY <1>1 DEF WorkOK, Apart, Disjoint
<1>4. CoveredOrOpen'
  BY <1>1 DEF WorkOK, CoveredOrOpen, Open
<1>5. (count_p = Cardinality(PF!BlocksToCome))'
  <2>1. \A i : Reached(i)' <=> Reached(i)
    BY <1>1 DEF Reached
  <2> QED BY <2>1, SameBlocks DEF WorkOK
<1> QED
  BY <1>2, <1>3, <1>4, <1>5 DEF WorkOK

(* When no block is left there is nothing left at all. *)
LEMMA NoBlocksNoWork ==
  ASSUME Sized, WorkOK, count_p = 0
  PROVE  /\ queue = {} /\ \A t \in PF!Runners : hpc[t] = "idle"
         /\ \A i \in 0..(n - 1) : covered[i] = 1
<1>1. PF!BlocksToCome = {}
  BY BlocksFinite, FS_EmptySet DEF WorkOK, Sized
<1>2. \A r : RangeOK(r) => r[1] \in PF!Indices(r) /\ r[1] \in 0..(n - 1)
      /\ r[1] % blockSize = 0
  BY DEF RangeOK, PF!Indices, Sized, IsMultiple
<1>3. queue = {}
  BY <1>1, <1>2 DEF PF!BlocksToCome, WorkOK, RangesOK
<1>4. \A t \in PF!Runners : PF!Claimed(t) = {}
  BY <1>1, <1>2, ClaimsOK DEF PF!BlocksToCome, WorkOK, RangesOK
<1>5. \A t \in PF!Runners : hpc[t] = "idle" /\ PF!Held(t) = {}
  BY <1>4 DEF PF!Claimed, PF!Held, WorkOK, RangesOK
<1>6. \A i \in 0..(n - 1) : covered[i] = 1
  BY <1>3, <1>5 DEF WorkOK, RangesOK, CoveredOrOpen, Open
<1> QED
  BY <1>3, <1>5, <1>6

(* EachIndexOnce counts the places an index is in: exactly one. *)
LEMMA WorkEachIndexOnce ==
  ASSUME Sized, WorkOK PROVE PF!EachIndexOnce
<1> SUFFICES ASSUME NEW i \in 0..(n - 1)
             PROVE  1 = covered[i] + Cardinality({r \in queue : i \in PF!Indices(r)})
                          + Cardinality({t \in PF!Runners :
                                           \E r \in PF!Held(t) : i \in PF!Indices(r)})
  BY SameCounting DEF PF!EachIndexOnce
<1> DEFINE Q == {r \in queue : i \in PF!Indices(r)}
           H == {t \in PF!Runners : \E r \in PF!Held(t) : i \in PF!Indices(r)}
<1>1. covered[i] \in {0, 1} /\ (covered[i] = 0 <=> Q # {} \/ H # {})
  BY DEF WorkOK, RangesOK, CoveredOrOpen, Open
<1>2. \A r, s \in Q : r = s
  BY NoneInBoth DEF WorkOK, Apart, RangesOK, RangeOK
<1>3. \A t \in PF!Runners : \A r \in PF!Held(t) : r \in Nat \X Nat /\ r \in PF!Claimed(t)
  BY ClaimsOK, HeldIsClaimed DEF RangeOK, WorkOK, RangesOK
<1>4. \A t, u \in H : t = u
  BY <1>3, NoneInBoth DEF WorkOK, Apart
<1>5. Q = {} \/ H = {}
  BY <1>3, NoneInBoth DEF WorkOK, Apart, RangesOK, RangeOK
<1>6. Cardinality({}) = 0
  BY FS_EmptySet
<1>7. Q # {} => Cardinality(Q) = 1
  <2> SUFFICES ASSUME NEW r \in Q PROVE Cardinality(Q) = 1
    OBVIOUS
  <2>1. Q = {r}
    BY <1>2
  <2> HIDE DEF Q
  <2> QED BY <2>1, FS_Singleton
<1>8. H # {} => Cardinality(H) = 1
  <2> SUFFICES ASSUME NEW t \in H PROVE Cardinality(H) = 1
    OBVIOUS
  <2>1. H = {t}
    BY <1>4
  <2> HIDE DEF H
  <2> QED BY <2>1, FS_Singleton
<1> HIDE DEF Q, H
<1>9. 1 = covered[i] + Cardinality(Q) + Cardinality(H)
  BY <1>1, <1>5, <1>6, <1>7, <1>8
<1> QED
  BY <1>9 DEF Q, H

-----------------------------------------------------------------------------
(* The inductive invariant of ParallelFor, by the place of the caller. *)
ForInv ==
  /\ ArgumentsOK
  /\ pc \in {"enter", "coarsen", "handle", "wait", "returned", "threw"}
  /\ pc \in {"enter", "coarsen", "threw"} => Fresh
  /\ pc \in {"coarsen", "handle", "wait"} => PlanOK
  /\ PF!Working => WorkOK
  /\ PF!ReturnMeansAllDone
  /\ PF!B!BarrierInv

(* The barrier of ParallelFor is an instance of module Barrier. *)
LEMMA BarrierConstants == ASSUME PF!ParallelForAssumption PROVE PF!B!BarrierAssumption
BY DEF PF!ParallelForAssumption, PF!B!BarrierAssumption, PF!Runners

(* The call has not begun. *)
LEMMA ForInitially == ASSUME PF!ParallelForAssumption PROVE PF!Init => ForInv
<1> SUFFICES ASSUME PF!Init PROVE ForInv
  OBVIOUS
<1>1. PF!B!BarrierInv
  BY BarrierConstants, PF!B!BarrierConstructed DEF PF!Init
<1> QED
  BY <1>1 DEF PF!Init, ForInv, ArgumentsOK, Fresh, PF!Working, PF!ReturnMeansAllDone

(* Every step on the barrier of ParallelFor is one of module Barrier. *)
LEMMA BarrierStepKeeps ==
  ASSUME PF!ParallelForAssumption, PF!B!BarrierInv, [PF!B!Next]_(PF!B!vars)
  PROVE  PF!B!BarrierInv'
BY BarrierConstants, PF!B!BarrierNextInv

(* Steps that leave the barrier alone. *)
LEMMA BarrierStands ==
  ASSUME PF!ParallelForAssumption, PF!B!BarrierInv, UNCHANGED PF!barrier
  PROVE  PF!B!BarrierInv'
BY BarrierStepKeeps DEF PF!barrier, PF!B!vars

(* The barrier of the caller's block_count. *)
LEMMA BarrierOfBlocks ==
  ASSUME PF!ParallelForAssumption, PlanOK, Fresh, PF!B!BarrierInv, PF!Start
  PROVE  PF!B!BarrierInv'
<1>1. blockCount \in Nat /\ total_p' = blockCount /\ count_p' = blockCount
  BY DEF PlanOK, RoundedUp, PF!Start
<1>2. UNCHANGED <<waiting_p, notified_p, mu_p, npc_p, wpc_p, alive_p>>
  BY DEF PF!Start
<1>3. /\ npc_p = [t \in PF!Runners |-> "out"] /\ wpc_p = [w \in {Caller} |-> "out"]
      /\ ~waiting_p /\ ~notified_p /\ alive_p /\ mu_p = Nobody /\ Nobody \notin PF!Runners
  BY DEF Fresh, PF!B!Construct, PF!ParallelForAssumption, PF!Runners
<1>4. PF!B!TypeOK'
  BY <1>1, <1>2 DEF PF!B!TypeOK, PF!B!BarrierInv
<1>5. PF!B!MutexOK' /\ PF!B!NotifierState' /\ PF!B!NotifiedOnce'
  BY <1>2, <1>3 DEF PF!B!MutexOK, PF!B!NotifierState, PF!B!NotifiedOnce
<1>6. PF!B!WaiterState' /\ PF!B!WaitReturnsAfterAll' /\ PF!B!NoUseAfterDestroy'
      /\ PF!B!WakeupPending'
  BY <1>2, <1>3 DEF PF!B!WaiterState, PF!B!WaitReturnsAfterAll, PF!B!NoUseAfterDestroy,
       PF!B!WakeupPending,
       PF!B!Blocked
<1> QED
  BY <1>4, <1>5, <1>6 DEF PF!B!BarrierInv

(* Only between Start and Return are ranges handled. *)
LEMMA WorkingNow ==
  ASSUME ForInv, queue # {} \/ \E t \in PF!Runners : hpc[t] # "idle" \/ npc_p[t] # "out"
  PROVE  PF!Working /\ WorkOK /\ PlanOK
<1>1. CASE pc \in {"enter", "coarsen", "threw"}
  BY <1>1 DEF ForInv, Fresh, PF!B!Construct
<1>2. CASE pc = "returned"
  BY <1>2 DEF ForInv, PF!ReturnMeansAllDone
<1> QED
  BY <1>1, <1>2 DEF ForInv, PF!Working

(* While ranges are handled their sizes are those of the plan. *)
LEMMA WorkingSized ==
  ASSUME PF!ParallelForAssumption, NoOverflow, ForInv, PF!Working
  PROVE  Sized /\ WorkOK /\ PlanOK
BY PlanNumbers DEF ForInv, PF!Working, Sized

(* What one step of HandleRange or of a worker leaves of the invariant. *)
LEMMA WorkGoesOn ==
  ASSUME ForInv, PF!Working, PlanOK, UNCHANGED <<PF!inputs, pc, PF!plan>>, WorkOK',
         PF!B!BarrierInv'
  PROVE  ForInv'
<1>1. PlanOK'
  BY PlanStays
<1>2. pc' = pc /\ ArgumentsOK'
  BY DEF ForInv, ArgumentsOK, PF!inputs
<1> QED
  BY <1>1, <1>2 DEF ForInv, PF!Working, PF!ReturnMeansAllDone

(* The caller's steps: f(0, n) at once, the null block_align, the search   *)
(* for the block size, the start, and the wait and return, which find      *)
(* nothing left to do (device_thread_pool.h:151-212).                      *)
LEMMA CallerKeeps ==
  ASSUME PF!ParallelForAssumption, NoOverflow, ForInv, PF!CallerStep
  PROVE  ForInv'
<1>1. UNCHANGED PF!inputs /\ ArgumentsOK'
  BY DEF PF!CallerStep, PF!Sequential, PF!CallNullAlign, PF!ChooseBlock, PF!Coarsen,
       PF!Start, PF!WaitBarrier, PF!Return,
       ForInv, ArgumentsOK, PF!inputs
<1>2. CASE PF!Sequential
  <2>1. /\ pc' = "returned" /\ UNCHANGED <<n, queue, hpc, npc_p>> /\ Fresh
        /\ covered' = PF!Cover(<<0, n>>) /\ UNCHANGED PF!barrier
    BY <1>2 DEF PF!Sequential, ForInv, PF!inputs, PF!barrier
  <2>2. \A i \in 0..(n - 1) : covered'[i] = 1
    <3>1. \A i \in 0..(n - 1) : i \in PF!Indices(<<0, n>>)
      BY DEF PF!Indices
    <3> QED BY <2>1, <3>1 DEF Fresh, PF!Cover
  <2>3. PF!ReturnMeansAllDone'
    BY <2>1, <2>2 DEF Fresh, PF!ReturnMeansAllDone, PF!B!Construct
  <2>4. PF!B!BarrierInv'
    BY <2>1, BarrierStands DEF ForInv
  <2> QED BY <1>1, <2>1, <2>3, <2>4 DEF ForInv, PF!Working
<1>3. CASE PF!CallNullAlign
  <2>1. pc' = "threw" /\ Fresh /\ UNCHANGED <<n, queue, hpc, range, covered, PF!barrier>>
    BY <1>3 DEF PF!CallNullAlign, ForInv, PF!inputs
  <2>2. Fresh'
    BY <2>1 DEF Fresh, PF!B!Construct, PF!barrier
  <2>3. PF!B!BarrierInv'
    BY <2>1, BarrierStands DEF ForInv
  <2> QED BY <1>1, <2>1, <2>2, <2>3 DEF ForInv, PF!Working, PF!ReturnMeansAllDone
<1>4. CASE PF!ChooseBlock \/ PF!Coarsen
  <2>1. pc' = "coarsen" /\ Fresh /\ UNCHANGED <<n, queue, hpc, range, covered, PF!barrier>>
    BY <1>4 DEF PF!ChooseBlock, PF!Coarsen, ForInv, PF!inputs
  <2>2. Fresh'
    BY <2>1 DEF Fresh, PF!B!Construct, PF!barrier
  <2>3. PF!B!BarrierInv'
    BY <2>1, BarrierStands DEF ForInv
  <2>4. PlanOK'
    BY <1>4, ChooseBlockPlans, CoarsenPlans DEF ForInv, PF!Coarsen
  <2> QED BY <1>1, <2>1, <2>2, <2>3, <2>4 DEF ForInv, PF!Working, PF!ReturnMeansAllDone
<1>5. CASE PF!Start
  <2>1. pc' = "handle" /\ Fresh /\ PlanOK /\ UNCHANGED PF!plan
    BY <1>5 DEF PF!Start, ForInv
  <2>2. WorkOK'
    BY <1>5, <2>1, StartWorks DEF ForInv
  <2>3. PF!B!BarrierInv'
    BY <1>5, <2>1, BarrierOfBlocks DEF ForInv
  <2>4. PlanOK'
    BY <1>1, <2>1, PlanStays
  <2> QED BY <1>1, <2>1, <2>2, <2>3, <2>4 DEF ForInv, PF!Working, PF!ReturnMeansAllDone
<1>6. CASE PF!WaitBarrier
  <2>1. /\ pc' = "wait" /\ PlanOK /\ WorkOK /\ UNCHANGED PF!plan
        /\ UNCHANGED <<n, blockSize, queue, hpc, range, covered, count_p>>
           /\ PF!B!Wait(Caller)
    BY <1>6 DEF PF!WaitBarrier, ForInv, PF!Working, PF!inputs, PF!plan, PF!B!Wait
  <2>2. WorkOK'
    BY <2>1, WorkStays
  <2>3. PF!B!BarrierInv'
    BY <2>1, BarrierStepKeeps DEF ForInv, PF!B!Next
  <2>4. PlanOK'
    BY <1>1, <2>1, PlanStays
  <2> QED BY <1>1, <2>1, <2>2, <2>3, <2>4 DEF ForInv, PF!Working, PF!ReturnMeansAllDone
<1>7. CASE PF!Return
  <2>1. /\ pc' = "returned" /\ PF!Working /\ PF!B!Destroy
        /\ UNCHANGED <<n, queue, hpc, covered>>
    BY <1>7 DEF PF!Return, PF!Working, PF!inputs
  <2>2. count_p = 0
    BY <2>1 DEF PF!B!Destroy, ForInv, PF!B!BarrierInv, PF!B!WaitReturnsAfterAll
  <2>3. PF!B!BarrierInv'
    BY <2>1, BarrierStepKeeps DEF ForInv, PF!B!Next
  <2>4. \A t \in PF!Runners : npc_p'[t] = "out"
    BY <2>1, <2>3 DEF PF!B!BarrierInv, PF!B!NoUseAfterDestroy, PF!B!Destroy
  <2>5. PF!ReturnMeansAllDone'
    BY <2>1, <2>2, <2>4, WorkingSized, NoBlocksNoWork DEF PF!ReturnMeansAllDone
  <2> QED BY <1>1, <2>1, <2>3, <2>5 DEF ForInv, PF!Working
<1> QED
  BY <1>2, <1>3, <1>4, <1>5, <1>6, <1>7 DEF PF!CallerStep

(* The steps of HandleRange (device_thread_pool.h:200-209). *)
LEMMA HandleRangeKeeps ==
  ASSUME PF!ParallelForAssumption, NoOverflow, ForInv, NEW t \in PF!Runners, PF!HandleRange(t)
  PROVE  ForInv'
<1>1. hpc[t] # "idle" /\ UNCHANGED <<PF!inputs, pc, PF!plan>>
  BY DEF PF!HandleRange, PF!HandleLeaf, PF!NotifyBarrier, PF!ScheduleUpper, PF!ScheduleLower
<1>2. PF!Working /\ WorkOK /\ PlanOK /\ Sized
  BY <1>1, WorkingNow, WorkingSized
<1>3. WorkOK'
  BY <1>2, LeafKeeps, NotifyKeeps, UpperKeeps, LowerKeeps DEF PF!HandleRange
<1>4. PF!B!BarrierInv'
  <2>1. PF!B!Notify(t) \/ UNCHANGED PF!barrier
    BY DEF PF!HandleRange, PF!HandleLeaf, PF!NotifyBarrier, PF!ScheduleUpper, PF!ScheduleLower
  <2> QED BY <2>1, BarrierStands, BarrierStepKeeps DEF ForInv, PF!B!Next
<1> QED
  BY <1>1, <1>2, <1>3, <1>4, WorkGoesOn

(* A worker takes a range. *)
LEMMA TakeKeepsAll ==
  ASSUME PF!ParallelForAssumption, NoOverflow, ForInv, NEW t \in Workers, NEW r \in queue,
         PF!Take(t, r)
  PROVE  ForInv'
<1>1. UNCHANGED <<PF!inputs, pc, PF!plan, PF!barrier>> /\ t \in PF!Runners
  BY DEF PF!Take, PF!Runners
<1>2. PF!Working /\ WorkOK /\ PlanOK /\ Sized
  BY WorkingNow, WorkingSized
<1>3. WorkOK'
  BY <1>1, <1>2, TakeKeeps
<1>4. PF!B!BarrierInv'
  BY <1>1, BarrierStands DEF ForInv
<1> QED
  BY <1>1, <1>2, <1>3, <1>4, WorkGoesOn

(* The steps inside the barrier. *)
LEMMA InsideBarrierKeeps ==
  ASSUME PF!ParallelForAssumption, NoOverflow, ForInv,
         (\E t \in PF!Runners : PF!NotifyStep(t)) \/ PF!WaitStep \/ PF!BarrierSpurious
  PROVE  ForInv'
<1>1. /\ UNCHANGED <<PF!inputs, pc, PF!plan, queue, hpc, range, covered>>
      /\ UNCHANGED <<n, blockSize, count_p>>
      /\ \/ \E t \in PF!Runners : PF!B!NotifyLocked(t) \/ PF!B!NotifyUnlock(t)
         \/ PF!B!WaitLocked(Caller) \/ PF!B!SpuriousWakeup(Caller)
  BY DEF PF!NotifyStep, PF!WaitStep, PF!BarrierSpurious, PF!inputs, PF!plan,
       PF!B!NotifyLocked, PF!B!NotifyUnlock,
       PF!B!WaitLocked, PF!B!SpuriousWakeup
<1>2. PF!B!BarrierInv'
  BY <1>1, BarrierStepKeeps DEF ForInv, PF!B!Next
<1>3. CASE PF!Working
  <2>1. WorkOK /\ PlanOK
    BY <1>3 DEF ForInv, PF!Working
  <2>2. WorkOK'
    BY <1>1, <2>1, WorkStays
  <2> QED BY <1>1, <1>2, <1>3, <2>1, <2>2, WorkGoesOn
<1>4. CASE ~PF!Working
  <2>1. \A t \in PF!Runners : npc_p[t] = "out"
    BY <1>4, WorkingNow
  <2>2. (PF!B!WaitLocked(Caller) \/ PF!B!SpuriousWakeup(Caller)) /\ npc_p' = npc_p
    BY <1>1, <2>1 DEF PF!B!NotifyLocked, PF!B!NotifyUnlock, PF!B!WaitLocked,
         PF!B!SpuriousWakeup
  <2>3. wpc_p[Caller] # "out"
    BY <2>2 DEF PF!B!WaitLocked, PF!B!SpuriousWakeup
  <2>4. pc = "returned"
    BY <1>4, <2>3 DEF ForInv, PF!Working, Fresh, PF!B!Construct
  <2>5. PF!ReturnMeansAllDone'
    BY <1>1, <2>2 DEF ForInv, PF!ReturnMeansAllDone
  <2> QED BY <1>1, <1>2, <2>4, <2>5 DEF ForInv, PF!Working, ArgumentsOK, PF!inputs
<1> QED
  BY <1>3, <1>4

(* Nothing happens. *)
LEMMA StutterKeeps ==
  ASSUME PF!ParallelForAssumption, ForInv, UNCHANGED PF!vars
  PROVE  ForInv'
<1>1. UNCHANGED <<PF!inputs, pc, PF!plan, queue, hpc, range, covered, PF!barrier>>
      /\ UNCHANGED <<n, blockSize, count_p, npc_p>>
  BY DEF PF!vars, PF!inputs, PF!plan, PF!barrier
<1>2. PF!B!BarrierInv'
  BY <1>1, BarrierStands DEF ForInv
<1>3. WorkOK => WorkOK'
  BY <1>1, WorkStays
<1>4. PlanOK => PlanOK'
  BY <1>1, PlanStays
<1>5. Fresh => Fresh'
  BY <1>1 DEF Fresh, PF!B!Construct, PF!barrier
<1>6. PF!ReturnMeansAllDone'
  BY <1>1 DEF ForInv, PF!ReturnMeansAllDone
<1> QED
  BY <1>1, <1>2, <1>3, <1>4, <1>5, <1>6 DEF ForInv, PF!Working, ArgumentsOK, PF!inputs

(* Every step of ParallelFor preserves its invariant. *)
LEMMA ForPreserved ==
  ASSUME PF!ParallelForAssumption, NoOverflow, ForInv, [PF!Next]_(PF!vars)
  PROVE  ForInv'
BY CallerKeeps, HandleRangeKeeps, TakeKeepsAll, InsideBarrierKeeps,
     StutterKeeps DEF PF!Next, PF!Finished

(* The invariant implies what is promised. *)
LEMMA ForSafe ==
  ASSUME PF!ParallelForAssumption, NoOverflow, ForInv
  PROVE  PF!ParallelForSafe
<1>1. PF!EachIndexOnce
  BY WorkEachIndexOnce, WorkingSized DEF PF!EachIndexOnce
<1>2. PF!BarrierCountsBlocks
  BY SameCounting DEF PF!BarrierCountsBlocks, ForInv, WorkOK
<1>3. PF!BlocksAligned
  <2> SUFFICES ASSUME NEW t \in PF!Runners, hpc[t] = "notify"
               PROVE  range[t][1] % align = 0 /\ range[t][2] - range[t][1] \in 1..blockSize
    BY DEF PF!BlocksAligned
  <2>1. Sized /\ WorkOK /\ PlanOK
    BY WorkingNow, WorkingSized
  <2>2. RangeOK(range[t]) /\ PF!Fits(range[t])
    BY <2>1 DEF WorkOK, RangesOK, ThreadOK
  <2>3. align \in Nat \ {0}
    BY <2>1, PlanNumbers DEF ForInv
  <2>4. range[t][1] % align = 0
    BY <2>1, <2>2, <2>3, RangesAligned DEF Sized, PlanOK
  <2>5. range[t][2] - range[t][1] \in 1..blockSize
    <3>1. PICK a \in Nat, b \in Nat : range[t] = <<a, b>>
      BY <2>2 DEF RangeOK
    <3> QED BY <2>1, <2>2, <3>1 DEF RangeOK, PF!Fits, Sized
  <2> QED BY <2>4, <2>5
<1>4. PF!CoarseningKeepsEfficiency
  <2> SUFFICES ASSUME PF!Working
      PROVE PF!NearlyAsGood(PF!Efficiency(blockCount), FirstEfficiency)
    BY DEF PF!CoarseningKeepsEfficiency, FirstEfficiency
  <2>1. Sized /\ PlanOK /\ ArgumentsOK
    BY WorkingSized DEF ForInv
  <2>2. n \in Nat \ {0} /\ blockSize \in Nat \ {0} /\ IntMax \in Nat
        /\ PF!NumThreads \in Nat \ {0}
        /\ n + PF!NumThreads <= IntMax
    BY <2>1, SomeThreads, ArgumentsAreNumbers DEF Sized, PlanOK
  <2>3. blockCount \in 1..n
    BY <2>1, <2>2, RoundedAtMost DEF PlanOK
  <2>4. IsShare(PF!Efficiency(blockCount))
    BY <2>2, <2>3, EfficiencyIsShare
  <2> QED BY <2>1, <2>4, GoodEnough DEF PlanOK
<1> QED
  BY <1>1, <1>2, <1>3, <1>4 DEF PF!ParallelForSafe, ForInv

-----------------------------------------------------------------------------
(* A step of MCSync is a step of at most one component; for the others it  *)
(* is a stutter.                                                           *)
LEMMA OneComponentSteps ==
  ASSUME [SyncNext]_syncVars
  PROVE  /\ [Next]_vars
         /\ [NT!Next]_NT!notificationVars
         /\ [RC!Next]_RC!refVars
         /\ [MO!Next]_MO!monitoringVars
         /\ [FC!Next]_FC!vars
         /\ [PF!Next]_(PF!vars)
BY DEF SyncNext, syncVars, BarrierRuns, ParallelForRuns, FilterChainRuns, NotificationRuns,
  RefCountedRuns, MonitoringRuns, noteVars, NT!notificationVars, RC!refVars, refVars,
  metricVars, MO!monitoringVars, chainVars, FC!vars, forVars,
  PF!vars, vars

(* For any count and any threads: a Wait returns only after all Notify     *)
(* calls, one Notify at most takes the lock, nobody sleeps through the     *)
(* notification, and no Notify touches a destroyed barrier                 *)
(* (device_thread_pool.h:46-65).                                           *)
THEOREM BarrierSafety ==
  ASSUME Waiters # {}
  PROVE  SyncSpec => [](TypeOK /\ BarrierSafe)
<1>1. SyncInit => BarrierInv
  BY BarrierConstructed, SyncAssumption DEF SyncInit, Init, SyncAssumption
<1>2. BarrierInv /\ [SyncNext]_syncVars => BarrierInv'
  BY BarrierNextInv, OneComponentSteps, SyncAssumption DEF SyncAssumption
<1>3. BarrierInv => TypeOK /\ BarrierSafe
  BY DEF BarrierInv, BarrierSafe
<1> QED
  BY <1>1, <1>2, <1>3, PTL DEF SyncSpec

(* f is called once on every index, in aligned blocks no worse than the    *)
(* cost model's choice; the barrier expects the Notify calls that come;    *)
(* and when ParallelFor returns no thread uses what dies with it           *)
(* (device_thread_pool.h:147-212), for any pool, size, cost and alignment  *)
(* within the range of Index.                                              *)
THEOREM ParallelForAlwaysSafe ==
  ASSUME NoOverflow
  PROVE  SyncSpec => []ParallelForSafe
<1>1. SyncInit => ForInv
  BY ForInitially, SyncAssumption DEF SyncInit, SyncAssumption
<1>2. ForInv /\ [SyncNext]_syncVars => ForInv'
  BY ForPreserved, OneComponentSteps, SyncAssumption DEF SyncAssumption
<1>3. ForInv => ParallelForSafe
  BY ForSafe, SyncAssumption DEF ParallelForSafe, SyncAssumption
<1> QED
  BY <1>1, <1>2, <1>3, PTL DEF SyncSpec

(* The search for a larger block makes progress with every turn, as the    *)
(* code asserts (device_thread_pool.h:184), so it ends.                    *)
THEOREM CoarseningAdvances ==
  ASSUME NoOverflow
  PROVE  SyncSpec =>
           [][ParallelForRuns /\ PF!Coarsen => prevCount' \in 1..(prevCount - 1)]_syncVars
<1>1. SyncInit => ForInv
  BY ForInitially, SyncAssumption DEF SyncInit, SyncAssumption
<1>2. ForInv /\ [SyncNext]_syncVars => ForInv'
  BY ForPreserved, OneComponentSteps, SyncAssumption DEF SyncAssumption
<1>3. ForInv => [ParallelForRuns /\ PF!Coarsen => prevCount' \in 1..(prevCount - 1)]_syncVars
  BY CoarserIsFewer, SyncAssumption DEF SyncAssumption, ForInv, PF!Coarsen
<1> QED
  BY <1>1, <1>2, <1>3, PTL DEF SyncSpec

(* Whoever destroys a Notification after a wait finds no thread inside     *)
(* Notify (notification.h:18-35), for any threads.                          *)
THEOREM NotifierHasLeftAlways == SyncSpec => []NotifierHasLeft
<1>1. SyncInit => NotificationInv
  BY NotificationInitially DEF SyncInit
<1>2. NotificationInv /\ [SyncNext]_syncVars => NotificationInv'
  BY NotificationPreserved, OneComponentSteps, SyncAssumption DEF SyncAssumption
<1>3. NotificationInv => NotifierHasLeft
  BY DEF NotificationInv, NotifierHasLeft
<1> QED
  BY <1>1, <1>2, <1>3, PTL DEF SyncSpec

(* An object is deleted exactly when its last reference goes, once, and    *)
(* its count is that of its references, for any threads, variables and     *)
(* objects (ref_counted.h:15-79).                                          *)
THEOREM DeletedWithTheLastAlways == SyncSpec => []DeletedWithTheLast
<1>1. SyncInit => RefInv
  BY RefInitially, SyncAssumption DEF SyncInit, SyncAssumption
<1>2. RefInv /\ [SyncNext]_syncVars => RefInv'
  BY RefPreserved, OneComponentSteps, SyncAssumption DEF SyncAssumption
<1>3. RefInv => DeletedWithTheLast
  BY DEF RefInv, DeletedWithTheLast
<1> QED
  BY <1>1, <1>2, <1>3, PTL DEF SyncSpec

(* Sum and count of an EventMetric agree to within the one event being     *)
(* recorded, for any recorders, labels and events, and an export never     *)
(* shows more (event_metric.h:56-62, exporter.cc:73-81).                   *)
THEOREM SumAndCountAgreeAlways == SyncSpec => []SumAndCountAgree
<1>1. SyncInit => MetricInv
  BY MetricInitially, SyncAssumption DEF SyncInit, SyncAssumption
<1>2. MetricInv /\ [SyncNext]_syncVars => MetricInv'
  BY MetricPreserved, OneComponentSteps, SyncAssumption DEF SyncAssumption
<1>3. MetricInv => SumAndCountAgree
  BY MetricAgrees, SyncAssumption DEF SumAndCountAgree, SyncAssumption
<1> QED
  BY <1>1, <1>2, <1>3, PTL DEF SyncSpec

(* Execute, which calls its handlers one by one while others register      *)
(* more, is one indivisible pass through the handlers of one moment, for   *)
(* any handlers and requests (handler_chain.h).                            *)
THEOREM FilterChainImplements == SyncSpec => ImplementsHandlerSequence
<1>1. SyncInit => ChainInv /\ FC!HS!Init
  BY ChainInitially, SyncAssumption DEF SyncInit, SyncAssumption, FC!Init, FC!HS!Init
<1>2. ChainInv /\ [SyncNext]_syncVars => ChainInv' /\ [FC!HS!Next]_FC!HS!vars
  BY ChainPreserved, ChainStepSimulation, OneComponentSteps, SyncAssumption DEF SyncAssumption
<1> QED
  BY <1>1, <1>2, PTL DEF SyncSpec, ImplementsHandlerSequence, FC!ImplementsHandlerSequence,
    FC!HS!Spec
=============================================================================

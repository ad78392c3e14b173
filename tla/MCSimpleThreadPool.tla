------------------------- MODULE MCSimpleThreadPool -------------------------
(* Instances of SimpleThreadPool for TLC. *)
EXTENDS SimpleThreadPool, TLC

CONSTANTS w1, w2, w3, t1, t2, t3, t4

(* Every task is scheduled by the owner of the pool. *)
OwnerSchedules == [t \in Tasks |-> Client]

(* t1 is the owner's; its closure schedules the others, as one level of    *)
(* HandleRange in device_thread_pool.h does.                               *)
ForkTree == [t \in Tasks |-> IF t = t1 THEN Client ELSE t1]

Symmetry == Permutations(Workers)
=============================================================================

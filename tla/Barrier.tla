------------------------------ MODULE Barrier ------------------------------
(***************************************************************************)
(* base/thread/device_thread_pool.h: Barrier, a one-shot countdown that    *)
(* ParallelFor keeps on its stack.  state_ packs the count (state_ >> 1)   *)
(* and a bit that says a waiter may be blocked (state_ & 1); one atomic    *)
(* read-modify-write changes it.  Only the Notify that takes the count to  *)
(* zero with the bit set touches mu_, cv_ and notified_.                   *)
(*                                                                         *)
(* Between its atomic step and its lock, and between its lock and its      *)
(* unlock, a Notify may be overtaken by a Wait that returns and by the     *)
(* destructor: those points are states of their own.                       *)
(***************************************************************************)
EXTENDS Integers, TLAPS

CONSTANTS Threads,    \* threads that call Notify
          Waiters,    \* threads that call Wait, each once
          MaxCount,   \* bound on the constructor's argument
          Nobody      \* mu_ is not held

(* What the constants must be; whoever uses the module assumes it. *)
BarrierAssumption ==
  /\ Nobody \notin Threads
  /\ MaxCount \in Nat

VARIABLES
  total,      \* the constructor's argument
  count,      \* state_ >> 1
  waiting,    \* state_ & 1
  notified,   \* notified_
  mu,         \* the thread in Notify's critical section, or Nobody
  npc,        \* where each thread is in Notify
  wpc,        \* where each waiter is in Wait
  alive       \* the destructor has not run

vars == <<total, count, waiting, notified, mu, npc, wpc, alive>>

Construct(c) ==
  /\ total = c
  /\ count = c
  /\ waiting = FALSE
  /\ notified = FALSE
  /\ mu = Nobody
  /\ npc = [t \in Threads |-> "out"]
  /\ wpc = [w \in Waiters |-> "out"]
  /\ alive = TRUE

Init == \E c \in 0..MaxCount : Construct(c)

-----------------------------------------------------------------------------
(* Fault: the last Notify takes the lock whether or not anyone waits. *)
NotifyAlwaysLocks(t) ==
  /\ alive
  /\ npc[t] = "out"
  /\ count > 0
  /\ count' = count - 1
  /\ npc' = [npc EXCEPT ![t] = IF count = 1 THEN "lock" ELSE "out"]
  /\ UNCHANGED <<total, waiting, notified, mu, wpc, alive>>

(* Fault: the last Notify never wakes the waiter. *)
NotifyNeverLocks(t) ==
  /\ alive
  /\ npc[t] = "out"
  /\ count > 0
  /\ count' = count - 1
  /\ UNCHANGED <<total, waiting, notified, mu, npc, wpc, alive>>

(* Fault: every Notify that sees the waiter's bit takes the lock. *)
NotifyIgnoresCount(t) ==
  /\ alive
  /\ npc[t] = "out"
  /\ count > 0
  /\ count' = count - 1
  /\ npc' = [npc EXCEPT ![t] = IF waiting THEN "lock" ELSE "out"]
  /\ UNCHANGED <<total, waiting, notified, mu, wpc, alive>>

(* state_.fetch_sub(2).  The callers make no more than `total' calls; with *)
(* count = 0 the assertion in Notify fails.                                *)
Notify(t) ==
  /\ alive
  /\ npc[t] = "out"
  /\ count > 0
  /\ count' = count - 1
  /\ npc' = [npc EXCEPT ![t] = IF count = 1 /\ waiting THEN "lock" ELSE "out"]
  /\ UNCHANGED <<total, waiting, notified, mu, wpc, alive>>

(* lock, notified_ = true, cv_.notify_all(). *)
NotifyLocked(t) ==
  /\ npc[t] = "lock"
  /\ mu = Nobody
  /\ mu' = t
  /\ notified' = TRUE
  /\ npc' = [npc EXCEPT ![t] = "unlock"]
  /\ wpc' = [w \in Waiters |-> IF wpc[w] = "asleep" THEN "lock" ELSE wpc[w]]
  /\ UNCHANGED <<total, count, waiting, alive>>

NotifyUnlock(t) ==
  /\ npc[t] = "unlock"
  /\ mu' = Nobody
  /\ npc' = [npc EXCEPT ![t] = "out"]
  /\ UNCHANGED <<total, count, waiting, notified, wpc, alive>>

(* Fault: Wait does not announce the waiter (load instead of fetch_or). *)
WaitNoBit(w) ==
  /\ alive
  /\ wpc[w] = "out"
  /\ wpc' = [wpc EXCEPT ![w] = IF count = 0 THEN "returned" ELSE "lock"]
  /\ UNCHANGED <<total, count, waiting, notified, mu, npc, alive>>

(* state_.fetch_or(1) and the early return. *)
Wait(w) ==
  /\ alive
  /\ wpc[w] = "out"
  /\ waiting' = TRUE
  /\ wpc' = [wpc EXCEPT ![w] = IF count = 0 THEN "returned" ELSE "lock"]
  /\ UNCHANGED <<total, count, notified, mu, npc, alive>>

(* Fault: a wake-up is taken for a notification. *)
WaitLockedOnce(w) ==
  /\ wpc[w] = "lock"
  /\ mu = Nobody
  /\ wpc' = [wpc EXCEPT ![w] = IF notified \/ waiting THEN "returned" ELSE "asleep"]
  /\ UNCHANGED <<total, count, waiting, notified, mu, npc, alive>>

(* The test of notified_ under mu_: the waiter sleeps, releasing mu_, or   *)
(* unlocks and returns.                                                    *)
WaitLocked(w) ==
  /\ wpc[w] = "lock"
  /\ mu = Nobody
  /\ wpc' = [wpc EXCEPT ![w] = IF notified THEN "returned" ELSE "asleep"]
  /\ UNCHANGED <<total, count, waiting, notified, mu, npc, alive>>

SpuriousWakeup(w) ==
  /\ wpc[w] = "asleep"
  /\ wpc' = [wpc EXCEPT ![w] = "lock"]
  /\ UNCHANGED <<total, count, waiting, notified, mu, npc, alive>>

(* The owner destroys the barrier when every Wait has returned. *)
Destroy ==
  /\ alive
  /\ \A w \in Waiters : wpc[w] = "returned"
  /\ alive' = FALSE
  /\ UNCHANGED <<total, count, waiting, notified, mu, npc, wpc>>

Destroyed == ~alive /\ UNCHANGED vars

-----------------------------------------------------------------------------
Next ==
  \/ \E t \in Threads : Notify(t) \/ NotifyLocked(t) \/ NotifyUnlock(t)
  \/ \E w \in Waiters : Wait(w) \/ WaitLocked(w) \/ SpuriousWakeup(w)
  \/ Destroy
  \/ Destroyed

Spec == Init /\ [][Next]_vars

(* A thread inside Notify or Wait is scheduled.  Nothing obliges a thread  *)
(* to call them.                                                           *)
Fairness ==
  /\ \A t \in Threads : WF_vars(NotifyLocked(t)) /\ WF_vars(NotifyUnlock(t))
  /\ \A w \in Waiters : WF_vars(WaitLocked(w))

FairSpec == Spec /\ Fairness

-----------------------------------------------------------------------------
TypeOK ==
  /\ total \in Nat
  /\ count \in 0..total
  /\ waiting \in BOOLEAN
  /\ notified \in BOOLEAN
  /\ mu \in Threads \cup {Nobody}
  /\ npc \in [Threads -> {"out", "lock", "unlock"}]
  /\ wpc \in [Waiters -> {"out", "lock", "asleep", "returned"}]
  /\ alive \in BOOLEAN

(* A Wait that has returned was preceded by all `total' Notify calls. *)
WaitReturnsAfterAll == \A w \in Waiters : wpc[w] = "returned" => count = 0

(* assert(!notified_): only one Notify ever enters the critical section.   *)
NotifiedOnce ==
  /\ \A t \in Threads : npc[t] = "lock" => ~notified
  /\ \A t, u \in Threads : npc[t] # "out" /\ npc[u] # "out" => t = u

(* The barrier lives on the waiter's stack: no Notify is still about to    *)
(* lock, or holding, its mutex when it is destroyed, and the destructor's  *)
(* DCHECK holds.                                                           *)
NoUseAfterDestroy ==
  ~alive => count = 0 /\ mu = Nobody /\ \A t \in Threads : npc[t] = "out"

(* A waiter blocked after the count has reached zero is about to be woken: *)
(* the Wait that set the bit too late to be seen does not block.           *)
WakeupPending ==
  count = 0 =>
    \A w \in Waiters :
      /\ wpc[w] = "asleep" => \E t \in Threads : npc[t] = "lock"
      /\ wpc[w] = "lock" => notified \/ \E t \in Threads : npc[t] = "lock"

(* Whatever the interleaving of the last Notify, the Waits and the          *)
(* destructor, the four hold together: each of the two atomic steps on     *)
(* state_ sees the other (device_thread_pool.h:46-65).                     *)
BarrierSafe ==
  /\ WaitReturnsAfterAll
  /\ NotifiedOnce
  /\ NoUseAfterDestroy
  /\ WakeupPending

(* Once all notifications are made every Wait returns. *)
WaitReturns ==
  \A w \in Waiters : (wpc[w] # "out" /\ count = 0) ~> wpc[w] = "returned"

-----------------------------------------------------------------------------
(* Why it is safe. From the moment a Notify is bound for the critical section     *)
(* until it has left it, some waiter is still inside Wait, so the owner    *)
(* cannot have destroyed the barrier.                                      *)
Blocked(w) == wpc[w] \in {"lock", "asleep"}

MutexOK == \A t \in Threads : npc[t] = "unlock" <=> mu = t

NotifierState ==
  \A t \in Threads :
    npc[t] # "out" => /\ count = 0
                      /\ npc[t] = "unlock" <=> notified
                      /\ \E w \in Waiters : Blocked(w)

WaiterState ==
  /\ \A w \in Waiters : /\ Blocked(w) => waiting
                        /\ wpc[w] = "asleep" => ~notified
  /\ waiting /\ count > 0 => \E w \in Waiters : Blocked(w)
  /\ notified => count = 0

BarrierInv ==
  /\ TypeOK
  /\ MutexOK
  /\ NotifierState
  /\ WaiterState
  /\ WaitReturnsAfterAll
  /\ NotifiedOnce
  /\ NoUseAfterDestroy
  /\ WakeupPending

LEMMA BarrierConstructed ==
  ASSUME BarrierAssumption, NEW c \in Nat, Construct(c)
  PROVE  BarrierInv
  <1> USE DEF Construct, BarrierAssumption
  <1>1. TypeOK
    <2>1. total \in Nat /\ count \in 0..total
      OBVIOUS
    <2>2. waiting \in BOOLEAN /\ notified \in BOOLEAN /\ alive \in BOOLEAN
      OBVIOUS
    <2>3. mu \in Threads \cup {Nobody} /\ npc \in [Threads -> {"out", "lock", "unlock"}]
      OBVIOUS
    <2>4. wpc \in [Waiters -> {"out", "lock", "asleep", "returned"}]
      OBVIOUS
    <2> QED BY <2>1, <2>2, <2>3, <2>4 DEF TypeOK
  <1>2. MutexOK /\ NotifierState /\ NotifiedOnce
    BY DEF MutexOK, NotifierState, NotifiedOnce
  <1>3. WaiterState /\ WaitReturnsAfterAll
    BY DEF WaiterState, WaitReturnsAfterAll, Blocked
  <1>4. NoUseAfterDestroy /\ WakeupPending
    BY DEF NoUseAfterDestroy, WakeupPending
  <1> QED BY <1>1, <1>2, <1>3, <1>4 DEF BarrierInv

LEMMA NotifyInv ==
  ASSUME BarrierAssumption, BarrierInv, NEW t \in Threads, Notify(t)
  PROVE  BarrierInv'
  <1> USE DEF BarrierInv, BarrierAssumption, Notify
  <1>1. TypeOK'
    BY DEF TypeOK
  <1>2. /\ \A u \in Threads : npc[u] = "out"
        /\ \A u \in Threads : u # t => npc'[u] = "out"
        /\ npc'[t] = IF count = 1 /\ waiting THEN "lock" ELSE "out"
        /\ count' = count - 1 /\ count \in Nat /\ count > 0
    BY DEF TypeOK, NotifierState
  <1>3. ~notified /\ \A w \in Waiters : wpc[w] # "returned"
    BY <1>2 DEF WaiterState, WaitReturnsAfterAll
  <1>4. MutexOK'
    BY <1>2 DEF MutexOK
  <1>5. NotifierState'
    BY <1>2, <1>3 DEF NotifierState, WaiterState, Blocked
  <1>6. WaiterState'
    BY <1>2, <1>3 DEF WaiterState, Blocked
  <1>7. WaitReturnsAfterAll' /\ NotifiedOnce' /\ NoUseAfterDestroy'
    BY <1>2, <1>3 DEF WaitReturnsAfterAll, NotifiedOnce, NoUseAfterDestroy
  <1>8. WakeupPending'
    BY <1>2, <1>3 DEF WakeupPending, WaiterState, Blocked
  <1> QED BY <1>1, <1>4, <1>5, <1>6, <1>7, <1>8

LEMMA NotifyLockedInv ==
  ASSUME BarrierAssumption, BarrierInv, NEW t \in Threads, NotifyLocked(t)
  PROVE  BarrierInv'
  <1> USE DEF BarrierInv, BarrierAssumption, NotifyLocked
  <1>1. TypeOK'
    BY DEF TypeOK
  <1>2. /\ npc'[t] = "unlock" /\ count = 0
        /\ \A u \in Threads : u # t => npc[u] = "out" /\ npc'[u] = "out"
    BY DEF TypeOK, NotifierState, NotifiedOnce
  <1>3. \A w \in Waiters : /\ wpc'[w] # "asleep"
                           /\ Blocked(w)' <=> Blocked(w)
                           /\ wpc'[w] = "returned" <=> wpc[w] = "returned"
    BY DEF TypeOK, Blocked
  <1>4. MutexOK' /\ NotifiedOnce'
    BY <1>2 DEF MutexOK, NotifiedOnce
  <1>5. NotifierState'
    BY <1>2, <1>3 DEF NotifierState
  <1>6. WaiterState' /\ WaitReturnsAfterAll'
    BY <1>2, <1>3 DEF WaiterState, WaitReturnsAfterAll
  <1>7. NoUseAfterDestroy' /\ WakeupPending'
    BY <1>2, <1>3 DEF NoUseAfterDestroy, WakeupPending
  <1> QED BY <1>1, <1>4, <1>5, <1>6, <1>7

LEMMA NotifyUnlockInv ==
  ASSUME BarrierAssumption, BarrierInv, NEW t \in Threads, NotifyUnlock(t)
  PROVE  BarrierInv'
  <1> USE DEF BarrierInv, BarrierAssumption, NotifyUnlock
  <1>1. TypeOK'
    BY DEF TypeOK
  <1>2. /\ npc'[t] = "out" /\ notified
        /\ \A u \in Threads : u # t => npc[u] = "out" /\ npc'[u] = "out"
    BY DEF TypeOK, NotifierState, NotifiedOnce
  <1>3. MutexOK' /\ NotifiedOnce' /\ NotifierState'
    BY <1>2 DEF MutexOK, NotifiedOnce, NotifierState
  <1>4. WaiterState' /\ WaitReturnsAfterAll'
    BY DEF WaiterState, WaitReturnsAfterAll, Blocked
  <1>5. NoUseAfterDestroy' /\ WakeupPending'
    BY <1>2 DEF NoUseAfterDestroy, WakeupPending, WaiterState
  <1> QED BY <1>1, <1>3, <1>4, <1>5

(* The steps of a waiter, and the destructor. *)
LEMMA WaitInv ==
  ASSUME BarrierAssumption, BarrierInv, NEW w \in Waiters, Wait(w)
  PROVE  BarrierInv'
  <1> USE DEF BarrierInv, BarrierAssumption, Wait
  <1>1. TypeOK'
    BY DEF TypeOK
  <1>2. /\ wpc'[w] = IF count = 0 THEN "returned" ELSE "lock"
        /\ \A v \in Waiters : v # w => wpc'[v] = wpc[v]
    BY DEF TypeOK
  <1>3. \A v \in Waiters : Blocked(v) => Blocked(v)'
    BY <1>2 DEF Blocked
  <1>4. MutexOK' /\ NotifiedOnce' /\ NotifierState'
    BY <1>3 DEF MutexOK, NotifiedOnce, NotifierState
  <1>5. WaiterState' /\ WaitReturnsAfterAll'
    BY <1>2 DEF WaiterState, WaitReturnsAfterAll, Blocked, TypeOK
  <1>6. NoUseAfterDestroy' /\ WakeupPending'
    BY <1>2 DEF NoUseAfterDestroy, WakeupPending
  <1> QED BY <1>1, <1>4, <1>5, <1>6

LEMMA WaitLockedInv ==
  ASSUME BarrierAssumption, BarrierInv, NEW w \in Waiters, WaitLocked(w)
  PROVE  BarrierInv'
  <1> USE DEF BarrierInv, BarrierAssumption, WaitLocked
  <1>1. TypeOK'
    BY DEF TypeOK
  <1>2. /\ wpc'[w] = IF notified THEN "returned" ELSE "asleep"
        /\ \A v \in Waiters : v # w => wpc'[v] = wpc[v]
    BY DEF TypeOK
  <1>3. \A t \in Threads : npc[t] # "unlock"
    BY DEF MutexOK
  <1>4. \A t \in Threads : npc[t] # "out" => ~notified
    BY <1>3 DEF NotifierState, TypeOK
  <1>5. MutexOK' /\ NotifiedOnce'
    BY DEF MutexOK, NotifiedOnce
  <1>6. NotifierState'
    BY <1>2, <1>4 DEF NotifierState, Blocked
  <1>7. WaiterState' /\ WaitReturnsAfterAll'
    BY <1>2 DEF WaiterState, WaitReturnsAfterAll, Blocked
  <1>8. NoUseAfterDestroy' /\ WakeupPending'
    BY <1>2 DEF NoUseAfterDestroy, WakeupPending
  <1> QED BY <1>1, <1>5, <1>6, <1>7, <1>8

LEMMA SpuriousInv ==
  ASSUME BarrierAssumption, BarrierInv, NEW w \in Waiters, SpuriousWakeup(w)
  PROVE  BarrierInv'
  <1> USE DEF BarrierInv, BarrierAssumption, SpuriousWakeup
  <1>1. TypeOK'
    BY DEF TypeOK
  <1>2. wpc'[w] = "lock" /\ \A v \in Waiters : v # w => wpc'[v] = wpc[v]
    BY DEF TypeOK
  <1>3. \A v \in Waiters : Blocked(v)' <=> Blocked(v)
    BY <1>2 DEF Blocked
  <1>4. MutexOK' /\ NotifiedOnce' /\ NotifierState'
    BY <1>3 DEF MutexOK, NotifiedOnce, NotifierState
  <1>5. WaiterState' /\ WaitReturnsAfterAll'
    BY <1>2, <1>3 DEF WaiterState, WaitReturnsAfterAll
  <1>6. NoUseAfterDestroy' /\ WakeupPending'
    BY <1>2 DEF NoUseAfterDestroy, WakeupPending
  <1> QED BY <1>1, <1>4, <1>5, <1>6

LEMMA DestroyInv ==
  ASSUME BarrierAssumption, BarrierInv, Destroy, Waiters # {}
  PROVE  BarrierInv'
  <1> USE DEF BarrierInv, BarrierAssumption, Destroy
  <1>1. TypeOK' /\ MutexOK' /\ NotifiedOnce' /\ NotifierState'
    BY DEF TypeOK, MutexOK, NotifiedOnce, NotifierState, Blocked
  <1>2. WaiterState' /\ WaitReturnsAfterAll' /\ WakeupPending'
    BY DEF WaiterState, WaitReturnsAfterAll, WakeupPending, Blocked
  <1>3. count = 0
    BY DEF WaitReturnsAfterAll
  <1>4. \A t \in Threads : npc[t] = "out"
    BY DEF NotifierState, Blocked
  <1>5. mu = Nobody
    BY <1>4 DEF MutexOK, TypeOK
  <1>6. NoUseAfterDestroy'
    BY <1>3, <1>4, <1>5 DEF NoUseAfterDestroy
  <1> QED BY <1>1, <1>2, <1>6

LEMMA BarrierNextInv ==
  ASSUME BarrierAssumption, Waiters # {}
  PROVE  BarrierInv /\ [Next]_vars => BarrierInv'
  <1> SUFFICES ASSUME BarrierAssumption, BarrierInv, [Next]_vars PROVE BarrierInv'
    OBVIOUS
  <1>1. CASE UNCHANGED vars
    BY <1>1 DEF vars, BarrierInv, TypeOK, MutexOK, NotifierState, WaiterState,
         WaitReturnsAfterAll, NotifiedOnce, NoUseAfterDestroy, WakeupPending, Blocked
  <1> QED BY <1>1, NotifyInv, NotifyLockedInv, NotifyUnlockInv, WaitInv, WaitLockedInv,
             SpuriousInv, DestroyInv DEF Next, Destroyed
=============================================================================

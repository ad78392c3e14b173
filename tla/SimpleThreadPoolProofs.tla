----------------------- MODULE SimpleThreadPoolProofs -----------------------
(***************************************************************************)
(* The safety of SimpleThreadPool for any number of workers and any set of *)
(* tasks.  PoolInv is inductive; OwnerInv is inductive when the owner      *)
(* schedules every task, and gives the destructor's promise.               *)
(***************************************************************************)
EXTENDS SimpleThreadPool, SequenceTheorems, TLAPS

(* What ties the places a task can be in to the workers' control.  A slot  *)
(* is filled only for a woken worker and never for one still in waiters_.  *)
Control ==
  /\ \A w \in Workers :
       /\ slot[w] # NoTask => pc[w] = "waiting" /\ ready[w]
       /\ task[w] # NoTask <=> pc[w] = "running"
       /\ pc[w] = "exited" => exiting
  /\ \A i \in 1..Len(waiters) : /\ slot[waiters[i]] = NoTask
                                 /\ pc[waiters[i]] \in {"waiting", "exited"}
  /\ exiting <=> dtor \in {"joining", "done"}
  /\ \A t \in Tasks \ scheduled : executed[t] = 0

LostOnlyIfDangling == dangling \/ NoTaskLost

PoolInv ==
  /\ TypeOK
  /\ Control
  /\ NoTaskDuplicated
  /\ LostOnlyIfDangling
  /\ WorkConserving
  /\ NoLostWakeup
  /\ WaitersValid
  /\ WokenEmptyOnlyToExit

(* No closure schedules another one. *)
OwnerOnly == \A t \in Tasks : Parent[t] = Client

OwnerInv ==
  /\ ~dangling
  /\ exiting => pending = <<>>
  /\ dtor = "done" => \A w \in Workers : pc[w] = "exited"

USE PoolAssumption

LEMMA PopBack ==
  ASSUME NEW S, NEW q \in Seq(S), Len(q) \in Nat \ {0}
  PROVE  /\ SubSeq(q, 1, Len(q) - 1) \in Seq(S)
         /\ Len(SubSeq(q, 1, Len(q) - 1)) = Len(q) - 1
  <1> DEFINE n == Len(q) - 1
  <1>1. n \in Nat /\ n \in Int /\ 1 \in Int
    OBVIOUS
  <1>2. \A i \in 1..n : q[i] \in S
    OBVIOUS
  <1> HIDE DEF n
  <1>3. SubSeq(q, 1, n) \in Seq(S) /\ Len(SubSeq(q, 1, n)) = IF 1 <= n THEN n - 1 + 1 ELSE 0
    BY ONLY <1>1, <1>2, SubSeqProperties
  <1>4. SubSeq(q, 1, n) \in Seq(S) /\ Len(SubSeq(q, 1, n)) = n
    BY <1>1, <1>3
  <1> QED BY <1>4 DEF n

LEMMA InitInv == Init => PoolInv /\ OwnerInv
  <1> SUFFICES ASSUME Init PROVE PoolInv /\ OwnerInv
    OBVIOUS
  <1> USE DEF Init
  <1>1. TypeOK
    <2>1. pending \in Seq(Tasks) /\ waiters \in Seq(Workers)
      OBVIOUS
    <2> QED BY <2>1 DEF TypeOK
  <1>2. Control /\ OwnerInv
    BY DEF Control, OwnerInv
  <1>3. NoTaskDuplicated
    BY DEF NoTaskDuplicated, Queued, Handed, Claimed
  <1>4. LostOnlyIfDangling /\ WorkConserving /\ NoLostWakeup
    BY DEF LostOnlyIfDangling, NoTaskLost, WorkConserving, NoLostWakeup
  <1>5. WaitersValid /\ WokenEmptyOnlyToExit
    BY DEF WaitersValid, WokenEmptyOnlyToExit
  <1> QED BY <1>1, <1>2, <1>3, <1>4, <1>5 DEF PoolInv

(* Schedule's critical section, whoever calls it. *)
LEMMA EnqueueInv ==
  ASSUME PoolInv, NEW t \in Tasks, t \notin scheduled, Enqueue(t),
         UNCHANGED <<exiting, task, pc, dtor, executed>>
  PROVE  PoolInv'
  <1> USE DEF PoolInv
  <1>1. CASE waiters = <<>>
    <2>1. /\ pending' = Append(pending, t)
          /\ UNCHANGED <<waiters, ready, slot, asleep, dangling>>
          /\ scheduled' = scheduled \cup {t}
      BY <1>1 DEF Enqueue
    <2>2. /\ pending \in Seq(Tasks) /\ pending' \in Seq(Tasks)
          /\ Len(pending') = Len(pending) + 1
          /\ Len(pending) \in Nat
          /\ \A i \in 1..Len(pending) : pending'[i] = pending[i]
          /\ pending'[Len(pending) + 1] = t
      BY <2>1 DEF TypeOK
    <2>3. TypeOK'
      BY <2>1, <2>2 DEF TypeOK
    <2>4. Control'
      BY <2>1 DEF Control
    <2>5. \A u \in Tasks : Queued(u)' <=> Queued(u) \/ u = t
      BY <2>2 DEF Queued
    <2>6. \A u \in Tasks : (Handed(u)' <=> Handed(u)) /\ (Claimed(u)' <=> Claimed(u))
      BY <2>1 DEF Handed, Claimed
    <2>7. ~Queued(t) /\ ~Handed(t) /\ ~Claimed(t) /\ executed[t] = 0
      BY DEF NoTaskDuplicated, Control
    <2>8. \A i, j \in 1..Len(pending') : pending'[i] = pending'[j] => i = j
      BY <2>2, <2>7 DEF NoTaskDuplicated, Queued
    <2>9. NoTaskDuplicated'
      BY <2>1, <2>5, <2>6, <2>7, <2>8 DEF NoTaskDuplicated
    <2>10. LostOnlyIfDangling'
      BY <2>1, <2>5, <2>6 DEF LostOnlyIfDangling, NoTaskLost, TypeOK
    <2>11. WorkConserving' /\ NoLostWakeup'
      BY <1>1, <2>1, <2>2 DEF WorkConserving, NoLostWakeup
    <2>12. WaitersValid' /\ WokenEmptyOnlyToExit'
      BY <2>1 DEF WaitersValid, WokenEmptyOnlyToExit
    <2> QED BY <2>3, <2>4, <2>9, <2>10, <2>11, <2>12
  <1>2. CASE waiters # <<>>
    <2> DEFINE w == waiters[Len(waiters)]
    <2>1. /\ waiters' = SubSeq(waiters, 1, Len(waiters) - 1)
          /\ scheduled' = scheduled \cup {t}
          /\ UNCHANGED pending
      BY <1>2 DEF Enqueue
    <2>2. /\ waiters \in Seq(Workers) /\ waiters' \in Seq(Workers)
          /\ Len(waiters) \in Nat \ {0}
          /\ w \in Workers
          /\ Len(waiters') = Len(waiters) - 1
          /\ \A i \in 1..Len(waiters') : waiters'[i] = waiters[i] /\ i \in 1..Len(waiters)
      <3>1. waiters \in Seq(Workers) /\ Len(waiters) \in Nat \ {0}
        BY <1>2 DEF TypeOK
      <3>2. waiters' \in Seq(Workers) /\ Len(waiters') = Len(waiters) - 1
        BY <2>1, <3>1, PopBack
      <3>3. w \in Workers
        BY <3>1
      <3>4. \A i \in 1..Len(waiters') :
              waiters'[i] = waiters[i] /\ i \in 1..Len(waiters)
        BY <2>1, <3>1, <3>2
      <3> QED BY <3>1, <3>2, <3>3, <3>4
    <2>3. \A i \in 1..Len(waiters') : waiters'[i] # w
      BY <2>2 DEF WaitersValid
    <2>4. pending = <<>>
      BY <1>2 DEF WorkConserving
    <2>5. ~Queued(t) /\ ~Handed(t) /\ ~Claimed(t) /\ executed[t] = 0
      BY DEF NoTaskDuplicated, Control
    <2>6. slot[w] = NoTask
      BY <2>2 DEF Control
    <2>7. CASE pc[w] # "exited"
      <3>1. /\ ready' = [ready EXCEPT ![w] = TRUE]
            /\ slot' = [slot EXCEPT ![w] = t]
            /\ asleep' = asleep \ {w}
            /\ UNCHANGED dangling
        BY <1>2, <2>7 DEF Enqueue
      <3>2. TypeOK'
        BY <2>1, <2>2, <3>1 DEF TypeOK
      <3>3. pc[w] = "waiting"
        BY <2>2, <2>7 DEF WaitersValid, Control
      <3>4. Control'
        <4>1. \A x \in Workers : x # w => ready'[x] = ready[x] /\ slot'[x] = slot[x]
          BY <3>1 DEF TypeOK
        <4>2. ready'[w] = TRUE
          BY <2>2, <3>1 DEF TypeOK
        <4> HIDE DEF w
        <4>3. \A x \in Workers : slot'[x] # NoTask => pc[x] = "waiting" /\ ready'[x]
          BY <3>3, <4>1, <4>2 DEF Control
        <4>4. \A i \in 1..Len(waiters') : /\ slot'[waiters'[i]] = NoTask
                                           /\ pc[waiters'[i]] \in {"waiting", "exited"}
          <5> SUFFICES ASSUME NEW i \in 1..Len(waiters')
                       PROVE  /\ slot'[waiters'[i]] = NoTask
                              /\ pc[waiters'[i]] \in {"waiting", "exited"}
            OBVIOUS
          <5>1. waiters'[i] = waiters[i] /\ i \in 1..Len(waiters)
            BY <2>2
          <5>2. waiters[i] \in Workers /\ waiters[i] # w
            BY <2>2, <2>3, <5>1
          <5>3. slot[waiters[i]] = NoTask /\ pc[waiters[i]] \in {"waiting", "exited"}
            BY <5>1 DEF Control
          <5> QED BY <4>1, <5>1, <5>2, <5>3
        <4> QED BY <2>1, <4>3, <4>4 DEF Control
      <3>5. \A u \in Tasks : /\ Queued(u)' <=> Queued(u)
                             /\ Handed(u)' <=> Handed(u) \/ u = t
                             /\ Claimed(u)' <=> Claimed(u)
        BY <2>1, <2>2, <2>6, <3>1 DEF Queued, Handed, Claimed, TypeOK
      <3>6. \A x, v \in Workers :
              /\ slot'[x] = slot'[v] /\ slot'[x] # NoTask => x = v
              /\ slot'[x] = task'[v] => slot'[x] = NoTask
        BY <2>2, <2>5, <3>1 DEF NoTaskDuplicated, Handed, Claimed, TypeOK
      <3>7. NoTaskDuplicated'
        BY <2>1, <2>5, <3>5, <3>6 DEF NoTaskDuplicated
      <3>8. LostOnlyIfDangling'
        BY <2>1, <3>1, <3>5 DEF LostOnlyIfDangling, NoTaskLost, TypeOK
      <3>9. WorkConserving' /\ NoLostWakeup'
        BY <2>1, <2>2, <2>4, <3>1 DEF WorkConserving, NoLostWakeup, TypeOK
      <3>10. WaitersValid'
        <4>1. \A i, j \in 1..Len(waiters') : waiters'[i] = waiters'[j] => i = j
          BY <2>2 DEF WaitersValid
        <4>2. \A x \in Workers : x # w => /\ ready'[x] = ready[x]
                                          /\ slot'[x] = slot[x]
          BY <3>1 DEF TypeOK
        <4> HIDE DEF w
        <4>3. ASSUME ~exiting, NEW i \in 1..Len(waiters')
              PROVE  /\ pc[waiters'[i]] = "waiting"
                     /\ ~ready'[waiters'[i]]
                     /\ slot'[waiters'[i]] = NoTask
          <5>1. waiters'[i] = waiters[i] /\ i \in 1..Len(waiters)
            BY <2>2
          <5>2. waiters[i] \in Workers /\ waiters[i] # w
            BY <2>2, <2>3, <5>1
          <5>3. /\ pc[waiters[i]] = "waiting"
                /\ ~ready[waiters[i]]
                /\ slot[waiters[i]] = NoTask
            BY <4>3, <5>1 DEF WaitersValid
          <5> QED BY <4>2, <5>1, <5>2, <5>3
        <4> QED BY <4>1, <4>3 DEF WaitersValid
      <3>11. WokenEmptyOnlyToExit'
        BY <2>2, <3>1 DEF WokenEmptyOnlyToExit, TypeOK
      <3> QED BY <3>2, <3>4, <3>7, <3>8, <3>9, <3>10, <3>11
    <2>8. CASE pc[w] = "exited"
      <3>1. dangling' = TRUE /\ UNCHANGED <<ready, slot, asleep>>
        BY <1>2, <2>8 DEF Enqueue
      <3>2. TypeOK' /\ Control'
        BY <2>1, <2>2, <3>1 DEF TypeOK, Control
      <3>3. NoTaskDuplicated'
        BY <2>1, <3>1 DEF NoTaskDuplicated, Queued, Handed, Claimed
      <3>4. LostOnlyIfDangling' /\ WorkConserving' /\ NoLostWakeup'
        BY <2>1, <2>4, <3>1 DEF LostOnlyIfDangling, WorkConserving, NoLostWakeup
      <3>5. WaitersValid' /\ WokenEmptyOnlyToExit'
        BY <2>2, <3>1 DEF WaitersValid, WokenEmptyOnlyToExit
      <3> QED BY <3>2, <3>3, <3>4, <3>5
    <2> QED BY <2>7, <2>8
  <1> QED BY <1>1, <1>2

-----------------------------------------------------------------------------
(* The critical sections of WorkerLoop. *)
LEMMA LeaveInv ==
  ASSUME PoolInv, NEW w \in Workers, pc[w] # "running", slot[w] = NoTask,
         LeaveLoop(w), UNCHANGED <<exiting, slot, dtor, history>>
  PROVE  PoolInv'
  <1> USE DEF PoolInv, LeaveLoop, history
  <1>1. TypeOK'
    BY DEF TypeOK
  <1>2. Control'
    BY DEF Control, TypeOK
  <1>3. NoTaskDuplicated' /\ LostOnlyIfDangling'
    BY DEF NoTaskDuplicated, LostOnlyIfDangling, NoTaskLost, Queued, Handed, Claimed
  <1>4. WorkConserving' /\ NoLostWakeup'
    BY DEF WorkConserving, NoLostWakeup, TypeOK
  <1>5. WaitersValid' /\ WokenEmptyOnlyToExit'
    BY DEF WaitersValid, WokenEmptyOnlyToExit, TypeOK
  <1> QED BY <1>1, <1>2, <1>3, <1>4, <1>5

LEMMA ParkInv ==
  ASSUME PoolInv, NEW w \in Workers, pc[w] \in {"starting", "ran"},
         Park(w), UNCHANGED <<exiting, slot, dtor, history>>
  PROVE  PoolInv'
  <1> USE DEF PoolInv, Park, history
  <1>1. /\ waiters \in Seq(Workers) /\ waiters' \in Seq(Workers)
        /\ Len(waiters) \in Nat
        /\ Len(waiters') = Len(waiters) + 1
        /\ \A i \in 1..Len(waiters) : waiters'[i] = waiters[i]
        /\ waiters'[Len(waiters) + 1] = w
    BY AppendProperties DEF TypeOK
  <1>2. \A i \in 1..Len(waiters) : waiters[i] # w /\ waiters[i] \in Workers
    BY <1>1 DEF WaitersValid
  <1>3. slot[w] = NoTask
    BY DEF Control
  <1>4. TypeOK'
    BY <1>1 DEF TypeOK
  <1>5. \A x \in Workers : x # w => pc'[x] = pc[x] /\ ready'[x] = ready[x]
    BY DEF TypeOK
  <1>6. pc'[w] = "waiting" /\ ready'[w] = FALSE
    BY DEF TypeOK
  <1>7. \A i \in 1..Len(waiters') :
          i = Len(waiters) + 1 \/ i \in 1..Len(waiters)
    BY <1>1
  <1>8. Control'
    <2>1. \A i \in 1..Len(waiters') :
             slot'[waiters'[i]] = NoTask /\ pc'[waiters'[i]] = "waiting"
      BY <1>1, <1>2, <1>3, <1>5, <1>6, <1>7 DEF WaitersValid
    <2>2. \A x \in Workers :
             /\ slot'[x] # NoTask => pc'[x] = "waiting" /\ ready'[x]
             /\ task'[x] # NoTask <=> pc'[x] = "running"
             /\ pc'[x] = "exited" => exiting'
      BY <1>3, <1>5, <1>6 DEF Control
    <2> QED BY <2>1, <2>2 DEF Control
  <1>9. NoTaskDuplicated' /\ LostOnlyIfDangling'
    BY DEF NoTaskDuplicated, LostOnlyIfDangling, NoTaskLost, Queued, Handed, Claimed
  <1>10. WorkConserving'
    BY DEF WorkConserving
  <1>11. NoLostWakeup'
    BY <1>5, <1>6 DEF NoLostWakeup, TypeOK
  <1>12. WaitersValid'
    <2>1. \A i, j \in 1..Len(waiters') : waiters'[i] = waiters'[j] => i = j
      BY <1>1, <1>2, <1>7 DEF WaitersValid
    <2>2. \A i \in 1..Len(waiters') :
             /\ pc'[waiters'[i]] = "waiting"
             /\ ~ready'[waiters'[i]]
             /\ slot'[waiters'[i]] = NoTask
      BY <1>1, <1>2, <1>3, <1>5, <1>6, <1>7 DEF WaitersValid
    <2> QED BY <2>1, <2>2 DEF WaitersValid
  <1>13. WokenEmptyOnlyToExit'
    BY <1>5, <1>6 DEF WokenEmptyOnlyToExit
  <1> QED BY <1>4, <1>8, <1>9, <1>10, <1>11, <1>12, <1>13

LEMMA TakePendingInv ==
  ASSUME PoolInv, NEW w \in Workers, pc[w] \in {"starting", "ran"},
         TakePending(w), UNCHANGED <<exiting, slot, dtor, history>>
  PROVE  PoolInv'
  <1> USE DEF PoolInv, TakePending, history
  <1> DEFINE t == Head(pending)
  <1>1. /\ pending \in Seq(Tasks) /\ pending' \in Seq(Tasks)
        /\ t \in Tasks
        /\ Len(pending) \in Nat \ {0}
        /\ Len(pending') = Len(pending) - 1
        /\ \A i \in 1..Len(pending') : pending'[i] = pending[i + 1]
        /\ pending[1] = t
    BY HeadTailProperties, EmptySeq DEF TypeOK
  <1>2. TypeOK'
    BY <1>1 DEF TypeOK
  <1>3. Queued(t)
    BY <1>1 DEF Queued
  <1>4. ~Handed(t) /\ ~Claimed(t) /\ t \in scheduled /\ executed[t] = 0
    BY <1>1, <1>3 DEF NoTaskDuplicated
  <1>5. task[w] = NoTask /\ slot[w] = NoTask /\ t # NoTask
    BY <1>1 DEF Control
  <1>6. \A x \in Workers : x # w => pc'[x] = pc[x] /\ task'[x] = task[x]
    BY DEF TypeOK
  <1>7. pc'[w] = "running" /\ task'[w] = t
    BY DEF TypeOK
  <1> HIDE DEF t
  <1>8. waiters = <<>>
    BY DEF WorkConserving
  <1>9. Control'
    BY <1>5, <1>6, <1>7, <1>8 DEF Control
  <1>10. \A u \in Tasks : /\ Queued(u)' <=> Queued(u) /\ u # t
                          /\ Handed(u)' <=> Handed(u)
                          /\ Claimed(u)' <=> Claimed(u) \/ u = t
    <2> SUFFICES ASSUME NEW u \in Tasks
                 PROVE  /\ Queued(u)' <=> Queued(u) /\ u # t
                        /\ Handed(u)' <=> Handed(u)
                        /\ Claimed(u)' <=> Claimed(u) \/ u = t
      OBVIOUS
    <2>1. ASSUME Queued(u)' PROVE Queued(u) /\ u # t
      <3>1. PICK i \in 1..Len(pending') : pending'[i] = u
        BY <2>1 DEF Queued
      <3>2. i + 1 \in 1..Len(pending) /\ pending[i + 1] = u /\ i + 1 # 1
        BY <1>1, <3>1
      <3>3. 1 \in 1..Len(pending)
        BY <1>1
      <3> QED BY <1>1, <3>2, <3>3 DEF Queued, NoTaskDuplicated
    <2>2. ASSUME Queued(u), u # t PROVE Queued(u)'
      <3>1. PICK i \in 1..Len(pending) : pending[i] = u
        BY <2>2 DEF Queued
      <3>2. i # 1
        BY <1>1, <2>2, <3>1
      <3>3. i - 1 \in 1..Len(pending') /\ pending'[i - 1] = u
        BY <1>1, <3>1, <3>2
      <3> QED BY <3>3 DEF Queued
    <2>3. Handed(u)' <=> Handed(u)
      BY DEF Handed
    <2>4. Claimed(u)' <=> Claimed(u) \/ u = t
      BY <1>5, <1>6, <1>7 DEF Claimed
    <2> QED BY <2>1, <2>2, <2>3, <2>4
  <1>11. \A i, j \in 1..Len(pending') : pending'[i] = pending'[j] => i = j
    <2> SUFFICES ASSUME NEW i \in 1..Len(pending'), NEW j \in 1..Len(pending'),
                        pending'[i] = pending'[j]
                 PROVE  i = j
      OBVIOUS
    <2>1. /\ i + 1 \in 1..Len(pending) /\ j + 1 \in 1..Len(pending)
          /\ pending[i + 1] = pending[j + 1]
      BY <1>1
    <2>2. i + 1 = j + 1
      BY <2>1 DEF NoTaskDuplicated
    <2> QED BY <1>1, <2>2
  <1>12. \A x, v \in Workers :
           /\ task'[x] = task'[v] /\ task'[x] # NoTask => x = v
           /\ slot'[x] = task'[v] => slot'[x] = NoTask
    BY <1>4, <1>6, <1>7 DEF NoTaskDuplicated, Handed, Claimed
  <1>13. NoTaskDuplicated'
    BY <1>4, <1>10, <1>11, <1>12 DEF NoTaskDuplicated
  <1>14. LostOnlyIfDangling'
    BY <1>10 DEF LostOnlyIfDangling, NoTaskLost, TypeOK
  <1>15. WorkConserving' /\ WaitersValid'
    BY <1>8 DEF WorkConserving, WaitersValid
  <1>16. NoLostWakeup'
    <2>1. Client \in asleep' => Tail(pending) # <<>>
      OBVIOUS
    <2>2. asleep' \subseteq asleep
      OBVIOUS
    <2> QED BY <1>6, <1>7, <2>1, <2>2 DEF NoLostWakeup
  <1>17. WokenEmptyOnlyToExit'
    BY <1>6, <1>7 DEF WokenEmptyOnlyToExit
  <1> QED BY <1>2, <1>9, <1>13, <1>14, <1>15, <1>16, <1>17

LEMMA LoopTurnInv ==
  ASSUME PoolInv, NEW w \in Workers, LoopTurn(w)
  PROVE  PoolInv'
  <1>1. pc[w] \in {"starting", "ran"} /\ UNCHANGED <<exiting, slot, dtor, history>>
    BY DEF LoopTurn
  <1>2. slot[w] = NoTask
    BY <1>1 DEF PoolInv, Control
  <1>3. CASE LeaveLoop(w)
    BY <1>1, <1>2, <1>3, LeaveInv
  <1>4. CASE Park(w)
    BY <1>1, <1>4, ParkInv
  <1>5. CASE TakePending(w)
    BY <1>1, <1>5, TakePendingInv
  <1> QED BY <1>3, <1>4, <1>5 DEF LoopTurn

LEMMA TakeHandoffInv ==
  ASSUME PoolInv, NEW w \in Workers, TakeHandoff(w)
  PROVE  PoolInv'
  <1> USE DEF PoolInv, TakeHandoff, history, members
  <1>1. TypeOK'
    BY DEF TypeOK
  <1>2. \A x \in Workers : x # w => /\ pc'[x] = pc[x]
                                    /\ task'[x] = task[x]
                                    /\ slot'[x] = slot[x]
    BY DEF TypeOK
  <1>3. pc'[w] = "running" /\ task'[w] = slot[w] /\ slot'[w] = NoTask
    BY DEF TypeOK
  <1>4. task[w] = NoTask /\ slot[w] \in Tasks
    BY DEF Control, TypeOK
  <1>5. \A i \in 1..Len(waiters) : waiters[i] \in Workers /\ waiters[i] # w
    BY DEF Control, TypeOK
  <1>6. Control'
    BY <1>2, <1>3, <1>5 DEF Control
  <1>7. \A u \in Tasks : /\ Queued(u)' <=> Queued(u)
                         /\ Handed(u)' <=> Handed(u) /\ u # slot[w]
                         /\ Claimed(u)' <=> Claimed(u) \/ u = slot[w]
    BY <1>2, <1>3, <1>4 DEF Queued, Handed, Claimed, NoTaskDuplicated
  <1>8. \A x, v \in Workers :
          /\ slot'[x] = slot'[v] /\ slot'[x] # NoTask => x = v
          /\ task'[x] = task'[v] /\ task'[x] # NoTask => x = v
          /\ slot'[x] = task'[v] => slot'[x] = NoTask
    BY <1>2, <1>3, <1>4 DEF NoTaskDuplicated
  <1>9. Handed(slot[w])
    BY DEF Handed
  <1>10. NoTaskDuplicated'
    BY <1>4, <1>7, <1>8, <1>9 DEF NoTaskDuplicated
  <1>11. LostOnlyIfDangling'
    BY <1>7 DEF LostOnlyIfDangling, NoTaskLost, TypeOK
  <1>12. WorkConserving' /\ NoLostWakeup'
    BY <1>2, <1>3 DEF WorkConserving, NoLostWakeup
  <1>13. WaitersValid' /\ WokenEmptyOnlyToExit'
    BY <1>2, <1>3, <1>5 DEF WaitersValid, WokenEmptyOnlyToExit
  <1> QED BY <1>1, <1>6, <1>10, <1>11, <1>12, <1>13

LEMMA ExecuteTaskInv ==
  ASSUME PoolInv, NEW w \in Workers, ExecuteTask(w)
  PROVE  PoolInv'
  <1> USE DEF PoolInv, ExecuteTask, members
  <1> DEFINE t == task[w]
  <1>1. t \in Tasks /\ t # NoTask
    BY DEF Control, TypeOK
  <1>2. Claimed(t)
    BY DEF Claimed
  <1>3. executed[t] = 0 /\ t \in scheduled
    BY <1>1, <1>2 DEF NoTaskDuplicated
  <1>4. executed'[t] = 1 /\ \A u \in Tasks : u # t => executed'[u] = executed[u]
    BY <1>1, <1>3 DEF TypeOK
  <1>5. TypeOK'
    BY <1>1, <1>3 DEF TypeOK
  <1>6. \A x \in Workers : x # w => pc'[x] = pc[x] /\ task'[x] = task[x]
    BY DEF TypeOK
  <1>7. pc'[w] = "ran" /\ task'[w] = NoTask
    BY DEF TypeOK
  <1>8. \A i \in 1..Len(waiters) : waiters[i] \in Workers /\ waiters[i] # w
    BY DEF Control, TypeOK
  <1>9. ~Queued(t) /\ ~Handed(t) /\ \A x \in Workers : task[x] = t => x = w
    BY <1>1, <1>2 DEF NoTaskDuplicated, Handed
  <1> HIDE DEF t
  <1>10. Control'
    BY <1>3, <1>4, <1>6, <1>7, <1>8 DEF Control
  <1>11. \A u \in Tasks : /\ Queued(u)' <=> Queued(u)
                          /\ Handed(u)' <=> Handed(u)
                          /\ Claimed(u)' <=> Claimed(u) /\ u # t
    <2>1. t = task[w]
      BY DEF t
    <2> QED BY <1>6, <1>7, <1>9, <2>1 DEF Queued, Handed, Claimed
  <1>12. \A x, v \in Workers :
           /\ task'[x] = task'[v] /\ task'[x] # NoTask => x = v
           /\ slot'[x] = task'[v] => slot'[x] = NoTask
    BY <1>6, <1>7 DEF NoTaskDuplicated
  <1>13. NoTaskDuplicated'
    BY <1>4, <1>9, <1>11, <1>12 DEF NoTaskDuplicated
  <1>14. LostOnlyIfDangling'
    BY <1>1, <1>3, <1>4, <1>11 DEF LostOnlyIfDangling, NoTaskLost, TypeOK
  <1>15. WorkConserving' /\ NoLostWakeup'
    BY <1>6, <1>7 DEF WorkConserving, NoLostWakeup
  <1>16. WaitersValid' /\ WokenEmptyOnlyToExit'
    BY <1>6, <1>7, <1>8 DEF WaitersValid, WokenEmptyOnlyToExit
  <1> QED BY <1>5, <1>10, <1>13, <1>14, <1>15, <1>16

-----------------------------------------------------------------------------
(* The destructor's critical section. *)
LEMMA StopWorkersInv ==
  ASSUME PoolInv, dtor \in {"live", "draining"}, StopWorkers,
         UNCHANGED <<task, pc, history>>
  PROVE  PoolInv'
  <1> USE DEF PoolInv, StopWorkers, history
  <1> DEFINE In(w) == \E i \in 1..Len(waiters) : waiters[i] = w
  <1>1. \A w \in Workers :
          /\ In(w) => ready'[w] /\ slot'[w] = NoTask /\ slot[w] = NoTask
                      /\ pc[w] = "waiting" /\ ~ready[w]
          /\ ~In(w) => ready'[w] = ready[w] /\ slot'[w] = slot[w]
    <2>1. ~exiting
      BY DEF Control
    <2>2. \A w \in Workers :
            In(w) => slot[w] = NoTask /\ pc[w] = "waiting" /\ ~ready[w]
      BY <2>1 DEF WaitersValid
    <2>3. \A w \in Workers : /\ ready'[w] = IF In(w) THEN TRUE ELSE ready[w]
                             /\ slot'[w] = IF In(w) THEN NoTask ELSE slot[w]
      OBVIOUS
    <2> HIDE DEF In
    <2> QED BY <2>2, <2>3
  <1>2. \A w \in asleep' : w \in asleep /\ ~In(w)
    OBVIOUS
  <1>3. TypeOK'
    BY DEF TypeOK
  <1> HIDE DEF In
  <1>4. slot' = slot
    <2>1. \A w \in Workers : slot'[w] = slot[w]
      BY <1>1
    <2> QED BY <1>3, <2>1 DEF TypeOK
  <1>5. Control'
    BY <1>1, <1>4 DEF Control, TypeOK
  <1>6. NoTaskDuplicated' /\ LostOnlyIfDangling'
    BY <1>4 DEF NoTaskDuplicated, LostOnlyIfDangling, NoTaskLost, Queued, Handed, Claimed
  <1>7. WorkConserving' /\ NoLostWakeup'
    BY <1>1, <1>2 DEF WorkConserving, NoLostWakeup
  <1>8. WaitersValid' /\ WokenEmptyOnlyToExit'
    BY DEF WaitersValid, WokenEmptyOnlyToExit
  <1> QED BY <1>3, <1>5, <1>6, <1>7, <1>8

LEMMA WaitEmptyInv ==
  ASSUME PoolInv, dtor \in {"live", "draining"}, WaitEmpty,
         UNCHANGED <<task, pc, history>>
  PROVE  PoolInv'
  <1> USE DEF PoolInv, WaitEmpty, members, history
  <1>1. TypeOK'
    BY DEF TypeOK
  <1>2. Control'
    BY DEF Control
  <1>3. NoTaskDuplicated' /\ LostOnlyIfDangling'
    BY DEF NoTaskDuplicated, LostOnlyIfDangling, NoTaskLost, Queued, Handed, Claimed
  <1>4. WorkConserving' /\ NoLostWakeup'
    BY DEF WorkConserving, NoLostWakeup
  <1>5. WaitersValid' /\ WokenEmptyOnlyToExit'
    BY DEF WaitersValid, WokenEmptyOnlyToExit
  <1> QED BY <1>1, <1>2, <1>3, <1>4, <1>5

-----------------------------------------------------------------------------
LEMMA NextInv == PoolInv /\ [Next]_vars => PoolInv'
  <1> SUFFICES ASSUME PoolInv, [Next]_vars PROVE PoolInv'
    OBVIOUS
  <1>1. ASSUME NEW w \in Workers, CreateThread(w) PROVE PoolInv'
    <2> USE <1>1 DEF PoolInv, CreateThread, members, history
    <2>1. TypeOK'
      BY DEF TypeOK
    <2>2. \A i \in 1..Len(waiters) : waiters[i] \in Workers /\ waiters[i] # w
      BY DEF Control, TypeOK
    <2>3. pc'[w] = "starting" /\ \A x \in Workers : x # w => pc'[x] = pc[x]
      BY DEF TypeOK
    <2>4. Control'
      BY <2>2, <2>3 DEF Control
    <2>5. NoTaskDuplicated' /\ LostOnlyIfDangling'
      BY DEF NoTaskDuplicated, LostOnlyIfDangling, NoTaskLost, Queued, Handed, Claimed
    <2>6. WorkConserving' /\ NoLostWakeup'
      BY <2>3 DEF WorkConserving, NoLostWakeup
    <2>7. WaitersValid' /\ WokenEmptyOnlyToExit'
      BY <2>2, <2>3 DEF WaitersValid, WokenEmptyOnlyToExit
    <2> QED BY <2>1, <2>4, <2>5, <2>6, <2>7
  <1>2. ASSUME NEW w \in Workers, LoopTurn(w) PROVE PoolInv'
    BY <1>2, LoopTurnInv
  <1>3. ASSUME NEW w \in Workers, Resleep(w) PROVE PoolInv'
    <2> USE <1>3 DEF PoolInv, Resleep, members, locals, history
    <2>1. TypeOK' /\ Control'
      BY DEF TypeOK, Control
    <2>2. NoTaskDuplicated' /\ LostOnlyIfDangling'
      BY DEF NoTaskDuplicated, LostOnlyIfDangling, NoTaskLost, Queued, Handed, Claimed
    <2>3. WorkConserving' /\ NoLostWakeup'
      BY DEF WorkConserving, NoLostWakeup
    <2>4. WaitersValid' /\ WokenEmptyOnlyToExit'
      BY DEF WaitersValid, WokenEmptyOnlyToExit
    <2> QED BY <2>1, <2>2, <2>3, <2>4
  <1>4. ASSUME NEW w \in Workers, TakeHandoff(w) PROVE PoolInv'
    BY <1>4, TakeHandoffInv
  <1>5. ASSUME NEW w \in Workers, WokenToExit(w) PROVE PoolInv'
    BY <1>5, LeaveInv DEF WokenToExit
  <1>6. ASSUME NEW w \in Workers, ExecuteTask(w) PROVE PoolInv'
    BY <1>6, ExecuteTaskInv
  <1>7. ASSUME NEW t \in Tasks, Schedule(t) PROVE PoolInv'
    BY <1>7, EnqueueInv DEF Schedule
  <1>8. ASSUME NEW w \in Workers, NEW t \in Tasks, NestedSchedule(w, t)
        PROVE  PoolInv'
    BY <1>8, EnqueueInv DEF NestedSchedule
  <1>9. CASE Destroy \/ DestroyWoken
    BY <1>9, StopWorkersInv, WaitEmptyInv DEF Destroy, DestroyWoken
  <1>10. CASE Join
    <2> USE <1>10 DEF PoolInv, Join, members, locals, history
    <2>1. TypeOK' /\ Control'
      BY DEF TypeOK, Control
    <2>2. NoTaskDuplicated' /\ LostOnlyIfDangling'
      BY DEF NoTaskDuplicated, LostOnlyIfDangling, NoTaskLost, Queued, Handed, Claimed
    <2>3. WorkConserving' /\ NoLostWakeup'
      BY DEF WorkConserving, NoLostWakeup
    <2>4. WaitersValid' /\ WokenEmptyOnlyToExit'
      BY DEF WaitersValid, WokenEmptyOnlyToExit
    <2> QED BY <2>1, <2>2, <2>3, <2>4
  <1>11. ASSUME NEW a \in Workers \cup {Client}, SpuriousWakeup(a) PROVE PoolInv'
    <2> USE <1>11 DEF PoolInv, SpuriousWakeup, members, locals, history
    <2>1. TypeOK' /\ Control'
      BY DEF TypeOK, Control
    <2>2. NoTaskDuplicated' /\ LostOnlyIfDangling'
      BY DEF NoTaskDuplicated, LostOnlyIfDangling, NoTaskLost, Queued, Handed, Claimed
    <2>3. WorkConserving' /\ NoLostWakeup'
      BY DEF WorkConserving, NoLostWakeup
    <2>4. WaitersValid' /\ WokenEmptyOnlyToExit'
      BY DEF WaitersValid, WokenEmptyOnlyToExit
    <2> QED BY <2>1, <2>2, <2>3, <2>4
  <1>12. CASE UNCHANGED vars
    <2> USE <1>12 DEF PoolInv, vars
    <2>1. TypeOK' /\ Control'
      BY DEF TypeOK, Control
    <2>2. NoTaskDuplicated' /\ LostOnlyIfDangling'
      BY DEF NoTaskDuplicated, LostOnlyIfDangling, NoTaskLost, Queued, Handed, Claimed
    <2>3. WorkConserving' /\ NoLostWakeup'
      BY DEF WorkConserving, NoLostWakeup
    <2>4. WaitersValid' /\ WokenEmptyOnlyToExit'
      BY DEF WaitersValid, WokenEmptyOnlyToExit
    <2> QED BY <2>1, <2>2, <2>3, <2>4
  <1> QED
    BY <1>1, <1>2, <1>3, <1>4, <1>5, <1>6, <1>7, <1>8, <1>9, <1>10, <1>11, <1>12
    DEF Next, WorkerStep, Terminated

(* PoolInv holds whatever closures the tasks are and whoever schedules     *)
(* them: nested Schedule calls and a racing destructor included.           *)
THEOREM PoolInvariant == Spec => []PoolInv
  BY InitInv, NextInv, PTL DEF Spec

(* The variables keep their types; no closure is executed twice. *)
THEOREM TypeCorrect == Spec => []TypeOK
  <1>1. PoolInv => TypeOK
    BY DEF PoolInv
  <1> QED BY <1>1, PoolInvariant, PTL

(* A closure is never in two places and never run twice. *)
THEOREM TasksNotDuplicated == Spec => []NoTaskDuplicated
  <1>1. PoolInv => NoTaskDuplicated
    BY DEF PoolInv
  <1> QED BY <1>1, PoolInvariant, PTL

(* The wake-up protocol of Schedule, WorkerLoop and the destructor: no     *)
(* worker idles while a task is queued, no thread sleeps through its       *)
(* notification, waiters_ stays within its capacity and holds no stale     *)
(* Waiter, and a worker woken without a task is woken to leave.            *)
THEOREM WakeupProtocol == Spec => []WakeupsOK
  <1>1. PoolInv => WakeupsOK
    BY DEF PoolInv, WakeupsOK
  <1> QED BY <1>1, PoolInvariant, PTL

-----------------------------------------------------------------------------
(* From here on only the owner schedules: no closure calls Schedule. *)
LEMMA NoNestedSchedule ==
  ASSUME PoolInv, OwnerOnly, NEW w \in Workers, NEW t \in Tasks
  PROVE  ~NestedSchedule(w, t)
  <1> SUFFICES ASSUME NestedSchedule(w, t) PROVE FALSE
    OBVIOUS
  <1>1. task[w] \in Tasks
    BY DEF NestedSchedule, PoolInv, Control, TypeOK
  <1>2. task[w] = Client
    BY DEF NestedSchedule, OwnerOnly
  <1> QED BY <1>1, <1>2

LEMMA OwnerNextInv ==
  ASSUME PoolInv, OwnerInv, OwnerOnly, [Next]_vars
  PROVE  OwnerInv'
  <1> USE DEF OwnerInv
  <1>1. ASSUME NEW w \in Workers, CreateThread(w) \/ WorkerStep(w)
        PROVE  OwnerInv'
    <2>1. UNCHANGED <<dtor, dangling, exiting>>
      BY <1>1 DEF CreateThread, WorkerStep, LoopTurn, Resleep, TakeHandoff,
                  WokenToExit, ExecuteTask, members, history
    <2>2. exiting => UNCHANGED pending
      BY <1>1 DEF CreateThread, WorkerStep, LoopTurn, LeaveLoop, Park, TakePending,
                  Resleep, TakeHandoff, WokenToExit, ExecuteTask, members
    <2>3. \A x \in Workers : pc[x] = "exited" => pc'[x] = "exited"
      <3>1. pc[w] # "exited" \/ pc' = pc
        BY <1>1 DEF CreateThread, WorkerStep, LoopTurn, Resleep, TakeHandoff,
                    WokenToExit, ExecuteTask, locals
      <3>2. \A x \in Workers : x # w => pc'[x] = pc[x]
        BY <1>1 DEF CreateThread, WorkerStep, LoopTurn, LeaveLoop, Park, TakePending,
                    Resleep, TakeHandoff, WokenToExit, ExecuteTask, locals,
                    PoolInv, TypeOK
      <3> QED BY <3>1, <3>2
    <2> QED BY <2>1, <2>2, <2>3
  <1>2. ASSUME NEW t \in Tasks, Schedule(t) PROVE OwnerInv'
    <2>1. ~exiting /\ UNCHANGED <<exiting, dtor, pc>> /\ dtor = "live"
      BY <1>2 DEF Schedule, PoolInv, Control
    <2>2. waiters # <<>> => pc[waiters[Len(waiters)]] = "waiting"
      <3>1. waiters # <<>> => Len(waiters) \in 1..Len(waiters)
        BY EmptySeq DEF PoolInv, TypeOK
      <3> QED BY <2>1, <3>1 DEF PoolInv, WaitersValid
    <2>3. UNCHANGED dangling
      BY <1>2, <2>2 DEF Schedule, Enqueue
    <2> QED BY <2>1, <2>3
  <1>3. CASE Destroy \/ DestroyWoken
    <2>1. CASE StopWorkers /\ UNCHANGED history
      BY <2>1 DEF StopWorkers, history
    <2>2. CASE WaitEmpty /\ UNCHANGED history
      BY <2>2 DEF WaitEmpty, members, history
    <2> QED BY <1>3, <2>1, <2>2 DEF Destroy, DestroyWoken
  <1>4. CASE Join
    <2>1. UNCHANGED <<pending, exiting, pc, dangling>> /\ dtor' = "done"
      BY <1>4 DEF Join, members, locals, history
    <2> QED BY <1>4, <2>1 DEF Join
  <1>5. ASSUME NEW a \in Workers \cup {Client}, SpuriousWakeup(a) PROVE OwnerInv'
    <2>1. UNCHANGED <<pending, exiting, pc, dangling, dtor>>
      BY <1>5 DEF SpuriousWakeup, members, locals, history
    <2> QED BY <2>1
  <1>6. CASE UNCHANGED vars
    BY <1>6 DEF vars
  <1> QED
    BY <1>1, <1>2, <1>3, <1>4, <1>5, <1>6, NoNestedSchedule DEF Next, Terminated

(* Once every worker has left and nothing is queued, everything has run. *)
LEMMA ExitedMeansAllRun ==
  ASSUME PoolInv, OwnerInv, exiting, \A w \in Workers : pc[w] = "exited"
  PROVE  \A t \in scheduled : executed[t] = 1
  <1>1. pending = <<>>
    BY DEF OwnerInv
  <1>2. \A w \in Workers : slot[w] = NoTask /\ task[w] = NoTask
    BY DEF PoolInv, Control
  <1>3. \A t \in Tasks : ~Queued(t) /\ ~Handed(t) /\ ~Claimed(t)
    BY <1>1, <1>2 DEF Queued, Handed, Claimed
  <1> QED BY <1>3 DEF PoolInv, LostOnlyIfDangling, NoTaskLost, OwnerInv, TypeOK

(* A pool whose closures do not call Schedule keeps its destructor's       *)
(* promise, loses no task and touches no dead Waiter.                      *)
THEOREM OwnerSafety ==
  ASSUME OwnerOnly
  PROVE  Spec => [](NoTaskLost /\ DestroyedMeansAllRun /\ NoDanglingWaiter)
  <1>1. Init => PoolInv /\ OwnerInv
    BY InitInv
  <1>2. PoolInv /\ OwnerInv /\ [Next]_vars => PoolInv' /\ OwnerInv'
    BY NextInv, OwnerNextInv
  <1>3. PoolInv /\ OwnerInv => NoTaskLost /\ DestroyedMeansAllRun /\ NoDanglingWaiter
    <2> SUFFICES ASSUME PoolInv, OwnerInv
                 PROVE  NoTaskLost /\ DestroyedMeansAllRun /\ NoDanglingWaiter
      OBVIOUS
    <2>1. NoTaskLost /\ NoDanglingWaiter
      BY DEF PoolInv, LostOnlyIfDangling, OwnerInv, NoDanglingWaiter
    <2>2. DestroyedMeansAllRun
      <3>1. dtor = "done" => exiting
        BY DEF PoolInv, Control
      <3> QED BY <3>1, ExitedMeansAllRun DEF OwnerInv, DestroyedMeansAllRun
    <2> QED BY <2>1, <2>2
  <1> QED BY <1>1, <1>2, <1>3, PTL DEF Spec

(* A pool whose closures do not call Schedule implements TaskPool. *)
THEOREM PoolImplementsTaskPool ==
  ASSUME OwnerOnly
  PROVE  Spec => ImplementsTaskPool
  <1> DEFINE submitted == scheduled
             finished  == {t \in Tasks : executed[t] > 0}
             closed    == dtor = "done"
  <1>1. Init => PoolInv /\ OwnerInv
    BY InitInv
  <1>2. PoolInv /\ OwnerInv /\ [Next]_vars => PoolInv' /\ OwnerInv'
    BY NextInv, OwnerNextInv
  <1>3. Init => TP!Init
    BY DEF Init, TP!Init
  <1>4. ASSUME PoolInv, OwnerInv, [Next]_vars
        PROVE  [TP!Next]_TP!vars
    <2>1. ASSUME NEW w \in Workers, CreateThread(w) \/ LoopTurn(w) \/ Resleep(w)
                                    \/ TakeHandoff(w) \/ WokenToExit(w)
          PROVE  UNCHANGED TP!vars
      <3>1. UNCHANGED <<scheduled, executed, dtor>>
        BY <2>1 DEF CreateThread, LoopTurn, Resleep, TakeHandoff, WokenToExit, history
      <3> QED BY <3>1 DEF TP!vars
    <2>2. ASSUME NEW w \in Workers, ExecuteTask(w) PROVE TP!Next
      <3>1. PICK t \in Tasks : t = task[w]
        BY <2>2, <1>4 DEF ExecuteTask, PoolInv, Control, TypeOK
      <3>2. Claimed(t)
        BY <3>1 DEF Claimed
      <3>3. executed[t] = 0 /\ t \in scheduled
        BY <1>4, <3>1, <3>2 DEF PoolInv, NoTaskDuplicated
      <3>4. executed' = [executed EXCEPT ![t] = @ + 1] /\ UNCHANGED <<scheduled, dtor>>
        BY <2>2, <3>1 DEF ExecuteTask
      <3>5. executed \in [Tasks -> {0, 1}]
        BY <1>4 DEF PoolInv, TypeOK
      <3>6. finished' = finished \cup {t} /\ t \notin finished
        BY <3>3, <3>4, <3>5
      <3>7. TP!Run(t)
        BY <3>3, <3>4, <3>6 DEF TP!Run
      <3> QED BY <3>7 DEF TP!Next
    <2>3. ASSUME NEW t \in Tasks, Schedule(t) PROVE TP!Next
      <3>1. /\ dtor = "live" /\ t \notin scheduled
            /\ scheduled' = scheduled \cup {t}
            /\ UNCHANGED <<dtor, executed>>
        BY <2>3 DEF Schedule, Enqueue
      <3>2. TP!Submit(t)
        BY <3>1 DEF TP!Submit
      <3> QED BY <3>2 DEF TP!Next
    <2>4. CASE Destroy \/ DestroyWoken
      <3>1. /\ UNCHANGED <<scheduled, executed>>
            /\ dtor # "done" /\ dtor' # "done"
        BY <2>4 DEF Destroy, DestroyWoken, StopWorkers, WaitEmpty, history
      <3> QED BY <3>1 DEF TP!vars
    <2>5. CASE Join
      <3>1. dtor = "joining" /\ dtor' = "done" /\ UNCHANGED <<scheduled, executed>>
        BY <2>5 DEF Join, history
      <3>2. exiting
        BY <1>4, <3>1 DEF PoolInv, Control
      <3>3. \A t \in scheduled : executed[t] = 1
        BY <1>4, <2>5, <3>2, ExitedMeansAllRun DEF Join
      <3>4. scheduled \subseteq Tasks /\ \A t \in Tasks \ scheduled : executed[t] = 0
        BY <1>4 DEF PoolInv, TypeOK, Control
      <3>5. submitted = finished
        BY <3>3, <3>4
      <3>6. TP!Close
        BY <3>1, <3>5 DEF TP!Close
      <3> QED BY <3>6 DEF TP!Next
    <2>6. ASSUME NEW a \in Workers \cup {Client}, SpuriousWakeup(a)
          PROVE  UNCHANGED TP!vars
      <3>1. UNCHANGED <<scheduled, executed, dtor>>
        BY <2>6 DEF SpuriousWakeup, history
      <3> QED BY <3>1 DEF TP!vars
    <2>7. CASE UNCHANGED vars
      BY <2>7 DEF vars, TP!vars
    <2> QED
      BY <1>4, <2>1, <2>2, <2>3, <2>4, <2>5, <2>6, <2>7, NoNestedSchedule
      DEF Next, WorkerStep, Terminated
  <1> QED BY <1>1, <1>2, <1>3, <1>4, PTL DEF Spec, ImplementsTaskPool, TP!Spec
=============================================================================

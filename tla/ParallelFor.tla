---------------------------- MODULE ParallelFor ----------------------------
(***************************************************************************)
(* base/thread/device_thread_pool.h: DeviceThreadPool::ParallelFor, called *)
(* through ThreadPool::ParallelFor (base/threadpool.cc) or directly.       *)
(*                                                                         *)
(* The caller decides with the cost model (base/thread/cost_model.h)       *)
(* whether to split at all, chooses a block size, then halves [0, n) into  *)
(* closures on the pool until a range fits a block; each leaf calls f and  *)
(* notifies the Barrier on the caller's stack, on which the caller waits.  *)
(*                                                                         *)
(* The pool is what TaskPool promises: a scheduled closure is taken once,  *)
(* by some idle worker, in any order.  The barrier is module Barrier.      *)
(* Index is an int: IntMax is its largest value and sums wrap.  Doubles    *)
(* are exact here; costs are whole compute cycles, as ThreadPool passes.   *)
(***************************************************************************)
EXTENDS Integers, FiniteSets

CONSTANTS Workers,    \* the pool's threads
          Caller,     \* the thread that calls ParallelFor
          Nobody,     \* the barrier's mutex is free
          Sizes,      \* values of n
          Costs,      \* compute cycles per unit
          Aligns,     \* block_align rounds up to a multiple of it; 0: nullptr
          IntMax      \* the largest Index

(* What the constants must be; whoever instantiates the module assumes it. *)
ParallelForAssumption ==
  /\ IsFiniteSet(Workers) /\ Workers # {}
  /\ Caller \notin Workers
  /\ Nobody \notin Workers \cup {Caller}
  /\ IntMax \in Nat /\ Sizes \subseteq 0..IntMax
  /\ Costs \subseteq Nat
  /\ Aligns \subseteq Nat

VARIABLES
  n, cost, align,          \* the arguments
  pc,                      \* where the caller is
  blockSize, blockCount,   \* block_size, block_count
  prevCount,               \* prev_block_count
  best,                    \* max_efficiency, as <<numerator, denominator>>
  queue,                   \* ranges whose closure no worker has taken
  hpc, range,              \* each thread in HandleRange, and its range
  covered,                 \* history: how often f was called on an index
  total, count, waiting, notified, mu, npc, wpc, alive   \* the Barrier

inputs  == <<n, cost, align>>
plan    == <<blockSize, blockCount, prevCount, best>>
barrier == <<total, count, waiting, notified, mu, npc, wpc, alive>>
vars == <<n, cost, align, pc, blockSize, blockCount, prevCount, best, queue,
          hpc, range, covered, total, count, waiting, notified, mu, npc, wpc,
          alive>>

Runners == Workers \cup {Caller}
NumThreads == Cardinality(Workers)

B == INSTANCE Barrier WITH
       Threads <- Runners, Waiters <- {Caller}, MaxCount <- IntMax

-----------------------------------------------------------------------------
(* int arithmetic: two's complement, division towards zero. *)
Wrap(x) == CASE x > IntMax -> x - 2 * (IntMax + 1)
             [] x < -IntMax - 1 -> x + 2 * (IntMax + 1)
             [] OTHER -> x
Quotient(x, y) == IF x >= 0 THEN x \div y ELSE -((-x) \div y)
DivUp(x, y) == Quotient(Wrap(Wrap(x + y) - 1), y)

Least(x, y) == IF x < y THEN x ELSE y
Most(x, y)  == IF x > y THEN x ELSE y

(* CostModel::NumThreads: (cost - kStartupCycles) / kPerThreadCycles + 0.9 *)
(* truncated, within 1..max_threads.                                       *)
CostThreads == Least(NumThreads, Most(1, Quotient(n * cost - 10000, 100000)))

(* 1 / CostModel::TaskSize(1, cost) is kTaskSize / cost. *)
kTaskSize == 40000
FirstBlock == Least(n, Most(1, kTaskSize \div cost))
MaxBlock   == Least(n, Most(1, (2 * kTaskSize) \div cost))

(* block_align for align # 0. *)
BlockAlign(size) == DivUp(size, align) * align

(* The share of the threads' turns that work on some block. *)
Efficiency(blocks) == <<blocks, DivUp(blocks, NumThreads) * NumThreads>>

(* e + 0.01 >= m *)
NearlyAsGood(e, m) == 100 * e[1] * m[2] + e[2] * m[2] >= 100 * m[1] * e[2]
Better(e, m) == e[1] * m[2] > m[1] * e[2]

Indices(r) == r[1]..(r[2] - 1)

Init ==
  /\ n \in Sizes /\ cost \in Costs /\ align \in Aligns
  /\ pc = "enter"
  /\ blockSize = 0 /\ blockCount = 0 /\ prevCount = 0 /\ best = <<0, 1>>
  /\ queue = {}
  /\ hpc = [t \in Runners |-> "idle"]
  /\ range = [t \in Runners |-> <<0, 0>>]
  /\ covered = [i \in 0..(n - 1) |-> 0]
  /\ B!Construct(0)

Cover(r) == [i \in DOMAIN covered |->
               IF i \in Indices(r) THEN covered[i] + 1 ELSE covered[i]]

-----------------------------------------------------------------------------
(* One thread, one element or too little work: f(0, n) in the caller. *)
Sequential ==
  /\ pc = "enter"
  /\ n <= 1 \/ NumThreads = 1 \/ CostThreads = 1
  /\ covered' = Cover(<<0, n>>)
  /\ pc' = "returned"
  /\ UNCHANGED <<inputs, plan, queue, hpc, range, barrier>>

Parallel == n > 1 /\ NumThreads > 1 /\ CostThreads > 1

(* The guard around the first block_align tests block_size, which is       *)
(* always positive here, and not block_align.                              *)
CallNullAlign ==
  /\ pc = "enter"
  /\ Parallel
  /\ align = 0
  /\ pc' = "threw"       \* std::bad_function_call
  /\ UNCHANGED <<inputs, plan, queue, hpc, range, covered, barrier>>

ChooseBlock ==
  /\ pc = "enter"
  /\ Parallel
  /\ align # 0
  /\ blockSize' = Least(n, BlockAlign(FirstBlock))
  /\ blockCount' = DivUp(n, blockSize')
  /\ prevCount' = blockCount'
  /\ best' = Efficiency(blockCount')
  /\ pc' = "coarsen"
  /\ UNCHANGED <<inputs, queue, hpc, range, covered, barrier>>

CoarserSize == Least(n, BlockAlign(DivUp(n, prevCount - 1)))

(* Fault: max_efficiency follows every accepted size, also a worse one. *)
CoarsenForgetsBest ==
  /\ pc = "coarsen"
  /\ prevCount > 1
  /\ CoarserSize <= MaxBlock
  /\ prevCount' = DivUp(n, CoarserSize)
  /\ blockSize' = CoarserSize
  /\ blockCount' = prevCount'
  /\ best' = Efficiency(prevCount')
  /\ UNCHANGED <<inputs, pc, queue, hpc, range, covered, barrier>>

(* Fault: the block size is changed and the block count is not. *)
CoarsenKeepsCount ==
  /\ pc = "coarsen"
  /\ prevCount > 1
  /\ CoarserSize <= MaxBlock
  /\ prevCount' = DivUp(n, CoarserSize)
  /\ blockSize' = CoarserSize
  /\ UNCHANGED <<inputs, pc, blockCount, best, queue, hpc, range, covered, barrier>>

(* One turn of the loop that tries fewer, larger blocks. *)
Coarsen ==
  /\ pc = "coarsen"
  /\ prevCount > 1
  /\ CoarserSize <= MaxBlock
  /\ prevCount' = DivUp(n, CoarserSize)
  /\ LET e == Efficiency(prevCount') IN
       \/ /\ NearlyAsGood(e, best)
          /\ blockSize' = CoarserSize
          /\ blockCount' = prevCount'
          /\ best' = IF Better(e, best) THEN e ELSE best
       \/ /\ ~NearlyAsGood(e, best)
          /\ UNCHANGED <<blockSize, blockCount, best>>
  /\ UNCHANGED <<inputs, pc, queue, hpc, range, covered, barrier>>

(* The loop ends; Barrier(block_count), whose constructor shifts the count *)
(* left by one bit; HandleRange(0, n) in the caller.                       *)
Start ==
  /\ pc = "coarsen"
  /\ prevCount > 1 => CoarserSize > MaxBlock
  /\ total' = IF blockCount < 0 THEN blockCount + (IntMax + 1) ELSE blockCount
  /\ count' = total'
  /\ hpc' = [hpc EXCEPT ![Caller] = "range"]
  /\ range' = [range EXCEPT ![Caller] = <<0, n>>]
  /\ pc' = "handle"
  /\ UNCHANGED <<inputs, plan, queue, covered, waiting, notified, mu, npc, wpc, alive>>

-----------------------------------------------------------------------------
Fits(r) == r[2] - r[1] <= blockSize
(* Fault: the range is cut in half, not at a multiple of the block size. *)
MidUnaligned(r) == r[1] + (r[2] - r[1]) \div 2
Mid(r) == r[1] + DivUp((r[2] - r[1]) \div 2, blockSize) * blockSize

(* HandleRange returns. *)
Leave(t) ==
  /\ hpc' = [hpc EXCEPT ![t] = "idle"]
  /\ range' = [range EXCEPT ![t] = <<0, 0>>]

(* HandleRange on a range of at most a block: f(first, last). *)
HandleLeaf(t) ==
  /\ hpc[t] = "range"
  /\ Fits(range[t])
  /\ covered' = Cover(range[t])
  /\ hpc' = [hpc EXCEPT ![t] = "notify"]
  /\ UNCHANGED <<inputs, pc, plan, queue, range, barrier>>

(* barrier.Notify() *)
NotifyBarrier(t) ==
  /\ hpc[t] = "notify"
  /\ B!Notify(t)
  /\ Leave(t)
  /\ UNCHANGED <<inputs, pc, plan, queue, covered>>

(* HandleRange on a longer range: the upper half is scheduled, ... *)
ScheduleUpper(t) ==
  /\ hpc[t] = "range"
  /\ ~Fits(range[t])
  /\ queue' = queue \cup {<<Mid(range[t]), range[t][2]>>}
  /\ hpc' = [hpc EXCEPT ![t] = "half"]
  /\ UNCHANGED <<inputs, pc, plan, range, covered, barrier>>

(* Fault: the lower half ends one index early. *)
ScheduleLowerShort(t) ==
  /\ hpc[t] = "half"
  /\ queue' = queue \cup {<<range[t][1], Mid(range[t]) - 1>>}
  /\ Leave(t)
  /\ UNCHANGED <<inputs, pc, plan, covered, barrier>>

(* ... and then the lower half. *)
ScheduleLower(t) ==
  /\ hpc[t] = "half"
  /\ queue' = queue \cup {<<range[t][1], Mid(range[t])>>}
  /\ Leave(t)
  /\ UNCHANGED <<inputs, pc, plan, covered, barrier>>

(* A worker whose last closure is finished takes another one. *)
Take(w, r) ==
  /\ hpc[w] = "idle"
  /\ npc[w] = "out"
  /\ r \in queue
  /\ queue' = queue \ {r}
  /\ range' = [range EXCEPT ![w] = r]
  /\ hpc' = [hpc EXCEPT ![w] = "range"]
  /\ UNCHANGED <<inputs, pc, plan, covered, barrier>>

(* HandleRange has returned to the caller: barrier.Wait(). *)
WaitBarrier ==
  /\ pc = "handle"
  /\ hpc[Caller] = "idle"
  /\ npc[Caller] = "out"
  /\ B!Wait(Caller)
  /\ pc' = "wait"
  /\ UNCHANGED <<inputs, plan, queue, hpc, range, covered>>

(* The steps inside Notify and Wait that take the barrier's mutex. *)
NotifyStep(t) ==
  /\ B!NotifyLocked(t) \/ B!NotifyUnlock(t)
  /\ UNCHANGED <<inputs, pc, plan, queue, hpc, range, covered>>

WaitStep ==
  /\ B!WaitLocked(Caller)
  /\ UNCHANGED <<inputs, pc, plan, queue, hpc, range, covered>>

BarrierSpurious ==
  /\ B!SpuriousWakeup(Caller)
  /\ UNCHANGED <<inputs, pc, plan, queue, hpc, range, covered>>

(* Fault: ParallelFor does not wait for the barrier. *)
ReturnEarly ==
  /\ pc = "wait"
  /\ pc' = "returned"
  /\ UNCHANGED <<inputs, plan, queue, hpc, range, covered, barrier>>

(* ParallelFor returns and its frame, with barrier and HandleRange, dies. *)
Return ==
  /\ pc = "wait"
  /\ B!Destroy
  /\ pc' = "returned"
  /\ UNCHANGED <<inputs, plan, queue, hpc, range, covered>>

Finished == pc \in {"returned", "threw"} /\ UNCHANGED vars

-----------------------------------------------------------------------------
CallerStep == \/ Sequential \/ CallNullAlign \/ ChooseBlock \/ Coarsen
              \/ Start \/ WaitBarrier \/ Return

HandleRange(t) == \/ HandleLeaf(t) \/ NotifyBarrier(t)
                  \/ ScheduleUpper(t) \/ ScheduleLower(t)

Next ==
  \/ CallerStep
  \/ \E t \in Runners : HandleRange(t)
  \/ \E w \in Workers : \E r \in queue : Take(w, r)
  \/ \E t \in Runners : NotifyStep(t)
  \/ WaitStep
  \/ BarrierSpurious
  \/ Finished

Spec == Init /\ [][Next]_vars

(* Threads are scheduled, f returns, and some worker takes what is queued  *)
(* (SimpleThreadPool's EveryTaskRuns).                                     *)
Fairness ==
  /\ WF_vars(CallerStep)
  /\ \A t \in Runners : WF_vars(HandleRange(t))
  /\ WF_vars(\E w \in Workers : \E r \in queue : Take(w, r))
  /\ \A t \in Runners : WF_vars(NotifyStep(t))
  /\ WF_vars(WaitStep)

FairSpec == Spec /\ Fairness

-----------------------------------------------------------------------------
Ranges == {<<a, b>> : a \in 0..n, b \in 0..n}

TypeOK ==
  /\ pc \in {"enter", "coarsen", "handle", "wait", "returned", "threw"}
  /\ {blockSize, blockCount, prevCount} \subseteq -IntMax..IntMax
  /\ queue \subseteq Ranges
  /\ hpc \in [Runners -> {"idle", "range", "half", "notify"}]
  /\ range \in [Runners -> Ranges]
  /\ covered \in [0..(n - 1) -> {0, 1}]
  /\ B!TypeOK

Working == pc \in {"handle", "wait"}

(* What thread t still has to pass on or to work on. *)
Held(t) ==
  CASE hpc[t] = "range" -> {range[t]}
    [] hpc[t] = "half"  -> {<<range[t][1], Mid(range[t])>>}
    [] OTHER            -> {}

(* Every index is in exactly one place: in a scheduled closure, with a     *)
(* thread, or done.  The halves meet at mid: none is skipped or done twice.*)
EachIndexOnce ==
  Working =>
    \A i \in 0..(n - 1) :
      1 = covered[i] + Cardinality({r \in queue : i \in Indices(r)})
            + Cardinality({t \in Runners : \E r \in Held(t) : i \in Indices(r)})

(* Thread t has yet to call Notify for these, or to pass them on. *)
Claimed(t) == IF hpc[t] = "notify" THEN {range[t]} ELSE Held(t)

(* Where the blocks begin for which Notify is still to be called: ranges   *)
(* are cut at multiples of block_size only, until they hold just one.      *)
BlocksToCome ==
  {i \in 0..(n - 1) : i % blockSize = 0
                    /\ \/ \E r \in queue : i \in Indices(r)
                       \/ \E t \in Runners : \E r \in Claimed(t) : i \in Indices(r)}

(* The barrier expects exactly the Notify calls that are still to come:    *)
(* block_count, computed by division, is the number of leaves the halving  *)
(* of [0, n) at multiples of block_size ends in.                           *)
BarrierCountsBlocks == Working => count = Cardinality(BlocksToCome)

(* When ParallelFor returns, f has been called once on every index and no  *)
(* thread is about to use HandleRange or the barrier, which are gone.      *)
ReturnMeansAllDone ==
  pc = "returned" =>
    /\ \A i \in 0..(n - 1) : covered[i] = 1
    /\ queue = {}
    /\ \A t \in Runners : hpc[t] = "idle" /\ npc[t] = "out"

(* f is only called on ranges that begin at a multiple of block_align and  *)
(* hold at most a block.                                                   *)
BlocksAligned ==
  \A t \in Runners :
    hpc[t] = "notify" => /\ range[t][1] % align = 0
                         /\ range[t][2] - range[t][1] \in 1..blockSize

(* Coarsening never costs more than 1% of the first choice's efficiency.   *)
CoarseningKeepsEfficiency ==
  Working => NearlyAsGood(Efficiency(blockCount),
                          Efficiency(DivUp(n, Least(n, BlockAlign(FirstBlock)))))

(* From the choice of a block size to the return, f is called once on      *)
(* every index, in aligned blocks no worse than the cost model's choice,   *)
(* and the barrier is neither short of a Notify nor used after the return  *)
(* (device_thread_pool.h:147-212).                                         *)
ParallelForSafe ==
  /\ EachIndexOnce
  /\ BarrierCountsBlocks
  /\ ReturnMeansAllDone
  /\ BlocksAligned
  /\ CoarseningKeepsEfficiency

(* The test of ParallelFor calls it through ThreadPool with no block_align *)
(* and expects every work item to be done.                                 *)
EveryCallRunsF == pc # "threw"

(* The call comes back. *)
ParallelForReturns == pc = "enter" ~> pc \in {"returned", "threw"}
=============================================================================

-------------------------- MODULE SimpleThreadPool --------------------------
(***************************************************************************)
(* base/thread/simple_thread_pool.h: SimpleThreadPoolBase, the pool behind *)
(* base::ThreadPool and base::thread::SimpleThreadPool.                    *)
(*                                                                         *)
(* A mutex mu_ guards pending_, waiters_ and exiting_.  Each of its        *)
(* critical sections ends at a cv.wait, at the unlock around ExecuteTask   *)
(* or at a return, so one action stands for one critical section.  A       *)
(* condition variable is the set `asleep' of threads blocked in its wait:  *)
(* a notify takes a thread out of it, a spurious wake-up may, and a thread *)
(* that is out of it takes mu_ again and re-tests its predicate.  Each     *)
(* Waiter has its own cv, empty_ is waited on by the destroying thread.    *)
(*                                                                         *)
(* A task is a closure that may itself call Schedule: Parent[t] is the     *)
(* task whose body schedules t, or Client for a task the owner of the pool *)
(* schedules.  The owner is one thread: it constructs the pool, schedules, *)
(* and runs the destructor.                                                *)
(***************************************************************************)
EXTENDS Naturals, Sequences, FiniteSets

CONSTANTS Workers,   \* the num_threads worker threads
          Tasks,     \* the closures of one run
          Parent,    \* who schedules each task
          Client,    \* the thread that owns the pool
          NoTask     \* a Task whose fn is nullptr

ASSUME PoolAssumption ==
  /\ Workers # {}                        \* CHECK_GE(num_threads, 1)
  /\ IsFiniteSet(Workers)
  /\ Client \notin Workers \cup Tasks
  /\ NoTask \notin Tasks
  /\ Parent \in [Tasks -> Tasks \cup {Client}]

VARIABLES
  pending,     \* pending_: tasks no worker was free to take, oldest first
  waiters,     \* waiters_: idle workers, used as a stack
  exiting,     \* exiting_
  ready,       \* Waiter::ready of each worker
  slot,        \* Waiter::task of each worker
  task,        \* WorkerLoop's local task
  pc,          \* where each worker is in WorkerLoop
  dtor,        \* how far the owner is through the destructor
  asleep,      \* threads blocked in a condition variable's wait
  scheduled,   \* history: tasks passed to Schedule
  executed,    \* history: how often each closure was run
  dangling     \* history: Schedule used the Waiter of a worker that has left

members == <<pending, waiters, exiting>>
locals  == <<ready, slot, task, pc>>
history == <<scheduled, executed, dangling>>
vars == <<pending, waiters, exiting, ready, slot, task, pc, dtor, asleep,
          scheduled, executed, dangling>>

Children(t) == {c \in Tasks : Parent[c] = t}

Init ==
  /\ pending = <<>>
  /\ waiters = <<>>
  /\ exiting = FALSE
  /\ ready = [w \in Workers |-> FALSE]
  /\ slot = [w \in Workers |-> NoTask]
  /\ task = [w \in Workers |-> NoTask]
  /\ pc = [w \in Workers |-> "unborn"]
  /\ dtor = "live"
  /\ asleep = {}
  /\ scheduled = {}
  /\ executed = [t \in Tasks |-> 0]
  /\ dangling = FALSE

-----------------------------------------------------------------------------
(* The constructor's loop: one thread per turn; it runs as soon as created. *)
CreateThread(w) ==
  /\ pc[w] = "unborn"
  /\ pc' = [pc EXCEPT ![w] = "starting"]
  /\ UNCHANGED <<members, ready, slot, task, dtor, asleep, history>>

Constructed == \A w \in Workers : pc[w] # "unborn"

(* Fault: Schedule forgets waiters_.pop_back(). *)
EnqueueNoPop(t) ==
  /\ scheduled' = scheduled \cup {t}
  /\ \/ /\ waiters = <<>>
        /\ pending' = Append(pending, t)
        /\ UNCHANGED <<ready, slot, asleep>>
     \/ /\ waiters # <<>>
        /\ LET w == waiters[Len(waiters)] IN
             /\ ready' = [ready EXCEPT ![w] = TRUE]
             /\ slot' = [slot EXCEPT ![w] = t]
             /\ asleep' = asleep \ {w}
        /\ UNCHANGED pending
  /\ UNCHANGED <<waiters, dangling>>

(* Fault: Schedule hands the task over but does not notify the waiter. *)
EnqueueNoNotify(t) ==
  /\ waiters # <<>>
  /\ LET w == waiters[Len(waiters)] IN
       /\ waiters' = SubSeq(waiters, 1, Len(waiters) - 1)
       /\ ready' = [ready EXCEPT ![w] = TRUE]
       /\ slot' = [slot EXCEPT ![w] = t]
  /\ scheduled' = scheduled \cup {t}
  /\ UNCHANGED <<pending, asleep, dangling>>

(* Schedule's critical section.  The Waiter it pops lives on the worker's  *)
(* stack: once that worker has left WorkerLoop the write goes nowhere.     *)
Enqueue(t) ==
  /\ scheduled' = scheduled \cup {t}
  /\ \/ /\ waiters = <<>>
        /\ pending' = Append(pending, t)
        /\ UNCHANGED <<waiters, ready, slot, asleep, dangling>>
     \/ /\ waiters # <<>>
        /\ LET w == waiters[Len(waiters)] IN
             /\ waiters' = SubSeq(waiters, 1, Len(waiters) - 1)
             /\ \/ /\ pc[w] # "exited"
                   /\ ready' = [ready EXCEPT ![w] = TRUE]
                   /\ slot' = [slot EXCEPT ![w] = t]
                   /\ asleep' = asleep \ {w}
                   /\ UNCHANGED dangling
                \/ /\ pc[w] = "exited"
                   /\ dangling' = TRUE
                   /\ UNCHANGED <<ready, slot, asleep>>
        /\ UNCHANGED pending

(* The owner schedules while it holds a live pool. *)
Schedule(t) ==
  /\ Constructed
  /\ dtor = "live"
  /\ Parent[t] = Client
  /\ t \notin scheduled
  /\ Enqueue(t)
  /\ UNCHANGED <<exiting, task, pc, dtor, executed>>

(* A running closure schedules another one. *)
NestedSchedule(w, t) ==
  /\ pc[w] = "running"
  /\ Parent[t] = task[w]
  /\ t \notin scheduled
  /\ Enqueue(t)
  /\ UNCHANGED <<exiting, task, pc, dtor, executed>>

-----------------------------------------------------------------------------
(* WorkerLoop from the test of exiting_ to the point where mu_ is released. *)
LeaveLoop(w) ==
  /\ exiting
  /\ pc' = [pc EXCEPT ![w] = "exited"]
  /\ UNCHANGED <<pending, waiters, ready, task, asleep>>

(* Fault: the worker parks without looking at pending_. *)
ParkUnchecked(w) ==
  /\ ~exiting
  /\ ready' = [ready EXCEPT ![w] = FALSE]
  /\ waiters' = Append(waiters, w)
  /\ asleep' = asleep \cup {w}
  /\ pc' = [pc EXCEPT ![w] = "waiting"]
  /\ UNCHANGED <<pending, task>>

Park(w) ==
  /\ ~exiting
  /\ pending = <<>>
  /\ ready' = [ready EXCEPT ![w] = FALSE]
  /\ waiters' = Append(waiters, w)
  /\ asleep' = asleep \cup {w}
  /\ pc' = [pc EXCEPT ![w] = "waiting"]
  /\ UNCHANGED <<pending, task>>

(* Fault: front() without pop_front(). *)
TakePendingNoPop(w) ==
  /\ ~exiting
  /\ pending # <<>>
  /\ task' = [task EXCEPT ![w] = Head(pending)]
  /\ pc' = [pc EXCEPT ![w] = "running"]
  /\ UNCHANGED <<pending, waiters, ready, asleep>>

(* Fault: the last pending task is taken without empty_.notify_all(). *)
TakePendingNoNotify(w) ==
  /\ ~exiting
  /\ pending # <<>>
  /\ task' = [task EXCEPT ![w] = Head(pending)]
  /\ pending' = Tail(pending)
  /\ pc' = [pc EXCEPT ![w] = "running"]
  /\ UNCHANGED <<waiters, ready, asleep>>

TakePending(w) ==
  /\ ~exiting
  /\ pending # <<>>
  /\ task' = [task EXCEPT ![w] = Head(pending)]
  /\ pending' = Tail(pending)
  /\ asleep' = IF Tail(pending) = <<>> THEN asleep \ {Client} ELSE asleep
  /\ pc' = [pc EXCEPT ![w] = "running"]
  /\ UNCHANGED <<waiters, ready>>

(* A new thread, or one that is back from ExecuteTask, locks mu_. *)
LoopTurn(w) ==
  /\ pc[w] \in {"starting", "ran"}
  /\ LeaveLoop(w) \/ Park(w) \/ TakePending(w)
  /\ UNCHANGED <<exiting, slot, dtor, history>>

(* Fault: a wake-up that finds ready false ends the loop. *)
ResleepLeaves(w) ==
  /\ pc[w] = "waiting"
  /\ w \notin asleep
  /\ ~ready[w]
  /\ pc' = [pc EXCEPT ![w] = "exited"]
  /\ UNCHANGED <<members, ready, slot, task, asleep, dtor, history>>

(* Fault: the moved-from waiter.task is not cleared. *)
TakeHandoffKeepsSlot(w) ==
  /\ pc[w] = "waiting"
  /\ w \notin asleep
  /\ ready[w]
  /\ slot[w] # NoTask
  /\ task' = [task EXCEPT ![w] = slot[w]]
  /\ pc' = [pc EXCEPT ![w] = "running"]
  /\ UNCHANGED <<members, ready, slot, dtor, asleep, history>>

(* waiter.cv.wait returns: either ready is still false and the worker goes *)
(* back to sleep, or it has a task, or it was woken by the destructor      *)
(* (WokenEmptyOnlyToExit below: ready without a task implies exiting_).    *)
Resleep(w) ==
  /\ pc[w] = "waiting"
  /\ w \notin asleep
  /\ ~ready[w]
  /\ asleep' = asleep \cup {w}
  /\ UNCHANGED <<members, locals, dtor, history>>

TakeHandoff(w) ==
  /\ pc[w] = "waiting"
  /\ w \notin asleep
  /\ ready[w]
  /\ slot[w] # NoTask
  /\ task' = [task EXCEPT ![w] = slot[w]]
  /\ slot' = [slot EXCEPT ![w] = NoTask]
  /\ pc' = [pc EXCEPT ![w] = "running"]
  /\ UNCHANGED <<members, ready, dtor, asleep, history>>

WokenToExit(w) ==
  /\ pc[w] = "waiting"
  /\ w \notin asleep
  /\ ready[w]
  /\ slot[w] = NoTask
  /\ LeaveLoop(w)
  /\ UNCHANGED <<exiting, slot, dtor, history>>

(* env_.ExecuteTask outside mu_: the closure returns once it has made its  *)
(* own Schedule calls; then task.fn = nullptr.                             *)
ExecuteTask(w) ==
  /\ pc[w] = "running"
  /\ Children(task[w]) \subseteq scheduled
  /\ executed' = [executed EXCEPT ![task[w]] = @ + 1]
  /\ task' = [task EXCEPT ![w] = NoTask]
  /\ pc' = [pc EXCEPT ![w] = "ran"]
  /\ UNCHANGED <<members, ready, slot, dtor, asleep, scheduled, dangling>>

-----------------------------------------------------------------------------
(* Fault: the destructor does not wait for pending_ to become empty. *)
StopWorkersNoDrain ==
  /\ exiting' = TRUE
  /\ ready' = [w \in Workers |-> TRUE]
  /\ asleep' = {}
  /\ dtor' = "joining"
  /\ UNCHANGED <<pending, waiters, slot>>

(* The destructor.  Waiters it wakes stay in waiters_. *)
StopWorkers ==
  /\ pending = <<>>
  /\ exiting' = TRUE
  /\ ready' = [w \in Workers |->
                 IF \E i \in 1..Len(waiters) : waiters[i] = w THEN TRUE
                                                              ELSE ready[w]]
  /\ slot' = [w \in Workers |->
                IF \E i \in 1..Len(waiters) : waiters[i] = w THEN NoTask
                                                             ELSE slot[w]]
  /\ asleep' = {a \in asleep :
                  ~ \E i \in 1..Len(waiters) : waiters[i] = a}
  /\ dtor' = "joining"
  /\ UNCHANGED <<pending, waiters>>

WaitEmpty ==
  /\ pending # <<>>
  /\ asleep' = asleep \cup {Client}
  /\ dtor' = "draining"
  /\ UNCHANGED <<members, ready, slot>>

Destroy ==
  /\ Constructed
  /\ dtor = "live"
  /\ StopWorkers \/ WaitEmpty
  /\ UNCHANGED <<task, pc, history>>

DestroyWoken ==
  /\ dtor = "draining"
  /\ Client \notin asleep
  /\ StopWorkers \/ WaitEmpty
  /\ UNCHANGED <<task, pc, history>>

(* delete t joins each thread: the owner passes once all have left. *)
Join ==
  /\ dtor = "joining"
  /\ \A w \in Workers : pc[w] = "exited"
  /\ dtor' = "done"
  /\ UNCHANGED <<members, locals, asleep, history>>

SpuriousWakeup(a) ==
  /\ a \in asleep
  /\ asleep' = asleep \ {a}
  /\ UNCHANGED <<members, locals, dtor, history>>

-----------------------------------------------------------------------------
WorkerStep(w) ==
  \/ LoopTurn(w)
  \/ Resleep(w)
  \/ TakeHandoff(w)
  \/ WokenToExit(w)
  \/ ExecuteTask(w)

(* Nothing is left to do once the destructor has returned. *)
Terminated == dtor = "done" /\ UNCHANGED vars

Next ==
  \/ \E w \in Workers : CreateThread(w) \/ WorkerStep(w)
  \/ \E t \in Tasks : Schedule(t)
  \/ \E w \in Workers, t \in Tasks : NestedSchedule(w, t)
  \/ Destroy
  \/ DestroyWoken
  \/ Join
  \/ \E a \in Workers \cup {Client} : SpuriousWakeup(a)
  \/ Terminated

Spec == Init /\ [][Next]_vars

(* The operating system runs every thread that is not blocked, closures    *)
(* return, and the owner completes a destructor it has entered.  Nothing   *)
(* obliges the owner to schedule or to destroy, and no wake-up is          *)
(* promised beyond those notify_one and notify_all cause.                  *)
Fairness ==
  /\ \A w \in Workers : WF_vars(CreateThread(w)) /\ WF_vars(WorkerStep(w))
  /\ \A w \in Workers, t \in Tasks : WF_vars(NestedSchedule(w, t))
  /\ WF_vars(DestroyWoken)
  /\ WF_vars(Join)

FairSpec == Spec /\ Fairness

-----------------------------------------------------------------------------
(* The types of the variables; a closure runs at most once (the unit tests *)
(* assert it: ASSERT_FALSE(work[i])).                                      *)
TypeOK ==
  /\ pending \in Seq(Tasks)
  /\ waiters \in Seq(Workers)
  /\ exiting \in BOOLEAN
  /\ ready \in [Workers -> BOOLEAN]
  /\ slot \in [Workers -> Tasks \cup {NoTask}]
  /\ task \in [Workers -> Tasks \cup {NoTask}]
  /\ pc \in [Workers -> {"unborn", "starting", "waiting", "running", "ran",
                         "exited"}]
  /\ dtor \in {"live", "draining", "joining", "done"}
  /\ asleep \in SUBSET (Workers \cup {Client})
  /\ scheduled \in SUBSET Tasks
  /\ executed \in [Tasks -> {0, 1}]
  /\ dangling \in BOOLEAN

Queued(t)  == \E i \in 1..Len(pending) : pending[i] = t
Handed(t)  == \E w \in Workers : slot[w] = t
Claimed(t) == \E w \in Workers : task[w] = t

(* A closure is never run twice and never held in two places: it moves     *)
(* from pending_ or a Waiter's slot to one worker's local task and from    *)
(* there to `executed'.  Pop and hand-off happen in different critical     *)
(* sections of different threads.                                          *)
NoTaskDuplicated ==
  /\ \A i, j \in 1..Len(pending) : pending[i] = pending[j] => i = j
  /\ \A w, v \in Workers :
       /\ slot[w] = slot[v] /\ slot[w] # NoTask => w = v
       /\ task[w] = task[v] /\ task[w] # NoTask => w = v
       /\ slot[w] = task[v] => slot[w] = NoTask
  /\ \A t \in Tasks :
       /\ Queued(t) => ~Handed(t) /\ ~Claimed(t)
       /\ Queued(t) \/ Handed(t) \/ Claimed(t) =>
            t \in scheduled /\ executed[t] = 0

(* A closure handed to Schedule is not dropped: until it has run it is in  *)
(* pending_, in a Waiter's slot or in a worker's local task.               *)
NoTaskLost ==
  \A t \in scheduled :
    executed[t] = 1 \/ Queued(t) \/ Handed(t) \/ Claimed(t)

(* No worker idles while a task waits: Schedule only queues when no worker *)
(* is parked, and a worker only parks when nothing is queued.              *)
WorkConserving == pending = <<>> \/ waiters = <<>>

(* A thread is not left asleep on a condition that already holds: neither  *)
(* a worker whose Waiter is ready, nor the destructor with pending_ empty. *)
NoLostWakeup ==
  /\ \A w \in Workers : pc[w] = "waiting" /\ ready[w] => w \notin asleep
  /\ dtor = "draining" /\ Client \in asleep => pending # <<>>

(* Until the destructor runs, waiters_ holds each parked worker once, and  *)
(* only workers that are still to be given a task: the CHECK in            *)
(* MaxSizeVector::push_back cannot fire and no pointer is stale.           *)
WaitersValid ==
  /\ \A i, j \in 1..Len(waiters) : waiters[i] = waiters[j] => i = j
  /\ ~exiting => \A i \in 1..Len(waiters) :
                   /\ pc[waiters[i]] = "waiting"
                   /\ ~ready[waiters[i]]
                   /\ slot[waiters[i]] = NoTask

(* A worker that finds itself ready but without a task was woken by the    *)
(* destructor, so the next test of exiting_ ends its loop.                 *)
WokenEmptyOnlyToExit ==
  \A w \in Workers :
    pc[w] = "waiting" /\ ready[w] /\ slot[w] = NoTask => exiting

(* The wake-up protocol as a whole: workers, Schedule and the destructor   *)
(* meet in waiters_ and pending_ in separate critical sections, and        *)
(* neither a task nor a sleeper is forgotten between them                  *)
(* (simple_thread_pool.h:31-107).                                          *)
WakeupsOK ==
  /\ WorkConserving
  /\ NoLostWakeup
  /\ WaitersValid
  /\ WokenEmptyOnlyToExit

(* The destructor returns only when every closure handed to Schedule has   *)
(* run ("delete thread_pool; // Wait for all closures to finish.").        *)
DestroyedMeansAllRun ==
  dtor = "done" => \A t \in scheduled : executed[t] = 1

(* Schedule never writes to the Waiter of a worker that has returned.      *)
NoDanglingWaiter == ~dangling

(* Every closure handed to Schedule is eventually run. *)
EveryTaskRuns == \A t \in Tasks : t \in scheduled ~> executed[t] = 1

(* A destructor that was entered returns. *)
DestructorReturns == dtor # "live" ~> dtor = "done"

(* The pool keeps the promise TaskPool states. *)
TP == INSTANCE TaskPool WITH
        submitted <- scheduled,
        finished  <- {t \in Tasks : executed[t] > 0},
        closed    <- dtor = "done"

ImplementsTaskPool == TP!Spec
=============================================================================

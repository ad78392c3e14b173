-------------------------------- MODULE MCSync --------------------------------
(***************************************************************************)
(* Instances for TLC of the small objects threads share: Barrier,          *)
(* ParallelFor on its own Barrier, FilterChain, Notification, RefCounted   *)
(* and Monitoring.  They do not know each other: `part' is the one that    *)
(* runs, the others stay in one of their initial states.                   *)
(***************************************************************************)
EXTENDS Barrier, TLC

CONSTANTS
  Workers, Caller, Sizes, Costs, Aligns, IntMax,      \* ParallelFor
  Handlers, Null, Requests, NoOne,                    \* FilterChain
  Notifiers, Forever, Timed,                          \* Notification
  Owners, Pointers, Objects,                          \* RefCounted
  Recorders, Labels, Amount, MaxEvents, MaxExports    \* Monitoring

VARIABLES
  part,
  n, cost, align, pc, blockSize, blockCount, prevCount, best, queue, hpc,
  range, covered, total_p, count_p, waiting_p, notified_p, mu_p, npc_p, wpc_p, alive_p,
  container, mu_f, pc_f, it, ran, completed,
  notified_n, mu_n, npc_n, wpc_n, answer, alive_n,
  ref, life, ptr, unref,
  values, mutex, event, events, toExport, exported, exports

PF == INSTANCE ParallelFor WITH
        total <- total_p, count <- count_p, waiting <- waiting_p, notified <- notified_p,
        mu <- mu_p, npc <- npc_p, wpc <- wpc_p, alive <- alive_p
FC == INSTANCE FilterChain WITH mu <- mu_f, pc <- pc_f
NT == INSTANCE Notification WITH
        notified <- notified_n, mu <- mu_n, npc <- npc_n, wpc <- wpc_n, alive <- alive_n
RC == INSTANCE RefCounted
MO == INSTANCE Monitoring

ASSUME SyncAssumption ==
  /\ BarrierAssumption
  /\ PF!ParallelForAssumption
  /\ FC!FilterChainAssumption
  /\ NT!NotificationAssumption
  /\ RC!RefCountedAssumption
  /\ MO!MonitoringAssumption

Parts == {"barrier", "parallel_for", "filter_chain", "notification", "ref_counted", "monitoring"}

forVars == <<n, cost, align, pc, blockSize, blockCount, prevCount, best, queue, hpc,
             range, covered, total_p, count_p, waiting_p, notified_p, mu_p, npc_p,
             wpc_p, alive_p>>
chainVars == <<container, mu_f, pc_f, it, ran, completed>>
noteVars == <<notified_n, mu_n, npc_n, wpc_n, answer, alive_n>>
refVars == <<ref, life, ptr, unref>>
metricVars == <<values, mutex, event, events, toExport, exported, exports>>

syncVars == <<part, vars, forVars, chainVars, noteVars, refVars, metricVars>>

SyncInit ==
  /\ part \in Parts
  /\ IF part = "barrier" THEN Init ELSE Construct(0)
  /\ PF!Init
  /\ part # "parallel_for" =>
       <<n, cost, align>> = CHOOSE a \in Sizes \X Costs \X Aligns : TRUE
  /\ FC!Init
  /\ NT!Init
  /\ RC!Init
  /\ MO!Init

-----------------------------------------------------------------------------
BarrierRuns ==
  part = "barrier" /\ Next
  /\ UNCHANGED <<part, forVars, chainVars, noteVars, refVars, metricVars>>

ParallelForRuns ==
  part = "parallel_for" /\ PF!Next
  /\ UNCHANGED <<part, vars, chainVars, noteVars, refVars, metricVars>>

FilterChainRuns ==
  part = "filter_chain" /\ FC!Next
  /\ UNCHANGED <<part, vars, forVars, noteVars, refVars, metricVars>>

NotificationRuns ==
  part = "notification" /\ NT!Next
  /\ UNCHANGED <<part, vars, forVars, chainVars, refVars, metricVars>>

RefCountedRuns ==
  part = "ref_counted" /\ RC!Next
  /\ UNCHANGED <<part, vars, forVars, chainVars, noteVars, metricVars>>

MonitoringRuns ==
  part = "monitoring" /\ MO!Next
  /\ UNCHANGED <<part, vars, forVars, chainVars, noteVars, refVars>>

SyncNext ==
  \/ BarrierRuns
  \/ ParallelForRuns
  \/ FilterChainRuns
  \/ NotificationRuns
  \/ RefCountedRuns
  \/ MonitoringRuns

(* The fairness of the three modules that state one, for the part that     *)
(* runs.                                                                   *)
SyncFairness ==
  /\ \A t \in Threads : WF_vars(NotifyLocked(t)) /\ WF_vars(NotifyUnlock(t))
  /\ \A w \in Waiters : WF_vars(WaitLocked(w))
  /\ WF_forVars(part = "parallel_for" /\ PF!CallerStep)
  /\ \A t \in PF!Runners : /\ WF_forVars(PF!HandleRange(t))
                           /\ WF_forVars(PF!NotifyStep(t))
  /\ WF_forVars(\E w \in Workers : \E r \in queue : PF!Take(w, r))
  /\ WF_forVars(PF!WaitStep)
  /\ \A r \in Requests : WF_chainVars(part = "filter_chain" /\ FC!Execute(r))

SyncSpec == SyncInit /\ [][SyncNext]_syncVars /\ SyncFairness

-----------------------------------------------------------------------------
(* ParallelFor calls f once on every index and returns after all of them   *)
(* (device_thread_pool.h:147-212).                                         *)
ParallelForSafe == PF!ParallelForSafe

(* A call of ParallelFor comes back (device_thread_pool.h:211).            *)
ParallelForReturns == part = "parallel_for" => PF!ParallelForReturns

(* FilterChain::Execute is one step on the handlers of one moment          *)
(* (handler_chain.h:33-60).                                                *)
ImplementsHandlerSequence == FC!ImplementsHandlerSequence

(* Every request gets through the chain (handler_chain.h:33-49).           *)
ExecuteReturns == part = "filter_chain" => FC!ExecuteReturns

(* A notification is destroyed only after the notifier has left it         *)
(* (notification.h:16-35).                                                 *)
NotifierHasLeft == NT!NotifierHasLeft

(* A counted object is deleted with its last reference, and only then      *)
(* (ref_counted.h:18-33 and 93-166).                                       *)
DeletedWithTheLast == RC!DeletedWithTheLast

(* Sum and count of an EventMetric agree up to the event being recorded    *)
(* (event_metric.h:56-62).                                                 *)
SumAndCountAgree == MO!SumAndCountAgree
=============================================================================

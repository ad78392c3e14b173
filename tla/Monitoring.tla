------------------------------ MODULE Monitoring ------------------------------
(***************************************************************************)
(* base/monitoring: an EventMetric, whose two counters ("_overall_sum" and *)
(* "_count") several threads add to while another one exports every        *)
(* registered metric.  A counter is a map from labels to values under its  *)
(* own mutex; the EventMetric's mutex makes the two additions of one event *)
(* a unit for the other recorders, but the exporter does not take it.      *)
(*                                                                         *)
(* Every event adds Amount.  Time stamps and the wire format are left out. *)
(***************************************************************************)
EXTENDS Integers, Sequences, FiniteSets

CONSTANTS
  Recorders,   \* threads that call RecordEvent
  Labels,      \* tuples of label values
  Amount,      \* what an event adds to the sum
  MaxEvents,   \* bound on the events
  MaxExports   \* bound on the exports

VARIABLES
  values,      \* values_ of the two counters
  mutex,       \* the recorders that hold the EventMetric's mutex_
  event,       \* where each recorder is in RecordEvent, and its labels
  events,      \* history: events begun
  toExport,    \* the metrics the exporter has not read yet, in address order
  exported,    \* what the exporter has read from each metric
  exports      \* number of exports begun

monitoringVars == <<values, mutex, event, events, toExport, exported, exports>>

Metrics == {"overall_sum", "count"}

(* A sum is a multiple of what an event adds to it. *)
MonitoringAssumption == Amount \in Nat \ {0}

NoEvent == [at |-> "out"]

Init ==
  /\ values = [m \in Metrics |-> <<>>]
  /\ mutex = {}
  /\ event = [r \in Recorders |-> NoEvent]
  /\ events = 0
  /\ toExport = <<>>
  /\ exported = [m \in Metrics |-> <<>>]
  /\ exports = 0

Get(f, l) == IF l \in DOMAIN f THEN f[l] ELSE 0

(* Fault: an addition replaces what is there. *)
IncrementByReplaces(f, l, amount) ==
  [k \in DOMAIN f \cup {l} |-> IF k = l THEN amount ELSE f[k]]

(* LabelledValues::IncrementBy on the map f. *)
IncrementBy(f, l, amount) ==
  [k \in DOMAIN f \cup {l} |-> IF k = l THEN Get(f, l) + amount ELSE f[k]]

-----------------------------------------------------------------------------
(* Fault: RecordEvent does not take mutex_. *)
RecordEventUnlocked(r, l) ==
  /\ event[r] = NoEvent
  /\ events < MaxEvents
  /\ event' = [event EXCEPT ![r] = [at |-> "total", labels |-> l]]
  /\ events' = events + 1
  /\ UNCHANGED <<values, mutex, toExport, exported, exports>>

RecordEvent(r, l) ==
  /\ event[r] = NoEvent
  /\ events < MaxEvents
  /\ mutex = {}
  /\ mutex' = {r}
  /\ event' = [event EXCEPT ![r] = [at |-> "total", labels |-> l]]
  /\ events' = events + 1
  /\ UNCHANGED <<values, toExport, exported, exports>>

(* totals_->IncrementBy(labels, amount) *)
AddTotal(r) ==
  /\ event[r].at = "total"
  /\ values' = [values EXCEPT !["overall_sum"] = IncrementBy(@, event[r].labels, Amount)]
  /\ event' = [event EXCEPT ![r].at = "count"]
  /\ UNCHANGED <<mutex, events, toExport, exported, exports>>

(* counts_->Increment(labels), and mutex_ is released. *)
AddCount(r) ==
  /\ event[r].at = "count"
  /\ values' = [values EXCEPT !["count"] = IncrementBy(@, event[r].labels, 1)]
  /\ event' = [event EXCEPT ![r] = NoEvent]
  /\ mutex' = mutex \ {r}
  /\ UNCHANGED <<events, toExport, exported, exports>>

-----------------------------------------------------------------------------
(* ExportMetricsToPrometheus: a copy of the registry's set, which is       *)
(* ordered by the addresses of the metrics: either may come first.         *)
Export(order) ==
  /\ toExport = <<>>
  /\ exports < MaxExports
  /\ toExport' = order
  /\ exported' = [m \in Metrics |-> <<>>]
  /\ exports' = exports + 1
  /\ UNCHANGED <<values, mutex, event, events>>

(* PopulateMetricFamily: CurrentValues copies a counter under its mutex. *)
PopulateMetricFamily ==
  /\ toExport # <<>>
  /\ exported' = [exported EXCEPT ![Head(toExport)] = values[Head(toExport)]]
  /\ toExport' = Tail(toExport)
  /\ UNCHANGED <<values, mutex, event, events, exports>>

Orders == {<<"overall_sum", "count">>, <<"count", "overall_sum">>}

Next ==
  \/ \E r \in Recorders, l \in Labels : RecordEvent(r, l)
  \/ \E r \in Recorders : AddTotal(r) \/ AddCount(r)
  \/ \E order \in Orders : Export(order)
  \/ PopulateMetricFamily

Spec == Init /\ [][Next]_monitoringVars

-----------------------------------------------------------------------------
(* The events a sum is made of; no event is lost or half added. *)
EventsIn(f, l) == Get(f, l) \div Amount

Between(l) == {r \in Recorders : event[r].at = "count" /\ event[r].labels = l}

(* Sum and count differ by the one event that is between its two           *)
(* additions, and by none when no event is being recorded; an exporter     *)
(* that reads the count last never reads more than one event too few       *)
(* (event_metric.h:56-62, labelled_values.h:110-121, exporter.cc:73-81).   *)
SumAndCountAgree ==
  /\ Cardinality(UNION {Between(l) : l \in Labels}) <= 1
  /\ \A l \in Labels :
       /\ Get(values["overall_sum"], l) % Amount = 0
       /\ EventsIn(values["overall_sum"], l)
            = Get(values["count"], l) + Cardinality(Between(l))
  /\ toExport = <<"count">> =>
       \A l \in Labels :
         EventsIn(exported["overall_sum"], l) <= Get(values["count"], l) + 1
  /\ toExport = <<"overall_sum">> =>
       \A l \in Labels :
         Get(exported["count"], l) <= EventsIn(values["overall_sum"], l)
=============================================================================

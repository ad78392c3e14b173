----------------------------- MODULE Notification -----------------------------
(***************************************************************************)
(* base/notification.h: a flag that is set once and that threads wait      *)
(* for, with or without a timeout.  Notify keeps mu_ from the test of the  *)
(* flag to after notify_all, and the destructor is empty: whoever has seen *)
(* the flag may destroy the object, so nobody may still be inside.         *)
(*                                                                         *)
(* mu_ is the set of the threads that hold it.  A wait that finds the flag *)
(* set locks, tests and unlocks in one step: nobody can tell.              *)
(***************************************************************************)
EXTENDS FiniteSets

CONSTANTS
  Notifiers,  \* threads that may call Notify; all but one never do
  Forever,    \* threads in WaitForNotification
  Timed       \* threads in WaitForNotificationWithTimeout

VARIABLES
  notified,   \* notified_
  mu,         \* mu_
  npc,        \* where each notifier is
  wpc,        \* where each waiter is
  answer,     \* what the timed waits have returned
  alive       \* the destructor has not run

notificationVars == <<notified, mu, npc, wpc, answer, alive>>

Sleepers == Forever \cup Timed

(* A wait is of one kind; whoever instantiates the module assumes it. *)
NotificationAssumption == Forever \cap Timed = {}

Init ==
  /\ notified = FALSE
  /\ mu = {}
  /\ npc = [t \in Notifiers |-> "out"]
  /\ wpc = [w \in Sleepers |-> "out"]
  /\ answer = [w \in Timed |-> "none"]
  /\ alive = TRUE

-----------------------------------------------------------------------------
(* mutex_lock l(mu_).  The callers see to it that only one of them calls. *)
NotifyLock(t) ==
  /\ alive
  /\ \A u \in Notifiers : npc[u] = "out"
  /\ mu = {}
  /\ mu' = {t}
  /\ npc' = [npc EXCEPT ![t] = "locked"]
  /\ UNCHANGED <<notified, wpc, answer, alive>>

Woken == [w \in Sleepers |-> IF wpc[w] = "asleep" THEN "lock" ELSE wpc[w]]

(* Fault: mu_ is released before notify_all. *)
SetFlagUnlocked(t) ==
  /\ npc[t] = "locked"
  /\ notified' = TRUE
  /\ wpc' = Woken
  /\ mu' = {}
  /\ npc' = [npc EXCEPT ![t] = "set"]
  /\ UNCHANGED <<answer, alive>>

(* assert(!notified_), notified_ = true, cv_.notify_all(). *)
SetFlag(t) ==
  /\ npc[t] = "locked"
  /\ notified' = TRUE
  /\ wpc' = Woken
  /\ npc' = [npc EXCEPT ![t] = "set"]
  /\ UNCHANGED <<mu, answer, alive>>

NotifyUnlock(t) ==
  /\ npc[t] = "set"
  /\ mu' = mu \ {t}
  /\ npc' = [npc EXCEPT ![t] = "left"]
  /\ UNCHANGED <<notified, wpc, answer, alive>>

-----------------------------------------------------------------------------
Enter(w) ==
  /\ alive
  /\ wpc[w] = "out"
  /\ wpc' = [wpc EXCEPT ![w] = "lock"]
  /\ UNCHANGED <<notified, mu, npc, answer, alive>>

(* The loop around wait, and wait_for with its predicate, each time mu_ is *)
(* taken again: leave when the flag is set, else sleep and release mu_.    *)
TestFlag(w) ==
  /\ wpc[w] = "lock"
  /\ mu = {}
  /\ wpc' = [wpc EXCEPT ![w] = IF notified THEN "returned" ELSE "asleep"]
  /\ answer' = IF notified /\ w \in Timed THEN [answer EXCEPT ![w] = "true"]
               ELSE answer
  /\ UNCHANGED <<notified, mu, npc, alive>>

SpuriousWakeup(w) ==
  /\ wpc[w] = "asleep"
  /\ wpc' = [wpc EXCEPT ![w] = "lock"]
  /\ UNCHANGED <<notified, mu, npc, answer, alive>>

(* The timeout of a sleeping timed wait passes ... *)
Expire(w) ==
  /\ w \in Timed
  /\ wpc[w] = "asleep"
  /\ wpc' = [wpc EXCEPT ![w] = "expired"]
  /\ UNCHANGED <<notified, mu, npc, answer, alive>>

(* ... and, with mu_, the predicate is asked once more and is the answer. *)
TestExpired(w) ==
  /\ wpc[w] = "expired"
  /\ mu = {}
  /\ wpc' = [wpc EXCEPT ![w] = "returned"]
  /\ answer' = [answer EXCEPT ![w] = IF notified THEN "true" ELSE "false"]
  /\ UNCHANGED <<notified, mu, npc, alive>>

(* HasBeenNotified: a lock, a read, an unlock. *)
HasBeenNotified == mu = {} /\ notified

(* The owner destroys the object once it knows of the notification, by its *)
(* own wait or by HasBeenNotified, and no wait is running.                 *)
Destroy ==
  /\ alive
  /\ HasBeenNotified
  /\ \A w \in Sleepers : wpc[w] \in {"out", "returned"}
  /\ alive' = FALSE
  /\ UNCHANGED <<notified, mu, npc, wpc, answer>>

Destroyed == ~alive /\ UNCHANGED notificationVars

Next ==
  \/ \E t \in Notifiers : NotifyLock(t) \/ SetFlag(t) \/ NotifyUnlock(t)
  \/ \E w \in Sleepers : \/ Enter(w) \/ TestFlag(w) \/ SpuriousWakeup(w)
                        \/ Expire(w) \/ TestExpired(w)
  \/ Destroy
  \/ Destroyed

Spec == Init /\ [][Next]_notificationVars

-----------------------------------------------------------------------------
(* When the object is destroyed no thread is inside Notify, although       *)
(* nothing but the mutex makes the destroyer wait for the notifier; an     *)
(* untimed wait only returns on the notification, and no waiter sleeps on  *)
(* after it (notification.h:16-35).                                        *)
NotifierHasLeft ==
  /\ ~alive => mu = {} /\ \A t \in Notifiers : npc[t] \in {"out", "left"}
  /\ \A w \in Forever : wpc[w] = "returned" => notified
  /\ notified => \A w \in Sleepers : wpc[w] # "asleep"
=============================================================================

------------------------------ MODULE TaskPool ------------------------------
(***************************************************************************)
(* What a thread pool promises its client, with no threads in it: a task   *)
(* that was submitted runs once, and the pool is only torn down when       *)
(* everything that was submitted has run.  base/thread/                    *)
(* thread_pool_interface.h declares the operation (Schedule); the unit     *)
(* tests of both pools rely on the promise ("delete thread_pool; // Wait   *)
(* for all closures to finish").                                           *)
(***************************************************************************)
CONSTANT Tasks

VARIABLES submitted,   \* tasks handed to Schedule
          finished,    \* tasks whose closure has returned
          closed       \* the pool's destructor has returned

vars == <<submitted, finished, closed>>

Init ==
  /\ submitted = {}
  /\ finished = {}
  /\ closed = FALSE

Submit(t) ==
  /\ ~closed
  /\ t \notin submitted
  /\ submitted' = submitted \cup {t}
  /\ UNCHANGED <<finished, closed>>

Run(t) ==
  /\ t \in submitted \ finished
  /\ finished' = finished \cup {t}
  /\ UNCHANGED <<submitted, closed>>

Close ==
  /\ ~closed
  /\ submitted = finished
  /\ closed' = TRUE
  /\ UNCHANGED <<submitted, finished>>

Next == Close \/ \E t \in Tasks : Submit(t) \/ Run(t)

Spec == Init /\ [][Next]_vars

(* A submitted task does not wait for ever. *)
FairSpec == Spec /\ \A t \in Tasks : WF_vars(Run(t))
=============================================================================

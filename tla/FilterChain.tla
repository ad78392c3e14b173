---------------------------- MODULE FilterChain ----------------------------
(***************************************************************************)
(* server/handler_chain.h: FilterChain, the singleton behind the pre- and  *)
(* the post-filters.  Requests run through it on the server's pool threads *)
(* while other threads may still register handlers.  Execute holds mu_ for *)
(* the whole iteration: the iterators point into a vector at whose front   *)
(* AddHandler inserts.                                                     *)
(***************************************************************************)
EXTENDS Integers, Sequences, FiniteSets

CONSTANTS Handlers,   \* values handed to AddHandler
          Null,       \* the null pointer, if it is among them
          Requests,   \* requests, each executed once by some thread
          NoOne       \* mu_ is free

(* What the constants must be; whoever instantiates the module assumes it. *)
FilterChainAssumption == NoOne \notin Requests

VARIABLES
  container,   \* container_
  mu,          \* the request whose Execute holds mu_, or NoOne
  pc,          \* where each request's Execute is
  it,          \* its iterator
  ran,         \* history: handlers whose OnHandle it has called
  completed    \* history: how often its completed_callback was called

vars == <<container, mu, pc, it, ran, completed>>

Init ==
  /\ container = <<>>
  /\ mu = NoOne
  /\ pc = [r \in Requests |-> "new"]
  /\ it = [r \in Requests |-> 0]
  /\ ran = [r \in Requests |-> <<>>]
  /\ completed = [r \in Requests |-> 0]

InContainer(h) == \E i \in DOMAIN container : container[i] = h

(* Fault: AddHandler does not take mu_. *)
AddHandlerUnlocked(h) ==
  /\ ~InContainer(h)
  /\ container' = <<h>> \o container
  /\ UNCHANGED <<mu, pc, it, ran, completed>>

(* AddHandler; a handler that is there already leaves everything as it is. *)
AddHandler(h) ==
  /\ mu = NoOne
  /\ ~InContainer(h)
  /\ container' = <<h>> \o container
  /\ UNCHANGED <<mu, pc, it, ran, completed>>

(* Execute takes mu_; on an empty chain it returns at once, without        *)
(* calling completed_callback.                                             *)
Lock(r) ==
  /\ pc[r] = "new"
  /\ mu = NoOne
  /\ \/ /\ container = <<>>
        /\ pc' = [pc EXCEPT ![r] = "done"]
        /\ UNCHANGED <<mu, it>>
     \/ /\ container # <<>>
        /\ mu' = r
        /\ it' = [it EXCEPT ![r] = 1]
        /\ pc' = [pc EXCEPT ![r] = "iterate"]
  /\ UNCHANGED <<container, ran, completed>>

(* Fault: the loop stops before the last handler. *)
HandleOneShort(r) ==
  /\ pc[r] = "iterate"
  /\ it[r] <= Len(container)
  /\ ran' = IF container[it[r]] = Null \/ it[r] = Len(container) THEN ran
            ELSE [ran EXCEPT ![r] = Append(@, container[it[r]])]
  /\ it' = [it EXCEPT ![r] = @ + 1]
  /\ UNCHANGED <<container, mu, pc, completed>>

HandleOne(r) ==
  /\ pc[r] = "iterate"
  /\ it[r] <= Len(container)
  /\ ran' = IF container[it[r]] = Null THEN ran
            ELSE [ran EXCEPT ![r] = Append(@, container[it[r]])]
  /\ it' = [it EXCEPT ![r] = @ + 1]
  /\ UNCHANGED <<container, mu, pc, completed>>

(* Fault: mu_ stays locked. *)
CompleteKeepsLock(r) ==
  /\ pc[r] = "iterate"
  /\ it[r] > Len(container)
  /\ completed' = [completed EXCEPT ![r] = @ + 1]
  /\ pc' = [pc EXCEPT ![r] = "done"]
  /\ UNCHANGED <<container, mu, it, ran>>

(* The end of the iteration: completed_callback, then mu_ is released. *)
Complete(r) ==
  /\ pc[r] = "iterate"
  /\ it[r] > Len(container)
  /\ completed' = [completed EXCEPT ![r] = @ + 1]
  /\ mu' = NoOne
  /\ pc' = [pc EXCEPT ![r] = "done"]
  /\ UNCHANGED <<container, it, ran>>

Execute(r) == Lock(r) \/ HandleOne(r) \/ Complete(r)

Next ==
  \/ \E h \in Handlers : AddHandler(h)
  \/ \E r \in Requests : Execute(r)

Spec == Init /\ [][Next]_vars

(* The thread of a request that has reached the chain is scheduled, and    *)
(* OnHandle returns.                                                       *)
FairSpec == Spec /\ \A r \in Requests : WF_vars(Execute(r))

-----------------------------------------------------------------------------
TypeOK ==
  /\ container \in Seq(Handlers)
  /\ mu \in Requests \cup {NoOne}
  /\ pc \in [Requests -> {"new", "iterate", "done"}]
  /\ it \in [Requests -> 0..(Cardinality(Handlers) + 1)]
  /\ ran \in [Requests -> Seq(Handlers \ {Null})]
  /\ completed \in [Requests -> {0, 1}]

(* Every request gets through the chain. *)
ExecuteReturns == <>(\A r \in Requests : pc[r] = "done")

(* Seen from outside, Execute is one step on the handlers of one moment. *)
HS == INSTANCE HandlerSequence WITH
        chain  <- container,
        passed <- [r \in Requests |-> IF pc[r] = "done" THEN ran[r] ELSE <<>>]

(* While a request iterates, what it has run is the front of the chain:    *)
(* nothing is inserted before its iterator.                                *)
IteratorValid ==
  \A r \in Requests :
    pc[r] = "iterate" =>
      /\ mu = r
      /\ ran[r] = HS!NonNull(container, it[r] - 1)

ImplementsHandlerSequence == HS!Spec
=============================================================================

-------------------------- MODULE HandlerSequence --------------------------
(***************************************************************************)
(* What a filter chain promises (server/handler_chain.h): handlers are     *)
(* registered once each, newest first, and a request passes, in one        *)
(* indivisible step, exactly the handlers registered at that moment.       *)
(***************************************************************************)
EXTENDS Integers, Sequences

CONSTANTS Handlers, Requests, Null

VARIABLES chain,    \* registered handlers, in the order a request meets them
          passed    \* the handlers each request has passed; <<>> before

vars == <<chain, passed>>

Registered(h) == \E i \in DOMAIN chain : chain[i] = h

Init ==
  /\ chain = <<>>
  /\ passed = [r \in Requests |-> <<>>]

Register(h) ==
  /\ ~Registered(h)
  /\ chain' = <<h>> \o chain
  /\ UNCHANGED passed

(* The first k handlers of a chain c.  A null handler may be registered,   *)
(* once like any other: it is skipped and those after it move up.          *)
NullIn(c, k) == \E i \in 1..k : c[i] = Null

NonNull(c, k) ==
  [i \in 1 .. (IF NullIn(c, k) THEN k - 1 ELSE k) |-> IF NullIn(c, i) THEN c[i + 1] ELSE c[i]]

Pass(r) ==
  /\ passed[r] = <<>>
  /\ passed' = [passed EXCEPT ![r] = NonNull(chain, Len(chain))]
  /\ UNCHANGED chain

Next == (\E h \in Handlers : Register(h)) \/ (\E r \in Requests : Pass(r))

Spec == Init /\ [][Next]_vars
=============================================================================

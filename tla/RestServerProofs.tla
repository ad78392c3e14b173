-------------------------- MODULE RestServerProofs --------------------------
(***************************************************************************)
(* The safety of RestServer for any connections, sizes and limits.  Every  *)
(* step but AddRoute belongs to one connection, so the invariant is one    *)
(* predicate per connection: which part of the program holds the request   *)
(* (PhaseOK), where its Content-Length comes from (HeaderOK), and how the  *)
(* outstanding write, what has been sent and the response fit together     *)
(* (ChunksOK).                                                             *)
(***************************************************************************)
EXTENDS RestServer, TLAPS

(* A request is at a reader, in Schedule or done with; status and context  *)
(* tell which.                                                             *)
PhaseOK(c) ==
  /\ pc[c] = "new" => /\ context[c] = "none" /\ status[c] = "none"
                      /\ ~reading[c] /\ body[c] = 0
  /\ reading[c] => /\ pc[c] = "idle" /\ context[c] = "none" /\ status[c] = "none"
                   /\ body[c] <= MaxBody
  /\ context[c] = "none" => /\ pc[c] \in {"new", "idle"} /\ status[c] # "ok"
                            /\ response[c] = 0 /\ sent[c] = 0
  /\ context[c] # "none" => /\ ~reading[c] /\ status[c] # "bad_request"
                            /\ body[c] <= MaxBody
  /\ pc[c] \in {"pre", "route", "post", "respond"} => status[c] = "none"
  /\ pc[c] \notin {"new", "idle"} => context[c] = "live"

Announced(c) == handled[c] # NoHandler /\ header[c] \in Lengths

HeaderOK(c) ==
  \/ Announced(c)
  \/ status[c] = "ok" /\ header[c] = response[c]
  \/ status[c] # "ok" /\ header[c] = NoLength

Outstanding(c) == write[c].state \in {"queued", "written"}

ChunksOK(c) == LET w == write[c] IN
  /\ status[c] = "none" => w.state = "none" /\ sent[c] = 0
  /\ status[c] = "bad_request" => w.state = "done"
  /\ status[c] = "ok" => w.state # "none"
  /\ Outstanding(c) => /\ w.offset + w.need = response[c]
                       /\ w.size <= w.need
  /\ w.state = "queued" => w.offset = sent[c]
  /\ w.state = "written" => sent[c] = IF w.ok THEN w.offset + w.size ELSE w.offset
  /\ status[c] = "ok" /\ w.state = "done" /\ w.ok => sent[c] = response[c]

ConnInv(c) == PhaseOK(c) /\ HeaderOK(c) /\ ChunksOK(c)

RestServerInv == TypeOK /\ \A c \in Conns : ConnInv(c)

(* All that ConnInv says of a connection. *)
SameConn(c) ==
  /\ pc'[c] = pc[c] /\ reading'[c] = reading[c] /\ body'[c] = body[c]
  /\ context'[c] = context[c] /\ response'[c] = response[c] /\ header'[c] = header[c]
  /\ status'[c] = status[c] /\ write'[c] = write[c] /\ sent'[c] = sent[c]
  /\ handled'[c] = handled[c]

(* What a step of connection c establishes. *)
Preserved(c) == TypeOK' /\ ConnInv(c)' /\ \A d \in Conns \ {c} : SameConn(d)

Writes == [state : {"none", "queued", "written", "done"}, offset : Nat, need : Nat,
           size : 0..MaxSend, ok : BOOLEAN]

USE RestServerAssumption DEF NoLength

-----------------------------------------------------------------------------
LEMMA SmallerOf ==
  ASSUME NEW need \in Nat
  PROVE  /\ Min({need, MaxSend}) \in 0..MaxSend
         /\ Min({need, MaxSend}) <= need
  <1>1. PICK x \in {need, MaxSend} : \A y \in {need, MaxSend} : x <= y
    BY need <= MaxSend \/ MaxSend <= need
  <1>2. /\ Min({need, MaxSend}) \in {need, MaxSend}
        /\ \A y \in {need, MaxSend} : Min({need, MaxSend}) <= y
    BY <1>1, Zenon DEF Min
  <1> QED BY <1>2

(* A write keeps its arguments when it is written, fails or is done with.  *)
LEMMA WriteSettled ==
  ASSUME TypeOK, NEW c \in Conns,
         NEW st \in {"none", "queued", "written", "done"}, NEW ok \in BOOLEAN
  PROVE  /\ [write EXCEPT ![c].state = st] \in [Conns -> Writes]
         /\ [write EXCEPT ![c].state = st, ![c].ok = ok] \in [Conns -> Writes]
  <1>1. write \in [Conns -> Writes]
    BY DEF TypeOK, Writes
  <1>2. [write EXCEPT ![c].state = st] \in [Conns -> Writes]
    BY <1>1 DEF Writes
  <1>3. ASSUME NEW v \in [Conns -> Writes] PROVE [v EXCEPT ![c].ok = ok] \in [Conns -> Writes]
    BY DEF Writes
  <1>4. [write EXCEPT ![c].state = st, ![c].ok = ok] =
        [[write EXCEPT ![c].state = st] EXCEPT ![c].ok = ok]
    OBVIOUS
  <1> QED BY <1>2, <1>3, <1>4

(* ResponseWriter::SendBody queues a write of at most MaxSend bytes.       *)
LEMMA SendBodyTypes ==
  ASSUME TypeOK, NEW c \in Conns, NEW offset \in Nat, NEW need \in Nat, SendBody(c, offset, need)
  PROVE  write' \in [Conns -> Writes]
  <1> DEFINE size == Min({need, MaxSend})
  <1>1. size \in 0..MaxSend
    BY SmallerOf
  <1>2. write' = [write EXCEPT ![c] = [state |-> "queued", offset |-> offset, need |-> need,
                                       size |-> size, ok |-> TRUE]]
    BY DEF SendBody
  <1> HIDE DEF size
  <1> QED BY <1>1, <1>2 DEF TypeOK, Writes

LEMMA RestServerInitInv == Init => RestServerInv
  <1> SUFFICES ASSUME Init PROVE RestServerInv
    OBVIOUS
  <1>1. TypeOK
    BY DEF Init, TypeOK, Idle
  <1>2. ASSUME NEW c \in Conns PROVE ConnInv(c)
    BY DEF Init, Idle, ConnInv, PhaseOK, HeaderOK, Announced, ChunksOK, Outstanding
  <1> QED BY <1>1, <1>2 DEF RestServerInv

(* RESTHandler starts a request. *)
LEMMA RestHandlerPreserves ==
  ASSUME TypeOK, NEW c \in Conns, ConnInv(c),
         NEW m \in Methods, NEW p \in Paths, NEW n \in Lengths, RestHandler(c, m, p, n)
  PROVE  Preserved(c)
  <1> USE DEF RestHandler, Dispatch
  <1>1. TypeOK'
    BY DEF TypeOK
  <1>2. PhaseOK(c)'
    BY DEF TypeOK, ConnInv, PhaseOK
  <1>3. HeaderOK(c)' /\ ChunksOK(c)'
    BY DEF ConnInv, HeaderOK, Announced, ChunksOK, Outstanding
  <1>4. ASSUME NEW d \in Conns \ {c} PROVE SameConn(d)
    BY DEF SameConn, TypeOK
  <1> QED BY <1>1, <1>2, <1>3, <1>4 DEF Preserved, ConnInv

(* A callback of the reader. *)
LEMMA ReadCallbackPreserves ==
  ASSUME TypeOK, NEW c \in Conns, ConnInv(c), ReadCallback(c)
  PROVE  Preserved(c)
  <1> USE DEF ReadFails, ReadEmpty, ReadPiece, Dispatch, UnchangedByRead
  <1>1. CASE ReadFails(c) \/ ReadEmpty(c)
    <2>1. TypeOK'
      <3>1. reading' \in [Conns -> BOOLEAN] /\ context' \in [Conns -> {"none", "live", "destroyed"}]
        BY <1>1 DEF TypeOK
      <3>2. pc' \in [Conns -> {"new", "idle", "pre", "route", "post", "respond", "return"}]
        BY <1>1 DEF TypeOK
      <3> QED BY <1>1, <3>1, <3>2 DEF TypeOK
    <2>2. ConnInv(c)'
      BY <1>1 DEF TypeOK, ConnInv, PhaseOK, HeaderOK, Announced, ChunksOK, Outstanding
    <2>3. ASSUME NEW d \in Conns \ {c} PROVE SameConn(d)
      BY <1>1 DEF SameConn, TypeOK
    <2> QED BY <2>1, <2>2, <2>3 DEF Preserved
  <1>2. ASSUME NEW k \in Pieces, ReadPiece(c, k) PROVE Preserved(c)
    <2>1. TypeOK'
      <3>1. body[c] + k \in Nat /\ body' \in [Conns -> Nat]
        BY <1>2 DEF TypeOK
      <3>2. write' \in [Conns -> Writes]
        <4>1. write \in [Conns -> Writes] /\ [write EXCEPT ![c].state = "done"] \in [Conns -> Writes]
          BY WriteSettled, write[c] \in Writes DEF TypeOK, Writes
        <4>2. write' = write \/ write' = [write EXCEPT ![c].state = "done"]
          BY <1>2
        <4> QED BY <4>1, <4>2
      <3>3. status' \in [Conns -> {"none", "ok", "bad_request"}] /\ reading' \in [Conns -> BOOLEAN]
        BY <1>2 DEF TypeOK
      <3>4. /\ pc' \in [Conns -> {"new", "idle", "pre", "route", "post", "respond", "return"}]
            /\ context' \in [Conns -> {"none", "live", "destroyed"}]
        BY <1>2 DEF TypeOK
      <3> QED BY <1>2, <3>1, <3>2, <3>3, <3>4 DEF TypeOK, Writes
    <2>2. PhaseOK(c)'
      BY <1>2 DEF TypeOK, ConnInv, PhaseOK
    <2>3. HeaderOK(c)' /\ ChunksOK(c)'
      BY <1>2 DEF TypeOK, ConnInv, PhaseOK, HeaderOK, Announced, ChunksOK, Outstanding
    <2>4. ASSUME NEW d \in Conns \ {c} PROVE SameConn(d)
      BY <1>2 DEF SameConn, TypeOK
    <2> QED BY <2>1, <2>2, <2>3, <2>4 DEF Preserved, ConnInv
  <1> QED BY <1>1, <1>2 DEF ReadCallback

(* A step of Dispatcher::Schedule. *)
LEMMA SchedulePreserves ==
  ASSUME TypeOK, NEW c \in Conns, ConnInv(c), Schedule(c)
  PROVE  Preserved(c)
  <1> USE DEF UnchangedBySchedule, Extend
  <1>1. CASE Filters(c, "pre", "route") \/ Filters(c, "post", "respond")
    <2>1. TypeOK'
      <3>1. response' \in [Conns -> Nat]
        BY <1>1 DEF Filters, TypeOK
      <3> QED BY <1>1, <3>1 DEF Filters, TypeOK
    <2>2. ConnInv(c)'
      BY <1>1 DEF Filters, TypeOK, ConnInv, PhaseOK, HeaderOK, Announced, ChunksOK, Outstanding
    <2>3. ASSUME NEW d \in Conns \ {c} PROVE SameConn(d)
      BY <1>1 DEF Filters, SameConn, TypeOK
    <2> QED BY <2>1, <2>2, <2>3 DEF Preserved
  <1>2. CASE Route(c)
    <2>1. TypeOK'
      <3>1. response' \in [Conns -> Nat] /\ header' \in [Conns -> Nat \cup {NoLength}]
        <4>1. response' = response \/ \E k \in Added : response' = [response EXCEPT ![c] = @ + k]
          BY <1>2 DEF Route
        <4>2. \/ header' = header
              \/ \E n \in {NoLength} \cup Lengths : header' = [header EXCEPT ![c] = n]
          BY <1>2 DEF Route
        <4>3. response' \in [Conns -> Nat]
          BY <4>1 DEF TypeOK
        <4>4. header' \in [Conns -> Nat \cup {NoLength}]
          BY <4>2 DEF TypeOK
        <4> QED BY <4>3, <4>4
      <3>2. request[c].path \in Paths /\ routes[request[c].path] \in Handlers \cup {NoHandler}
        BY DEF TypeOK
      <3>3. handled' \in [Conns -> Handlers \cup {NoHandler}]
        BY <1>2, <3>2 DEF Route, TypeOK
      <3>4. pc' \in [Conns -> {"new", "idle", "pre", "route", "post", "respond", "return"}]
        BY <1>2 DEF Route, TypeOK
      <3> QED BY <1>2, <3>1, <3>3, <3>4 DEF Route, TypeOK
    <2>2. ConnInv(c)'
      BY <1>2 DEF Route, TypeOK, ConnInv, PhaseOK, HeaderOK, Announced, ChunksOK, Outstanding
    <2>3. ASSUME NEW d \in Conns \ {c} PROVE SameConn(d)
      BY <1>2 DEF Route, SameConn, TypeOK
    <2> QED BY <2>1, <2>2, <2>3 DEF Preserved
  <1>3. CASE Respond(c)
    <2>1. /\ response[c] \in Nat
          /\ Min({response[c], MaxSend}) \in 0..MaxSend
          /\ Min({response[c], MaxSend}) <= response[c]
      BY SmallerOf DEF TypeOK
    <2>2. TypeOK'
      <3>1. write' \in [Conns -> Writes]
        BY <1>3, <2>1, SendBodyTypes, 0 \in Nat DEF Respond, TypeOK, Writes
      <3>2. header' \in [Conns -> Nat \cup {NoLength}]
        BY <1>3, <2>1 DEF Respond, TypeOK
      <3> QED BY <1>3, <3>1, <3>2 DEF Respond, TypeOK, Writes
    <2>3. ConnInv(c)'
      BY <1>3, <2>1 DEF Respond, SendBody, TypeOK, ConnInv, PhaseOK, HeaderOK, Announced,
                        ChunksOK, Outstanding
    <2>4. ASSUME NEW d \in Conns \ {c} PROVE SameConn(d)
      BY <1>3 DEF Respond, SendBody, SameConn, TypeOK
    <2> QED BY <2>2, <2>3, <2>4 DEF Preserved
  <1>4. CASE Return(c)
    <2>1. TypeOK'
      BY <1>4 DEF Return, TypeOK
    <2>2. ConnInv(c)'
      BY <1>4 DEF Return, TypeOK, ConnInv, PhaseOK, HeaderOK, Announced, ChunksOK, Outstanding
    <2>3. ASSUME NEW d \in Conns \ {c} PROVE SameConn(d)
      BY <1>4 DEF Return, SameConn, TypeOK
    <2> QED BY <2>1, <2>2, <2>3 DEF Preserved
  <1> QED BY <1>1, <1>2, <1>3, <1>4 DEF Schedule

(* The library's side of one chunk, and the callback that sends the next.  *)
LEMMA ChunkPreserves ==
  ASSUME TypeOK, NEW c \in Conns, ConnInv(c),
         (\E ok \in BOOLEAN : Transmit(c, ok)) \/ HandleChunk(c)
  PROVE  Preserved(c)
  <1> DEFINE w == write[c]
  <1>1. /\ w \in [state : {"none", "queued", "written", "done"}, offset : Nat,
                  need : Nat, size : 0..MaxSend, ok : BOOLEAN]
        /\ sent[c] \in Nat /\ response[c] \in Nat
    BY DEF TypeOK
  <1>2. ASSUME NEW ok \in BOOLEAN, Transmit(c, ok) PROVE Preserved(c)
    <2>1. TypeOK'
      <3>1. write' \in [Conns -> Writes]
        BY <1>2, WriteSettled DEF Transmit, TypeOK, Writes
      <3>2. sent' \in [Conns -> Nat]
        <4>1. sent' = [sent EXCEPT ![c] = IF ok THEN @ + w.size ELSE @]
          BY <1>2 DEF Transmit
        <4>2. w.size \in Nat
          BY <1>1
        <4> QED BY <4>1, <4>2 DEF TypeOK
      <3>3. garbled' \in [Conns -> BOOLEAN]
        <4>1. garbled' = garbled \/ \E g \in BOOLEAN : garbled' = [garbled EXCEPT ![c] = @ \/ g]
          BY <1>2 DEF Transmit
        <4> QED BY <4>1, Zenon DEF TypeOK
      <3> QED BY <1>2, <3>1, <3>2, <3>3 DEF Transmit, TypeOK, Writes
    <2>2. ConnInv(c)'
      BY <1>1, <1>2 DEF Transmit, TypeOK, ConnInv, PhaseOK, HeaderOK, Announced,
                        ChunksOK, Outstanding
    <2>3. ASSUME NEW d \in Conns \ {c} PROVE SameConn(d)
      BY <1>2 DEF Transmit, SameConn, TypeOK
    <2> QED BY <2>1, <2>2, <2>3 DEF Preserved
  <1>3. CASE HandleChunk(c)
    <2> USE <1>3 DEF HandleChunk, UnchangedByChunk
    <2>1. CASE w.need - w.size > 0 /\ w.ok
      <3> DEFINE rest == w.need - w.size
      <3>1. /\ rest \in Nat /\ w.offset + w.size \in Nat
            /\ Min({rest, MaxSend}) \in 0..MaxSend
            /\ Min({rest, MaxSend}) <= rest
        <4>1. rest \in Nat /\ w.offset + w.size \in Nat
          BY <1>1, <2>1
        <4> HIDE DEF rest
        <4> QED BY <4>1, SmallerOf
      <3>2. write' = [write EXCEPT ![c] =
              [state |-> "queued", offset |-> w.offset + w.size, need |-> rest,
               size |-> Min({rest, MaxSend}), ok |-> TRUE]]
        BY <2>1 DEF SendBody
      <3> HIDE DEF rest
      <3>3. TypeOK'
        BY <3>1, <3>2 DEF TypeOK
      <3>4. w.offset + w.size + rest = w.offset + w.need
        BY <1>1 DEF rest
      <3>5. ConnInv(c)'
        BY <1>1, <2>1, <3>1, <3>2, <3>4 DEF TypeOK, ConnInv, PhaseOK, HeaderOK, Announced,
                                   ChunksOK, Outstanding
      <3>6. ASSUME NEW d \in Conns \ {c} PROVE SameConn(d)
        BY <3>2 DEF SameConn, TypeOK
      <3> QED BY <3>3, <3>5, <3>6 DEF Preserved
    <2>2. CASE ~(w.need - w.size > 0 /\ w.ok)
      <3>1. write' = [write EXCEPT ![c].state = "done"]
        BY <2>2
      <3>2. TypeOK'
        BY <3>1, <1>1 DEF TypeOK
      <3>3. ConnInv(c)'
        BY SMTT(30), <1>1, <2>2, <3>1 DEF TypeOK, ConnInv, PhaseOK, HeaderOK, Announced,
                                ChunksOK, Outstanding
      <3>4. ASSUME NEW d \in Conns \ {c} PROVE SameConn(d)
        BY <3>1 DEF SameConn, TypeOK
      <3> QED BY <3>2, <3>3, <3>4 DEF Preserved
    <2> QED BY <2>1, <2>2
  <1> QED BY <1>2, <1>3

LEMMA RestServerNextInv == RestServerInv /\ [Next]_vars => RestServerInv'
  <1> SUFFICES ASSUME RestServerInv, [Next]_vars PROVE RestServerInv'
    OBVIOUS
  <1>1. ASSUME NEW c \in Conns, SameConn(c) PROVE ConnInv(c)'
    BY <1>1 DEF RestServerInv, SameConn, ConnInv, PhaseOK, HeaderOK, Announced, ChunksOK,
                Outstanding
  <1>2. CASE UNCHANGED connVars /\ TypeOK'
    BY <1>1, <1>2 DEF RestServerInv, SameConn, connVars
  <1>3. ASSUME NEW p \in Paths, NEW h \in Handlers, AddRoute(p, h) PROVE RestServerInv'
    <2>1. TypeOK' /\ UNCHANGED connVars
      BY <1>3 DEF RestServerInv, AddRoute, TypeOK, connVars
    <2> QED BY <1>2, <2>1
  <1>4. ASSUME NEW c \in Conns, Preserved(c) PROVE RestServerInv'
    BY <1>1, <1>4 DEF RestServerInv, Preserved
  <1>5. ASSUME NEW c \in Conns,
               \/ \E m \in Methods, p \in Paths, n \in Lengths : RestHandler(c, m, p, n)
               \/ ReadCallback(c)
               \/ Schedule(c)
               \/ \E ok \in BOOLEAN : Transmit(c, ok)
               \/ HandleChunk(c)
        PROVE  Preserved(c)
    BY <1>5, RestHandlerPreserves, ReadCallbackPreserves, SchedulePreserves, ChunkPreserves
       DEF RestServerInv
  <1>6. CASE UNCHANGED vars
    <2>1. TypeOK' /\ UNCHANGED connVars
      BY <1>6 DEF RestServerInv, vars, connVars, TypeOK
    <2> QED BY <1>2, <2>1
  <1> QED BY <1>3, <1>4, <1>5, <1>6 DEF Next

-----------------------------------------------------------------------------
LEMMA RestServerInvariant == Spec => []RestServerInv
  BY RestServerInitInv, RestServerNextInv, PTL DEF Spec

(* ResponseWriter's chain of SendBody and HandleChunk: each write starts   *)
(* where the previous ones ended and the rest reaches to the end of the    *)
(* response, whatever the sizes.                                           *)
THEOREM RestServerChunksInOrder == Spec => []ChunksInOrder
  <1>1. RestServerInv => ChunksInOrder
    BY DEF RestServerInv, ConnInv, ChunksOK, Outstanding, ChunksInOrder
  <1> QED BY <1>1, RestServerInvariant, PTL

(* A chain of writes that ends without an error has sent the response and  *)
(* what Content-Length promised, unless a handler set that header itself.  *)
THEOREM RestServerResponseComplete == Spec => []ResponseComplete
  <1>1. RestServerInv => ResponseComplete
    BY DEF RestServerInv, ConnInv, ChunksOK, HeaderOK, Announced, ResponseComplete
  <1> QED BY <1>1, RestServerInvariant, PTL

(* RequestReader hands a request over at most once, never one it has       *)
(* refused, and never a body beyond MAX_INPUT_BODY_SIZE.                   *)
THEOREM RestServerHandedOver == Spec => [](HandedOverOnce /\ BodyBounded)
  <1>1. RestServerInv => HandedOverOnce /\ BodyBounded
    BY DEF RestServerInv, TypeOK, ConnInv, PhaseOK, HandedOverOnce, BodyBounded
  <1> QED BY <1>1, RestServerInvariant, PTL
=============================================================================

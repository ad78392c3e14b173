----------------------------- MODULE RestServer -----------------------------
(***************************************************************************)
(* server/: the REST server on top of cpp-netlib.  The library parses the  *)
(* head of a request and calls RESTHandler on one of the pool's threads;   *)
(* PUT and POST first collect the body through a chain of asynchronous     *)
(* reads (RequestReader); Dispatcher::Schedule then runs the pre-filters,  *)
(* the routed handler and the post-filters on a HandlerContext and starts  *)
(* a chain of asynchronous writes (ResponseWriter), each of at most        *)
(* kMaxPerSendSize bytes, which goes on after Schedule has returned and    *)
(* its Dispatcher, owner of the context, is gone.                          *)
(*                                                                         *)
(* One request per connection.  Bodies and responses are their lengths,    *)
(* and one execution of a filter chain is one step (FilterChain shows that *)
(* it may be taken as one).  Connections, their buffers and their errors   *)
(* are cpp-netlib's.  A Content-Length that is no number is left out.      *)
(***************************************************************************)
EXTENDS Integers, FiniteSets, FiniteSetsExt

CONSTANTS
  Conns,      \* connections
  Paths,      \* request.destination
  Methods,    \* request.method, as HTTPMethodFromString sees it
  Handlers,   \* routed handlers
  NoHandler,  \* what FindPtrOrNull returns for an unknown path
  Threads,    \* threads of the pool given to the server (4 in the code)
  MaxBody,    \* RequestReader::MAX_INPUT_BODY_SIZE
  MaxSend,    \* ResponseWriter::kMaxPerSendSize
  Lengths,    \* values of a Content-Length request header
  Pieces,     \* bytes_transferred of one read
  Added       \* bytes one chain or handler appends to response_body

Bodiless == {"HEAD", "GET"}
Bodied == {"PUT", "POST"}

ASSUME RestServerAssumption ==
  /\ IsFiniteSet(Conns) /\ Paths # {}
  /\ Methods \subseteq Bodiless \cup Bodied \cup {"UNKNOWN"}
  /\ NoHandler \notin Handlers
  /\ Threads \in Nat \ {0} /\ MaxBody \in Nat /\ MaxSend \in Nat \ {0}
  /\ Lengths \subseteq Nat /\ Pieces \subseteq Nat \ {0} /\ Added \subseteq Nat

NoLength == -1   \* no Content-Length header

VARIABLES
  routes,    \* route_map_
  pc,        \* where Dispatcher::Schedule is for a connection's request
  request,   \* method, path and content_length_ of the request
  reading,   \* whether a conn->read callback is outstanding
  body,      \* request_body.size()
  context,   \* the Dispatcher's HandlerContext: none yet, live or destroyed
  response,  \* response_body.size()
  header,    \* the Content-Length among response_headers
  status,    \* the last conn->set_status
  write,     \* the latest conn->write and its arguments
  sent,      \* history: bytes of the response the library has written
  garbled,   \* history: a write read the buffer of a destroyed context
  handled    \* history: the routed handler the request has met

connVars == <<pc, request, reading, body, context, response, header, status,
              write, sent, garbled, handled>>
vars == <<routes, connVars>>

Idle == [state |-> "none", offset |-> 0, need |-> 0, size |-> 0, ok |-> TRUE]

Init ==
  /\ routes = [p \in Paths |-> NoHandler]
  /\ pc = [c \in Conns |-> "new"]
  /\ request = [c \in Conns |-> 
       [method |-> "UNKNOWN", path |-> CHOOSE p \in Paths : TRUE, length |-> 0]]
  /\ reading = [c \in Conns |-> FALSE]
  /\ body = [c \in Conns |-> 0]
  /\ context = [c \in Conns |-> "none"]
  /\ response = [c \in Conns |-> 0]
  /\ header = [c \in Conns |-> NoLength]
  /\ status = [c \in Conns |-> "none"]
  /\ write = [c \in Conns |-> Idle]
  /\ sent = [c \in Conns |-> 0]
  /\ garbled = [c \in Conns |-> FALSE]
  /\ handled = [c \in Conns |-> NoHandler]

(* Requests inside Dispatcher::Schedule; each occupies a pool thread. *)
Scheduled == {c \in Conns : pc[c] \notin {"new", "idle"}}
ThreadFree == Cardinality(Scheduled) < Threads

-----------------------------------------------------------------------------
(* HTTPServer::AddRoute *)

(* A path that has a handler keeps it. *)
AddRoute(p, h) ==
  /\ routes[p] = NoHandler
  /\ routes' = [routes EXCEPT ![p] = h]
  /\ UNCHANGED connVars

-----------------------------------------------------------------------------
(* RESTHandler *)

(* A Dispatcher takes a copy of the context and enters Schedule. *)
Dispatch(c) ==
  /\ pc' = [pc EXCEPT ![c] = "pre"]
  /\ context' = [context EXCEPT ![c] = "live"]

(* An unknown method is neither read nor answered. *)
RestHandler(c, m, p, n) ==
  /\ pc[c] = "new"
  /\ ThreadFree
  /\ request' = [request EXCEPT ![c] = [method |-> m, path |-> p, length |-> n]]
  /\ \/ m \in Bodiless /\ Dispatch(c) /\ UNCHANGED reading
     \/ /\ m \in Bodied
        /\ reading' = [reading EXCEPT ![c] = TRUE]
        /\ pc' = [pc EXCEPT ![c] = "idle"]
        /\ UNCHANGED context
     \/ /\ m = "UNKNOWN"
        /\ pc' = [pc EXCEPT ![c] = "idle"]
        /\ UNCHANGED <<reading, context>>
  /\ UNCHANGED <<routes, body, response, header, status, write, sent, garbled, handled>>

-----------------------------------------------------------------------------
(* RequestReader: the callback of one conn->read *)

UnchangedByRead == UNCHANGED <<routes, request, response, header, sent, garbled, handled>>

(* End of file or another error: the reader, and with it the request, is   *)
(* dropped.                                                                *)
ReadFails(c) ==
  /\ reading[c] /\ ThreadFree
  /\ reading' = [reading EXCEPT ![c] = FALSE]
  /\ UNCHANGED <<pc, body, context, status, write>> /\ UnchangedByRead

(* No input and no error: what has been read so far is the body. *)
ReadEmpty(c) ==
  /\ reading[c] /\ ThreadFree
  /\ reading' = [reading EXCEPT ![c] = FALSE]
  /\ Dispatch(c)
  /\ UNCHANGED <<body, status, write>> /\ UnchangedByRead

(* Fault: no return after completed_callback_. *)
ReadPieceGoesOn(c, k) ==
  /\ reading[c] /\ ThreadFree
  /\ body' = [body EXCEPT ![c] = @ + k]
  /\ IF body[c] + k = request[c].length
     THEN Dispatch(c)
     ELSE UNCHANGED <<pc, context>>
  /\ reading' = [reading EXCEPT ![c] = body[c] + k <= MaxBody]
  /\ UNCHANGED <<status, write>> /\ UnchangedByRead

(* Fault: the limit is compared before the append. *)
ReadPieceLateLimit(c, k) ==
  /\ reading[c] /\ ThreadFree
  /\ body' = [body EXCEPT ![c] = @ + k]
  /\ reading' = [reading EXCEPT ![c] = body[c] <= MaxBody /\ body[c] + k # request[c].length]
  /\ IF body[c] <= MaxBody /\ body[c] + k = request[c].length
     THEN Dispatch(c)
     ELSE UNCHANGED <<pc, context>>
  /\ UNCHANGED <<status, write>> /\ UnchangedByRead

(* Fault: a body beyond the limit is thrown away and the reader reads on. *)
ReadPieceClears(c, k) ==
  /\ reading[c] /\ ThreadFree
  /\ body' = [body EXCEPT ![c] = IF @ + k > MaxBody THEN 0 ELSE @ + k]
  /\ IF body[c] + k = request[c].length
     THEN Dispatch(c) /\ reading' = [reading EXCEPT ![c] = FALSE]
     ELSE UNCHANGED <<pc, context, reading>>
  /\ UNCHANGED <<status, write>> /\ UnchangedByRead

(* k bytes: too long a body is refused, a body of the declared length is   *)
(* handed over, anything else (a longer one too) waits for another read.   *)
(* The refusal is a write without a callback.                              *)
ReadPiece(c, k) ==
  /\ reading[c] /\ ThreadFree
  /\ body' = [body EXCEPT ![c] = @ + k]
  /\ \/ /\ body'[c] > MaxBody
        /\ status' = [status EXCEPT ![c] = "bad_request"]
        /\ write' = [write EXCEPT ![c].state = "done"]
        /\ reading' = [reading EXCEPT ![c] = FALSE]
        /\ UNCHANGED <<pc, context>>
     \/ /\ body'[c] <= MaxBody /\ body'[c] = request[c].length
        /\ reading' = [reading EXCEPT ![c] = FALSE]
        /\ Dispatch(c)
        /\ UNCHANGED <<status, write>>
     \/ /\ body'[c] <= MaxBody /\ body'[c] # request[c].length
        /\ UNCHANGED <<pc, reading, context, status, write>>
  /\ UnchangedByRead

ReadCallback(c) == ReadFails(c) \/ ReadEmpty(c) \/ \E k \in Pieces : ReadPiece(c, k)

-----------------------------------------------------------------------------
(* Dispatcher::Schedule *)

Extend(c, k) == response' = [response EXCEPT ![c] = @ + k]

UnchangedBySchedule == UNCHANGED <<routes, request, reading, body, sent, garbled>>

(* The pre-filters (before = "pre") and the post-filters ("post"). *)
Filters(c, before, after) ==
  /\ pc[c] = before
  /\ pc' = [pc EXCEPT ![c] = after]
  /\ \E k \in Added : Extend(c, k)
  /\ UNCHANGED <<context, header, status, write, handled>> /\ UnchangedBySchedule

(* RoutedHandlerChain::RoutingAndExecute; a handler may announce a length  *)
(* of its own.  Without a handler the filters alone make the response.     *)
Route(c) ==
  LET h == routes[request[c].path] IN
  /\ pc[c] = "route"
  /\ pc' = [pc EXCEPT ![c] = "post"]
  /\ \/ h = NoHandler /\ UNCHANGED <<response, header, handled>>
     \/ /\ h # NoHandler
        /\ \E k \in Added : Extend(c, k)
        /\ \E n \in {NoLength} \cup Lengths : header' = [header EXCEPT ![c] = n]
        /\ handled' = [handled EXCEPT ![c] = h]
  /\ UNCHANGED <<context, status, write>> /\ UnchangedBySchedule

(* ResponseWriter::SendBody *)
SendBody(c, offset, need) ==
  write' = [write EXCEPT ![c] =
    [state |-> "queued", offset |-> offset, need |-> need,
     size |-> Min({need, MaxSend}), ok |-> TRUE]]

(* Fault: the announced length is that of the first chunk. *)
RespondChunkLength(c) ==
  /\ pc[c] = "respond"
  /\ pc' = [pc EXCEPT ![c] = "return"]
  /\ IF response[c] = 0 THEN UNCHANGED <<header, status, write>>
     ELSE /\ header' = [header EXCEPT ![c] = IF @ = NoLength THEN Min({response[c], MaxSend}) ELSE @]
          /\ status' = [status EXCEPT ![c] = "ok"]
          /\ SendBody(c, 0, response[c])
  /\ UNCHANGED <<context, response, handled>> /\ UnchangedBySchedule

(* ResponseWriter::operator(): Content-Length unless a handler has set it, *)
(* then the headers and the first chunk.  An empty response is not sent.   *)
Respond(c) ==
  /\ pc[c] = "respond"
  /\ pc' = [pc EXCEPT ![c] = "return"]
  /\ IF response[c] = 0 THEN UNCHANGED <<header, status, write>>
     ELSE /\ header' = [header EXCEPT ![c] = IF @ = NoLength THEN response[c] ELSE @]
          /\ status' = [status EXCEPT ![c] = "ok"]
          /\ SendBody(c, 0, response[c])
  /\ UNCHANGED <<context, response, handled>> /\ UnchangedBySchedule

(* Schedule returns; the last reference to the Dispatcher goes, while the  *)
(* ResponseWriter keeps its reference to the Dispatcher's context.         *)
Return(c) ==
  /\ pc[c] = "return"
  /\ pc' = [pc EXCEPT ![c] = "idle"]
  /\ context' = [context EXCEPT ![c] = "destroyed"]
  /\ UNCHANGED <<response, header, status, write, handled>> /\ UnchangedBySchedule

Schedule(c) ==
  \/ Filters(c, "pre", "route")
  \/ Route(c)
  \/ Filters(c, "post", "respond")
  \/ Respond(c)
  \/ Return(c)

-----------------------------------------------------------------------------
(* The chain of writes *)

(* The library writes the chunk, or fails to.  The buffer is not copied:   *)
(* once the context is destroyed the bytes may be anything.                *)
Transmit(c, ok) ==
  /\ write[c].state = "queued"
  /\ write' = [write EXCEPT ![c].state = "written", ![c].ok = ok]
  /\ sent' = [sent EXCEPT ![c] = IF ok THEN @ + write[c].size ELSE @]
  /\ IF context[c] = "destroyed"
     THEN \E g \in BOOLEAN : garbled' = [garbled EXCEPT ![c] = @ \/ g]
     ELSE UNCHANGED garbled
  /\ UNCHANGED <<routes, pc, request, reading, body, context, response, header, status, handled>>

UnchangedByChunk == UNCHANGED <<routes, pc, request, reading, body, context, response, header,
                                status, sent, garbled, handled>>

(* Fault: the offset does not move. *)
HandleChunkSameOffset(c) ==
  LET w == write[c] IN
  /\ w.state = "written" /\ ThreadFree
  /\ IF w.need - w.size > 0 /\ w.ok THEN SendBody(c, w.offset, w.need - w.size)
     ELSE write' = [write EXCEPT ![c].state = "done"]
  /\ UnchangedByChunk

(* Fault: prev_need_send_size - sent_size < 0, which is never true. *)
HandleChunkNeverStops(c) ==
  LET w == write[c] IN
  /\ w.state = "written" /\ ThreadFree
  /\ IF w.ok THEN SendBody(c, w.offset + w.size, w.need - w.size)
     ELSE write' = [write EXCEPT ![c].state = "done"]
  /\ UnchangedByChunk

(* ResponseWriter::HandleChunk, the callback of the write: the rest, if    *)
(* there is any and the chunk went through.                                *)
HandleChunk(c) ==
  LET w == write[c] IN
  /\ w.state = "written" /\ ThreadFree
  /\ IF w.need - w.size > 0 /\ w.ok THEN SendBody(c, w.offset + w.size, w.need - w.size)
     ELSE write' = [write EXCEPT ![c].state = "done"]
  /\ UnchangedByChunk

-----------------------------------------------------------------------------
Next ==
  \/ \E p \in Paths, h \in Handlers : AddRoute(p, h)
  \/ \E c \in Conns :
       \/ \E m \in Methods, p \in Paths, n \in Lengths : RestHandler(c, m, p, n)
       \/ ReadCallback(c)
       \/ Schedule(c)
       \/ \E ok \in BOOLEAN : Transmit(c, ok)
       \/ HandleChunk(c)

Spec == Init /\ [][Next]_vars

(* Pool threads are scheduled, filters and handlers return, and for each   *)
(* outstanding read and write the library calls back: the client goes on   *)
(* sending and receiving or its connection breaks.                         *)
FairSpec ==
  /\ Spec
  /\ \A c \in Conns :
       /\ WF_vars(ReadCallback(c))
       /\ WF_vars(Schedule(c))
       /\ WF_vars(\E ok \in BOOLEAN : Transmit(c, ok))
       /\ WF_vars(HandleChunk(c))

-----------------------------------------------------------------------------
TypeOK ==
  /\ routes \in [Paths -> Handlers \cup {NoHandler}]
  /\ pc \in [Conns -> {"new", "idle", "pre", "route", "post", "respond", "return"}]
  /\ request \in [Conns -> [method : Methods \cup {"UNKNOWN"}, path : Paths, length : Lengths \cup {0}]]
  /\ reading \in [Conns -> BOOLEAN]
  /\ body \in [Conns -> Nat]
  /\ context \in [Conns -> {"none", "live", "destroyed"}]
  /\ response \in [Conns -> Nat]
  /\ header \in [Conns -> Nat \cup {NoLength}]
  /\ status \in [Conns -> {"none", "ok", "bad_request"}]
  /\ write \in [Conns -> [state : {"none", "queued", "written", "done"}, offset : Nat,
                          need : Nat, size : 0..MaxSend, ok : BOOLEAN]]
  /\ sent \in [Conns -> Nat]
  /\ garbled \in [Conns -> BOOLEAN]
  /\ handled \in [Conns -> Handlers \cup {NoHandler}]

(* A write starts where the previous ones ended and what is left reaches   *)
(* exactly to the end of the response, however many turns the chain of     *)
(* SendBody and HandleChunk takes and whatever fails.                      *)
ChunksInOrder ==
  \A c \in Conns : LET w == write[c] IN
    /\ w.state = "queued" => w.offset = sent[c]
    /\ w.state \in {"queued", "written"} => w.offset + w.need = response[c]
    /\ w.state = "written" => sent[c] = IF w.ok THEN w.offset + w.size ELSE w.offset

(* When the chain of writes ends without an error the client has as many   *)
(* bytes as the response has, and, unless a handler announced a length     *)
(* itself, as many as Content-Length promised.                             *)
ResponseComplete ==
  \A c \in Conns :
    status[c] = "ok" /\ write[c].state = "done" /\ write[c].ok =>
      /\ sent[c] = response[c]
      /\ header[c] = sent[c] \/ (handled[c] # NoHandler /\ header[c] \in Lengths)

(* A request whose body has been handed over has no read outstanding, so   *)
(* it is not handed over again; a refused one is not dispatched, and its   *)
(* status is not overwritten by another response.                          *)
HandedOverOnce ==
  \A c \in Conns :
    /\ context[c] # "none" => ~reading[c] /\ status[c] # "bad_request"
    /\ status[c] = "bad_request" => ~reading[c]

(* Handlers never see a body beyond the limit. *)
BodyBounded == \A c \in Conns : context[c] # "none" => body[c] <= MaxBody

(* Every dispatched request is scheduled to the end, and its chain of      *)
(* writes ends.                                                            *)
DispatchEnds ==
  \A c \in Conns :
    pc[c] = "pre" ~> pc[c] = "idle" /\ write[c].state \in {"none", "done"}

(* Collecting a body ends: in a dispatch, a refusal or with the            *)
(* connection, even when the declared length is missed.                    *)
ReadingEnds == \A c \in Conns : reading[c] ~> ~reading[c]

(* The comment at http_server.cc:46: when the completion callback creates  *)
(* the Dispatcher, the request body has been read completely.              *)
BodyCompleteAtDispatch ==
  \A c \in Conns :
    pc[c] = "pre" /\ request[c].method \in Bodied => body[c] = request[c].length
=============================================================================

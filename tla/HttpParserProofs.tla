------------------------------ MODULE HttpParserProofs ---------------------------
(***************************************************************************)
(* The asserts of http_parser.cc hold for buffers of any size, cut         *)
(* anywhere, whatever the callbacks answer; in the second part of the      *)
(* module, so does what it promises to report.                             *)
(*                                                                         *)
(* ParserInv is the inductive invariant: StateOK ties the state of the     *)
(* parser to its flags, its content_length and its header_state, and       *)
(* Marked ties the marks of a call to the state, so that at most one range *)
(* is open. One lemma per case of the switch shows that the case keeps it; *)
(* the lemmas before them say what the macros of the code                  *)
(* (CALLBACK_NOTIFY, CALLBACK_DATA, UPDATE_STATE with a byte consumed or   *)
(* looked at again) keep.                                                  *)
(***************************************************************************)
EXTENDS MCHttpParser, FiniteSetTheorems, TLAPS

(* The values struct http_parser can take. *)
Parsers == [type : {"request", "response", "both"}, errno : Errno,
            header : Headers, flags : SUBSET Flags, length : -1..LengthMax,
            connect : BOOLEAN, bodiless : BOOLEAN, upgrade : BOOLEAN, state : States]

(* The values the locals of http_parser_execute can take. *)
Calls == [running : BOOLEAN, left : 0..MaxBuffer, byte : Bytes \cup {None},
          mark : [Spans -> 0..MaxBuffer], skip : 0..LongRun]

(* The states in which a range may be open, by range: its mark is set when *)
(* the state is entered or, for a body, at its first byte there.           *)
MarkStates == [header_field |-> {"header_field"}, header_value |-> {"header_value"},
               url |-> UrlStates, reason |-> {"res_status"},
               body |-> {"body_identity", "body_identity_eof", "chunk_data",
                         "chunk_data_almost_done"}]

(* What each state of the parser says of the other fields: the asserts of  *)
(* http_parser.cc, with what their proof needs of the states before them.  *)
StateOK(p) ==
  /\ p.state \in ChunkStates => "CHUNKED" \in p.flags
  /\ p.state \in {"body_identity", "chunk_data"} => p.length > 0
  /\ p.state = "chunk_data_almost_done" => p.length = 0
  /\ p.state \in {"chunk_size", "chunk_parameters", "chunk_size_almost_done"} => p.length >= 0
  /\ p.state = "header_field" => p.header \in {"general"} \cup Matching \cup Matched
  /\ p.state \in {"header_value", "header_almost_done", "header_value_lws"} =>
       p.header # "content_length" \/ p.length >= 0

(* A mark is set only in a state of its range, and lies before p. *)
Marked(state, mark, left) ==
  \A s \in Spans : mark[s] # 0 => state \in MarkStates[s] /\ left <= mark[s]

(* The part of the invariant about struct http_parser. *)
ParserOK(p) == p \in Parsers /\ StateOK(p)

(* The part about the locals of a call: a call runs only with errno OK,    *)
(* and its marks are gone when it has returned.                            *)
CallOK(c, p) ==
  /\ c \in Calls
  /\ Marked(p.state, c.mark, c.left)
  /\ c.running => p.errno = "OK"
  /\ ~c.running => c.mark = NoMark

(* The inductive invariant behind the asserts. *)
ParserInv == ParserOK(parser) /\ CallOK(call, parser)

(* A call that has returned has no marks, whatever the parser is. *)
LEMMA ReturnedOK ==
  ASSUME NEW p \in Parsers, NEW b \in Bytes \cup {None}, HttpParserAssumption
  PROVE  CallOK(Returned(b), p)
BY DEF CallOK, Calls, Returned, NoMark, Marked, HttpParserAssumption

(* What http_parser_init leaves fits StateOK. *)
LEMMA FreshOK ==
  ASSUME HttpParserAssumption, NEW type \in {"request", "response", "both"}
  PROVE  ParserOK(Fresh(type))
<1>1. -1 \in -1 .. LengthMax /\ "general" \in Headers /\ "OK" \in Errno
  BY DEF HttpParserAssumption, Headers, Errno
<1>2. Fresh(type).state \in StartStates /\ Fresh(type).state \in States
  BY DEF Fresh, States, StartStates
<1>3. Fresh(type) \in Parsers
  BY <1>1, <1>2 DEF Fresh, Parsers
<1> QED
  BY <1>2, <1>3 DEF ParserOK, StateOK, StartStates, ChunkStates

(* Setting errno disturbs nothing StateOK speaks of. *)
LEMMA ErrnoOK ==
  ASSUME NEW p, ParserOK(p), NEW a \in Errno
  PROVE  /\ ParserOK([p EXCEPT !.errno = a])
         /\ [p EXCEPT !.errno = a].errno = a
         /\ [p EXCEPT !.errno = a].state = p.state
BY DEF ParserOK, Parsers, StateOK

(* Going on to the next byte keeps the locals in their range. *)
LEMMA NextByteType ==
  ASSUME call \in Calls, HttpParserAssumption, call.left > 0,
         NEW mark \in [Spans -> 0 .. MaxBuffer]
  PROVE  NextByte(mark) \in Calls
<1>1. call.left - 1 \in 0 .. MaxBuffer
  BY DEF Calls, HttpParserAssumption
<1>2. 0 \in 0 .. LongRun
  BY DEF HttpParserAssumption
<1> QED
  BY <1>1, <1>2 DEF Calls, NextByte

(* Consuming a byte keeps the invariant when the new parser and marks fit. *)
LEMMA TakeOK ==
  ASSUME ParserInv, call.running, call.left > 0, NEW p, ParserOK(p), p.errno = "OK",
         NEW mark \in [Spans -> 0 .. MaxBuffer], Marked(p.state, mark, call.left), NEW n,
         Take(p, mark, n), HttpParserAssumption
  PROVE  ParserInv'
<1>1. call' = NextByte(mark) /\ parser' = p
  BY DEF Take
<1>2. NextByte(mark) \in Calls
  BY NextByteType DEF ParserInv, CallOK
<1>3. /\ NextByte(mark).mark = mark /\ NextByte(mark).left = call.left - 1
      /\ NextByte(mark).running
  BY DEF ParserInv, CallOK, Calls, NextByte
<1>4. Marked(p.state, mark, call.left - 1)
  BY DEF Marked, ParserInv, CallOK, Calls
<1> QED
  BY <1>1, <1>2, <1>3, <1>4 DEF ParserInv, CallOK

(* The error exit keeps the invariant. *)
LEMMA ErrorOK ==
  ASSUME ParserInv, Error, HttpParserAssumption PROVE ParserInv'
<1>1. parser' = [parser EXCEPT !.errno = "ERROR"] /\ call' = Returned(None)
  BY DEF Error
<1>2. ParserOK(parser')
  BY <1>1, ErrnoOK DEF ParserInv, Errno
<1>3. CallOK(call', parser')
  BY <1>1, <1>2, ReturnedOK DEF ParserOK
<1> QED
  BY <1>2, <1>3 DEF ParserInv

(* Looking at the byte again (goto reexecute_byte) keeps the locals right  *)
(* when the marks fit the new state.                                       *)
LEMMA SameByteOK ==
  ASSUME ParserInv, call.running, NEW ch \in Bytes, HttpParserAssumption,
         NEW mark \in [Spans -> 0 .. MaxBuffer],
         NEW p, p.errno = "OK", Marked(p.state, mark, call.left)
  PROVE  CallOK(SameByte(ch, mark), p)
<1>1. 0 \in 0 .. LongRun
  BY DEF HttpParserAssumption
<1>2. SameByte(ch, mark) \in Calls
  BY <1>1 DEF ParserInv, CallOK, Calls, SameByte
<1>3. /\ SameByte(ch, mark).mark = mark /\ SameByte(ch, mark).left = call.left
      /\ SameByte(ch, mark).running
  BY DEF ParserInv, CallOK, Calls, SameByte
<1> QED
  BY <1>2, <1>3 DEF CallOK

(* So does going on to the next byte. *)
LEMMA NextByteOK ==
  ASSUME ParserInv, call.running, call.left > 0, HttpParserAssumption,
         NEW mark \in [Spans -> 0 .. MaxBuffer],
         NEW p, p.errno = "OK", Marked(p.state, mark, call.left)
  PROVE  CallOK(NextByte(mark), p)
<1>2. NextByte(mark) \in Calls
  BY NextByteType DEF ParserInv, CallOK
<1>3. /\ NextByte(mark).mark = mark /\ NextByte(mark).left = call.left - 1
      /\ NextByte(mark).running
  BY DEF ParserInv, CallOK, Calls, NextByte
<1>4. Marked(p.state, mark, call.left - 1)
  BY DEF Marked, ParserInv, CallOK, Calls
<1> QED
  BY <1>2, <1>3, <1>4 DEF CallOK

(* A callback answers. *)
LEMMA AnswerOK ==
  ASSUME HttpParserAssumption, NEW p, ParserOK(p), NEW next, CallOK(next, p), 
         NEW again \in Bytes \cup {None}, NEW answer \in Errno,
         parser' = [p EXCEPT !.errno = answer],
         call' = IF answer = "OK" THEN next ELSE Returned(again)
  PROVE  ParserInv'
<1>1. ParserOK(parser') /\ parser'.errno = answer /\ parser'.state = p.state
  BY ErrnoOK
<1>2. CASE answer = "OK"
  BY <1>1, <1>2 DEF ParserInv, CallOK
<1>3. CASE answer # "OK"
  BY <1>1, <1>3, ReturnedOK DEF ParserInv, ParserOK
<1> QED
  BY <1>2, <1>3

(* CALLBACK_NOTIFY keeps the invariant whatever the callback answers. *)
LEMMA NotifyOK ==
  ASSUME HttpParserAssumption, NEW p, ParserOK(p), NEW next, CallOK(next, p), 
         NEW again \in Bytes \cup {None}, NEW cb, Notify(p, cb, next, again)
  PROVE  ParserInv'
BY AnswerOK DEF Notify

(* So does CALLBACK_DATA, with or without a mark. *)
LEMMA DataOK ==
  ASSUME HttpParserAssumption, NEW p, ParserOK(p), NEW next, CallOK(next, p), 
         NEW again \in Bytes \cup {None}, NEW span, NEW at, NEW end,
         Data(p, span, at, end, next, again)
  PROVE  ParserInv'
BY AnswerOK DEF Data, ParserInv

(* Setting or clearing one mark leaves the others as they are. *)
LEMMA MarkType ==
  ASSUME ParserInv, call.running, call.left > 0, NEW s \in Spans, HttpParserAssumption
  PROVE  /\ Mark(s) \in [Spans -> 0 .. MaxBuffer] /\ Unmark(s) \in [Spans -> 0 .. MaxBuffer]
         /\ Mark(s)[s] >= call.left
         /\ \A o \in Spans : o # s => Mark(s)[o] = call.mark[o] /\ Unmark(s)[o] = call.mark[o]
         /\ Unmark(s)[s] = 0
BY DEF ParserInv, CallOK, Calls, Mark, Unmark, Marked, HttpParserAssumption

(* The states inside a URL, by name. *)
UrlNames == {"req_schema", "req_schema_slash", "req_schema_slash_slash", "req_host_start",
  "req_host", "req_host_ipv6", "req_host_done", "req_port", "req_path",
  "req_query_string_start", "req_query_string", "req_fragment_start", "req_fragment"}

(* The states of a response line that only move on. *)
StatusLine == {"res_H", "res_HT", "res_HTT", "res_HTTP", "res_first_http_major",
  "res_http_major", "res_first_http_minor", "res_http_minor", "res_first_status_code",
  "res_status_code", "res_line_almost_done"}

(* The states of a request line after the URL. *)
RequestLine == {"req_http_start", "req_http_H", "req_http_HT", "req_http_HTT",
  "req_http_HTTP", "req_first_http_major", "req_http_major", "req_first_http_minor",
  "req_http_minor", "req_line_almost_done"}

(* The states of a chunk header that only move on. *)
ChunkLine == {"chunk_size", "chunk_parameters"}

(* The URL states are the sources of the URL edges. *)
LEMMA UrlStatesAre == UrlStates = UrlNames
<1>1. UrlStates \subseteq UrlNames
  BY DEF UrlStates, UrlEdges, HostEdges, PathEdges, UrlNames
<1>2. HostEdges \subseteq UrlEdges /\ PathEdges \subseteq UrlEdges
  BY DEF UrlEdges
<1>3. \A e \in UrlEdges : e[1] \in UrlStates
  BY DEF UrlStates
<1>4. /\ <<"req_schema", Alpha, "req_schema">> \in HostEdges
      /\ <<"req_schema_slash", Bytes, "req_schema_slash_slash">> \in HostEdges
      /\ <<"req_schema_slash_slash", Bytes, "req_host_start">> \in HostEdges
      /\ <<"req_host_start", {"["}, "req_host_ipv6">> \in HostEdges
      /\ <<"req_host", HostChar, "req_host">> \in HostEdges
      /\ <<"req_host_ipv6", {"]"}, "req_host_done">> \in HostEdges
      /\ <<"req_port", Num, "req_port">> \in HostEdges
      /\ <<"req_host_done", {":"}, "req_port">> \in HostEdges
  BY DEF HostEdges
<1>5. \A s \in {"req_path", "req_query_string_start", "req_query_string",
                "req_fragment_start", "req_fragment"} :
        <<s, {"SP"}, "req_http_start">> \in PathEdges
  BY DEF PathEdges
<1>6. {"req_schema", "req_schema_slash", "req_schema_slash_slash", "req_host_start",
       "req_host", "req_host_ipv6", "req_port", "req_host_done"} \subseteq UrlStates
  BY <1>2, <1>3, <1>4
<1>7. {"req_path", "req_query_string_start", "req_query_string", "req_fragment_start",
       "req_fragment"} \subseteq UrlStates
  BY <1>2, <1>3, <1>5
<1> QED
  BY <1>1, <1>6, <1>7 DEF UrlNames

(* From inside a URL the parser stays there or goes to one of three        *)
(* states.                                                                 *)
LEMMA UrlEdgesLead ==
  \A e \in UrlEdges :
    e[3] \in UrlStates \cup {"req_http_start", "req_line_almost_done", "header_field_start"}
BY UrlStatesAre DEF UrlEdges, HostEdges, PathEdges, UrlNames

(* The edges of a line stay on it or end it. *)
LEMMA PlainEdgesLead ==
  \A e \in PlainEdges :
    \/ e[1] \in StatusLine /\ e[3] \in StatusLine \cup {"res_status", "header_field_start"}
    \/ e[1] \in RequestLine /\ e[3] \in RequestLine \cup {"header_field_start"}
    \/ e[1] \in ChunkLine /\ e[3] \in {"chunk_parameters", "chunk_size_almost_done"}
<1>1. \A e \in StatusLineEdges :
        e[1] \in StatusLine /\ e[3] \in StatusLine \cup {"res_status", "header_field_start"}
  BY DEF StatusLineEdges, StatusLine
<1>2. \A e \in RequestLineEdges :
        e[1] \in RequestLine /\ e[3] \in RequestLine \cup {"header_field_start"}
  BY DEF RequestLineEdges, RequestLine
<1>3. \A e \in ChunkLineEdges :
        e[1] \in ChunkLine /\ e[3] \in {"chunk_parameters", "chunk_size_almost_done"}
  <2> SUFFICES ASSUME NEW e \in ChunkLineEdges
               PROVE  e[1] \in ChunkLine /\ e[3] \in {"chunk_parameters", "chunk_size_almost_done"}
    OBVIOUS
  <2>1. PICK bytes : \/ e = <<"chunk_size", bytes, "chunk_size_almost_done">>
                     \/ e = <<"chunk_size", bytes, "chunk_parameters">>
                     \/ e = <<"chunk_parameters", bytes, "chunk_size_almost_done">>
                     \/ e = <<"chunk_parameters", bytes, "chunk_parameters">>
    BY Zenon DEF ChunkLineEdges
  <2> QED
    BY <2>1 DEF ChunkLine
<1> QED
  BY <1>1, <1>2, <1>3 DEF PlainEdges

(* The states of PlainEdges are those of the three lines. *)
LEMMA PlainStatesAre == PlainStates = StatusLine \cup RequestLine \cup ChunkLine
<1>1. PlainStates \subseteq StatusLine \cup RequestLine \cup ChunkLine
  BY PlainEdgesLead DEF PlainStates
<1>2. \A e \in StatusLineEdges \cup RequestLineEdges \cup ChunkLineEdges : e[1] \in PlainStates
  BY DEF PlainStates, PlainEdges
<1>3. \A s \in StatusLine : \E e \in StatusLineEdges : e[1] = s
  BY DEF StatusLineEdges, StatusLine
<1>4. \A s \in RequestLine : \E e \in RequestLineEdges : e[1] = s
  BY DEF RequestLineEdges, RequestLine
<1>5. \A s \in ChunkLine : \E e \in ChunkLineEdges : e[1] = s
  BY DEF ChunkLineEdges, ChunkLine
<1> QED
  BY <1>1, <1>2, <1>3, <1>4, <1>5

(* The states of which StateOK says nothing. *)
SimpleStates == StartStates \cup UrlNames \cup StatusLine \cup RequestLine
  \cup {"start_req_or_res", "res_or_resp_H", "start_res", "start_req",
        "req_method", "req_spaces_before_url", "res_status", "headers_almost_done",
        "headers_done", "header_field_start", "header_value_start",
        "body_identity_eof", "message_done"}

(* The states in which some range may be open. *)
SpanStates == {"header_field", "header_value", "res_status", "body_identity",
               "body_identity_eof", "chunk_data", "chunk_data_almost_done"} \cup UrlNames

(* Every state of the enum is one of those named here. *)
LEMMA NamedStates ==
  States = SimpleStates \cup ChunkStates
             \cup {"header_field", "header_value", "header_almost_done", "header_value_lws",
                   "body_identity"}
BY UrlStatesAre, PlainStatesAre
   DEF States, SimpleStates, StartStates, HeaderStates, BodyStates, ChunkStates, ChunkLine

(* A simple state is none of those StateOK speaks of. *)
LEMMA SimpleApart ==
  /\ SimpleStates \cap ChunkStates = {}
  /\ SimpleStates \cap {"header_field", "header_value", "header_almost_done",
                        "header_value_lws", "body_identity"} = {}
BY DEF SimpleStates, StartStates, UrlNames, StatusLine, RequestLine, ChunkStates

(* A step to a state of which StateOK says nothing. *)
LEMMA ToSimple ==
  ASSUME NEW p \in Parsers, NEW state \in SimpleStates
  PROVE  /\ ParserOK([p EXCEPT !.state = state])
         /\ [p EXCEPT !.state = state].state = state
         /\ [p EXCEPT !.state = state].errno = p.errno
<1>1. state \in States
  BY NamedStates
<1> DEFINE q == [p EXCEPT !.state = state]
<1>2. q \in Parsers /\ q.state = state /\ q.errno = p.errno
  BY <1>1 DEF Parsers
<1>3. StateOK(q)
  <2>1. state \notin ChunkStates
    BY SimpleApart
  <2>2. state \notin {"header_field", "header_value", "header_almost_done",
                     "header_value_lws", "body_identity"}
    BY SimpleApart
  <2> HIDE DEF q
  <2> QED
    BY <1>2, <2>1, <2>2 DEF StateOK, ChunkStates
<1> QED
  BY <1>2, <1>3 DEF ParserOK

(* Outside the states of a range no mark is set, so the marks fit any      *)
(* state.                                                                  *)
LEMMA NothingMarked ==
  ASSUME ParserInv, parser.state \notin SpanStates
  PROVE  \A state, left : Marked(state, call.mark, left)
<1>1. \A s \in Spans : MarkStates[s] \subseteq SpanStates
  BY UrlStatesAre DEF MarkStates, SpanStates, Spans, InSpan
<1> QED
  BY <1>1 DEF ParserInv, CallOK, Marked

(* What the invariant says, in the form the cases cite. *)
LEMMA CallFacts ==
  ASSUME ParserInv
  PROVE  /\ call \in Calls /\ call.mark \in [Spans -> 0 .. MaxBuffer]
         /\ call.running => parser.errno = "OK"
         /\ ParserOK(parser) /\ parser \in Parsers
BY DEF ParserInv, CallOK, Calls, ParserOK

(* The byte that begins a message, or a line end before it, keeps          *)
(* ParserInv.                                                              *)
LEMMA PreStartKeeps ==
  ASSUME ParserInv, HttpParserAssumption, NEW ch \in Bytes, PreStart(ch)
  PROVE  ParserInv'
<1>1. /\ parser.state \in StartStates /\ call.running /\ call.left > 0 /\ parser.errno = "OK"
      /\ parser.state \notin SpanStates
  BY CallFacts DEF PreStart, Sees, StartStates, SpanStates, UrlNames
<1>2. CASE ch \in {"CR", "LF"}
  BY <1>1, <1>2, CallFacts, NothingMarked, TakeOK DEF PreStart
<1>3. CASE ch \notin {"CR", "LF"}
  <2>1. AfterPreStart[parser.state] \in SimpleStates
    BY <1>1 DEF AfterPreStart, SimpleStates, StartStates
  <2> DEFINE p == [parser EXCEPT !.state = AfterPreStart[parser.state]]
  <2>2. ParserOK(p) /\ p.errno = "OK"
    BY <1>1, <2>1, CallFacts, ToSimple
  <2>3. Notify(p, "message_begin", SameByte(ch, call.mark), ch)
    BY <1>3 DEF PreStart
  <2> HIDE DEF p
  <2> QED
    BY <1>1, <2>2, <2>3, CallFacts, NothingMarked, NotifyOK, SameByteOK
<1> QED
  BY <1>2, <1>3

(* The first byte of a message of either type keeps ParserInv. *)
LEMMA StartReqOrResKeeps ==
  ASSUME ParserInv, HttpParserAssumption, NEW ch \in Bytes, StartReqOrRes(ch)
  PROVE  ParserInv'
<1>1. /\ parser.state = "start_req_or_res" /\ call.running /\ call.left > 0
      /\ parser.errno = "OK" /\ parser.state \notin SpanStates
  BY CallFacts DEF StartReqOrRes, Sees, SpanStates, UrlNames
<1> DEFINE p == [parser EXCEPT !.flags = {}, !.length = -1]
<1>2. -1 \in -1 .. LengthMax
  BY DEF HttpParserAssumption
<1>3. p \in Parsers /\ p.errno = "OK"
  BY <1>1, <1>2, CallFacts DEF Parsers
<1>4. [p EXCEPT !.type = "request"] \in Parsers /\ [p EXCEPT !.type = "request"].errno = "OK"
  BY <1>3 DEF Parsers
<1>5. [p EXCEPT !.type = "request", !.state = "start_req"] =
         [[p EXCEPT !.type = "request"] EXCEPT !.state = "start_req"]
  BY <1>3 DEF Parsers
<1> HIDE DEF p
<1>6. {"start_req", "res_or_resp_H"} \subseteq SimpleStates
  BY DEF SimpleStates
<1>7. CASE ch = "H"
  BY <1>1, <1>3, <1>6, <1>7, CallFacts, NothingMarked, TakeOK, ToSimple DEF StartReqOrRes, p
<1>8. CASE ch # "H"
  <2> DEFINE q == [[p EXCEPT !.type = "request"] EXCEPT !.state = "start_req"]
  <2>1. ParserOK(q) /\ q.errno = "OK"
    BY <1>4, <1>6, ToSimple
  <2>2. Reexecute(q, ch)
    BY <1>5, <1>8 DEF StartReqOrRes, p
  <2> HIDE DEF q
  <2> QED
    BY <1>1, <2>1, <2>2, CallFacts, NothingMarked, SameByteOK DEF Reexecute, ParserInv
<1> QED
  BY <1>7, <1>8

(* What a case of the switch may take for granted. *)
LEMMA CaseFacts ==
  ASSUME ParserInv, NEW ch, NEW states, Sees(states, ch)
  PROVE  /\ call.running /\ call.left > 0 /\ parser.errno = "OK" /\ parser.state \in states
         /\ call \in Calls /\ call.mark \in [Spans -> 0 .. MaxBuffer]
         /\ ParserOK(parser) /\ parser \in Parsers
BY CallFacts DEF Sees

(* Consuming a byte on the way to a simple state keeps the invariant. *)
LEMMA TakeSimple ==
  ASSUME ParserInv, HttpParserAssumption, call.running, call.left > 0,
         parser.state \notin SpanStates,
         NEW p \in Parsers, p.errno = "OK", NEW state \in SimpleStates, NEW n,
         Take([p EXCEPT !.state = state], call.mark, n)
  PROVE  ParserInv'
BY CallFacts, NothingMarked, TakeOK, ToSimple

(* The byte that tells HTTP/ from HEAD keeps ParserInv. *)
LEMMA ResOrRespHKeeps ==
  ASSUME ParserInv, HttpParserAssumption, NEW ch \in Bytes, ResOrRespH(ch)
  PROVE  ParserInv'
<1>1. /\ parser.state \notin SpanStates /\ call.running /\ call.left > 0 /\ parser.errno = "OK"
      /\ parser \in Parsers
  BY CaseFacts DEF ResOrRespH, SpanStates, UrlNames
<1>2. {"req_method", "res_HT"} \subseteq SimpleStates
  BY DEF SimpleStates, StatusLine
<1>3. CASE ch = "T"
  <2> DEFINE p == [parser EXCEPT !.type = "response"]
  <2>1. p \in Parsers /\ p.errno = "OK"
    BY <1>1 DEF Parsers
  <2>2. Take([p EXCEPT !.state = "res_HT"], call.mark, 0)
    BY <1>1, <1>3 DEF ResOrRespH, Parsers
  <2> HIDE DEF p
  <2> QED
    BY <1>1, <1>2, <2>1, <2>2, TakeSimple
<1>4. CASE ch = "E"
  <2> DEFINE p == [parser EXCEPT !.type = "request", !.connect = FALSE]
  <2>1. p \in Parsers /\ p.errno = "OK"
    BY <1>1 DEF Parsers
  <2>2. Take([p EXCEPT !.state = "req_method"], call.mark, 0)
    BY <1>1, <1>4 DEF ResOrRespH, Parsers
  <2> HIDE DEF p
  <2> QED
    BY <1>1, <1>2, <2>1, <2>2, TakeSimple
<1>5. CASE ch \notin {"T", "E"}
  BY <1>5, ErrorOK DEF ResOrRespH
<1> QED
  BY <1>3, <1>4, <1>5

(* The first byte of a response keeps ParserInv. *)
LEMMA StartResKeeps ==
  ASSUME ParserInv, HttpParserAssumption, NEW ch \in Bytes, StartRes(ch)
  PROVE  ParserInv'
<1>1. /\ parser.state \notin SpanStates /\ call.running /\ call.left > 0 /\ parser.errno = "OK"
      /\ parser \in Parsers
  BY CaseFacts DEF StartRes, SpanStates, UrlNames
<1>2. "res_H" \in SimpleStates /\ -1 \in -1 .. LengthMax
  BY DEF SimpleStates, StatusLine, HttpParserAssumption
<1> DEFINE p == [parser EXCEPT !.flags = {}, !.length = -1]
<1>3. p \in Parsers /\ p.errno = "OK"
  BY <1>1, <1>2 DEF Parsers
<1>4. \/ Take([p EXCEPT !.state = "res_H"], call.mark, 0)
      \/ Error
  BY <1>1 DEF StartRes, Parsers
<1> HIDE DEF p
<1> QED
  BY <1>1, <1>2, <1>3, <1>4, TakeSimple, ErrorOK

(* The first byte of a request keeps ParserInv. *)
LEMMA StartReqKeeps ==
  ASSUME ParserInv, HttpParserAssumption, NEW ch \in Bytes, StartReq(ch)
  PROVE  ParserInv'
<1>1. /\ parser.state \notin SpanStates /\ call.running /\ call.left > 0 /\ parser.errno = "OK"
      /\ parser \in Parsers
  BY CaseFacts DEF StartReq, SpanStates, UrlNames
<1>2. "req_method" \in SimpleStates /\ -1 \in -1 .. LengthMax /\ (ch = "C") \in BOOLEAN
  BY DEF SimpleStates, HttpParserAssumption
<1> DEFINE p == [parser EXCEPT !.flags = {}, !.length = -1, !.connect = ch = "C"]
<1>3. p \in Parsers /\ p.errno = "OK"
  BY <1>1, <1>2 DEF Parsers
<1>4. \/ Take([p EXCEPT !.state = "req_method"], call.mark, 0)
      \/ Error
  BY <1>1 DEF StartReq, Parsers
<1> HIDE DEF p
<1> QED
  BY <1>1, <1>2, <1>3, <1>4, TakeSimple, ErrorOK

(* A byte of the method keeps ParserInv. *)
LEMMA ReqMethodKeeps ==
  ASSUME ParserInv, HttpParserAssumption, NEW ch \in Bytes, ReqMethod(ch)
  PROVE  ParserInv'
<1>1. /\ parser.state \notin SpanStates /\ call.running /\ call.left > 0 /\ parser.errno = "OK"
      /\ parser \in Parsers /\ parser.state = "req_method"
  BY CaseFacts DEF ReqMethod, SpanStates, UrlNames
<1>2. {"req_method", "req_spaces_before_url"} \subseteq SimpleStates
  BY DEF SimpleStates
<1>3. ASSUME NEW connect \in {parser.connect, FALSE},
             Take([parser EXCEPT !.connect = connect], call.mark, 0)
      PROVE  ParserInv'
  <2> DEFINE p == [parser EXCEPT !.connect = connect]
  <2>1. p \in Parsers /\ p.errno = "OK" /\ [p EXCEPT !.state = "req_method"] = p
    BY <1>1 DEF Parsers
  <2> HIDE DEF p
  <2> QED
    BY <1>1, <1>2, <1>3, <2>1, TakeSimple DEF p
<1> QED
  BY <1>1, <1>2, <1>3, TakeSimple, ErrorOK DEF ReqMethod

(* The five ranges reported piecemeal. *)
LEMMA SpansAre == Spans = {"header_field", "header_value", "url", "reason", "body"}
BY DEF Spans, InSpan

(* No state belongs to two ranges. *)
LEMMA SpansApart ==
  \A s, o \in Spans : s # o => MarkStates[s] \cap MarkStates[o] = {}
BY SpansAre, UrlStatesAre DEF MarkStates, UrlNames

(* In a state of one range the other marks are null. *)
LEMMA OnlyMark ==
  ASSUME ParserInv, NEW s \in Spans,
         parser.state \in MarkStates[s] \/ parser.state \notin SpanStates
  PROVE  \A o \in Spans : o # s => call.mark[o] = 0
<1>1. \A o \in Spans : MarkStates[o] \subseteq SpanStates
  BY SpansAre, UrlStatesAre DEF MarkStates, SpanStates
<1> QED
  BY <1>1, SpansApart DEF ParserInv, CallOK, Marked

(* Marking or ending the range of the state leaves at most that mark. *)
LEMMA MarkOne ==
  ASSUME ParserInv, HttpParserAssumption, call.running, call.left > 0, NEW s \in Spans,
         parser.state \in MarkStates[s] \/ parser.state \notin SpanStates
  PROVE  /\ Mark(s) \in [Spans -> 0 .. MaxBuffer] /\ Unmark(s) \in [Spans -> 0 .. MaxBuffer]
         /\ \A state \in MarkStates[s] : Marked(state, Mark(s), call.left)
         /\ \A state, left : Marked(state, Unmark(s), left)
         /\ \A o \in Spans : Unmark(s)[o] = 0
         /\ \A o \in Spans : o # s => Mark(s)[o] = 0
BY OnlyMark, MarkType DEF Marked

(* The first byte of the URL, which sets its mark, keeps ParserInv. *)
LEMMA ReqSpacesBeforeUrlKeeps ==
  ASSUME ParserInv, HttpParserAssumption, NEW ch \in Bytes, ReqSpacesBeforeUrl(ch)
  PROVE  ParserInv'
<1>1. /\ parser.state \notin SpanStates /\ call.running /\ call.left > 0 /\ parser.errno = "OK"
      /\ parser \in Parsers /\ ParserOK(parser) /\ call.mark \in [Spans -> 0 .. MaxBuffer]
  BY CaseFacts DEF ReqSpacesBeforeUrl, SpanStates, UrlNames
<1>2. {"req_path", "req_schema", "req_host_start"} \subseteq SimpleStates \cap MarkStates["url"]
  BY UrlStatesAre DEF SimpleStates, MarkStates, UrlNames
<1>3. /\ "url" \in Spans /\ Mark("url") \in [Spans -> 0 .. MaxBuffer]
      /\ \A state \in MarkStates["url"] : Marked(state, Mark("url"), call.left)
  BY <1>1, SpansAre, MarkOne
<1>4. \A state \in {"req_path", "req_schema", "req_host_start"} :
        /\ ParserOK([parser EXCEPT !.state = state])
        /\ [parser EXCEPT !.state = state].errno = "OK"
        /\ Marked([parser EXCEPT !.state = state].state, Mark("url"), call.left)
  BY <1>1, <1>2, <1>3, ToSimple
<1>5. CASE ch = "SP" /\ Take(parser, call.mark, 0)
  BY <1>1, <1>5, NothingMarked, TakeOK
<1>6. CASE /\ parser' = [parser EXCEPT !.state = "req_host_start"]
           /\ call' = SameByte(ch, Mark("url"))
  BY <1>1, <1>3, <1>4, <1>6, SameByteOK DEF ParserInv
<1>7. ASSUME NEW state \in {"req_path", "req_schema"},
             Take([parser EXCEPT !.state = state], Mark("url"), 1)
      PROVE  ParserInv'
  BY <1>1, <1>3, <1>4, <1>7, TakeOK
<1> QED
  BY <1>5, <1>6, <1>7, ErrorOK DEF ReqSpacesBeforeUrl

(* A byte of the URL, or the one that ends it, keeps ParserInv. *)
LEMMA UrlKeeps ==
  ASSUME ParserInv, HttpParserAssumption, NEW ch \in Bytes, Url(ch)
  PROVE  ParserInv'
<1>1. /\ parser.state \in UrlStates /\ call.running /\ call.left > 0 /\ parser.errno = "OK"
      /\ parser \in Parsers /\ call.mark \in [Spans -> 0 .. MaxBuffer]
  BY CaseFacts DEF Url
<1>2. "url" \in Spans /\ parser.state \in MarkStates["url"]
  BY <1>1, SpansAre DEF MarkStates
<1>3. CASE Error
  BY <1>3, ErrorOK
<1>4. ASSUME NEW e \in UrlEdges,
             LET p == [parser EXCEPT !.state = e[3]] IN
             IF e[3] \in UrlStates
               THEN Take(p, call.mark, 1)
               ELSE Data(p, "url", call.mark["url"], call.left, NextByte(Unmark("url")), None)
      PROVE  ParserInv'
  <2> DEFINE p == [parser EXCEPT !.state = e[3]]
  <2>1. e[3] \in SimpleStates
    BY UrlEdgesLead, UrlStatesAre DEF SimpleStates, RequestLine
  <2>2. ParserOK(p) /\ p.errno = "OK" /\ p.state = e[3]
    BY <1>1, <2>1, ToSimple
  <2>3. CASE e[3] \in UrlStates
    <3>1. \A state \in UrlStates : Marked(state, call.mark, call.left)
      BY <1>2, OnlyMark DEF Marked, ParserInv, CallOK, MarkStates
    <3>2. Take(p, call.mark, 1)
      BY <1>4, <2>3
    <3> HIDE DEF p
    <3> QED
      BY <1>1, <2>2, <2>3, <3>1, <3>2, TakeOK
  <2>4. CASE e[3] \notin UrlStates
    <3>1. Data(p, "url", call.mark["url"], call.left, NextByte(Unmark("url")), None)
      BY <1>4, <2>4
    <3> HIDE DEF p
    <3>2. CallOK(NextByte(Unmark("url")), p)
      BY <1>1, <1>2, <2>2, MarkOne, NextByteOK
    <3> QED
      BY <2>2, <3>1, <3>2, DataOK
  <2> QED
    BY <2>3, <2>4
<1> QED
  BY <1>3, <1>4 DEF Url

(* A byte of a line that only moves on keeps ParserInv. *)
LEMMA PlainKeeps ==
  ASSUME ParserInv, HttpParserAssumption, NEW ch \in Bytes, Plain(ch)
  PROVE  ParserInv'
<1>1. /\ parser.state \in PlainStates /\ call.running /\ call.left > 0 /\ parser.errno = "OK"
      /\ parser \in Parsers /\ ParserOK(parser) /\ call.mark \in [Spans -> 0 .. MaxBuffer]
  BY CaseFacts DEF Plain
<1>2. parser.state \notin SpanStates
  BY <1>1, PlainStatesAre DEF SpanStates, UrlNames, StatusLine, RequestLine, ChunkLine
<1>3. CASE Error
  BY <1>3, ErrorOK
<1>4. ASSUME NEW e \in PlainEdges, e[1] = parser.state, NEW bodiless \in BOOLEAN,
             Take([parser EXCEPT !.state = e[3], !.bodiless = bodiless], call.mark, 0)
      PROVE  ParserInv'
  <2> DEFINE p == [parser EXCEPT !.bodiless = bodiless]
             q == [p EXCEPT !.state = e[3]]
  <2>1. p \in Parsers /\ p.errno = "OK"
    BY <1>1 DEF Parsers
  <2>2. Take(q, call.mark, 0)
    BY <1>1, <1>4 DEF Parsers
  <2>3. CASE e[3] \in SimpleStates
    BY <1>1, <1>2, <2>1, <2>2, <2>3, TakeSimple
  <2>4. CASE e[3] \notin SimpleStates
    <3>1. parser.state \in ChunkLine /\ e[3] \in {"chunk_parameters", "chunk_size_almost_done"}
      BY <1>4, <2>4, PlainEdgesLead DEF SimpleStates
    <3>2. ParserOK(q) /\ q.errno = "OK"
      BY <1>1, <3>1, NamedStates DEF ParserOK, Parsers, StateOK, ChunkLine, ChunkStates
    <3> HIDE DEF p, q
    <3> QED
      BY <1>1, <1>2, <2>2, <3>2, NothingMarked, TakeOK
  <2> QED
    BY <2>3, <2>4
<1>5. parser.bodiless \in BOOLEAN
  BY <1>1 DEF Parsers
<1> QED
  BY <1>3, <1>4, <1>5 DEF Plain

(* A byte of the reason, or the one that ends it, keeps ParserInv. *)
LEMMA ResStatusKeeps ==
  ASSUME ParserInv, HttpParserAssumption, NEW ch \in Bytes, ResStatus(ch)
  PROVE  ParserInv'
<1>1. /\ parser.state = "res_status" /\ call.running /\ call.left > 0 /\ parser.errno = "OK"
      /\ parser \in Parsers /\ ParserOK(parser)
  BY CaseFacts DEF ResStatus
<1>2. "reason" \in Spans /\ parser.state \in MarkStates["reason"]
  BY <1>1, SpansAre DEF MarkStates
<1>3. {"res_line_almost_done", "header_field_start"} \subseteq SimpleStates
  BY DEF SimpleStates, StatusLine
<1>4. ASSUME NEW state \in {"res_line_almost_done", "header_field_start"}, NEW at,
             Data([parser EXCEPT !.state = state], "reason", at,
                  call.left, NextByte(Unmark("reason")), None)
      PROVE  ParserInv'
  <2> DEFINE p == [parser EXCEPT !.state = state]
  <2>1. ParserOK(p) /\ p.errno = "OK"
    BY <1>1, <1>3, ToSimple
  <2> HIDE DEF p
  <2>2. CallOK(NextByte(Unmark("reason")), p)
    BY <1>1, <1>2, <2>1, MarkOne, NextByteOK
  <2> QED
    BY <1>4, <2>1, <2>2, DataOK DEF p
<1>5. CASE Take(parser, Mark("reason"), 1)
  BY <1>1, <1>2, <1>5, MarkOne, TakeOK
<1> QED
  BY <1>4, <1>5 DEF ResStatus

(* The byte after a header line, which begins a name or ends the headers,  *)
(* keeps ParserInv.                                                        *)
LEMMA HeaderFieldStartKeeps ==
  ASSUME ParserInv, HttpParserAssumption, NEW ch \in Bytes, HeaderFieldStart(ch)
  PROVE  ParserInv'
<1>1. /\ parser.state \notin SpanStates /\ call.running /\ call.left > 0 /\ parser.errno = "OK"
      /\ parser \in Parsers /\ ParserOK(parser) /\ call.mark \in [Spans -> 0 .. MaxBuffer]
  BY CaseFacts DEF HeaderFieldStart, SpanStates, UrlNames
<1>2. "headers_almost_done" \in SimpleStates
  BY DEF SimpleStates
<1>3. CASE Take([parser EXCEPT !.state = "headers_almost_done"], call.mark, 0)
  BY <1>1, <1>2, <1>3, TakeSimple
<1>4. CASE Reexecute([parser EXCEPT !.state = "headers_almost_done"], ch)
  <2> DEFINE p == [parser EXCEPT !.state = "headers_almost_done"]
  <2>1. ParserOK(p) /\ p.errno = "OK"
    BY <1>1, <1>2, ToSimple
  <2> HIDE DEF p
  <2> QED
    BY <1>1, <1>4, <2>1, NothingMarked, SameByteOK DEF p, Reexecute, ParserInv
<1>5. ASSUME NEW header \in {"general"} \cup Matching,
             parser' = [parser EXCEPT !.state = "header_field", !.header = header],
             call' = NextByte(Mark("header_field"))
      PROVE  ParserInv'
  <2>1. /\ "header_field" \in Spans /\ "header_field" \in States
        /\ "header_field" \in MarkStates["header_field"]
    BY SpansAre, NamedStates DEF MarkStates
  <2>2. ParserOK(parser') /\ parser'.errno = "OK" /\ parser'.state = "header_field"
    <3>1. /\ parser' \in Parsers /\ parser'.state = "header_field" /\ parser'.header = header
          /\ parser'.errno = "OK"
      BY <1>1, <1>5, <2>1 DEF Parsers, Headers
    <3> QED
      BY <3>1 DEF ParserOK, StateOK, ChunkStates
  <2>3. CallOK(call', parser')
    BY <1>1, <1>5, <2>1, <2>2, MarkOne, NextByteOK
  <2> QED
    BY <2>2, <2>3 DEF ParserInv
<1> QED
  BY <1>3, <1>4, <1>5, ErrorOK DEF HeaderFieldStart, Matching

(* A byte of a header name, or the colon after it, keeps ParserInv. *)
LEMMA HeaderFieldKeeps ==
  ASSUME ParserInv, HttpParserAssumption, NEW ch \in Bytes, HeaderField(ch)
  PROVE  ParserInv'
<1>1. /\ parser.state = "header_field" /\ call.running /\ call.left > 0 /\ parser.errno = "OK"
      /\ parser \in Parsers /\ ParserOK(parser) /\ call.mark \in [Spans -> 0 .. MaxBuffer]
      /\ Marked(parser.state, call.mark, call.left)
  BY CaseFacts DEF HeaderField, ParserInv, CallOK
<1>2. "header_field" \in Spans /\ parser.state \in MarkStates["header_field"]
  BY <1>1, SpansAre DEF MarkStates
<1>3. ASSUME NEW header \in FieldHeader(ch),
             Take([parser EXCEPT !.header = header], call.mark, 1)
      PROVE  ParserInv'
  <2> DEFINE p == [parser EXCEPT !.header = header]
  <2>1. header \in {"general"} \cup Matching \cup Matched
    BY <1>1 DEF FieldHeader, FullName, Matching, Matched, ParserOK, StateOK
  <2>2. p \in Parsers /\ p.state = "header_field" /\ p.header = header /\ p.errno = "OK"
    BY <1>1, <2>1 DEF Parsers, Headers
  <2> HIDE DEF p
  <2>3. ParserOK(p)
    BY <2>1, <2>2 DEF ParserOK, StateOK, ChunkStates
  <2> QED
    BY <1>1, <1>3, <2>2, <2>3, TakeOK DEF p
<1>4. CASE Data([parser EXCEPT !.state = "header_value_start"], "header_field",
                call.mark["header_field"], call.left, NextByte(Unmark("header_field")), None)
  <2> DEFINE p == [parser EXCEPT !.state = "header_value_start"]
  <2>1. ParserOK(p) /\ p.errno = "OK"
    BY <1>1, ToSimple DEF SimpleStates
  <2> HIDE DEF p
  <2>2. CallOK(NextByte(Unmark("header_field")), p)
    BY <1>1, <1>2, <2>1, MarkOne, NextByteOK
  <2> QED
    BY <1>4, <2>1, <2>2, DataOK DEF p
<1> QED
  BY <1>3, <1>4, ErrorOK DEF HeaderField

(* The byte that begins a header value, which sets its mark, keeps         *)
(* ParserInv.                                                              *)
LEMMA HeaderValueStartKeeps ==
  ASSUME ParserInv, HttpParserAssumption, NEW ch \in Bytes, HeaderValueStart(ch)
  PROVE  ParserInv'
<1>1. /\ parser.state \notin SpanStates /\ call.running /\ call.left > 0 /\ parser.errno = "OK"
      /\ parser \in Parsers /\ ParserOK(parser) /\ call.mark \in [Spans -> 0 .. MaxBuffer]
  BY CaseFacts DEF HeaderValueStart, SpanStates, UrlNames
<1>2. /\ "header_value" \in Spans /\ "header_value" \in MarkStates["header_value"]
      /\ {"header_value", "header_almost_done", "header_field_start"} \subseteq States
      /\ {"header_value", "header_almost_done", "header_field_start"} \cap ChunkStates = {}
  BY SpansAre, NamedStates DEF MarkStates, SimpleStates, ChunkStates
<1>3. CASE Take(parser, call.mark, 0)
  BY <1>1, <1>3, NothingMarked, TakeOK
<1>4. ASSUME NEW state \in {"header_almost_done", "header_field_start"}, NEW at,
             Data([parser EXCEPT !.header = "general", !.state = state], "header_value", at,
                  call.left, NextByte(Unmark("header_value")), None)
      PROVE  ParserInv'
  <2> DEFINE p == [parser EXCEPT !.header = "general", !.state = state]
  <2>1. p \in Parsers /\ p.state = state /\ p.header = "general" /\ p.errno = "OK"
    BY <1>1, <1>2 DEF Parsers, Headers
  <2> HIDE DEF p
  <2>2. ParserOK(p)
    BY <1>2, <2>1 DEF ParserOK, StateOK
  <2>3. CallOK(NextByte(Unmark("header_value")), p)
    BY <1>1, <1>2, <2>1, MarkOne, NextByteOK
  <2> QED
    BY <1>4, <2>2, <2>3, DataOK DEF p
<1>5. ASSUME NEW p \in Parsers, p.errno = "OK", p.header # "content_length" \/ p.length >= 0,
             Take([p EXCEPT !.state = "header_value"], Mark("header_value"), 1)
      PROVE  ParserInv'
  <2> DEFINE q == [p EXCEPT !.state = "header_value"]
  <2>1. /\ q \in Parsers /\ q.state = "header_value" /\ q.errno = "OK"
        /\ q.header # "content_length" \/ q.length >= 0
    BY <1>2, <1>5 DEF Parsers
  <2>2. ParserOK(q)
    BY <1>2, <2>1 DEF ParserOK, StateOK
  <2> HIDE DEF q
  <2>3. /\ Mark("header_value") \in [Spans -> 0 .. MaxBuffer]
        /\ Marked("header_value", Mark("header_value"), call.left)
    BY <1>1, <1>2, MarkOne
  <2> QED
    BY <1>1, <1>5, <2>1, <2>2, <2>3, TakeOK DEF q
<1>6. ASSUME NEW p, Take([p EXCEPT !.state = "header_value"], Mark("header_value"), 1),
             \/ p = [parser EXCEPT !.flags = @ \cup {"UPGRADE"}, !.header = "general"]
             \/ \E h \in {"matching_transfer_encoding_chunked", "general", "general_and_quote"} :
                   p = [parser EXCEPT !.header = h]
             \/ ch \in Num /\ p = [parser EXCEPT !.length = Digit[ch]]
      PROVE  ParserInv'
  <2>1. CASE p = [parser EXCEPT !.flags = @ \cup {"UPGRADE"}, !.header = "general"]
    <3>1. p \in Parsers /\ p.errno = "OK" /\ p.header # "content_length"
      BY <1>1, <2>1 DEF Parsers, Headers, Flags
    <3> QED
      BY <1>5, <1>6, <3>1
  <2>2. ASSUME NEW h \in {"matching_transfer_encoding_chunked", "general", "general_and_quote"},
               p = [parser EXCEPT !.header = h]
        PROVE  ParserInv'
    <3>1. p \in Parsers /\ p.errno = "OK" /\ p.header # "content_length"
      BY <1>1, <2>2 DEF Parsers, Headers
    <3> QED
      BY <1>5, <1>6, <3>1
  <2>3. CASE ch \in Num /\ p = [parser EXCEPT !.length = Digit[ch]]
    <3>1. Digit[ch] \in -1 .. LengthMax /\ Digit[ch] >= 0
      BY <2>3 DEF Num, Digit, HttpParserAssumption
    <3>2. p \in Parsers /\ p.errno = "OK" /\ p.length >= 0
      BY <1>1, <2>3, <3>1 DEF Parsers
    <3> QED
      BY <1>5, <1>6, <3>2
  <2> QED
    BY <1>6, <2>1, <2>2, <2>3
<1>7. ASSUME ch \notin {"SP", "CR", "LF"} PROVE ParserInv'
  <2>1. CASE parser.header = "upgrade"
    BY <1>6, <1>7, <2>1 DEF HeaderValueStart
  <2>2. CASE parser.header = "transfer_encoding"
    BY <1>6, <1>7, <2>2 DEF HeaderValueStart
  <2>3. CASE parser.header = "content_length"
    BY <1>6, <1>7, <2>3, ErrorOK DEF HeaderValueStart
  <2>4. CASE parser.header \notin {"upgrade", "transfer_encoding", "content_length"}
    BY <1>6, <1>7, <2>4 DEF HeaderValueStart
  <2> QED
    BY <2>1, <2>2, <2>3, <2>4
<1>8. CASE ch = "LF"
  <2>1. [parser EXCEPT !.state = "header_field_start", !.header = "general"]
           = [parser EXCEPT !.header = "general", !.state = "header_field_start"]
    BY <1>1 DEF Parsers
  <2> QED
    BY <1>4, <1>8, <2>1 DEF HeaderValueStart
<1> QED
  BY <1>3, <1>4, <1>7, <1>8 DEF HeaderValueStart

(* A byte of a header value, or its line end, keeps ParserInv. *)
LEMMA HeaderValueKeeps ==
  ASSUME ParserInv, HttpParserAssumption, NEW ch \in Bytes, HeaderValue(ch)
  PROVE  ParserInv'
<1>1. /\ parser.state = "header_value" /\ call.running /\ call.left > 0 /\ parser.errno = "OK"
      /\ parser \in Parsers /\ ParserOK(parser) /\ call \in Calls
      /\ call.mark \in [Spans -> 0 .. MaxBuffer]
      /\ Marked(parser.state, call.mark, call.left)
  BY CaseFacts DEF HeaderValue, ParserInv, CallOK
<1>2. /\ "header_value" \in Spans /\ parser.state \in MarkStates["header_value"]
      /\ "header_almost_done" \in States
      /\ {"header_value", "header_almost_done"} \cap ChunkStates = {}
  BY <1>1, SpansAre, NamedStates DEF MarkStates, ChunkStates
<1>3. ASSUME NEW next, NEW again \in Bytes \cup {None},
             next \in {NextByte(Unmark("header_value")), SameByte(ch, Unmark("header_value"))},
             Data([parser EXCEPT !.state = "header_almost_done"], "header_value",
                  call.mark["header_value"], call.left, next, again)
      PROVE  ParserInv'
  <2> DEFINE p == [parser EXCEPT !.state = "header_almost_done"]
  <2>1. /\ p \in Parsers /\ p.state = "header_almost_done" /\ p.errno = "OK"
        /\ p.header = parser.header /\ p.length = parser.length
    BY <1>1, <1>2 DEF Parsers
  <2> HIDE DEF p
  <2>2. ParserOK(p)
    BY <1>1, <1>2, <2>1 DEF ParserOK, StateOK
  <2>3. CallOK(next, p)
    BY <1>1, <1>2, <1>3, <2>1, MarkOne, NextByteOK, SameByteOK
  <2> QED
    BY <1>3, <2>2, <2>3, DataOK DEF p
<1>4. ASSUME parser.header = "content_length", ContentLengthDigit(ch) PROVE ParserInv'
  <2>1. CASE Error
    BY <2>1, ErrorOK
  <2>2. CASE ~ Error
    <3>1. /\ ch \in Num /\ parser.length <= (LengthMax - 10) \div 10
          /\ Take([parser EXCEPT !.length = @ * 10 + Digit[ch]], call.mark, 1)
      BY <2>2, <1>4 DEF ContentLengthDigit
    <3> DEFINE n == parser.length * 10 + Digit[ch]
               p == [parser EXCEPT !.length = n]
    <3>2. parser.length \in 0 .. LengthMax
      BY <1>1, <1>4 DEF ParserOK, StateOK, Parsers
    <3>3. n \in 0 .. LengthMax
      <4>1. Digit[ch] \in 0 .. 9
        BY <3>1 DEF Num, Digit
      <4> QED
        BY <3>1, <3>2, <4>1 DEF HttpParserAssumption
    <3> HIDE DEF n
    <3>4. p \in Parsers /\ p.length >= 0 /\ p.state = "header_value" /\ p.errno = "OK"
      BY <1>1, <3>3 DEF Parsers
    <3> HIDE DEF p
    <3>5. ParserOK(p)
      BY <1>2, <3>4, <1>1 DEF ParserOK, StateOK
    <3>6. Take(p, call.mark, 1)
      BY <3>1 DEF p, n
    <3> QED
      BY <1>1, <3>4, <3>5, <3>6, TakeOK
  <2> QED
    BY <2>1, <2>2
<1>5. ASSUME parser.header = "transfer_encoding", ContentLengthDigit(ch) PROVE ParserInv'
  BY <1>5, ErrorOK DEF ContentLengthDigit
<1>6. ASSUME NEW header \in {parser.header} \cup ValueHeader(ch), NEW skip \in 0 .. LongRun,
             parser' = [parser EXCEPT !.header = header],
             call' = [NextByte(call.mark) EXCEPT !.skip = skip]
      PROVE  ParserInv'
  <2>1. header \in Headers /\ (header = "content_length" => parser.header = "content_length")
    BY <1>1 DEF ValueHeader, Headers, Parsers
  <2>2. ParserOK(parser') /\ parser'.errno = "OK" /\ parser'.state = "header_value"
    <3>1. /\ parser' \in Parsers /\ parser'.state = "header_value" /\ parser'.errno = "OK"
          /\ parser'.header = header /\ parser'.length = parser.length
      BY <1>1, <1>6, <2>1 DEF Parsers
    <3>2. parser.header # "content_length" \/ parser.length >= 0
      BY <1>1 DEF ParserOK, StateOK
    <3> QED
      BY <1>2, <1>1, <2>1, <3>1, <3>2 DEF ParserOK, StateOK
  <2>3. CallOK(NextByte(call.mark), parser')
    BY <1>1, <2>2, NextByteOK
  <2>4. CallOK(call', parser')
    BY <1>6, <2>3 DEF CallOK, Calls
  <2> QED
    BY <2>2, <2>4 DEF ParserInv
<1>7. ASSUME NEW passed \in BOOLEAN, passed => call.skip > 0
      PROVE  (CASE passed -> call.skip - 1
                [] parser.header = "general" /\ ch = "QT" -> Skip
                [] OTHER -> 0) \in 0 .. LongRun
  BY <1>1, <1>7 DEF Skip, Calls, HttpParserAssumption
<1> QED
  BY <1>3, <1>4, <1>5, <1>6, <1>7 DEF HeaderValue

(* CALLBACK_SPACE keeps the invariant. *)
LEMMA SpaceOK ==
  ASSUME ParserInv, HttpParserAssumption, NEW ch \in Bytes, call.running, call.left > 0,
         parser.state \notin SpanStates, NEW p, ParserOK(p), p.errno = "OK", NEW bareCR,
         Space(p, ch, bareCR)
  PROVE  ParserInv'
<1>1. CallOK(NextByte(call.mark), p)
  BY CallFacts, NothingMarked, NextByteOK
<1> QED
  BY <1>1, AnswerOK DEF Space

(* The byte after a CR in a value keeps ParserInv. *)
LEMMA HeaderAlmostDoneKeeps ==
  ASSUME ParserInv, HttpParserAssumption, NEW ch \in Bytes, HeaderAlmostDone(ch)
  PROVE  ParserInv'
<1>1. /\ parser.state = "header_almost_done" /\ call.running /\ call.left > 0
      /\ parser.errno = "OK" /\ parser \in Parsers /\ ParserOK(parser)
      /\ call.mark \in [Spans -> 0 .. MaxBuffer] /\ parser.state \notin SpanStates
  BY CaseFacts DEF HeaderAlmostDone, SpanStates, UrlNames
<1> DEFINE state == IF ch = "LF" THEN "header_value_lws" ELSE "header_value"
           flags == IF parser.header = "transfer_encoding_chunked"
                    THEN parser.flags \cup {"CHUNKED"} ELSE parser.flags
           p == [parser EXCEPT !.state = state, !.flags = flags]
<1>2. /\ state \in {"header_value_lws", "header_value"} /\ state \in States
      /\ flags \in SUBSET Flags
  BY <1>1, NamedStates DEF Parsers, Flags
<1>3. (ch = "LF" /\ Take(p, call.mark, 0)) \/ Space(p, ch, TRUE)
  BY DEF HeaderAlmostDone
<1> HIDE DEF state, flags
<1>4. /\ p \in Parsers /\ p.state = state /\ p.errno = "OK" /\ p.header = parser.header
      /\ p.length = parser.length
  BY <1>1, <1>2 DEF Parsers
<1> HIDE DEF p
<1>5. ParserOK(p)
  BY <1>1, <1>2, <1>4 DEF ParserOK, StateOK, ChunkStates
<1> QED
  BY <1>1, <1>3, <1>4, <1>5, TakeOK, NothingMarked, SpaceOK

(* The byte after the line of a value, folded or not, keeps ParserInv. *)
LEMMA HeaderValueLwsKeeps ==
  ASSUME ParserInv, HttpParserAssumption, NEW ch \in Bytes, HeaderValueLws(ch)
  PROVE  ParserInv'
<1>1. /\ call.running /\ call.left > 0 /\ parser.errno = "OK" /\ parser \in Parsers
      /\ call.mark \in [Spans -> 0 .. MaxBuffer] /\ parser.state \notin SpanStates
  BY CaseFacts DEF HeaderValueLws, SpanStates, UrlNames
<1>2. {"header_value_start", "header_field_start"} \subseteq SimpleStates
  BY DEF SimpleStates
<1>3. CASE Space([parser EXCEPT !.state = "header_value_start"], ch, FALSE)
  BY <1>1, <1>2, <1>3, ToSimple, SpaceOK
<1>4. CASE /\ parser' = [parser EXCEPT !.state = "header_field_start", !.header = "general"]
           /\ call' = SameByte(ch, call.mark)
  <2> DEFINE p == [parser EXCEPT !.header = "general"]
  <2>1. p \in Parsers /\ p.errno = "OK" /\ parser' = [p EXCEPT !.state = "header_field_start"]
    BY <1>1, <1>4 DEF Parsers, Headers
  <2> HIDE DEF p
  <2>2. ParserOK(parser') /\ parser'.errno = "OK"
    BY <1>2, <2>1, ToSimple
  <2>3. CallOK(call', parser')
    BY <1>1, <1>4, <2>2, NothingMarked, SameByteOK
  <2> QED
    BY <2>2, <2>3 DEF ParserInv
<1> QED
  BY <1>3, <1>4 DEF HeaderValueLws

(* A callback, with the byte looked at again or the next one. *)
LEMMA NotifySimple ==
  ASSUME ParserInv, HttpParserAssumption, NEW ch \in Bytes, call.running, call.left > 0,
         parser.state \notin SpanStates, NEW p \in Parsers, p.errno = "OK",
         NEW state \in SimpleStates, NEW cb, NEW again \in Bytes \cup {None},
         NEW next \in {SameByte(ch, call.mark), NextByte(call.mark), Returned(None)},
         Notify([p EXCEPT !.state = state], cb, next, again)
  PROVE  ParserInv'
<1> DEFINE q == [p EXCEPT !.state = state]
<1>1. ParserOK(q) /\ q.errno = "OK"
  BY ToSimple
<1>2. q \in Parsers
  BY <1>1 DEF ParserOK
<1>3. Notify(q, cb, next, again)
  OBVIOUS
<1> HIDE DEF q
<1>4. CallOK(next, q)
  BY <1>1, <1>2, CallFacts, NothingMarked, SameByteOK, NextByteOK, ReturnedOK
<1> QED
  BY <1>1, <1>3, <1>4, NotifyOK

(* The last byte of the headers, or of the trailer, keeps ParserInv. *)
LEMMA HeadersAlmostDoneKeeps ==
  ASSUME ParserInv, HttpParserAssumption, NEW ch \in Bytes, HeadersAlmostDone(ch)
  PROVE  ParserInv'
<1>1. /\ call.running /\ call.left > 0 /\ parser.errno = "OK" /\ parser \in Parsers
      /\ parser.state \notin SpanStates
  BY CaseFacts DEF HeadersAlmostDone, SpanStates, UrlNames
<1>2. {"message_done", "headers_done"} \subseteq SimpleStates
  BY DEF SimpleStates
<1>3. CASE Notify([parser EXCEPT !.state = "message_done"], "chunk_complete",
                  SameByte(ch, call.mark), ch)
  BY <1>1, <1>2, <1>3, NotifySimple
<1>4. ASSUME NEW skipBody \in {{}, {"SKIPBODY"}},
             Notify([parser EXCEPT
                       !.state = "headers_done", !.flags = @ \cup skipBody,
                       !.upgrade = "UPGRADE" \in parser.flags \/ parser.connect],
                    "headers_complete", SameByte(ch, call.mark), ch)
      PROVE  ParserInv'
  <2> DEFINE upgrade == "UPGRADE" \in parser.flags \/ parser.connect
             flags == parser.flags \cup skipBody
             p == [parser EXCEPT !.flags = flags, !.upgrade = upgrade]
  <2>1. upgrade \in BOOLEAN /\ flags \in SUBSET Flags
    BY <1>1 DEF Parsers, Flags
  <2>2. p \in Parsers /\ p.errno = "OK"
    <3> HIDE DEF upgrade, flags
    <3> QED
      BY <1>1, <2>1 DEF Parsers
  <2>3. [p EXCEPT !.state = "headers_done"]
          = [parser EXCEPT !.state = "headers_done", !.flags = flags, !.upgrade = upgrade]
    <3> HIDE DEF upgrade, flags
    <3> QED
      BY <1>1 DEF Parsers
  <2>4. Notify([p EXCEPT !.state = "headers_done"], "headers_complete",
               SameByte(ch, call.mark), ch)
    BY <1>4, <2>3
  <2> HIDE DEF p
  <2> QED
    BY <1>1, <1>2, <2>2, <2>4, NotifySimple
<1> QED
  BY <1>3, <1>4 DEF HeadersAlmostDone

(* NEW_MESSAGE goes to a start state and changes nothing else. *)
LEMMA NewMessageOK ==
  ASSUME parser \in Parsers
  PROVE  \E state \in SimpleStates : NEW_MESSAGE = [parser EXCEPT !.state = state]
<1>1. StartOf[parser.type] \in SimpleStates
  BY DEF Parsers, StartOf, SimpleStates, StartStates
<1> QED
  BY <1>1 DEF NEW_MESSAGE

(* The choice of what follows the headers keeps ParserInv. *)
LEMMA HeadersDoneKeeps ==
  ASSUME ParserInv, HttpParserAssumption, NEW ch \in Bytes, HeadersDone(ch)
  PROVE  ParserInv'
<1>1. /\ call.running /\ call.left > 0 /\ parser.errno = "OK" /\ parser \in Parsers
      /\ parser.state \notin SpanStates /\ call.mark \in [Spans -> 0 .. MaxBuffer]
  BY CaseFacts DEF HeadersDone, SpanStates, UrlNames
<1>2. ASSUME NEW next \in {NextByte(call.mark), Returned(None)},
             Notify(NEW_MESSAGE, "message_complete", next, None)
      PROVE  ParserInv'
  BY <1>1, <1>2, NewMessageOK, NotifySimple
<1>3. ASSUME "CHUNKED" \in parser.flags,
             Take([parser EXCEPT !.state = "chunk_size_start"], call.mark, 0)
      PROVE  ParserInv'
  <2> DEFINE p == [parser EXCEPT !.state = "chunk_size_start"]
  <2>1. /\ p \in Parsers /\ p.errno = "OK" /\ p.state = "chunk_size_start"
        /\ p.flags = parser.flags
    BY <1>1, NamedStates DEF Parsers, ChunkStates
  <2> HIDE DEF p
  <2>2. ParserOK(p)
    BY <1>3, <2>1 DEF ParserOK, StateOK
  <2> QED
    BY <1>1, <1>3, <2>1, <2>2, NothingMarked, TakeOK DEF p
<1>4. ASSUME parser.length > 0, parser' = [parser EXCEPT !.state = "body_identity"],
             call' = NextByte(call.mark)
      PROVE  ParserInv'
  <2>1. /\ parser' \in Parsers /\ parser'.errno = "OK" /\ parser'.state = "body_identity"
        /\ parser'.length = parser.length
    BY <1>1, <1>4, NamedStates DEF Parsers
  <2>2. ParserOK(parser')
    BY <1>4, <2>1 DEF ParserOK, StateOK, ChunkStates
  <2> QED
    BY <1>1, <1>4, <2>1, <2>2, NothingMarked, NextByteOK DEF ParserInv
<1>5. CASE Take([parser EXCEPT !.state = "body_identity_eof"], call.mark, 0)
  BY <1>1, <1>5, TakeSimple DEF SimpleStates
<1> QED
  BY <1>2, <1>3, <1>4, <1>5 DEF HeadersDone

(* What is read of a body is at least a byte, at most what is left of the  *)
(* buffer and at most what is left of the body.                            *)
LEMMA ToReadIs ==
  ASSUME ParserInv, HttpParserAssumption, call.left > 0, parser.length > 0
  PROVE  /\ ToRead \in Nat \ {0} /\ ToRead <= call.left /\ ToRead <= parser.length
         /\ parser.length - ToRead \in 0 .. LengthMax /\ call.left - ToRead \in 0 .. MaxBuffer
         /\ parser.length - ToRead > 0 => call.left - ToRead = 0
BY CallFacts DEF ToRead, Parsers, Calls, HttpParserAssumption

(* The call goes on to where left bytes remain. *)
GoesOn(left, mark) == [call EXCEPT !.left = left, !.byte = None, !.mark = mark]

(* Jumping over body bytes keeps the locals right when the marks fit. *)
LEMMA GoesOnOK ==
  ASSUME ParserInv, call.running, NEW left \in 0 .. MaxBuffer,
         NEW mark \in [Spans -> 0 .. MaxBuffer],
         NEW p, p.errno = "OK", Marked(p.state, mark, left)
  PROVE  CallOK(GoesOn(left, mark), p)
<1>1. /\ GoesOn(left, mark) \in Calls /\ GoesOn(left, mark).mark = mark
      /\ GoesOn(left, mark).left = left /\ GoesOn(left, mark).running
  BY CallFacts DEF GoesOn, Calls
<1> QED
  BY <1>1 DEF CallOK

(* What a case of a body may take for granted. *)
LEMMA BodyFacts ==
  ASSUME ParserInv, HttpParserAssumption, NEW state \in {"body_identity",
         "body_identity_eof", "chunk_data"},
         InBody(state)
  PROVE  /\ call.running /\ call.left > 0 /\ parser.errno = "OK" /\ parser.state = state
         /\ call.left \in 0 .. MaxBuffer
         /\ parser \in Parsers /\ ParserOK(parser)
         /\ "body" \in Spans /\ state \in MarkStates["body"]
         /\ Mark("body") \in [Spans -> 0 .. MaxBuffer]
         /\ Unmark("body") \in [Spans -> 0 .. MaxBuffer]
         /\ \A s \in MarkStates["body"], left \in 0 .. call.left : Marked(s, Mark("body"), left)
         /\ \A s, left : Marked(s, Unmark("body"), left)
<1>1. /\ call.running /\ call.left > 0 /\ parser.errno = "OK" /\ parser.state = state
      /\ call.left \in 0 .. MaxBuffer /\ parser \in Parsers /\ ParserOK(parser)
  BY CallFacts DEF InBody, Calls
<1>2. "body" \in Spans /\ state \in MarkStates["body"]
  BY SpansAre DEF MarkStates
<1>3. /\ Mark("body") \in [Spans -> 0 .. MaxBuffer]
      /\ Unmark("body") \in [Spans -> 0 .. MaxBuffer]
      /\ \A s \in MarkStates["body"] : Marked(s, Mark("body"), call.left)
      /\ \A s, left : Marked(s, Unmark("body"), left)
  BY <1>1, <1>2, MarkOne
<1>4. \A s \in MarkStates["body"], left \in 0 .. call.left : Marked(s, Mark("body"), left)
  BY <1>1, <1>3, HttpParserAssumption DEF Marked, HttpParserAssumption
<1> QED
  BY <1>1, <1>2, <1>3, <1>4

(* A run of bytes of a body of known length keeps ParserInv. *)
LEMMA BodyIdentityKeeps ==
  ASSUME ParserInv, HttpParserAssumption, BodyIdentity
  PROVE  ParserInv'
<1>1. InBody("body_identity") /\ parser.state = "body_identity" /\ parser.length > 0
  BY BodyFacts DEF BodyIdentity, BodyIdentityUntil, ParserOK, StateOK, InBody
<1> DEFINE n == parser.length - ToRead
           left == call.left - ToRead
           p == [parser EXCEPT !.length = n]
<1>2. /\ n \in 0 .. LengthMax /\ left \in 0 .. call.left /\ left \in 0 .. MaxBuffer
      /\ left + 1 \in 0 .. MaxBuffer /\ left + 1 \in 0 .. call.left
  BY <1>1, BodyFacts, ToReadIs DEF HttpParserAssumption
<1>3. p \in Parsers /\ p.errno = "OK" /\ p.length = n /\ p.state = "body_identity"
  <2> HIDE DEF n
  <2> QED
    BY <1>1, <1>2, BodyFacts DEF Parsers
<1>4. \/ /\ p.length > 0 /\ parser' = p /\ call' = GoesOn(left, Mark("body"))
      \/ \E answer \in Errno :
           /\ parser' = [p EXCEPT !.state = "message_done", !.errno = answer]
           /\ call' = IF answer = "OK" THEN GoesOn(left + 1, Unmark("body")) ELSE Returned(None)
  BY DEF BodyIdentity, BodyIdentityUntil, GoesOn
<1> HIDE DEF n, left, p
<1>5. CASE p.length > 0 /\ parser' = p /\ call' = GoesOn(left, Mark("body"))
  <2>1. ParserOK(p)
    BY <1>3, <1>5 DEF ParserOK, StateOK, ChunkStates
  <2>2. CallOK(call', p)
    BY <1>1, <1>2, <1>3, <1>5, BodyFacts, GoesOnOK
  <2> QED
    BY <1>5, <2>1, <2>2 DEF ParserInv
<1>6. ASSUME NEW answer \in Errno,
             parser' = [p EXCEPT !.state = "message_done", !.errno = answer],
             call' = IF answer = "OK" THEN GoesOn(left + 1, Unmark("body")) ELSE Returned(None)
      PROVE  ParserInv'
  <2> DEFINE q == [p EXCEPT !.state = "message_done"]
  <2>1. ParserOK(q) /\ q.errno = "OK"
    BY <1>3, ToSimple DEF SimpleStates
  <2>2. parser' = [q EXCEPT !.errno = answer]
    BY <1>3, <1>6 DEF Parsers
  <2> HIDE DEF q
  <2>3. CallOK(GoesOn(left + 1, Unmark("body")), q)
    BY <1>1, <1>2, <2>1, BodyFacts, GoesOnOK
  <2> QED
    BY <1>6, <2>1, <2>2, <2>3, AnswerOK
<1> QED
  BY <1>4, <1>5, <1>6

(* A run of bytes of a body that ends with the connection keeps ParserInv. *)
LEMMA BodyIdentityEofKeeps ==
  ASSUME ParserInv, HttpParserAssumption, BodyIdentityEof
  PROVE  ParserInv'
<1>1. InBody("body_identity_eof") /\ parser' = parser /\ call' = GoesOn(0, Mark("body"))
  BY DEF BodyIdentityEof, GoesOn
<1>2. 0 \in 0 .. call.left /\ 0 \in 0 .. MaxBuffer
  BY <1>1, BodyFacts DEF HttpParserAssumption
<1> QED
  BY <1>1, <1>2, BodyFacts, GoesOnOK DEF ParserInv

(* The last byte of a body keeps ParserInv. *)
LEMMA MessageDoneKeeps ==
  ASSUME ParserInv, HttpParserAssumption, NEW ch \in Bytes, MessageDone(ch)
  PROVE  ParserInv'
<1>1. /\ call.running /\ call.left > 0 /\ parser.errno = "OK" /\ parser \in Parsers
      /\ parser.state \notin SpanStates
  BY CaseFacts DEF MessageDone, SpanStates, UrlNames
<1> QED
  BY <1>1, NewMessageOK, NotifySimple DEF MessageDone

(* A hexadecimal digit is worth 0 to 15. *)
LEMMA UnhexIs == \A ch \in DOMAIN unhex : unhex[ch] \in 0 .. 15
BY DEF unhex, Num, Digit

(* The first digit of a chunk size keeps ParserInv. *)
LEMMA ChunkSizeStartKeeps ==
  ASSUME ParserInv, HttpParserAssumption, NEW ch \in Bytes, ChunkSizeStart(ch)
  PROVE  ParserInv'
<1>1. /\ call.running /\ call.left > 0 /\ parser.errno = "OK" /\ parser \in Parsers
      /\ parser.state \notin SpanStates /\ call.mark \in [Spans -> 0 .. MaxBuffer]
      /\ "CHUNKED" \in parser.flags
  BY CaseFacts DEF ChunkSizeStart, SpanStates, UrlNames, ParserOK, StateOK, ChunkStates
<1>2. ASSUME ch \in DOMAIN unhex,
             Take([parser EXCEPT !.length = unhex[ch], !.state = "chunk_size"], call.mark, 0)
      PROVE  ParserInv'
  <2> DEFINE p == [parser EXCEPT !.length = unhex[ch], !.state = "chunk_size"]
  <2>1. unhex[ch] \in -1 .. LengthMax /\ unhex[ch] >= 0
    BY <1>2, UnhexIs DEF HttpParserAssumption
  <2>2. /\ p \in Parsers /\ p.errno = "OK" /\ p.state = "chunk_size" /\ p.length >= 0
        /\ p.flags = parser.flags
    BY <1>1, <2>1, NamedStates DEF Parsers, ChunkStates
  <2> HIDE DEF p
  <2>3. ParserOK(p)
    BY <1>1, <2>2 DEF ParserOK, StateOK
  <2> QED
    BY <1>1, <1>2, <2>2, <2>3, NothingMarked, TakeOK DEF p
<1> QED
  BY <1>2, ErrorOK DEF ChunkSizeStart

(* A further digit of a chunk size, refused before it overflows, keeps     *)
(* ParserInv.                                                              *)
LEMMA ChunkSizeKeeps ==
  ASSUME ParserInv, HttpParserAssumption, NEW ch \in Bytes, ChunkSize(ch)
  PROVE  ParserInv'
<1>1. /\ call.running /\ call.left > 0 /\ parser.errno = "OK" /\ parser \in Parsers
      /\ parser.state \notin SpanStates /\ call.mark \in [Spans -> 0 .. MaxBuffer]
      /\ "CHUNKED" \in parser.flags /\ parser.length >= 0 /\ parser.state = "chunk_size"
  BY CaseFacts DEF ChunkSize, SpanStates, UrlNames, ParserOK, StateOK, ChunkStates
<1>2. ASSUME ch \in DOMAIN unhex, parser.length <= (LengthMax - unhex[ch]) \div 16,
             Take([parser EXCEPT !.length = @ * 16 + unhex[ch]], call.mark, 0)
      PROVE  ParserInv'
  <2> DEFINE n == parser.length * 16 + unhex[ch]
             p == [parser EXCEPT !.length = n]
  <2>1. n \in 0 .. LengthMax
    BY <1>1, <1>2, UnhexIs DEF HttpParserAssumption, Parsers
  <2> HIDE DEF n
  <2>2. /\ p \in Parsers /\ p.errno = "OK" /\ p.state = "chunk_size" /\ p.length >= 0
        /\ p.flags = parser.flags
    BY <1>1, <2>1 DEF Parsers
  <2> HIDE DEF p
  <2>3. ParserOK(p)
    BY <1>1, <2>2 DEF ParserOK, StateOK
  <2> QED
    BY <1>1, <1>2, <2>2, <2>3, NothingMarked, TakeOK DEF p, n
<1> QED
  BY <1>2, ErrorOK DEF ChunkSize

(* The end of a chunk header, with or without a chunk, keeps ParserInv. *)
LEMMA ChunkSizeAlmostDoneKeeps ==
  ASSUME ParserInv, HttpParserAssumption, NEW ch \in Bytes, ChunkSizeAlmostDone(ch)
  PROVE  ParserInv'
<1>1. /\ call.running /\ call.left > 0 /\ parser.errno = "OK" /\ parser \in Parsers
      /\ parser.state \notin SpanStates /\ call.mark \in [Spans -> 0 .. MaxBuffer]
      /\ "CHUNKED" \in parser.flags /\ parser.length >= 0
  BY CaseFacts DEF ChunkSizeAlmostDone, SpanStates, UrlNames, ParserOK, StateOK, ChunkStates
<1>2. CASE Notify([parser EXCEPT !.flags = @ \cup {"TRAILING"}, !.state = "header_field_start"],
                  "last_chunk", NextByte(call.mark), None)
  <2> DEFINE p == [parser EXCEPT !.flags = @ \cup {"TRAILING"}]
  <2>1. /\ p \in Parsers /\ p.errno = "OK"
        /\ [parser EXCEPT !.flags = @ \cup {"TRAILING"}, !.state = "header_field_start"]
              = [p EXCEPT !.state = "header_field_start"]
    BY <1>1 DEF Parsers, Flags
  <2> HIDE DEF p
  <2> QED
    BY <1>1, <1>2, <2>1, NotifySimple DEF SimpleStates
<1>3. CASE /\ parser.length # 0
           /\ Notify([parser EXCEPT !.state = "chunk_data"], "chunk_header",
                     NextByte(call.mark), None)
  <2> DEFINE p == [parser EXCEPT !.state = "chunk_data"]
  <2>1. /\ p \in Parsers /\ p.errno = "OK" /\ p.state = "chunk_data"
        /\ p.length = parser.length /\ p.flags = parser.flags
    BY <1>1, NamedStates DEF Parsers, ChunkStates
  <2>2. parser.length > 0
    BY <1>1, <1>3 DEF Parsers, HttpParserAssumption
  <2> HIDE DEF p
  <2>3. ParserOK(p)
    BY <1>1, <2>1, <2>2 DEF ParserOK, StateOK
  <2>4. CallOK(NextByte(call.mark), p)
    BY <1>1, <2>1, NothingMarked, NextByteOK
  <2> QED
    BY <1>3, <2>3, <2>4, NotifyOK DEF p
<1> QED
  BY <1>2, <1>3 DEF ChunkSizeAlmostDone

(* A run of bytes of a chunk keeps ParserInv. *)
LEMMA ChunkDataKeeps ==
  ASSUME ParserInv, HttpParserAssumption, ChunkData
  PROVE  ParserInv'
<1>1. /\ InBody("chunk_data") /\ parser.state = "chunk_data" /\ parser.length > 0
      /\ "CHUNKED" \in parser.flags
  BY BodyFacts DEF ChunkData, ParserOK, StateOK, InBody, ChunkStates
<1> DEFINE n == parser.length - ToRead
           left == call.left - ToRead
           state == IF parser.length = ToRead THEN "chunk_data_almost_done" ELSE "chunk_data"
<1>2. /\ n \in -1 .. LengthMax /\ left \in 0 .. call.left /\ left \in 0 .. MaxBuffer
      /\ state = "chunk_data" => n > 0
      /\ state = "chunk_data_almost_done" => n = 0
  BY <1>1, BodyFacts, ToReadIs DEF HttpParserAssumption, Parsers
<1>3. state \in {"chunk_data", "chunk_data_almost_done"} /\ state \in States
  BY NamedStates DEF ChunkStates
<1>4. /\ parser' = [parser EXCEPT !.length = n, !.state = state]
      /\ call' = GoesOn(left, Mark("body"))
  BY <1>1, BodyFacts DEF ChunkData, GoesOn
<1> HIDE DEF n, left, state
<1>5. /\ parser' \in Parsers /\ parser'.errno = "OK" /\ parser'.length = n
      /\ parser'.state = state /\ parser'.flags = parser.flags
  BY <1>1, <1>2, <1>3, <1>4, BodyFacts DEF Parsers
<1>6. ParserOK(parser')
  BY <1>1, <1>2, <1>3, <1>5 DEF ParserOK, StateOK
<1>7. state \in MarkStates["body"]
  BY <1>3 DEF MarkStates
<1>8. CallOK(call', parser')
  <2>1. /\ Mark("body") \in [Spans -> 0 .. MaxBuffer] /\ call.running
        /\ Marked(state, Mark("body"), left)
    BY <1>1, <1>2, <1>7, BodyFacts
  <2> QED
    BY <1>2, <1>4, <1>5, <2>1, GoesOnOK
<1> QED
  BY <1>6, <1>8 DEF ParserInv

(* The CR after a chunk, at which its bytes are reported, keeps ParserInv. *)
LEMMA ChunkDataAlmostDoneKeeps ==
  ASSUME ParserInv, HttpParserAssumption, NEW ch \in Bytes, ChunkDataAlmostDone(ch)
  PROVE  ParserInv'
<1>1. /\ call.running /\ call.left > 0 /\ parser.errno = "OK" /\ parser \in Parsers
      /\ parser.state = "chunk_data_almost_done" /\ "CHUNKED" \in parser.flags
  BY CaseFacts DEF ChunkDataAlmostDone, ParserOK, StateOK, ChunkStates
<1>2. "body" \in Spans /\ parser.state \in MarkStates["body"]
  BY <1>1, SpansAre DEF MarkStates
<1> DEFINE p == [parser EXCEPT !.state = "chunk_data_done"]
<1>3. p \in Parsers /\ p.errno = "OK" /\ p.state = "chunk_data_done" /\ p.flags = parser.flags
  BY <1>1, NamedStates DEF Parsers, ChunkStates
<1>4. Data(p, "body", call.mark["body"], call.left, NextByte(Unmark("body")), None)
  BY DEF ChunkDataAlmostDone
<1> HIDE DEF p
<1>5. ParserOK(p)
  BY <1>1, <1>3 DEF ParserOK, StateOK
<1>6. CallOK(NextByte(Unmark("body")), p)
  BY <1>1, <1>2, <1>3, MarkOne, NextByteOK
<1> QED
  BY <1>4, <1>5, <1>6, DataOK

(* The LF after a chunk keeps ParserInv. *)
LEMMA ChunkDataDoneKeeps ==
  ASSUME ParserInv, HttpParserAssumption, NEW ch \in Bytes, ChunkDataDone(ch)
  PROVE  ParserInv'
<1>1. /\ call.running /\ call.left > 0 /\ parser.errno = "OK" /\ parser \in Parsers
      /\ parser.state \notin SpanStates /\ "CHUNKED" \in parser.flags
      /\ call.mark \in [Spans -> 0 .. MaxBuffer]
  BY CaseFacts DEF ChunkDataDone, ParserOK, StateOK, ChunkStates, SpanStates, UrlNames
<1> DEFINE p == [parser EXCEPT !.state = "chunk_size_start"]
<1>2. p \in Parsers /\ p.errno = "OK" /\ p.state = "chunk_size_start" /\ p.flags = parser.flags
  BY <1>1, NamedStates DEF Parsers, ChunkStates
<1>3. Notify(p, "chunk_complete", NextByte(call.mark), None)
  BY DEF ChunkDataDone
<1> HIDE DEF p
<1>4. ParserOK(p)
  BY <1>1, <1>2 DEF ParserOK, StateOK
<1>5. CallOK(NextByte(call.mark), p)
  BY <1>1, <1>2, NothingMarked, NextByteOK
<1> QED
  BY <1>3, <1>4, <1>5, NotifyOK

(* The end of a buffer keeps ParserInv: the call returns, its mark         *)
(* reported.                                                               *)
LEMMA EndOfBufferKeeps ==
  ASSUME ParserInv, HttpParserAssumption, EndOfBuffer
  PROVE  ParserInv'
<1>1. CallOK(Returned(None), parser)
  BY CallFacts, ReturnedOK
<1>2. CASE Error
  BY <1>2, ErrorOK
<1>3. CASE call' = Returned(None) /\ parser' = parser
  BY <1>1, <1>3 DEF ParserInv
<1>4. ASSUME NEW s \in Spans, Data(parser, s, call.mark[s], 0, Returned(None), None)
      PROVE  ParserInv'
  BY <1>1, <1>4, CallFacts, DataOK
<1> QED
  BY <1>2, <1>3, <1>4 DEF EndOfBuffer

(* The start of a call keeps ParserInv: it marks only the range its state  *)
(* is in.                                                                  *)
LEMMA ExecuteKeeps ==
  ASSUME ParserInv, HttpParserAssumption, Execute
  PROVE  ParserInv'
<1> PICK len \in 1 .. MaxBuffer :
      call' = [call EXCEPT !.running = TRUE, !.left = len,
                 !.mark = [s \in Spans |-> IF parser.state \in InSpan[s] THEN len ELSE 0]]
  BY DEF Execute
<1> DEFINE mark == [s \in Spans |-> IF parser.state \in InSpan[s] THEN len ELSE 0]
<1>1. mark \in [Spans -> 0 .. MaxBuffer] /\ len \in 0 .. MaxBuffer
  BY DEF HttpParserAssumption
<1>2. Marked(parser.state, mark, len)
  <2>1. \A s \in Spans : InSpan[s] \subseteq MarkStates[s]
    BY SpansAre DEF InSpan, MarkStates
  <2> QED
    BY <2>1 DEF Marked
<1> HIDE DEF mark
<1>3. call' \in Calls /\ call'.mark = mark /\ call'.left = len /\ call'.running
  BY <1>1, CallFacts DEF Calls, mark
<1> QED
  BY <1>2, <1>3 DEF Execute, ParserInv, CallOK

(* The end of the input, a pause and a new connection keep ParserInv. *)
LEMMA OthersKeep ==
  ASSUME ParserInv, HttpParserAssumption, ExecuteEof \/ Pause \/ Reinit
  PROVE  ParserInv'
<1>1. CallOK(Returned(None), parser)
  BY CallFacts, ReturnedOK
<1>2. CASE ExecuteEof
  BY <1>1, <1>2, CallFacts, NotifyOK, ErrorOK DEF ExecuteEof
<1>3. CASE Pause
  <2>1. PICK a \in Errno : parser' = [parser EXCEPT !.errno = a]
    BY <1>3, CallFacts DEF Pause, Errno
  <2>2. ParserOK(parser') /\ parser'.state = parser.state
    BY <2>1, CallFacts, ErrnoOK
  <2> QED
    BY <1>3, <2>2 DEF Pause, ParserInv, CallOK
<1>4. CASE Reinit
  <2>1. PICK type \in {"request", "response", "both"} : parser' = Fresh(type)
    BY <1>4 DEF Reinit
  <2>2. ParserOK(parser')
    BY <2>1, FreshOK
  <2> QED
    BY <1>4, <2>2, ReturnedOK DEF Reinit, ParserInv, ParserOK
<1> QED
  BY <1>2, <1>3, <1>4

(* http_parser_init establishes ParserInv. *)
LEMMA ParserInvInitially == ASSUME HttpParserAssumption, Init PROVE ParserInv
BY FreshOK, ReturnedOK DEF Init, ParserInv, ParserOK

(* Every step of the parser and of its user keeps ParserInv. *)
LEMMA ParserInvPreserved == ASSUME HttpParserAssumption, ParserInv, [Next]_vars PROVE ParserInv'
<1>1. CASE UNCHANGED vars
  BY <1>1 DEF vars, ParserInv
<1>2. ASSUME NEW ch \in Bytes, StartLine(ch) PROVE ParserInv'
  BY <1>2, PreStartKeeps, StartReqOrResKeeps, ResOrRespHKeeps, StartResKeeps,
     StartReqKeeps, ReqMethodKeeps,
     ReqSpacesBeforeUrlKeeps, UrlKeeps, PlainKeeps, ResStatusKeeps DEF StartLine
<1>3. ASSUME NEW ch \in Bytes, Header(ch) PROVE ParserInv'
  BY <1>3, HeaderFieldStartKeeps, HeaderFieldKeeps, HeaderValueStartKeeps,
     HeaderValueKeeps, HeaderAlmostDoneKeeps,
     HeaderValueLwsKeeps, HeadersAlmostDoneKeeps, HeadersDoneKeeps DEF Header
<1>4. ASSUME NEW ch \in Bytes, Body(ch) PROVE ParserInv'
  BY <1>4, MessageDoneKeeps, ChunkSizeStartKeeps, ChunkSizeKeeps, ChunkSizeAlmostDoneKeeps,
     ChunkDataAlmostDoneKeeps, ChunkDataDoneKeeps DEF Body
<1> QED
  BY <1>1, <1>2, <1>3, <1>4, BodyIdentityKeeps, BodyIdentityEofKeeps, ChunkDataKeeps,
     EndOfBufferKeeps,
     ExecuteKeeps, OthersKeep DEF Next, Loop

(* ParserInv implies the asserts. *)
LEMMA AssertionsFollow == ASSUME ParserInv PROVE AssertionsHold
<1>1. Cardinality({s \in Spans : call.mark[s] # 0}) <= 1
  <2> DEFINE M == {s \in Spans : call.mark[s] # 0}
  <2>1. CASE M = {}
    BY <2>1, FS_EmptySet
  <2>2. CASE M # {}
    <3>1. PICK s \in Spans : call.mark[s] # 0
      BY <2>2
    <3>2. M = {s}
      BY <3>1, SpansApart DEF ParserInv, CallOK, Marked
    <3>3. Cardinality({s}) = 1
      BY FS_Singleton
    <3> QED
      BY <3>2, <3>3
  <2> QED
    BY <2>1, <2>2
<1> QED
  BY <1>1 DEF ParserInv, CallOK, ParserOK, StateOK, Parsers, AssertionsHold

(* For every size of buffers, every INT64_MAX and every length of the      *)
(* fast-forwards, no assert of http_parser.cc fails and content_length     *)
(* never passes its limit (http_parser.cc:640, 1836-1990).                 *)
THEOREM AssertionsAlwaysHold == MCSpec => []AssertionsHold
<1>1. MCInit => ParserInv
  BY ParserInvInitially, HttpParserAssumption DEF MCInit
<1>2. ParserInv /\ [MCNext]_allVars => ParserInv'
  <2> SUFFICES ASSUME ParserInv, [MCNext]_allVars PROVE ParserInv'
    OBVIOUS
  <2>1. [Next]_vars
    BY DEF MCNext, allVars, vars
  <2> QED
    BY <2>1, ParserInvPreserved, HttpParserAssumption
<1>3. ParserInv => AssertionsHold
  BY AssertionsFollow
<1> QED
  BY <1>1, <1>2, <1>3, PTL DEF MCSpec

------------------------------------------------------------------------------
(* A call of http_parser_execute ends. What ExecuteAdvances says of one    *)
(* step of a running call.                                                 *)
Advances ==
  \/ ~call'.running \/ call'.left < call.left
  \/ Rank(parser'.state) < Rank(parser.state)

(* The rank of the states whose cases leave the byte to another. *)
LEMMA RankIs ==
  /\ \A s \in StartStates \cup {"header_value"} : Rank(s) = 5
  /\ \A s \in {"start_req_or_res", "header_almost_done"} : Rank(s) = 4
  /\ \A s \in {"start_res", "start_req", "req_spaces_before_url", "header_value_lws"} :
       Rank(s) = 3
  /\ Rank("header_field_start") = 2
  /\ \A s \in {"headers_almost_done", "body_identity"} : Rank(s) = 1
  /\ \A s \in {"headers_done", "message_done", "req_host_start"} : Rank(s) = 0
BY DEF Rank, StartStates

(* The next byte leaves fewer of them. *)
LEMMA NextByteAdvances ==
  ASSUME ParserInv, NEW mark
  PROVE  NextByte(mark).left < call.left
<1>1. NextByte(mark).left = call.left - 1
  BY CallFacts DEF NextByte, Calls
<1> QED
  BY <1>1, CallFacts DEF Calls

(* Consuming a byte is progress. *)
LEMMA TakeAdvances ==
  ASSUME ParserInv, NEW p, NEW mark, NEW n, Take(p, mark, n)
  PROVE  Advances
BY NextByteAdvances DEF Take, Advances

(* So is the error exit: the call returns. *)
LEMMA ErrorAdvances ==
  ASSUME Error
  PROVE  Advances
BY DEF Error, Returned, Advances

(* A callback is followed by the end of the call, by a byte consumed or by *)
(* a state further along.                                                  *)
LEMMA AnswerAdvances ==
  ASSUME NEW p, NEW next, NEW again, NEW answer,
         parser' = [p EXCEPT !.errno = answer],
         call' = IF answer = "OK" THEN next ELSE Returned(again),
         \/ ~next.running \/ next.left < call.left
         \/ p \in Parsers /\ Rank(p.state) < Rank(parser.state)
  PROVE  Advances
<1>1. ~Returned(again).running
  BY DEF Returned
<1>2. p \in Parsers => parser'.state = p.state
  BY DEF Parsers
<1> QED
  BY <1>1, <1>2 DEF Advances

(* CALLBACK_NOTIFY. *)
LEMMA NotifyAdvances ==
  ASSUME NEW p, NEW cb, NEW next, NEW again, Notify(p, cb, next, again),
         \/ ~next.running \/ next.left < call.left
         \/ p \in Parsers /\ Rank(p.state) < Rank(parser.state)
  PROVE  Advances
BY AnswerAdvances DEF Notify

(* CALLBACK_DATA. *)
LEMMA DataAdvances ==
  ASSUME NEW p, NEW s, NEW at, NEW end, NEW next, NEW again, Data(p, s, at, end, next, again),
         \/ ~next.running \/ next.left < call.left
         \/ p \in Parsers /\ Rank(p.state) < Rank(parser.state)
  PROVE  Advances
<1>1. CASE at = 0
  BY <1>1 DEF Data, Advances
<1>2. CASE at # 0
  BY <1>2, AnswerAdvances DEF Data
<1> QED
  BY <1>1, <1>2

(* The start line advances: PreStart, StartReqOrRes and ReqSpacesBeforeUrl *)
(* leave a byte to the state they go to, the others consume it.            *)
LEMMA StartLineAdvances ==
  ASSUME ParserInv, NEW ch \in Bytes, StartLine(ch)
  PROVE  Advances
<1>1. parser \in Parsers
  BY CallFacts
<1>2. CASE PreStart(ch)
  <2>1. parser.state \in StartStates
    BY <1>2, CaseFacts DEF PreStart
  <2> DEFINE p == [parser EXCEPT !.state = AfterPreStart[parser.state]]
  <2>2. AfterPreStart[parser.state] \in {"start_req_or_res", "start_res", "start_req"}
    BY <2>1 DEF AfterPreStart, StartStates
  <2>3. AfterPreStart[parser.state] \in States
    BY <2>2, NamedStates DEF SimpleStates
  <2>4. p \in Parsers /\ p.state = AfterPreStart[parser.state]
    BY <1>1, <2>3 DEF Parsers
  <2>5. Rank(p.state) < Rank(parser.state)
    BY <2>1, <2>2, <2>4, RankIs
  <2>6. Take(parser, call.mark, 0) \/ Notify(p, "message_begin", SameByte(ch, call.mark), ch)
    BY <1>2 DEF PreStart
  <2> HIDE DEF p
  <2> QED
    BY <2>4, <2>5, <2>6, TakeAdvances, NotifyAdvances
<1>3. CASE StartReqOrRes(ch)
  <2>1. parser.state = "start_req_or_res"
    BY <1>3, CaseFacts DEF StartReqOrRes
  <2>2. ASSUME parser' = [parser EXCEPT !.flags = {}, !.length = -1, !.type = "request",
                                        !.state = "start_req"]
        PROVE  Advances
    <3>1. parser'.state = "start_req"
      BY <1>1, <2>2 DEF Parsers
    <3> QED
      BY <2>1, <3>1, RankIs DEF Advances
  <2> QED
    BY <1>3, <2>2, TakeAdvances DEF StartReqOrRes, Reexecute
<1>4. CASE ReqSpacesBeforeUrl(ch)
  <2>1. parser.state = "req_spaces_before_url"
    BY <1>4, CaseFacts DEF ReqSpacesBeforeUrl
  <2>2. ASSUME parser' = [parser EXCEPT !.state = "req_host_start"]
        PROVE  Advances
    <3>1. parser'.state = "req_host_start"
      BY <1>1, <2>2 DEF Parsers
    <3> QED
      BY <2>1, <3>1, RankIs DEF Advances
  <2> QED
    BY <1>4, <2>2, TakeAdvances, ErrorAdvances DEF ReqSpacesBeforeUrl
<1>5. CASE ResOrRespH(ch) \/ StartRes(ch) \/ StartReq(ch) \/ ReqMethod(ch)
  BY <1>5, TakeAdvances, ErrorAdvances DEF ResOrRespH, StartRes, StartReq, ReqMethod
<1>6. CASE Url(ch)
  BY <1>6, TakeAdvances, ErrorAdvances, DataAdvances, NextByteAdvances DEF Url
<1>7. CASE Plain(ch)
  BY <1>7, TakeAdvances, ErrorAdvances DEF Plain
<1>8. CASE ResStatus(ch)
  BY <1>8, TakeAdvances, DataAdvances, NextByteAdvances DEF ResStatus
<1> QED
  BY <1>2, <1>3, <1>4, <1>5, <1>6, <1>7, <1>8 DEF StartLine

(* The headers advance: the end of a value, of its line and of the headers *)
(* leave a byte to the state they go to.                                   *)
LEMMA HeaderAdvances ==
  ASSUME ParserInv, NEW ch \in Bytes, Header(ch)
  PROVE  Advances
<1>1. parser \in Parsers
  BY CallFacts
<1>2. CASE HeaderFieldStart(ch)
  <2>1. parser.state = "header_field_start"
    BY <1>2, CaseFacts DEF HeaderFieldStart
  <2>2. ASSUME parser' = [parser EXCEPT !.state = "headers_almost_done"]
        PROVE  Advances
    <3>1. parser'.state = "headers_almost_done"
      BY <1>1, <2>2 DEF Parsers
    <3> QED
      BY <2>1, <3>1, RankIs DEF Advances
  <2>3. call' = NextByte(Mark("header_field")) => Advances
    BY NextByteAdvances DEF Advances
  <2> QED
    BY <1>2, <2>2, <2>3, TakeAdvances, ErrorAdvances DEF HeaderFieldStart, Reexecute
<1>3. CASE HeaderField(ch)
  BY <1>3, TakeAdvances, ErrorAdvances, DataAdvances, NextByteAdvances DEF HeaderField
<1>4. CASE HeaderValueStart(ch)
  <2>1. \A p, s, at, next, again :
          Data(p, s, at, call.left, next, again) /\ next.left < call.left => Advances
    BY DataAdvances
  <2> QED
    BY <1>4, <2>1, TakeAdvances, ErrorAdvances, NextByteAdvances DEF HeaderValueStart
<1>5. CASE HeaderValue(ch)
  <2>1. parser.state = "header_value"
    BY <1>5, CaseFacts DEF HeaderValue
  <2> DEFINE p == [parser EXCEPT !.state = "header_almost_done"]
             at == call.mark["header_value"]
             u == Unmark("header_value")
  <2>2. p \in Parsers /\ Rank(p.state) < Rank(parser.state)
    <3>1. p \in Parsers /\ p.state = "header_almost_done"
      BY <1>1, NamedStates DEF Parsers
    <3> QED
      BY <2>1, <3>1, RankIs
  <2>3. \/ Data(p, "header_value", at, call.left, NextByte(u), None)
        \/ Data(p, "header_value", at, call.left, SameByte(ch, u), ch)
        \/ ContentLengthDigit(ch)
        \/ \E skip : call' = [NextByte(call.mark) EXCEPT !.skip = skip]
    BY <1>5 DEF HeaderValue
  <2> HIDE DEF p, at, u
  <2>4. CASE ContentLengthDigit(ch)
    BY <2>4, TakeAdvances, ErrorAdvances DEF ContentLengthDigit
  <2>5. ASSUME NEW skip, call' = [NextByte(call.mark) EXCEPT !.skip = skip]
        PROVE  Advances
    <3>1. call'.left = NextByte(call.mark).left
      BY <2>5, CallFacts DEF NextByte, Calls
    <3> QED
      BY <3>1, NextByteAdvances DEF Advances
  <2> QED
    BY <2>2, <2>3, <2>4, <2>5, DataAdvances
<1>6. CASE HeaderAlmostDone(ch) \/ HeaderValueLws(ch)
  <2>1. ASSUME NEW p, NEW b, Space(p, ch, b) PROVE Advances
    <3>1. PICK answer \in Errno :
            /\ parser' = [p EXCEPT !.errno = answer]
            /\ call' = IF answer = "OK" THEN NextByte(call.mark) ELSE Returned(ch)
      BY <2>1 DEF Space
    <3>2. NextByte(call.mark).left < call.left
      BY NextByteAdvances
    <3>3. ~Returned(ch).running
      BY DEF Returned
    <3> QED
      BY <3>1, <3>2, <3>3 DEF Advances
  <2>2. CASE HeaderAlmostDone(ch)
    BY <2>1, <2>2, TakeAdvances DEF HeaderAlmostDone
  <2>3. CASE HeaderValueLws(ch)
    <3>1. parser.state = "header_value_lws"
      BY <2>3, CaseFacts DEF HeaderValueLws
    <3>2. ASSUME parser' = [parser EXCEPT !.state = "header_field_start", !.header = "general"]
          PROVE  Advances
      <4>1. parser'.state = "header_field_start"
        BY <1>1, <3>2 DEF Parsers
      <4> QED
        BY <3>1, <4>1, RankIs DEF Advances
    <3> QED
      BY <2>1, <2>3, <3>2 DEF HeaderValueLws
  <2> QED
    BY <1>6, <2>2, <2>3
<1>7. CASE HeadersAlmostDone(ch)
  <2>1. parser.state = "headers_almost_done"
    BY <1>7, CaseFacts DEF HeadersAlmostDone
  <2>2. ASSUME NEW p, NEW cb, p \in Parsers, p.state \in {"message_done", "headers_done"},
               Notify(p, cb, SameByte(ch, call.mark), ch)
        PROVE  Advances
    <3>1. Rank(p.state) < Rank(parser.state)
      BY <2>1, <2>2, RankIs
    <3> QED
      BY <2>2, <3>1, NotifyAdvances
  <2>3. {"message_done", "headers_done"} \subseteq States
    BY NamedStates DEF SimpleStates
  <2>4. CASE "TRAILING" \in parser.flags
    <3> DEFINE p == [parser EXCEPT !.state = "message_done"]
    <3>1. p \in Parsers /\ p.state = "message_done"
      BY <1>1, <2>3 DEF Parsers
    <3>2. Notify(p, "chunk_complete", SameByte(ch, call.mark), ch)
      BY <1>7, <2>4 DEF HeadersAlmostDone
    <3> HIDE DEF p
    <3> QED
      BY <2>2, <3>1, <3>2
  <2>5. CASE "TRAILING" \notin parser.flags
    <3>1. PICK skipBody \in {{}, {"SKIPBODY"}} :
            Notify([parser EXCEPT
                      !.state = "headers_done", !.flags = @ \cup skipBody,
                      !.upgrade = "UPGRADE" \in parser.flags \/ parser.connect],
                   "headers_complete", SameByte(ch, call.mark), ch)
      BY <1>7, <2>5 DEF HeadersAlmostDone
    <3> DEFINE upgrade == "UPGRADE" \in parser.flags \/ parser.connect
               flags == parser.flags \cup skipBody
               p == [parser EXCEPT !.state = "headers_done", !.flags = flags,
                                   !.upgrade = upgrade]
    <3>2. upgrade \in BOOLEAN /\ flags \in SUBSET Flags
      BY <1>1 DEF Parsers, Flags
    <3>3. Notify(p, "headers_complete", SameByte(ch, call.mark), ch)
      BY <3>1
    <3> HIDE DEF upgrade, flags
    <3>4. p \in Parsers /\ p.state = "headers_done"
      BY <1>1, <2>3, <3>2 DEF Parsers
    <3> HIDE DEF p
    <3> QED
      BY <2>2, <3>3, <3>4
  <2> QED
    BY <2>4, <2>5
<1>8. CASE HeadersDone(ch)
  <2>1. ~Returned(None).running /\ NextByte(call.mark).left < call.left
    BY NextByteAdvances DEF Returned
  <2>2. ASSUME NEW next \in {Returned(None), NextByte(call.mark)},
               Notify(NEW_MESSAGE, "message_complete", next, None)
        PROVE  Advances
    <3>1. ~next.running \/ next.left < call.left
      BY <2>1
    <3> QED
      BY <2>2, <3>1, NotifyAdvances
  <2>3. call' = NextByte(call.mark) => Advances
    BY <2>1 DEF Advances
  <2> QED
    BY <1>8, <2>2, <2>3, TakeAdvances DEF HeadersDone
<1> QED
  BY <1>2, <1>3, <1>4, <1>5, <1>6, <1>7, <1>8 DEF Header

(* So do the bytes around a body ... *)
LEMMA BodyAdvances ==
  ASSUME ParserInv, NEW ch \in Bytes, Body(ch)
  PROVE  Advances
<1>1. /\ ~Returned(None).running
      /\ \A mark : NextByte(mark).left < call.left
  BY NextByteAdvances DEF Returned
<1>2. CASE MessageDone(ch)
  <2>1. ASSUME NEW next \in {Returned(None), NextByte(call.mark)},
               Notify(NEW_MESSAGE, "message_complete", next, None)
        PROVE  Advances
    <3>1. ~next.running \/ next.left < call.left
      BY <1>1
    <3> QED
      BY <2>1, <3>1, NotifyAdvances
  <2> QED
    BY <1>2, <2>1 DEF MessageDone
<1>3. CASE ChunkSizeStart(ch) \/ ChunkSize(ch)
  BY <1>3, TakeAdvances, ErrorAdvances DEF ChunkSizeStart, ChunkSize
<1>4. CASE ChunkSizeAlmostDone(ch) \/ ChunkDataDone(ch)
  <2>1. ASSUME NEW p, NEW cb, Notify(p, cb, NextByte(call.mark), None) PROVE Advances
    BY <1>1, <2>1, NotifyAdvances
  <2> QED
    BY <1>4, <2>1 DEF ChunkSizeAlmostDone, ChunkDataDone
<1>5. CASE ChunkDataAlmostDone(ch)
  BY <1>1, <1>5, DataAdvances DEF ChunkDataAlmostDone
<1> QED
  BY <1>2, <1>3, <1>4, <1>5 DEF Body

(* ... and its runs of bytes, which take at least one, but for a body of   *)
(* one byte: that one is left to message_done.                             *)
LEMMA RunAdvances ==
  ASSUME ParserInv, HttpParserAssumption, BodyIdentity \/ BodyIdentityEof \/ ChunkData
  PROVE  Advances
<1>1. \A left, mark : GoesOn(left, mark).left = left
  BY CallFacts DEF GoesOn, Calls
<1>2. CASE BodyIdentityEof
  <2>1. InBody("body_identity_eof") /\ call' = GoesOn(0, Mark("body"))
    BY <1>2 DEF BodyIdentityEof, GoesOn
  <2>2. call.left > 0 /\ call'.left = 0
    BY <1>1, <2>1 DEF InBody
  <2> QED
    BY <2>2, CallFacts DEF Advances, Calls
<1>3. CASE ChunkData
  <2>1. InBody("chunk_data") /\ parser.length > 0 /\ call.left > 0
    BY <1>3, BodyFacts DEF ChunkData, ParserOK, StateOK, InBody
  <2>2. call' = GoesOn(call.left - ToRead, Mark("body"))
    BY <1>3 DEF ChunkData, GoesOn
  <2>3. ToRead \in Nat \ {0} /\ call.left \in Nat
    BY <2>1, ToReadIs, CallFacts DEF Calls
  <2> QED
    BY <1>1, <2>2, <2>3 DEF Advances
<1>4. CASE BodyIdentity
  <2>1. /\ InBody("body_identity") /\ parser.state = "body_identity" /\ parser.length > 0
        /\ call.left > 0
    BY <1>4, BodyFacts DEF BodyIdentity, BodyIdentityUntil, ParserOK, StateOK, InBody
  <2>2. ToRead \in Nat \ {0} /\ call.left \in Nat /\ parser \in Parsers
    BY <2>1, ToReadIs, CallFacts DEF Calls
  <2> DEFINE left == call.left - ToRead
             n == parser.length - ToRead
             p == [parser EXCEPT !.length = n]
  <2>3. \/ call' = GoesOn(left, Mark("body"))
        \/ \E answer \in Errno :
             /\ parser' = [p EXCEPT !.state = "message_done", !.errno = answer]
             /\ call' = IF answer = "OK" THEN GoesOn(left + 1, Unmark("body"))
                        ELSE Returned(None)
    BY <1>4 DEF BodyIdentity, BodyIdentityUntil, GoesOn
  <2>4. left < call.left /\ left \in Int
    BY <2>2
  <2> HIDE DEF left, n
  <2>5. CASE call' = GoesOn(left, Mark("body"))
    BY <1>1, <2>4, <2>5 DEF Advances
  <2>6. ASSUME NEW answer \in Errno,
               parser' = [p EXCEPT !.state = "message_done", !.errno = answer]
        PROVE  Advances
    <3>1. parser'.state = "message_done"
      BY <2>2, <2>6 DEF Parsers
    <3>2. Rank("message_done") = 0 /\ Rank("body_identity") = 1
      BY RankIs
    <3> QED
      BY <2>1, <3>1, <3>2 DEF Advances
  <2> HIDE DEF p
  <2> QED
    BY <2>3, <2>5, <2>6
<1> QED
  BY <1>2, <1>3, <1>4

(* Every step of a running call is progress; at the end of the buffer the  *)
(* call returns.                                                           *)
LEMMA LoopAdvances ==
  ASSUME HttpParserAssumption, ParserInv, call.running, Next
  PROVE  Advances
<1>1. CASE EndOfBuffer
  <2>1. ~Returned(None).running
    BY DEF Returned
  <2> QED
    BY <1>1, <2>1, ErrorAdvances, DataAdvances DEF EndOfBuffer, Advances
<1>2. ~Execute /\ ~ExecuteEof /\ ~Pause /\ ~Reinit
  BY DEF Execute, ExecuteEof, Pause, Reinit
<1> QED
  BY <1>1, <1>2, StartLineAdvances, HeaderAdvances, BodyAdvances, RunAdvances DEF Next, Loop

(* http_parser_execute returns, for buffers of any size and bytes of any   *)
(* kind: a turn of its loop consumes a byte, leaves, or hands the byte to  *)
(* a case further along (goto reexecute_byte, http_parser.cc:640-1990).    *)
THEOREM ExecuteAlwaysAdvances == MCSpec => ExecuteAdvances
<1>1. MCInit => ParserInv
  BY ParserInvInitially, HttpParserAssumption DEF MCInit
<1>2. ParserInv /\ [MCNext]_allVars => ParserInv'
  <2> SUFFICES ASSUME ParserInv, [MCNext]_allVars PROVE ParserInv'
    OBVIOUS
  <2>1. [Next]_vars
    BY DEF MCNext, allVars, vars
  <2> QED
    BY <2>1, ParserInvPreserved, HttpParserAssumption
<1>3. ParserInv /\ [MCNext]_allVars =>
        [call.running =>
           \/ ~call'.running \/ call'.left < call.left
           \/ Rank(parser'.state) < Rank(parser.state)]_vars
  <2> SUFFICES ASSUME ParserInv, [MCNext]_allVars, vars' # vars, call.running
               PROVE  Advances
    BY DEF Advances
  <2>1. Next
    BY DEF MCNext, allVars, vars
  <2> QED
    BY <2>1, LoopAdvances, HttpParserAssumption
<1> QED
  BY <1>1, <1>2, <1>3, PTL DEF MCSpec, ExecuteAdvances
-----------------------------------------------------------------------------
(***************************************************************************)
(* What http_parser.cc reports: callbacks come in the order of a message,  *)
(* each byte of a range is reported once, and a body is complete when its  *)
(* announced bytes have been.                                              *)
(*                                                                         *)
(* Three ideas carry the proof. Heard names, for each state of the parser, *)
(* the callbacks that may have been the last: the state alone determines   *)
(* what may follow, so a callback never comes where no message has it.     *)
(* BytesOK says where the bytes not yet reported are: those due lie        *)
(* between the mark and p, those owed of a body are due or still to be     *)
(* read. LastOK and MarkedOK hold the two together where a callback is     *)
(* made only if a mark is set: a chunk has a marked byte or a reported     *)
(* part before its end is.                                                 *)
(***************************************************************************)
(* The names callbacks go by, as long as their order is that of a message. *)
Reported == {o[3] : o \in Order} \cup {None}

(* The values told can take, a wrong callback excluded. *)
Reports == [last : Reported, owed : Int, due : Int, bareCR : BOOLEAN]

(* A callback after another goes by at most one name. *)
LEMMA OneName ==
  \A o, q \in Order : o[1] = q[1] /\ o[2] = q[2] => o[3] = q[3]
BY DEF Order, None

(* Order, one callback at a time. *)
LEMMA InOrder ==
  /\ \A l \in {None, "message_complete"} : <<l, "message_begin", "message_begin">> \in Order
  /\ \A l \in {"message_begin", "url"} : <<l, "url", "url">> \in Order
  /\ \A l \in {"message_begin", "reason"} : <<l, "reason", "reason">> \in Order
  /\ \A l \in {"message_begin", "url", "reason", "header_field", "header_value"} :
       <<l, "header_field", "header_field">> \in Order
  /\ \A l \in {"header_field", "header_value"} : <<l, "header_value", "header_value">> \in Order
  /\ \A l \in {"message_begin", "url", "reason", "header_value"} :
       <<l, "headers_complete", "headers_complete">> \in Order
  /\ \A l \in {"headers_complete", "body"} : <<l, "body", "body">> \in Order
  /\ \A l \in {"headers_complete", "chunk_complete"} :
       /\ <<l, "chunk_header", "chunk_header">> \in Order
       /\ <<l, "last_chunk", "last_chunk">> \in Order
  /\ \A l \in {"chunk_header", "chunk_body"} : <<l, "body", "chunk_body">> \in Order
  /\ <<"chunk_body", "chunk_complete", "chunk_complete">> \in Order
  /\ \A l \in {"last_chunk", "trailer_field", "trailer_value"} :
       <<l, "header_field", "trailer_field">> \in Order
  /\ \A l \in {"trailer_field", "trailer_value"} : <<l, "header_value", "trailer_value">> \in Order
  /\ \A l \in {"last_chunk", "trailer_value"} : <<l, "chunk_complete", "chunks_complete">> \in Order
  /\ \A l \in {"headers_complete", "body", "chunks_complete"} :
       <<l, "message_complete", "message_complete">> \in Order
BY DEF Order

(* No name of Order is "wrong". *)
LEMMA NeverWrong == "wrong" \notin Reported
BY DEF Reported, Order, None

(* What a callback that comes in order makes of told. *)
LEMMA TellIs ==
  ASSUME told \in Reports, parser \in Parsers, NEW cb, NEW name, <<told.last, cb,
         name>> \in Order,
         ~SkipsUrl(cb), NEW n \in Int
  PROVE  /\ Tell(cb, n) \in Reports /\ Tell(cb, n).last = name
         /\ Tell(cb, n).due = IF told.bareCR THEN 0 ELSE told.due - n
         /\ Tell(cb, n).bareCR = told.bareCR
         /\ cb = "body" /\ parser.state # "body_identity_eof" =>
              Tell(cb, n).owed = told.owed - n
         /\ cb \in {"chunk_header", "last_chunk"} => Tell(cb, n).owed = parser.length
         /\ cb \notin {"chunk_header", "last_chunk", "body"} \/ (cb = "body" /\ parser.state = "body_identity_eof")
              => Tell(cb, n).owed = told.owed
<1>1. Following(cb) = {name}
  <2>1. name \in Following(cb)
    BY DEF Following
  <2>2. \A m \in Following(cb) : m = name
    BY OneName DEF Following
  <2> QED
    BY <2>1, <2>2
<1>2. (CHOOSE l \in Following(cb) : TRUE) = name /\ Following(cb) # {}
  BY <1>1
<1>3. name \in Reported
  BY DEF Reported
<1> DEFINE due == IF told.bareCR THEN 0 ELSE told.due - n
           owed == CASE cb = "body" /\ parser.state # "body_identity_eof" -> told.owed - n
                     [] cb \in {"chunk_header", "last_chunk"} -> parser.length
                     [] OTHER -> told.owed
<1>4. Tell(cb, n) = [told EXCEPT !.last = name, !.due = due, !.owed = owed]
  BY <1>2 DEF Tell
<1>5. due \in Int /\ owed \in Int
  BY DEF Reports, Parsers
<1> QED
  BY <1>3, <1>4, <1>5 DEF Reports

(* The states of a header line. *)
HeaderNames == {"header_field_start", "header_field", "header_value_start", "header_value",
                "header_almost_done", "header_value_lws", "headers_almost_done"}

(* The states in which F_TRAILING may be set: a trailer, its end, and the  *)
(* start of the next message, which clears the flags.                      *)
TrailerStates == StartStates \cup HeaderNames
  \cup {"start_req_or_res", "start_res", "start_req", "message_done"}

(* The states only a response, or a message not yet known to be a request, *)
(* gets to.                                                                *)
ResponseStates == StatusLine \cup {"pre_start_res", "start_res", "res_status"}

(* The states of a start line before anything but message_begin has been   *)
(* reported.                                                               *)
BegunStates == {"start_req_or_res", "res_or_resp_H", "start_res", "start_req", "req_method",
                "req_spaces_before_url"} \cup (StatusLine \ {"res_line_almost_done"})

(* What the last callback may have been, by state; in the headers it       *)
(* depends on F_TRAILING.                                                  *)
Heard(state, flags) ==
  CASE state \in StartStates -> {None, "message_complete"}
    [] state \in BegunStates ->
         {"message_begin"}
    [] state \in UrlNames -> {"message_begin", "url"}
    [] state \in RequestLine -> {"url"}
    [] state \in {"res_status", "res_line_almost_done"} -> {"message_begin", "reason"}
    [] state \in {"header_field_start", "headers_almost_done"} ->
         IF "TRAILING" \in flags THEN {"last_chunk", "trailer_value"}
         ELSE {"message_begin", "url", "reason", "header_value"}
    [] state = "header_field" ->
         IF "TRAILING" \in flags THEN {"last_chunk", "trailer_field", "trailer_value"}
         ELSE {"message_begin", "url", "reason", "header_field", "header_value"}
    [] state \in {"header_value_start", "header_value"} ->
         IF "TRAILING" \in flags THEN {"trailer_field", "trailer_value"}
         ELSE {"header_field", "header_value"}
    [] state \in {"header_almost_done", "header_value_lws"} ->
         IF "TRAILING" \in flags THEN {"trailer_value"} ELSE {"header_value"}
    [] state = "headers_done" -> {"headers_complete"}
    [] state = "body_identity" -> {"headers_complete", "body"}
    [] state = "body_identity_eof" -> {"headers_complete", "body", "message_complete"}
    [] state = "message_done" -> {"body", "chunks_complete"}
    [] state \in {"chunk_size_start", "chunk_size", "chunk_parameters",
                  "chunk_size_almost_done"} -> {"headers_complete", "chunk_complete"}
    [] state \in {"chunk_data", "chunk_data_almost_done"} -> {"chunk_header", "chunk_body"}
    [] OTHER -> {"chunk_body"}

(* The last callback fits the state, the flags and the type. *)
Fits(p, last) ==
  /\ last \in Heard(p.state, p.flags)
  /\ "TRAILING" \in p.flags => p.state \in TrailerStates
  /\ p.state \in ResponseStates => p.type # "request"
  /\ p.state \in {"header_field_start", "header_field", "headers_almost_done"}
     /\ last = "message_begin" => p.type # "request"

(* The same for a whole state of the program: a message that ended with    *)
(* the connection is over for the call too, a chunk is marked or reported  *)
(* before its end is, and a CR without LF comes after a part of its value. *)
LastOK(p, c, t) ==
  /\ Fits(p, t.last)
  /\ p.state = "body_identity_eof" /\ t.last = "message_complete" => ~c.running
  /\ p.state = "chunk_data_almost_done" /\ t.last = "chunk_header" => c.mark["body"] # 0
  /\ p.state = "header_value" /\ t.bareCR => t.last \in {"header_value", "trailer_value"}

(* While a call runs, a URL, a name or a value in progress has its mark, a *)
(* value after a CR without LF excepted.                                   *)
MarkedOK(p, c, t) ==
  c.running =>
    /\ p.state \in UrlNames => c.mark["url"] # 0
    /\ p.state = "header_field" => c.mark["header_field"] # 0
    /\ p.state = "header_value" => c.mark["header_value"] # 0 \/ t.bareCR

(* The states in which part of an announced body is still to be reported. *)
BodyLeft == {"body_identity", "chunk_data", "chunk_data_almost_done"}

(* What is due of a range is what its mark spans; what is owed of a body   *)
(* is what is still to be read of it and what its mark spans.              *)
BytesOK(p, c, t) ==
  /\ t.bareCR =>
       t.due = 0 /\ p.state \in {"header_value", "header_almost_done", "header_value_lws"}
  /\ ~t.bareCR /\ p.errno # "ERROR" =>
       /\ \A s \in Spans : c.mark[s] # 0 => t.due = c.mark[s] - c.left
       /\ (\A s \in Spans : c.mark[s] = 0) => t.due = 0
  /\ t.owed = IF p.state \in BodyLeft
              THEN p.length + (IF c.mark["body"] = 0 THEN 0 ELSE c.mark["body"] - c.left)
              ELSE 0

(* The inductive invariant behind CallbackOrder and BytesReported, on top  *)
(* of ParserInv.                                                           *)
ReportInv ==
  /\ told \in Reports
  /\ LastOK(parser, call, told)
  /\ MarkedOK(parser, call, told)
  /\ BytesOK(parser, call, told)

(* Heard, outside the headers. *)
LEMMA HeardIs ==
  \A flags :
    /\ \A s \in StartStates : Heard(s, flags) = {None, "message_complete"}
    /\ \A s \in BegunStates :
         Heard(s, flags) = {"message_begin"}
    /\ \A s \in UrlNames : Heard(s, flags) = {"message_begin", "url"}
    /\ \A s \in RequestLine : Heard(s, flags) = {"url"}
    /\ \A s \in {"res_status", "res_line_almost_done"} :
         Heard(s, flags) = {"message_begin", "reason"}
    /\ Heard("headers_done", flags) = {"headers_complete"}
    /\ Heard("body_identity", flags) = {"headers_complete", "body"}
    /\ Heard("body_identity_eof", flags) = {"headers_complete", "body", "message_complete"}
    /\ Heard("message_done", flags) = {"body", "chunks_complete"}
    /\ \A s \in {"chunk_size_start", "chunk_size", "chunk_parameters",
                 "chunk_size_almost_done"} :
         Heard(s, flags) = {"headers_complete", "chunk_complete"}
    /\ \A s \in {"chunk_data", "chunk_data_almost_done"} :
         Heard(s, flags) = {"chunk_header", "chunk_body"}
    /\ Heard("chunk_data_done", flags) = {"chunk_body"}
BY DEF Heard, StartStates, BegunStates, StatusLine, UrlNames, RequestLine

(* Heard, in the headers and the trailer. *)
LEMMA HeardOfHeaders ==
  \A flags :
    /\ \A s \in {"header_field_start", "headers_almost_done"} :
         Heard(s, flags) = IF "TRAILING" \in flags THEN {"last_chunk", "trailer_value"}
                           ELSE {"message_begin", "url", "reason", "header_value"}
    /\ Heard("header_field", flags) =
         IF "TRAILING" \in flags THEN {"last_chunk", "trailer_field", "trailer_value"}
         ELSE {"message_begin", "url", "reason", "header_field", "header_value"}
    /\ \A s \in {"header_value_start", "header_value"} :
         Heard(s, flags) = IF "TRAILING" \in flags THEN {"trailer_field", "trailer_value"}
                           ELSE {"header_field", "header_value"}
    /\ \A s \in {"header_almost_done", "header_value_lws"} :
         Heard(s, flags) = IF "TRAILING" \in flags THEN {"trailer_value"} ELSE {"header_value"}
BY DEF Heard, StartStates, BegunStates, StatusLine, UrlNames, RequestLine

(* Outside the ranges nothing is marked, due or owed. *)
LEMMA QuietNow ==
  ASSUME ParserInv, ReportInv, parser.errno # "ERROR", parser.state \notin SpanStates
  PROVE  /\ \A s \in Spans : call.mark[s] = 0
         /\ told.due = 0 /\ told.owed = 0
<1>1. \A s \in Spans : call.mark[s] = 0
  <2>1. \A s \in Spans : MarkStates[s] \subseteq SpanStates
    BY UrlStatesAre DEF MarkStates, SpanStates, Spans, InSpan
  <2> QED
    BY <2>1 DEF ParserInv, CallOK, Marked
<1>2. parser.state \notin BodyLeft
  BY DEF BodyLeft, SpanStates
<1> QED
  BY <1>1, <1>2 DEF ReportInv, BytesOK

(* The states a running call has a mark in. *)
Opens == UrlNames \cup {"header_field", "header_value"}

(* Where no mark is set, nothing is due and all that is owed is still to   *)
(* be read, the byte counts fit.                                           *)
LEMMA QuietBytes ==
  ASSUME NEW p \in Parsers, NEW c, NEW t \in Reports, \A s \in Spans : c.mark[s] = 0,
         t.due = 0, t.owed = IF p.state \in BodyLeft THEN p.length ELSE 0,
         t.bareCR => p.state \in {"header_value", "header_almost_done", "header_value_lws"},
         c.running => p.state \notin Opens
  PROVE  MarkedOK(p, c, t) /\ BytesOK(p, c, t)
<1>1. c.mark["body"] = 0
  BY SpansAre
<1>2. MarkedOK(p, c, t)
  BY DEF MarkedOK, Opens
<1>3. BytesOK(p, c, t)
  BY <1>1 DEF BytesOK, Parsers, Reports
<1> QED
  BY <1>2, <1>3

(* What consuming a byte makes of told. *)
LEMMA TakeTold ==
  ASSUME ParserInv, told \in Reports, NEW p, NEW mark, NEW n \in Int, Take(p, mark, n)
  PROVE  /\ told' \in Reports /\ told'.last = told.last /\ told'.owed = told.owed
         /\ told'.bareCR = told.bareCR
         /\ told'.due = IF told.bareCR THEN 0 ELSE told.due + n
         /\ parser' = p /\ call'.running = call.running /\ call'.mark = mark
         /\ call'.left = call.left - 1
BY DEF Take, NextByte, Reports, ParserInv, CallOK, Calls

(* Consuming a byte of no range, between states outside the ranges, keeps  *)
(* ReportInv.                                                              *)
LEMMA TakeQuiet ==
  ASSUME ParserInv, ReportInv, call.running, parser.state \notin SpanStates,
         NEW p \in Parsers, Take(p, call.mark, 0), p.state \notin Opens \cup BodyLeft,
         p.state = "body_identity_eof" => told.last = "headers_complete",
         told.bareCR => p.state \in {"header_almost_done", "header_value_lws"},
         Fits(p, told.last)
  PROVE  ReportInv'
<1>1. told \in Reports /\ parser.errno # "ERROR"
  BY CallFacts DEF ReportInv
<1>2. /\ told' \in Reports /\ told'.last = told.last /\ told'.owed = told.owed
      /\ told'.bareCR = told.bareCR /\ told'.due = IF told.bareCR THEN 0 ELSE told.due + 0
      /\ parser' = p /\ call'.mark = call.mark
  <2>1. Take(p, call.mark, 0) /\ 0 \in Int
    OBVIOUS
  <2> QED
    BY <1>1, <2>1, TakeTold
<1>3. told'.due = 0 /\ told'.owed = 0 /\ \A s \in Spans : call'.mark[s] = 0
  BY <1>1, <1>2, QuietNow
<1>4. MarkedOK(p, call', told') /\ BytesOK(p, call', told')
  BY <1>2, <1>3, QuietBytes
<1>5. LastOK(p, call', told')
  BY <1>2 DEF LastOK, BodyLeft, Opens
<1> QED
  BY <1>2, <1>4, <1>5 DEF ReportInv

(* A call that has returned is not running and has no mark. *)
LEMMA ReturnedIs ==
  ASSUME NEW b
  PROVE  ~Returned(b).running /\ Returned(b).mark = NoMark /\ Returned(b).left = 0
         /\ \A s \in Spans : Returned(b).mark[s] = 0
BY DEF Returned, NoMark

(* Setting errno leaves the fields the reports depend on. *)
LEMMA ErrnoSame ==
  ASSUME NEW p \in Parsers, NEW answer \in Errno
  PROVE  LET q == [p EXCEPT !.errno = answer] IN
         /\ q \in Parsers /\ q.state = p.state /\ q.flags = p.flags /\ q.type = p.type
         /\ q.length = p.length /\ q.errno = answer
BY DEF Parsers

(* A callback without data, made outside the ranges, keeps ReportInv when  *)
(* it comes in order and fits the next state.                              *)
LEMMA NotifyQuiet ==
  ASSUME ParserInv, ReportInv, parser.errno = "OK", parser.state \notin SpanStates,
         ~told.bareCR,
         NEW p \in Parsers, NEW cb, NEW name, NEW next, NEW again, Notify(p, cb, next, again),
         <<told.last, cb, name>> \in Order, ~SkipsUrl(cb), cb # "body",
         cb \in {"chunk_header", "last_chunk"} =>
           parser.length = IF p.state \in BodyLeft THEN p.length ELSE 0,
         cb \notin {"chunk_header", "last_chunk"} => p.state \notin BodyLeft,
         \A s \in Spans : next.mark[s] = 0,
         p.state \notin SpanStates \ {"chunk_data"}, Fits(p, name)
  PROVE  ReportInv'
<1>1. PICK answer \in Errno :
        /\ parser' = [p EXCEPT !.errno = answer]
        /\ call' = IF answer = "OK" THEN next ELSE Returned(again)
        /\ told' = Tell(cb, 0)
  BY DEF Notify
<1>2. told \in Reports /\ told.due = 0 /\ told.owed = 0 /\ parser \in Parsers
  BY QuietNow, CallFacts DEF ReportInv
<1>3. /\ told' \in Reports /\ told'.last = name /\ told'.due = 0 /\ told'.bareCR = FALSE
      /\ cb \in {"chunk_header", "last_chunk"} => told'.owed = parser.length
      /\ cb \notin {"chunk_header", "last_chunk"} => told'.owed = 0
  BY <1>1, <1>2, TellIs
<1>4. /\ parser' \in Parsers /\ parser'.state = p.state /\ parser'.flags = p.flags
      /\ parser'.type = p.type /\ parser'.length = p.length
  BY <1>1, ErrnoSame
<1>5. \A s \in Spans : call'.mark[s] = 0
  BY <1>1, ReturnedIs
<1>6. p.state \notin Opens
  BY DEF Opens, SpanStates, UrlNames
<1>7. told'.owed = IF p.state \in BodyLeft THEN p.length ELSE 0
  BY <1>3
<1>8. MarkedOK(parser', call', told') /\ BytesOK(parser', call', told')
  BY <1>3, <1>4, <1>5, <1>6, <1>7, QuietBytes
<1>9. LastOK(parser', call', told')
  BY <1>3, <1>4 DEF LastOK, Fits, SpanStates
<1> QED
  BY <1>3, <1>8, <1>9 DEF ReportInv

(* The byte is looked at again. *)
LEMMA AgainQuiet ==
  ASSUME ParserInv, ReportInv, call.running, parser.state \notin SpanStates, NEW ch,
         NEW p \in Parsers, parser' = p, call' = SameByte(ch, call.mark),
         told' \in Reports, told'.last = told.last, told'.due = told.due,
         told'.owed = told.owed, ~told'.bareCR,
         p.state \notin Opens \cup BodyLeft, p.state # "body_identity_eof",
         Fits(p, told.last)
  PROVE  ReportInv'
<1>1. /\ told.due = 0 /\ told.owed = 0 /\ \A s \in Spans : call.mark[s] = 0
  BY CallFacts, QuietNow
<1>2. call'.mark = call.mark
  BY CallFacts DEF SameByte, Calls
<1>3. MarkedOK(p, call', told') /\ BytesOK(p, call', told')
  BY <1>1, <1>2, QuietBytes
<1>4. LastOK(p, call', told')
  BY DEF LastOK, BodyLeft, Opens
<1> QED
  BY <1>3, <1>4 DEF ReportInv

(* The error exit keeps ReportInv: from then on no byte is expected to be  *)
(* reported.                                                               *)
LEMMA Gone ==
  ASSUME ParserInv, ReportInv, HttpParserAssumption,
         parser' = [parser EXCEPT !.errno = "ERROR"],
         call' = Returned(None), told' = told,
         parser.state \notin BodyLeft \/ \A s \in Spans : call.mark[s] = 0
  PROVE  ReportInv'
<1>1. /\ parser' \in Parsers /\ parser'.state = parser.state /\ parser'.flags = parser.flags
      /\ parser'.type = parser.type /\ parser'.length = parser.length
      /\ parser'.errno = "ERROR"
  BY CallFacts, ErrnoSame DEF Errno
<1>2. ~call'.running /\ \A s \in Spans : call'.mark[s] = 0
  BY ReturnedIs
<1>3. "body" \in Spans
  BY SpansAre
<1>4. LastOK(parser', call', told')
  BY <1>1, <1>2, <1>3 DEF ReportInv, LastOK, Fits, BodyLeft
<1>5. MarkedOK(parser', call', told') /\ BytesOK(parser', call', told')
  BY <1>1, <1>2, <1>3 DEF ReportInv, MarkedOK, BytesOK
<1> QED
  BY <1>4, <1>5 DEF ReportInv

(* The same where no announced body is in progress. *)
LEMMA ErrorQuiet ==
  ASSUME ParserInv, ReportInv, HttpParserAssumption, Error, parser.state \notin BodyLeft
  PROVE  ReportInv'
BY Gone DEF Error

(* What a case may take for granted of the reports. *)
LEMMA Known ==
  ASSUME ParserInv, ReportInv
  PROVE  /\ Fits(parser, told.last) /\ told \in Reports /\ LastOK(parser, call, told)
         /\ told.bareCR => parser.state \in {"header_value", "header_almost_done",
                                             "header_value_lws"}
         /\ parser.type \in {"request", "response", "both"} /\ parser.flags \subseteq Flags
BY CallFacts DEF ReportInv, LastOK, BytesOK, Parsers

(* The byte that begins a message, or a line end before it, keeps          *)
(* ReportInv.                                                              *)
LEMMA PreStartReports ==
  ASSUME ParserInv, ReportInv, HttpParserAssumption, NEW ch \in Bytes, PreStart(ch)
  PROVE  ReportInv'
<1>1. /\ parser.state \in StartStates /\ call.running /\ call.left > 0 /\ parser.errno = "OK"
      /\ parser.state \notin SpanStates /\ parser \in Parsers
      /\ call.mark \in [Spans -> 0 .. MaxBuffer]
  BY CaseFacts DEF PreStart, StartStates, SpanStates, UrlNames
<1>2. told.last \in {None, "message_complete"} /\ ~told.bareCR /\ Fits(parser, told.last)
  BY <1>1, Known, HeardIs DEF Fits, StartStates
<1>3. CASE ch \in {"CR", "LF"}
  <2>1. Take(parser, call.mark, 0) /\ parser.state \notin Opens \cup BodyLeft
    BY <1>1, <1>3 DEF PreStart, Opens, BodyLeft, StartStates, UrlNames
  <2> QED
    BY <1>1, <1>2, <2>1, TakeQuiet DEF StartStates
<1>4. CASE ch \notin {"CR", "LF"}
  <2> DEFINE p == [parser EXCEPT !.state = AfterPreStart[parser.state]]
  <2>1. /\ AfterPreStart[parser.state] \in SimpleStates
        /\ AfterPreStart[parser.state] \in {"start_req_or_res", "start_res", "start_req"}
        /\ AfterPreStart[parser.state] = "start_res" => parser.state = "pre_start_res"
    BY <1>1 DEF AfterPreStart, SimpleStates, StartStates
  <2>2. ParserOK(p)
    BY <1>1, <2>1, ToSimple
  <2>3. /\ p \in Parsers /\ p.state \in {"start_req_or_res", "start_res", "start_req"}
        /\ p.state = "start_res" => parser.state = "pre_start_res"
        /\ p.type = parser.type /\ p.flags = parser.flags
    BY <1>1, <2>1, <2>2 DEF ParserOK, Parsers
  <2>4. Notify(p, "message_begin", SameByte(ch, call.mark), ch)
    BY <1>4 DEF PreStart
  <2> HIDE DEF p
  <2>5. <<told.last, "message_begin", "message_begin">> \in Order /\ ~SkipsUrl("message_begin")
    BY <1>2, InOrder DEF SkipsUrl, None
  <2>6. \A s \in Spans : SameByte(ch, call.mark).mark[s] = 0
    BY <1>1, QuietNow, CallFacts DEF SameByte, Calls
  <2>7. Fits(p, "message_begin")
    BY <1>2, <2>3, HeardIs DEF Fits, TrailerStates, ResponseStates, BegunStates, StatusLine
  <2>8. p.state \notin SpanStates \cup BodyLeft
    BY <2>3 DEF SpanStates, UrlNames, BodyLeft
  <2> QED
    BY <1>1, <1>2, <2>3, <2>4, <2>5, <2>6, <2>7, <2>8, NotifyQuiet
<1> QED
  BY <1>3, <1>4

(* The first byte of a message of either type keeps ReportInv. *)
LEMMA StartReqOrResReports ==
  ASSUME ParserInv, ReportInv, HttpParserAssumption, NEW ch \in Bytes, StartReqOrRes(ch)
  PROVE  ReportInv'
<1>1. /\ parser.state = "start_req_or_res" /\ call.running /\ call.left > 0
      /\ parser.errno = "OK" /\ parser.state \notin SpanStates /\ parser \in Parsers
  BY CaseFacts DEF StartReqOrRes, SpanStates, UrlNames
<1>h. \A f : \A s \in {"start_req_or_res", "res_or_resp_H", "start_req"} :
        Heard(s, f) = {"message_begin"}
  BY HeardIs DEF BegunStates
<1>2. told.last = "message_begin" /\ ~told.bareCR /\ told \in Reports
  BY <1>1, <1>h, Known DEF Fits
<1> DEFINE p == [parser EXCEPT !.flags = {}, !.length = -1]
           q == [p EXCEPT !.state = "res_or_resp_H"]
           r == [p EXCEPT !.type = "request", !.state = "start_req"]
<1>3. -1 \in -1 .. LengthMax /\ {"res_or_resp_H", "start_req"} \subseteq States
  BY NamedStates DEF HttpParserAssumption, SimpleStates
<1>4. /\ q \in Parsers /\ q.state = "res_or_resp_H" /\ q.flags = {}
      /\ r \in Parsers /\ r.state = "start_req" /\ r.flags = {} /\ r.type = "request"
  BY <1>1, <1>3 DEF Parsers
<1>5. Take(q, call.mark, 0) \/ Reexecute(r, ch)
  BY DEF StartReqOrRes
<1> HIDE DEF p, q, r
<1>6. Fits(q, "message_begin") /\ Fits(r, "message_begin")
  BY <1>4, <1>h DEF Fits, TrailerStates, ResponseStates, StatusLine
<1>7. \A x \in {q, r} : x.state \notin Opens \cup BodyLeft /\ x.state # "body_identity_eof"
  BY <1>4 DEF Opens, BodyLeft, UrlNames
<1>8. CASE Take(q, call.mark, 0)
  BY <1>1, <1>2, <1>4, <1>6, <1>7, <1>8, TakeQuiet
<1>9. CASE Reexecute(r, ch)
  BY <1>1, <1>2, <1>4, <1>6, <1>7, <1>9, AgainQuiet DEF Reexecute
<1> QED
  BY <1>5, <1>8, <1>9

(* The states of BegunStates belong to no range, and to no header. *)
LEMMA BegunApart ==
  \A s \in BegunStates : /\ s \notin SpanStates \cup Opens \cup BodyLeft
                         /\ s \notin {"body_identity_eof", "header_value", "header_almost_done",
                                      "header_value_lws", "header_field_start", "header_field",
                                      "headers_almost_done"}
                         /\ \A f : Heard(s, f) = {"message_begin"}
BY HeardIs, ZenonT(30) DEF BegunStates, SpanStates, Opens, BodyLeft, UrlNames, StatusLine

(* Moving on in a start line keeps ReportInv. *)
LEMMA TakeBegun ==
  ASSUME ParserInv, ReportInv, call.running, parser.state \in BegunStates, NEW q \in Parsers,
         Take(q, call.mark, 0), q.state \in BegunStates, "TRAILING" \notin q.flags,
         q.state \in ResponseStates => q.type # "request"
  PROVE  ReportInv'
<1>1. /\ parser.state \notin SpanStates /\ Heard(parser.state, parser.flags) = {"message_begin"}
      /\ parser.state \notin {"header_value", "header_almost_done", "header_value_lws"}
  BY BegunApart
<1>2. told.last = "message_begin" /\ ~told.bareCR
  BY <1>1, Known DEF Fits
<1>3. /\ q.state \notin Opens \cup BodyLeft /\ q.state # "body_identity_eof"
      /\ Heard(q.state, q.flags) = {"message_begin"}
      /\ q.state \notin {"header_field_start", "header_field", "headers_almost_done"}
  BY BegunApart
<1>4. Fits(q, told.last)
  BY <1>2, <1>3 DEF Fits
<1> QED
  BY <1>1, <1>2, <1>3, <1>4, TakeQuiet

(* Outside TrailerStates F_TRAILING is not set. *)
LEMMA NotTrailing ==
  ASSUME ParserInv, ReportInv, parser.state \notin TrailerStates
  PROVE  "TRAILING" \notin parser.flags
BY Known DEF Fits

(* The first byte of a message has cleared F_TRAILING. *)
LEMMA BegunNotTrailing ==
  ASSUME ParserInv, ReportInv,
         parser.state \in BegunStates \ {"start_req_or_res", "start_res", "start_req"}
  PROVE  "TRAILING" \notin parser.flags
<1>1. parser.state \notin TrailerStates
  BY DEF BegunStates, TrailerStates, StatusLine, StartStates, HeaderNames
<1> QED
  BY <1>1, NotTrailing

(* The byte that tells HTTP/ from HEAD keeps ReportInv. *)
LEMMA ResOrRespHReports ==
  ASSUME ParserInv, ReportInv, HttpParserAssumption, NEW ch \in Bytes, ResOrRespH(ch)
  PROVE  ReportInv'
<1>1. /\ call.running /\ call.left > 0 /\ parser.errno = "OK" /\ parser \in Parsers
      /\ parser.state = "res_or_resp_H"
  BY CaseFacts DEF ResOrRespH
<1>2. /\ {"res_or_resp_H", "res_HT", "req_method"} \subseteq BegunStates
      /\ "TRAILING" \notin parser.flags
  BY <1>1, BegunNotTrailing DEF BegunStates, StatusLine
<1> DEFINE p == [parser EXCEPT !.type = "response", !.state = "res_HT"]
           q == [parser EXCEPT !.type = "request", !.connect = FALSE, !.state = "req_method"]
<1>3. {"res_HT", "req_method"} \subseteq States
  BY NamedStates DEF SimpleStates, StatusLine
<1>4. /\ p \in Parsers /\ p.state = "res_HT" /\ p.type = "response" /\ p.flags = parser.flags
      /\ q \in Parsers /\ q.state = "req_method" /\ q.flags = parser.flags
  BY <1>1, <1>3 DEF Parsers
<1>5. Take(p, call.mark, 0) \/ Take(q, call.mark, 0) \/ Error
  BY DEF ResOrRespH
<1> HIDE DEF p, q
<1>6. "req_method" \notin ResponseStates /\ parser.state \notin BodyLeft
  BY <1>1 DEF ResponseStates, StatusLine, BodyLeft
<1> QED
  BY <1>1, <1>2, <1>4, <1>5, <1>6, TakeBegun, ErrorQuiet

(* The first byte of a response keeps ReportInv. *)
LEMMA StartResReports ==
  ASSUME ParserInv, ReportInv, HttpParserAssumption, NEW ch \in Bytes, StartRes(ch)
  PROVE  ReportInv'
<1>1. /\ call.running /\ call.left > 0 /\ parser.errno = "OK" /\ parser \in Parsers
      /\ parser.state = "start_res"
  BY CaseFacts DEF StartRes
<1> DEFINE p == [parser EXCEPT !.flags = {}, !.length = -1, !.state = "res_H"]
<1>2. /\ {"start_res", "res_H"} \subseteq BegunStates /\ -1 \in -1 .. LengthMax
      /\ "res_H" \in States
  BY NamedStates DEF BegunStates, StatusLine, HttpParserAssumption, SimpleStates
<1>3. p \in Parsers /\ p.state = "res_H" /\ p.flags = {} /\ p.type = parser.type
  BY <1>1, <1>2 DEF Parsers
<1>4. Take(p, call.mark, 0) \/ Error
  BY DEF StartRes
<1> HIDE DEF p
<1>5. p.type # "request" /\ parser.state \notin BodyLeft
  BY <1>1, <1>3, Known DEF Fits, ResponseStates, BodyLeft
<1> QED
  BY <1>1, <1>2, <1>3, <1>4, <1>5, TakeBegun, ErrorQuiet

(* The first byte of a request keeps ReportInv. *)
LEMMA StartReqReports ==
  ASSUME ParserInv, ReportInv, HttpParserAssumption, NEW ch \in Bytes, StartReq(ch)
  PROVE  ReportInv'
<1>1. /\ call.running /\ call.left > 0 /\ parser.errno = "OK" /\ parser \in Parsers
      /\ parser.state = "start_req"
  BY CaseFacts DEF StartReq
<1> DEFINE p == [parser EXCEPT !.flags = {}, !.length = -1, !.connect = ch = "C",
                               !.state = "req_method"]
<1>2. /\ {"start_req", "req_method"} \subseteq BegunStates /\ -1 \in -1 .. LengthMax
      /\ "req_method" \in States /\ (ch = "C") \in BOOLEAN
  BY NamedStates DEF BegunStates, HttpParserAssumption, SimpleStates
<1>3. p \in Parsers /\ p.state = "req_method" /\ p.flags = {}
  BY <1>1, <1>2 DEF Parsers
<1>4. Take(p, call.mark, 0) \/ Error
  BY DEF StartReq
<1> HIDE DEF p
<1>5. "req_method" \notin ResponseStates /\ parser.state \notin BodyLeft
  BY <1>1 DEF ResponseStates, StatusLine, BodyLeft
<1> QED
  BY <1>1, <1>2, <1>3, <1>4, <1>5, TakeBegun, ErrorQuiet

(* A byte of the method keeps ReportInv. *)
LEMMA ReqMethodReports ==
  ASSUME ParserInv, ReportInv, HttpParserAssumption, NEW ch \in Bytes, ReqMethod(ch)
  PROVE  ReportInv'
<1>1. /\ call.running /\ call.left > 0 /\ parser.errno = "OK" /\ parser \in Parsers
      /\ parser.state = "req_method"
  BY CaseFacts DEF ReqMethod
<1>2. /\ {"req_method", "req_spaces_before_url"} \subseteq BegunStates
      /\ "req_spaces_before_url" \in States /\ "TRAILING" \notin parser.flags
  BY <1>1, NamedStates, BegunNotTrailing DEF BegunStates, SimpleStates
<1>3. {"req_method", "req_spaces_before_url"} \cap ResponseStates = {}
  BY DEF ResponseStates, StatusLine
<1>4. ASSUME NEW connect \in {parser.connect, FALSE},
             Take([parser EXCEPT !.connect = connect], call.mark, 0)
      PROVE  ReportInv'
  <2> DEFINE p == [parser EXCEPT !.connect = connect]
  <2>1. p \in Parsers /\ p.state = "req_method" /\ p.flags = parser.flags
    BY <1>1 DEF Parsers
  <2>2. Take(p, call.mark, 0)
    BY <1>4
  <2> HIDE DEF p
  <2> QED
    BY <1>1, <1>2, <1>3, <2>1, <2>2, TakeBegun
<1>5. CASE Take([parser EXCEPT !.state = "req_spaces_before_url"], call.mark, 0)
  <2> DEFINE p == [parser EXCEPT !.state = "req_spaces_before_url"]
  <2>1. p \in Parsers /\ p.state = "req_spaces_before_url" /\ p.flags = parser.flags
    BY <1>1, <1>2 DEF Parsers
  <2>2. Take(p, call.mark, 0)
    BY <1>5
  <2> HIDE DEF p
  <2> QED
    BY <1>1, <1>2, <1>3, <2>1, <2>2, TakeBegun
<1>6. parser.state \notin BodyLeft
  BY <1>1 DEF BodyLeft
<1> QED
  BY <1>4, <1>5, <1>6, ErrorQuiet DEF ReqMethod

(* A range that goes on: due is what its mark spans. *)
LEMMA SpanBytes ==
  ASSUME NEW s \in Spans \ {"body"}, NEW p \in Parsers, p.state \in MarkStates[s], NEW c,
         c.left \in Int, c.mark[s] \in Int,
         \A o \in Spans : o # s => c.mark[o] = 0, NEW t \in Reports, t.owed = 0,
         IF t.bareCR THEN t.due = 0 /\ p.state = "header_value"
         ELSE t.due = IF c.mark[s] = 0 THEN 0 ELSE c.mark[s] - c.left,
         c.running /\ p.state \in Opens => c.mark[s] # 0 \/ t.bareCR
  PROVE  MarkedOK(p, c, t) /\ BytesOK(p, c, t)
<1>1. /\ p.state \in UrlNames => s = "url"
      /\ p.state = "header_field" => s = "header_field"
      /\ p.state = "header_value" => s = "header_value"
      /\ p.state \notin BodyLeft
  BY SpansAre, UrlStatesAre DEF MarkStates, UrlNames, BodyLeft
<1>2. MarkedOK(p, c, t)
  <2>1. ASSUME p.state = "header_value" PROVE p.state \notin UrlNames \cup {"header_field"}
    BY <2>1 DEF UrlNames
  <2> QED
    BY <1>1, <2>1 DEF MarkedOK, Opens
<1>3. BytesOK(p, c, t)
  BY <1>1 DEF BytesOK
<1> QED
  BY <1>2, <1>3

(* In a range, the bytes due are those its mark spans. *)
LEMMA SpanNow ==
  ASSUME ParserInv, ReportInv, call.running, NEW s \in Spans \ {"body"},
         parser.state \in MarkStates[s]
  PROVE  /\ \A o \in Spans : o # s => call.mark[o] = 0
         /\ told.owed = 0 /\ told \in Reports /\ call.mark[s] \in 0 .. MaxBuffer
         /\ ~told.bareCR => told.due = IF call.mark[s] = 0 THEN 0 ELSE call.mark[s] - call.left
         /\ told.bareCR => told.due = 0
<1>1. \A o \in Spans : o # s => call.mark[o] = 0
  BY OnlyMark
<1>2. parser.state \notin BodyLeft
  BY SpansAre, UrlStatesAre DEF MarkStates, UrlNames, BodyLeft
<1>3. parser.errno # "ERROR" /\ call.mark \in [Spans -> 0 .. MaxBuffer]
  BY CallFacts
<1> QED
  BY <1>1, <1>2, <1>3 DEF ReportInv, BytesOK

(* Outside the ranges, a mark set now is the only one. *)
LEMMA MarkFirst ==
  ASSUME ParserInv, ReportInv, parser.errno # "ERROR", parser.state \notin SpanStates,
         NEW s \in Spans
  PROVE  /\ Mark(s) \in [Spans -> 0 .. MaxBuffer]
         /\ Mark(s)[s] = call.left /\ \A o \in Spans : o # s => Mark(s)[o] = 0
<1>1. \A o \in Spans : call.mark[o] = 0
  BY QuietNow
<1> QED
  BY <1>1, CallFacts DEF Mark, Calls

(* The first byte of the URL, which sets its mark, keeps ReportInv. *)
LEMMA ReqSpacesBeforeUrlReports ==
  ASSUME ParserInv, ReportInv, HttpParserAssumption, NEW ch \in Bytes, ReqSpacesBeforeUrl(ch)
  PROVE  ReportInv'
<1>1. /\ call.running /\ call.left > 0 /\ parser.errno = "OK" /\ parser \in Parsers
      /\ parser.state = "req_spaces_before_url" /\ parser.state \notin SpanStates
      /\ parser.state \notin BodyLeft
  BY CaseFacts DEF ReqSpacesBeforeUrl, SpanStates, UrlNames, BodyLeft
<1>2. parser.state \in BegunStates /\ parser.state \notin ResponseStates
      /\ "TRAILING" \notin parser.flags
  BY <1>1, BegunNotTrailing DEF BegunStates, ResponseStates, StatusLine
<1>3. told.last = "message_begin" /\ ~told.bareCR /\ told \in Reports
  BY <1>1, <1>2, BegunApart, Known DEF Fits
<1>4. /\ "url" \in Spans \ {"body"} /\ Mark("url") \in [Spans -> 0 .. MaxBuffer]
      /\ Mark("url")["url"] = call.left
      /\ \A o \in Spans : o # "url" => Mark("url")[o] = 0
  BY <1>1, SpansAre, MarkFirst
<1>5. told.due = 0 /\ told.owed = 0
  BY <1>1, QuietNow
<1> DEFINE To(s) == [parser EXCEPT !.state = s]
<1>6. ASSUME NEW s \in {"req_host_start", "req_path", "req_schema"}
      PROVE  /\ To(s) \in Parsers /\ To(s).state = s /\ To(s).state \in MarkStates["url"]
             /\ s \in UrlNames /\ Fits(To(s), "message_begin")
  <2>1. s \in UrlNames /\ s \in MarkStates["url"] /\ s \in States
    BY UrlStatesAre, NamedStates DEF MarkStates, UrlNames, SimpleStates
  <2>2. To(s) \in Parsers /\ To(s).state = s /\ To(s).flags = parser.flags
    BY <1>1, <2>1 DEF Parsers
  <2>3. s \notin ResponseStates
        /\ s \notin {"header_field_start", "header_field", "headers_almost_done"}
    BY DEF ResponseStates, StatusLine
  <2> HIDE DEF To
  <2>4. "message_begin" \in Heard(s, parser.flags)
    <3>1. Heard(s, parser.flags) = {"message_begin", "url"}
      BY <2>1, HeardIs
    <3> QED
      BY <3>1
  <2>5. "message_begin" \in Heard(To(s).state, To(s).flags)
    BY <2>2, <2>4
  <2>6. Fits(To(s), "message_begin")
    BY <1>2, <2>2, <2>3, <2>5 DEF Fits
  <2> QED
    BY <2>1, <2>2, <2>6
<1>7. ASSUME NEW s \in {"req_host_start", "req_path", "req_schema"}, parser' = To(s),
             call'.mark = Mark("url"), told' \in Reports, told'.last = told.last,
             told'.owed = 0, ~told'.bareCR, call'.left \in Int,
             told'.due = call.left - call'.left
      PROVE  ReportInv'
  <2> HIDE DEF To
  <2>1. MarkedOK(parser', call', told') /\ BytesOK(parser', call', told')
    BY <1>1, <1>4, <1>6, <1>7, SpanBytes
  <2>2. LastOK(parser', call', told')
    BY <1>3, <1>6, <1>7 DEF LastOK
  <2> QED
    BY <1>7, <2>1, <2>2 DEF ReportInv
<1>8. CASE Take(parser, call.mark, 0)
  BY <1>1, <1>2, <1>8, TakeBegun
<1>9. CASE /\ parser' = To("req_host_start")
           /\ call' = SameByte(ch, Mark("url")) /\ UNCHANGED told
  <2>1. call'.mark = Mark("url") /\ call'.left = call.left /\ call.left \in Int
    BY <1>9, CallFacts DEF SameByte, Calls
  <2> HIDE DEF To
  <2> QED
    BY <1>3, <1>5, <1>7, <1>9, <2>1
<1>10. ASSUME NEW s \in {"req_path", "req_schema"}, Take(To(s), Mark("url"), 1) PROVE ReportInv'
  <2>1. call.left \in Int /\ 1 \in Int
    BY CallFacts DEF Calls
  <2> HIDE DEF To
  <2>2. /\ told' \in Reports /\ told'.last = told.last /\ told'.owed = 0
        /\ told'.bareCR = told.bareCR /\ told'.due = 1
        /\ parser' = To(s) /\ call'.mark = Mark("url") /\ call'.left = call.left - 1
    BY <1>3, <1>5, <1>10, <2>1, TakeTold
  <2> QED
    BY <1>3, <1>7, <2>1, <2>2
<1> QED
  BY <1>1, <1>8, <1>9, <1>10, ErrorQuiet DEF ReqSpacesBeforeUrl

(* The LF of a status line leads to the headers. *)
LEMMA LineEnds ==
  \A e \in PlainEdges : e[1] = "res_line_almost_done" => e[3] = "header_field_start"
<1>1. \A e \in StatusLineEdges : e[1] = "res_line_almost_done" => e[3] = "header_field_start"
  BY DEF StatusLineEdges
<1>2. \A e \in RequestLineEdges : e[1] # "res_line_almost_done"
  BY DEF RequestLineEdges
<1>3. \A e \in ChunkLineEdges : e[1] # "res_line_almost_done"
  <2> SUFFICES ASSUME NEW e \in ChunkLineEdges PROVE e[1] # "res_line_almost_done"
    OBVIOUS
  <2>1. PICK bytes, to : e = <<"chunk_size", bytes, to>> \/ e = <<"chunk_parameters", bytes, to>>
    BY Zenon DEF ChunkLineEdges
  <2> QED
    BY <2>1
<1> QED
  BY <1>1, <1>2, <1>3 DEF PlainEdges

(* MARK sets a mark only if it is null. *)
LEMMA MarkIs ==
  ASSUME ParserInv, NEW s \in Spans
  PROVE  /\ Mark(s)[s] = IF call.mark[s] = 0 THEN call.left ELSE call.mark[s]
         /\ \A o \in Spans : o # s => Mark(s)[o] = call.mark[o]
BY CallFacts DEF Mark

(* Reporting all a mark spans keeps ReportInv when the callback comes in   *)
(* order and fits the next state.                                          *)
LEMMA DataEnds ==
  ASSUME ParserInv, ReportInv, NEW p \in Parsers, NEW s \in Spans \ {"body"}, NEW name,
         NEW at \in Int, NEW end \in Int, NEW next, NEW again,
         Data(p, s, at, end, next, again), told.owed = 0,
         at = 0 => told.due = 0 /\ Fits(p, told.last),
         at # 0 => /\ ~told.bareCR => told.due = at - end
                   /\ <<told.last, s, name>> \in Order /\ ~SkipsUrl(s)
                   /\ Fits(p, name),
         \A o \in Spans : next.mark[o] = 0,
         p.state \notin BodyLeft \cup {"body_identity_eof"},
         next.running => p.state \notin Opens,
         told.bareCR => p.state \in {"header_value", "header_almost_done", "header_value_lws"},
         p.state = "header_value" => at # 0 /\ name \in {"header_value", "trailer_value"}
  PROVE  ReportInv'
<1>1. told \in Reports /\ parser \in Parsers
  BY CallFacts DEF ReportInv
<1>2. CASE at = 0
  <2>1. parser' = p /\ call' = next /\ told' = told
    BY <1>2 DEF Data
  <2>2. MarkedOK(p, next, told) /\ BytesOK(p, next, told)
    BY <1>1, <1>2, QuietBytes
  <2>3. LastOK(p, next, told)
    BY <1>2 DEF LastOK, BodyLeft
  <2> QED
    BY <1>1, <2>1, <2>2, <2>3 DEF ReportInv
<1>3. CASE at # 0
  <2>1. PICK answer \in Errno :
          /\ parser' = [p EXCEPT !.errno = answer]
          /\ call' = IF answer = "OK" THEN next ELSE Returned(again)
          /\ told' = Tell(s, at - end)
    BY <1>3 DEF Data
  <2>2. s \notin {"chunk_header", "last_chunk", "body"} /\ at - end \in Int
    BY SpansAre
  <2>3. /\ told' \in Reports /\ told'.last = name /\ told'.bareCR = told.bareCR
        /\ told'.due = IF told.bareCR THEN 0 ELSE told.due - (at - end)
        /\ told'.owed = 0
    BY <1>1, <1>3, <2>1, <2>2, TellIs
  <2>4. told'.due = 0
    BY <1>3, <2>3
  <2>5. /\ parser' \in Parsers /\ parser'.state = p.state /\ parser'.flags = p.flags
        /\ parser'.type = p.type /\ parser'.length = p.length
    BY <2>1, ErrnoSame
  <2>6. /\ \A o \in Spans : call'.mark[o] = 0
        /\ call'.running => p.state \notin Opens
    BY <2>1, ReturnedIs
  <2>7. MarkedOK(parser', call', told') /\ BytesOK(parser', call', told')
    BY <2>3, <2>4, <2>5, <2>6, QuietBytes
  <2>8. LastOK(parser', call', told')
    BY <1>3, <2>3, <2>5 DEF LastOK, Fits, BodyLeft
  <2> QED
    BY <2>3, <2>7, <2>8 DEF ReportInv
<1> QED
  BY <1>2, <1>3

(* Clearing the mark of the range in progress leaves none. *)
LEMMA UnmarkAll ==
  ASSUME ParserInv, HttpParserAssumption, call.running, call.left > 0, NEW s \in Spans,
         parser.state \in MarkStates[s] \/ parser.state \notin SpanStates, NEW ch
  PROVE  /\ \A o \in Spans : NextByte(Unmark(s)).mark[o] = 0
         /\ \A o \in Spans : SameByte(ch, Unmark(s)).mark[o] = 0
<1>1. \A o \in Spans : Unmark(s)[o] = 0
  BY MarkOne
<1>2. NextByte(Unmark(s)).mark = Unmark(s) /\ SameByte(ch, Unmark(s)).mark = Unmark(s)
  BY CallFacts DEF NextByte, SameByte, Calls
<1> QED
  BY <1>1, <1>2

(* A byte of the URL, or the one that ends it, keeps ReportInv. *)
LEMMA UrlReports ==
  ASSUME ParserInv, ReportInv, HttpParserAssumption, NEW ch \in Bytes, Url(ch)
  PROVE  ReportInv'
<1>1. /\ parser.state \in UrlNames /\ call.running /\ call.left > 0 /\ parser.errno = "OK"
      /\ parser \in Parsers /\ call.left \in Int
  BY CaseFacts, UrlStatesAre DEF Url, Calls
<1>2. "url" \in Spans \ {"body"} /\ MarkStates["url"] = UrlNames
  BY SpansAre, UrlStatesAre DEF MarkStates
<1>3. /\ parser.state \notin TrailerStates \cup BodyLeft
      /\ parser.state \notin {"header_value", "header_almost_done", "header_value_lws"}
  BY <1>1 DEF UrlNames, TrailerStates, StartStates, HeaderNames, BodyLeft
<1>4. /\ told.last \in {"message_begin", "url"} /\ ~told.bareCR
      /\ "TRAILING" \notin parser.flags /\ told \in Reports
  BY <1>1, <1>3, HeardIs, Known, NotTrailing DEF Fits
<1>5. /\ \A o \in Spans : o # "url" => call.mark[o] = 0
      /\ told.owed = 0 /\ told.due = call.mark["url"] - call.left
      /\ call.mark["url"] \in Int /\ call.mark["url"] # 0
  BY <1>1, <1>2, <1>4, SpanNow DEF ReportInv, MarkedOK
<1>6. ASSUME NEW e \in UrlEdges,
             LET p == [parser EXCEPT !.state = e[3]] IN
             IF e[3] \in UrlStates
               THEN Take(p, call.mark, 1)
               ELSE Data(p, "url", call.mark["url"], call.left, NextByte(Unmark("url")), None)
      PROVE  ReportInv'
  <2> DEFINE p == [parser EXCEPT !.state = e[3]]
  <2>1. e[3] \in UrlNames \cup {"req_http_start", "req_line_almost_done", "header_field_start"}
    BY UrlEdgesLead, UrlStatesAre
  <2>2. e[3] \in States
    BY <2>1, NamedStates DEF SimpleStates, RequestLine
  <2>3. p \in Parsers /\ p.state = e[3] /\ p.flags = parser.flags
    BY <1>1, <2>2 DEF Parsers
  <2>4. CASE e[3] \in UrlNames
    <3>1. Take(p, call.mark, 1) /\ 1 \in Int
      BY <1>6, <2>4, UrlStatesAre
    <3> HIDE DEF p
    <3>2. /\ told' \in Reports /\ told'.last = told.last /\ told'.owed = 0 /\ ~told'.bareCR
          /\ told'.due = told.due + 1 /\ parser' = p /\ call'.mark = call.mark
          /\ call'.left = call.left - 1
      BY <1>4, <1>5, <3>1, TakeTold
    <3>3. MarkedOK(p, call', told') /\ BytesOK(p, call', told')
      BY <1>1, <1>2, <1>5, <2>3, <2>4, <3>2, SpanBytes
    <3>4. /\ e[3] \notin {"header_field_start", "header_field", "headers_almost_done",
                          "body_identity_eof", "chunk_data_almost_done", "header_value"}
          /\ e[3] \notin ResponseStates
      BY <2>4 DEF UrlNames, ResponseStates, StatusLine
    <3>5. told.last \in Heard(e[3], parser.flags)
      <4>1. Heard(e[3], parser.flags) = {"message_begin", "url"}
        BY <2>4, HeardIs
      <4> QED
        BY <1>4, <4>1
    <3>6. LastOK(p, call', told')
      BY <1>4, <2>3, <3>2, <3>4, <3>5 DEF LastOK, Fits
    <3> QED
      BY <3>2, <3>3, <3>6 DEF ReportInv
  <2>5. CASE e[3] \notin UrlNames
    <3>1. Data(p, "url", call.mark["url"], call.left, NextByte(Unmark("url")), None)
      BY <1>6, <2>5, UrlStatesAre
    <3> HIDE DEF p
    <3>2. \A o \in Spans : NextByte(Unmark("url")).mark[o] = 0
      BY <1>1, <1>2, UnmarkAll
    <3>3. e[3] \in {"req_http_start", "req_line_almost_done", "header_field_start"}
      BY <2>1, <2>5
    <3>4. Fits(p, "url")
      <4>1. e[3] \notin ResponseStates
        BY <3>3 DEF ResponseStates, StatusLine
      <4>2. "url" \in Heard(e[3], parser.flags)
        <5>1. CASE e[3] = "header_field_start"
          BY <1>4, <5>1, HeardOfHeaders
        <5>2. CASE e[3] \in RequestLine
          BY <5>2, HeardIs
        <5> QED
          BY <3>3, <5>1, <5>2 DEF RequestLine
      <4> QED
        BY <1>4, <2>3, <4>1, <4>2 DEF Fits
    <3>5. <<told.last, "url", "url">> \in Order /\ ~SkipsUrl("url")
      BY <1>4, InOrder DEF SkipsUrl
    <3>6. p.state \notin BodyLeft \cup {"body_identity_eof", "header_value"} \cup Opens
      BY <2>3, <3>3 DEF BodyLeft, Opens, UrlNames
    <3> QED
      BY <1>1, <1>2, <1>4, <1>5, <2>3, <3>1, <3>2, <3>4, <3>5, <3>6, DataEnds
  <2> QED
    BY <2>4, <2>5
<1> QED
  BY <1>3, <1>6, ErrorQuiet DEF Url

(* A byte of a line that only moves on keeps ReportInv. *)
LEMMA PlainReports ==
  ASSUME ParserInv, ReportInv, HttpParserAssumption, NEW ch \in Bytes, Plain(ch)
  PROVE  ReportInv'
<1>1. /\ parser.state \in PlainStates /\ call.running /\ call.left > 0 /\ parser.errno = "OK"
      /\ parser \in Parsers
  BY CaseFacts DEF Plain
<1>2. /\ parser.state \notin SpanStates \cup BodyLeft \cup TrailerStates
      /\ parser.state \notin {"header_value", "header_almost_done", "header_value_lws"}
  BY <1>1, PlainStatesAre DEF SpanStates, UrlNames, StatusLine, RequestLine, ChunkLine,
     BodyLeft, TrailerStates, StartStates, HeaderNames
<1>3. CASE Error
  BY <1>2, <1>3, ErrorQuiet
<1>4. "TRAILING" \notin parser.flags /\ ~told.bareCR /\ Fits(parser, told.last)
  BY <1>2, Known, NotTrailing
<1>5. ASSUME NEW e \in PlainEdges, e[1] = parser.state, NEW bodiless \in BOOLEAN,
             Take([parser EXCEPT !.state = e[3], !.bodiless = bodiless], call.mark, 0)
      PROVE  ReportInv'
  <2> DEFINE p == [parser EXCEPT !.state = e[3], !.bodiless = bodiless]
  <2>1. \/ parser.state \in StatusLine /\ e[3] \in StatusLine \cup {"res_status", "header_field_start"}
        \/ parser.state \in RequestLine /\ e[3] \in RequestLine \cup {"header_field_start"}
        \/ parser.state \in ChunkLine /\ e[3] \in {"chunk_parameters", "chunk_size_almost_done"}
    BY <1>5, PlainEdgesLead
  <2>2. e[3] \in States
    BY <2>1, NamedStates DEF SimpleStates, ChunkStates
  <2>3. /\ p \in Parsers /\ p.state = e[3] /\ p.flags = parser.flags /\ p.type = parser.type
    BY <1>1, <2>2 DEF Parsers
  <2>4. Take(p, call.mark, 0)
    BY <1>5
  <2> HIDE DEF p
  <2>5. p.state \notin Opens \cup BodyLeft \cup {"body_identity_eof"}
    BY <2>1, <2>3 DEF Opens, UrlNames, BodyLeft, StatusLine, RequestLine
  <2>6. Fits(p, told.last)
    <3>1. CASE parser.state \in StatusLine
      <4>1. e[3] \in StatusLine \cup {"res_status", "header_field_start"}
        BY <2>1, <3>1 DEF StatusLine, RequestLine, ChunkLine
      <4>2. parser.type # "request"
        BY <1>4, <3>1 DEF Fits, ResponseStates
      <4>3. /\ told.last \in {"message_begin", "reason"}
            /\ parser.state # "res_line_almost_done" => told.last = "message_begin"
        <5>1. CASE parser.state = "res_line_almost_done"
          BY <1>4, <5>1, HeardIs DEF Fits
        <5>2. CASE parser.state # "res_line_almost_done"
          <6>1. parser.state \in BegunStates
            BY <3>1, <5>2 DEF BegunStates
          <6>2. Heard(parser.state, parser.flags) = {"message_begin"}
            BY <6>1, HeardIs
          <6> QED
            BY <1>4, <6>2 DEF Fits
        <5> QED
          BY <5>1, <5>2
      <4>4. parser.state = "res_line_almost_done" => e[3] = "header_field_start"
        BY <1>5, LineEnds
      <4>5. told.last \in Heard(e[3], parser.flags)
        <5>1. CASE e[3] = "header_field_start"
          BY <1>4, <4>3, <5>1, HeardOfHeaders
        <5>2. CASE e[3] \in {"res_status", "res_line_almost_done"}
          BY <4>3, <5>2, HeardIs
        <5>3. CASE e[3] \in StatusLine \ {"res_line_almost_done"}
          <6>1. e[3] \in BegunStates /\ e[3] # "header_field_start"
            BY <5>3 DEF BegunStates, StatusLine
          <6>2. told.last = "message_begin"
            BY <4>3, <4>4, <6>1
          <6> QED
            BY <6>1, <6>2, BegunApart
        <5> QED
          BY <4>1, <5>1, <5>2, <5>3
      <4> QED
        BY <1>4, <2>3, <4>2, <4>5 DEF Fits
    <3>2. CASE parser.state \in RequestLine
      <4>1. e[3] \in RequestLine \cup {"header_field_start"}
        BY <2>1, <3>2 DEF StatusLine, RequestLine, ChunkLine
      <4>2. told.last = "url"
        BY <1>4, <3>2, HeardIs DEF Fits
      <4>3. e[3] \notin ResponseStates
        BY <4>1 DEF RequestLine, ResponseStates, StatusLine
      <4>4. "url" \in Heard(e[3], parser.flags)
        <5>1. CASE e[3] = "header_field_start"
          BY <1>4, <5>1, HeardOfHeaders
        <5>2. CASE e[3] \in RequestLine
          BY <5>2, HeardIs
        <5> QED
          BY <4>1, <5>1, <5>2
      <4> QED
        BY <1>4, <2>3, <4>2, <4>3, <4>4 DEF Fits
    <3>3. CASE parser.state \in ChunkLine
      <4>1. e[3] \in {"chunk_parameters", "chunk_size_almost_done"}
        BY <2>1, <3>3 DEF StatusLine, RequestLine, ChunkLine
      <4>2. told.last \in {"headers_complete", "chunk_complete"}
        BY <1>4, <3>3, HeardIs DEF Fits, ChunkLine
      <4>3. e[3] \notin ResponseStates
        BY <4>1 DEF ResponseStates, StatusLine
      <4>4. told.last \in Heard(e[3], parser.flags)
        BY <4>1, <4>2, HeardIs
      <4> QED
        BY <1>4, <2>3, <4>1, <4>3, <4>4 DEF Fits
    <3> QED
      BY <2>1, <3>1, <3>2, <3>3
  <2> QED
    BY <1>1, <1>2, <1>4, <2>3, <2>4, <2>5, <2>6, TakeQuiet
<1>6. parser.bodiless \in BOOLEAN
  BY <1>1 DEF Parsers
<1> QED
  BY <1>3, <1>5, <1>6 DEF Plain

(* A byte of the reason, or the one that ends it, keeps ReportInv. *)
LEMMA ResStatusReports ==
  ASSUME ParserInv, ReportInv, HttpParserAssumption, NEW ch \in Bytes, ResStatus(ch)
  PROVE  ReportInv'
<1>1. /\ parser.state = "res_status" /\ call.running /\ call.left > 0 /\ parser.errno = "OK"
      /\ parser \in Parsers /\ call.left \in Int
  BY CaseFacts DEF ResStatus, Calls
<1>2. "reason" \in Spans \ {"body"} /\ MarkStates["reason"] = {"res_status"}
  BY SpansAre DEF MarkStates
<1>3. /\ parser.state \notin TrailerStates \cup BodyLeft \cup Opens
      /\ parser.state \in ResponseStates
  BY <1>1 DEF TrailerStates, StartStates, HeaderNames, BodyLeft, ResponseStates, Opens,
     UrlNames
<1>4. /\ told.last \in {"message_begin", "reason"} /\ ~told.bareCR /\ parser.type # "request"
      /\ "TRAILING" \notin parser.flags /\ told \in Reports /\ Fits(parser, told.last)
  BY <1>1, <1>3, HeardIs, Known, NotTrailing DEF Fits
<1> DEFINE at == Mark("reason")["reason"]
<1>5. /\ \A o \in Spans : o # "reason" => Mark("reason")[o] = 0
      /\ told.owed = 0 /\ told.due = at - call.left
      /\ at \in Int /\ at # 0
  <2>1. /\ \A o \in Spans : o # "reason" => call.mark[o] = 0
        /\ told.owed = 0 /\ call.mark["reason"] \in 0 .. MaxBuffer
        /\ told.due = IF call.mark["reason"] = 0 THEN 0
                      ELSE call.mark["reason"] - call.left
    BY <1>1, <1>2, <1>4, SpanNow
  <2>2. /\ at = IF call.mark["reason"] = 0 THEN call.left ELSE call.mark["reason"]
        /\ \A o \in Spans : o # "reason" => Mark("reason")[o] = call.mark[o]
    BY <1>2, MarkIs
  <2> HIDE DEF at
  <2> QED
    BY <1>1, <2>1, <2>2
<1>6. ASSUME NEW s \in {"res_line_almost_done", "header_field_start"},
             Data([parser EXCEPT !.state = s], "reason", at, call.left,
                  NextByte(Unmark("reason")), None)
      PROVE  ReportInv'
  <2> DEFINE p == [parser EXCEPT !.state = s]
  <2>1. s \in States
    BY NamedStates DEF SimpleStates, StatusLine
  <2>2. p \in Parsers /\ p.state = s /\ p.flags = parser.flags /\ p.type = parser.type
    BY <1>1, <2>1 DEF Parsers
  <2>3. Data(p, "reason", at, call.left, NextByte(Unmark("reason")), None)
    BY <1>6
  <2> HIDE DEF p, at
  <2>4. \A o \in Spans : NextByte(Unmark("reason")).mark[o] = 0
    BY <1>1, <1>2, UnmarkAll
  <2>5. <<told.last, "reason", "reason">> \in Order /\ ~SkipsUrl("reason")
    BY <1>4, InOrder DEF SkipsUrl
  <2>6. Fits(p, "reason")
    <3>1. "reason" \in Heard(s, parser.flags)
      BY <1>4, HeardIs, HeardOfHeaders
    <3> QED
      BY <1>4, <2>2, <3>1 DEF Fits
  <2>7. p.state \notin BodyLeft \cup {"body_identity_eof", "header_value"} \cup Opens
    BY <2>2 DEF BodyLeft, Opens, UrlNames
  <2> QED
    BY <1>1, <1>2, <1>4, <1>5, <2>2, <2>3, <2>4, <2>5, <2>6, <2>7, DataEnds
<1>7. CASE Take(parser, Mark("reason"), 1)
  <2>1. /\ told' \in Reports /\ told'.last = told.last /\ told'.owed = 0 /\ ~told'.bareCR
        /\ told'.due = told.due + 1 /\ parser' = parser /\ call'.mark = Mark("reason")
        /\ call'.left = call.left - 1
    <3>1. 1 \in Int
      OBVIOUS
    <3> QED
      BY <1>4, <1>5, <1>7, <3>1, TakeTold
  <2> HIDE DEF at
  <2>2. call'.mark["reason"] = at
    BY <2>1 DEF at
  <2>3. MarkedOK(parser, call', told') /\ BytesOK(parser, call', told')
    BY <1>1, <1>2, <1>3, <1>5, <2>1, <2>2, SpanBytes
  <2>4. LastOK(parser, call', told')
    BY <1>1, <1>4, <2>1 DEF LastOK
  <2> QED
    BY <2>1, <2>3, <2>4 DEF ReportInv
<1> QED
  BY <1>6, <1>7 DEF ResStatus

(* The name header_value goes by: in a trailer it is trailer_value. *)
ValueName(flags) == IF "TRAILING" \in flags THEN "trailer_value" ELSE "header_value"

(* The name header_field goes by. *)
FieldName(flags) == IF "TRAILING" \in flags THEN "trailer_field" ELSE "header_field"

(* The states of a header value. *)
ValueStates == {"header_value_start", "header_value", "header_almost_done", "header_value_lws"}

(* In a value, header_value comes in order. *)
LEMMA ValueFollows ==
  ASSUME Fits(parser, told.last), parser.state \in ValueStates
  PROVE  /\ <<told.last, "header_value", ValueName(parser.flags)>> \in Order
         /\ ~SkipsUrl("header_value")
         /\ told.last # "message_begin"
<1>1. CASE "TRAILING" \in parser.flags
  <2>1. told.last \in {"trailer_field", "trailer_value"}
    BY <1>1, HeardOfHeaders DEF Fits, ValueStates
  <2> QED
    BY <1>1, <2>1, InOrder DEF ValueName, SkipsUrl
<1>2. CASE "TRAILING" \notin parser.flags
  <2>1. told.last \in {"header_field", "header_value"}
    BY <1>2, HeardOfHeaders DEF Fits, ValueStates
  <2> QED
    BY <1>2, <2>1, InOrder DEF ValueName, SkipsUrl
<1> QED
  BY <1>1, <1>2

(* After it the parser may be in the value or at the next header. *)
LEMMA ValueFits ==
  ASSUME NEW p, p.state \in ValueStates \cup {"header_field_start"}
  PROVE  Fits(p, ValueName(p.flags))
<1>1. ValueName(p.flags) \in Heard(p.state, p.flags)
  BY HeardOfHeaders DEF ValueName, ValueStates
<1>2. p.state \in TrailerStates /\ p.state \notin ResponseStates
  BY DEF ValueStates, TrailerStates, HeaderNames, ResponseStates, StatusLine
<1>3. ValueName(p.flags) # "message_begin"
  BY DEF ValueName
<1> QED
  BY <1>1, <1>2, <1>3 DEF Fits

(* In a name, header_field comes in order. *)
LEMMA FieldFollows ==
  ASSUME Fits(parser, told.last), parser.state = "header_field"
  PROVE  /\ <<told.last, "header_field", FieldName(parser.flags)>> \in Order
         /\ ~SkipsUrl("header_field")
<1>1. ~SkipsUrl("header_field")
  BY DEF Fits, SkipsUrl
<1>2. CASE "TRAILING" \in parser.flags
  <2>1. told.last \in {"last_chunk", "trailer_field", "trailer_value"}
    BY <1>2, HeardOfHeaders DEF Fits
  <2> QED
    BY <1>1, <1>2, <2>1, InOrder DEF FieldName
<1>3. CASE "TRAILING" \notin parser.flags
  <2>1. told.last \in {"message_begin", "url", "reason", "header_field", "header_value"}
    BY <1>3, HeardOfHeaders DEF Fits
  <2> QED
    BY <1>1, <1>3, <2>1, InOrder DEF FieldName
<1> QED
  BY <1>2, <1>3

(* From the start of a header to its name, or to the end of the headers. *)
LEMMA StartFits ==
  ASSUME Fits(parser, told.last), parser.state = "header_field_start", NEW p,
         p.state \in {"header_field", "headers_almost_done"}, p.flags = parser.flags,
         p.type = parser.type
  PROVE  Fits(p, told.last)
<1>1. told.last \in Heard(p.state, p.flags)
  BY HeardOfHeaders DEF Fits
<1>2. p.state \in TrailerStates /\ p.state \notin ResponseStates
  BY DEF TrailerStates, HeaderNames, ResponseStates, StatusLine
<1> QED
  BY <1>1, <1>2 DEF Fits

(* The byte after a header line, which begins a name or ends the headers,  *)
(* keeps ReportInv.                                                        *)
LEMMA HeaderFieldStartReports ==
  ASSUME ParserInv, ReportInv, HttpParserAssumption, NEW ch \in Bytes, HeaderFieldStart(ch)
  PROVE  ReportInv'
<1>1. /\ call.running /\ call.left > 0 /\ parser.errno = "OK" /\ parser \in Parsers
      /\ parser.state = "header_field_start" /\ parser.state \notin SpanStates \cup BodyLeft
      /\ call.left \in Int
  BY CaseFacts DEF HeaderFieldStart, SpanStates, UrlNames, BodyLeft, Calls
<1>2. ~told.bareCR /\ told \in Reports /\ Fits(parser, told.last)
  BY <1>1, Known
<1>3. /\ "headers_almost_done" \notin Opens \cup BodyLeft \cup {"body_identity_eof"}
      /\ {"headers_almost_done", "header_field"} \subseteq States
  BY NamedStates DEF Opens, BodyLeft, UrlNames, SimpleStates
<1>4. ASSUME NEW q \in Parsers, q = [parser EXCEPT !.state = "headers_almost_done"],
             Take(q, call.mark, 0) \/ Reexecute(q, ch)
      PROVE  ReportInv'
  <2>1. q.state = "headers_almost_done" /\ q.flags = parser.flags /\ q.type = parser.type
    BY <1>1, <1>3, <1>4 DEF Parsers
  <2>2. Fits(q, told.last)
    BY <1>1, <1>2, <2>1, StartFits
  <2> QED
    BY <1>1, <1>2, <1>3, <1>4, <2>1, <2>2, TakeQuiet, AgainQuiet DEF Reexecute
<1>5. [parser EXCEPT !.state = "headers_almost_done"] \in Parsers
  BY <1>1, <1>3 DEF Parsers
<1>6. ASSUME NEW header \in Headers,
             parser' = [parser EXCEPT !.state = "header_field", !.header = header],
             call' = NextByte(Mark("header_field")),
             told' = [told EXCEPT !.due = @ + 1]
      PROVE  ReportInv'
  <2>1. /\ parser' \in Parsers /\ parser'.state = "header_field"
        /\ parser'.flags = parser.flags /\ parser'.type = parser.type
    BY <1>1, <1>3, <1>6 DEF Parsers
  <2>2. "header_field" \in Spans \ {"body"} /\ "header_field" \in MarkStates["header_field"]
    BY SpansAre DEF MarkStates
  <2>3. /\ Mark("header_field")["header_field"] = call.left
        /\ \A o \in Spans : o # "header_field" => Mark("header_field")[o] = 0
    BY <1>1, <2>2, MarkFirst
  <2>4. call'.mark = Mark("header_field") /\ call'.left = call.left - 1
    BY <1>6, CallFacts DEF NextByte, Calls
  <2>5. told.due = 0 /\ told.owed = 0
    BY <1>1, QuietNow
  <2>6. /\ told' \in Reports /\ told'.due = 1 /\ told'.owed = 0 /\ ~told'.bareCR
        /\ told'.last = told.last
    BY <1>2, <1>6, <2>5 DEF Reports
  <2>7. MarkedOK(parser', call', told') /\ BytesOK(parser', call', told')
    BY <1>1, <2>1, <2>2, <2>3, <2>4, <2>6, SpanBytes
  <2>8. LastOK(parser', call', told')
    BY <1>1, <1>2, <2>1, <2>6, StartFits DEF LastOK
  <2> QED
    BY <2>6, <2>7, <2>8 DEF ReportInv
<1>7. {"matching_content_length", "matching_transfer_encoding", "matching_upgrade", "general"}
        \subseteq Headers
  BY DEF Headers, Matching
<1> QED
  BY <1>1, <1>4, <1>5, <1>6, <1>7, ErrorQuiet DEF HeaderFieldStart

(* A name or a value goes on. *)
LEMMA GoesOnIn ==
  ASSUME ParserInv, ReportInv, call.running, NEW s \in {"header_field", "header_value"},
         parser.state = s,
         parser' \in Parsers, parser'.state = parser.state, parser'.flags = parser.flags,
         parser'.type = parser.type, call'.mark = call.mark, call'.left = call.left - 1,
         told' = [told EXCEPT !.due = IF told.bareCR THEN 0 ELSE @ + 1]
  PROVE  ReportInv'
<1>1. s \in Spans \ {"body"} /\ parser.state \in MarkStates[s]
  BY SpansAre DEF MarkStates
<1>2. /\ \A o \in Spans : o # s => call.mark[o] = 0
      /\ told.owed = 0 /\ told \in Reports /\ call.mark[s] \in 0 .. MaxBuffer
      /\ ~told.bareCR => told.due = IF call.mark[s] = 0 THEN 0 ELSE call.mark[s] - call.left
  BY <1>1, SpanNow
<1>3. call.left \in Int /\ (call.mark[s] # 0 \/ told.bareCR)
  BY CallFacts DEF ReportInv, MarkedOK, Calls
<1>4. /\ told' \in Reports /\ told'.owed = 0 /\ told'.bareCR = told.bareCR
      /\ told'.due = (IF told.bareCR THEN 0 ELSE told.due + 1) /\ told'.last = told.last
  BY <1>2 DEF Reports
<1>5. told.bareCR => parser.state = "header_value"
  BY Known
<1>6. MarkedOK(parser', call', told') /\ BytesOK(parser', call', told')
  <2>1. IF told'.bareCR THEN told'.due = 0 /\ parser'.state = "header_value"
        ELSE told'.due = IF call'.mark[s] = 0 THEN 0 ELSE call'.mark[s] - call'.left
    BY <1>2, <1>3, <1>4, <1>5
  <2>2. /\ call'.left \in Int /\ call'.mark[s] \in Int
        /\ \A o \in Spans : o # s => call'.mark[o] = 0
        /\ call'.mark[s] # 0 \/ told'.bareCR
        /\ parser'.state \in MarkStates[s]
    BY <1>1, <1>2, <1>3, <1>4
  <2> QED
    BY <1>1, <1>4, <2>1, <2>2, SpanBytes
<1>7. LastOK(parser', call', told')
  BY <1>4 DEF ReportInv, LastOK, Fits
<1> QED
  BY <1>4, <1>6, <1>7 DEF ReportInv

(* What consuming a byte of a range makes of the state. *)
LEMMA TakeIs ==
  ASSUME ParserInv, NEW p, NEW mark, Take(p, mark, 1)
  PROVE  /\ parser' = p /\ call'.mark = mark /\ call'.left = call.left - 1
         /\ told' = [told EXCEPT !.due = IF told.bareCR THEN 0 ELSE @ + 1]
BY CallFacts DEF Take, NextByte, Calls

(* A byte of a header name, or the colon after it, keeps ReportInv. *)
LEMMA HeaderFieldReports ==
  ASSUME ParserInv, ReportInv, HttpParserAssumption, NEW ch \in Bytes, HeaderField(ch)
  PROVE  ReportInv'
<1>1. /\ call.running /\ call.left > 0 /\ parser.errno = "OK" /\ parser \in Parsers
      /\ parser.state = "header_field" /\ parser.state \notin BodyLeft /\ ParserOK(parser)
      /\ call.left \in Int
  BY CaseFacts DEF HeaderField, BodyLeft, Calls
<1>2. ~told.bareCR /\ told \in Reports /\ Fits(parser, told.last)
  BY <1>1, Known
<1>3. "header_field" \in Spans \ {"body"} /\ parser.state \in MarkStates["header_field"]
  BY <1>1, SpansAre DEF MarkStates
<1>4. ASSUME NEW header \in FieldHeader(ch), Take([parser EXCEPT !.header = header], call.mark, 1)
      PROVE  ReportInv'
  <2>1. header \in Headers
    <3>1. \A h \in Matching : FullName[h] \in Headers
      BY DEF FullName, Matching, Matched, Headers
    <3> QED
      BY <1>1, <3>1 DEF FieldHeader, Headers, Parsers
  <2> DEFINE p == [parser EXCEPT !.header = header]
  <2>2. /\ p \in Parsers /\ p.state = parser.state /\ p.flags = parser.flags
        /\ p.type = parser.type
    BY <1>1, <2>1 DEF Parsers
  <2>3. Take(p, call.mark, 1)
    BY <1>4
  <2> HIDE DEF p
  <2> QED
    BY <1>1, <2>2, <2>3, TakeIs, GoesOnIn
<1>5. CASE Data([parser EXCEPT !.state = "header_value_start"], "header_field",
                call.mark["header_field"], call.left, NextByte(Unmark("header_field")), None)
  <2> DEFINE p == [parser EXCEPT !.state = "header_value_start"]
  <2>1. p \in Parsers /\ p.state = "header_value_start" /\ p.flags = parser.flags
    BY <1>1, NamedStates DEF Parsers, SimpleStates
  <2>2. Data(p, "header_field", call.mark["header_field"], call.left,
             NextByte(Unmark("header_field")), None)
    BY <1>5
  <2> HIDE DEF p
  <2>3. /\ told.owed = 0 /\ told.due = call.mark["header_field"] - call.left
        /\ call.mark["header_field"] \in Int /\ call.mark["header_field"] # 0
    BY <1>1, <1>2, <1>3, SpanNow DEF ReportInv, MarkedOK
  <2>4. \A o \in Spans : NextByte(Unmark("header_field")).mark[o] = 0
    BY <1>1, <1>3, UnmarkAll
  <2>5. Fits(p, FieldName(p.flags))
    <3>1. FieldName(p.flags) \in Heard(p.state, p.flags) /\ FieldName(p.flags) # "message_begin"
      BY <2>1, HeardOfHeaders DEF FieldName
    <3>2. p.state \in TrailerStates /\ p.state \notin ResponseStates
      BY <2>1 DEF TrailerStates, HeaderNames, ResponseStates, StatusLine
    <3> QED
      BY <3>1, <3>2 DEF Fits
  <2>6. p.state \notin BodyLeft \cup {"body_identity_eof", "header_value"} \cup Opens
    BY <2>1 DEF BodyLeft, Opens, UrlNames
  <2>7. <<told.last, "header_field", FieldName(p.flags)>> \in Order /\ ~SkipsUrl("header_field")
    BY <1>1, <1>2, <2>1, FieldFollows
  <2> QED
    BY <1>1, <1>2, <1>3, <2>1, <2>2, <2>3, <2>4, <2>5, <2>6, <2>7, DataEnds
<1> QED
  BY <1>1, <1>4, <1>5, ErrorQuiet DEF HeaderField

(* The byte that begins a header value, which sets its mark, keeps         *)
(* ReportInv.                                                              *)
LEMMA HeaderValueStartReports ==
  ASSUME ParserInv, ReportInv, HttpParserAssumption, NEW ch \in Bytes, HeaderValueStart(ch)
  PROVE  ReportInv'
<1>1. /\ call.running /\ call.left > 0 /\ parser.errno = "OK" /\ parser \in Parsers
      /\ parser.state = "header_value_start" /\ parser.state \notin SpanStates \cup BodyLeft
      /\ call.left \in Int
  BY CaseFacts DEF HeaderValueStart, SpanStates, UrlNames, BodyLeft, Calls
<1>2. ~told.bareCR /\ told \in Reports /\ Fits(parser, told.last)
  BY <1>1, Known
<1>3. /\ "header_value" \in Spans \ {"body"} /\ MarkStates["header_value"] = {"header_value"}
      /\ {"header_value", "header_almost_done", "header_field_start"} \subseteq States
  BY SpansAre, NamedStates DEF MarkStates, SimpleStates
<1>4. /\ Mark("header_value")["header_value"] = call.left
      /\ \A o \in Spans : o # "header_value" => Mark("header_value")[o] = 0
  BY <1>1, <1>3, MarkFirst
<1>5. told.due = 0 /\ told.owed = 0
  BY <1>1, QuietNow
<1>6. /\ <<told.last, "header_value", ValueName(parser.flags)>> \in Order
      /\ ~SkipsUrl("header_value") /\ told.last # "message_begin"
  BY <1>1, <1>2, ValueFollows DEF ValueStates
<1>7. CASE Take(parser, call.mark, 0)
  <2>1. parser.state \notin Opens \cup BodyLeft \cup {"body_identity_eof"}
    BY <1>1 DEF Opens, UrlNames, BodyLeft
  <2> QED
    BY <1>1, <1>2, <1>7, <2>1, TakeQuiet
<1>8. ASSUME NEW state \in {"header_almost_done", "header_field_start"},
             Data([parser EXCEPT !.header = "general", !.state = state], "header_value",
                  Mark("header_value")["header_value"], call.left,
                  NextByte(Unmark("header_value")), None)
      PROVE  ReportInv'
  <2> DEFINE p == [parser EXCEPT !.header = "general", !.state = state]
  <2>1. p \in Parsers /\ p.state = state /\ p.flags = parser.flags
    BY <1>1, <1>3 DEF Parsers, Headers
  <2>2. Data(p, "header_value", call.left, call.left, NextByte(Unmark("header_value")), None)
    BY <1>4, <1>8
  <2> HIDE DEF p
  <2>3. \A o \in Spans : NextByte(Unmark("header_value")).mark[o] = 0
    BY <1>1, <1>3, UnmarkAll
  <2>4. Fits(p, ValueName(p.flags))
    BY <2>1, ValueFits DEF ValueStates
  <2>5. p.state \notin BodyLeft \cup {"body_identity_eof", "header_value"} \cup Opens
    BY <2>1 DEF BodyLeft, Opens, UrlNames
  <2> QED
    BY <1>1, <1>2, <1>3, <1>5, <1>6, <2>1, <2>2, <2>3, <2>4, <2>5, DataEnds
<1>9. ASSUME NEW q \in Parsers, q.state = "header_value",
             "TRAILING" \in q.flags <=> "TRAILING" \in parser.flags,
             Take(q, Mark("header_value"), 1)
      PROVE  ReportInv'
  <2>1. /\ parser' = q /\ call'.mark = Mark("header_value") /\ call'.left = call.left - 1
        /\ told' = [told EXCEPT !.due = IF told.bareCR THEN 0 ELSE @ + 1]
    BY <1>9, TakeIs
  <2>2. /\ told' \in Reports /\ told'.last = told.last /\ told'.due = 1 /\ told'.owed = 0
        /\ told'.bareCR = FALSE
    BY <1>2, <1>5, <2>1 DEF Reports
  <2>3. MarkedOK(q, call', told') /\ BytesOK(q, call', told')
    <3>1. /\ call'.left \in Int /\ call'.mark["header_value"] \in Int
          /\ call'.mark["header_value"] # 0
          /\ told'.due = call'.mark["header_value"] - call'.left
      BY <1>1, <1>4, <2>1, <2>2
    <3>2. /\ \A o \in Spans : o # "header_value" => call'.mark[o] = 0
          /\ q.state \in MarkStates["header_value"]
      BY <1>3, <1>4, <1>9, <2>1
    <3> QED
      BY <1>3, <2>2, <3>1, <3>2, SpanBytes
  <2>4. told.last \in Heard(q.state, q.flags)
    BY <1>1, <1>2, <1>9, HeardOfHeaders DEF Fits
  <2>5. q.state \in TrailerStates /\ q.state \notin ResponseStates
    BY <1>9 DEF TrailerStates, HeaderNames, ResponseStates, StatusLine
  <2>6. LastOK(q, call', told')
    BY <1>9, <2>2, <2>4, <2>5 DEF LastOK, Fits
  <2> QED
    BY <2>1, <2>2, <2>3, <2>6 DEF ReportInv
<1>10. ASSUME NEW p, Take([p EXCEPT !.state = "header_value"], Mark("header_value"), 1),
             \/ p = [parser EXCEPT !.flags = @ \cup {"UPGRADE"}, !.header = "general"]
             \/ \E h \in {"matching_transfer_encoding_chunked", "general", "general_and_quote"} :
                   p = [parser EXCEPT !.header = h]
             \/ ch \in Num /\ p = [parser EXCEPT !.length = Digit[ch]]
      PROVE  ReportInv'
  <2> DEFINE q == [p EXCEPT !.state = "header_value"]
  <2>1. p \in Parsers /\ ("TRAILING" \in p.flags <=> "TRAILING" \in parser.flags)
    <3>1. CASE p = [parser EXCEPT !.flags = @ \cup {"UPGRADE"}, !.header = "general"]
      BY <1>1, <3>1 DEF Parsers, Headers, Flags
    <3>2. ASSUME NEW h \in {"matching_transfer_encoding_chunked", "general",
                            "general_and_quote"},
                 p = [parser EXCEPT !.header = h]
          PROVE  p \in Parsers /\ p.flags = parser.flags
      BY <1>1, <3>2 DEF Parsers, Headers
    <3>3. CASE ch \in Num /\ p = [parser EXCEPT !.length = Digit[ch]]
      <4>1. Digit[ch] \in -1 .. LengthMax
        BY <3>3 DEF Num, Digit, HttpParserAssumption
      <4> QED
        BY <1>1, <3>3, <4>1 DEF Parsers
    <3> QED
      BY <1>10, <3>1, <3>2, <3>3
  <2>2. q \in Parsers /\ q.state = "header_value" /\ q.flags = p.flags
    BY <1>3, <2>1 DEF Parsers
  <2>3. Take(q, Mark("header_value"), 1)
    BY <1>10
  <2> HIDE DEF q
  <2> QED
    BY <1>9, <2>1, <2>2, <2>3
<1>11. ASSUME ch \notin {"SP", "CR", "LF"} PROVE ReportInv'
  <2>1. CASE parser.header = "upgrade"
    BY <1>10, <1>11, <2>1 DEF HeaderValueStart
  <2>2. CASE parser.header = "transfer_encoding"
    BY <1>10, <1>11, <2>2 DEF HeaderValueStart
  <2>3. CASE parser.header = "content_length"
    BY <1>1, <1>10, <1>11, <2>3, ErrorQuiet DEF HeaderValueStart
  <2>4. CASE parser.header \notin {"upgrade", "transfer_encoding", "content_length"}
    BY <1>10, <1>11, <2>4 DEF HeaderValueStart
  <2> QED
    BY <2>1, <2>2, <2>3, <2>4
<1>12. CASE ch = "LF"
  <2>1. [parser EXCEPT !.state = "header_field_start", !.header = "general"]
           = [parser EXCEPT !.header = "general", !.state = "header_field_start"]
    BY <1>1 DEF Parsers
  <2> QED
    BY <1>8, <1>12, <2>1 DEF HeaderValueStart
<1> QED
  BY <1>7, <1>8, <1>11, <1>12 DEF HeaderValueStart

(* A byte of a header value, or its line end, keeps ReportInv. *)
LEMMA HeaderValueReports ==
  ASSUME ParserInv, ReportInv, HttpParserAssumption, NEW ch \in Bytes, HeaderValue(ch)
  PROVE  ReportInv'
<1>1. /\ parser.state = "header_value" /\ call.running /\ call.left > 0 /\ parser.errno = "OK"
      /\ parser \in Parsers /\ ParserOK(parser) /\ call \in Calls
      /\ call.mark \in [Spans -> 0 .. MaxBuffer] /\ call.left \in Int
      /\ parser.state \notin BodyLeft
  BY CaseFacts DEF HeaderValue, Calls, BodyLeft
<1>2. /\ "header_value" \in Spans \ {"body"} /\ parser.state \in MarkStates["header_value"]
      /\ "header_almost_done" \in States
  BY <1>1, SpansAre, NamedStates DEF MarkStates
<1>3. /\ told \in Reports /\ Fits(parser, told.last)
      /\ told.bareCR => told.last \in {"header_value", "trailer_value"}
  BY <1>1, Known DEF LastOK
<1>4. /\ <<told.last, "header_value", ValueName(parser.flags)>> \in Order
      /\ ~SkipsUrl("header_value")
  BY <1>1, <1>3, ValueFollows DEF ValueStates
<1>5. /\ told.owed = 0 /\ call.mark["header_value"] \in 0 .. MaxBuffer
      /\ told.bareCR => told.due = 0
      /\ ~told.bareCR => /\ call.mark["header_value"] # 0
                         /\ told.due = call.mark["header_value"] - call.left
  BY <1>1, <1>2, SpanNow DEF ReportInv, MarkedOK
<1>6. ASSUME NEW next, NEW again,
             next \in {NextByte(Unmark("header_value")), SameByte(ch, Unmark("header_value"))},
             Data([parser EXCEPT !.state = "header_almost_done"], "header_value",
                  call.mark["header_value"], call.left, next, again)
      PROVE  ReportInv'
  <2> DEFINE p == [parser EXCEPT !.state = "header_almost_done"]
  <2>1. /\ p \in Parsers /\ p.state = "header_almost_done" /\ p.flags = parser.flags
        /\ p.type = parser.type
    BY <1>1, <1>2 DEF Parsers
  <2>2. Data(p, "header_value", call.mark["header_value"], call.left, next, again)
    BY <1>6
  <2> HIDE DEF p
  <2>3. \A o \in Spans : next.mark[o] = 0
    BY <1>1, <1>2, <1>6, UnmarkAll
  <2>4. Fits(p, ValueName(p.flags))
    BY <2>1, ValueFits DEF ValueStates
  <2>5. p.state \notin BodyLeft \cup {"body_identity_eof", "header_value"} \cup Opens
    BY <2>1 DEF BodyLeft, Opens, UrlNames
  <2>6. ASSUME told.bareCR PROVE Fits(p, told.last)
    <3>1. told.last = ValueName(p.flags)
      BY <1>1, <1>3, <2>1, <2>6, HeardOfHeaders DEF Fits, ValueName
    <3> QED
      BY <2>4, <3>1
  <2>7. call.mark["header_value"] \in Int
    BY <1>5
  <2> QED
    BY <1>1, <1>2, <1>3, <1>4, <1>5, <2>1, <2>2, <2>3, <2>4, <2>5, <2>6, <2>7, DataEnds
<1>7. CASE Error
  BY <1>1, <1>7, ErrorQuiet
<1>8. ASSUME ContentLengthDigit(ch), ~Error PROVE ReportInv'
  <2>1. /\ parser.header = "content_length" /\ ch \in Num
        /\ parser.length <= (LengthMax - 10) \div 10
        /\ Take([parser EXCEPT !.length = @ * 10 + Digit[ch]], call.mark, 1)
    BY <1>8 DEF ContentLengthDigit
  <2> DEFINE n == parser.length * 10 + Digit[ch]
             p == [parser EXCEPT !.length = n]
  <2>2. parser.length \in 0 .. LengthMax
    BY <1>1, <2>1 DEF ParserOK, StateOK, Parsers
  <2>3. n \in -1 .. LengthMax
    <3>1. Digit[ch] \in 0 .. 9
      BY <2>1 DEF Num, Digit
    <3> QED
      BY <2>1, <2>2, <3>1 DEF HttpParserAssumption
  <2> HIDE DEF n
  <2>4. /\ p \in Parsers /\ p.state = parser.state /\ p.flags = parser.flags
        /\ p.type = parser.type
    BY <1>1, <2>3 DEF Parsers
  <2>5. Take(p, call.mark, 1)
    BY <2>1 DEF n
  <2> HIDE DEF p
  <2> QED
    BY <1>1, <2>4, <2>5, TakeIs, GoesOnIn
<1>9. ASSUME NEW header \in {parser.header} \cup ValueHeader(ch), NEW skip,
             parser' = [parser EXCEPT !.header = header],
             call' = [NextByte(call.mark) EXCEPT !.skip = skip],
             told' = [told EXCEPT !.due = IF told.bareCR THEN 0 ELSE @ + 1]
      PROVE  ReportInv'
  <2>1. header \in Headers
    BY <1>1 DEF ValueHeader, Headers, Parsers
  <2>2. /\ parser' \in Parsers /\ parser'.state = parser.state
        /\ parser'.flags = parser.flags /\ parser'.type = parser.type
    BY <1>1, <1>9, <2>1 DEF Parsers
  <2>3. call'.mark = call.mark /\ call'.left = call.left - 1
    BY <1>1, <1>9 DEF NextByte, Calls
  <2> QED
    BY <1>1, <1>9, <2>2, <2>3, GoesOnIn
<1> QED
  BY <1>6, <1>7, <1>8, <1>9 DEF HeaderValue

(* The space reported for a line fold, or for a CR without LF, keeps       *)
(* ReportInv.                                                              *)
LEMMA SpaceQuiet ==
  ASSUME ParserInv, ReportInv, HttpParserAssumption, NEW ch \in Bytes, call.running,
         parser.errno = "OK", parser.state \notin SpanStates, parser.state \in ValueStates,
         NEW p \in Parsers, p.state \in {"header_value", "header_value_start"},
         "TRAILING" \in p.flags <=> "TRAILING" \in parser.flags,
         NEW bareCR \in BOOLEAN, bareCR <=> p.state = "header_value",
         Space(p, ch, bareCR)
  PROVE  ReportInv'
<1>1. PICK answer \in Errno :
        /\ parser' = [p EXCEPT !.errno = answer]
        /\ call' = IF answer = "OK" THEN NextByte(call.mark) ELSE Returned(ch)
        /\ told' = [Tell("header_value", 0) EXCEPT !.bareCR = bareCR /\ (@ \/ answer = "OK")]
  BY DEF Space
<1>2. /\ told \in Reports /\ told.due = 0 /\ told.owed = 0 /\ parser \in Parsers
      /\ Fits(parser, told.last)
  BY QuietNow, CallFacts, Known
<1>3. /\ <<told.last, "header_value", ValueName(parser.flags)>> \in Order
      /\ ~SkipsUrl("header_value")
  BY <1>2, ValueFollows
<1>4. /\ Tell("header_value", 0) \in Reports
      /\ Tell("header_value", 0).last = ValueName(parser.flags)
      /\ Tell("header_value", 0).due = 0 /\ Tell("header_value", 0).owed = 0
  BY <1>2, <1>3, TellIs
<1> DEFINE bare == bareCR /\ (Tell("header_value", 0).bareCR \/ answer = "OK")
<1>5. bare \in BOOLEAN
  OBVIOUS
<1>6. told' = [Tell("header_value", 0) EXCEPT !.bareCR = bare]
  BY <1>1
<1>7. bare => p.state = "header_value"
  OBVIOUS
<1>8. p.state = "header_value" /\ call'.running => bare
  BY <1>1, ReturnedIs
<1> HIDE DEF bare
<1>9. /\ told' \in Reports /\ told'.last = ValueName(parser.flags)
      /\ told'.due = 0 /\ told'.owed = 0 /\ told'.bareCR = bare
  BY <1>4, <1>5, <1>6 DEF Reports
<1>10. /\ parser' \in Parsers /\ parser'.state = p.state /\ parser'.flags = p.flags
       /\ parser'.type = p.type
  BY <1>1, ErrnoSame
<1>11. \A s \in Spans : call'.mark[s] = 0
  BY <1>1, QuietNow, ReturnedIs, CallFacts DEF NextByte, Calls
<1>12. p.state \notin BodyLeft /\ p.state \notin UrlNames
  BY DEF BodyLeft, UrlNames
<1>13. BytesOK(parser', call', told')
  <2>1. "body" \in Spans
    BY SpansAre
  <2> QED
    BY <1>7, <1>9, <1>10, <1>11, <1>12, <2>1 DEF BytesOK
<1>14. MarkedOK(parser', call', told')
  BY <1>8, <1>9, <1>10, <1>12 DEF MarkedOK
<1>15. told'.last = ValueName(p.flags) /\ told'.last \in {"header_value", "trailer_value"}
  BY <1>9 DEF ValueName
<1>16. Fits(p, told'.last)
  BY <1>15, ValueFits DEF ValueStates
<1>17. LastOK(parser', call', told')
  BY <1>10, <1>15, <1>16 DEF LastOK, Fits
<1> QED
  BY <1>9, <1>13, <1>14, <1>17 DEF ReportInv

(* The byte after a CR in a value keeps ReportInv. *)
LEMMA HeaderAlmostDoneReports ==
  ASSUME ParserInv, ReportInv, HttpParserAssumption, NEW ch \in Bytes, HeaderAlmostDone(ch)
  PROVE  ReportInv'
<1>1. /\ parser.state = "header_almost_done" /\ call.running /\ call.left > 0
      /\ parser.errno = "OK" /\ parser \in Parsers /\ parser.state \notin SpanStates
      /\ parser.state \in ValueStates
  BY CaseFacts DEF HeaderAlmostDone, SpanStates, UrlNames, ValueStates
<1> DEFINE state == IF ch = "LF" THEN "header_value_lws" ELSE "header_value"
           flags == IF parser.header = "transfer_encoding_chunked"
                    THEN parser.flags \cup {"CHUNKED"} ELSE parser.flags
           p == [parser EXCEPT !.state = state, !.flags = flags]
<1>2. /\ state \in {"header_value_lws", "header_value"} /\ state \in States
      /\ flags \in SUBSET Flags /\ ("TRAILING" \in flags <=> "TRAILING" \in parser.flags)
      /\ ch = "LF" <=> state = "header_value_lws"
  BY <1>1, NamedStates DEF Parsers, Flags
<1>3. \/ ch = "LF" /\ Take(p, call.mark, 0)
      \/ ch # "LF" /\ Space(p, ch, TRUE)
  BY DEF HeaderAlmostDone
<1> HIDE DEF state, flags
<1>4. p \in Parsers /\ p.state = state /\ p.flags = flags /\ p.type = parser.type
  BY <1>1, <1>2 DEF Parsers
<1> HIDE DEF p
<1>5. CASE ch = "LF" /\ Take(p, call.mark, 0)
  <2>1. p.state \notin Opens \cup BodyLeft \cup {"body_identity_eof"}
    BY <1>2, <1>4, <1>5 DEF Opens, UrlNames, BodyLeft
  <2>2. told.last = ValueName(p.flags)
    BY <1>1, <1>2, <1>4, Known, HeardOfHeaders DEF Fits, ValueName
  <2>3. Fits(p, told.last)
    BY <1>2, <1>4, <1>5, <2>2, ValueFits DEF ValueStates
  <2> QED
    BY <1>1, <1>2, <1>4, <1>5, <2>1, <2>3, TakeQuiet
<1>6. CASE ch # "LF" /\ Space(p, ch, TRUE)
  BY <1>1, <1>2, <1>4, <1>6, SpaceQuiet
<1> QED
  BY <1>3, <1>5, <1>6

(* The byte after the line of a value, folded or not, keeps ReportInv. *)
LEMMA HeaderValueLwsReports ==
  ASSUME ParserInv, ReportInv, HttpParserAssumption, NEW ch \in Bytes, HeaderValueLws(ch)
  PROVE  ReportInv'
<1>1. /\ call.running /\ call.left > 0 /\ parser.errno = "OK" /\ parser \in Parsers
      /\ parser.state = "header_value_lws" /\ parser.state \notin SpanStates
      /\ parser.state \in ValueStates
  BY CaseFacts DEF HeaderValueLws, SpanStates, UrlNames, ValueStates
<1>2. {"header_value_start", "header_field_start"} \subseteq States
  BY NamedStates DEF SimpleStates
<1>3. CASE Space([parser EXCEPT !.state = "header_value_start"], ch, FALSE)
  <2> DEFINE p == [parser EXCEPT !.state = "header_value_start"]
  <2>1. p \in Parsers /\ p.state = "header_value_start" /\ p.flags = parser.flags
    BY <1>1, <1>2 DEF Parsers
  <2>2. Space(p, ch, FALSE)
    BY <1>3
  <2> HIDE DEF p
  <2> QED
    BY <1>1, <2>1, <2>2, SpaceQuiet
<1>4. CASE /\ parser' = [parser EXCEPT !.state = "header_field_start", !.header = "general"]
           /\ call' = SameByte(ch, call.mark)
           /\ told' = [told EXCEPT !.bareCR = FALSE]
  <2>1. /\ parser' \in Parsers /\ parser'.state = "header_field_start"
        /\ parser'.flags = parser.flags /\ parser'.type = parser.type
    BY <1>1, <1>2, <1>4 DEF Parsers, Headers
  <2>2. told \in Reports /\ told.last = ValueName(parser.flags)
    BY <1>1, Known, HeardOfHeaders DEF Fits, ValueName
  <2>3. /\ told' \in Reports /\ told'.last = told.last /\ told'.due = told.due
        /\ told'.owed = told.owed /\ ~told'.bareCR
    BY <1>4, <2>2 DEF Reports
  <2>4. Fits(parser', told.last)
    BY <2>1, <2>2, ValueFits
  <2>5. parser'.state \notin Opens \cup BodyLeft \cup {"body_identity_eof"}
    BY <2>1 DEF Opens, UrlNames, BodyLeft
  <2> QED
    BY <1>1, <1>4, <2>1, <2>3, <2>4, <2>5, AgainQuiet
<1> QED
  BY <1>3, <1>4 DEF HeaderValueLws

(* Outside the ranges the marks stay null for the next byte, the same byte *)
(* and the return.                                                         *)
LEMMA QuietNext ==
  ASSUME ParserInv, ReportInv, call.running, parser.state \notin SpanStates, NEW ch,
         NEW next \in {NextByte(call.mark), SameByte(ch, call.mark), Returned(None)}
  PROVE  \A s \in Spans : next.mark[s] = 0
<1>1. \A s \in Spans : call.mark[s] = 0
  BY QuietNow, CallFacts
<1>2. NextByte(call.mark).mark = call.mark /\ SameByte(ch, call.mark).mark = call.mark
  BY CallFacts DEF NextByte, SameByte, Calls
<1>3. CASE next = NextByte(call.mark)
  BY <1>1, <1>2, <1>3
<1>4. CASE next = SameByte(ch, call.mark)
  BY <1>1, <1>2, <1>4
<1>5. CASE next = Returned(None)
  BY <1>5, ReturnedIs
<1> QED
  BY <1>3, <1>4, <1>5

(* The last byte of the headers, or of the trailer, keeps ReportInv. *)
LEMMA HeadersAlmostDoneReports ==
  ASSUME ParserInv, ReportInv, HttpParserAssumption, NEW ch \in Bytes, HeadersAlmostDone(ch)
  PROVE  ReportInv'
<1>1. /\ call.running /\ call.left > 0 /\ parser.errno = "OK" /\ parser \in Parsers
      /\ parser.state = "headers_almost_done" /\ parser.state \notin SpanStates
  BY CaseFacts DEF HeadersAlmostDone, SpanStates, UrlNames
<1>2. ~told.bareCR /\ told \in Reports /\ Fits(parser, told.last)
  BY <1>1, Known
<1>3. \A s \in Spans : SameByte(ch, call.mark).mark[s] = 0
  BY <1>1, QuietNext
<1>4. {"message_done", "headers_done"} \subseteq States
  BY NamedStates DEF SimpleStates
<1>5. CASE "TRAILING" \in parser.flags
  <2> DEFINE p == [parser EXCEPT !.state = "message_done"]
  <2>1. p \in Parsers /\ p.state = "message_done" /\ p.flags = parser.flags
    BY <1>1, <1>4 DEF Parsers
  <2>2. Notify(p, "chunk_complete", SameByte(ch, call.mark), ch)
    BY <1>5 DEF HeadersAlmostDone
  <2> HIDE DEF p
  <2>3. told.last \in {"last_chunk", "trailer_value"}
    BY <1>1, <1>2, <1>5, HeardOfHeaders DEF Fits
  <2>4. /\ <<told.last, "chunk_complete", "chunks_complete">> \in Order
        /\ ~SkipsUrl("chunk_complete")
    BY <2>3, InOrder DEF SkipsUrl
  <2>5. Fits(p, "chunks_complete")
    BY <2>1, HeardIs DEF Fits, TrailerStates, ResponseStates, StatusLine
  <2>6. p.state \notin SpanStates /\ p.state \notin BodyLeft
    BY <2>1 DEF SpanStates, UrlNames, BodyLeft
  <2> QED
    BY <1>1, <1>2, <1>3, <2>1, <2>2, <2>4, <2>5, <2>6, NotifyQuiet
<1>6. CASE "TRAILING" \notin parser.flags
  <2>1. PICK skipBody \in {{}, {"SKIPBODY"}} :
          Notify([parser EXCEPT
                    !.state = "headers_done", !.flags = @ \cup skipBody,
                    !.upgrade = "UPGRADE" \in parser.flags \/ parser.connect],
                 "headers_complete", SameByte(ch, call.mark), ch)
    BY <1>6 DEF HeadersAlmostDone
  <2> DEFINE upgrade == "UPGRADE" \in parser.flags \/ parser.connect
             flags == parser.flags \cup skipBody
             p == [parser EXCEPT !.state = "headers_done", !.flags = flags, !.upgrade = upgrade]
  <2>2. /\ upgrade \in BOOLEAN /\ flags \in SUBSET Flags /\ "TRAILING" \notin flags
    BY <1>1, <1>6 DEF Parsers, Flags
  <2>3. Notify(p, "headers_complete", SameByte(ch, call.mark), ch)
    BY <2>1
  <2> HIDE DEF upgrade, flags
  <2>4. p \in Parsers /\ p.state = "headers_done" /\ p.flags = flags
    BY <1>1, <1>4, <2>2 DEF Parsers
  <2> HIDE DEF p
  <2>5. told.last \in {"message_begin", "url", "reason", "header_value"}
    BY <1>1, <1>2, <1>6, HeardOfHeaders DEF Fits
  <2>6. /\ <<told.last, "headers_complete", "headers_complete">> \in Order
        /\ ~SkipsUrl("headers_complete")
    BY <1>1, <1>2, <2>5, InOrder DEF SkipsUrl, Fits
  <2>7. Fits(p, "headers_complete")
    BY <2>2, <2>4, HeardIs DEF Fits, ResponseStates, StatusLine
  <2>8. p.state \notin SpanStates /\ p.state \notin BodyLeft
    BY <2>4 DEF SpanStates, UrlNames, BodyLeft
  <2> QED
    BY <1>1, <1>2, <1>3, <2>3, <2>4, <2>6, <2>7, <2>8, NotifyQuiet
<1> QED
  BY <1>5, <1>6

(* message_complete after the headers or the body keeps ReportInv. *)
LEMMA MessageEnds ==
  ASSUME ParserInv, ReportInv, HttpParserAssumption, call.running, parser.errno = "OK",
         parser.state \in {"headers_done", "message_done"},
         NEW next \in {NextByte(call.mark), Returned(None)},
         Notify(NEW_MESSAGE, "message_complete", next, None)
  PROVE  ReportInv'
<1>1. parser \in Parsers /\ parser.state \notin SpanStates
  BY CallFacts DEF SpanStates, UrlNames
<1>2. ~told.bareCR /\ Fits(parser, told.last)
  BY Known
<1>3. /\ StartOf[parser.type] \in StartStates /\ StartOf[parser.type] \in States
      /\ StartOf[parser.type] = "pre_start_res" => parser.type # "request"
      /\ StartOf[parser.type] \in {"pre_start_req", "pre_start_res"}
  BY <1>1, NamedStates DEF Parsers, StartOf, SimpleStates, StartStates
<1> DEFINE p == NEW_MESSAGE
<1>4. p \in Parsers /\ p.state = StartOf[parser.type] /\ p.type = parser.type
  BY <1>1, <1>3 DEF NEW_MESSAGE, Parsers
<1>5. Notify(p, "message_complete", next, None)
  OBVIOUS
<1> HIDE DEF p
<1>6. <<told.last, "message_complete", "message_complete">> \in Order
  <2>1. told.last \in {"headers_complete", "body", "chunks_complete"}
    BY <1>2, HeardIs DEF Fits
  <2> QED
    BY <2>1, InOrder
<1>7. ~SkipsUrl("message_complete")
  BY <1>2, HeardIs DEF Fits, SkipsUrl
<1>8. Fits(p, "message_complete")
  <2>1. "message_complete" \in Heard(p.state, p.flags)
    BY <1>3, <1>4, HeardIs
  <2>2. p.state \in TrailerStates /\ (p.state \in ResponseStates => p.type # "request")
    BY <1>3, <1>4 DEF TrailerStates, ResponseStates, StatusLine
  <2> QED
    BY <2>1, <2>2 DEF Fits
<1>9. p.state \notin SpanStates /\ p.state \notin BodyLeft
  BY <1>3, <1>4 DEF StartStates, SpanStates, UrlNames, BodyLeft
<1>10. \A s \in Spans : next.mark[s] = 0
  BY <1>1, QuietNext
<1> QED
  BY <1>1, <1>2, <1>4, <1>5, <1>6, <1>7, <1>8, <1>9, <1>10, NotifyQuiet

(* The last byte of a body keeps ReportInv. *)
LEMMA MessageDoneReports ==
  ASSUME ParserInv, ReportInv, HttpParserAssumption, NEW ch \in Bytes, MessageDone(ch)
  PROVE  ReportInv'
BY CaseFacts, MessageEnds DEF MessageDone

(* A body that goes on: what is owed is what is left of it and what its mark spans. *)
LEMMA BodyBytes ==
  ASSUME NEW p \in Parsers, p.state \in BodyLeft \cup {"body_identity_eof"}, NEW c,
         c.left \in Int, c.mark["body"] \in Int,
         \A o \in Spans : o # "body" => c.mark[o] = 0, NEW t \in Reports, ~t.bareCR,
         t.due = IF c.mark["body"] = 0 THEN 0 ELSE c.mark["body"] - c.left,
         t.owed = IF p.state \in BodyLeft THEN p.length + t.due ELSE 0
  PROVE  MarkedOK(p, c, t) /\ BytesOK(p, c, t)
<1>1. "body" \in Spans /\ p.length \in Int /\ t.due \in Int
  BY SpansAre DEF Parsers, Reports
<1>2. MarkedOK(p, c, t)
  BY DEF MarkedOK, UrlNames, BodyLeft
<1>3. BytesOK(p, c, t)
  BY <1>1 DEF BytesOK
<1> QED
  BY <1>2, <1>3

(* In a body, what is due is what its mark spans, and what is owed that    *)
(* and what is left to read.                                               *)
LEMMA BodyNow ==
  ASSUME ParserInv, ReportInv, parser.errno # "ERROR",
         parser.state \in BodyLeft \cup {"body_identity_eof"}
  PROVE  /\ \A o \in Spans : o # "body" => call.mark[o] = 0
         /\ told \in Reports /\ ~told.bareCR /\ call.mark["body"] \in Int
         /\ told.due = IF call.mark["body"] = 0 THEN 0 ELSE call.mark["body"] - call.left
         /\ told.owed = IF parser.state \in BodyLeft THEN parser.length + told.due ELSE 0
         /\ "TRAILING" \notin parser.flags
         /\ told.last # "message_begin"
<1>1. "body" \in Spans /\ parser.state \in MarkStates["body"]
  BY SpansAre DEF MarkStates, BodyLeft
<1>2. \A o \in Spans : o # "body" => call.mark[o] = 0
  BY <1>1, OnlyMark
<1>3. ~told.bareCR /\ told \in Reports /\ call.mark["body"] \in Int /\ Fits(parser, told.last)
  BY <1>1, Known, CallFacts DEF BodyLeft
<1>4. told.due = IF call.mark["body"] = 0 THEN 0 ELSE call.mark["body"] - call.left
  BY <1>1, <1>2, <1>3 DEF ReportInv, BytesOK
<1>5. told.owed = IF parser.state \in BodyLeft THEN parser.length + told.due ELSE 0
  BY <1>4 DEF ReportInv, BytesOK
<1>6. parser.state \notin TrailerStates
  BY DEF BodyLeft, TrailerStates, StartStates, HeaderNames
<1>7. told.last # "message_begin"
  <2>1. "message_begin" \notin Heard(parser.state, parser.flags)
    BY HeardIs DEF BodyLeft
  <2> QED
    BY <1>3, <2>1 DEF Fits
<1> QED
  BY <1>2, <1>3, <1>4, <1>5, <1>6, <1>7, NotTrailing

(* The choice of what follows the headers keeps ReportInv. *)
LEMMA HeadersDoneReports ==
  ASSUME ParserInv, ReportInv, HttpParserAssumption, NEW ch \in Bytes, HeadersDone(ch)
  PROVE  ReportInv'
<1>1. /\ call.running /\ call.left > 0 /\ parser.errno = "OK" /\ parser \in Parsers
      /\ parser.state = "headers_done" /\ parser.state \notin SpanStates
  BY CaseFacts DEF HeadersDone, SpanStates, UrlNames
<1>2. told.last = "headers_complete" /\ ~told.bareCR /\ told \in Reports
  BY <1>1, HeardIs, Known DEF Fits
<1>3. "TRAILING" \notin parser.flags
  <2>1. parser.state \notin TrailerStates
    BY <1>1 DEF TrailerStates, StartStates, HeaderNames
  <2> QED
    BY <2>1, NotTrailing
<1>4. ASSUME NEW next \in {NextByte(call.mark), Returned(None)},
             Notify(NEW_MESSAGE, "message_complete", next, None)
      PROVE  ReportInv'
  BY <1>1, <1>4, MessageEnds
<1>5. ASSUME NEW state \in {"chunk_size_start", "body_identity_eof", "body_identity"}
      PROVE  LET p == [parser EXCEPT !.state = state] IN
             p \in Parsers /\ p.state = state /\ p.length = parser.length
             /\ Fits(p, "headers_complete")
  <2> DEFINE p == [parser EXCEPT !.state = state]
  <2>1. state \in States
    BY NamedStates DEF SimpleStates, ChunkStates
  <2>2. p \in Parsers /\ p.state = state /\ p.flags = parser.flags /\ p.length = parser.length
    BY <1>1, <2>1 DEF Parsers
  <2> HIDE DEF p
  <2>3. "headers_complete" \in Heard(state, parser.flags) /\ state \notin ResponseStates
    BY HeardIs DEF ResponseStates, StatusLine
  <2>4. Fits(p, "headers_complete")
    BY <1>3, <2>2, <2>3 DEF Fits
  <2> QED
    BY <2>2, <2>4 DEF p
<1>6. ASSUME NEW state \in {"chunk_size_start", "body_identity_eof"},
             Take([parser EXCEPT !.state = state], call.mark, 0)
      PROVE  ReportInv'
  <2> DEFINE p == [parser EXCEPT !.state = state]
  <2>1. p \in Parsers /\ p.state = state /\ Fits(p, "headers_complete") /\ Take(p, call.mark, 0)
    BY <1>5, <1>6
  <2> HIDE DEF p
  <2>2. p.state \notin Opens \cup BodyLeft
    BY <2>1 DEF Opens, UrlNames, BodyLeft
  <2> QED
    BY <1>1, <1>2, <2>1, <2>2, TakeQuiet
<1>7. ASSUME parser' = [parser EXCEPT !.state = "body_identity"], call' = NextByte(call.mark),
             told' = [told EXCEPT !.owed = parser.length]
      PROVE  ReportInv'
  <2>1. /\ parser' \in Parsers /\ parser'.state = "body_identity"
        /\ parser'.length = parser.length /\ Fits(parser', "headers_complete")
    BY <1>5, <1>7
  <2>2. /\ told' \in Reports /\ told'.last = "headers_complete" /\ told'.due = 0
        /\ told'.owed = parser.length /\ ~told'.bareCR
    BY <1>1, <1>2, <1>7, QuietNow DEF Reports, Parsers
  <2>3. \A s \in Spans : call'.mark[s] = 0
    BY <1>1, <1>7, QuietNext
  <2>4. parser'.state \notin Opens /\ parser'.state \in BodyLeft
    BY <2>1 DEF Opens, UrlNames, BodyLeft
  <2>5. MarkedOK(parser', call', told') /\ BytesOK(parser', call', told')
    BY <2>1, <2>2, <2>3, <2>4, QuietBytes
  <2>6. LastOK(parser', call', told')
    BY <2>1, <2>2 DEF LastOK
  <2> QED
    BY <2>2, <2>5, <2>6 DEF ReportInv
<1> QED
  BY <1>4, <1>6, <1>7 DEF HeadersDone

(* In a body without trailer a callback fits a state as soon as Heard has  *)
(* it.                                                                     *)
LEMMA BodyFits ==
  ASSUME ParserInv, ReportInv, NEW p, p.flags = parser.flags, "TRAILING" \notin parser.flags,
         NEW name, name \in Heard(p.state, p.flags),
         p.state \in BodyStates \cup ChunkStates
  PROVE  Fits(p, name)
<1>1. p.state \notin ResponseStates /\ p.state \notin {"header_field_start", "header_field",
                                                      "headers_almost_done"}
  BY DEF BodyStates, ChunkStates, ResponseStates, StatusLine
<1> QED
  BY <1>1 DEF Fits

(* At a byte of a body its mark is the only one, and spans the bytes due. *)
LEMMA MarkBody ==
  ASSUME ParserInv, ReportInv, HttpParserAssumption, call.running, call.left > 0,
         parser.state \in BodyLeft \cup {"body_identity_eof"}
  PROVE  /\ \A o \in Spans : o # "body" => Mark("body")[o] = 0
         /\ Mark("body")["body"] \in Int /\ Mark("body")["body"] # 0
         /\ told.due = Mark("body")["body"] - call.left
         /\ \A o \in Spans : Unmark("body")[o] = 0
<1>1. "body" \in Spans /\ parser.state \in MarkStates["body"] /\ parser.errno # "ERROR"
      /\ call.left \in Int
  BY SpansAre, CallFacts DEF MarkStates, BodyLeft, Calls
<1>2. /\ Mark("body")["body"] = IF call.mark["body"] = 0 THEN call.left ELSE call.mark["body"]
      /\ \A o \in Spans : o # "body" => Mark("body")[o] = call.mark[o]
  BY <1>1, MarkIs
<1>3. \A o \in Spans : Unmark("body")[o] = 0
  BY <1>1, MarkOne
<1> QED
  BY <1>1, <1>2, <1>3, BodyNow

(* A run of bytes of a body of known length keeps ReportInv. *)
LEMMA BodyIdentityReports ==
  ASSUME ParserInv, ReportInv, HttpParserAssumption, BodyIdentity
  PROVE  ReportInv'
<1>1. /\ InBody("body_identity") /\ parser.state = "body_identity" /\ parser.length > 0
      /\ call.running /\ call.left > 0 /\ parser.errno = "OK" /\ parser \in Parsers
      /\ call.left \in Int /\ parser.length \in Int
  <2>1. InBody("body_identity") /\ parser.state = "body_identity" /\ parser.length > 0
    BY BodyFacts DEF BodyIdentity, BodyIdentityUntil, ParserOK, StateOK, InBody
  <2>2. /\ call.running /\ call.left > 0 /\ parser.errno = "OK" /\ parser \in Parsers
        /\ call.left \in 0 .. MaxBuffer
    BY <2>1, BodyFacts
  <2>3. call.left \in Int /\ parser.length \in Int
    BY <2>2 DEF Parsers
  <2> QED
    BY <2>1, <2>2, <2>3
<1>2. parser.state \in BodyLeft
  BY <1>1 DEF BodyLeft
<1>3. /\ told \in Reports /\ ~told.bareCR /\ told.owed = parser.length + told.due
      /\ "TRAILING" \notin parser.flags /\ told.due \in Int
  BY <1>1, <1>2, BodyNow DEF Reports
<1>4. told.last \in {"headers_complete", "body"}
  BY <1>1, Known, HeardIs DEF Fits
<1> DEFINE read == ToRead
           n == parser.length - read
           left == call.left - read
           at == Mark("body")["body"]
           p == [parser EXCEPT !.length = n]
<1>5. /\ n \in 0 .. LengthMax /\ left \in Int /\ read \in Int
  BY <1>1, ToReadIs
<1>6. /\ at \in Int /\ at # 0 /\ told.due = at - call.left
      /\ \A o \in Spans : o # "body" => Mark("body")[o] = 0
      /\ \A o \in Spans : Unmark("body")[o] = 0
  BY <1>1, <1>2, MarkBody
<1>7. \/ /\ p.length > 0 /\ parser' = p /\ call' = GoesOn(left, Mark("body"))
         /\ told' = [told EXCEPT !.due = @ + read]
      \/ \E answer \in Errno :
           /\ ~(p.length > 0)
           /\ parser' = [p EXCEPT !.state = "message_done", !.errno = answer]
           /\ call' = IF answer = "OK" THEN GoesOn(left + 1, Unmark("body")) ELSE Returned(None)
           /\ told' = [Tell("body", at - left) EXCEPT !.due = @ + read]
  BY DEF BodyIdentity, BodyIdentityUntil, GoesOn
<1> HIDE DEF read
<1>8. n = parser.length - read /\ left = call.left - read
  OBVIOUS
<1> HIDE DEF n, left, at
<1>9. /\ p \in Parsers /\ p.length = n /\ p.state = "body_identity" /\ p.flags = parser.flags
  BY <1>1, <1>5 DEF Parsers, HttpParserAssumption
<1> HIDE DEF p
<1>10. /\ GoesOn(left, Mark("body")).mark = Mark("body")
       /\ GoesOn(left, Mark("body")).left = left
       /\ GoesOn(left + 1, Unmark("body")).mark = Unmark("body")
  BY CallFacts DEF GoesOn, Calls
<1>11. CASE /\ parser' = p /\ call' = GoesOn(left, Mark("body"))
            /\ told' = [told EXCEPT !.due = @ + read]
  <2>1. /\ told' \in Reports /\ told'.last = told.last /\ told'.due = told.due + read
        /\ told'.owed = told.owed /\ ~told'.bareCR
    BY <1>3, <1>5, <1>11 DEF Reports
  <2>2. /\ call'.left = left /\ call'.mark["body"] = at
        /\ \A o \in Spans : o # "body" => call'.mark[o] = 0
    BY <1>6, <1>10, <1>11 DEF at
  <2>3. told'.due = at - left /\ told'.owed = n + told'.due
    <3>1. /\ told.due \in Int /\ call.left \in Int /\ parser.length \in Int /\ at \in Int
          /\ left \in Int /\ read \in Int /\ left = call.left - read
          /\ n = parser.length - read /\ told.due = at - call.left
          /\ told.owed = parser.length + told.due
          /\ told'.due = told.due + read /\ told'.owed = told.owed
      BY <1>1, <1>3, <1>5, <1>6, <1>8, <2>1
    <3> QED
      BY <3>1
  <2>4. MarkedOK(p, call', told') /\ BytesOK(p, call', told')
    <3>1. /\ p.length \in Int /\ p.state \in BodyLeft /\ call'.left \in Int
          /\ call'.mark["body"] \in Int
      BY <1>2, <1>1, <1>5, <1>6, <1>9, <2>2
    <3>2. told'.due = IF call'.mark["body"] = 0 THEN 0 ELSE call'.mark["body"] - call'.left
      BY <1>6, <2>2, <2>3
    <3>3. told'.owed = IF p.state \in BodyLeft THEN p.length + told'.due ELSE 0
      BY <1>9, <2>3, <3>1
    <3> QED
      BY <1>9, <2>1, <2>2, <3>1, <3>2, <3>3, BodyBytes
  <2>5. Fits(p, told.last)
    <3>1. told.last \in Heard(p.state, p.flags)
      BY <1>1, <1>9, Known DEF Fits
    <3> QED
      BY <1>1, <1>3, <1>9, <3>1, BodyFits DEF BodyStates
  <2>6. LastOK(p, call', told')
    BY <1>9, <2>1, <2>5 DEF LastOK
  <2> QED
    BY <1>11, <2>1, <2>4, <2>6 DEF ReportInv
<1>12. ASSUME NEW answer \in Errno, ~(p.length > 0),
              parser' = [p EXCEPT !.state = "message_done", !.errno = answer],
              call' = IF answer = "OK" THEN GoesOn(left + 1, Unmark("body")) ELSE Returned(None),
              told' = [Tell("body", at - left) EXCEPT !.due = @ + read]
       PROVE  ReportInv'
  <2>1. <<told.last, "body", "body">> \in Order /\ ~SkipsUrl("body") /\ at - left \in Int
    BY <1>4, <1>5, <1>6, InOrder DEF SkipsUrl
  <2>2. /\ Tell("body", at - left) \in Reports /\ Tell("body", at - left).last = "body"
        /\ Tell("body", at - left).due = told.due - (at - left)
        /\ Tell("body", at - left).bareCR = FALSE
        /\ Tell("body", at - left).owed = told.owed - (at - left)
    BY <1>1, <1>3, <2>1, TellIs DEF Reports
  <2>3. /\ told' \in Reports /\ told'.last = "body" /\ ~told'.bareCR
        /\ told'.due = told.due - (at - left) + read /\ told'.owed = told.owed - (at - left)
    BY <1>3, <1>5, <1>6, <1>12, <2>2 DEF Reports
  <2>4. told'.due = 0 /\ told'.owed = 0
    <3>1. n = 0
      BY <1>5, <1>9, <1>12
    <3> QED
      BY <1>1, <1>3, <1>5, <1>6, <1>8, <2>3, <3>1
  <2>5. /\ parser' \in Parsers /\ parser'.state = "message_done" /\ parser'.flags = parser.flags
    BY <1>9, <1>12, NamedStates DEF Parsers, SimpleStates
  <2>6. \A s \in Spans : call'.mark[s] = 0
    BY <1>6, <1>10, <1>12, ReturnedIs
  <2>7. parser'.state \notin Opens /\ parser'.state \notin BodyLeft
    BY <2>5 DEF Opens, UrlNames, BodyLeft
  <2>8. MarkedOK(parser', call', told') /\ BytesOK(parser', call', told')
    BY <2>3, <2>4, <2>5, <2>6, <2>7, QuietBytes
  <2>9. Fits(parser', "body")
    <3>1. "body" \in Heard("message_done", parser.flags)
      BY HeardIs
    <3> QED
      BY <1>3, <2>5, <3>1, BodyFits DEF BodyStates
  <2>10. LastOK(parser', call', told')
    BY <2>3, <2>5, <2>9 DEF LastOK
  <2> QED
    BY <2>3, <2>8, <2>10 DEF ReportInv
<1> QED
  BY <1>7, <1>11, <1>12

(* A run of bytes of a body that ends with the connection keeps ReportInv. *)
LEMMA BodyIdentityEofReports ==
  ASSUME ParserInv, ReportInv, HttpParserAssumption, BodyIdentityEof
  PROVE  ReportInv'
<1>1. /\ InBody("body_identity_eof") /\ parser' = parser /\ call' = GoesOn(0, Mark("body"))
      /\ told' = [told EXCEPT !.due = @ + call.left]
  BY DEF BodyIdentityEof, GoesOn
<1>2. /\ call.running /\ call.left > 0 /\ parser.errno = "OK" /\ parser \in Parsers
      /\ parser.state = "body_identity_eof" /\ call.left \in Int /\ parser.length \in Int
      /\ parser.state \notin BodyLeft
  BY <1>1, BodyFacts DEF Parsers, BodyLeft
<1>3. /\ told \in Reports /\ ~told.bareCR /\ told.owed = 0 /\ told.due \in Int
  BY <1>2, BodyNow DEF Reports
<1>4. /\ Mark("body")["body"] \in Int /\ Mark("body")["body"] # 0
      /\ told.due = Mark("body")["body"] - call.left
      /\ \A o \in Spans : o # "body" => Mark("body")[o] = 0
  BY <1>2, MarkBody
<1>5. call'.left = 0 /\ call'.mark = Mark("body")
  BY <1>1, CallFacts DEF GoesOn, Calls
<1>6. /\ told' \in Reports /\ told'.last = told.last /\ told'.due = told.due + call.left
      /\ told'.owed = 0 /\ ~told'.bareCR
  BY <1>1, <1>2, <1>3 DEF Reports
<1>7. MarkedOK(parser', call', told') /\ BytesOK(parser', call', told')
  <2>1. told'.due = call'.mark["body"] - call'.left /\ call'.mark["body"] \in Int
    BY <1>2, <1>3, <1>4, <1>5, <1>6
  <2>2. \A o \in Spans : o # "body" => call'.mark[o] = 0
    BY <1>4, <1>5
  <2>3. told'.due = IF call'.mark["body"] = 0 THEN 0 ELSE call'.mark["body"] - call'.left
    BY <1>4, <1>5, <2>1
  <2>4. told'.owed = IF parser.state \in BodyLeft THEN parser.length + told'.due ELSE 0
    BY <1>2, <1>6
  <2>5. /\ parser.state \in BodyLeft \cup {"body_identity_eof"} /\ call'.left \in Int
        /\ parser.length \in Int
    BY <1>2, <1>5
  <2>6. MarkedOK(parser, call', told') /\ BytesOK(parser, call', told')
    BY <1>2, <1>6, <2>1, <2>2, <2>3, <2>4, <2>5, BodyBytes
  <2> QED
    BY <1>1, <2>6
<1>8. LastOK(parser', call', told')
  BY <1>1, <1>2, <1>6 DEF ReportInv, LastOK, Fits
<1> QED
  BY <1>6, <1>7, <1>8 DEF ReportInv

(* The states of a chunk header. *)
ChunkHeads == {"chunk_size_start", "chunk_size", "chunk_parameters", "chunk_size_almost_done"}

(* In a chunk header the last callback was headers_complete or             *)
(* chunk_complete.                                                         *)
LEMMA ChunkHeadNow ==
  ASSUME ParserInv, ReportInv, call.running, parser.state \in ChunkHeads
  PROVE  /\ told.last \in {"headers_complete", "chunk_complete"} /\ ~told.bareCR
         /\ "TRAILING" \notin parser.flags /\ told \in Reports /\ parser.errno = "OK"
         /\ parser.state \notin SpanStates /\ parser.state \notin BodyLeft /\ parser \in Parsers
<1>1. /\ parser.state \notin SpanStates /\ parser.state \notin BodyLeft
      /\ parser.state \notin TrailerStates
      /\ parser.state \notin {"header_value", "header_almost_done", "header_value_lws"}
  BY DEF ChunkHeads, SpanStates, UrlNames, BodyLeft, TrailerStates, StartStates, HeaderNames
<1>2. Heard(parser.state, parser.flags) = {"headers_complete", "chunk_complete"}
  BY HeardIs DEF ChunkHeads
<1> QED
  BY <1>1, <1>2, Known, NotTrailing, CallFacts DEF Fits

(* Moving on in a chunk header keeps ReportInv. *)
LEMMA TakeChunkHead ==
  ASSUME ParserInv, ReportInv, call.running, parser.state \in ChunkHeads, NEW p \in Parsers,
         p.state \in ChunkHeads, p.flags = parser.flags, Take(p, call.mark, 0)
  PROVE  ReportInv'
<1>1. /\ told.last \in {"headers_complete", "chunk_complete"} /\ ~told.bareCR
      /\ "TRAILING" \notin parser.flags /\ parser.state \notin SpanStates
  BY ChunkHeadNow
<1>2. Heard(p.state, p.flags) = {"headers_complete", "chunk_complete"}
  BY HeardIs DEF ChunkHeads
<1>3. p.state \notin Opens \cup BodyLeft /\ p.state # "body_identity_eof"
  BY DEF ChunkHeads, Opens, UrlNames, BodyLeft
<1>4. Fits(p, told.last)
  <2>1. p.state \notin ResponseStates /\ p.state \notin {"header_field_start", "header_field",
                                                         "headers_almost_done"}
    BY DEF ChunkHeads, ResponseStates, StatusLine
  <2> QED
    BY <1>1, <1>2, <2>1 DEF Fits
<1> QED
  BY <1>1, <1>3, <1>4, TakeQuiet

(* The first digit of a chunk size keeps ReportInv. *)
LEMMA ChunkSizeStartReports ==
  ASSUME ParserInv, ReportInv, HttpParserAssumption, NEW ch \in Bytes, ChunkSizeStart(ch)
  PROVE  ReportInv'
<1>1. call.running /\ parser.state \in ChunkHeads /\ parser \in Parsers
  BY CaseFacts DEF ChunkSizeStart, ChunkHeads
<1>2. CASE Error
  BY <1>1, <1>2, ChunkHeadNow, ErrorQuiet
<1>3. ASSUME ch \in DOMAIN unhex,
             Take([parser EXCEPT !.length = unhex[ch], !.state = "chunk_size"], call.mark, 0)
      PROVE  ReportInv'
  <2> DEFINE n == unhex[ch]
             p == [parser EXCEPT !.length = n, !.state = "chunk_size"]
  <2>1. n \in -1 .. LengthMax /\ "chunk_size" \in States
    BY <1>3, UnhexIs, NamedStates DEF HttpParserAssumption, ChunkStates
  <2>2. Take(p, call.mark, 0)
    BY <1>3
  <2> HIDE DEF n
  <2>3. p \in Parsers /\ p.state = "chunk_size" /\ p.flags = parser.flags
    BY <1>1, <2>1 DEF Parsers
  <2> HIDE DEF p
  <2> QED
    BY <1>1, <2>2, <2>3, TakeChunkHead DEF ChunkHeads
<1> QED
  BY <1>2, <1>3 DEF ChunkSizeStart

(* A further digit of a chunk size, refused before it overflows, keeps     *)
(* ReportInv.                                                              *)
LEMMA ChunkSizeReports ==
  ASSUME ParserInv, ReportInv, HttpParserAssumption, NEW ch \in Bytes, ChunkSize(ch)
  PROVE  ReportInv'
<1>1. /\ call.running /\ parser.state \in ChunkHeads /\ parser \in Parsers
      /\ parser.state = "chunk_size" /\ parser.length >= 0 /\ ch \in DOMAIN unhex
  BY CaseFacts DEF ChunkSize, ChunkHeads, ParserOK, StateOK
<1>2. CASE Error
  BY <1>1, <1>2, ChunkHeadNow, ErrorQuiet
<1>3. ASSUME parser.length <= (LengthMax - unhex[ch]) \div 16,
             Take([parser EXCEPT !.length = @ * 16 + unhex[ch]], call.mark, 0)
      PROVE  ReportInv'
  <2> DEFINE n == parser.length * 16 + unhex[ch]
             p == [parser EXCEPT !.length = n]
  <2>1. n \in 0 .. LengthMax
    BY <1>1, <1>3, UnhexIs DEF HttpParserAssumption, Parsers
  <2>2. Take(p, call.mark, 0)
    BY <1>3
  <2> HIDE DEF n
  <2>3. p \in Parsers /\ p.state = "chunk_size" /\ p.flags = parser.flags
    BY <1>1, <2>1 DEF Parsers
  <2> HIDE DEF p
  <2> QED
    BY <1>1, <2>2, <2>3, TakeChunkHead
<1> QED
  BY <1>2, <1>3 DEF ChunkSize

(* The end of a chunk header, with or without a chunk, keeps ReportInv. *)
LEMMA ChunkSizeAlmostDoneReports ==
  ASSUME ParserInv, ReportInv, HttpParserAssumption, NEW ch \in Bytes, ChunkSizeAlmostDone(ch)
  PROVE  ReportInv'
<1>1. /\ call.running /\ parser.state \in ChunkHeads /\ parser.length \in Int
  BY CaseFacts DEF ChunkSizeAlmostDone, ChunkHeads, Parsers
<1>2. /\ told.last \in {"headers_complete", "chunk_complete"} /\ ~told.bareCR
      /\ "TRAILING" \notin parser.flags /\ told \in Reports /\ parser.errno = "OK"
      /\ parser.state \notin SpanStates /\ parser.state \notin BodyLeft /\ parser \in Parsers
  BY <1>1, ChunkHeadNow
<1>3. \A s \in Spans : NextByte(call.mark).mark[s] = 0
  BY <1>1, <1>2, QuietNext
<1>4. /\ <<told.last, "chunk_header", "chunk_header">> \in Order /\ ~SkipsUrl("chunk_header")
      /\ <<told.last, "last_chunk", "last_chunk">> \in Order /\ ~SkipsUrl("last_chunk")
  BY <1>2, InOrder DEF SkipsUrl
<1>5. ASSUME parser.length = 0,
             Notify([parser EXCEPT !.flags = @ \cup {"TRAILING"}, !.state = "header_field_start"],
                    "last_chunk", NextByte(call.mark), None)
      PROVE  ReportInv'
  <2> DEFINE flags == parser.flags \cup {"TRAILING"}
             p == [parser EXCEPT !.flags = flags, !.state = "header_field_start"]
  <2>1. flags \in SUBSET Flags /\ "TRAILING" \in flags /\ "header_field_start" \in States
    BY <1>2, NamedStates DEF Parsers, Flags, SimpleStates
  <2>2. Notify(p, "last_chunk", NextByte(call.mark), None)
    BY <1>5
  <2> HIDE DEF flags
  <2>3. p \in Parsers /\ p.state = "header_field_start" /\ p.flags = flags
    BY <1>2, <2>1 DEF Parsers
  <2> HIDE DEF p
  <2>4. Fits(p, "last_chunk")
    <3>1. "last_chunk" \in Heard("header_field_start", flags)
      BY <2>1, HeardOfHeaders
    <3>2. p.state \in TrailerStates /\ p.state \notin ResponseStates
      BY <2>3 DEF TrailerStates, HeaderNames, ResponseStates, StatusLine
    <3> QED
      BY <2>3, <3>1, <3>2 DEF Fits
  <2>5. p.state \notin SpanStates /\ p.state \notin BodyLeft
    BY <2>3 DEF SpanStates, UrlNames, BodyLeft
  <2> QED
    BY <1>2, <1>3, <1>4, <1>5, <2>2, <2>3, <2>4, <2>5, NotifyQuiet
<1>6. ASSUME Notify([parser EXCEPT !.state = "chunk_data"], "chunk_header",
                    NextByte(call.mark), None)
      PROVE  ReportInv'
  <2> DEFINE p == [parser EXCEPT !.state = "chunk_data"]
  <2>1. /\ p \in Parsers /\ p.state = "chunk_data" /\ p.flags = parser.flags
        /\ p.length = parser.length
    BY <1>2, NamedStates DEF Parsers, ChunkStates
  <2>2. Notify(p, "chunk_header", NextByte(call.mark), None)
    BY <1>6
  <2> HIDE DEF p
  <2>3. Fits(p, "chunk_header")
    <3>1. "chunk_header" \in Heard("chunk_data", parser.flags)
      BY HeardIs
    <3> QED
      BY <1>2, <2>1, <3>1, BodyFits DEF BodyStates
  <2>4. p.state \in BodyLeft /\ p.state \notin SpanStates \ {"chunk_data"}
    BY <2>1 DEF BodyLeft
  <2> QED
    BY <1>2, <1>3, <1>4, <2>1, <2>2, <2>3, <2>4, NotifyQuiet
<1> QED
  BY <1>5, <1>6 DEF ChunkSizeAlmostDone

(* A run of bytes of a chunk keeps ReportInv. *)
LEMMA ChunkDataReports ==
  ASSUME ParserInv, ReportInv, HttpParserAssumption, ChunkData
  PROVE  ReportInv'
<1>1. /\ InBody("chunk_data") /\ parser.state = "chunk_data" /\ parser.length > 0
      /\ call.running /\ call.left > 0 /\ parser.errno = "OK" /\ parser \in Parsers
      /\ call.left \in Int /\ parser.length \in Int
  <2>1. InBody("chunk_data") /\ parser.state = "chunk_data" /\ parser.length > 0
    BY BodyFacts DEF ChunkData, ParserOK, StateOK, InBody
  <2>2. /\ call.running /\ call.left > 0 /\ parser.errno = "OK" /\ parser \in Parsers
        /\ call.left \in 0 .. MaxBuffer
    BY <2>1, BodyFacts
  <2>3. call.left \in Int /\ parser.length \in Int
    BY <2>2 DEF Parsers
  <2> QED
    BY <2>1, <2>2, <2>3
<1>2. parser.state \in BodyLeft
  BY <1>1 DEF BodyLeft
<1>3. /\ told \in Reports /\ ~told.bareCR /\ told.owed = parser.length + told.due
      /\ "TRAILING" \notin parser.flags /\ told.due \in Int
  BY <1>1, <1>2, BodyNow DEF Reports
<1> DEFINE read == ToRead
           n == parser.length - read
           left == call.left - read
           at == Mark("body")["body"]
           state == IF parser.length = read THEN "chunk_data_almost_done" ELSE "chunk_data"
           p == [parser EXCEPT !.length = n, !.state = state]
<1>4. n \in -1 .. LengthMax /\ left \in Int /\ read \in Int
  BY <1>1, ToReadIs DEF HttpParserAssumption
<1>5. /\ at \in Int /\ at # 0 /\ told.due = at - call.left
      /\ \A o \in Spans : o # "body" => Mark("body")[o] = 0
  BY <1>1, <1>2, MarkBody
<1>6. /\ parser' = p /\ call' = GoesOn(left, Mark("body"))
      /\ told' = [told EXCEPT !.due = @ + read]
  BY <1>1 DEF ChunkData, GoesOn
<1>7. state \in {"chunk_data", "chunk_data_almost_done"} /\ state \in States
  BY NamedStates DEF ChunkStates
<1> HIDE DEF read
<1>8. n = parser.length - read /\ left = call.left - read
  OBVIOUS
<1> HIDE DEF n, left, at, state
<1>9. /\ p \in Parsers /\ p.length = n /\ p.state = state /\ p.flags = parser.flags
  BY <1>1, <1>4, <1>7 DEF Parsers
<1> HIDE DEF p
<1>10. GoesOn(left, Mark("body")).mark = Mark("body") /\ GoesOn(left, Mark("body")).left = left
  BY CallFacts DEF GoesOn, Calls
<1>11. /\ told' \in Reports /\ told'.last = told.last /\ told'.due = told.due + read
       /\ told'.owed = told.owed /\ ~told'.bareCR
  BY <1>3, <1>4, <1>6 DEF Reports
<1>12. /\ call'.left = left /\ call'.mark["body"] = at
       /\ \A o \in Spans : o # "body" => call'.mark[o] = 0
  BY <1>5, <1>6, <1>10 DEF at
<1>13. told'.due = at - left /\ told'.owed = n + told'.due
  <2>1. /\ told.due \in Int /\ call.left \in Int /\ parser.length \in Int /\ at \in Int
        /\ left \in Int /\ read \in Int /\ left = call.left - read
        /\ n = parser.length - read /\ told.due = at - call.left
        /\ told.owed = parser.length + told.due
        /\ told'.due = told.due + read /\ told'.owed = told.owed
    BY <1>1, <1>3, <1>4, <1>5, <1>8, <1>11
  <2> QED
    BY <2>1
<1>14. MarkedOK(p, call', told') /\ BytesOK(p, call', told')
  <2>1. /\ p.state \in BodyLeft /\ call'.left \in Int /\ call'.mark["body"] \in Int
        /\ p.state \in BodyLeft \cup {"body_identity_eof"}
    BY <1>4, <1>5, <1>7, <1>9, <1>12 DEF BodyLeft
  <2>2. told'.due = IF call'.mark["body"] = 0 THEN 0 ELSE call'.mark["body"] - call'.left
    BY <1>5, <1>12, <1>13
  <2>3. told'.owed = IF p.state \in BodyLeft THEN p.length + told'.due ELSE 0
    BY <1>9, <1>13, <2>1
  <2> QED
    BY <1>9, <1>11, <1>12, <2>1, <2>2, <2>3, BodyBytes
<1>15. Fits(p, told.last)
  <2>1. told.last \in {"chunk_header", "chunk_body"}
    BY <1>1, Known, HeardIs DEF Fits
  <2>2. told.last \in Heard(p.state, p.flags)
    BY <1>7, <1>9, <2>1, HeardIs
  <2>3. p.state \in BodyStates \cup ChunkStates
    BY <1>7, <1>9 DEF BodyStates
  <2> QED
    BY <1>3, <1>9, <2>2, <2>3, BodyFits
<1>16. LastOK(p, call', told')
  BY <1>5, <1>7, <1>9, <1>11, <1>12, <1>15 DEF LastOK
<1> QED
  BY <1>6, <1>11, <1>14, <1>16 DEF ReportInv

(* The CR after a chunk, at which its bytes are reported, keeps ReportInv. *)
LEMMA ChunkDataAlmostDoneReports ==
  ASSUME ParserInv, ReportInv, HttpParserAssumption, NEW ch \in Bytes, ChunkDataAlmostDone(ch)
  PROVE  ReportInv'
<1>1. /\ call.running /\ call.left > 0 /\ parser.errno = "OK" /\ parser \in Parsers
      /\ parser.state = "chunk_data_almost_done" /\ parser.length = 0 /\ call.left \in Int
  BY CaseFacts DEF ChunkDataAlmostDone, ParserOK, StateOK, Calls
<1>2. "body" \in Spans /\ parser.state \in MarkStates["body"] /\ parser.state \in BodyLeft
  BY <1>1, SpansAre DEF MarkStates, BodyLeft
<1> DEFINE at == call.mark["body"]
           p == [parser EXCEPT !.state = "chunk_data_done"]
<1>3. /\ told \in Reports /\ ~told.bareCR /\ told.owed = told.due
      /\ "TRAILING" \notin parser.flags
      /\ told.due = (IF at = 0 THEN 0 ELSE at - call.left) /\ at \in Int
  BY <1>1, <1>2, BodyNow DEF Reports
<1>4. p \in Parsers /\ p.state = "chunk_data_done" /\ p.flags = parser.flags
  BY <1>1, NamedStates DEF Parsers, ChunkStates
<1>5. Data(p, "body", at, call.left, NextByte(Unmark("body")), None)
  BY DEF ChunkDataAlmostDone
<1> HIDE DEF p
<1>6. \A o \in Spans : NextByte(Unmark("body")).mark[o] = 0
  BY <1>1, <1>2, UnmarkAll
<1>7. Fits(p, "chunk_body")
  <2>1. "chunk_body" \in Heard(p.state, p.flags)
    BY <1>4, HeardIs
  <2> QED
    BY <1>3, <1>4, <2>1, BodyFits DEF BodyStates
<1>8. told.last \in {"chunk_header", "chunk_body"} /\ (told.last = "chunk_header" => at # 0)
  <2>1. told.last \in {"chunk_header", "chunk_body"}
    BY <1>1, Known, HeardIs DEF Fits
  <2> QED
    BY <1>1, <2>1, Known DEF LastOK
<1> HIDE DEF at
<1>9. CASE at = 0
  <2>1. parser' = p /\ call' = NextByte(Unmark("body")) /\ told' = told
    BY <1>5, <1>9 DEF Data
  <2>2. told.due = 0 /\ told.owed = 0 /\ told.last = "chunk_body"
    BY <1>3, <1>8, <1>9
  <2>3. p.state \notin Opens /\ p.state \notin BodyLeft
    BY <1>4 DEF Opens, UrlNames, BodyLeft
  <2>4. MarkedOK(p, call', told') /\ BytesOK(p, call', told')
    BY <1>3, <1>4, <1>6, <2>1, <2>2, <2>3, QuietBytes
  <2>5. LastOK(p, call', told')
    BY <1>4, <1>7, <2>1, <2>2 DEF LastOK
  <2> QED
    BY <1>3, <2>1, <2>4, <2>5 DEF ReportInv
<1>10. CASE at # 0
  <2>1. PICK answer \in Errno :
          /\ parser' = [p EXCEPT !.errno = answer]
          /\ call' = IF answer = "OK" THEN NextByte(Unmark("body")) ELSE Returned(None)
          /\ told' = Tell("body", at - call.left)
    BY <1>5, <1>10 DEF Data
  <2>2. /\ <<told.last, "body", "chunk_body">> \in Order /\ ~SkipsUrl("body")
        /\ at - call.left \in Int
    BY <1>1, <1>3, <1>8, InOrder, SMTT(30) DEF SkipsUrl
  <2>3. /\ told' \in Reports /\ told'.last = "chunk_body" /\ told'.bareCR = FALSE
        /\ told'.due = told.due - (at - call.left) /\ told'.owed = told.owed - (at - call.left)
    BY <1>1, <1>3, <2>1, <2>2, TellIs
  <2>4. told'.due = 0 /\ told'.owed = 0
    BY <1>1, <1>3, <1>10, <2>2, <2>3
  <2>5. /\ parser' \in Parsers /\ parser'.state = "chunk_data_done" /\ parser'.flags = p.flags
        /\ parser'.type = p.type
    BY <1>4, <2>1, ErrnoSame
  <2>6. \A s \in Spans : call'.mark[s] = 0
    BY <1>6, <2>1, ReturnedIs
  <2>7. parser'.state \notin Opens /\ parser'.state \notin BodyLeft
    BY <2>5 DEF Opens, UrlNames, BodyLeft
  <2>8. MarkedOK(parser', call', told') /\ BytesOK(parser', call', told')
    BY <2>3, <2>4, <2>5, <2>6, <2>7, QuietBytes
  <2>9. LastOK(parser', call', told')
    BY <1>4, <1>7, <2>3, <2>5 DEF LastOK, Fits
  <2> QED
    BY <2>3, <2>8, <2>9 DEF ReportInv
<1> QED
  BY <1>9, <1>10

(* The LF after a chunk keeps ReportInv. *)
LEMMA ChunkDataDoneReports ==
  ASSUME ParserInv, ReportInv, HttpParserAssumption, NEW ch \in Bytes, ChunkDataDone(ch)
  PROVE  ReportInv'
<1>1. /\ call.running /\ call.left > 0 /\ parser.errno = "OK" /\ parser \in Parsers
      /\ parser.state = "chunk_data_done" /\ parser.state \notin SpanStates
      /\ parser.state \notin TrailerStates
  BY CaseFacts DEF ChunkDataDone, SpanStates, UrlNames, TrailerStates, StartStates,
     HeaderNames
<1>2. told.last = "chunk_body" /\ ~told.bareCR /\ "TRAILING" \notin parser.flags
  BY <1>1, Known, HeardIs, NotTrailing DEF Fits
<1> DEFINE p == [parser EXCEPT !.state = "chunk_size_start"]
<1>3. p \in Parsers /\ p.state = "chunk_size_start" /\ p.flags = parser.flags
  BY <1>1, NamedStates DEF Parsers, ChunkStates
<1>4. Notify(p, "chunk_complete", NextByte(call.mark), None)
  BY DEF ChunkDataDone
<1> HIDE DEF p
<1>5. <<told.last, "chunk_complete", "chunk_complete">> \in Order /\ ~SkipsUrl("chunk_complete")
  BY <1>2, InOrder DEF SkipsUrl
<1>6. \A s \in Spans : NextByte(call.mark).mark[s] = 0
  BY <1>1, QuietNext
<1>7. Fits(p, "chunk_complete")
  <2>1. "chunk_complete" \in Heard(p.state, p.flags)
    BY <1>3, HeardIs
  <2> QED
    BY <1>2, <1>3, <2>1, BodyFits DEF ChunkStates
<1>8. p.state \notin SpanStates /\ p.state \notin BodyLeft
  BY <1>3 DEF SpanStates, UrlNames, BodyLeft
<1> QED
  BY <1>1, <1>2, <1>3, <1>4, <1>5, <1>6, <1>7, <1>8, NotifyQuiet

(* Returning with nothing marked keeps ReportInv. *)
LEMMA Rests ==
  ASSUME ParserInv, ReportInv, parser.errno # "ERROR", \A s \in Spans : call.mark[s] = 0,
         parser'.state = parser.state, parser'.flags = parser.flags,
         parser'.type = parser.type, parser'.length = parser.length,
         ~call'.running, \A s \in Spans : call'.mark[s] = 0, told' = told
  PROVE  ReportInv'
<1>1. "body" \in Spans
  BY SpansAre
<1>2. LastOK(parser', call', told')
  BY <1>1 DEF ReportInv, LastOK, Fits
<1>3. MarkedOK(parser', call', told') /\ BytesOK(parser', call', told')
  BY <1>1 DEF ReportInv, MarkedOK, BytesOK
<1> QED
  BY <1>2, <1>3 DEF ReportInv

(* Reporting the part of a range before the end of the buffer keeps        *)
(* ReportInv.                                                              *)
LEMMA BufferEnds ==
  ASSUME ParserInv, ReportInv, HttpParserAssumption, call.running, call.left = 0,
         NEW s \in Spans \ {"body"}, call.mark[s] # 0,
         NEW name, <<told.last, s, name>> \in Order, ~SkipsUrl(s), Fits(parser, name),
         parser.state = "header_value" => name \in {"header_value", "trailer_value"},
         Data(parser, s, call.mark[s], 0, Returned(None), None)
  PROVE  ReportInv'
<1>1. parser.state \in MarkStates[s] /\ parser \in Parsers
  BY CallFacts DEF ParserInv, CallOK, Marked
<1>2. /\ call.mark[s] \in Int /\ told.owed = 0
      /\ ~told.bareCR => told.due = call.mark[s] - 0
  BY <1>1, SpanNow
<1>3. parser.state \notin BodyLeft \cup {"body_identity_eof"}
  BY <1>1, SpansAre, UrlStatesAre DEF MarkStates, BodyLeft, UrlNames
<1>4. /\ ~Returned(None).running
      /\ \A o \in Spans : Returned(None).mark[o] = 0
  BY ReturnedIs
<1>5. 0 \in Int
  OBVIOUS
<1>6. told.bareCR => parser.state \in {"header_value", "header_almost_done", "header_value_lws"}
  BY Known
<1> QED
  BY <1>1, <1>2, <1>3, <1>4, <1>5, <1>6, DataEnds

(* The same for a body, whose owed bytes are then those still to be read. *)
LEMMA BodyBufferEnds ==
  ASSUME ParserInv, ReportInv, HttpParserAssumption, call.running, call.left = 0,
         call.mark["body"] # 0,
         Data(parser, "body", call.mark["body"], 0, Returned(None), None)
  PROVE  ReportInv'
<1>1. /\ "body" \in Spans /\ parser \in Parsers /\ parser.errno = "OK"
      /\ parser.state \in BodyLeft \cup {"body_identity_eof"}
  BY SpansAre, CallFacts DEF ParserInv, CallOK, Marked, MarkStates, BodyLeft
<1> DEFINE at == call.mark["body"]
           name == IF parser.state \in {"chunk_data", "chunk_data_almost_done"}
                   THEN "chunk_body" ELSE "body"
<1>2. /\ told \in Reports /\ ~told.bareCR /\ at \in Int /\ told.due = at
      /\ parser.length \in Int
      /\ told.owed = (IF parser.state \in BodyLeft THEN parser.length + told.due ELSE 0)
      /\ "TRAILING" \notin parser.flags
  BY <1>1, BodyNow DEF Parsers
<1>3. PICK answer \in Errno :
        /\ parser' = [parser EXCEPT !.errno = answer]
        /\ call' = IF answer = "OK" THEN Returned(None) ELSE Returned(None)
        /\ told' = Tell("body", at - 0)
  BY DEF Data
<1>4. call' = Returned(None) /\ told' = Tell("body", at)
  BY <1>2, <1>3
<1>5. /\ told.last \in {"headers_complete", "body", "chunk_header", "chunk_body"}
      /\ <<told.last, "body", name>> \in Order /\ name \in Heard(parser.state, parser.flags)
      /\ name \notin {"chunk_header", "message_complete"}
  <2>1. CASE parser.state \in {"chunk_data", "chunk_data_almost_done"}
    <3>1. told.last \in {"chunk_header", "chunk_body"} /\ name = "chunk_body"
      BY <2>1, Known, HeardIs DEF Fits
    <3> QED
      BY <2>1, <3>1, InOrder, HeardIs, SMTT(30)
  <2>2. CASE parser.state \in {"body_identity", "body_identity_eof"}
    <3>1. told.last \in {"headers_complete", "body"} /\ name = "body"
      BY <2>2, Known, HeardIs DEF Fits, LastOK
    <3> QED
      BY <2>2, <3>1, InOrder, HeardIs, SMTT(30)
  <2> QED
    BY <1>1, <2>1, <2>2 DEF BodyLeft
<1> HIDE DEF at, name
<1>6. ~SkipsUrl("body")
  BY <1>5 DEF SkipsUrl
<1>7. /\ told' \in Reports /\ told'.last = name /\ told'.bareCR = FALSE
      /\ told'.due = told.due - at
      /\ parser.state # "body_identity_eof" => told'.owed = told.owed - at
      /\ parser.state = "body_identity_eof" => told'.owed = told.owed
  BY <1>1, <1>2, <1>4, <1>5, <1>6, TellIs
<1>8. /\ parser' \in Parsers /\ parser'.state = parser.state /\ parser'.flags = parser.flags
      /\ parser'.type = parser.type /\ parser'.length = parser.length
  BY <1>1, <1>3, ErrnoSame
<1>9. /\ told'.due = 0
      /\ told'.owed = IF parser'.state \in BodyLeft THEN parser'.length ELSE 0
  <2>1. parser.state = "body_identity_eof" => parser.state \notin BodyLeft
    BY DEF BodyLeft
  <2> QED
    BY <1>1, <1>2, <1>7, <1>8, <2>1
<1>10. ~call'.running /\ \A s \in Spans : call'.mark[s] = 0
  BY <1>4, ReturnedIs
<1>11. MarkedOK(parser', call', told') /\ BytesOK(parser', call', told')
  BY <1>7, <1>8, <1>9, <1>10, QuietBytes
<1>12. Fits(parser, name)
  <2>1. parser.state \in BodyStates
    BY <1>1 DEF BodyLeft, BodyStates
  <2> QED
    BY <1>2, <1>5, <2>1, BodyFits
<1>13. LastOK(parser', call', told')
  BY <1>5, <1>7, <1>8, <1>10, <1>12 DEF LastOK, Fits
<1> QED
  BY <1>7, <1>11, <1>13 DEF ReportInv

(* The end of a buffer keeps ReportInv: the open range is reported up to   *)
(* it.                                                                     *)
LEMMA EndOfBufferReports ==
  ASSUME ParserInv, ReportInv, HttpParserAssumption, EndOfBuffer
  PROVE  ReportInv'
<1>1. call.running /\ call.left = 0 /\ parser.errno = "OK"
  BY CallFacts DEF EndOfBuffer
<1>2. CASE parser.state \notin BodyStates /\ Error
  BY <1>2, ErrorQuiet DEF BodyStates, BodyLeft
<1>3. CASE call.mark = NoMark /\ call' = Returned(None) /\ parser' = parser /\ told' = told
  <2>1. \A s \in Spans : call.mark[s] = 0
    BY <1>3 DEF NoMark
  <2>2. ~call'.running /\ \A s \in Spans : call'.mark[s] = 0
    BY <1>3, ReturnedIs
  <2> QED
    BY <1>1, <1>3, <2>1, <2>2, Rests
<1>4. ASSUME NEW s \in Spans, call.mark[s] # 0,
             Data(parser, s, call.mark[s], 0, Returned(None), None)
      PROVE  ReportInv'
  <2>1. parser.state \in MarkStates[s]
    BY <1>4 DEF ParserInv, CallOK, Marked
  <2>2. Fits(parser, told.last) /\ told \in Reports
    BY Known
  <2>3. CASE s = "body"
    BY <1>1, <1>4, <2>3, BodyBufferEnds
  <2>4. CASE s = "url"
    <3>1. parser.state \in UrlNames
      BY <2>1, <2>4, UrlStatesAre DEF MarkStates
    <3>2. parser.state \notin ResponseStates /\ parser.state # "header_value"
          /\ parser.state \notin {"header_field_start", "header_field", "headers_almost_done"}
      BY <3>1 DEF UrlNames, ResponseStates, StatusLine
    <3>3. Heard(parser.state, parser.flags) = {"message_begin", "url"}
      BY <3>1, HeardIs
    <3>4. told.last \in {"message_begin", "url"}
      BY <2>2, <3>3 DEF Fits
    <3>5. <<told.last, "url", "url">> \in Order /\ ~SkipsUrl("url")
      BY <3>4, InOrder DEF SkipsUrl
    <3>6. Fits(parser, "url")
      BY <2>2, <3>2, <3>3 DEF Fits
    <3> QED
      BY <1>1, <1>4, <2>4, <3>2, <3>5, <3>6, BufferEnds
  <2>5. CASE s = "reason"
    <3>1. parser.state = "res_status"
      BY <2>1, <2>5 DEF MarkStates
    <3>2. Heard(parser.state, parser.flags) = {"message_begin", "reason"}
      BY <3>1, HeardIs
    <3>3. told.last \in {"message_begin", "reason"} /\ parser.type # "request"
      BY <2>2, <3>1, <3>2 DEF Fits, ResponseStates
    <3>4. <<told.last, "reason", "reason">> \in Order /\ ~SkipsUrl("reason")
      BY <3>3, InOrder DEF SkipsUrl
    <3>5. Fits(parser, "reason")
      BY <2>2, <3>1, <3>2 DEF Fits
    <3> QED
      BY <1>1, <1>4, <2>5, <3>1, <3>4, <3>5, BufferEnds
  <2>6. CASE s = "header_field"
    <3>1. parser.state = "header_field"
      BY <2>1, <2>6 DEF MarkStates
    <3>2. /\ <<told.last, "header_field", FieldName(parser.flags)>> \in Order
          /\ ~SkipsUrl("header_field")
      BY <2>2, <3>1, FieldFollows
    <3>3. Fits(parser, FieldName(parser.flags))
      <4>1. FieldName(parser.flags) \in Heard(parser.state, parser.flags)
        BY <3>1, HeardOfHeaders DEF FieldName
      <4>2. FieldName(parser.flags) # "message_begin"
        BY DEF FieldName
      <4> QED
        BY <2>2, <4>1, <4>2 DEF Fits
    <3> QED
      BY <1>1, <1>4, <2>6, <3>1, <3>2, <3>3, BufferEnds
  <2>7. CASE s = "header_value"
    <3>1. parser.state = "header_value" /\ parser.state \in ValueStates
      BY <2>1, <2>7 DEF MarkStates, ValueStates
    <3>2. /\ <<told.last, "header_value", ValueName(parser.flags)>> \in Order
          /\ ~SkipsUrl("header_value")
      BY <2>2, <3>1, ValueFollows
    <3>3. Fits(parser, ValueName(parser.flags))
      BY <3>1, ValueFits
    <3>4. ValueName(parser.flags) \in {"header_value", "trailer_value"}
      BY DEF ValueName
    <3> QED
      BY <1>1, <1>4, <2>7, <3>2, <3>3, <3>4, BufferEnds
  <2> QED
    BY <1>4, <2>3, <2>4, <2>5, <2>6, <2>7, SpansAre
<1> QED
  BY <1>2, <1>3, <1>4 DEF EndOfBuffer

(* Between the calls of http_parser_execute. *)
LEMMA Idle ==
  ASSUME ParserInv, ~call.running
  PROVE  \A s \in Spans : call.mark[s] = 0
BY DEF ParserInv, CallOK, NoMark

(* The start of a call keeps ReportInv: a range that goes on is marked at  *)
(* the first byte, before anything of it is seen.                          *)
LEMMA ExecuteReports ==
  ASSUME ParserInv, ReportInv, HttpParserAssumption, Execute
  PROVE  ReportInv'
<1>1. /\ ~call.running /\ parser.errno = "OK" /\ ~Closed /\ parser' = parser /\ told' = told
  BY DEF Execute
<1>2. PICK len \in 1 .. MaxBuffer :
        call' = [call EXCEPT !.running = TRUE, !.left = len,
                   !.mark = [s \in Spans |-> IF parser.state \in InSpan[s] THEN len ELSE 0]]
  BY DEF Execute
<1>3. /\ call'.left = len
      /\ \A s \in Spans : call'.mark[s] = IF parser.state \in InSpan[s] THEN len ELSE 0
  BY <1>2, CallFacts DEF Calls
<1>4. len \in Int /\ len # 0 /\ len - len = 0
  BY DEF HttpParserAssumption
<1>5. \A s \in Spans : call.mark[s] = 0
  BY <1>1, Idle
<1>6. call'.mark["body"] = 0 /\ call.mark["body"] = 0
  BY <1>3, <1>5, SpansAre DEF InSpan
<1>7. LastOK(parser, call', told)
  BY <1>1, <1>6 DEF ReportInv, LastOK, Closed
<1>8. MarkedOK(parser, call', told)
  <2>1. /\ parser.state \in UrlNames => call'.mark["url"] # 0
        /\ parser.state = "header_field" => call'.mark["header_field"] # 0
        /\ parser.state = "header_value" => call'.mark["header_value"] # 0
    BY <1>3, <1>4, SpansAre, UrlStatesAre DEF InSpan
  <2> QED
    BY <2>1 DEF MarkedOK
<1>9. BytesOK(parser, call', told)
  <2>1. ~told.bareCR => told.due = 0
    BY <1>1, <1>5 DEF ReportInv, BytesOK
  <2>2. \A s \in Spans : call'.mark[s] # 0 => call'.mark[s] - call'.left = 0
    BY <1>3, <1>4
  <2> QED
    BY <1>6, <2>1, <2>2 DEF ReportInv, BytesOK
<1> QED
  BY <1>1, <1>7, <1>8, <1>9 DEF ReportInv

(* The end of the input keeps ReportInv: it completes a body that ends     *)
(* with the connection, once, or is an error.                              *)
LEMMA ExecuteEofReports ==
  ASSUME ParserInv, ReportInv, HttpParserAssumption, ExecuteEof
  PROVE  ReportInv'
<1>1. ~call.running /\ parser.errno = "OK" /\ ~Closed /\ parser \in Parsers
  BY CallFacts DEF ExecuteEof
<1>2. \A s \in Spans : call.mark[s] = 0
  BY <1>1, Idle
<1>3. CASE Error
  BY <1>2, <1>3, Gone DEF Error
<1>4. CASE /\ parser.state = "body_identity_eof"
           /\ Notify(parser, "message_complete", Returned(None), None)
  <2>1. PICK answer \in Errno :
          /\ parser' = [parser EXCEPT !.errno = answer]
          /\ call' = IF answer = "OK" THEN Returned(None) ELSE Returned(None)
          /\ told' = Tell("message_complete", 0)
    BY <1>4 DEF Notify
  <2>2. parser.state \in BodyLeft \cup {"body_identity_eof"} /\ parser.state \notin BodyLeft
    BY <1>4 DEF BodyLeft
  <2>3. "body" \in Spans
    BY SpansAre
  <2>4. /\ told \in Reports /\ ~told.bareCR /\ told.due = 0 /\ told.owed = 0
        /\ "TRAILING" \notin parser.flags
    BY <1>1, <1>2, <2>2, <2>3, BodyNow
  <2>5. told.last \in {"headers_complete", "body"}
    BY <1>1, <1>4, Known, HeardIs DEF Fits, Closed
  <2>6. /\ <<told.last, "message_complete", "message_complete">> \in Order
        /\ ~SkipsUrl("message_complete") /\ 0 \in Int
    BY <2>5, InOrder, SMTT(30) DEF SkipsUrl
  <2>7. /\ told' \in Reports /\ told'.last = "message_complete" /\ told'.bareCR = FALSE
        /\ told'.due = 0 /\ told'.owed = 0
    BY <1>1, <2>1, <2>4, <2>6, TellIs
  <2>8. /\ parser' \in Parsers /\ parser'.state = parser.state /\ parser'.flags = parser.flags
        /\ parser'.type = parser.type
    BY <1>1, <2>1, ErrnoSame
  <2>9. ~call'.running /\ \A s \in Spans : call'.mark[s] = 0
    BY <2>1, ReturnedIs
  <2>10. MarkedOK(parser', call', told') /\ BytesOK(parser', call', told')
    BY <2>2, <2>7, <2>8, <2>9, QuietBytes
  <2>11. Fits(parser, "message_complete")
    <3>1. "message_complete" \in Heard(parser.state, parser.flags)
      BY <1>4, HeardIs
    <3> QED
      BY <1>4, <2>4, <3>1, BodyFits DEF BodyStates
  <2>12. LastOK(parser', call', told')
    BY <1>4, <2>7, <2>8, <2>9, <2>11 DEF LastOK, Fits
  <2> QED
    BY <2>7, <2>10, <2>12 DEF ReportInv
<1> QED
  BY <1>3, <1>4 DEF ExecuteEof

(* http_parser_pause keeps ReportInv. *)
LEMMA PauseReports ==
  ASSUME ParserInv, ReportInv, HttpParserAssumption, Pause
  PROVE  ReportInv'
<1>1. /\ ~call.running /\ parser.errno # "ERROR" /\ call' = call /\ told' = told
  BY DEF Pause
<1>2. PICK a \in Errno : parser' = [parser EXCEPT !.errno = a]
  BY CallFacts DEF Pause, Errno
<1>3. /\ parser'.state = parser.state /\ parser'.flags = parser.flags
      /\ parser'.type = parser.type /\ parser'.length = parser.length
  BY <1>2, CallFacts, ErrnoSame
<1> QED
  BY <1>1, <1>3, Idle, Rests

(* What http_parser_init leaves fits ReportInv. *)
LEMMA FreshReports ==
  ASSUME HttpParserAssumption, NEW type \in {"request", "response", "both"}
  PROVE  LET p == Fresh(type)
             c == Returned(None)
             t == [last |-> None, owed |-> 0, due |-> 0, bareCR |-> FALSE] IN
         t \in Reports /\ LastOK(p, c, t) /\ MarkedOK(p, c, t) /\ BytesOK(p, c, t)
<1> DEFINE p == Fresh(type)
           c == Returned(None)
           t == [last |-> None, owed |-> 0, due |-> 0, bareCR |-> FALSE]
<1>1. /\ p \in Parsers /\ p.state \in StartStates /\ p.flags = {}
      /\ p.state \in ResponseStates => p.type # "request"
  <2>1. p \in Parsers
    BY FreshOK DEF ParserOK
  <2> QED
    BY <2>1 DEF Fresh, StartStates, ResponseStates, StatusLine
<1>2. t \in Reports /\ t.last = None /\ t.due = 0 /\ t.owed = 0 /\ ~t.bareCR
  BY DEF Reports, Reported
<1>3. ~c.running /\ \A s \in Spans : c.mark[s] = 0
  BY ReturnedIs
<1> HIDE DEF p, c, t
<1>4. p.state \notin BodyLeft
  BY <1>1 DEF StartStates, BodyLeft
<1>5. MarkedOK(p, c, t) /\ BytesOK(p, c, t)
  BY <1>1, <1>2, <1>3, <1>4, QuietBytes
<1>6. Fits(p, None)
  <2>1. None \in Heard(p.state, p.flags)
    <3>1. Heard(p.state, p.flags) = {None, "message_complete"}
      BY <1>1, HeardIs
    <3> QED
      BY <3>1
  <2>2. p.state \notin {"header_field_start", "header_field", "headers_almost_done"}
    BY <1>1 DEF StartStates
  <2> QED
    BY <1>1, <2>1, <2>2 DEF Fits
<1>7. LastOK(p, c, t)
  BY <1>1, <1>2, <1>6 DEF LastOK, StartStates
<1> QED
  BY <1>2, <1>5, <1>7 DEF p, c, t

(* A new connection keeps ReportInv. *)
LEMMA ReinitReports ==
  ASSUME ParserInv, ReportInv, HttpParserAssumption, Reinit
  PROVE  ReportInv'
BY FreshReports DEF Reinit, ReportInv

(* http_parser_init establishes ReportInv. *)
LEMMA ReportInvInitially == ASSUME HttpParserAssumption, Init PROVE ReportInv
BY FreshReports DEF Init, ReportInv

(* Every step of the parser and of its user keeps ReportInv. *)
LEMMA ReportInvPreserved ==
  ASSUME HttpParserAssumption, ParserInv, ReportInv, [Next]_vars
  PROVE  ReportInv'
<1>1. CASE UNCHANGED vars
  BY <1>1 DEF vars, ReportInv, LastOK, MarkedOK, BytesOK, Fits
<1>2. ASSUME NEW ch \in Bytes, StartLine(ch) PROVE ReportInv'
  BY <1>2, PreStartReports, StartReqOrResReports, ResOrRespHReports, StartResReports,
     StartReqReports, ReqMethodReports,
     ReqSpacesBeforeUrlReports, UrlReports, PlainReports, ResStatusReports DEF StartLine
<1>3. ASSUME NEW ch \in Bytes, Header(ch) PROVE ReportInv'
  BY <1>3, HeaderFieldStartReports, HeaderFieldReports, HeaderValueStartReports,
     HeaderValueReports, HeaderAlmostDoneReports,
     HeaderValueLwsReports, HeadersAlmostDoneReports, HeadersDoneReports DEF Header
<1>4. ASSUME NEW ch \in Bytes, Body(ch) PROVE ReportInv'
  BY <1>4, MessageDoneReports, ChunkSizeStartReports, ChunkSizeReports,
     ChunkSizeAlmostDoneReports,
     ChunkDataAlmostDoneReports, ChunkDataDoneReports DEF Body
<1> QED
  BY <1>1, <1>2, <1>3, <1>4, BodyIdentityReports, BodyIdentityEofReports, ChunkDataReports,
     EndOfBufferReports,
     ExecuteReports, ExecuteEofReports, PauseReports, ReinitReports DEF Next, Loop

(* ReportInv implies CallbackOrder. *)
LEMMA OrderFollows == ASSUME ReportInv PROVE CallbackOrder
BY NeverWrong DEF ReportInv, Reports, CallbackOrder

(* The two invariants imply BytesReported: at most one mark is set, so the *)
(* sum over the ranges is what it spans; and of a body nothing is owed     *)
(* once its end is reported.                                               *)
LEMMA BytesFollow == ASSUME HttpParserAssumption, ParserInv, ReportInv PROVE BytesReported
<1>1. /\ told \in Reports /\ call.mark \in [Spans -> 0 .. MaxBuffer] /\ call.left \in Int
      /\ parser.length \in Int /\ "body" \in Spans
  BY CallFacts, SpansAre DEF ReportInv, Calls, Parsers
<1>2. \A s \in Spans : call.mark[s] \in Int
  BY <1>1 DEF HttpParserAssumption
<1>3. EveryByteOnce
  <2> SUFFICES ASSUME parser.errno # "ERROR", ~told.bareCR
               PROVE  LET Seen(s) == IF call.mark[s] = 0 THEN 0 ELSE call.mark[s] - call.left IN
                      told.due = Seen("url") + Seen("reason") + Seen("header_field")
                                   + Seen("header_value") + Seen("body")
    BY DEF EveryByteOnce
  <2>1. CASE \A s \in Spans : call.mark[s] = 0
    BY <2>1, SpansAre DEF ReportInv, BytesOK
  <2>2. ASSUME NEW s \in Spans, call.mark[s] # 0
        PROVE  LET Seen(o) == IF call.mark[o] = 0 THEN 0 ELSE call.mark[o] - call.left IN
               told.due = Seen("url") + Seen("reason") + Seen("header_field")
                            + Seen("header_value") + Seen("body")
    <3>1. told.due = call.mark[s] - call.left
      BY <2>2 DEF ReportInv, BytesOK
    <3>2. \A o \in Spans : o # s => call.mark[o] = 0
      BY <2>2, SpansApart DEF ParserInv, CallOK, Marked
    <3>3. call.mark[s] - call.left \in Int
      BY <1>1, <1>2
    <3> QED
      BY <2>2, <3>1, <3>2, <3>3, SpansAre
  <2> QED
    BY <2>1, <2>2
<1>4. BodyWhole
  <2>1. CASE parser.state \notin BodyLeft
    BY <2>1 DEF ReportInv, BytesOK, BodyWhole
  <2>2. CASE parser.state \in BodyLeft
    <3>1. parser.length >= 0
      BY <1>1, <2>2 DEF BodyLeft, ParserInv, ParserOK, StateOK
    <3>2. call.mark["body"] # 0 => call.left <= call.mark["body"]
      BY <1>1 DEF ParserInv, CallOK, Marked
    <3>3. told.owed = parser.length
                        + (IF call.mark["body"] = 0 THEN 0 ELSE call.mark["body"] - call.left)
      BY <2>2 DEF ReportInv, BytesOK
    <3>4. told.owed >= 0
      BY <1>1, <1>2, <3>1, <3>2, <3>3
    <3>5. told.last \notin {"message_complete", "chunk_complete", "chunks_complete"}
      <4>1. CASE parser.state = "body_identity"
        BY <4>1, HeardIs DEF ReportInv, LastOK, Fits
      <4>2. CASE parser.state \in {"chunk_data", "chunk_data_almost_done"}
        BY <4>2, HeardIs DEF ReportInv, LastOK, Fits
      <4> QED
        BY <2>2, <4>1, <4>2 DEF BodyLeft
    <3> QED
      BY <3>4, <3>5 DEF BodyWhole
  <2> QED
    BY <2>1, <2>2
<1> QED
  BY <1>3, <1>4 DEF BytesReported

(* Both invariants hold in every state of the parser and its user. *)
LEMMA ReportsAlwaysKept == MCSpec => [](ParserInv /\ ReportInv)
<1>1. MCInit => ParserInv /\ ReportInv
  BY ParserInvInitially, ReportInvInitially, HttpParserAssumption DEF MCInit
<1>2. (ParserInv /\ ReportInv) /\ [MCNext]_allVars => (ParserInv /\ ReportInv)'
  <2> SUFFICES ASSUME ParserInv, ReportInv, [MCNext]_allVars PROVE (ParserInv /\ ReportInv)'
    OBVIOUS
  <2>1. [Next]_vars
    BY DEF MCNext, allVars, vars
  <2> QED
    BY <2>1, ParserInvPreserved, ReportInvPreserved, HttpParserAssumption
<1> QED
  BY <1>1, <1>2, PTL DEF MCSpec

(* For every size of buffers, wherever they end and whatever the callbacks *)
(* answer, the callbacks come in the order of a message                    *)
(* (http_parser.cc:640-1990).                                              *)
THEOREM CallbackOrderAlways == MCSpec => []CallbackOrder
<1>1. ReportInv => CallbackOrder
  BY OrderFollows
<1> QED
  BY <1>1, ReportsAlwaysKept, PTL

(* And every byte of a range is reported exactly once, and a body is       *)
(* complete only when all of its announced bytes have been reported        *)
(* (http_parser.cc:1825-2010).                                             *)
THEOREM BytesAlwaysReported == MCSpec => []BytesReported
<1>1. ParserInv /\ ReportInv => BytesReported
  BY BytesFollow, HttpParserAssumption
<1> QED
  BY <1>1, ReportsAlwaysKept, PTL
=============================================================================

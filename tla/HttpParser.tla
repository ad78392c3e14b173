----------------------------- MODULE HttpParser -----------------------------
(***************************************************************************)
(* base/http/http_parser.cc: the push parser.  Its user gives it one       *)
(* buffer after the other (http_parser_execute); it keeps its place in the *)
(* message in a few bytes of state and reports what it finds through       *)
(* callbacks, which may fail or pause it.  Names, values and bodies are    *)
(* passed on as ranges of the buffer: a mark is set at a range's first     *)
(* byte, and a range cut by the end of a buffer is reported piecemeal.     *)
(*                                                                         *)
(* One action per case of the switch (or group of cases that do the same), *)
(* applied to one byte.  Bytes are one representative per class the code   *)
(* tells apart, chosen when the parser looks at them.  How much of a       *)
(* method, a header name or "chunked" has been matched (parser->index),    *)
(* the version numbers, the digits of the status code and the count of     *)
(* header bytes (nread) are left open: wherever the code looks at them,    *)
(* both outcomes are possible.  States and header states carry their names *)
(* in the source without s_ and h_.  Non-strict build (the default).       *)
(***************************************************************************)
EXTENDS HttpBytes, FiniteSets

CONSTANTS
  MaxBuffer,  \* len of a call of http_parser_execute
  LengthMax,  \* INT64_MAX
  ShortRun,   \* bytes passed over by the two fast-forwards of a header value:
  LongRun     \* 4 and 11 in the code

ASSUME HttpParserAssumption ==
  /\ MaxBuffer \in Nat \ {0} /\ LengthMax \in Nat \ 0..15
  /\ ShortRun \in Nat \ {0} /\ LongRun \in Nat \ 0..ShortRun

VARIABLES
  parser,  \* struct http_parser; bodiless: status_code is 1xx, 204 or 304
  call,    \* the locals of http_parser_execute: left = data + len - p, byte =
           \* *p if it has been looked at (also: has to be passed again),
           \* mark[s] = the value left had at the mark, 0 for a null mark,
           \* skip = bytes a fast-forward still passes over
  told     \* history: what the callbacks have told the user

vars == <<parser, call, told>>

None == "none"

-----------------------------------------------------------------------------
(* The cases that only move to the next state, as edges <<state, bytes,    *)
(* next state>>.  A byte without an edge is an error.  STRICT_CHECK is     *)
(* empty in this build: those cases take any byte.                         *)
StatusLineEdges ==
  {<<"res_H", Bytes, "res_HT">>, <<"res_HT", Bytes, "res_HTT">>,
   <<"res_HTT", Bytes, "res_HTTP">>,
   <<"res_HTTP", Bytes, "res_first_http_major">>,
   <<"res_first_http_major", Num, "res_http_major">>,
   <<"res_http_major", Num, "res_http_major">>,
   <<"res_http_major", {"."}, "res_first_http_minor">>,
   <<"res_first_http_minor", Num, "res_http_minor">>,
   <<"res_http_minor", Num, "res_http_minor">>,
   <<"res_http_minor", {"SP"}, "res_first_status_code">>,
   <<"res_first_status_code", {"SP"}, "res_first_status_code">>,
   <<"res_first_status_code", Num, "res_status_code">>,
   <<"res_status_code", Num, "res_status_code">>,
   <<"res_status_code", {"SP"}, "res_status">>,
   <<"res_status_code", {"CR"}, "res_line_almost_done">>,
   <<"res_status_code", {"LF"}, "header_field_start">>,
   <<"res_line_almost_done", Bytes, "header_field_start">>}

RequestLineEdges ==
  {<<"req_http_start", {"SP"}, "req_http_start">>,
   <<"req_http_start", {"H"}, "req_http_H">>,
   <<"req_http_H", Bytes, "req_http_HT">>,
   <<"req_http_HT", Bytes, "req_http_HTT">>,
   <<"req_http_HTT", Bytes, "req_http_HTTP">>,
   <<"req_http_HTTP", Bytes, "req_first_http_major">>,
   <<"req_first_http_major", Num, "req_http_major">>,
   <<"req_http_major", Num, "req_http_major">>,
   <<"req_http_major", {"."}, "req_first_http_minor">>,
   <<"req_first_http_minor", Num, "req_http_minor">>,
   <<"req_http_minor", Num, "req_http_minor">>,
   <<"req_http_minor", {"CR"}, "req_line_almost_done">>,
   <<"req_http_minor", {"LF"}, "header_field_start">>,
   <<"req_line_almost_done", {"LF"}, "header_field_start">>}

ChunkLineEdges ==
  {<<"chunk_size", {"CR"}, "chunk_size_almost_done">>,
   <<"chunk_size", {";", "SP"}, "chunk_parameters">>,
   <<"chunk_parameters", {"CR"}, "chunk_size_almost_done">>,
   <<"chunk_parameters", Bytes \ {"CR"}, "chunk_parameters">>}

PlainEdges == StatusLineEdges \cup RequestLineEdges \cup ChunkLineEdges

(* The numbers of a version or of a status code grow by a digit and are    *)
(* refused above 999.                                                      *)
Numbers == {"res_http_major", "res_http_minor", "res_status_code",
            "req_http_major", "req_http_minor"}

HostEdges ==
  LET ended == {"req_host", "req_host_done"} IN
  {<<"req_schema", Alpha, "req_schema">>,
   <<"req_schema", {":"}, "req_schema_slash">>,
   <<"req_schema_slash", Bytes, "req_schema_slash_slash">>,
   <<"req_schema_slash_slash", Bytes, "req_host_start">>,
   <<"req_host_start", {"["}, "req_host_ipv6">>,
   <<"req_host_start", Num \cup Alpha, "req_host">>,
   <<"req_host", HostChar, "req_host">>,
   <<"req_host_ipv6", Num \cup {"C", "E", ":"}, "req_host_ipv6">>,
   <<"req_host_ipv6", {"]"}, "req_host_done">>,
   <<"req_port", Num, "req_port">>}
  \cup {<<s, {":"}, "req_port">> : s \in ended}
  \cup {<<s, {"/"}, "req_path">> : s \in ended \cup {"req_port"}}
  \cup {<<s, {"?"}, "req_query_string_start">> : s \in ended \cup {"req_port"}}
  \cup {<<s, {"SP"}, "req_http_start">> : s \in ended \cup {"req_port"}}

PathEdges ==
  LET query == {"req_query_string_start", "req_query_string"}
      fragment == {"req_fragment_start", "req_fragment"}
      all == query \cup fragment \cup {"req_path"} IN
  {<<"req_path", UrlChar, "req_path">>,
   <<"req_path", {"?"}, "req_query_string_start">>}
  \cup {<<s, UrlChar, "req_query_string">> : s \in query}
  \cup {<<s, {"?"}, s>> : s \in query}
  \cup {<<s, {"#"}, "req_fragment_start">> : s \in query \cup {"req_path"}}
  \cup {<<s, UrlChar \cup {"?"}, "req_fragment">> : s \in fragment}
  \cup {<<s, {"#"}, s>> : s \in fragment}
  \cup {<<s, {"SP"}, "req_http_start">> : s \in all}
  \cup {<<s, {"CR"}, "req_line_almost_done">> : s \in all}
  \cup {<<s, {"LF"}, "header_field_start">> : s \in all}

UrlEdges == HostEdges \cup PathEdges

PlainStates == {e[1] : e \in PlainEdges}
UrlStates == {e[1] : e \in UrlEdges}

StartStates == {"pre_start_req_or_res", "pre_start_res", "pre_start_req"}
HeaderStates == {"header_field_start", "header_field", "header_value_start",
                 "header_value", "header_value_lws", "header_almost_done"}
BodyStates == {"chunk_data", "chunk_data_almost_done", "chunk_data_done",
               "body_identity", "body_identity_eof", "message_done"}
ChunkStates == {"chunk_size_start", "chunk_size", "chunk_parameters",
                "chunk_size_almost_done", "chunk_data",
                "chunk_data_almost_done", "chunk_data_done"}
States == PlainStates \cup UrlStates \cup StartStates \cup HeaderStates
            \cup BodyStates \cup ChunkStates
            \cup {"start_req_or_res", "res_or_resp_H", "start_res", "start_req",
                  "req_method", "req_spaces_before_url", "res_status",
                  "headers_almost_done", "headers_done"}

Matching == {"matching_content_length", "matching_transfer_encoding",
             "matching_upgrade"}
Matched == {"content_length", "transfer_encoding", "upgrade"}
Headers == {"general", "general_and_quote", "general_and_quote_and_escape",
            "matching_transfer_encoding_chunked", "transfer_encoding_chunked"}
             \cup Matching \cup Matched
Flags == {"CHUNKED", "TRAILING", "UPGRADE", "SKIPBODY"}
Errno == {"OK", "PAUSED", "ERROR"}   \* every HPE_ other than OK and PAUSED

(* The ranges reported piecemeal, and the states in which a buffer may end *)
(* inside one.                                                             *)
(* (Fault: a buffer that starts inside a value.) *)
InSpanNoValue ==
  [header_field |-> {"header_field"}, header_value |-> {}, url |-> UrlStates,
   reason |-> {"res_status"}, body |-> {}]

InSpan == [header_field |-> {"header_field"}, header_value |-> {"header_value"},
           url |-> UrlStates, reason |-> {"res_status"}, body |-> {}]

Spans == DOMAIN InSpan
NoMark == [s \in Spans |-> 0]
Returned(byte) == [running |-> FALSE, left |-> 0, byte |-> byte,
                   mark |-> NoMark, skip |-> 0]

(* http_parser_init. *)
Fresh(type) ==
  [type |-> type, errno |-> "OK", header |-> "general", flags |-> {},
   length |-> -1, connect |-> FALSE, bodiless |-> FALSE, upgrade |-> FALSE,
   state |-> CASE type = "request" -> "pre_start_req"
               [] type = "response" -> "pre_start_res"
               [] OTHER -> "pre_start_req_or_res"]

Init ==
  /\ parser \in {Fresh(t) : t \in {"request", "response", "both"}}
  /\ call = Returned(None)
  /\ told = [last |-> None, owed |-> 0, due |-> 0, bareCR |-> FALSE]

-----------------------------------------------------------------------------
(* What the user is told, in the order a message is made of: <<the callback*)
(* before, the callback, the name it goes by here>>.  A chunk_header of    *)
(* length 0 is last_chunk; headers after it are the trailer.               *)
Order ==
  {<<None, "message_begin", "message_begin">>,
   <<"message_complete", "message_begin", "message_begin">>}
  \cup {<<l, "url", "url">> : l \in {"message_begin", "url"}}
  \cup {<<l, "reason", "reason">> : l \in {"message_begin", "reason"}}
  \cup {<<l, "header_field", "header_field">> :
          l \in {"message_begin", "url", "reason", "header_field", "header_value"}}
  \cup {<<l, "header_value", "header_value">> :
          l \in {"header_field", "header_value"}}
  \cup {<<l, "headers_complete", "headers_complete">> :
          l \in {"message_begin", "url", "reason", "header_value"}}
  \cup {<<l, "body", "body">> : l \in {"headers_complete", "body"}}
  \cup {<<l, cb, cb>> : l \in {"headers_complete", "chunk_complete"},
                        cb \in {"chunk_header", "last_chunk"}}
  \cup {<<l, "body", "chunk_body">> : l \in {"chunk_header", "chunk_body"}}
  \cup {<<"chunk_body", "chunk_complete", "chunk_complete">>}
  \cup {<<l, "header_field", "trailer_field">> :
          l \in {"last_chunk", "trailer_field", "trailer_value"}}
  \cup {<<l, "header_value", "trailer_value">> :
          l \in {"trailer_field", "trailer_value"}}
  \cup {<<l, "chunk_complete", "chunks_complete">> :
          l \in {"last_chunk", "trailer_value"}}
  \cup {<<l, "message_complete", "message_complete">> :
          l \in {"headers_complete", "body", "chunks_complete"}}

Following(cb) == {o[3] : o \in {x \in Order : x[1] = told.last /\ x[2] = cb}}
SkipsUrl(cb) == /\ told.last = "message_begin" /\ parser.type = "request"
                /\ cb # "url"

(* told after callback cb with n bytes: last is "wrong" once a callback    *)
(* comes where no message has it.  owed: the bytes of the body or of the   *)
(* chunk not yet given; due: bytes of a range seen and not yet given.      *)
Tell(cb, n) ==
  [told EXCEPT
     !.last = IF Following(cb) = {} \/ SkipsUrl(cb) THEN "wrong"
              ELSE CHOOSE l \in Following(cb) : TRUE,
     !.due = IF told.bareCR THEN 0 ELSE @ - n,
     !.owed = CASE cb = "body" /\ parser.state # "body_identity_eof" -> @ - n
                [] cb \in {"chunk_header", "last_chunk"} -> parser.length
                [] OTHER -> @]

-----------------------------------------------------------------------------
(* How a case of the switch ends.                                          *)
Sees(states, ch) ==
  /\ parser.state \in states /\ call.running /\ call.left > 0
  /\ call.byte \in {None, ch}

Mark(s) == [call.mark EXCEPT ![s] = IF @ = 0 THEN call.left ELSE @]
Unmark(s) == [call.mark EXCEPT ![s] = 0]

(* The rest of the loop: the next byte, or the same byte again.            *)
NextByte(mark) == [call EXCEPT !.left = @ - 1, !.byte = None, !.mark = mark,
                               !.skip = 0]
SameByte(ch, mark) == [call EXCEPT !.byte = ch, !.mark = mark, !.skip = 0]

(* Consume the byte; n says whether it belongs to a range.                 *)
Take(p, mark, n) ==
  /\ parser' = p /\ call' = NextByte(mark)
  /\ told' = [told EXCEPT !.due = IF told.bareCR THEN 0 ELSE @ + n]

Reexecute(p, ch) ==
  /\ parser' = p /\ call' = SameByte(ch, call.mark) /\ UNCHANGED told

Error ==
  /\ parser' = [parser EXCEPT !.errno = "ERROR"]
  /\ call' = Returned(None) /\ UNCHANGED told

(* CALLBACK_NOTIFY and CALLBACK_NOTIFY_NOADVANCE: the user's function may  *)
(* fail or pause the parser, and the call returns; again is the byte that  *)
(* has to be passed again then.                                            *)
Notify(p, cb, next, again) ==
  \E answer \in Errno :
    /\ parser' = [p EXCEPT !.errno = answer]
    /\ call' = IF answer = "OK" THEN next ELSE Returned(again)
    /\ told' = Tell(cb, 0)

(* CALLBACK_DATA and its variants: the range from the mark at to where end *)
(* bytes are left; nothing is reported for a null mark.                    *)
Data(p, span, at, end, next, again) ==
  IF at = 0
    THEN parser' = p /\ call' = next /\ UNCHANGED told
    ELSE \E answer \in Errno :
           /\ parser' = [p EXCEPT !.errno = answer]
           /\ call' = IF answer = "OK" THEN next ELSE Returned(again)
           /\ told' = Tell(span, at - end)

-----------------------------------------------------------------------------
(* The user.                                                               *)

(* After the message that ends at the end of the input, or with a switch   *)
(* of protocols, nothing more is given to the parser (http_parser.h).      *)
Closed == /\ told.last = "message_complete"
          /\ parser.upgrade \/ parser.state = "body_identity_eof"

(* Start of http_parser_execute with 1 <= len bytes.                       *)
Execute ==
  /\ ~call.running /\ parser.errno = "OK" /\ ~Closed
  /\ \E len \in 1..MaxBuffer :
       call' = [call EXCEPT
                  !.running = TRUE, !.left = len,
                  !.mark = [s \in Spans |->
                              IF parser.state \in InSpan[s] THEN len ELSE 0]]
  /\ UNCHANGED <<parser, told>>

(* http_parser_execute with len = 0: the end of the input.                 *)
ExecuteEof ==
  /\ ~call.running /\ parser.errno = "OK" /\ ~Closed /\ call.byte = None
  /\ parser.state \notin StartStates
  /\ IF parser.state = "body_identity_eof"
       THEN Notify(parser, "message_complete", Returned(None), None)
       ELSE Error

(* http_parser_pause.                                                      *)
Pause ==
  /\ ~call.running /\ parser.errno \in {"OK", "PAUSED"}
  /\ parser' = [parser EXCEPT !.errno = IF @ = "OK" THEN "PAUSED" ELSE "OK"]
  /\ UNCHANGED <<call, told>>

(* A new connection takes the struct: http_parser_init.                    *)
Reinit ==
  /\ ~call.running
  /\ parser.errno = "ERROR" \/ Closed
  /\ \E type \in {"request", "response", "both"} : parser' = Fresh(type)
  /\ call' = Returned(None)
  /\ told' = [last |-> None, owed |-> 0, due |-> 0, bareCR |-> FALSE]

-----------------------------------------------------------------------------
(* Start line.                                                             *)
StartOf == [request |-> "pre_start_req", response |-> "pre_start_res",
            both |-> "pre_start_res"]
NEW_MESSAGE == [parser EXCEPT !.state = StartOf[parser.type]]
AfterPreStart == [pre_start_req_or_res |-> "start_req_or_res",
                  pre_start_res |-> "start_res", pre_start_req |-> "start_req"]

PreStart(ch) ==
  /\ Sees(StartStates, ch)
  /\ IF ch \in {"CR", "LF"}
       THEN Take(parser, call.mark, 0)
       ELSE Notify([parser EXCEPT !.state = AfterPreStart[@]], "message_begin",
                   SameByte(ch, call.mark), ch)

StartReqOrRes(ch) ==
  /\ Sees({"start_req_or_res"}, ch)
  /\ LET p == [parser EXCEPT !.flags = {}, !.length = -1] IN
     IF ch = "H"
       THEN Take([p EXCEPT !.state = "res_or_resp_H"], call.mark, 0)
       ELSE Reexecute([p EXCEPT !.type = "request", !.state = "start_req"], ch)

ResOrRespH(ch) ==
  /\ Sees({"res_or_resp_H"}, ch)
  /\ \/ /\ ch = "T"
        /\ Take([parser EXCEPT !.type = "response", !.state = "res_HT"],
                call.mark, 0)
     \/ /\ ch = "E"
        /\ Take([parser EXCEPT !.type = "request", !.connect = FALSE,
                               !.state = "req_method"], call.mark, 0)
     \/ ch \notin {"T", "E"} /\ Error

StartRes(ch) ==
  /\ Sees({"start_res"}, ch)
  /\ IF ch = "H"
       THEN Take([parser EXCEPT !.flags = {}, !.length = -1, !.state = "res_H"],
                 call.mark, 0)
       ELSE Error

StartReq(ch) ==
  /\ Sees({"start_req"}, ch)
  /\ IF ch \in Alpha \ {"E"}
       THEN Take([parser EXCEPT !.flags = {}, !.length = -1, !.connect = ch = "C",
                                !.state = "req_method"], call.mark, 0)
       ELSE Error

(* The byte goes on with the method, or with another one that starts alike *)
(* (CHECKOUT and COPY for CONNECT), ends it, or fits none.                 *)
ReqMethod(ch) ==
  /\ Sees({"req_method"}, ch)
  /\ \/ /\ ch \in Alpha
        /\ \E connect \in {parser.connect, FALSE} :
             Take([parser EXCEPT !.connect = connect], call.mark, 0)
     \/ /\ ch = "SP"
        /\ Take([parser EXCEPT !.state = "req_spaces_before_url"], call.mark, 0)
     \/ Error

ReqSpacesBeforeUrl(ch) ==
  /\ Sees({"req_spaces_before_url"}, ch)
  /\ LET To(s) == [parser EXCEPT !.state = s] IN
     \/ ch = "SP" /\ Take(parser, call.mark, 0)
     \/ /\ ch # "SP" /\ parser.connect
        /\ parser' = To("req_host_start")
        /\ call' = SameByte(ch, Mark("url")) /\ UNCHANGED told
     \/ /\ ch \in Alpha \cup {"/"} /\ ~parser.connect
        /\ Take(To(IF ch = "/" THEN "req_path" ELSE "req_schema"), Mark("url"), 1)
     \/ ch \notin Alpha \cup {"/", "SP"} /\ ~parser.connect /\ Error

Url(ch) ==
  /\ Sees(UrlStates, ch)
  /\ LET edges == {e \in UrlEdges : e[1] = parser.state /\ ch \in e[2]} IN
     \/ \E e \in edges :
          LET p == [parser EXCEPT !.state = e[3]] IN
          IF e[3] \in UrlStates
            THEN Take(p, call.mark, 1)
            ELSE Data(p, "url", call.mark["url"], call.left,
                      NextByte(Unmark("url")), None)
     \/ edges = {} /\ Error

(* The rest of the start line, and the parameters of a chunk.              *)
Plain(ch) ==
  /\ Sees(PlainStates, ch)
  /\ ~(parser.state = "chunk_size" /\ ch \in DOMAIN unhex)
  /\ LET edges == {e \in PlainEdges : e[1] = parser.state /\ ch \in e[2]}
         codes == IF ch \notin Num THEN {parser.bodiless}
                  ELSE CASE parser.state = "res_first_status_code" -> {FALSE}
                         [] parser.state = "res_status_code" -> BOOLEAN
                         [] OTHER -> {parser.bodiless} IN
     \/ \E e \in edges, bodiless \in codes :
          Take([parser EXCEPT !.state = e[3], !.bodiless = bodiless],
               call.mark, 0)
     \/ (edges = {} \/ (ch \in Num /\ parser.state \in Numbers)) /\ Error

ResStatus(ch) ==
  /\ Sees({"res_status"}, ch)
  /\ LET End(s) == Data([parser EXCEPT !.state = s], "reason",
                        Mark("reason")["reason"], call.left,
                        NextByte(Unmark("reason")), None) IN
     \/ ch = "CR" /\ End("res_line_almost_done")
     \/ ch = "LF" /\ End("header_field_start")
     \/ ch \notin {"CR", "LF"} /\ Take(parser, Mark("reason"), 1)

-----------------------------------------------------------------------------
(* Headers.                                                                *)
HeaderFieldStart(ch) ==
  /\ Sees({"header_field_start"}, ch)
  /\ LET header == CASE ch = "C" -> "matching_content_length"
                     [] ch = "T" -> "matching_transfer_encoding"
                     [] ch = "U" -> "matching_upgrade"
                     [] OTHER -> "general" IN
     \/ ch = "CR" /\ Take([parser EXCEPT !.state = "headers_almost_done"],
                          call.mark, 0)
     \/ ch = "LF" /\ Reexecute([parser EXCEPT !.state = "headers_almost_done"], ch)
     \/ /\ ch \in Token
        /\ parser' = [parser EXCEPT !.state = "header_field", !.header = header]
        /\ call' = NextByte(Mark("header_field"))
        /\ told' = [told EXCEPT !.due = @ + 1]
     \/ ch \notin Token \cup {"CR", "LF"} /\ Error

(* parser->header_state after one more byte of a name: it goes on matching,*)
(* has matched the whole name, or does not match.                          *)
FullName == [h \in Matching |->
               CASE h = "matching_content_length" -> "content_length"
                 [] h = "matching_transfer_encoding" -> "transfer_encoding"
                 [] OTHER -> "upgrade"]
FieldHeader(ch) ==
  CASE parser.header \in Matching ->
         {"general"} \cup (IF ch \in Alpha
                             THEN {parser.header, FullName[parser.header]}
                             ELSE {})
    [] parser.header \in Matched /\ ch = "SP" -> {parser.header}
    [] OTHER -> {"general"}

(* The fast-forward over a name no one looks for stops at the same byte as *)
(* the loop does, and is left out.                                         *)
HeaderField(ch) ==
  /\ Sees({"header_field"}, ch)
  /\ \/ /\ ch \in Token
        /\ \E header \in FieldHeader(ch) :
             Take([parser EXCEPT !.header = header], call.mark, 1)
     \/ /\ ch = ":"
        /\ Data([parser EXCEPT !.state = "header_value_start"], "header_field",
                call.mark["header_field"], call.left,
                NextByte(Unmark("header_field")), None)
     \/ ch \notin Token \cup {":"} /\ Error

HeaderValueStart(ch) ==
  /\ Sees({"header_value_start"}, ch)
  /\ LET mark == Mark("header_value")
         Empty(p) == Data(p, "header_value", mark["header_value"], call.left,
                          NextByte(Unmark("header_value")), None)
         First(p) == Take([p EXCEPT !.state = "header_value"], mark, 1) IN
     \/ ch = "SP" /\ Take(parser, call.mark, 0)
     \/ /\ ch = "CR"
        /\ Empty([parser EXCEPT !.header = "general",
                                !.state = "header_almost_done"])
     \/ ch = "LF" /\ Empty([parser EXCEPT !.state = "header_field_start",
                                           !.header = "general"])
     \/ /\ ch \notin {"SP", "CR", "LF"}
        /\ CASE parser.header = "upgrade" ->
                  First([parser EXCEPT !.flags = @ \cup {"UPGRADE"},
                                       !.header = "general"])
             [] parser.header = "transfer_encoding" ->
                  First([parser EXCEPT
                           !.header = IF ch = "C"
                                      THEN "matching_transfer_encoding_chunked"
                                      ELSE "general"])
             [] parser.header = "content_length" ->
                  IF ch \in Num THEN First([parser EXCEPT !.length = Digit[ch]])
                                ELSE Error
             [] OTHER ->
                  First([parser EXCEPT
                           !.header = IF ch = "QT" THEN "general_and_quote"
                                      ELSE "general"])

(* A byte inside a value: the fast-forward that starts at a quote passes   *)
(* over backslashes too.                                                   *)
Skip == CASE call.left > LongRun -> LongRun
          [] call.left > ShortRun -> ShortRun
          [] OTHER -> 0

ValueHeader(ch) ==
  CASE parser.header = "general" ->
         {IF ch = "QT" THEN "general_and_quote" ELSE "general"}
    [] parser.header = "general_and_quote" ->
         {CASE ch = "QT" -> "general"
            [] ch = "BS" -> "general_and_quote_and_escape"
            [] OTHER -> "general_and_quote"}
    [] parser.header = "general_and_quote_and_escape" -> {"general_and_quote"}
    [] parser.header = "matching_transfer_encoding_chunked" ->
         {"general"} \cup (IF ch \in Alpha
                             THEN {parser.header, "transfer_encoding_chunked"}
                             ELSE {})
    [] parser.header \in {"transfer_encoding_chunked", "content_length"}
       /\ ch = "SP" -> {parser.header}
    [] OTHER -> {"general"}

ContentLengthDigit(ch) ==
  IF /\ parser.header = "content_length" /\ ch \in Num
     /\ parser.length <= (LengthMax - 10) \div 10
    THEN Take([parser EXCEPT !.length = @ * 10 + Digit[ch]], call.mark, 1)
    ELSE Error

HeaderValue(ch) ==
  /\ Sees({"header_value"}, ch)
  /\ LET ends == /\ ch \in {"CR", "LF"}
                 /\ parser.header # "general_and_quote_and_escape"
         passed == call.skip > 0 /\ ch \notin {"CR", "LF", "QT"}
         strict == \/ parser.header = "content_length" /\ ch # "SP"
                   \/ parser.header = "transfer_encoding"
         End(next, again) ==
           Data([parser EXCEPT !.state = "header_almost_done"], "header_value",
                call.mark["header_value"], call.left, next, again) IN
     \/ ends /\ ch = "CR" /\ End(NextByte(Unmark("header_value")), None)
     \/ ends /\ ch = "LF" /\ End(SameByte(ch, Unmark("header_value")), ch)
     \/ ~ends /\ strict /\ ContentLengthDigit(ch)
     \/ /\ ~ends /\ ~strict
        /\ \E header \in IF passed THEN {parser.header} ELSE ValueHeader(ch) :
             /\ parser' = [parser EXCEPT !.header = header]
             /\ call' = [NextByte(call.mark) EXCEPT
                           !.skip = CASE passed -> call.skip - 1
                                      [] parser.header = "general" /\ ch = "QT" -> Skip
                                      [] OTHER -> 0]
             /\ told' = [told EXCEPT !.due = IF told.bareCR THEN 0 ELSE @ + 1]

(* CALLBACK_SPACE: the byte is reported as a space.                        *)
Space(p, ch, bareCR) ==
  \E answer \in Errno :
    /\ parser' = [p EXCEPT !.errno = answer]
    /\ call' = IF answer = "OK" THEN NextByte(call.mark) ELSE Returned(ch)
    /\ told' = [Tell("header_value", 0) EXCEPT
                  !.bareCR = bareCR /\ (@ \/ answer = "OK")]

(* A CR without LF does not end the value, but no mark is set for the rest *)
(* of it (told.bareCR, until its line ends).                               *)
HeaderAlmostDone(ch) ==
  /\ Sees({"header_almost_done"}, ch)
  /\ LET p == [parser EXCEPT
                 !.state = IF ch = "LF" THEN "header_value_lws"
                           ELSE "header_value",
                 !.flags = IF parser.header = "transfer_encoding_chunked"
                           THEN @ \cup {"CHUNKED"} ELSE @] IN
     IF ch = "LF" THEN Take(p, call.mark, 0) ELSE Space(p, ch, TRUE)

(* Fault: the line is ended, the state not. *)
HeaderValueLwsStays(ch) ==
  /\ Sees({"header_value_lws"}, ch)
  /\ IF ch = "SP"
       THEN Space([parser EXCEPT !.state = "header_value_start"], ch, FALSE)
       ELSE Reexecute(parser, ch)

(* The header ends here: its header_state is forgotten, the next name sets *)
(* it anew.                                                                *)
HeaderValueLws(ch) ==
  /\ Sees({"header_value_lws"}, ch)
  /\ IF ch = "SP"
       THEN Space([parser EXCEPT !.state = "header_value_start"], ch, FALSE)
       ELSE /\ parser' = [parser EXCEPT !.state = "header_field_start",
                                        !.header = "general"]
            /\ call' = SameByte(ch, call.mark)
            /\ told' = [told EXCEPT !.bareCR = FALSE]

(* Fault: the trailer is taken for the headers. *)
HeadersAlmostDoneAgain(ch) ==
  /\ Sees({"headers_almost_done"}, ch)
  /\ Notify([parser EXCEPT !.state = "headers_done",
                            !.upgrade = "UPGRADE" \in parser.flags],
            "headers_complete", SameByte(ch, call.mark), ch)

(* on_headers_complete may answer that the message has no body.            *)
HeadersAlmostDone(ch) ==
  /\ Sees({"headers_almost_done"}, ch)
  /\ IF "TRAILING" \in parser.flags
       THEN Notify([parser EXCEPT !.state = "message_done"], "chunk_complete",
                   SameByte(ch, call.mark), ch)
       ELSE \E skipBody \in {{}, {"SKIPBODY"}} :
              Notify([parser EXCEPT
                        !.state = "headers_done", !.flags = @ \cup skipBody,
                        !.upgrade = "UPGRADE" \in parser.flags \/ parser.connect],
                     "headers_complete", SameByte(ch, call.mark), ch)

(* The last byte of the headers decides what follows.                      *)
HeadersDone(ch) ==
  /\ Sees({"headers_done"}, ch)
  /\ LET flags == parser.flags
         hasBody == "CHUNKED" \in flags \/ parser.length > 0
         exit == /\ parser.upgrade
                 /\ parser.connect \/ "SKIPBODY" \in flags \/ ~hasBody
         nothing == \/ exit \/ "SKIPBODY" \in flags
                    \/ /\ "CHUNKED" \notin flags
                       /\ \/ parser.length = 0
                          \/ /\ parser.length = -1
                             /\ parser.type = "request" \/ parser.bodiless
         chunked == ~nothing /\ "CHUNKED" \in flags
         identity == ~nothing /\ ~chunked /\ parser.length > 0 IN
     \/ /\ nothing
        /\ Notify(NEW_MESSAGE, "message_complete",
                  IF exit THEN Returned(None) ELSE NextByte(call.mark), None)
     \/ /\ chunked
        /\ Take([parser EXCEPT !.state = "chunk_size_start"], call.mark, 0)
     \/ /\ identity
        /\ parser' = [parser EXCEPT !.state = "body_identity"]
        /\ call' = NextByte(call.mark)
        /\ told' = [told EXCEPT !.owed = parser.length]
     \/ /\ ~nothing /\ ~chunked /\ ~identity
        /\ Take([parser EXCEPT !.state = "body_identity_eof"], call.mark, 0)

-----------------------------------------------------------------------------
(* Bodies.  A run of body bytes is taken at once; which bytes they are is  *)
(* never looked at.                                                        *)
InBody(state) == call.running /\ call.left > 0 /\ parser.state = state
ToRead == IF parser.length < call.left THEN parser.length ELSE call.left

(* At the end of the body p stands on its last byte, which message_done    *)
(* consumes.                                                               *)
BodyIdentityUntil(rest) ==
  /\ InBody("body_identity")
  /\ LET p == [parser EXCEPT !.length = @ - ToRead]
         left == call.left - ToRead IN
     IF p.length > rest
       THEN /\ parser' = p
            /\ call' = [call EXCEPT !.left = left, !.byte = None,
                                    !.mark = Mark("body")]
            /\ told' = [told EXCEPT !.due = @ + ToRead]
       ELSE \E answer \in Errno :
              /\ parser' = [p EXCEPT !.state = "message_done", !.errno = answer]
              /\ call' = IF answer = "OK"
                           THEN [call EXCEPT !.left = left + 1, !.byte = None,
                                             !.mark = Unmark("body")]
                           ELSE Returned(None)
              /\ told' = [Tell("body", Mark("body")["body"] - left) EXCEPT
                            !.due = @ + ToRead]

(* Fault: the body ends a byte early. *)
BodyIdentityEarly == BodyIdentityUntil(1)

BodyIdentity == BodyIdentityUntil(0)

BodyIdentityEof ==
  /\ InBody("body_identity_eof")
  /\ call' = [call EXCEPT !.left = 0, !.byte = None, !.mark = Mark("body")]
  /\ told' = [told EXCEPT !.due = @ + call.left]
  /\ UNCHANGED parser

MessageDone(ch) ==
  /\ Sees({"message_done"}, ch)
  /\ Notify(NEW_MESSAGE, "message_complete",
            IF parser.upgrade THEN Returned(None) ELSE NextByte(call.mark), None)

ChunkSizeStart(ch) ==
  /\ Sees({"chunk_size_start"}, ch)
  /\ IF ch \in DOMAIN unhex
       THEN Take([parser EXCEPT !.length = unhex[ch], !.state = "chunk_size"],
                 call.mark, 0)
       ELSE Error

ChunkSize(ch) ==
  /\ Sees({"chunk_size"}, ch) /\ ch \in DOMAIN unhex
  /\ IF parser.length <= (LengthMax - unhex[ch]) \div 16
       THEN Take([parser EXCEPT !.length = @ * 16 + unhex[ch]], call.mark, 0)
       ELSE Error

ChunkSizeAlmostDone(ch) ==
  /\ Sees({"chunk_size_almost_done"}, ch)
  /\ IF parser.length = 0
       THEN Notify([parser EXCEPT !.flags = @ \cup {"TRAILING"},
                                  !.state = "header_field_start"],
                   "last_chunk", NextByte(call.mark), None)
       ELSE Notify([parser EXCEPT !.state = "chunk_data"],
                   "chunk_header", NextByte(call.mark), None)

(* Fault: the end of the chunk is noticed one buffer late. *)
ChunkDataLate ==
  /\ InBody("chunk_data")
  /\ parser' = [parser EXCEPT !.length = @ - ToRead,
                              !.state = IF parser.length = 0
                                        THEN "chunk_data_almost_done" ELSE @]
  /\ call' = [call EXCEPT !.left = @ - ToRead, !.byte = None, !.mark = Mark("body")]
  /\ told' = [told EXCEPT !.due = @ + ToRead]

ChunkData ==
  /\ InBody("chunk_data")
  /\ parser' = [parser EXCEPT !.length = @ - ToRead,
                              !.state = IF parser.length = ToRead
                                        THEN "chunk_data_almost_done" ELSE @]
  /\ call' = [call EXCEPT !.left = @ - ToRead, !.byte = None, !.mark = Mark("body")]
  /\ told' = [told EXCEPT !.due = @ + ToRead]

ChunkDataAlmostDone(ch) ==
  /\ Sees({"chunk_data_almost_done"}, ch)
  /\ Data([parser EXCEPT !.state = "chunk_data_done"], "body",
          call.mark["body"], call.left, NextByte(Unmark("body")), None)

ChunkDataDone(ch) ==
  /\ Sees({"chunk_data_done"}, ch)
  /\ Notify([parser EXCEPT !.state = "chunk_size_start"], "chunk_complete",
            NextByte(call.mark), None)

(* After the loop: too many header bytes, or the range that goes on in the *)
(* next buffer.                                                            *)
EndOfBuffer ==
  /\ call.running /\ call.left = 0
  /\ \/ parser.state \notin BodyStates /\ Error
     \/ /\ call.mark = NoMark
        /\ call' = Returned(None) /\ UNCHANGED <<parser, told>>
     \/ \E s \in Spans :
          /\ call.mark[s] # 0
          /\ Data(parser, s, call.mark[s], 0, Returned(None), None)

-----------------------------------------------------------------------------
StartLine(ch) ==
  \/ PreStart(ch) \/ StartReqOrRes(ch) \/ ResOrRespH(ch) \/ StartRes(ch)
  \/ StartReq(ch) \/ ReqMethod(ch) \/ ReqSpacesBeforeUrl(ch) \/ Url(ch)
  \/ Plain(ch) \/ ResStatus(ch)

Header(ch) ==
  \/ HeaderFieldStart(ch) \/ HeaderField(ch) \/ HeaderValueStart(ch)
  \/ HeaderValue(ch) \/ HeaderAlmostDone(ch) \/ HeaderValueLws(ch)
  \/ HeadersAlmostDone(ch) \/ HeadersDone(ch)

Body(ch) ==
  \/ MessageDone(ch) \/ ChunkSizeStart(ch) \/ ChunkSize(ch)
  \/ ChunkSizeAlmostDone(ch) \/ ChunkDataAlmostDone(ch) \/ ChunkDataDone(ch)

(* The loop over the buffer: the case of the byte p is at.                 *)
Loop ==
  \/ /\ parser.state \in HeaderStates \cup {"headers_almost_done", "headers_done"}
     /\ \E ch \in Bytes : Header(ch)
  \/ /\ parser.state \in BodyStates \cup ChunkStates
     /\ \E ch \in Bytes : Body(ch)
  \/ \E ch \in Bytes : StartLine(ch)
  \/ BodyIdentity \/ BodyIdentityEof \/ ChunkData \/ EndOfBuffer

Next == Execute \/ ExecuteEof \/ Pause \/ Reinit \/ Loop

Spec == Init /\ [][Next]_vars

-----------------------------------------------------------------------------
TypeOK ==
  /\ parser \in [type : {"request", "response", "both"}, errno : Errno,
                 header : Headers, flags : SUBSET Flags, length : -1..LengthMax,
                 connect : BOOLEAN, bodiless : BOOLEAN, upgrade : BOOLEAN,
                 state : States]
  /\ call \in [running : BOOLEAN, left : 0..MaxBuffer, byte : Bytes \cup {None},
               mark : [Spans -> 0..MaxBuffer], skip : 0..LongRun]
  /\ told \in [last : {o[3] : o \in Order} \cup {None, "wrong"},
               owed : Int, due : Int, bareCR : BOOLEAN]

(* The asserts of http_parser.cc hold: the cases of a chunk run with       *)
(* F_CHUNKED, a body's cases with the content_length they expect, a name's *)
(* with a header state they know, at most one mark is left at the end of a *)
(* buffer, callbacks run with errno OK; and content_length, an int64_t, is *)
(* never past INT64_MAX.                                                   *)
AssertionsHold ==
  /\ parser.length \in -1..LengthMax
  /\ call.running => parser.errno = "OK"
  /\ Cardinality({s \in Spans : call.mark[s] # 0}) <= 1
  /\ parser.errno = "OK" =>
       /\ parser.state \in ChunkStates => "CHUNKED" \in parser.flags
       /\ parser.state \in {"body_identity", "chunk_data"} => parser.length > 0
       /\ parser.state = "chunk_data_almost_done" => parser.length = 0
       /\ parser.state = "header_field" =>
            parser.header \in {"general"} \cup Matching \cup Matched

(* Callbacks come in the order of a message, whatever the cuts between     *)
(* buffers and however often the user pauses: one message_begin and one    *)
(* message_complete, each value after its field, headers_complete once and *)
(* before the body, each chunk between its header and its chunk_complete,  *)
(* the trailer after the last chunk.                                       *)
CallbackOrder == told.last # "wrong"

(* Each byte of a url, reason, name, value or body is reported exactly     *)
(* once: what has been seen of a range and not been reported is what the   *)
(* mark spans, and nothing when the call has returned.  Not so for the     *)
(* rest of a value after a CR without LF (HeaderAlmostDone).               *)
EveryByteOnce ==
  parser.errno = "ERROR" \/ told.bareCR
    \/ LET Seen(s) == IF call.mark[s] = 0 THEN 0 ELSE call.mark[s] - call.left IN
       told.due = Seen("url") + Seen("reason") + Seen("header_field")
                    + Seen("header_value") + Seen("body")

(* A message or a chunk is complete only when as many body bytes were      *)
(* reported as its Content-Length or chunk header said, and never more.    *)
BodyWhole ==
  /\ told.owed >= 0
  /\ told.last \in {"message_complete", "chunk_complete", "chunks_complete"} =>
       told.owed = 0

(* What the caller is told of a message is all of it, once: every byte of  *)
(* every range, and as many bytes of body as announced, wherever buffers   *)
(* end and callbacks pause (http_parser.cc:620-640, 1845-2010).            *)
BytesReported == EveryByteOnce /\ BodyWhole

(* The cases that leave the byte to another case go forward along this     *)
(* order (goto reexecute_byte).                                            *)
Rank(state) ==
  CASE state \in StartStates \cup {"header_value"} -> 5
    [] state \in {"start_req_or_res", "header_almost_done"} -> 4
    [] state \in {"start_res", "start_req", "req_spaces_before_url",
                  "header_value_lws"} -> 3
    [] state = "header_field_start" -> 2
    [] state \in {"headers_almost_done", "body_identity"} -> 1
    [] OTHER -> 0

(* http_parser_execute returns: every turn of its loop consumes a byte,    *)
(* leaves, or hands the byte to a case further along, so that no byte is   *)
(* looked at for ever.                                                     *)
ExecuteAdvances ==
  [][call.running =>
       \/ ~call'.running \/ call'.left < call.left
       \/ Rank(parser'.state) < Rank(parser.state)]_vars
=============================================================================

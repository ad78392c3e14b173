------------------------------ MODULE HttpUrl ------------------------------
(***************************************************************************)
(* base/http/http_parser.cc: http_parser_parse_url splits a URL into its   *)
(* fields, as ranges of the buffer.  A first loop (parse_url_char) finds   *)
(* schema, server, path, query and fragment; a second one                  *)
(* (http_parse_host_char) splits the server into user, host and port.      *)
(*                                                                         *)
(* Both loops are folds over the buffer.  The result u starts zeroed, as   *)
(* every caller in the repository does; the buffer is followed by a byte   *)
(* that is no digit (strtoul).                                             *)
(***************************************************************************)
EXTENDS HttpBytes, Sequences, FiniteSets, SequencesExt

CONSTANTS MaxUrl,   \* longest buffer
          PortMax   \* 0xffff

ASSUME HttpUrlAssumption == MaxUrl \in Nat /\ PortMax \in Nat

VARIABLE buf   \* the URL

Dead == "dead"
Target(edges, s, ch) ==
  LET to == {e[3] : e \in {x \in edges : x[1] = s /\ ch \in x[2]}} IN
  IF to = {} THEN Dead ELSE CHOOSE t \in to : TRUE

(* parse_url_char: <<state, bytes, next state>>; dead without an edge. *)
UrlCharEdges ==
  LET server == {"req_server_start", "req_server", "req_server_with_at"}
      query == {"req_query_string_start", "req_query_string"} IN
  {<<"req_spaces_before_url", {"/"}, "req_path">>,
   <<"req_spaces_before_url", Alpha, "req_schema">>,
   <<"req_schema", Alpha, "req_schema">>,
   <<"req_schema", {":"}, "req_schema_slash">>,
   <<"req_schema_slash", {"/"}, "req_schema_slash_slash">>,
   <<"req_schema_slash_slash", {"/"}, "req_server_start">>,
   <<"req_path", UrlChar, "req_path">>,
   <<"req_path", {"?"}, "req_query_string_start">>,
   <<"req_path", {"#"}, "req_fragment_start">>,
   <<"req_fragment_start", UrlChar \cup {"?"}, "req_fragment">>,
   <<"req_fragment_start", {"#"}, "req_fragment_start">>,
   <<"req_fragment", UrlChar \cup {"?", "#"}, "req_fragment">>}
  \cup {<<s, {"/"}, "req_path">> : s \in server}
  \cup {<<s, {"?"}, "req_query_string_start">> : s \in server}
  \cup {<<s, {"@"}, "req_server_with_at">> : s \in server \ {"req_server_with_at"}}
  \cup {<<s, UserinfoChar \cup {"[", "]"}, "req_server">> : s \in server}
  \cup {<<s, UrlChar \cup {"?"}, "req_query_string">> : s \in query}
  \cup {<<s, {"#"}, "req_fragment_start">> : s \in query}

(* http_parse_host_char. *)
HostCharEdges ==
  LET v6 == Num \cup {"C", "E", ":", "."} IN
  {<<"userinfo_start", UserinfoChar, "userinfo">>,
   <<"userinfo_start", {"@"}, "host_start">>,
   <<"userinfo", UserinfoChar, "userinfo">>, <<"userinfo", {"@"}, "host_start">>,
   <<"host_start", HostChar, "host">>, <<"host_start", {"["}, "v6_start">>,
   <<"host", HostChar, "host">>, <<"host", {":"}, "port_start">>,
   <<"v6_start", v6, "v6">>, <<"v6", v6, "v6">>, <<"v6", {"]"}, "v6_end">>,
   <<"v6_end", {":"}, "port_start">>,
   <<"port_start", Num, "port">>, <<"port", Num, "port">>}

-----------------------------------------------------------------------------
(* The fields, in the order a URL has them. *)
Fields == <<"SCHEMA", "USERINFO", "HOST", "PORT", "PATH", "QUERY", "FRAGMENT">>
Zeroed == [f \in ToSet(Fields) |-> [off |-> 0, len |-> 0]]

(* Fault: the first byte of a field is not counted. *)
GrowLate(r, f, i, starts) ==
  [r EXCEPT !.set = @ \cup {f},
            !.data[f] = IF starts THEN [off |-> i - 1, len |-> 0]
                        ELSE [@ EXCEPT !.len = @ + 1]]

(* One byte more in field f, which starts here when it was not f's turn.   *)
Grow(r, f, i, starts) ==
  [r EXCEPT !.set = @ \cup {f},
            !.data[f] = IF starts THEN [off |-> i - 1, len |-> 1]
                        ELSE [@ EXCEPT !.len = @ + 1]]

FieldOf == [req_schema |-> "SCHEMA", req_server |-> "HOST",
            req_server_with_at |-> "HOST", req_path |-> "PATH",
            req_query_string |-> "QUERY", req_fragment |-> "FRAGMENT"]

(* The loop of http_parser_parse_url. *)
Split(is_connect) ==
  FoldLeftDomain(
    LAMBDA r, i :
      LET s == IF r.s = Dead THEN Dead ELSE Target(UrlCharEdges, r.s, buf[i])
          at == [r EXCEPT !.s = s, !.at = @ \/ s = "req_server_with_at"] IN
      IF s \notin DOMAIN FieldOf THEN at
      ELSE [Grow(at, FieldOf[s], i, FieldOf[s] # r.old) EXCEPT !.old = FieldOf[s]],
    [s |-> IF is_connect THEN "req_server_start" ELSE "req_spaces_before_url",
     old |-> "MAX", at |-> FALSE, set |-> {}, data |-> Zeroed],
    buf)

HostField == [userinfo |-> "USERINFO", host |-> "HOST", v6 |-> "HOST",
              port |-> "PORT"]

(* http_parse_host, on what Split found. *)
ParseHost(r) ==
  LET off == r.data["HOST"].off
      server == SubSeq(buf, off + 1, off + r.data["HOST"].len) IN
  FoldLeftDomain(
    LAMBDA q, i :
      LET s == IF q.s = Dead THEN Dead ELSE Target(HostCharEdges, q.s, server[i])
          to == [q EXCEPT !.s = s] IN
      IF s \notin DOMAIN HostField THEN to
      ELSE LET g == Grow(to, HostField[s], off + i, q.s # s) IN
           IF HostField[s] = "HOST" THEN [g EXCEPT !.set = q.set] ELSE g,
    [r EXCEPT !.s = IF r.at THEN "userinfo_start" ELSE "host_start",
              !.data["HOST"].len = 0],
    server)

(* The states in which a server may end. *)
HostEnds == {"host", "v6_end", "port"}

(* strtoul on the port. *)
Number(digits) ==
  FoldLeft(LAMBDA n, d : 10 * n + Digit[d], 0, digits)

Text(u, f) == SubSeq(buf, u.data[f].off + 1, u.data[f].off + u.data[f].len)

(* Fault: a path is let through after the port of a CONNECT. *)
ConnectFieldsAny(set) == {"HOST", "PORT"} \subseteq set

(* CONNECT requests can only contain "hostname:port". *)
ConnectFields(set) == set = {"HOST", "PORT"}

(* http_parser_parse_url: the fields it finds, or failure. *)
Failure == [ok |-> FALSE]
parse_url(is_connect) ==
  LET split == Split(is_connect)
      hosted == split.set \cap {"SCHEMA", "HOST"} # {}
      u == IF hosted /\ split.s # Dead THEN ParseHost(split) ELSE split IN
  IF \/ split.s = Dead
     \/ hosted /\ u.s \notin HostEnds
     \/ is_connect /\ ~ConnectFields(u.set)
     \/ "PORT" \in u.set /\ Number(Text(u, "PORT")) > PortMax
    THEN Failure
    ELSE [ok |-> TRUE, set |-> u.set, data |-> u.data,
          port |-> IF "PORT" \in u.set THEN Number(Text(u, "PORT")) ELSE 0]

-----------------------------------------------------------------------------
(* Every URL of up to MaxUrl bytes, with and without a schema in front; a  *)
(* buffer with a dead prefix stays dead.                                   *)
UrlBytes == {"C", "2", ":", "/", "@", "?", "#", "[", "]"}
Schema == <<"C", ":", "/", "/">>

UrlInit == buf = <<>>

AppendByte ==
  /\ Len(buf) < MaxUrl + IF IsPrefix(Schema, buf) THEN Len(Schema) ELSE 0
  /\ \E is_connect \in BOOLEAN : Split(is_connect).s # Dead
  /\ \/ \E ch \in UrlBytes : buf' = Append(buf, ch)
     \/ buf = <<>> /\ buf' = Schema

-----------------------------------------------------------------------------
Extent(u, f) == (u.data[f].off + 1)..(u.data[f].off + u.data[f].len)

(* When a URL is accepted its fields are ranges inside the buffer, none of *)
(* them empty, one after the other in the order of Fields without overlap, *)
(* and all they leave out are delimiters; although server, user, host and  *)
(* port are cut by two loops that know nothing of each other.              *)
FieldsPartitionUrl ==
  \A is_connect \in BOOLEAN :
    LET u == parse_url(is_connect)
        set == SelectSeq(Fields, LAMBDA f : f \in u.set) IN
    u.ok =>
      /\ \A f \in u.set : u.data[f].len > 0 /\ Extent(u, f) \subseteq DOMAIN buf
      /\ \A i \in 1..(Len(set) - 1) :
           u.data[set[i]].off + u.data[set[i]].len < u.data[set[i + 1]].off + 1
      /\ \A i \in DOMAIN buf :
           i \in UNION {Extent(u, f) : f \in u.set}
             \/ buf[i] \in {":", "/", "@", "?", "#", "[", "]"}

(* A host, a colon and a port that fits 16 bits. *)
HostPort(s) ==
  \E i \in DOMAIN s :
    LET host == SubSeq(s, 1, i - 1)
        port == SubSeq(s, i + 1, Len(s)) IN
    /\ s[i] = ":" /\ port # <<>> /\ ToSet(port) \subseteq Num
    /\ Number(port) <= PortMax
    /\ \/ host # <<>> /\ ToSet(host) \subseteq HostChar
       \/ /\ Len(host) > 2 /\ Head(host) = "[" /\ Last(host) = "]"
          /\ ToSet(Tail(Front(host))) \subseteq Num \cup {"C", "E", ":", "."}

(* A CONNECT is accepted exactly when it is host:port, up to what leaves   *)
(* no field behind: an empty user (@) in front, an empty query and         *)
(* fragment (? and then #s) at the end.                                    *)
ConnectIsHostPort ==
  LET first == IF buf # <<>> /\ Head(buf) = "@" THEN 2 ELSE 1
      queries == {i \in DOMAIN buf : buf[i] = "?"}
      last == IF \E q \in queries : \A i \in (q + 1)..Len(buf) : buf[i] = "#"
              THEN (CHOOSE q \in queries : TRUE) - 1 ELSE Len(buf) IN
  parse_url(TRUE).ok <=> Cardinality(queries) < 2 /\ HostPort(SubSeq(buf, first, last))

(* An accepted URL is split into its fields without gap or overlap, and a  *)
(* CONNECT target is a host and a port (http_parser.cc:2165-2335).         *)
UrlSplit == FieldsPartitionUrl /\ ConnectIsHostPort
=============================================================================

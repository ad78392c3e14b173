---------------------------- MODULE MCHttpParser ----------------------------
(* Instance of HttpParser and of HttpUrl for TLC: a behaviour is one of the *)
(* parser, or builds up a URL while the parser stays where it began.        *)
EXTENDS HttpParser, HttpUrl

allVars == <<vars, buf>>

MCInit == Init /\ UrlInit

MCNext ==
  \/ buf = <<>> /\ Next /\ UNCHANGED buf
  \/ parser = Fresh("request") /\ told.last = None /\ ~call.running
       /\ AppendByte /\ UNCHANGED vars
  \/ buf # <<>> /\ UNCHANGED allVars

MCSpec == MCInit /\ [][MCNext]_allVars
=============================================================================

----------------------------- MODULE HttpBytes -----------------------------
(***************************************************************************)
(* base/http/http_parser.cc: the character classes of the parser and of    *)
(* the URL functions, on one representative per class the code tells apart *)
(* (0x80 and above, and '*', are left out).  C, H, T and U start the       *)
(* methods and the header names the code looks for; E is a letter no       *)
(* method starts with; C and E are hex digits; 0 and 2 are the digits.     *)
(* Non-strict build (HTTP_PARSER_STRICT is 0 by default).                  *)
(***************************************************************************)
EXTENDS Integers

Digit == [b \in {"0", "2"} |-> IF b = "0" THEN 0 ELSE 2]
Num == DOMAIN Digit
Alpha == {"C", "E", "H", "T", "U"}
UrlDelimiters == {"SP", "CR", "LF", "?", "#", "NUL"}
Bytes == Num \cup Alpha \cup UrlDelimiters
           \cup {":", "/", "[", "]", ".", ";", "@", "QT", "BS"}

unhex == [b \in Num \cup {"C", "E"} |->
            CASE b = "C" -> 12 [] b = "E" -> 14 [] OTHER -> Digit[b]]
UrlChar == Bytes \ UrlDelimiters
HostChar == Num \cup Alpha \cup {"."}
UserinfoChar == HostChar \cup {":", ";"}
Token == Num \cup Alpha \cup {"SP", "#", ".", "QT"}
=============================================================================

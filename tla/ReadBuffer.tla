----------------------------- MODULE ReadBuffer -----------------------------
(***************************************************************************)
(* What InputBuffer and BufferedInputStream have in common: a buffer ahead *)
(* of a position in a file, and the loops that hand its bytes out and fill *)
(* it when it is empty.  One turn of a loop is one step.  An instance says *)
(* what a refill may bring: a set of [status, data, at], at being the      *)
(* position behind it.                                                     *)
(***************************************************************************)
EXTENDS RandomAccessFile

CONSTANTS
  Files,        \* the files of the instance
  Counts,       \* the lengths and positions callers ask for
  LF, CR,       \* the bytes '\n' and '\r'
  High,         \* the bytes with bit 7 set
  VarintMax,    \* kMaxVarint32Bytes
  BufferSize    \* size_

\* What the constants must be; whoever instantiates the module assumes it.
ReadBufferAssumption ==
  /\ Files \subseteq Seq(Nat) /\ Counts \subseteq Int /\ LF \in Nat
  /\ VarintMax \in Nat \ {0} /\ BufferSize \in Nat \ {0}

VARIABLES
  file,     \* the bytes of the file
  filePos,  \* file_pos_ of InputBuffer, pos_ of the stream below the other
  buf,      \* the valid bytes of buf_: those before limit_
  pos,      \* pos_, counted from the start of buf_
  call,     \* the call being executed: [op, n], or Idle
  got,      \* the bytes it has taken so far
  status,   \* its local Status
  reply,    \* what the last call returned: [status, data]
  from      \* history: Tell() when the call began

vars == <<file, filePos, buf, pos, call, got, status, reply, from>>

Idle == [op |-> "none", n |-> 0]

\* Tell(): the offset of the byte at pos_.
Tell == filePos - (Len(buf) - pos)

Init ==
  /\ file \in Files
  /\ filePos = 0
  /\ buf = <<>>
  /\ pos = 0
  /\ call = Idle
  /\ got = <<>>
  /\ status = "OK"
  /\ reply = [status |-> "none", data |-> <<>>]
  /\ from = 0

\* A call begins with an empty result and a local Status of OK.
Begin(op, n) ==
  /\ call = Idle
  /\ call' = [op |-> op, n |-> n]
  /\ got' = <<>>
  /\ status' = "OK"
  /\ reply' = [status |-> "none", data |-> <<>>]
  /\ from' = Tell
  /\ UNCHANGED <<file, filePos, buf, pos>>

\* The call returns; its locals are gone.
End(st, data) ==
  /\ call' = Idle
  /\ got' = <<>>
  /\ status' = "OK"
  /\ reply' = [status |-> st, data |-> data]
  /\ from' = 0
  /\ UNCHANGED file

\* Return without having touched the buffer.
EndAt(st, data) == End(st, data) /\ UNCHANGED <<filePos, buf, pos>>

\* The buffer a loop's turn works on: the one at hand, or a refilled one.
AtHand(refills) ==
  IF pos < Len(buf)
  THEN {[status |-> status, buf |-> buf, pos |-> pos, at |-> filePos]}
  ELSE {[status |-> r.status, buf |-> r.data, pos |-> 0, at |-> r.at] : r \in refills}

SetBuffer(b) == buf' = b.buf /\ filePos' = b.at

\* Where the caller sees the stream: a call moves it when it returns.
Offset == IF call = Idle THEN Tell ELSE from

\* What a loop over a count answers: an OUT_OF_RANGE met on the way does not
\* matter when everything was there.
CountStatus(st) == IF st = "OUT_OF_RANGE" /\ Len(got) = call.n THEN "OK" ELSE st

\* One turn of the loops of ReadNBytes and of InputBuffer::SkipNBytes.
CountTurn(op, refills) ==
  /\ call.op = op
  /\ Len(got) < call.n
  /\ \E b \in AtHand(refills) :
       /\ SetBuffer(b)
       /\ \/ /\ b.buf = <<>>
             /\ pos' = 0
             /\ End(b.status, IF op = "ReadNBytes" THEN got ELSE <<>>)
          \/ /\ b.buf # <<>>
             /\ LET k == Least(Len(b.buf) - b.pos, call.n - Len(got))
                IN /\ pos' = b.pos + k
                   /\ got' = got \o SubSeq(b.buf, b.pos + 1, b.pos + k)
             /\ status' = b.status
             /\ UNCHANGED <<file, call, reply, from>>

CountEnd(op) ==
  /\ call.op = op
  /\ call.n >= 0
  /\ Len(got) = call.n
  /\ EndAt(CountStatus(status), IF op = "ReadNBytes" THEN got ELSE <<>>)

Refuse(op) ==
  /\ call.op = op
  /\ call.n < 0
  /\ EndAt("INVALID_ARGUMENT", <<>>)

\* One turn of the loops that read a line.
LineTurn(refills, eol) ==
  \E b \in AtHand(refills) :
    /\ SetBuffer(b)
    /\ \/ /\ b.buf = <<>>
          /\ pos' = 0
          /\ End(IF b.status = "OUT_OF_RANGE" /\ got # <<>> THEN "OK" ELSE b.status, got)
       \/ /\ b.buf # <<>>
          /\ pos' = b.pos + 1
          /\ LET c == b.buf[b.pos + 1]
             IN \/ c = LF /\ End("OK", got \o eol)
                \/ /\ c # LF
                   /\ got' = IF c = CR THEN got ELSE Append(got, c)
                   /\ status' = b.status
                   /\ UNCHANGED <<file, call, reply, from>>
=============================================================================

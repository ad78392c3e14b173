----------------------------- MODULE ByteStream -----------------------------
(***************************************************************************)
(* What the readers of base/io promise their caller: a file read as one    *)
(* stream of bytes, whatever is buffered in between.  A call and its       *)
(* return are two steps.  A read the operating system refuses may have     *)
(* delivered a part of what was asked; the stream then stands behind that  *)
(* part.                                                                   *)
(***************************************************************************)
EXTENDS Integers, Sequences

CONSTANTS
  LF, CR,     \* the bytes '\n' and '\r'
  High,       \* the bytes with bit 7 set: a varint goes on behind them
  VarintMax   \* the bytes a varint32 may have (kMaxVarint32Bytes)

VARIABLES
  file,   \* the bytes of the file
  at,     \* how many of them the stream is past
  call,   \* the call being made: [op, n], or Idle
  reply   \* what the last call answered: [status, data]

vars == <<file, at, call, reply>>

Idle == [op |-> "none", n |-> 0]

Operations == {"ReadNBytes", "SkipNBytes", "ReadLine", "ReadVarint32", "Seek", "Reset"}

Nothing == [status |-> "none", data |-> <<>>]

Answer(status, data) == [status |-> status, data |-> data]

Least(a, b) == IF a <= b THEN a ELSE b

Most(a, b) == IF a <= b THEN b ELSE a

\* The bytes ahead of the stream, and the first n of them.
Ahead == SubSeq(file, at + 1, Len(file))

NextBytes(n) == SubSeq(file, at + 1, Least(at + n, Len(file)))

\* A text line leaves out '\r' wherever it stands.
Text(bytes) ==
  LET text[i \in 0 .. Len(bytes)] ==
        IF i = 0 THEN <<>>
        ELSE IF bytes[i] = CR THEN text[i - 1] ELSE Append(text[i - 1], bytes[i])
  IN text[Len(bytes)]

Init ==
  /\ at = 0
  /\ call = Idle
  /\ reply = Nothing

\* The caller asks.
Ask ==
  /\ call = Idle
  /\ call' \in [op : Operations, n : Int]
  /\ reply' = Nothing
  /\ UNCHANGED <<file, at>>

Move(op, status, data, newAt) ==
  /\ call.op = op
  /\ call' = Idle
  /\ reply' = Answer(status, data)
  /\ at' = newAt
  /\ UNCHANGED file

Refuse ==
  /\ call.op \in {"ReadNBytes", "SkipNBytes", "Seek"}
  /\ call.n < 0
  /\ Move(call.op, "INVALID_ARGUMENT", <<>>, at)

\* All the bytes asked for, or all there are and OUT_OF_RANGE.
ReadNBytes ==
  /\ call.n >= 0
  /\ LET data == NextBytes(call.n)
     IN Move("ReadNBytes", IF Len(data) = call.n THEN "OK" ELSE "OUT_OF_RANGE",
             data, at + Len(data))

SkipNBytes ==
  /\ call.n >= 0
  /\ LET data == NextBytes(call.n)
     IN Move("SkipNBytes", IF Len(data) = call.n THEN "OK" ELSE "OUT_OF_RANGE",
             <<>>, at + Len(data))

\* The bytes up to the next '\n', which is passed; call.n = 1 keeps it in the
\* line.  A last line without '\n' is a line unless its text is empty.
ReadLine ==
  LET ends  == {i \in 1 .. Len(Ahead) : Ahead[i] = LF}
      first == CHOOSE i \in ends : \A j \in ends : i <= j
      eol   == IF call.n = 1 THEN <<LF>> ELSE <<>>
  IN IF ends # {}
     THEN Move("ReadLine", "OK", Text(SubSeq(Ahead, 1, first - 1)) \o eol, at + first)
     ELSE Move("ReadLine", IF Text(Ahead) = <<>> THEN "OUT_OF_RANGE" ELSE "OK",
               Text(Ahead), at + Len(Ahead))

\* A varint32 ends at the first byte below 128.  One that does not end within
\* VarintMax bytes is refused, and then may or may not have been passed.
ReadVarint32 ==
  LET bytes == NextBytes(VarintMax)
      ends  == {i \in 1 .. Len(bytes) : bytes[i] \notin High}
      first == CHOOSE i \in ends : \A j \in ends : i <= j
  IN \/ /\ ends # {}
        /\ Move("ReadVarint32", "OK", SubSeq(bytes, 1, first), at + first)
     \/ /\ ends = {}
        /\ Len(bytes) < VarintMax
        /\ Move("ReadVarint32", "OUT_OF_RANGE", <<>>, at + Len(bytes))
     \/ /\ ends = {}
        /\ Len(bytes) = VarintMax
        /\ \/ Move("ReadVarint32", "OUT_OF_RANGE", <<>>, at)
           \/ Move("ReadVarint32", "DATA_LOSS", <<>>, at + VarintMax)

\* To a position of the file; behind its end either the position or the end.
Seek ==
  /\ call.n >= 0
  /\ \/ Move("Seek", "OK", <<>>, call.n)
     \/ /\ call.n > Len(file)
        /\ Move("Seek", "OUT_OF_RANGE", <<>>, Most(at, Len(file)))

Reset == Move("Reset", "OK", <<>>, 0)

\* What may stop a read besides the end: the system, or undecodable content.
Errors == {"IO_ERROR", "DATA_LOSS"}

\* The system refuses a read after some of the bytes the call needs.
ReadFails ==
  \E k \in 0 .. Len(Ahead), error \in Errors :
    LET data == SubSeq(Ahead, 1, k)
    IN \/ k <= call.n /\ Move("ReadNBytes", error, data, at + k)
       \/ k <= call.n /\ Move("SkipNBytes", error, <<>>, at + k)
       \/ k <= VarintMax /\ Move("ReadVarint32", error, <<>>, at + k)
       \/ /\ \A i \in 1 .. k : data[i] # LF
          /\ Move("ReadLine", error, Text(data), at + k)

\* A seek that reads its way forward, perhaps from the beginning, fails on it.
SeekFails ==
  \E p \in 0 .. Len(file) :
    /\ p <= call.n
    /\ call.n < at \/ p >= at
    /\ Move("Seek", "IO_ERROR", <<>>, p)

Next ==
  \/ Ask
  \/ Refuse
  \/ ReadNBytes
  \/ SkipNBytes
  \/ ReadLine
  \/ ReadVarint32
  \/ Seek
  \/ Reset
  \/ ReadFails
  \/ SeekFails

Spec == Init /\ [][Next]_vars
=============================================================================

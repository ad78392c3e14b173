------------------------- MODULE BufferedInputStream -------------------------
(***************************************************************************)
(* base/io/buffered_inputstream in front of a RandomAccessInputStream, for *)
(* one caller.  It skips, and seeks, by letting the stream below skip,     *)
(* which that does by reading pieces of kMaxSkipSize bytes.                *)
(***************************************************************************)
EXTENDS ReadBuffer

CONSTANT MaxSkip  \* kMaxSkipSize

\* What the constants must be; whoever instantiates the module assumes it.
BufferedInputStreamAssumption == ReadBufferAssumption /\ MaxSkip \in Nat \ {0}

VARIABLE left  \* bytes the stream below has still to skip, or NotSkipping

streamVars == <<vars, left>>

NotSkipping == -1

StreamInit == Init /\ left = NotSkipping

FillBuffer == StreamRead(file, filePos, BufferSize)

\* ReadLine leaves the '\n' out, ReadLineAsString (call.n = 1) keeps it.
ReadLineHelper ==
  /\ call.op = "ReadLine"
  /\ LineTurn(FillBuffer, IF call.n = 1 THEN <<LF>> ELSE <<>>)
  /\ UNCHANGED left

ReadNBytes ==
  /\ \/ Refuse("ReadNBytes")
     \/ CountTurn("ReadNBytes", FillBuffer)
     \/ CountEnd("ReadNBytes")
  /\ UNCHANGED left

\* Skip n bytes from position p of a buffer that holds b.
StartSkip(n, b, p, at) ==
  /\ filePos' = at
  /\ buf' = b
  /\ IF p + n < Len(b)
     THEN /\ pos' = p + n
          /\ End("OK", <<>>)
          /\ UNCHANGED left
     ELSE /\ left' = n - (Len(b) - p)
          /\ pos' = p
          /\ UNCHANGED <<file, call, got, status, reply, from>>

SkipNBytes ==
  /\ call.op = "SkipNBytes"
  /\ call.n >= 0
  /\ left = NotSkipping
  /\ StartSkip(call.n, buf, pos, filePos)

\* Backwards: Reset and skip from the beginning.
Seek ==
  /\ call.op = "Seek"
  /\ call.n >= 0
  /\ left = NotSkipping
  /\ IF call.n < Tell
     THEN StartSkip(call.n, <<>>, 0, 0)
     ELSE StartSkip(call.n - Tell, buf, pos, filePos)

\* Fault: the bytes in front of the skipped ones stay in the buffer.
SkipDoneKeepsBuffer(st) ==
  /\ left' = NotSkipping
  /\ buf' = buf
  /\ pos' = pos
  /\ End(st, <<>>)

\* The stream below has skipped, or could not: the buffer is given up.
SkipDone(st) ==
  /\ left' = NotSkipping
  /\ buf' = <<>>
  /\ pos' = 0
  /\ End(st, <<>>)

\* A turn of InputStreamInterface::SkipNBytes.
SkipTurn ==
  /\ left > 0
  /\ \E r \in StreamRead(file, filePos, Least(MaxSkip, left)) :
       /\ filePos' = r.at
       /\ IF r.status = "OK"
          THEN /\ left' = left - Least(MaxSkip, left)
               /\ UNCHANGED <<file, buf, pos, call, got, status, reply, from>>
          ELSE SkipDone(r.status)

SkipEnd ==
  /\ left = 0
  /\ SkipDone("OK")
  /\ UNCHANGED filePos

Reset ==
  /\ call.op = "Reset"
  /\ filePos' = 0
  /\ buf' = <<>>
  /\ pos' = 0
  /\ End("OK", <<>>)
  /\ UNCHANGED left

RefuseMove == (Refuse("SkipNBytes") \/ Refuse("Seek")) /\ UNCHANGED left

Call ==
  /\ \/ \E op \in {"ReadNBytes", "SkipNBytes", "Seek"}, n \in Counts : Begin(op, n)
     \/ \E n \in {0, 1} : Begin("ReadLine", n)
     \/ Begin("Reset", 0)
  /\ UNCHANGED left

Next ==
  \/ Call
  \/ ReadLineHelper
  \/ ReadNBytes
  \/ SkipNBytes
  \/ Seek
  \/ SkipTurn
  \/ SkipEnd
  \/ Reset
  \/ RefuseMove

Spec == StreamInit /\ [][Next]_streamVars
-----------------------------------------------------------------------------
Stream == INSTANCE ByteStream WITH at <- Offset

(***************************************************************************)
(* The buffered stream is one stream of bytes too, as long as a read that  *)
(* fails has delivered nothing (Partial = FALSE): lines, counts, skips     *)
(* over the end of the buffer, seeks backwards by Reset, and Tell.         *)
(***************************************************************************)
BufferedIsAStream == Stream!Spec

(***************************************************************************)
(* "Reads the next bytes_to_read from the file" (inputstream_interface.h): *)
(* the bytes a ReadNBytes has gathered are those that follow in the file.  *)
(***************************************************************************)
ReadsTheNextBytes ==
  call.op = "ReadNBytes" => /\ from >= 0
                            /\ got = SubSeq(file, from + 1, Least(from + Len(got), Len(file)))
=============================================================================

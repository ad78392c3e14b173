--------------------------- MODULE ZlibInputStream ---------------------------
(***************************************************************************)
(* base/io/zlib_inputstream on a RandomAccessInputStream, for one caller.  *)
(* zlib is external.  A compressed file is a sequence of tokens: what one  *)
(* of them inflates to (out), whether the compressed stream ends with it   *)
(* (last) and whether inflate() refuses it (bad).  inflate() takes tokens  *)
(* as long as what it has inflated fits in the room it is given, and keeps *)
(* what does not fit inside z_stream until it is called again.             *)
(***************************************************************************)
EXTENDS RandomAccessFile, SequencesExt

CONSTANTS
  ZFiles,        \* the compressed files
  ReadCounts,    \* the lengths callers ask for
  InputSize,     \* input_buffer_capacity_
  OutputSize,    \* output_buffer_capacity_
  MaxSkip        \* kMaxSkipSize

VARIABLES
  zfile,    \* the tokens of the file below
  filePos,  \* the position of the stream below
  in,       \* the avail_in tokens at next_in
  out,      \* the bytes from next_unread_byte_ to next_out
  held,     \* z_stream's inside: bytes inflated that had no room yet,
  mode,     \* and whether it goes on, has ended or has failed
  call,     \* the call being executed: [op, n], or Idle
  left,     \* how much of call.n is still to be read, before `got'
  got,      \* *result
  reply,    \* what the last call returned: [status, data]
  done      \* history: the bytes handed to the caller since the last Reset

vars == <<zfile, filePos, in, out, held, mode, call, left, got, reply, done>>

Idle == [op |-> "none", n |-> 0]

Init ==
  /\ zfile \in ZFiles
  /\ filePos = 0
  /\ in = <<>>
  /\ out = <<>>
  /\ held = <<>>
  /\ mode = "inflating"
  /\ call = Idle
  /\ left = 0
  /\ got = <<>>
  /\ reply = [status |-> "none", data |-> <<>>]
  /\ done = 0

Call(op, n) ==
  /\ call = Idle
  /\ call' = [op |-> op, n |-> n]
  /\ left' = n
  /\ reply' = [status |-> "none", data |-> <<>>]
  /\ UNCHANGED <<zfile, filePos, in, out, held, mode, got, done>>

\* SkipNBytes reads pieces of kMaxSkipSize, ReadNBytes all at once.
Piece == IF call.op = "SkipNBytes" THEN Least(MaxSkip, left) ELSE left

End(st) ==
  /\ call' = Idle
  /\ left' = 0
  /\ got' = <<>>
  /\ reply' = [status |-> st, data |-> IF call.op = "ReadNBytes" THEN got ELSE <<>>]
  /\ done' = done + (call.n - left) + Len(got)
  /\ UNCHANGED zfile

\* ReadBytesFromCache: from what the last inflate() left in the output buffer.
ReadBytesFromCache ==
  /\ call # Idle
  /\ Len(got) < Piece
  /\ out # <<>>
  /\ LET k == Least(Len(out), Piece - Len(got))
     IN /\ got' = got \o SubSeq(out, 1, k)
        /\ out' = SubSeq(out, k + 1, Len(out))
  /\ UNCHANGED <<zfile, filePos, in, held, mode, call, left, reply, done>>

\* Nothing cached: the loop of ReadNBytes has to inflate more.
Wanting == call # Idle /\ Len(got) < Piece /\ out = <<>>

\* The input is refilled only when all of it was consumed.
ReadFromStream ==
  /\ Wanting
  /\ in = <<>>
  /\ \E r \in StreamRead(zfile, filePos, InputSize) :
       /\ filePos' = r.at
       /\ in' = r.data
       /\ \/ r.status = "IO_ERROR" /\ End("IO_ERROR")
          \/ r.status # "IO_ERROR" /\ r.data = <<>> /\ End("OUT_OF_RANGE")
          \/ /\ r.status # "IO_ERROR"
             /\ r.data # <<>>
             /\ UNCHANGED <<zfile, call, left, got, reply, done>>
  /\ UNCHANGED <<out, held, mode>>

\* What k tokens inflate to, behind what was held.
Inflated(k) == held \o FlattenSeq([i \in 1 .. k |-> in[i].out])

\* The tokens inflate() takes: the next one as long as the stream goes on and
\* everything so far fits.
Taken ==
  CHOOSE k \in 0 .. Len(in) :
    /\ \A j \in 0 .. k - 1 : /\ Len(Inflated(j)) <= OutputSize
                             /\ j > 0 => ~in[j].last /\ ~in[j].bad
                             /\ mode = "inflating"
    /\ \/ k = Len(in)
       \/ mode # "inflating"
       \/ Len(Inflated(k)) > OutputSize
       \/ k > 0 /\ (in[k].last \/ in[k].bad)

\* One inflate() into the empty output buffer.
Inflate ==
  /\ Wanting
  /\ in # <<>>
  /\ LET all  == Inflated(Taken)
         fits == Least(Len(all), OutputSize)
     IN /\ out' = SubSeq(all, 1, fits)
        /\ held' = SubSeq(all, fits + 1, Len(all))
  /\ in' = SubSeq(in, Taken + 1, Len(in))
  /\ mode' = IF Taken = 0 THEN mode
             ELSE IF in[Taken].bad THEN "failed"
             ELSE IF in[Taken].last THEN "ended" ELSE mode
  /\ IF mode' = "failed" THEN End("DATA_LOSS") ELSE UNCHANGED <<zfile, call, left, got, reply, done>>
  /\ UNCHANGED filePos

\* A piece of a skip is complete.
NextPiece ==
  /\ call.op = "SkipNBytes"
  /\ Len(got) = Piece
  /\ left > Piece
  /\ left' = left - Piece
  /\ got' = <<>>
  /\ UNCHANGED <<zfile, filePos, in, out, held, mode, call, reply, done>>

Complete ==
  /\ call.op \in {"ReadNBytes", "SkipNBytes"}
  /\ Len(got) = left
  /\ End("OK")
  /\ UNCHANGED <<filePos, in, out, held, mode>>

\* Fault: z_stream is not begun anew.
ResetKeepsHeld ==
  /\ call.op = "Reset"
  /\ call' = Idle
  /\ reply' = [status |-> "OK", data |-> <<>>]
  /\ filePos' = 0
  /\ in' = <<>>
  /\ out' = <<>>
  /\ done' = 0
  /\ UNCHANGED <<zfile, held, mode, left, got>>

\* Reset the stream below and begin with an empty z_stream.
Reset ==
  /\ call.op = "Reset"
  /\ call' = Idle
  /\ reply' = [status |-> "OK", data |-> <<>>]
  /\ filePos' = 0
  /\ in' = <<>>
  /\ out' = <<>>
  /\ held' = <<>>
  /\ mode' = "inflating"
  /\ done' = 0
  /\ UNCHANGED <<zfile, left, got>>

Next ==
  \/ \E op \in {"ReadNBytes", "SkipNBytes"}, n \in ReadCounts : Call(op, n)
  \/ Call("Reset", 0)
  \/ ReadBytesFromCache
  \/ ReadFromStream
  \/ Inflate
  \/ NextPiece
  \/ Complete
  \/ Reset

Spec == Init /\ [][Next]_vars
-----------------------------------------------------------------------------
\* What the compressed file stands for: its tokens up to the last one.
Stops == {i \in 1 .. Len(zfile) : zfile[i].last \/ zfile[i].bad}

Content ==
  LET upTo == IF Stops = {} THEN Len(zfile) ELSE CHOOSE i \in Stops : \A j \in Stops : i <= j
  IN FlattenSeq([i \in 1 .. upTo |-> zfile[i].out])

Stream == INSTANCE ByteStream WITH
  file <- Content, at <- done, LF <- 0, CR <- 0, High <- {}, VarintMax <- 1

(***************************************************************************)
(* Files whose end of stream is a token of its own, as the checksum of the *)
(* zlib and gzip formats is, and has nothing behind it: the caller reads   *)
(* the decompressed content as one stream, whatever the sizes of the two   *)
(* buffers, and is told OUT_OF_RANGE only where it ends.                   *)
(***************************************************************************)
ZlibInputIsAStream == Stream!Spec

(***************************************************************************)
(* "OUT_OF_RANGE: If there are not enough bytes to read before the end of  *)
(* the stream" (zlib_inputstream.h).                                       *)
(***************************************************************************)
EndMeansAllRead == reply.status = "OUT_OF_RANGE" => done = Len(Content)
=============================================================================

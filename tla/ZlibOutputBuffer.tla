-------------------------- MODULE ZlibOutputBuffer --------------------------
(***************************************************************************)
(* base/io/zlib_outputbuffer on a WritableFile, for one caller.  zlib and  *)
(* the file are external.  A unit of compressed data stands for one byte   *)
(* of the caller's; deflate() may keep units inside z_stream, stops when   *)
(* its input is consumed or its room is full, and lets everything out when *)
(* it is told to flush or to finish.  An Append of the file may fail, and  *)
(* has then written nothing.                                               *)
(***************************************************************************)
EXTENDS Integers, Sequences

CONSTANTS
  FlushModes,   \* zlib_options_.flush_mode: "NO_FLUSH", "SYNC_FLUSH"
  InputSize,    \* input_buffer_capacity_
  OutputSize,   \* output_buffer_capacity_
  MarkerSize,   \* 6 in the code: the room a flush marker wants
  Lengths,      \* the lengths of the data callers append
  MaxBytes,     \* bound: the bytes of a behaviour
  Failures      \* bound: the errors of the file in a behaviour

\* What the constants must be; whoever instantiates the module assumes it.
\* Z_FINISH as the mode of every deflate() would end the stream at once.
ZlibOutputBufferAssumption ==
  /\ InputSize \in Nat /\ OutputSize \in Nat /\ Lengths \subseteq Nat
  /\ FlushModes \subseteq {"NO_FLUSH", "SYNC_FLUSH"}

VARIABLES
  flushMode,  \* the options of this buffer
  written,    \* the units in the file
  out,        \* the units in z_stream_output_
  held,       \* the units inside z_stream
  finished,   \* z_stream has taken Z_FINISH
  in,         \* the avail_in bytes at next_in
  nextIn,     \* next_in: an offset in z_stream_input_, or Outside
  pc,         \* where the call is: "idle", "room", "deflate", "add", "write"
  call,       \* the call being executed: [op, data]
  open,       \* Close() has not succeeded yet
  reply,      \* what the last call returned: [op, status]
  taken,      \* history: the bytes the buffer took over, in order
  failures    \* history: the errors so far

vars == <<flushMode, written, out, held, finished, in, nextIn, pc, call, open, reply, taken, failures>>

zstream == <<out, held, finished, in, nextIn>>

\* next_in points into the caller's data, not into the own input buffer.
Outside == -1

End == 0  \* the unit that ends a compressed stream

NoCall == [op |-> "none", data |-> <<>>]

Room == OutputSize - Len(out)

AvailableInputSpace == InputSize - Len(in)

\* ZlibOutputBuffer::Init.
Init ==
  /\ flushMode \in FlushModes
  /\ written = <<>>
  /\ out = <<>>
  /\ held = <<>>
  /\ finished = FALSE
  /\ in = <<>>
  /\ nextIn = 0
  /\ pc = "idle"
  /\ call = NoCall
  /\ open = TRUE
  /\ reply = [op |-> "none", status |-> "none"]
  /\ taken = <<>>
  /\ failures = 0

Return(status) ==
  /\ pc' = "idle"
  /\ call' = NoCall
  /\ reply' = [op |-> call.op, status |-> status]

\* Flush, Sync and Close begin with DeflateBuffered.  After a Close that
\* failed a caller can only try again; a buffer whose next_in is left outside
\* is not used again, the code's arithmetic on it being undefined.
Call(op) ==
  /\ pc = "idle"
  /\ open
  /\ nextIn # Outside
  /\ finished => op = "Close"
  /\ call' = [op |-> op, data |-> <<>>]
  /\ pc' = "room"
  /\ reply' = [op |-> "none", status |-> "none"]
  /\ UNCHANGED <<flushMode, written, zstream, open, taken, failures>>

\* The bytes a caller appends are numbered, so that order shows.
Data(n) == [i \in 1 .. n |-> Len(taken) + i]

Fits(data) == Len(data) <= AvailableInputSpace

\* Fault: the unread input is never moved to the head.
AddToInputBufferAtTail(data) ==
  /\ nextIn' = nextIn
  /\ in' = in \o data
  /\ taken' = taken \o data

\* Behind the unread input if there is room at the tail, else after moving
\* the unread input to the head.
AddToInputBuffer(data) ==
  /\ nextIn' = IF Len(data) > InputSize - (nextIn + Len(in)) THEN 0 ELSE nextIn
  /\ in' = in \o data
  /\ taken' = taken \o data

\* Append of data that fits, or else first a DeflateBuffered.
Append_(n) ==
  /\ pc = "idle"
  /\ open
  /\ nextIn # Outside
  /\ ~finished
  /\ Len(taken) + n <= MaxBytes
  /\ LET data == Data(n)
     IN IF Fits(data)
        THEN /\ AddToInputBuffer(data)
             /\ reply' = [op |-> "Append", status |-> "OK"]
             /\ UNCHANGED <<pc, call>>
        ELSE /\ call' = [op |-> "Append", data |-> data]
             /\ pc' = "room"
             /\ reply' = [op |-> "none", status |-> "none"]
             /\ UNCHANGED <<in, nextIn, taken>>
  /\ UNCHANGED <<flushMode, written, out, held, finished, open, failures>>

\* The flush mode of the call's deflate() and whether its loop is the one of
\* DeflateBuffered, not the one of Append that deflates the data directly.
Mode == IF call.op = "Close" THEN "FINISH" ELSE flushMode

Buffered == nextIn # Outside

\* FlushOutputBufferToFile, when the loop is out of room.
NeedsRoom == Room = 0 \/ (Buffered /\ Mode = "SYNC_FLUSH" /\ Room < MarkerSize)

AppendToFile == written' = written \o out /\ out' = <<>>

FileFails ==
  /\ failures < Failures
  /\ failures' = failures + 1
  /\ Return("IO_ERROR")
  /\ UNCHANGED <<flushMode, written, zstream, open, taken>>

MakeRoom ==
  /\ pc = "room"
  /\ \/ /\ NeedsRoom
        /\ AppendToFile
        /\ pc' = "deflate"
        /\ UNCHANGED <<flushMode, held, finished, in, nextIn, call, open, reply, taken, failures>>
     \/ /\ NeedsRoom
        /\ out # <<>>
        /\ FileFails
     \/ /\ ~NeedsRoom
        /\ pc' = "deflate"
        /\ UNCHANGED <<flushMode, written, zstream, call, open, reply, taken, failures>>

\* deflate(): k units come out, c bytes go in.  Unless the room is full all
\* of the input is consumed, and nothing held back when flushing.
Pending == held \o in \o (IF Mode = "FINISH" /\ ~finished THEN <<End>> ELSE <<>>)

Deflated(k, c) ==
  /\ k <= Room
  /\ k <= Len(held) + c + (IF c = Len(in) THEN Len(Pending) - Len(held) - Len(in) ELSE 0)
  /\ k < Room => c = Len(in) /\ (Mode # "NO_FLUSH" => k = Len(Pending))
  /\ out' = out \o SubSeq(Pending, 1, k)
  /\ in' = SubSeq(in, c + 1, Len(in))
  /\ LET inside == IF c = Len(in) THEN Pending ELSE held \o SubSeq(in, 1, c)
     IN held' = SubSeq(inside, k + 1, Len(inside))
  /\ finished' = (finished \/ (Mode = "FINISH" /\ c = Len(in)))

\* A turn of a loop; behind it what the caller of the loop does next.
Deflate ==
  /\ pc = "deflate"
  /\ \E k \in 0 .. Room, c \in 0 .. Len(in) : Deflated(k, c)
  /\ \/ /\ Len(out') = OutputSize
        /\ pc' = "room"
        /\ nextIn' = IF Buffered THEN nextIn + (Len(in) - Len(in')) ELSE Outside
        /\ UNCHANGED <<call, reply>>
     \/ /\ Len(out') < OutputSize
        /\ nextIn' = 0
        /\ IF ~Buffered
           THEN Return("OK")
           ELSE /\ pc' = IF call.op = "Append" THEN "add" ELSE "write"
                /\ UNCHANGED <<call, reply>>
  /\ UNCHANGED <<flushMode, written, open, taken, failures>>

\* Append after DeflateBuffered: into the empty input buffer, or directly.
AppendRest ==
  /\ pc = "add"
  /\ IF Fits(call.data)
     THEN AddToInputBuffer(call.data) /\ Return("OK")
     ELSE /\ in' = call.data
          /\ nextIn' = Outside
          /\ taken' = taken \o call.data
          /\ pc' = "room"
          /\ UNCHANGED <<call, reply>>
  /\ UNCHANGED <<flushMode, written, out, held, finished, open, failures>>

\* The end of Flush, Sync (whose file_->Sync() may fail too) and Close.
WriteRest ==
  /\ pc = "write"
  /\ \/ /\ AppendToFile
        /\ open' = (call.op # "Close")
        /\ Return("OK")
        /\ UNCHANGED <<flushMode, held, finished, in, nextIn, taken, failures>>
     \/ /\ out # <<>>
        /\ FileFails
     \/ /\ call.op = "Sync"
        /\ failures < Failures
        /\ failures' = failures + 1
        /\ AppendToFile
        /\ Return("IO_ERROR")
        /\ UNCHANGED <<flushMode, held, finished, in, nextIn, open, taken>>

Next ==
  \/ \E op \in {"Flush", "Sync", "Close"} : Call(op)
  \/ \E n \in Lengths : Append_(n)
  \/ MakeRoom
  \/ Deflate
  \/ AppendRest
  \/ WriteRest

Spec == Init /\ [][Next]_vars
-----------------------------------------------------------------------------
(***************************************************************************)
(* Every byte the buffer took over is, once and in order, in the file, in  *)
(* the output buffer, inside zlib or in the input buffer, whichever append *)
(* to the file failed and was made up for later, and the end of the stream *)
(* behind them once deflate() has been told; input never runs over         *)
(* the end of its buffer; after a Close that returned OK the file holds    *)
(* everything and the end of the stream, and after a Flush or Sync too if  *)
(* the options ask zlib to flush.                                          *)
(***************************************************************************)
NothingLost ==
  /\ written \o out \o held \o in = IF finished THEN Append(taken, End) ELSE taken
  /\ nextIn # Outside => nextIn + Len(in) <= InputSize
  /\ ~open => written = Append(taken, End)
  /\ reply.op \in {"Flush", "Sync"} /\ reply.status = "OK" /\ flushMode = "SYNC_FLUSH" => written = taken

(***************************************************************************)
(* "Deflates any cached input and writes all output to file"; "To          *)
(* immediately write contents to file call Flush()" (zlib_outputbuffer.h). *)
(***************************************************************************)
FlushWritesEverything ==
  reply.op \in {"Flush", "Sync"} /\ reply.status = "OK" => written = taken

(***************************************************************************)
(* "z_stream_->next_in: Next byte to compress. Points to some byte in      *)
(* z_stream_input_ buffer" (zlib_outputbuffer.h): between two calls, also  *)
(* after one that failed.                                                  *)
(***************************************************************************)
NextInInBuffer == pc = "idle" => nextIn # Outside
=============================================================================

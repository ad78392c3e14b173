---------------------------- MODULE InputBuffer ----------------------------
(* base/io/inputbuffer: a buffer in front of a RandomAccessFile, for one   *)
(* caller.                                                                 *)
EXTENDS ReadBuffer

\* Fault: file_pos_ stays when the read reports an error.
FillBufferStays ==
  {[status |-> r.status, data |-> r.data,
    at |-> IF r.status = "IO_ERROR" THEN filePos ELSE filePos + Len(r.data)] :
     r \in FileRead(file, filePos, BufferSize)}

\* FillBuffer advances file_pos_ by whatever arrived, also with an error.
FillBuffer ==
  {[status |-> r.status, data |-> r.data, at |-> filePos + Len(r.data)] :
     r \in FileRead(file, filePos, BufferSize)}

ReadLine == call.op = "ReadLine" /\ LineTurn(FillBuffer, <<>>)

ReadNBytes ==
  \/ Refuse("ReadNBytes")
  \/ CountTurn("ReadNBytes", FillBuffer)
  \/ CountEnd("ReadNBytes")

SkipNBytes ==
  \/ Refuse("SkipNBytes")
  \/ CountTurn("SkipNBytes", FillBuffer)
  \/ CountEnd("SkipNBytes")

\* Five bytes at hand: parse them in place.
HasVarint == pos + VarintMax <= Len(buf)

\* GetVarint32Ptr over the bytes at hand; pos_ stays if none of them ends it.
VarintAtHand ==
  LET ends == {i \in 1 .. VarintMax : buf[pos + i] \notin High}
  IN /\ call.op = "ReadVarint32"
     /\ got = <<>>
     /\ HasVarint
     /\ \/ /\ ends # {}
           /\ LET len == CHOOSE i \in ends : \A j \in ends : i <= j
              IN /\ pos' = pos + len
                 /\ End("OK", SubSeq(buf, pos + 1, pos + len))
           /\ UNCHANGED <<filePos, buf>>
        \/ /\ ends = {}
           /\ EndAt("OUT_OF_RANGE", <<>>)

\* A turn of ReadVarint32Fallback reads one byte by ReadNBytes, which takes
\* it also when the refill for it reports an error.
VarintByte ==
  /\ call.op = "ReadVarint32"
  /\ got # <<>> \/ ~HasVarint
  /\ Len(got) < VarintMax
  /\ \E b \in AtHand(FillBuffer) :
       /\ SetBuffer(b)
       /\ \/ /\ b.buf = <<>>
             /\ pos' = 0
             /\ End(b.status, <<>>)
          \/ /\ b.buf # <<>>
             /\ pos' = b.pos + 1
             /\ LET byte == b.buf[b.pos + 1]
                IN \/ b.status = "IO_ERROR" /\ End("IO_ERROR", <<>>)
                   \/ /\ b.status # "IO_ERROR"
                      /\ byte \notin High
                      /\ End("OK", Append(got, byte))
                   \/ /\ b.status # "IO_ERROR"
                      /\ byte \in High
                      /\ got' = Append(got, byte)
                      /\ UNCHANGED <<file, call, status, reply, from>>

VarintTooLong ==
  /\ call.op = "ReadVarint32"
  /\ Len(got) = VarintMax
  /\ EndAt("DATA_LOSS", <<>>)

\* Inside the buffer only pos_ moves; outside the buffer is thrown away.
Seek ==
  /\ call.op = "Seek"
  /\ call.n >= 0
  /\ LET bufpos == filePos - Len(buf)
     IN IF bufpos <= call.n /\ call.n < filePos
        THEN pos' = call.n - bufpos /\ UNCHANGED <<buf, filePos>>
        ELSE pos' = 0 /\ buf' = <<>> /\ filePos' = call.n
  /\ End("OK", <<>>)

Call ==
  \/ \E op \in {"ReadNBytes", "SkipNBytes", "Seek"}, n \in Counts : Begin(op, n)
  \/ \E op \in {"ReadLine", "ReadVarint32"} : Begin(op, 0)

Next ==
  \/ Call
  \/ ReadLine
  \/ ReadNBytes
  \/ SkipNBytes
  \/ VarintAtHand
  \/ VarintByte
  \/ VarintTooLong
  \/ Seek
  \/ Refuse("Seek")

Spec == Init /\ [][Next]_vars
-----------------------------------------------------------------------------
Stream == INSTANCE ByteStream WITH at <- Offset

(***************************************************************************)
(* Whatever the buffer holds, the caller of ReadLine, ReadNBytes,          *)
(* SkipNBytes, ReadVarint32, Seek and Tell reads one stream of bytes: a    *)
(* refill in the middle of a line or a count, the end of the file in the   *)
(* middle of a refill, and an error with some bytes delivered do not show. *)
(***************************************************************************)
InputBufferIsAStream == Stream!Spec
=============================================================================

-------------------------- MODULE RandomAccessFile --------------------------
(* Reading a file of the operating system at an offset, and through a      *)
(* RandomAccessInputStream, as the sets of outcomes a read may have.       *)
EXTENDS Integers, Sequences

CONSTANT Partial  \* whether a read that fails may have delivered something

Least(a, b) == IF a <= b THEN a ELSE b

\* RandomAccessFile::Read: what is asked, or what there is and OUT_OF_RANGE,
\* or a part of it and the error that stopped the loop of preads.
FileRead(f, offset, n) ==
  LET there == SubSeq(f, offset + 1, Least(offset + n, Len(f)))
  IN {[status |-> IF Len(there) = n THEN "OK" ELSE "OUT_OF_RANGE", data |-> there]}
     \cup {[status |-> "IO_ERROR", data |-> SubSeq(there, 1, k)] :
             k \in {j \in 0 .. Least(Len(there), n - 1) : j = 0 \/ Partial}}

\* RandomAccessInputStream::ReadNBytes: its position moves unless the read
\* failed, and the result holds what was delivered in either case.
StreamRead(f, offset, n) ==
  {[status |-> r.status, data |-> r.data,
    at |-> IF r.status = "IO_ERROR" THEN offset ELSE offset + Len(r.data)] :
     r \in FileRead(f, offset, n)}
=============================================================================

------------------------------- MODULE Readers -------------------------------
(***************************************************************************)
(* What reads files. The two buffered readers are over the same variables: *)
(* InputBuffer reads a RandomAccessFile, BufferedInputStream the stream    *)
(* over one. Only one of them runs in a behaviour of the module that       *)
(* extends this one. The sorted table has variables of its own.            *)
(***************************************************************************)
EXTENDS Integers, Sequences

CONSTANTS Files, Counts, LF, CR, High, VarintMax, BufferSize, MaxSkip

CONSTANTS TableKeys, Sizes, MaxByte, BlockSize, RestartInterval, MaxEntries, ReadErrors

VARIABLES file, filePos, buf, pos, call, got, status, reply, from, left

VARIABLES file_t, offset, status_t, dataBlock, indexBlock, lastKey, pending, closed, added,
  opened, index, data, handle, itStatus, skipping, before

\* A read that fails may have delivered a part.
IB == INSTANCE InputBuffer WITH Partial <- TRUE

\* The stream below delivers nothing when it fails.
BS == INSTANCE BufferedInputStream WITH Partial <- FALSE

TB == INSTANCE Table WITH file <- file_t, status <- status_t, Keys <- TableKeys

ASSUME TableHolds == TB!TableAssumption

readerVars == <<file, filePos, buf, pos, call, got, status, reply, from, left>>
tableVars == <<file_t, offset, status_t, dataBlock, indexBlock, lastKey, pending, closed,
               added, opened, index, data, handle, itStatus, skipping, before>>
=============================================================================

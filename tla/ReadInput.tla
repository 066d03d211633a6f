----------------------------- MODULE ReadInput ------------------------------
(***************************************************************************)
(* readInputData (read_input.h): the length of a file is taken, a buffer   *)
(* of that length is allocated, and the file is read until the buffer is   *)
(* full.  Nothing locks the file: between any two calls another process,   *)
(* hscompile writing its result for one, may append to it or open it "wb"  *)
(* and so empty it.                                                        *)
(***************************************************************************)
EXTENDS Integers, Sequences

CONSTANTS
  Byte,      \* values of a byte
  MaxFile,   \* bound: the most bytes of the file
  UINT_MAX   \* the most bytes a scan can take

ASSUME BoundsAssumption == MaxFile \in Nat /\ UINT_MAX \in Nat \ {0}

Least(a, b) == IF a < b THEN a ELSE b
Files == UNION {[1..n -> Byte] : n \in 0..MaxFile}

VARIABLES
  file,       \* the bytes on disk
  pc,
  open,       \* f is open
  dataLen,    \* what ftell said, clipped
  allocated,  \* inputData is allocated
  inputData,  \* the bytes read so far: p - inputData of them
  eof,        \* the stream has seen the end of the file
  result,     \* "none", "NULL" or "buffer"
  emptied     \* history: the file has been emptied since the call began

vars == <<file, pc, open, dataLen, allocated, inputData, eof, result, emptied>>

Init ==
  /\ file \in Files
  /\ pc = "open"
  /\ open = FALSE /\ allocated = FALSE
  /\ dataLen = 0
  /\ inputData = <<>>
  /\ eof = FALSE
  /\ result = "none"
  /\ emptied = FALSE

bytesLeft == dataLen - Len(inputData)

-----------------------------------------------------------------------------
(* The other process.                                                      *)

Append1(b) ==
  /\ Len(file) < MaxFile
  /\ file' = Append(file, b)
  /\ UNCHANGED <<pc, open, dataLen, allocated, inputData, eof, result, emptied>>

Truncate ==
  /\ file' = <<>>
  /\ emptied' = TRUE
  /\ UNCHANGED <<pc, open, dataLen, allocated, inputData, eof, result>>

-----------------------------------------------------------------------------
ReturnNULL ==
  /\ pc' = "returned"
  /\ open' = FALSE /\ allocated' = FALSE
  /\ result' = "NULL"
  /\ UNCHANGED <<file, dataLen, inputData, eof, emptied>>

Open ==
  /\ pc = "open"
  /\ pc' = "measure"
  /\ open' = TRUE
  /\ UNCHANGED <<file, dataLen, allocated, inputData, eof, result, emptied>>

OpenFails == pc = "open" /\ ReturnNULL

Measure_Unclipped ==  \* mutant: a long file is not clipped
  /\ pc = "measure"
  /\ dataLen' = Len(file)
  /\ pc' = "allocate"
  /\ UNCHANGED <<file, open, allocated, inputData, eof, result, emptied>>

Measure_WithTerminator ==  \* mutant: room for a NUL is read as well
  /\ pc = "measure"
  /\ dataLen' = Least(Len(file) + 1, UINT_MAX)
  /\ pc' = "allocate"
  /\ UNCHANGED <<file, open, allocated, inputData, eof, result, emptied>>

(* fseek to the end, ftell, and back; a length no unsigned int holds is cut. *)
Measure ==
  /\ pc = "measure"
  /\ dataLen' = Least(Len(file), UINT_MAX)
  /\ pc' = "allocate"
  /\ UNCHANGED <<file, open, allocated, inputData, eof, result, emptied>>

SeekFails == pc = "measure" /\ ReturnNULL

EmptyFile == pc = "allocate" /\ dataLen = 0 /\ ReturnNULL

Allocate ==
  /\ pc = "allocate"
  /\ dataLen > 0
  /\ pc' = "read"
  /\ allocated' = TRUE
  /\ UNCHANGED <<file, open, dataLen, inputData, eof, result, emptied>>

AllocateFails == pc = "allocate" /\ dataLen > 0 /\ ReturnNULL

Read_Restarting(n) ==  \* mutant: p does not advance between two reads
  /\ pc = "read"
  /\ bytesLeft > 0 /\ ~eof
  /\ n <= Least(bytesLeft, Len(file) - Len(inputData))
  /\ inputData' = inputData \o SubSeq(file, 1, n)
  /\ UNCHANGED <<file, pc, open, dataLen, allocated, eof, result, emptied>>

(* One read of the file inside fread: n bytes of those that are there.      *)
Read(n) ==
  /\ pc = "read"
  /\ bytesLeft > 0 /\ ~eof
  /\ n <= Least(bytesLeft, Len(file) - Len(inputData))
  /\ inputData' = inputData \o SubSeq(file, Len(inputData) + 1, Len(inputData) + n)
  /\ UNCHANGED <<file, pc, open, dataLen, allocated, eof, result, emptied>>

(* fread finds nothing where bytes are left: it returns short and the end of *)
(* file, which is not an error, sticks to the stream.  The loop goes on, and *)
(* every later fread returns 0.                                              *)
ReadAtEnd ==
  /\ pc = "read"
  /\ bytesLeft > 0
  /\ eof \/ Len(file) <= Len(inputData)
  /\ eof' = TRUE
  /\ UNCHANGED <<file, pc, open, dataLen, allocated, inputData, result, emptied>>

(* ferror. *)
ReadFails == pc = "read" /\ bytesLeft > 0 /\ ReturnNULL

ReturnBuffer ==
  /\ pc = "read"
  /\ bytesLeft = 0
  /\ pc' = "returned"
  /\ open' = FALSE
  /\ result' = "buffer"
  /\ UNCHANGED <<file, dataLen, allocated, inputData, eof, emptied>>

Terminated == pc = "returned" /\ UNCHANGED vars

Step ==
  \/ Open \/ Measure \/ EmptyFile \/ Allocate
  \/ \E n \in 1..UINT_MAX : Read(n)
  \/ ReadAtEnd
  \/ ReturnBuffer

Fault == OpenFails \/ SeekFails \/ AllocateFails \/ ReadFails
Other == Truncate \/ \E b \in Byte : Append1(b)

Next == Step \/ Fault \/ Other \/ Terminated

Spec == Init /\ [][Next]_vars
(* The function runs; what fails and what other processes do is not forced. *)
FairSpec == Spec /\ WF_vars(Step)
-----------------------------------------------------------------------------
(* Properties                                                              *)

TypeOK ==
  /\ file \in Files
  /\ pc \in {"open", "measure", "allocate", "read", "returned"}
  /\ open \in BOOLEAN /\ allocated \in BOOLEAN /\ eof \in BOOLEAN
  /\ dataLen \in 0..UINT_MAX
  /\ inputData \in Seq(Byte) /\ Len(inputData) <= dataLen
  /\ result \in {"none", "NULL", "buffer"}
  /\ emptied \in BOOLEAN

(* However the reads are cut and whatever is appended meanwhile, the buffer  *)
(* is the beginning of the file, and all of its *length bytes were read; the *)
(* length is right even where the file was emptied and written again.        *)
BufferIsPrefix ==
  result = "buffer" =>
    /\ Len(inputData) = dataLen /\ dataLen > 0
    /\ ~emptied => inputData = SubSeq(file, 1, dataLen)

(* read_input.h: "Returns NULL on failure".  The call returns: a buffer, or  *)
(* NULL when the file cannot be read.                                        *)
AlwaysReturns == <>(pc = "returned")

(* It does return while no other process empties the file: appending, short  *)
(* reads and failures cannot keep it in the loop.                            *)
ReturnsUnlessEmptied == <>(pc = "returned" \/ emptied)
=============================================================================

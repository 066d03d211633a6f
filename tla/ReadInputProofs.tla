-------------------------- MODULE ReadInputProofs ---------------------------
(***************************************************************************)
(* Proofs about ReadInput: whatever another process does to the file, a    *)
(* buffer that is returned is full, and is the beginning of the file       *)
(* unless the file was emptied.                                            *)
(***************************************************************************)
EXTENDS ReadInput, SequenceTheorems, TLAPS

(* What is read and decided in each phase of the call.                      *)
Phased ==
  /\ pc # "returned" => result = "none"
  /\ pc \in {"open", "measure", "allocate"} => inputData = <<>>
  /\ pc = "read" => dataLen > 0
  /\ result = "buffer" => Len(inputData) = dataLen /\ dataLen > 0

(* While nobody empties the file it still begins with what has been read.   *)
(* BufferIsPrefix is not inductive without it: it says nothing of a buffer  *)
(* that is not full yet.                                                    *)
ReadFromFile ==
  ~emptied => /\ Len(inputData) <= Len(file)
              /\ \A k \in 1..Len(inputData) : inputData[k] = file[k]

IInv == TypeOK /\ Phased /\ ReadFromFile

-----------------------------------------------------------------------------
(* Operators.                                                              *)

(* The contents of a file are the byte sequences of at most MaxFile bytes.  *)
LEMMA FilesAreSeqs == \A f : f \in Files <=> f \in Seq(Byte) /\ Len(f) <= MaxFile
<1>1. ASSUME NEW f, f \in Files
      PROVE  f \in Seq(Byte) /\ Len(f) <= MaxFile
  <2>1. PICK n \in 0..MaxFile : f \in [1..n -> Byte]
    BY <1>1 DEF Files
  <2> QED
    BY <2>1, BoundsAssumption
<1>2. ASSUME NEW f, f \in Seq(Byte), Len(f) <= MaxFile
      PROVE  f \in Files
  <2>1. Len(f) \in 0..MaxFile /\ f \in [1..Len(f) -> Byte]
    BY <1>2, BoundsAssumption
  <2> QED
    BY <2>1 DEF Files
<1> QED
  BY <1>1, <1>2

(* Appending to a file leaves what is there.                                *)
LEMMA AppendKeepsBytes ==
  ASSUME NEW f \in Seq(Byte), NEW b \in Byte
  PROVE  /\ Append(f, b) \in Seq(Byte) /\ Len(Append(f, b)) = Len(f) + 1
         /\ \A k \in 1..Len(f) : Append(f, b)[k] = f[k]
OBVIOUS

(* A read that continues a prefix of the file gives a longer prefix of it.  *)
LEMMA ReadExtendsPrefix ==
  ASSUME NEW f \in Seq(Byte), NEW s \in Seq(Byte), NEW n \in Nat,
         Len(s) + n <= Len(f)
  PROVE  LET t == s \o SubSeq(f, Len(s) + 1, Len(s) + n)
         IN /\ t \in Seq(Byte) /\ Len(t) = Len(s) + n
            /\ \A k \in 1..Len(t) : t[k] = IF k <= Len(s) THEN s[k] ELSE f[k]
<1> DEFINE u == SubSeq(f, Len(s) + 1, Len(s) + n)
<1>1. /\ u \in Seq(Byte) /\ Len(u) = n
      /\ \A k \in 1..n : u[k] = f[Len(s) + k]
  OBVIOUS
<1> HIDE DEF u
<1>2. /\ s \o u \in Seq(Byte) /\ Len(s \o u) = Len(s) + n
      /\ \A k \in 1..(Len(s) + n) : (s \o u)[k] = IF k <= Len(s) THEN s[k] ELSE u[k - Len(s)]
  BY <1>1
<1>3. ASSUME NEW k \in 1..(Len(s) + n), ~(k <= Len(s))
      PROVE  u[k - Len(s)] = f[k]
  BY <1>1, <1>3
<1> QED
  BY <1>2, <1>3 DEF u

(* A sequence that agrees with the file over its length is a prefix of it.  *)
LEMMA PrefixIsSubSeq ==
  ASSUME NEW f \in Seq(Byte), NEW s \in Seq(Byte), Len(s) <= Len(f),
         \A k \in 1..Len(s) : s[k] = f[k]
  PROVE  s = SubSeq(f, 1, Len(s))
<1>1. /\ SubSeq(f, 1, Len(s)) \in Seq(Byte) /\ Len(SubSeq(f, 1, Len(s))) = Len(s)
      /\ \A k \in 1..Len(s) : SubSeq(f, 1, Len(s))[k] = f[k]
  OBVIOUS
<1> QED
  BY <1>1, SeqEqual

-----------------------------------------------------------------------------
(* The invariant.                                                          *)

LEMMA InitInv == Init => IInv
<1> SUFFICES ASSUME Init
             PROVE  IInv
  OBVIOUS
<1>1. /\ inputData \in Seq(Byte) /\ Len(inputData) = 0
      /\ file \in Seq(Byte)
  BY FilesAreSeqs DEF Init
<1>2. TypeOK
  <2>1. dataLen \in 0..UINT_MAX /\ Len(inputData) <= dataLen
    BY <1>1, BoundsAssumption DEF Init
  <2> QED
    BY <1>1, <2>1 DEF Init, TypeOK
<1>3. Phased
  BY DEF Init, Phased
<1>4. ReadFromFile
  BY <1>1 DEF Init, ReadFromFile
<1> QED
  BY <1>2, <1>3, <1>4 DEF IInv

(* The other process.                                                      *)
LEMMA Append1Inv ==
  ASSUME IInv, NEW b \in Byte, Append1(b)
  PROVE  IInv'
<1>1. file \in Seq(Byte) /\ inputData \in Seq(Byte)
  BY FilesAreSeqs DEF IInv, TypeOK
<1>2. file' \in Files
  <2>1. file' \in Seq(Byte) /\ Len(file') <= MaxFile
    BY <1>1, AppendKeepsBytes, BoundsAssumption DEF Append1
  <2> QED
    BY <2>1, FilesAreSeqs
<1>3. TypeOK'
  BY <1>2 DEF IInv, TypeOK, Append1
<1>4. Phased'
  BY DEF IInv, Phased, Append1
<1>5. ReadFromFile'
  BY <1>1, AppendKeepsBytes DEF IInv, ReadFromFile, Append1
<1> QED
  BY <1>3, <1>4, <1>5 DEF IInv

LEMMA TruncateInv ==
  ASSUME IInv, Truncate
  PROVE  IInv'
<1>1. file' \in Files
  <2>1. file' \in Seq(Byte) /\ Len(file') <= MaxFile
    BY BoundsAssumption DEF Truncate
  <2> QED
    BY <2>1, FilesAreSeqs
<1>2. TypeOK'
  BY <1>1 DEF IInv, TypeOK, Truncate
<1>3. Phased' /\ ReadFromFile'
  BY DEF IInv, Phased, ReadFromFile, Truncate
<1> QED
  BY <1>2, <1>3 DEF IInv

(* Every return of NULL comes before a buffer was returned; the proof needs *)
(* no more of the phase it comes from.                                      *)
LEMMA ReturnNULLInv ==
  ASSUME IInv, ReturnNULL
  PROVE  IInv'
BY DEF IInv, TypeOK, Phased, ReadFromFile, ReturnNULL

LEMMA ReadInv ==
  ASSUME IInv, NEW n \in 1..UINT_MAX, Read(n)
  PROVE  IInv'
<1>1. file \in Seq(Byte) /\ inputData \in Seq(Byte) /\ n \in Nat
  BY FilesAreSeqs, BoundsAssumption DEF IInv, TypeOK
<1>2. Len(inputData) + n <= Len(file) /\ Len(inputData) + n <= dataLen
  BY <1>1 DEF Read, Least, bytesLeft, IInv, TypeOK
<1>3. /\ inputData' \in Seq(Byte) /\ Len(inputData') = Len(inputData) + n
      /\ \A k \in 1..Len(inputData') :
           inputData'[k] = IF k <= Len(inputData) THEN inputData[k] ELSE file[k]
  BY <1>1, <1>2, ReadExtendsPrefix DEF Read
<1>4. TypeOK' /\ Phased'
  BY <1>2, <1>3 DEF IInv, TypeOK, Phased, Read
<1>5. ReadFromFile'
  BY <1>1, <1>2, <1>3 DEF IInv, ReadFromFile, Read
<1> QED
  BY <1>4, <1>5 DEF IInv

LEMMA MeasureInv ==
  ASSUME IInv, Measure
  PROVE  IInv'
<1>1. Least(Len(file), UINT_MAX) \in 0..UINT_MAX
  BY FilesAreSeqs, BoundsAssumption DEF IInv, TypeOK, Least
<1> QED
  BY <1>1 DEF IInv, TypeOK, Phased, ReadFromFile, Measure

(* The remaining steps read nothing and measure nothing.                    *)
LEMMA StepInv ==
  ASSUME IInv, Open \/ Allocate \/ ReadAtEnd \/ ReturnBuffer
  PROVE  IInv'
<1>1. CASE Open
  BY <1>1 DEF IInv, TypeOK, Phased, ReadFromFile, Open
<1>2. CASE Allocate
  BY <1>2 DEF IInv, TypeOK, Phased, ReadFromFile, Allocate
<1>3. CASE ReadAtEnd
  BY <1>3 DEF IInv, TypeOK, Phased, ReadFromFile, ReadAtEnd
<1>4. CASE ReturnBuffer
  <2>1. Len(inputData) = dataLen
    BY <1>4 DEF ReturnBuffer, bytesLeft, IInv, TypeOK
  <2>2. TypeOK'
    BY <1>4 DEF IInv, TypeOK, ReturnBuffer
  <2>3. Phased'
    BY <1>4, <2>1 DEF IInv, Phased, ReturnBuffer
  <2>4. ReadFromFile'
    BY <1>4 DEF IInv, ReadFromFile, ReturnBuffer
  <2> QED
    BY <2>2, <2>3, <2>4 DEF IInv
<1> QED
  BY <1>1, <1>2, <1>3, <1>4

LEMMA NextInv == IInv /\ [Next]_vars => IInv'
<1> SUFFICES ASSUME IInv, [Next]_vars
             PROVE  IInv'
  OBVIOUS
<1>1. CASE Step
  <2>1. CASE EmptyFile
    BY <2>1, ReturnNULLInv DEF EmptyFile
  <2> QED
    BY <1>1, <2>1, StepInv, MeasureInv, ReadInv DEF Step
<1>2. CASE Fault
  BY <1>2, ReturnNULLInv DEF Fault, OpenFails, SeekFails, AllocateFails, ReadFails
<1>3. CASE Other
  BY <1>3, TruncateInv, Append1Inv DEF Other
<1>4. CASE Terminated \/ UNCHANGED vars
  BY <1>4 DEF Terminated, vars, IInv, TypeOK, Phased, ReadFromFile
<1> QED
  BY <1>1, <1>2, <1>3, <1>4 DEF Next

(* IInv holds in every reachable state, whatever the bounds are.            *)
LEMMA Invariance == Spec => []IInv
BY InitInv, NextInv, PTL DEF Spec

-----------------------------------------------------------------------------
(* The theorems.                                                           *)

(* The variables of readInputData keep their types, and p never runs past   *)
(* the buffer: no more is read than was allocated, however the file grows   *)
(* after its length was taken.                                              *)
THEOREM TypeCorrect == Spec => []TypeOK
BY Invariance, PTL DEF IInv

(* A returned buffer is full, and is the beginning of the file as long as   *)
(* nobody emptied it, however the reads are cut and whatever is appended.   *)
THEOREM BufferCorrect == Spec => []BufferIsPrefix
<1>1. IInv => BufferIsPrefix
  <2> SUFFICES ASSUME IInv, result = "buffer", ~emptied
               PROVE  inputData = SubSeq(file, 1, dataLen)
    BY DEF IInv, Phased, BufferIsPrefix
  <2>1. file \in Seq(Byte) /\ inputData \in Seq(Byte)
    BY FilesAreSeqs DEF IInv, TypeOK
  <2> QED
    BY <2>1, PrefixIsSubSeq DEF IInv, Phased, ReadFromFile
<1> QED
  BY <1>1, Invariance, PTL
=============================================================================

---------------------------- MODULE MCReadInput -----------------------------
(* Instances of ReadInput for TLC.                                         *)
EXTENDS ReadInput
=============================================================================

--------------------------- MODULE MCCompileMnrl ----------------------------
(* Instances of CompileMnrl for TLC.                                       *)
EXTENDS CompileMnrl

CONSTANTS good, bad, r1  \* symbol sets that parse and do not, a report code
=============================================================================

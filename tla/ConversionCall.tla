--------------------------- MODULE ConversionCall ---------------------------
(***************************************************************************)
(* A call of hs_pcre_mnrl_multi (src/hs_pcre_mnrl.cpp) as both sides see   *)
(* it: what the caller passes and what it gets back.                       *)
(***************************************************************************)
EXTENDS Integers

CONSTANTS
  MaxElements,       \* bound: the most expressions of one call
  LimitPatternCount  \* Grey::limitPatternCount

ASSUME CallAssumption == MaxElements \in Nat /\ LimitPatternCount \in Nat

(* Which pointers are not null, and how many expressions there are. *)
Arguments == [comp_error : BOOLEAN, expressions : BOOLEAN, elements : 0..MaxElements]

(* The checks that are answered with an error, when there is room for one. *)
BadArgs(a) == ~a.expressions \/ a.elements = 0 \/ a.elements > LimitPatternCount

HS_SUCCESS        == "HS_SUCCESS"
HS_COMPILER_ERROR == "HS_COMPILER_ERROR"

(* hs_compile_error_t; "none" when *comp_error was never assigned. *)
ErrorKind == {"none", "param", "compile", "enomem", "einternal"}
Error(kind, expression) == [kind |-> kind, expression |-> expression]
NoError == Error("none", -1)
=============================================================================

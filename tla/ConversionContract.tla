------------------------- MODULE ConversionContract -------------------------
(***************************************************************************)
(* What pcre2mnrl relies on when it calls hs_pcre_mnrl_multi: one step     *)
(* after which the caller's network holds all expressions, or, with an     *)
(* error that names the first one that is missing, the ones before it.     *)
(* Only when memory runs out or something unforeseen is thrown may pieces  *)
(* of an expression stay behind.                                           *)
(***************************************************************************)
EXTENDS ConversionCall

VARIABLES
  args,
  outcome,     \* "pending", a return code, or the end of the process
  comp_error,
  whole,       \* the expressions whose nodes and connections are all there
  stray        \* the network holds nodes of other expressions

vars == <<args, outcome, comp_error, whole, stray>>

Init ==
  /\ args \in Arguments
  /\ outcome = "pending"
  /\ comp_error = NoError
  /\ whole = {}
  /\ stray = FALSE

Answer(code, error, expressions, pieces) ==
  /\ outcome' = code
  /\ comp_error' = error
  /\ whole' = expressions
  /\ stray' = pieces
  /\ UNCHANGED args

Accepted == outcome = "pending" /\ args.comp_error /\ ~BadArgs(args)

Convert == Accepted /\ Answer(HS_SUCCESS, comp_error, 1..args.elements, FALSE)

(* There is nothing to convert, or nowhere to say what is wrong. *)
Refuse ==
  /\ outcome = "pending" /\ ~Accepted
  /\ Answer(HS_COMPILER_ERROR,
            IF args.comp_error THEN Error("param", -1) ELSE comp_error, {}, FALSE)

Reject_Late(k) ==  \* mutant: the expression is in the network when it is refused
  /\ Accepted
  /\ k < args.elements
  /\ Answer(HS_COMPILER_ERROR, Error("compile", k), 1..(k + 1), FALSE)

(* Expression k, counted from 0, cannot be converted. *)
Reject(k) ==
  /\ Accepted
  /\ k < args.elements
  /\ Answer(HS_COMPILER_ERROR, Error("compile", k), 1..k, FALSE)

(* bad_alloc or an unexpected exception somewhere after k expressions. *)
Break(k) ==
  /\ Accepted
  /\ k < args.elements
  /\ \E kind \in {"enomem", "einternal"}, pieces \in BOOLEAN :
       Answer(HS_COMPILER_ERROR, Error(kind, 0), 1..k, pieces)

(* The process ends inside the call, and the network with it. *)
Stop ==
  /\ Accepted
  /\ outcome' = "stopped"
  /\ UNCHANGED <<args, comp_error, whole, stray>>

Next == Convert \/ Refuse \/ Stop \/ \E k \in 0..(MaxElements - 1) : Reject(k) \/ Break(k)

Spec == Init /\ [][Next]_vars
=============================================================================

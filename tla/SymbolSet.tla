------------------------------ MODULE SymbolSet -----------------------------
(***************************************************************************)
(* parseSymbolSet (src/parse_symbol_set.cpp): hscompile reads the symbol   *)
(* set of a node, character by character, into the reach of a vertex.      *)
(*                                                                         *)
(* An input is a text together with the class it was written for: by       *)
(* describeClass, or by hand in the notation the parser knows.             *)
(***************************************************************************)
EXTENDS CharClass

CONSTANT Inputs   \* records of a text, its class, and whether it is a symbol set

ASSUME InputsAssumption ==
  \A i \in Inputs : /\ i.text \in Text /\ i.text # <<>>
                    /\ i.set \subseteq Char /\ i.ok \in BOOLEAN

VARIABLES
  input, pc,
  index,        \* the next character, counted from 1
  column,       \* the reach
  escaped, inverting, range_set, bracket_sem, last_char, range_start

flags == <<escaped, inverting, range_set, bracket_sem, last_char, range_start>>
vars  == <<input, pc, index, column, flags>>

symbol_set == input.text

Init ==
  /\ input \in Inputs
  /\ pc = "start"
  /\ index = 1
  /\ column = {}
  /\ escaped = FALSE /\ inverting = FALSE /\ range_set = FALSE
  /\ bracket_sem = 0 /\ last_char = 0 /\ range_start = 0

-----------------------------------------------------------------------------
(* The three forms that are recognised as a whole. *)
Curly == symbol_set[1] = LBRACE /\ symbol_set[Len(symbol_set)] = RBRACE

Start ==
  /\ pc = "start"
  /\ \/ symbol_set = <<STAR>> /\ pc' = "done" /\ column' = Char
     \/ symbol_set = <<DOT>> /\ pc' = "done" /\ column' = Char \ {LF}
     \/ Curly /\ pc' = "exited" /\ UNCHANGED column
     \/ /\ symbol_set \notin {<<STAR>>, <<DOT>>} /\ ~Curly
        /\ pc' = "parse"
        /\ UNCHANGED column
  /\ UNCHANGED <<input, index, flags>>

-----------------------------------------------------------------------------
(* The loop over the characters.                                           *)

c == symbol_set[index]
At(chars) == pc = "parse" /\ index <= Len(symbol_set) /\ c \in chars

(* How an iteration that only changes a flag goes on. *)
Skip(n) == index' = index + n /\ UNCHANGED <<input, pc>>

(* ch is set, and so is the range that it closes. *)
Put(ch) ==
  /\ column' = column \cup {ch} \cup (IF range_set THEN range_start..ch ELSE {})
  /\ range_set' = FALSE
  /\ last_char' = ch
  /\ UNCHANGED <<inverting, bracket_sem, range_start>>

Bracket ==
  /\ At({LBRACKET, RBRACKET}) /\ ~escaped
  /\ bracket_sem' = IF c = LBRACKET THEN bracket_sem + 1 ELSE bracket_sem - 1
  /\ Skip(1)
  /\ UNCHANGED <<column, escaped, inverting, range_set, last_char, range_start>>

(* A brace stands for itself and leaves an escape as it is. *)
Brace ==
  /\ At({LBRACE, RBRACE})
  /\ Put(c)
  /\ Skip(1)
  /\ UNCHANGED escaped

Escape ==
  /\ At({BACKSLASH}) /\ ~escaped
  /\ escaped' = TRUE
  /\ Skip(1)
  /\ UNCHANGED <<column, inverting, range_set, bracket_sem, last_char, range_start>>

OpenRange ==
  /\ At({DASH}) /\ ~escaped
  /\ range_set' = TRUE
  /\ range_start' = last_char
  /\ Skip(1)
  /\ UNCHANGED <<column, escaped, inverting, bracket_sem, last_char>>

Invert ==
  /\ At({CARET}) /\ ~escaped
  /\ inverting' = TRUE
  /\ Skip(1)
  /\ UNCHANGED <<column, escaped, range_set, bracket_sem, last_char, range_start>>

Class_StillEscaped ==  \* mutant: escaped is not reset
  /\ At({s_, d_, w_}) /\ escaped
  /\ column' = column \cup (CASE c = s_ -> Whitespace [] c = d_ -> Digits [] OTHER -> Words)
  /\ Skip(1)
  /\ UNCHANGED flags

(* \s, \d, \w: last_char and an open range stay as they are. *)
Class ==
  /\ At({s_, d_, w_}) /\ escaped
  /\ column' = column \cup (CASE c = s_ -> Whitespace [] c = d_ -> Digits [] OTHER -> Words)
  /\ escaped' = FALSE
  /\ Skip(1)
  /\ UNCHANGED <<inverting, range_set, bracket_sem, last_char, range_start>>

(* strtoul of two hexadecimal digits. *)
HexValue(ch) == CASE ch \in Digits  -> ch - 48
                  [] ch \in 65..70  -> ch - 55
                  [] ch \in 97..102 -> ch - 87

Hex_ThreeDigits ==  \* mutant: the index advances once too often
  /\ At({x_}) /\ escaped
  /\ Put(16 * HexValue(symbol_set[index + 1]) + HexValue(symbol_set[index + 2]))
  /\ escaped' = FALSE
  /\ Skip(4)

(* \x and two digits. *)
Hex ==
  /\ At({x_}) /\ escaped
  /\ Put(16 * HexValue(symbol_set[index + 1]) + HexValue(symbol_set[index + 2]))
  /\ escaped' = FALSE
  /\ Skip(3)

(* \a, \b, \t, \n, \v, \f, \r; any other character stands for itself. *)
Unescaped(ch) == CASE ch = 97 -> 7 [] ch = 98 -> 8 [] ch = t_ -> 9 [] ch = n_ -> 10
                   [] ch = 118 -> 11 [] ch = 102 -> 12 [] ch = r_ -> 13 [] OTHER -> ch

Character ==
  /\ \/ At(Char \ {LBRACKET, RBRACKET, LBRACE, RBRACE, BACKSLASH, DASH, CARET}) /\ ~escaped
     \/ At(Char \ {LBRACE, RBRACE, s_, d_, w_, x_}) /\ escaped
  /\ Put(IF escaped THEN Unescaped(c) ELSE c)
  /\ escaped' = FALSE
  /\ Skip(1)

Finish ==
  /\ pc = "parse"
  /\ index > Len(symbol_set)
  /\ column' = IF inverting THEN Char \ column ELSE column
  /\ pc' = IF bracket_sem = 0 THEN "done" ELSE "exited"
  /\ UNCHANGED <<input, index, flags>>

Terminated == pc \in {"done", "exited"} /\ UNCHANGED vars

Next ==
  \/ Start \/ Bracket \/ Brace \/ Escape \/ OpenRange \/ Invert \/ Class \/ Hex \/ Character
  \/ Finish \/ Terminated

Spec == Init /\ [][Next]_vars
-----------------------------------------------------------------------------
(* Properties                                                              *)

TypeOK ==
  /\ input \in Inputs
  /\ pc \in {"start", "parse", "done", "exited"}
  /\ index \in 1..(Len(symbol_set) + 1)
  /\ column \subseteq Char
  /\ {escaped, inverting, range_set} \subseteq BOOLEAN
  /\ bracket_sem \in Int
  /\ last_char \in Char /\ range_start \in Char

(* Three classes that describeClass writes as something else: <any>, <empty> *)
(* and a star with nothing around it.                                        *)
Misprinted == {Char, {}, {STAR}}

(* pcre2mnrl's texts mean to hscompile the classes they were printed for,    *)
(* and so do texts written by hand; the parser gives up on all others.       *)
ParsesToItsClass ==
  /\ pc = "done" /\ input.set \notin Misprinted => input.ok /\ column = input.set
  /\ pc = "exited" => ~input.ok

(* No range, escape or bracket that a symbol set begins is left open at its  *)
(* end, where it would be lost without a message.                            *)
NothingIsOpen == pc = "done" => ~escaped /\ ~range_set /\ bracket_sem = 0

(* README.md: "a compiler and runtime for MNRL files", with "support for     *)
(* compiling PCRE to MNRL files".  Every class of a compiled PCRE is the     *)
(* class hscompile reads from the MNRL file.                                 *)
PrintedClassesAreRead == pc = "done" /\ input.ok => column = input.set
=============================================================================

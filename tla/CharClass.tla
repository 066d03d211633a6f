------------------------------ MODULE CharClass -----------------------------
(***************************************************************************)
(* Character classes and how describeClass (src/dump_charclass.cpp) writes *)
(* them into an MNRL file: pcre2mnrl prints the reach of every vertex with *)
(* it, as text without a limit on its length.                              *)
(*                                                                         *)
(* A character is its code, a text is a sequence of characters.            *)
(***************************************************************************)
EXTENDS Integers, Sequences, FiniteSets, SequencesExt

Char == 0..255
Text == Seq(Char)

(* Characters with a meaning of their own. *)
LF        == 10
STAR      == 42
DASH      == 45
DOT       == 46
LESS      == 60
GREATER   == 62
LBRACKET  == 91
BACKSLASH == 92
RBRACKET  == 93
CARET     == 94
LBRACE    == 123
RBRACE    == 125
n_ == 110   r_ == 114   t_ == 116   x_ == 120   d_ == 100   s_ == 115   w_ == 119

Whitespace == {9, 10, 11, 12, 13, 32}
Digits     == 48..57
Words      == {95} \cup Digits \cup (65..90) \cup (97..122)

-----------------------------------------------------------------------------
(* isgraph in the C locale. *)
IsGraph(c) == c \in 33..126

MustEscape == {CARET, DASH, LBRACKET, RBRACKET, DOT}
HexDigit(n) == IF n < 10 THEN 48 + n ELSE 87 + n

describeChar(c) ==
  CASE c \in MustEscape                                  -> <<BACKSLASH, c>>
    [] IsGraph(c) /\ c \notin MustEscape \cup {BACKSLASH} -> <<c>>
    [] c = 9                                             -> <<BACKSLASH, t_>>
    [] c = 10                                            -> <<BACKSLASH, n_>>
    [] c = 13                                            -> <<BACKSLASH, r_>>
    [] OTHER -> <<BACKSLASH, x_, HexDigit(c \div 16), HexDigit(c % 16)>>

describeRange_Bare(c1, c2) ==  \* mutant: the ends of a range are not escaped
  IF c2 - c1 < 4
  THEN FlattenSeq([k \in 1..(c2 - c1 + 1) |-> describeChar(c1 + k - 1)])
  ELSE <<c1, DASH, c2>>

(* Up to four characters one by one, more as a range. *)
describeRange(c1, c2) ==
  IF c2 - c1 < 4
  THEN FlattenSeq([k \in 1..(c2 - c1 + 1) |-> describeChar(c1 + k - 1)])
  ELSE describeChar(c1) \o <<DASH>> \o describeChar(c2)

(* The runs of consecutive characters of a class, in order. *)
RunEnd(cr, c) == CHOOSE e \in cr : e >= c /\ c..e \subseteq cr /\ e + 1 \notin cr
Runs(cr) ==
  LET firsts == {a \in cr : a - 1 \notin cr}
      nth(k) == CHOOSE a \in firsts : Cardinality({b \in firsts : b < a}) = k - 1
  IN [k \in 1..Cardinality(firsts) |-> [first |-> nth(k), last |-> RunEnd(cr, nth(k))]]

(* The loop over extractMnemonic: each class is taken out before the next.  *)
Mnemonics(cr) ==
  LET extract(letter, set) ==
        IF set \subseteq cr THEN <<[letter |-> letter, set |-> set]>> ELSE <<>>
  IN (IF Words \subseteq cr THEN extract(w_, Words) ELSE extract(d_, Digits))
       \o extract(s_, Whitespace)

(* The text without brackets, and how many pieces it has. *)
describeClassInt(cr) ==
  LET ms   == Mnemonics(cr)
      runs == Runs(cr \ UNION {ms[k].set : k \in DOMAIN ms})
  IN IF Len(Runs(cr)) = 1
     THEN [text |-> describeRange(Runs(cr)[1].first, Runs(cr)[1].last), count |-> 2]
     ELSE [text  |-> FlattenSeq([k \in DOMAIN ms |-> <<BACKSLASH, ms[k].letter>>])
                       \o FlattenSeq([k \in DOMAIN runs |->
                                        describeRange(runs[k].first, runs[k].last)]),
           count |-> Len(ms) + Len(runs)]

Bracketed(text) == <<LBRACKET>> \o text \o <<RBRACKET>>
Negated(text)   == <<LBRACKET, CARET>> \o text \o <<RBRACKET>>

(* <any> and <empty>, as they are printed. *)
ANY   == <<LESS, 97, n_, 121, GREATER>>
EMPTY == <<LESS, 101, 109, 112, t_, 121, GREATER>>

(* The shorter of the class itself and of its negation. *)
describeClass(cr) ==
  LET neg  == Char \ cr
      out  == describeClassInt(cr)
      nout == describeClassInt(neg)
      The(set) == CHOOSE c \in set : TRUE
  IN CASE neg = {}             -> ANY
       [] cr = {}              -> EMPTY
       [] Cardinality(cr) = 1  -> describeChar(The(cr))
       [] Cardinality(neg) = 1 -> Negated(describeChar(The(neg)))
       [] OTHER -> IF Len(out.text) > Len(nout.text) THEN Negated(nout.text)
                   ELSE IF out.count > 1 THEN Bracketed(out.text) ELSE out.text
=============================================================================

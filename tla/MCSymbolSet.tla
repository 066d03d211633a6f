----------------------------- MODULE MCSymbolSet ----------------------------
(* Instances of SymbolSet for TLC.                                         *)
EXTENDS SymbolSet

(* Characters at which either side changes its mind: ends of the alphabet,   *)
(* of the mnemonics and of the printable range, and those with a meaning.    *)
Corners == {0, 9, 10, 13, 32, 36, STAR, DASH, DOT, 48, 57, LBRACKET, BACKSLASH,
            RBRACKET, CARET, 97, x_, 122, LBRACE, RBRACE, 255}

Spans == {a..b : a \in Corners, b \in Corners}
WithMnemonics == {span \cup m : span \in Spans, m \in {{}, Words, Digits, Whitespace,
                                                      Whitespace \cup Words}}
Pairs == {{a, b} : a \in Corners, b \in Corners}
PrintedClasses == LET cs == WithMnemonics \cup Pairs \cup {{}, Char}
                  IN cs \cup {Char \ k : k \in cs}
Printed == {[text |-> describeClass(k), set |-> k, ok |-> TRUE] : k \in PrintedClasses}

-----------------------------------------------------------------------------
(* Texts written by hand: up to two items between brackets.                *)

Item(text, set) == [text |-> text, set |-> set]
Plain    == {Item(<<ch>>, {ch}) : ch \in {DOT, 97, n_, w_, x_, LBRACE, 200}}
Escapes  == {Item(<<BACKSLASH, e[1]>>, {e[2]}) :
               e \in {<<97, 7>>, <<98, 8>>, <<118, 11>>, <<102, 12>>, <<34, 34>>, <<35, 35>>,
                      <<BACKSLASH, BACKSLASH>>, <<LBRACKET, LBRACKET>>}}
Hexes    == {Item(<<BACKSLASH, x_, 48, 70>>, {15}), Item(<<BACKSLASH, x_, 102, 49>>, {241})}
Classes  == {Item(<<BACKSLASH, w_>>, Words), Item(<<BACKSLASH, s_>>, Whitespace)}
Singles  == Plain \cup Escapes \cup Hexes
The(set) == CHOOSE ch \in set : TRUE
Ranges   == {Item(a.text \o <<DASH>> \o b.text, The(a.set)..The(b.set)) :
               a \in Singles, b \in {s \in Singles : The(s.set) > 90}}
Items    == Singles \cup Classes \cup {r \in Ranges : r.set # {}}

Written ==
  {[text |-> Bracketed(i.text \o j.text), set |-> i.set \cup j.set, ok |-> TRUE] :
     i \in Items, j \in Singles \cup Classes}
    \cup {[text |-> Negated(i.text), set |-> Char \ i.set, ok |-> TRUE] : i \in Items}

Broken == {[text |-> t, set |-> {}, ok |-> FALSE] :
             t \in {<<LBRACKET, 97>>, <<97, RBRACKET>>, <<LBRACE, 97, RBRACE>>,
                    <<LBRACKET, 97, BACKSLASH, RBRACKET>>}}

MCInputs == Printed \cup Written \cup Broken
MCAny == {[text |-> describeClass(k), set |-> k, ok |-> TRUE] : k \in {Char, {STAR}, 65..90}}
=============================================================================

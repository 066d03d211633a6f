--------------------------- MODULE SymbolSetProofs --------------------------
(***************************************************************************)
(* Theorems about SymbolSet and CharClass: what pcre2mnrl prints for a     *)
(* character class hscompile reads as that class, for every class of an    *)
(* alphabet of 256 characters but the three it writes as something else.   *)
(***************************************************************************)
EXTENDS SymbolSet, FoldProofs

-----------------------------------------------------------------------------
(* The loop of parseSymbolSet as a function on its states.                 *)

St(p, C, e, v, g, b, l, r) ==
  [index |-> p, column |-> C, escaped |-> e, inverting |-> v, range_set |-> g,
   bracket_sem |-> b, last_char |-> l, range_start |-> r]

ClassOf(ch) == CASE ch = s_ -> Whitespace [] ch = d_ -> Digits [] OTHER -> Words

(* A character is set, and the loop goes on n characters further.           *)
PutIn(s, ch, n, e) ==
  St(s.index + n, s.column \cup {ch} \cup (IF s.range_set THEN s.range_start..ch ELSE {}),
     e, s.inverting, FALSE, s.bracket_sem, ch, s.range_start)

AfterEscape(t, s) ==
  LET ch == t[s.index]
  IN CASE ch \in {s_, d_, w_} ->
            St(s.index + 1, s.column \cup ClassOf(ch), FALSE, s.inverting, s.range_set,
               s.bracket_sem, s.last_char, s.range_start)
       [] ch = x_ -> PutIn(s, 16 * HexValue(t[s.index + 1]) + HexValue(t[s.index + 2]), 3, FALSE)
       [] OTHER -> PutIn(s, Unescaped(ch), 1, FALSE)

AfterPlain(t, s) ==
  LET ch == t[s.index]
  IN CASE ch \in {LBRACKET, RBRACKET} ->
            St(s.index + 1, s.column, FALSE, s.inverting, s.range_set,
               IF ch = LBRACKET THEN s.bracket_sem + 1 ELSE s.bracket_sem - 1,
               s.last_char, s.range_start)
       [] ch = BACKSLASH ->
            St(s.index + 1, s.column, TRUE, s.inverting, s.range_set, s.bracket_sem,
               s.last_char, s.range_start)
       [] ch = DASH ->
            St(s.index + 1, s.column, FALSE, s.inverting, TRUE, s.bracket_sem,
               s.last_char, s.last_char)
       [] ch = CARET ->
            St(s.index + 1, s.column, FALSE, TRUE, s.range_set, s.bracket_sem,
               s.last_char, s.range_start)
       [] OTHER -> PutIn(s, ch, 1, FALSE)

(* One iteration, on the text t. *)
After(t, s) == IF t[s.index] \in {LBRACE, RBRACE} THEN PutIn(s, t[s.index], 1, s.escaped)
               ELSE IF s.escaped THEN AfterEscape(t, s) ELSE AfterPlain(t, s)

Now == St(index, column, escaped, inverting, range_set, bracket_sem, last_char, range_start)

ParseStep == Bracket \/ Brace \/ Escape \/ OpenRange \/ Invert \/ Class \/ Hex \/ Character

(* A program state as a state of the loop.                                  *)
LEMMA NowIs ==
  /\ Now.index = index /\ Now.column = column /\ Now.escaped = escaped
  /\ Now.inverting = inverting /\ Now.range_set = range_set /\ Now.bracket_sem = bracket_sem
  /\ Now.last_char = last_char /\ Now.range_start = range_start
BY DEF Now, St

LEMMA PutStep ==
  ASSUME NEW ch, NEW n, NEW e, Put(ch), index' = index + n, escaped' = e
  PROVE  Now' = PutIn(Now, ch, n, e)
<1>1. /\ column' = column \cup {ch} \cup (IF range_set THEN range_start..ch ELSE {})
      /\ inverting' = inverting /\ range_set' = FALSE /\ bracket_sem' = bracket_sem
      /\ last_char' = ch /\ range_start' = range_start
  BY DEF Put
<1>2. PutIn(Now, ch, n, e) =
        St(index + n, column \cup {ch} \cup (IF range_set THEN range_start..ch ELSE {}),
           e, inverting, FALSE, bracket_sem, ch, range_start)
  BY NowIs, Zenon DEF PutIn
<1>3. Now' = St(index', column', escaped', inverting', range_set', bracket_sem', last_char',
                range_start')
  BY Zenon DEF Now
<1> QED
  BY ONLY <1>1, <1>2, <1>3, index' = index + n, escaped' = e, Zenon

(* A step that sets no character. *)
LEMMA FlagStep ==
  ASSUME NEW p, NEW C, NEW e, NEW v, NEW g, NEW b, NEW r,
         index' = p, column' = C, escaped' = e, inverting' = v, range_set' = g,
         bracket_sem' = b, last_char' = last_char, range_start' = r
  PROVE  Now' = St(p, C, e, v, g, b, last_char, r)
BY Zenon DEF Now

(* What an iteration makes of each character.                               *)
LEMMA BraceIs ==
  ASSUME Brace
  PROVE  Now' = After(symbol_set, Now)
<1>1. c \in {LBRACE, RBRACE} /\ Put(c) /\ index' = index + 1 /\ escaped' = escaped
  BY DEF Brace, At, Skip
<1>2. After(symbol_set, Now) = PutIn(Now, c, 1, escaped)
  BY <1>1, NowIs, Zenon DEF After, c
<1> QED
  BY <1>1, <1>2, PutStep, Zenon

LEMMA AfterIs ==
  ASSUME NEW t, NEW s
  PROVE  /\ t[s.index] \in {LBRACE, RBRACE} => After(t, s) = PutIn(s, t[s.index], 1, s.escaped)
         /\ t[s.index] \notin {LBRACE, RBRACE} /\ s.escaped => After(t, s) = AfterEscape(t, s)
         /\ t[s.index] \notin {LBRACE, RBRACE} /\ ~s.escaped => After(t, s) = AfterPlain(t, s)
BY Zenon DEF After

LEMMA AfterEscapeIs ==
  ASSUME NEW t, NEW s, NEW ch, ch = t[s.index]
  PROVE  /\ ch \in {s_, d_, w_} =>
              AfterEscape(t, s) =
                St(s.index + 1, s.column \cup ClassOf(ch), FALSE, s.inverting, s.range_set,
                   s.bracket_sem, s.last_char, s.range_start)
         /\ ch = x_ =>
              AfterEscape(t, s) =
                PutIn(s, 16 * HexValue(t[s.index + 1]) + HexValue(t[s.index + 2]), 3, FALSE)
         /\ ch \notin {s_, d_, w_, x_} => AfterEscape(t, s) = PutIn(s, Unescaped(ch), 1, FALSE)
<1>1. x_ \notin {s_, d_, w_}
  BY DEF x_, s_, d_, w_
<1> QED
  BY <1>1 DEF AfterEscape

LEMMA AfterPlainIs ==
  ASSUME NEW t, NEW s, NEW ch, ch = t[s.index]
  PROVE  /\ ch \in {LBRACKET, RBRACKET} =>
              AfterPlain(t, s) =
                St(s.index + 1, s.column, FALSE, s.inverting, s.range_set,
                   IF ch = LBRACKET THEN s.bracket_sem + 1 ELSE s.bracket_sem - 1,
                   s.last_char, s.range_start)
         /\ ch = BACKSLASH =>
              AfterPlain(t, s) =
                St(s.index + 1, s.column, TRUE, s.inverting, s.range_set, s.bracket_sem,
                   s.last_char, s.range_start)
         /\ ch = DASH =>
              AfterPlain(t, s) =
                St(s.index + 1, s.column, FALSE, s.inverting, TRUE, s.bracket_sem,
                   s.last_char, s.last_char)
         /\ ch = CARET =>
              AfterPlain(t, s) =
                St(s.index + 1, s.column, FALSE, TRUE, s.range_set, s.bracket_sem,
                   s.last_char, s.range_start)
         /\ ch \notin {LBRACKET, RBRACKET, BACKSLASH, DASH, CARET} =>
              AfterPlain(t, s) = PutIn(s, ch, 1, FALSE)
<1>1. /\ BACKSLASH \notin {LBRACKET, RBRACKET} /\ DASH \notin {LBRACKET, RBRACKET, BACKSLASH}
      /\ CARET \notin {LBRACKET, RBRACKET, BACKSLASH, DASH}
  BY DEF BACKSLASH, LBRACKET, RBRACKET, DASH, CARET
<1> QED
  BY <1>1 DEF AfterPlain

LEMMA ClassIs ==
  ASSUME Class
  PROVE  Now' = After(symbol_set, Now)
<1>1. /\ c \in {s_, d_, w_} /\ escaped /\ index' = index + 1
      /\ column' = column \cup ClassOf(c) /\ escaped' = FALSE
      /\ inverting' = inverting /\ range_set' = range_set /\ bracket_sem' = bracket_sem
      /\ last_char' = last_char /\ range_start' = range_start
  BY DEF Class, At, Skip, ClassOf
<1>2. c \notin {LBRACE, RBRACE}
  BY <1>1 DEF s_, d_, w_, LBRACE, RBRACE
<1>3. c = symbol_set[Now.index]
  BY NowIs, Zenon DEF c
<1>4. After(symbol_set, Now) = AfterEscape(symbol_set, Now)
  BY <1>1, <1>2, <1>3, NowIs, AfterIs, Zenon
<1>5. AfterEscape(symbol_set, Now) =
        St(index + 1, column \cup ClassOf(c), FALSE, inverting, range_set, bracket_sem,
           last_char, range_start)
  BY <1>1, <1>3, NowIs, AfterEscapeIs, Zenon
<1> QED
  BY <1>1, <1>4, <1>5, FlagStep, Zenon

LEMMA HexIs ==
  ASSUME Hex
  PROVE  Now' = After(symbol_set, Now)
<1> DEFINE ch == 16 * HexValue(symbol_set[index + 1]) + HexValue(symbol_set[index + 2])
<1>1. c = x_ /\ escaped /\ index' = index + 3 /\ escaped' = FALSE /\ Put(ch)
  BY DEF Hex, At, Skip
<1>2. c \notin {LBRACE, RBRACE}
  BY <1>1 DEF x_, LBRACE, RBRACE
<1>3. c = symbol_set[Now.index]
  BY NowIs, Zenon DEF c
<1>4. After(symbol_set, Now) = AfterEscape(symbol_set, Now)
  BY <1>1, <1>2, <1>3, NowIs, AfterIs, Zenon
<1>5. AfterEscape(symbol_set, Now) = PutIn(Now, ch, 3, FALSE)
  BY <1>1, <1>3, NowIs, AfterEscapeIs, Zenon
<1> HIDE DEF ch
<1> QED
  BY <1>1, <1>4, <1>5, PutStep, Zenon

LEMMA CharacterIs ==
  ASSUME Character
  PROVE  Now' = After(symbol_set, Now)
<1>1. index' = index + 1 /\ escaped' = FALSE /\ Put(IF escaped THEN Unescaped(c) ELSE c)
  BY DEF Character, Skip
<1>2. c = symbol_set[Now.index]
  BY NowIs, Zenon DEF c
<1>3. CASE escaped
  <2>1. c \notin {LBRACE, RBRACE} /\ c \notin {s_, d_, w_, x_}
    BY <1>3 DEF Character, At
  <2>2. After(symbol_set, Now) = AfterEscape(symbol_set, Now)
    BY <1>2, <1>3, <2>1, NowIs, AfterIs, Zenon
  <2>3. AfterEscape(symbol_set, Now) = PutIn(Now, Unescaped(c), 1, FALSE)
    BY <1>2, <2>1, AfterEscapeIs, Zenon
  <2>4. Put(Unescaped(c))
    BY <1>1, <1>3, Zenon
  <2> QED
    BY <1>1, <2>2, <2>3, <2>4, PutStep, Zenon
<1>4. CASE ~escaped
  <2>1. c \notin {LBRACE, RBRACE} /\ c \notin {LBRACKET, RBRACKET, BACKSLASH, DASH, CARET}
    BY <1>4 DEF Character, At
  <2>2. After(symbol_set, Now) = AfterPlain(symbol_set, Now)
    BY <1>2, <1>4, <2>1, NowIs, AfterIs, Zenon
  <2>3. AfterPlain(symbol_set, Now) = PutIn(Now, c, 1, FALSE)
    BY <1>2, <2>1, AfterPlainIs, Zenon
  <2>4. Put(c)
    BY <1>1, <1>4, Zenon
  <2> QED
    BY <1>1, <2>2, <2>3, <2>4, PutStep, Zenon
<1> QED
  BY <1>3, <1>4

(* A flag is set outside an escape. *)
LEMMA FlagIs ==
  ASSUME escaped \in BOOLEAN, Bracket \/ Escape \/ OpenRange \/ Invert
  PROVE  Now' = After(symbol_set, Now)
<1>1. c = symbol_set[Now.index]
  BY NowIs, Zenon DEF c
<1>2. ~escaped /\ c \notin {LBRACE, RBRACE}
  BY DEF Bracket, Escape, OpenRange, Invert, At, LBRACKET, RBRACKET, BACKSLASH, DASH,
     CARET, LBRACE, RBRACE
<1>3. After(symbol_set, Now) = AfterPlain(symbol_set, Now)
  BY <1>1, <1>2, NowIs, AfterIs, Zenon
<1>4. escaped = FALSE
  BY <1>2
<1>5. CASE Bracket
  <2>1. /\ c \in {LBRACKET, RBRACKET} /\ index' = index + 1 /\ column' = column
        /\ escaped' = escaped /\ inverting' = inverting /\ range_set' = range_set
        /\ bracket_sem' = (IF c = LBRACKET THEN bracket_sem + 1 ELSE bracket_sem - 1)
        /\ last_char' = last_char /\ range_start' = range_start
    BY <1>5 DEF Bracket, At, Skip
  <2>2. AfterPlain(symbol_set, Now) =
          St(index + 1, column, FALSE, inverting, range_set,
             IF c = LBRACKET THEN bracket_sem + 1 ELSE bracket_sem - 1, last_char, range_start)
    BY <1>1, <2>1, NowIs, AfterPlainIs, Zenon
  <2>3. escaped' = FALSE
    BY <1>4, <2>1, Zenon
  <2> QED
    BY <1>3, <2>1, <2>2, <2>3, FlagStep, Zenon
<1>6. CASE Escape
  <2>1. /\ c = BACKSLASH /\ index' = index + 1 /\ column' = column
        /\ escaped' = TRUE /\ inverting' = inverting /\ range_set' = range_set
        /\ bracket_sem' = bracket_sem /\ last_char' = last_char /\ range_start' = range_start
    BY <1>6 DEF Escape, At, Skip
  <2>2. AfterPlain(symbol_set, Now) =
          St(index + 1, column, TRUE, inverting, range_set, bracket_sem, last_char, range_start)
    BY <1>1, <2>1, NowIs, AfterPlainIs, Zenon
  <2> QED
    BY <1>3, <2>1, <2>2, FlagStep, Zenon
<1>7. CASE OpenRange
  <2>1. /\ c = DASH /\ index' = index + 1 /\ column' = column
        /\ escaped' = escaped /\ inverting' = inverting /\ range_set' = TRUE
        /\ bracket_sem' = bracket_sem /\ last_char' = last_char /\ range_start' = last_char
    BY <1>7 DEF OpenRange, At, Skip
  <2>2. AfterPlain(symbol_set, Now) =
          St(index + 1, column, FALSE, inverting, TRUE, bracket_sem, last_char, last_char)
    BY <1>1, <2>1, NowIs, AfterPlainIs, Zenon
  <2>3. escaped' = FALSE
    BY <1>4, <2>1, Zenon
  <2> QED
    BY <1>3, <2>1, <2>2, <2>3, FlagStep, Zenon
<1>8. CASE Invert
  <2>1. /\ c = CARET /\ index' = index + 1 /\ column' = column
        /\ escaped' = escaped /\ inverting' = TRUE /\ range_set' = range_set
        /\ bracket_sem' = bracket_sem /\ last_char' = last_char /\ range_start' = range_start
    BY <1>8 DEF Invert, At, Skip
  <2>2. AfterPlain(symbol_set, Now) =
          St(index + 1, column, FALSE, TRUE, range_set, bracket_sem, last_char, range_start)
    BY <1>1, <2>1, NowIs, AfterPlainIs, Zenon
  <2>3. escaped' = FALSE
    BY <1>4, <2>1, Zenon
  <2> QED
    BY <1>3, <2>1, <2>2, <2>3, FlagStep, Zenon
<1> QED
  BY <1>5, <1>6, <1>7, <1>8

LEMMA ParseStepIs ==
  ASSUME escaped \in BOOLEAN, ParseStep
  PROVE  /\ pc = "parse" /\ index <= Len(symbol_set) /\ UNCHANGED <<pc, input>>
         /\ index' = index + 1 \/ index' = index + 3
         /\ Now' = After(symbol_set, Now)
<1>1. /\ pc = "parse" /\ index <= Len(symbol_set) /\ UNCHANGED <<pc, input>>
      /\ index' = index + 1 \/ index' = index + 3
  BY DEF ParseStep, Bracket, Brace, Escape, OpenRange, Invert, Class, Hex, Character, At, Skip
<1> QED
  BY <1>1, BraceIs, ClassIs, HexIs, CharacterIs, FlagIs DEF ParseStep

-----------------------------------------------------------------------------
(* Where the loop gets to.  A state leads to another when it is in every set *)
(* that has the other and, with a state, all those an iteration before it.   *)

State == [index : Nat, column : SUBSET Char, escaped : BOOLEAN, inverting : BOOLEAN,
          range_set : BOOLEAN, bracket_sem : Int, last_char : Char, range_start : Char]

Closed(t, Q)   == \A s \in State : s.index <= Len(t) /\ After(t, s) \in Q => s \in Q
Leads(t, s, f) == \A Q : f \in Q /\ Closed(t, Q) => s \in Q

LEMMA Stays == \A t, s : Leads(t, s, s)
BY DEF Leads

LEMMA Moves ==
  \A t, f : \A s \in State : s.index <= Len(t) /\ Leads(t, After(t, s), f) => Leads(t, s, f)
BY DEF Leads, Closed

LEMMA Joins == \A t, s, m, f : Leads(t, s, m) /\ Leads(t, m, f) => Leads(t, s, f)
BY DEF Leads

(* All states on the way to a state of the loop are states of the loop. *)
LEMMA OnTheWay ==
  ASSUME NEW t, NEW s, NEW f \in State, Leads(t, s, f)
  PROVE  s \in State
<1>1. Closed(t, State)
  BY DEF Closed
<1> QED
  BY <1>1 DEF Leads

(* The loop has only one way to go: the next state leads where a state does, *)
(* unless it is there.                                                       *)
LEMMA NextLeads ==
  ASSUME NEW t, NEW s, NEW f, Leads(t, s, f), s # f
  PROVE  s.index <= Len(t) /\ Leads(t, After(t, s), f)
<1>1. s.index <= Len(t)
  <2> DEFINE Q == {f} \cup {r \in State : r.index <= Len(t)}
  <2>1. Closed(t, Q)
    BY DEF Closed
  <2> HIDE DEF Q
  <2>2. s \in Q
    BY <2>1 DEF Leads, Q
  <2> QED
    BY <2>2 DEF Q
<1>2. ASSUME NEW Q, f \in Q, Closed(t, Q)
      PROVE  After(t, s) \in Q
  <2> DEFINE P == {f} \cup {r \in State : r.index <= Len(t) /\ After(t, r) \in Q}
  <2>1. ASSUME NEW r \in State, r.index <= Len(t), After(t, r) \in P
        PROVE  r \in P
    <3>1. After(t, r) \in Q
      <4>1. CASE After(t, r) = f
        BY <1>2, <4>1
      <4>2. CASE After(t, r) # f
        <5> DEFINE q == After(t, r)
        <5>1. q \in State /\ q.index <= Len(t) /\ After(t, q) \in Q
          BY <2>1, <4>2
        <5> QED
          BY <1>2, <5>1 DEF Closed
      <4> QED
        BY <4>1, <4>2
    <3> QED
      BY <2>1, <3>1
  <2> HIDE DEF P
  <2>2. s \in P
    <3>1. Closed(t, P)
      BY <2>1 DEF Closed
    <3> QED
      BY <3>1 DEF Leads, P
  <2> QED
    BY <2>2 DEF P
<1> QED
  BY <1>1, <1>2 DEF Leads

-----------------------------------------------------------------------------
(* What the loop makes of a piece of the text.                             *)

LEMMA StIsState ==
  ASSUME NEW p \in Nat, NEW C \in SUBSET Char, NEW e \in BOOLEAN, NEW v \in BOOLEAN,
         NEW g \in BOOLEAN, NEW b \in Int, NEW l \in Char, NEW r \in Char
  PROVE  St(p, C, e, v, g, b, l, r) \in State
BY DEF St, State

(* The text t has the piece w from position p on. *)
Has(t, p, w) == \A k \in 1..Len(w) : p + k - 1 <= Len(t) /\ t[p + k - 1] = w[k]

Open(p, C, v, g, b, l, r) == St(p, C, FALSE, v, g, b, l, r)

(* The piece w is the character ch, alone or at the end of a range. *)
Single(w, ch) ==
  \A t \in Text, p \in Nat, C \in SUBSET Char, v \in BOOLEAN, g \in BOOLEAN, b \in Int,
     l \in Char, r \in Char :
    Has(t, p, w) =>
      Leads(t, Open(p, C, v, g, b, l, r),
               Open(p + Len(w), C \cup {ch} \cup (IF g THEN r..ch ELSE {}), v, FALSE, b, ch, r))

LEMMA PlainChar ==
  ASSUME NEW ch \in Char, ch \notin {LBRACKET, RBRACKET, BACKSLASH, DASH, CARET}
  PROVE  Single(<<ch>>, ch)
<1> SUFFICES ASSUME NEW t \in Text, NEW p \in Nat, NEW C \in SUBSET Char, NEW v \in BOOLEAN,
                    NEW g \in BOOLEAN, NEW b \in Int, NEW l \in Char, NEW r \in Char,
                    Has(t, p, <<ch>>)
             PROVE  Leads(t, Open(p, C, v, g, b, l, r),
                             Open(p + Len(<<ch>>), C \cup {ch} \cup (IF g THEN r..ch ELSE {}),
                                  v, FALSE, b, ch, r))
  BY DEF Single
<1> DEFINE s == St(p, C, FALSE, v, g, b, l, r)
<1>1. p <= Len(t) /\ t[p] = ch
  <2>1. 1 \in 1..Len(<<ch>>) /\ <<ch>>[1] = ch /\ p + 1 - 1 = p
    OBVIOUS
  <2> QED
    BY <2>1 DEF Has
<1>2. s \in State
  BY StIsState
<1>3. /\ s.index = p /\ s.column = C /\ s.escaped = FALSE /\ s.inverting = v
      /\ s.range_set = g /\ s.bracket_sem = b /\ s.last_char = l /\ s.range_start = r
  BY DEF St
<1> HIDE DEF s
<1>4. After(t, s) = PutIn(s, ch, 1, FALSE)
  <2>1. CASE ch \in {LBRACE, RBRACE}
    BY <1>1, <1>3, <2>1, AfterIs, Zenon
  <2>2. CASE ch \notin {LBRACE, RBRACE}
    <3>1. ~s.escaped
      BY <1>3
    <3>2. After(t, s) = AfterPlain(t, s)
      BY <1>1, <1>3, <2>2, <3>1, AfterIs, Zenon
    <3> QED
      BY <1>1, <1>3, <3>2, AfterPlainIs, Zenon
  <2> QED
    BY <2>1, <2>2
<1>5. PutIn(s, ch, 1, FALSE) =
        St(p + 1, C \cup {ch} \cup (IF g THEN r..ch ELSE {}), FALSE, v, FALSE, b, ch, r)
  BY <1>3, Zenon DEF PutIn
<1>6. Leads(t, s, After(t, s))
  BY <1>1, <1>2, <1>3, Stays, Moves, Zenon
<1>7. Len(<<ch>>) = 1
  OBVIOUS
<1> QED
  BY ONLY <1>4, <1>5, <1>6, <1>7, Zenon DEF Open, s

(* A backslash. *)
LEMMA Backslash ==
  ASSUME NEW t \in Text, NEW p \in Nat, NEW C \in SUBSET Char, NEW v \in BOOLEAN,
         NEW g \in BOOLEAN, NEW b \in Int, NEW l \in Char, NEW r \in Char,
         p <= Len(t), t[p] = BACKSLASH
  PROVE  Leads(t, Open(p, C, v, g, b, l, r), St(p + 1, C, TRUE, v, g, b, l, r))
<1> DEFINE s == St(p, C, FALSE, v, g, b, l, r)
<1>1. s \in State
  BY StIsState
<1>2. /\ s.index = p /\ s.column = C /\ s.escaped = FALSE /\ s.inverting = v
      /\ s.range_set = g /\ s.bracket_sem = b /\ s.last_char = l /\ s.range_start = r
  BY DEF St
<1> HIDE DEF s
<1>3. BACKSLASH \notin {LBRACE, RBRACE} /\ ~s.escaped
  BY <1>2 DEF BACKSLASH, LBRACE, RBRACE
<1>4. After(t, s) = AfterPlain(t, s)
  BY <1>2, <1>3, AfterIs, Zenon
<1>5. After(t, s) = St(p + 1, C, TRUE, v, g, b, l, r)
  BY <1>2, <1>4, AfterPlainIs, Zenon
<1>6. Leads(t, s, After(t, s))
  BY <1>1, <1>2, Stays, Moves, Zenon
<1> QED
  BY <1>5, <1>6, Zenon DEF Open, s

(* A character behind a backslash. *)
LEMMA Escaped ==
  ASSUME NEW t \in Text, NEW p \in Nat, NEW C \in SUBSET Char, NEW v \in BOOLEAN,
         NEW g \in BOOLEAN, NEW b \in Int, NEW l \in Char, NEW r \in Char,
         NEW e, NEW ch, NEW n, p <= Len(t), t[p] = e,
         \/ e = x_ /\ n = 3 /\ ch = 16 * HexValue(t[p + 1]) + HexValue(t[p + 2])
         \/ e \notin {LBRACE, RBRACE, s_, d_, w_, x_} /\ n = 1 /\ ch = Unescaped(e)
  PROVE  Leads(t, St(p, C, TRUE, v, g, b, l, r),
                  Open(p + n, C \cup {ch} \cup (IF g THEN r..ch ELSE {}), v, FALSE, b, ch, r))
<1> DEFINE s == St(p, C, TRUE, v, g, b, l, r)
<1>1. s \in State
  BY StIsState
<1>2. /\ s.index = p /\ s.column = C /\ s.escaped = TRUE /\ s.inverting = v
      /\ s.range_set = g /\ s.bracket_sem = b /\ s.last_char = l /\ s.range_start = r
  BY DEF St
<1> HIDE DEF s
<1>3. e \notin {LBRACE, RBRACE} /\ s.escaped
  BY <1>2 DEF x_, LBRACE, RBRACE
<1>4. After(t, s) = AfterEscape(t, s)
  BY <1>2, <1>3, AfterIs, Zenon
<1>5. AfterEscape(t, s) = PutIn(s, ch, n, FALSE)
  <2>1. CASE e = x_ /\ n = 3 /\ ch = 16 * HexValue(t[p + 1]) + HexValue(t[p + 2])
    <3>1. t[s.index] = x_ /\ s.index = p
      BY ONLY <1>2, <2>1, t[p] = e, Zenon
    <3>2. AfterEscape(t, s) =
            PutIn(s, 16 * HexValue(t[s.index + 1]) + HexValue(t[s.index + 2]), 3, FALSE)
      BY ONLY <3>1, AfterEscapeIs, Zenon
    <3> QED
      BY ONLY <2>1, <3>1, <3>2, Zenon
  <2>2. CASE e \notin {LBRACE, RBRACE, s_, d_, w_, x_} /\ n = 1 /\ ch = Unescaped(e)
    <3>1. e \notin {s_, d_, w_, x_}
      BY <2>2
    <3>2. t[s.index] = e
      BY ONLY <1>2, t[p] = e, Zenon
    <3>3. AfterEscape(t, s) = PutIn(s, Unescaped(e), 1, FALSE)
      BY ONLY <3>1, <3>2, AfterEscapeIs, Zenon
    <3> QED
      BY ONLY <2>2, <3>3, Zenon
  <2> QED
    BY <2>1, <2>2
<1>6. PutIn(s, ch, n, FALSE) =
        St(p + n, C \cup {ch} \cup (IF g THEN r..ch ELSE {}), FALSE, v, FALSE, b, ch, r)
  BY <1>2, Zenon DEF PutIn
<1>7. Leads(t, s, After(t, s))
  BY <1>1, <1>2, Stays, Moves, Zenon
<1> QED
  BY ONLY <1>4, <1>5, <1>6, <1>7, Zenon DEF Open, s

LEMMA EscapedChar ==
  ASSUME NEW e, e \notin {LBRACE, RBRACE, s_, d_, w_, x_}, NEW ch, ch = Unescaped(e)
  PROVE  Single(<<BACKSLASH, e>>, ch)
<1> DEFINE w == <<BACKSLASH, e>>
<1> HIDE DEF w
<1> SUFFICES ASSUME NEW t \in Text, NEW p \in Nat, NEW C \in SUBSET Char, NEW v \in BOOLEAN,
                    NEW g \in BOOLEAN, NEW b \in Int, NEW l \in Char, NEW r \in Char,
                    Has(t, p, w)
             PROVE  Leads(t, Open(p, C, v, g, b, l, r),
                             Open(p + Len(w), C \cup {ch} \cup (IF g THEN r..ch ELSE {}),
                                  v, FALSE, b, ch, r))
  BY DEF Single, w
<1>1. Len(w) = 2 /\ w[1] = BACKSLASH /\ w[2] = e /\ 1 \in 1..Len(w) /\ 2 \in 1..Len(w)
  BY DEF w
<1>2. p <= Len(t) /\ t[p] = BACKSLASH /\ p + 1 <= Len(t) /\ t[p + 1] = e
  <2>1. p + 1 - 1 = p /\ p + 2 - 1 = p + 1
    OBVIOUS
  <2> QED
    BY <1>1, <2>1 DEF Has
<1>3. Leads(t, Open(p, C, v, g, b, l, r), St(p + 1, C, TRUE, v, g, b, l, r))
  BY <1>2, Backslash, Zenon
<1>4. Leads(t, St(p + 1, C, TRUE, v, g, b, l, r),
               Open(p + 1 + 1, C \cup {ch} \cup (IF g THEN r..ch ELSE {}), v, FALSE, b, ch, r))
  <2>1. p + 1 \in Nat
    OBVIOUS
  <2> QED
    BY <1>2, <2>1, Escaped, Zenon
<1>5. p + 1 + 1 = p + Len(w)
  BY <1>1
<1>6. Leads(t, Open(p, C, v, g, b, l, r),
               Open(p + 1 + 1, C \cup {ch} \cup (IF g THEN r..ch ELSE {}), v, FALSE, b, ch, r))
  BY <1>3, <1>4, Joins, Zenon
<1> QED
  BY ONLY <1>5, <1>6, Zenon

LEMMA HexChar ==
  ASSUME NEW h1, NEW h2, NEW ch, ch = 16 * HexValue(h1) + HexValue(h2)
  PROVE  Single(<<BACKSLASH, x_, h1, h2>>, ch)
<1> DEFINE w == <<BACKSLASH, x_, h1, h2>>
<1> HIDE DEF w
<1> SUFFICES ASSUME NEW t \in Text, NEW p \in Nat, NEW C \in SUBSET Char, NEW v \in BOOLEAN,
                    NEW g \in BOOLEAN, NEW b \in Int, NEW l \in Char, NEW r \in Char,
                    Has(t, p, w)
             PROVE  Leads(t, Open(p, C, v, g, b, l, r),
                             Open(p + Len(w), C \cup {ch} \cup (IF g THEN r..ch ELSE {}),
                                  v, FALSE, b, ch, r))
  BY DEF Single, w
<1>1. /\ Len(w) = 4 /\ w[1] = BACKSLASH /\ w[2] = x_ /\ w[3] = h1 /\ w[4] = h2
      /\ 1 \in 1..Len(w) /\ 2 \in 1..Len(w) /\ 3 \in 1..Len(w) /\ 4 \in 1..Len(w)
  BY DEF w
<1>2. /\ p <= Len(t) /\ t[p] = BACKSLASH /\ p + 1 <= Len(t) /\ t[p + 1] = x_
      /\ t[p + 1 + 1] = h1 /\ t[p + 1 + 2] = h2
  <2>1. p + 1 - 1 = p /\ p + 2 - 1 = p + 1 /\ p + 3 - 1 = p + 1 + 1 /\ p + 4 - 1 = p + 1 + 2
    OBVIOUS
  <2> QED
    BY <1>1, <2>1 DEF Has
<1>3. Leads(t, Open(p, C, v, g, b, l, r), St(p + 1, C, TRUE, v, g, b, l, r))
  BY <1>2, Backslash, Zenon
<1>4. Leads(t, St(p + 1, C, TRUE, v, g, b, l, r),
               Open(p + 1 + 3, C \cup {ch} \cup (IF g THEN r..ch ELSE {}), v, FALSE, b, ch, r))
  <2>1. p + 1 \in Nat /\ ch = 16 * HexValue(t[p + 1 + 1]) + HexValue(t[p + 1 + 2])
    BY <1>2
  <2> QED
    BY <1>2, <2>1, Escaped, Zenon
<1>5. p + 1 + 3 = p + Len(w)
  BY <1>1
<1>6. Leads(t, Open(p, C, v, g, b, l, r),
               Open(p + 1 + 3, C \cup {ch} \cup (IF g THEN r..ch ELSE {}), v, FALSE, b, ch, r))
  BY <1>3, <1>4, Joins, Zenon
<1> QED
  BY ONLY <1>5, <1>6, Zenon

LEMMA HexDigits ==
  ASSUME NEW n \in 0..15
  PROVE  HexDigit(n) \in Char /\ HexValue(HexDigit(n)) = n
<1>1. CASE n < 10
  <2>1. HexDigit(n) = 48 + n /\ 48 + n \in 48..57 /\ 48 + n \in Char
    BY <1>1 DEF HexDigit, Char
  <2>2. HexValue(48 + n) = 48 + n - 48
    BY <2>1 DEF HexValue, Digits
  <2> QED
    BY <2>1, <2>2
<1>2. CASE ~(n < 10)
  <2>1. /\ HexDigit(n) = 87 + n /\ 87 + n \in 97..102 /\ 87 + n \notin 48..57
        /\ 87 + n \notin 65..70 /\ 87 + n \in Char
    BY <1>2 DEF HexDigit, Char
  <2>2. HexValue(87 + n) = 87 + n - 87
    BY <2>1 DEF HexValue, Digits
  <2> QED
    BY <2>1, <2>2
<1> QED
  BY <1>1, <1>2

(* What describeChar writes is the character it writes. *)
LEMMA CharIsDescribed ==
  ASSUME NEW ch \in Char
  PROVE  /\ Single(describeChar(ch), ch)
         /\ describeChar(ch) \in Text /\ describeChar(ch) # <<>>
         /\ describeChar(ch) = <<DOT>> => FALSE
         /\ describeChar(ch) = <<STAR>> => ch = STAR
         /\ describeChar(ch)[1] = LBRACE => Len(describeChar(ch)) = 1 /\ ch = LBRACE
<1>1. CASE ch \in MustEscape
  <2>0. ch \notin {9, 10, 13}
    BY <1>1 DEF MustEscape, CARET, DASH, LBRACKET, RBRACKET, DOT
  <2>1. describeChar(ch) = <<BACKSLASH, ch>>
    BY <1>1, <2>0 DEF describeChar
  <2>2. /\ ch \notin {LBRACE, RBRACE, s_, d_, w_, x_} /\ ch = Unescaped(ch)
        /\ BACKSLASH \in Char /\ BACKSLASH # LBRACE
    BY <1>1 DEF MustEscape, Unescaped, CARET, DASH, LBRACKET, RBRACKET, DOT, LBRACE, RBRACE,
       s_, d_, w_, x_, t_, n_, r_, Char, BACKSLASH
  <2>3. Single(<<BACKSLASH, ch>>, ch)
    BY <2>2, EscapedChar, Zenon
  <2> QED
    BY <2>1, <2>2, <2>3 DEF Text
<1>2. CASE IsGraph(ch) /\ ch \notin MustEscape \cup {BACKSLASH}
  <2>0. ch \notin {9, 10, 13} /\ ch \notin MustEscape
    BY <1>2 DEF IsGraph
  <2>1. describeChar(ch) = <<ch>>
    BY <1>2, <2>0 DEF describeChar
  <2>2. ch \notin {LBRACKET, RBRACKET, BACKSLASH, DASH, CARET, DOT}
    BY <1>2 DEF MustEscape
  <2>3. Single(<<ch>>, ch)
    BY <2>2, PlainChar
  <2> QED
    BY <2>1, <2>2, <2>3 DEF Text
<1>3. CASE ch \in {9, 10, 13}
  <2> DEFINE e == IF ch = 9 THEN t_ ELSE IF ch = 10 THEN n_ ELSE r_
  <2>1. ch \notin MustEscape /\ ~IsGraph(ch)
    BY <1>3 DEF MustEscape, CARET, DASH, LBRACKET, RBRACKET, DOT, IsGraph
  <2>2. describeChar(ch) = <<BACKSLASH, e>>
    BY <1>3, <2>1 DEF describeChar
  <2>3. /\ e \notin {LBRACE, RBRACE, s_, d_, w_, x_} /\ ch = Unescaped(e) /\ e \in Char
        /\ BACKSLASH \in Char /\ BACKSLASH # LBRACE
    BY <1>3 DEF Unescaped, LBRACE, RBRACE, s_, d_, w_, x_, t_, n_, r_, Char, BACKSLASH
  <2> HIDE DEF e
  <2>4. Single(<<BACKSLASH, e>>, ch)
    BY <2>3, EscapedChar, Zenon
  <2> QED
    BY <2>2, <2>3, <2>4 DEF Text
<1>4. CASE /\ ch \notin MustEscape /\ ~(IsGraph(ch) /\ ch \notin MustEscape \cup {BACKSLASH})
           /\ ch \notin {9, 10, 13}
  <2> DEFINE a == ch \div 16
             b == ch % 16
  <2>1. describeChar(ch) = <<BACKSLASH, x_, HexDigit(a), HexDigit(b)>>
    BY <1>4 DEF describeChar
  <2>2. a \in 0..15 /\ b \in 0..15 /\ 16 * a + b = ch
    BY DEF Char
  <2> HIDE DEF a, b
  <2>3. /\ HexDigit(a) \in Char /\ HexDigit(b) \in Char
        /\ ch = 16 * HexValue(HexDigit(a)) + HexValue(HexDigit(b))
    BY <2>2, HexDigits
  <2>4. Single(<<BACKSLASH, x_, HexDigit(a), HexDigit(b)>>, ch)
    BY <2>3, HexChar
  <2>5. BACKSLASH \in Char /\ BACKSLASH # LBRACE /\ x_ \in Char
    BY DEF BACKSLASH, LBRACE, x_, Char
  <2> QED
    BY <2>1, <2>3, <2>4, <2>5 DEF Text
<1> QED
  BY <1>1, <1>2, <1>3, <1>4

-----------------------------------------------------------------------------
(* Pieces that add a set to the reach, whatever is there already.          *)

Adds(w, S) ==
  \A t \in Text, p \in Nat, C \in SUBSET Char, v \in BOOLEAN, b \in Int, l \in Char, r \in Char :
    Has(t, p, w) =>
      \E m, k \in Char : Leads(t, Open(p, C, v, FALSE, b, l, r),
                                  Open(p + Len(w), C \cup S, v, FALSE, b, m, k))

LEMMA SingleAdds ==
  ASSUME NEW w, NEW ch \in Char, Single(w, ch)
  PROVE  Adds(w, {ch})
<1> SUFFICES ASSUME NEW t \in Text, NEW p \in Nat, NEW C \in SUBSET Char, NEW v \in BOOLEAN,
                    NEW b \in Int, NEW l \in Char, NEW r \in Char, Has(t, p, w)
             PROVE  \E m, k \in Char : Leads(t, Open(p, C, v, FALSE, b, l, r),
                                                Open(p + Len(w), C \cup {ch}, v, FALSE, b, m, k))
  BY DEF Adds
<1>1. Leads(t, Open(p, C, v, FALSE, b, l, r),
               Open(p + Len(w), C \cup {ch} \cup (IF FALSE THEN r..ch ELSE {}), v, FALSE, b, ch, r))
  BY Zenon DEF Single
<1>2. C \cup {ch} \cup (IF FALSE THEN r..ch ELSE {}) = C \cup {ch}
  OBVIOUS
<1> QED
  BY <1>1, <1>2, Zenon

LEMMA EmptyAdds == Adds(<<>>, {})
<1> DEFINE w == <<>>
<1>1. Len(w) = 0
  OBVIOUS
<1> HIDE DEF w
<1> SUFFICES Adds(w, {})
  BY DEF w
<1> SUFFICES ASSUME NEW t \in Text, NEW p \in Nat, NEW C \in SUBSET Char, NEW v \in BOOLEAN,
                    NEW b \in Int, NEW l \in Char, NEW r \in Char, Has(t, p, w)
             PROVE  \E m, k \in Char : Leads(t, Open(p, C, v, FALSE, b, l, r),
                                                Open(p + Len(w), C \cup {}, v, FALSE, b, m, k))
  BY Zenon DEF Adds
<1>2. p + Len(w) = p /\ C \cup {} = C
  BY <1>1
<1> QED
  BY <1>2, Stays, Zenon

LEMMA HasParts ==
  ASSUME NEW t \in Text, NEW p \in Nat, NEW u \in Text, NEW w \in Text, Has(t, p, u \o w)
  PROVE  Has(t, p, u) /\ Has(t, p + Len(u), w) /\ p + Len(u \o w) = p + Len(u) + Len(w)
<1>1. /\ Len(u \o w) = Len(u) + Len(w) /\ Len(u) \in Nat /\ Len(w) \in Nat
      /\ \A k \in 1..Len(u) : (u \o w)[k] = u[k]
      /\ \A k \in 1..Len(w) : (u \o w)[Len(u) + k] = w[k]
  BY ConcatProperties DEF Text
<1>2. Has(t, p, u)
  BY <1>1 DEF Has
<1>3. ASSUME NEW k \in 1..Len(w)
      PROVE  p + Len(u) + k - 1 <= Len(t) /\ t[p + Len(u) + k - 1] = w[k]
  <2>1. Len(u) + k \in 1..Len(u \o w) /\ p + (Len(u) + k) - 1 = p + Len(u) + k - 1
    BY <1>1
  <2> QED
    BY <1>1, <2>1 DEF Has
<1> QED
  BY <1>1, <1>2, <1>3 DEF Has

LEMMA JoinAdds ==
  ASSUME NEW u \in Text, NEW w \in Text, NEW S \in SUBSET Char, NEW T, Adds(u, S), Adds(w, T)
  PROVE  Adds(u \o w, S \cup T)
<1> SUFFICES ASSUME NEW t \in Text, NEW p \in Nat, NEW C \in SUBSET Char, NEW v \in BOOLEAN,
                    NEW b \in Int, NEW l \in Char, NEW r \in Char, Has(t, p, u \o w)
             PROVE  \E m, k \in Char :
                      Leads(t, Open(p, C, v, FALSE, b, l, r),
                               Open(p + Len(u \o w), C \cup (S \cup T), v, FALSE, b, m, k))
  BY DEF Adds
<1>1. Has(t, p, u) /\ Has(t, p + Len(u), w) /\ p + Len(u \o w) = p + Len(u) + Len(w)
  BY HasParts
<1>2. PICK m, k \in Char : Leads(t, Open(p, C, v, FALSE, b, l, r),
                                     Open(p + Len(u), C \cup S, v, FALSE, b, m, k))
  BY <1>1, Zenon DEF Adds
<1>3. p + Len(u) \in Nat /\ C \cup S \in SUBSET Char
  BY DEF Text
<1>4. PICK n, h \in Char : Leads(t, Open(p + Len(u), C \cup S, v, FALSE, b, m, k),
                                     Open(p + Len(u) + Len(w), C \cup S \cup T, v, FALSE, b, n, h))
  BY ONLY t \in Text, v \in BOOLEAN, b \in Int, m \in Char, k \in Char, Adds(w, T),
          <1>1, <1>3, Zenon DEF Adds
<1>5. Leads(t, Open(p, C, v, FALSE, b, l, r),
               Open(p + Len(u) + Len(w), C \cup S \cup T, v, FALSE, b, n, h))
  BY <1>2, <1>4, Joins, Zenon
<1>6. C \cup S \cup T = C \cup (S \cup T)
  OBVIOUS
<1>7. Leads(t, Open(p, C, v, FALSE, b, l, r),
               Open(p + Len(u \o w), C \cup (S \cup T), v, FALSE, b, n, h))
  BY ONLY <1>1, <1>5, <1>6, Zenon
<1> QED
  BY <1>7

(* \s, \d, \w. *)
LEMMA ClassAdds ==
  ASSUME NEW e \in {s_, d_, w_}
  PROVE  Adds(<<BACKSLASH, e>>, ClassOf(e))
<1> DEFINE w == <<BACKSLASH, e>>
<1> HIDE DEF w
<1> SUFFICES ASSUME NEW t \in Text, NEW p \in Nat, NEW C \in SUBSET Char, NEW v \in BOOLEAN,
                    NEW b \in Int, NEW l \in Char, NEW r \in Char, Has(t, p, w)
             PROVE  \E m, k \in Char :
                      Leads(t, Open(p, C, v, FALSE, b, l, r),
                               Open(p + Len(w), C \cup ClassOf(e), v, FALSE, b, m, k))
  BY DEF Adds, w
<1>1. Len(w) = 2 /\ w[1] = BACKSLASH /\ w[2] = e /\ 1 \in 1..Len(w) /\ 2 \in 1..Len(w)
  BY DEF w
<1>2. p <= Len(t) /\ t[p] = BACKSLASH /\ p + 1 <= Len(t) /\ t[p + 1] = e
  <2>1. p + 1 - 1 = p /\ p + 2 - 1 = p + 1
    OBVIOUS
  <2> QED
    BY <1>1, <2>1 DEF Has
<1>3. Leads(t, Open(p, C, v, FALSE, b, l, r), St(p + 1, C, TRUE, v, FALSE, b, l, r))
  <2>1. FALSE \in BOOLEAN
    OBVIOUS
  <2> QED
    BY <1>2, <2>1, Backslash, Zenon
<1> DEFINE s == St(p + 1, C, TRUE, v, FALSE, b, l, r)
<1>4. s \in State
  BY DEF St, State
<1>5. /\ s.index = p + 1 /\ s.column = C /\ s.escaped = TRUE /\ s.inverting = v
      /\ s.range_set = FALSE /\ s.bracket_sem = b /\ s.last_char = l /\ s.range_start = r
  BY DEF St
<1> HIDE DEF s
<1>6. e \notin {LBRACE, RBRACE} /\ s.escaped
  BY <1>5 DEF s_, d_, w_, LBRACE, RBRACE
<1>7. After(t, s) = AfterEscape(t, s)
  BY <1>2, <1>5, <1>6, AfterIs, Zenon
<1>8. AfterEscape(t, s) = St(p + 1 + 1, C \cup ClassOf(e), FALSE, v, FALSE, b, l, r)
  <2>1. t[s.index] = e /\ e \in {s_, d_, w_}
    BY ONLY <1>2, <1>5, e \in {s_, d_, w_}, Zenon
  <2>2. AfterEscape(t, s) =
          St(s.index + 1, s.column \cup ClassOf(e), FALSE, s.inverting, s.range_set,
             s.bracket_sem, s.last_char, s.range_start)
    BY ONLY <2>1, AfterEscapeIs, Zenon
  <2> QED
    BY ONLY <1>5, <2>2, Zenon
<1>9. Leads(t, s, After(t, s))
  BY <1>2, <1>4, <1>5, Stays, Moves, Zenon
<1>10. p + 1 + 1 = p + Len(w)
  BY <1>1
<1>11. Leads(t, s, Open(p + Len(w), C \cup ClassOf(e), v, FALSE, b, l, r))
  BY ONLY <1>7, <1>8, <1>9, <1>10, Zenon DEF Open
<1>12. Leads(t, Open(p, C, v, FALSE, b, l, r), s)
  BY <1>3 DEF s
<1>13. Leads(t, Open(p, C, v, FALSE, b, l, r),
                Open(p + Len(w), C \cup ClassOf(e), v, FALSE, b, l, r))
  BY <1>11, <1>12, Joins, Zenon
<1> QED
  BY <1>13

(* A range. *)
LEMMA RangeAdds ==
  ASSUME NEW a \in Char, NEW z \in Char, a <= z
  PROVE  Adds(describeChar(a) \o <<DASH>> \o describeChar(z), a..z)
<1> DEFINE u == describeChar(a)
           w == describeChar(z)
<1>0. /\ u \in Text /\ w \in Text /\ Single(u, a) /\ Single(w, z) /\ Len(u) \in Nat
      /\ <<DASH>> \in Text /\ u \o <<DASH>> \in Text /\ Len(<<DASH>>) = 1 /\ <<DASH>>[1] = DASH
      /\ Len(u \o <<DASH>>) = Len(u) + 1
  <2>1. DASH \in Char
    BY DEF DASH, Char
  <2>2. u \in Text /\ w \in Text /\ Single(u, a) /\ Single(w, z)
    BY CharIsDescribed
  <2> HIDE DEF u, w
  <2> QED
    BY <2>1, <2>2 DEF Text
<1> HIDE DEF u, w
<1> DEFINE x == u \o <<DASH>> \o w
<1> SUFFICES ASSUME NEW t \in Text, NEW p \in Nat, NEW C \in SUBSET Char, NEW v \in BOOLEAN,
                    NEW b \in Int, NEW l \in Char, NEW r \in Char, Has(t, p, x)
             PROVE  \E m, k \in Char :
                      Leads(t, Open(p, C, v, FALSE, b, l, r),
                               Open(p + Len(x), C \cup (a..z), v, FALSE, b, m, k))
  BY DEF Adds, u, w
<1> DEFINE p1 == p + Len(u)
           p2 == p + Len(u) + 1
           C1 == C \cup {a}
<1>1. /\ Has(t, p, u) /\ Has(t, p1, <<DASH>>) /\ Has(t, p2, w)
      /\ p + Len(x) = p2 + Len(w)
  <2>1. /\ Has(t, p, u \o <<DASH>>) /\ Has(t, p + Len(u \o <<DASH>>), w)
        /\ p + Len(x) = p + Len(u \o <<DASH>>) + Len(w)
    <3> DEFINE y == u \o <<DASH>>
    <3> HIDE DEF y
    <3>1. y \in Text /\ Has(t, p, y \o w)
      BY <1>0 DEF y
    <3>2. /\ Has(t, p, y) /\ Has(t, p + Len(y), w) /\ p + Len(y \o w) = p + Len(y) + Len(w)
      <4>1. t \in Text /\ p \in Nat /\ w \in Text
        BY <1>0
      <4> QED
        BY ONLY <3>1, <4>1, HasParts
    <3> QED
      BY <3>2 DEF y
  <2>2. Has(t, p, u) /\ Has(t, p1, <<DASH>>)
    BY <1>0, <2>1, HasParts, Zenon
  <2>3. p + Len(u \o <<DASH>>) = p2
    BY <1>0
  <2> QED
    BY <2>1, <2>2, <2>3, Zenon
<1>2. p1 <= Len(t) /\ t[p1] = DASH
  <2>1. 1 \in 1..Len(<<DASH>>) /\ p1 + 1 - 1 = p1
    BY <1>0
  <2> HIDE DEF p1
  <2> QED
    BY <1>0, <1>1, <2>1 DEF Has
<1>3. /\ p1 \in Nat /\ p2 \in Nat /\ C1 \in SUBSET Char /\ p1 + 1 = p2
      /\ TRUE \in BOOLEAN /\ FALSE \in BOOLEAN
  BY <1>0
<1> HIDE DEF x, p1, p2
<1>4. Leads(t, Open(p, C, v, FALSE, b, l, r), Open(p1, C1, v, FALSE, b, a, r))
  <2>1. Leads(t, Open(p, C, v, FALSE, b, l, r),
                 Open(p + Len(u), C \cup {a} \cup (IF FALSE THEN r..a ELSE {}), v, FALSE, b, a, r))
    BY <1>0, <1>1, <1>3, Zenon DEF Single
  <2>2. C \cup {a} \cup (IF FALSE THEN r..a ELSE {}) = C1
    OBVIOUS
  <2> QED
    BY <2>1, <2>2, Zenon DEF p1
<1> HIDE DEF C1
<1> DEFINE s == St(p1, C1, FALSE, v, FALSE, b, a, r)
<1>5. s \in State
  BY <1>3, StIsState
<1>6. /\ s.index = p1 /\ s.column = C1 /\ s.escaped = FALSE /\ s.inverting = v
      /\ s.range_set = FALSE /\ s.bracket_sem = b /\ s.last_char = a /\ s.range_start = r
  BY DEF St
<1> HIDE DEF s
<1>7. DASH \notin {LBRACE, RBRACE} /\ ~s.escaped
  BY <1>6 DEF DASH, LBRACE, RBRACE
<1>8. After(t, s) = AfterPlain(t, s)
  BY <1>2, <1>6, <1>7, AfterIs, Zenon
<1>9. AfterPlain(t, s) = St(p1 + 1, C1, FALSE, v, TRUE, b, a, a)
  BY <1>2, <1>6, AfterPlainIs, Zenon
<1>10. Leads(t, s, After(t, s))
  BY <1>2, <1>5, <1>6, Stays, Moves, Zenon
<1>11. Leads(t, Open(p1, C1, v, FALSE, b, a, r), Open(p2, C1, v, TRUE, b, a, a))
  BY ONLY <1>3, <1>8, <1>9, <1>10, Zenon DEF Open, s
<1>12. Leads(t, Open(p2, C1, v, TRUE, b, a, a),
                Open(p + Len(x), C \cup (a..z), v, FALSE, b, z, a))
  <2>1. Leads(t, Open(p2, C1, v, TRUE, b, a, a),
                 Open(p2 + Len(w), C1 \cup {z} \cup (IF TRUE THEN a..z ELSE {}), v, FALSE, b, z, a))
    BY <1>0, <1>1, <1>3, Zenon DEF Single
  <2>2. C1 \cup {z} \cup (IF TRUE THEN a..z ELSE {}) = C \cup (a..z)
    <3>1. a \in a..z /\ z \in a..z
      BY DEF Char
    <3> QED
      BY <3>1 DEF C1
  <2> QED
    BY ONLY <1>1, <2>1, <2>2, Zenon
<1>13. Leads(t, Open(p, C, v, FALSE, b, l, r),
                Open(p + Len(x), C \cup (a..z), v, FALSE, b, z, a))
  <2>1. Leads(t, Open(p, C, v, FALSE, b, l, r), Open(p2, C1, v, TRUE, b, a, a))
    BY <1>4, <1>11, Joins, Zenon
  <2> QED
    BY <1>12, <2>1, Joins, Zenon
<1> QED
  BY <1>13

-----------------------------------------------------------------------------
(* Pieces in a row.                                                        *)

Flat(pieces, n, f) == [i \in 1..n |-> IF i = 1 THEN pieces[i] ELSE f[i - 1] \o pieces[i]]

LEMMA FlattenIs ==
  ASSUME NEW pieces, Len(pieces) # 0
  PROVE  FlattenSeq(pieces) =
           (CHOOSE f : f = Flat(pieces, Len(pieces), f))[Len(pieces)]
BY DEF FlattenSeq, Flat

LEMMA FlatExists ==
  ASSUME NEW pieces, NEW n \in Nat
  PROVE  \E f : f = Flat(pieces, n, f)
<1> DEFINE S == {m \in Nat : \E f : f = Flat(pieces, m, f)}
<1>1. 0 \in S
  <2> DEFINE f == [i \in 1..0 |-> pieces[i]]
  <2>1. f = Flat(pieces, 0, f)
    <3>1. \A i \in 1..0 : FALSE
      OBVIOUS
    <3> QED
      BY <3>1 DEF Flat
  <2> HIDE DEF f
  <2> QED
    BY <2>1
<1>2. ASSUME NEW m \in Nat, m \in S
      PROVE  m + 1 \in S
  <2>1. PICK f : f = Flat(pieces, m, f)
    BY <1>2
  <2>2. \A i \in 1..m : f[i] = IF i = 1 THEN pieces[i] ELSE f[i - 1] \o pieces[i]
    BY <2>1 DEF Flat
  <2> DEFINE last == IF m + 1 = 1 THEN pieces[m + 1] ELSE f[m] \o pieces[m + 1]
             h == [i \in 1..(m + 1) |-> IF i = m + 1 THEN last ELSE f[i]]
  <2>3. ASSUME NEW i \in 1..(m + 1)
        PROVE  h[i] = IF i = 1 THEN pieces[i] ELSE h[i - 1] \o pieces[i]
    <3>1. CASE i = m + 1
      <4>1. CASE m = 0
        BY <3>1, <4>1
      <4>2. CASE m # 0
        <5>1. m \in 1..(m + 1) /\ m # m + 1 /\ m + 1 # 1 /\ m + 1 - 1 = m
          BY <4>2
        <5>2. h[m] = f[m]
          BY <5>1
        <5>3. h[i] = f[m] \o pieces[i]
          BY <3>1, <5>1
        <5>4. i # 1 /\ i - 1 = m
          BY <3>1, <5>1
        <5> HIDE DEF h
        <5> QED
          BY ONLY <5>2, <5>3, <5>4, Zenon
      <4> QED
        BY <4>1, <4>2
    <3>2. CASE i # m + 1
      <4>1. i \in 1..m /\ (i # 1 => i - 1 \in 1..(m + 1) /\ i - 1 # m + 1)
        BY <3>2
      <4>2. h[i] = f[i] /\ (i # 1 => h[i - 1] = f[i - 1])
        BY <3>2, <4>1
      <4>3. f[i] = IF i = 1 THEN pieces[i] ELSE f[i - 1] \o pieces[i]
        BY <2>2, <4>1
      <4> HIDE DEF h
      <4> QED
        BY <4>2, <4>3
    <3> QED
      BY <3>1, <3>2
  <2>4. h = [i \in 1..(m + 1) |-> h[i]]
    OBVIOUS
  <2> HIDE DEF h
  <2>5. h = Flat(pieces, m + 1, h)
    BY <2>3, <2>4 DEF Flat
  <2> QED
    BY <2>5
<1> HIDE DEF S
<1>3. Nat \subseteq S
  BY <1>1, <1>2, SetInduction
<1> QED
  BY <1>3 DEF S

LEMMA FlattenAdds ==
  ASSUME NEW n \in Nat, NEW pieces \in [1..n -> Text], NEW A \in [1..n -> SUBSET Char],
         \A k \in 1..n : Adds(pieces[k], A[k])
  PROVE  /\ FlattenSeq(pieces) \in Text
         /\ Adds(FlattenSeq(pieces), UNION {A[k] : k \in 1..n})
<1>0. pieces \in Seq(Text) /\ Len(pieces) = n
  BY SeqIs
<1>1. CASE n = 0
  <2>1. FlattenSeq(pieces) = <<>>
    <3>1. pieces = <<>>
      BY <1>0, <1>1
    <3> QED
      BY <3>1 DEF FlattenSeq
  <2>2. UNION {A[k] : k \in 1..n} = {}
    BY <1>1
  <2>3. <<>> \in Text
    BY DEF Text
  <2> QED
    BY <2>1, <2>2, <2>3, EmptyAdds, Zenon
<1>2. CASE n # 0
  <2> DEFINE f == CHOOSE g : g = Flat(pieces, n, g)
             U(m) == UNION {A[k] : k \in 1..m}
             Good(m) == f[m] \in Text /\ Adds(f[m], U(m))
             S == {m \in Nat : m + 1 <= n => Good(m + 1)}
  <2>1. f = Flat(pieces, n, f)
    BY FlatExists
  <2>2. FlattenSeq(pieces) = f[n]
    BY <1>0, <1>2, FlattenIs
  <2> HIDE DEF f
  <2>3. \A i \in 1..n : f[i] = IF i = 1 THEN pieces[i] ELSE f[i - 1] \o pieces[i]
    BY <2>1 DEF Flat
  <2>4. 0 \in S
    <3>1. 1 \in 1..n /\ U(1) = A[1]
      BY <1>2
    <3>2. f[1] = pieces[1] /\ pieces[1] \in Text /\ Adds(pieces[1], A[1])
      BY <2>3, <3>1
    <3> HIDE DEF U
    <3> QED
      BY <3>1, <3>2
  <2>5. ASSUME NEW m \in Nat, m \in S
        PROVE  m + 1 \in S
    <3> SUFFICES ASSUME m + 1 + 1 <= n
                 PROVE  Good(m + 1 + 1)
      OBVIOUS
    <3> DEFINE k == m + 1
    <3>1. k \in 1..n /\ k + 1 \in 1..n /\ k + 1 # 1 /\ k + 1 - 1 = k
      OBVIOUS
    <3>2. Good(k)
      <4>1. m + 1 <= n
        OBVIOUS
      <4> HIDE DEF Good
      <4> QED
        BY <2>5, <4>1
    <3> HIDE DEF k
    <3>3. f[k + 1] = f[k] \o pieces[k + 1]
      <4> DEFINE j == k + 1
      <4>1. j \in 1..n /\ j # 1 /\ j - 1 = k
        BY <3>1
      <4> HIDE DEF j
      <4>2. f[j] = IF j = 1 THEN pieces[j] ELSE f[j - 1] \o pieces[j]
        BY <2>3, <4>1
      <4>3. f[j] = f[k] \o pieces[j]
        BY ONLY <4>1, <4>2, Zenon
      <4> QED
        BY <4>3 DEF j
    <3>4. /\ pieces[k + 1] \in Text /\ A[k + 1] \in SUBSET Char /\ Adds(pieces[k + 1], A[k + 1])
          /\ U(k) \in SUBSET Char
      BY <3>1
    <3>5. U(k + 1) = U(k) \cup A[k + 1]
      <4>1. 1..(k + 1) = (1..k) \cup {k + 1}
        BY <3>1
      <4> QED
        BY <4>1
    <3>6. f[k + 1] \in Text
      BY <3>2, <3>3, <3>4, ConcatProperties DEF Text
    <3> HIDE DEF U
    <3>7. Adds(f[k] \o pieces[k + 1], U(k) \cup A[k + 1])
      BY <3>2, <3>4, JoinAdds
    <3>8. Good(k + 1)
      BY <3>3, <3>5, <3>6, <3>7, Zenon
    <3> QED
      BY <3>8 DEF k
  <2> HIDE DEF S
  <2>6. Nat \subseteq S
    BY <2>4, <2>5, SetInduction
  <2>7. Good(n)
    <3>1. n - 1 \in Nat /\ (n - 1) + 1 = n
      BY <1>2
    <3> HIDE DEF Good
    <3>2. n - 1 \in S
      BY <2>6, <3>1
    <3> QED
      BY <3>1, <3>2 DEF S
  <2> QED
    BY <2>2, <2>7
<1> QED
  BY <1>1, <1>2

(* A run of consecutive characters, from the first to the last.             *)
LEMMA RangeIsDescribed ==
  ASSUME NEW a \in Char, NEW z \in Char, a <= z
  PROVE  /\ describeRange(a, z) \in Text
         /\ Adds(describeRange(a, z), a..z)
<1>1. CASE z - a < 4
  <2> DEFINE n == z - a + 1
             pieces == [k \in 1..n |-> describeChar(a + k - 1)]
             A == [k \in 1..n |-> {a + k - 1}]
  <2>1. n \in Nat /\ \A k \in 1..n : a + k - 1 \in Char
    BY DEF Char
  <2>2. \A k \in 1..n : describeChar(a + k - 1) \in Text /\ Adds(describeChar(a + k - 1), {a + k - 1})
    BY <2>1, CharIsDescribed, SingleAdds
  <2>3. pieces \in [1..n -> Text] /\ A \in [1..n -> SUBSET Char]
    BY <2>1, <2>2
  <2>4. \A k \in 1..n : pieces[k] = describeChar(a + k - 1) /\ A[k] = {a + k - 1}
    OBVIOUS
  <2>5. UNION {A[k] : k \in 1..n} = a..z
    <3>1. ASSUME NEW x \in a..z
          PROVE  x \in UNION {A[k] : k \in 1..n}
      <4>1. x - a + 1 \in 1..n /\ x = a + (x - a + 1) - 1
        BY DEF Char
      <4> HIDE DEF n, A
      <4> QED
        BY <2>4, <4>1
    <3>2. ASSUME NEW k \in 1..n
          PROVE  a + k - 1 \in a..z
      BY DEF Char
    <3> QED
      BY <2>4, <3>1, <3>2
  <2>6. describeRange(a, z) = FlattenSeq(pieces)
    BY <1>1 DEF describeRange
  <2> HIDE DEF n, pieces, A
  <2>7. \A k \in 1..n : Adds(pieces[k], A[k])
    BY <2>2, <2>4, Zenon
  <2>8. FlattenSeq(pieces) \in Text /\ Adds(FlattenSeq(pieces), UNION {A[k] : k \in 1..n})
    BY <2>1, <2>3, <2>7, FlattenAdds, Zenon
  <2> QED
    BY <2>5, <2>6, <2>8, Zenon
<1>2. CASE ~(z - a < 4)
  <2>1. describeRange(a, z) = describeChar(a) \o <<DASH>> \o describeChar(z)
    BY <1>2 DEF describeRange
  <2>2. describeChar(a) \in Text /\ describeChar(z) \in Text /\ <<DASH>> \in Text
    <3>1. DASH \in Char
      BY DEF DASH, Char
    <3> QED
      BY <3>1, CharIsDescribed DEF Text
  <2>3. describeChar(a) \o <<DASH>> \o describeChar(z) \in Text
    BY <2>2, ConcatProperties DEF Text
  <2> QED
    BY <2>1, <2>3, RangeAdds
<1> QED
  BY <1>1, <1>2

-----------------------------------------------------------------------------
(* The runs of a class.                                                    *)

LEMMA RunEnds ==
  ASSUME NEW cr \in SUBSET Char, NEW a \in cr
  PROVE  /\ RunEnd(cr, a) \in cr /\ RunEnd(cr, a) >= a /\ a..RunEnd(cr, a) \subseteq cr
         /\ RunEnd(cr, a) + 1 \notin cr
<1> DEFINE T == {x \in Nat : x > a /\ x \notin cr}
<1>1. a \in Nat /\ 256 \in T
  BY DEF Char
<1>2. PICK m \in T : \A y \in T : m <= y
  BY <1>1, LeastExists
<1>3. m \in Nat /\ m > a /\ m \notin cr
  BY <1>2
<1>4. \A y \in Nat : y > a /\ y < m => y \in cr
  <2> SUFFICES ASSUME NEW y \in Nat, y > a, y < m, y \notin cr
               PROVE  FALSE
    OBVIOUS
  <2>1. y \in T
    OBVIOUS
  <2> QED
    BY <1>2, <1>3, <2>1
<1> HIDE DEF T
<1> DEFINE e == m - 1
<1>5. e \in Nat /\ e >= a /\ e + 1 = m
  BY <1>1, <1>3
<1>6. \A y \in a..e : y \in cr
  <2> SUFFICES ASSUME NEW y \in a..e
               PROVE  y \in cr
    OBVIOUS
  <2>1. y \in Nat /\ (y = a \/ y > a) /\ y < m
    BY <1>1, <1>3
  <2> QED
    BY <1>4, <2>1
<1>7. e \in cr /\ e >= a /\ a..e \subseteq cr /\ e + 1 \notin cr
  <2>1. e \in a..e
    BY <1>1, <1>5
  <2> HIDE DEF e
  <2> QED
    BY <1>3, <1>5, <1>6, <2>1
<1> HIDE DEF e
<1> QED
  BY <1>7 DEF RunEnd

LEMMA RunStarts ==
  ASSUME NEW cr \in SUBSET Char, NEW x \in cr
  PROVE  \E a \in cr : a - 1 \notin cr /\ a..x \subseteq cr /\ a <= x
<1> DEFINE T == {y \in Nat : y <= x /\ y..x \subseteq cr}
<1>1. x \in T
  BY DEF Char
<1>2. PICK a \in T : \A y \in T : a <= y
  <2>1. T \in SUBSET Nat /\ T # {}
    BY <1>1
  <2> HIDE DEF T
  <2> QED
    BY <2>1, LeastExists
<1>3. a \in cr
  <2>1. a \in a..x
    BY <1>2 DEF Char
  <2> QED
    BY <1>2, <2>1
<1>4. a - 1 \notin cr
  <2> SUFFICES ASSUME a - 1 \in cr
               PROVE  FALSE
    OBVIOUS
  <2>1. a - 1 \in Nat /\ a - 1 <= x /\ x \in Nat
    BY <1>2 DEF Char
  <2>2. \A y \in (a - 1)..x : y = a - 1 \/ y \in a..x
    BY <1>2, <2>1
  <2>3. (a - 1)..x \subseteq cr
    BY <1>2, <2>2
  <2>4. a - 1 \in T
    BY <2>1, <2>3
  <2> QED
    BY <1>2, <2>1, <2>4
<1> QED
  BY <1>2, <1>3, <1>4

LEMMA CharIsFinite == IsFiniteSet(Char) /\ Cardinality(Char) = 256
<1>1. PICK n \in Int : n = 255
  OBVIOUS
<1>2. 0 \in Int /\ ~(0 > n) /\ n - 0 + 1 = 256
  BY <1>1
<1>3. IsFiniteSet(0..n) /\ Cardinality(0..n) = IF 0 > n THEN 0 ELSE n - 0 + 1
  BY ONLY n \in Int, <1>2, FS_Interval, Zenon
<1>4. Cardinality(0..n) = 256
  BY ONLY <1>2, <1>3
<1> QED
  BY ONLY <1>1, <1>3, <1>4, Zenon DEF Char

Firsts(cr) == {a \in cr : a - 1 \notin cr}
Nth(cr, k) == CHOOSE a \in Firsts(cr) : Rank(Firsts(cr), a) = k - 1

LEMMA RunsAre ==
  ASSUME NEW cr \in SUBSET Char
  PROVE  \E n \in Nat :
           /\ Runs(cr) \in [1..n -> [first : Char, last : Char]]
           /\ \A k \in 1..n : Runs(cr)[k].first <= Runs(cr)[k].last
           /\ UNION {Runs(cr)[k].first..Runs(cr)[k].last : k \in 1..n} = cr
<1> DEFINE F == Firsts(cr)
           n == Cardinality(F)
           run(k) == [first |-> Nth(cr, k), last |-> RunEnd(cr, Nth(cr, k))]
<1>1. F \in SUBSET Int /\ F \subseteq cr /\ IsFiniteSet(F)
  <2>1. F \subseteq 0..255
    BY DEF Firsts, Char
  <2>2. IsFiniteSet(0..255)
    BY CharIsFinite DEF Char
  <2>3. IsFiniteSet(F)
    BY <2>1, <2>2, FS_Subset
  <2>4. F \subseteq cr
    BY DEF Firsts
  <2> QED
    BY <2>1, <2>3, <2>4
<1>2. Runs(cr) = [k \in 1..n |-> run(k)]
  BY DEF Runs, Firsts, Nth, Rank
<1> HIDE DEF F
<1>3. /\ n \in Nat
      /\ \A a \in F : Rank(F, a) \in 0..(n - 1)
      /\ \A j, a \in F : Rank(F, j) = Rank(F, a) => j = a
      /\ \A r \in 0..(n - 1) : \E a \in F : Rank(F, a) = r
  BY <1>1, FiniteRanks
<1> HIDE DEF n
<1>4. ASSUME NEW k \in 1..n
      PROVE  Nth(cr, k) \in F /\ Rank(F, Nth(cr, k)) = k - 1
  <2>1. k - 1 \in 0..(n - 1)
    BY <1>3
  <2>2. \E a \in F : Rank(F, a) = k - 1
    BY <1>3, <2>1
  <2> QED
    BY <2>2 DEF Nth, F
<1>5. ASSUME NEW k \in 1..n
      PROVE  /\ run(k) \in [first : Char, last : Char] /\ run(k).first <= run(k).last
             /\ run(k).first..run(k).last \subseteq cr
  <2> DEFINE a == Nth(cr, k)
             e == RunEnd(cr, a)
  <2>1. a \in cr
    BY <1>1, <1>4
  <2>2. e \in cr /\ e >= a /\ a..e \subseteq cr
    BY <2>1, RunEnds
  <2>3. run(k).first = a /\ run(k).last = e
    OBVIOUS
  <2>4. run(k) \in [first : cr, last : cr]
    BY <2>1, <2>2
  <2> HIDE DEF run, a, e
  <2> QED
    BY <2>1, <2>2, <2>3, <2>4 DEF Char
<1>6. ASSUME NEW x \in cr
      PROVE  \E k \in 1..n : x \in run(k).first..run(k).last
  <2>1. PICK a \in cr : a - 1 \notin cr /\ a..x \subseteq cr /\ a <= x
    BY RunStarts
  <2>2. a \in F
    BY <2>1 DEF F, Firsts
  <2> DEFINE k == Rank(F, a) + 1
  <2>3. k \in 1..n /\ k - 1 = Rank(F, a)
    <3>1. Rank(F, a) \in 0..(n - 1)
      BY <1>3, <2>2
    <3> QED
      BY <1>3, <3>1
  <2> HIDE DEF k
  <2>4. Nth(cr, k) = a
    BY <1>3, <1>4, <2>2, <2>3
  <2> DEFINE e == RunEnd(cr, a)
  <2>5. e \in cr /\ e >= a /\ e + 1 \notin cr
    BY RunEnds
  <2>6. run(k).first = a /\ run(k).last = e
    BY <2>4
  <2> HIDE DEF run, e
  <2>7. a \in Int /\ x \in Int /\ e \in Int
    BY <2>5 DEF Char
  <2>8. x <= e
    <3> SUFFICES ASSUME x > e
                 PROVE  FALSE
      BY <2>7
    <3>1. e + 1 \in a..x
      BY <2>5, <2>7
    <3> QED
      BY <2>1, <2>5, <3>1
  <2>9. x \in a..e
    BY <2>1, <2>7, <2>8
  <2> QED
    BY <2>3, <2>6, <2>9
<1> HIDE DEF run
<1>7. Runs(cr) \in [1..n -> [first : Char, last : Char]] /\ \A k \in 1..n : Runs(cr)[k] = run(k)
  BY <1>2, <1>5
<1>8. UNION {Runs(cr)[k].first..Runs(cr)[k].last : k \in 1..n} = cr
  BY <1>5, <1>6, <1>7
<1> QED
  BY <1>3, <1>5, <1>7, <1>8

(* A row of runs. *)
LEMMA RunsAreDescribed ==
  ASSUME NEW cr \in SUBSET Char
  PROVE  LET runs == Runs(cr)
             text == FlattenSeq([k \in DOMAIN runs |-> describeRange(runs[k].first, runs[k].last)])
         IN text \in Text /\ Adds(text, cr)
<1> DEFINE runs == Runs(cr)
           range(k) == describeRange(runs[k].first, runs[k].last)
<1>1. PICK n \in Nat :
        /\ runs \in [1..n -> [first : Char, last : Char]]
        /\ \A k \in 1..n : runs[k].first <= runs[k].last
        /\ UNION {runs[k].first..runs[k].last : k \in 1..n} = cr
  BY RunsAre
<1> HIDE DEF runs
<1> DEFINE pieces == [k \in 1..n |-> range(k)]
           A == [k \in 1..n |-> runs[k].first..runs[k].last]
<1>2. DOMAIN runs = 1..n /\ \A k \in 1..n : runs[k].first \in Char /\ runs[k].last \in Char
  BY <1>1
<1>3. \A k \in 1..n : range(k) \in Text /\ Adds(range(k), runs[k].first..runs[k].last)
  BY <1>1, <1>2, RangeIsDescribed
<1>4. \A k \in 1..n : runs[k].first..runs[k].last \in SUBSET Char
  BY <1>1
<1> HIDE DEF range
<1>5. pieces \in [1..n -> Text] /\ A \in [1..n -> SUBSET Char]
  BY <1>3, <1>4
<1>6. \A k \in 1..n : pieces[k] = range(k) /\ A[k] = runs[k].first..runs[k].last
  OBVIOUS
<1> HIDE DEF A
<1>7. UNION {A[k] : k \in 1..n} = cr
  <2>1. {A[k] : k \in 1..n} = {runs[k].first..runs[k].last : k \in 1..n}
    BY <1>6
  <2> QED
    BY <1>1, <2>1, Zenon
<1> HIDE DEF pieces
<1>8. \A k \in 1..n : Adds(pieces[k], A[k])
  BY <1>3, <1>6, Zenon
<1>9. FlattenSeq(pieces) \in Text /\ Adds(FlattenSeq(pieces), UNION {A[k] : k \in 1..n})
  BY <1>5, <1>8, FlattenAdds, Zenon
<1> QED
  BY <1>2, <1>7, <1>9, Zenon DEF pieces, range, runs

-----------------------------------------------------------------------------
(* The classes with a letter.                                              *)

MnemonicOf(cr) == {m \in [letter : {w_, d_, s_}, set : SUBSET Char] :
                     m.set = ClassOf(m.letter) /\ m.set \subseteq cr}

LEMMA MnemonicsAre ==
  ASSUME NEW cr \in SUBSET Char
  PROVE  Mnemonics(cr) \in Seq(MnemonicOf(cr))
<1> DEFINE w == [letter |-> w_, set |-> Words]
           d == [letter |-> d_, set |-> Digits]
           s == [letter |-> s_, set |-> Whitespace]
           M == MnemonicOf(cr)
<1>1. /\ ClassOf(w_) = Words /\ ClassOf(d_) = Digits /\ ClassOf(s_) = Whitespace
      /\ Words \in SUBSET Char /\ Digits \in SUBSET Char /\ Whitespace \in SUBSET Char
  BY DEF ClassOf, Words, Digits, Whitespace, Char, w_, d_, s_
<1>2. /\ w.letter = w_ /\ w.set = Words /\ d.letter = d_ /\ d.set = Digits
      /\ s.letter = s_ /\ s.set = Whitespace
      /\ w \in [letter : {w_, d_, s_}, set : SUBSET Char]
      /\ d \in [letter : {w_, d_, s_}, set : SUBSET Char]
      /\ s \in [letter : {w_, d_, s_}, set : SUBSET Char]
  BY <1>1
<1>3. Mnemonics(cr) =
        (IF Words \subseteq cr THEN IF Words \subseteq cr THEN <<w>> ELSE <<>>
         ELSE IF Digits \subseteq cr THEN <<d>> ELSE <<>>)
          \o (IF Whitespace \subseteq cr THEN <<s>> ELSE <<>>)
  BY Zenon DEF Mnemonics
<1> HIDE DEF w, d, s
<1>4. /\ Words \subseteq cr => w \in M
      /\ Digits \subseteq cr => d \in M
      /\ Whitespace \subseteq cr => s \in M
  BY <1>1, <1>2 DEF MnemonicOf
<1> HIDE DEF M
<1>5. (IF Words \subseteq cr THEN IF Words \subseteq cr THEN <<w>> ELSE <<>>
       ELSE IF Digits \subseteq cr THEN <<d>> ELSE <<>>) \in Seq(M)
  BY <1>4
<1>6. (IF Whitespace \subseteq cr THEN <<s>> ELSE <<>>) \in Seq(M)
  BY <1>4
<1>7. Mnemonics(cr) \in Seq(M)
  BY <1>3, <1>5, <1>6, ConcatProperties
<1> QED
  BY <1>7 DEF M

LEMMA MnemonicsAreDescribed ==
  ASSUME NEW cr \in SUBSET Char
  PROVE  LET ms   == Mnemonics(cr)
             text == FlattenSeq([k \in DOMAIN ms |-> <<BACKSLASH, ms[k].letter>>])
             set  == UNION {ms[k].set : k \in DOMAIN ms}
         IN text \in Text /\ Adds(text, set) /\ set \subseteq cr
<1> DEFINE ms == Mnemonics(cr)
           n == Len(ms)
           pieces == [k \in 1..n |-> <<BACKSLASH, ms[k].letter>>]
           A == [k \in 1..n |-> ms[k].set]
<1>1. ms \in Seq(MnemonicOf(cr)) /\ n \in Nat /\ DOMAIN ms = 1..n
  <2>1. ms \in Seq(MnemonicOf(cr))
    BY MnemonicsAre
  <2> HIDE DEF ms
  <2> QED
    BY <2>1
<1>2. \A k \in 1..n : ms[k] \in MnemonicOf(cr)
  <2> HIDE DEF ms
  <2> QED
    BY <1>1
<1> HIDE DEF ms
<1>3. \A k \in 1..n : /\ ms[k].letter \in {w_, d_, s_} /\ ms[k].set = ClassOf(ms[k].letter)
                      /\ ms[k].set \in SUBSET Char /\ ms[k].set \subseteq cr
  BY <1>2 DEF MnemonicOf
<1>4. \A k \in 1..n : <<BACKSLASH, ms[k].letter>> \in Text
  <2>1. BACKSLASH \in Char /\ {w_, d_, s_} \subseteq Char
    BY DEF BACKSLASH, w_, d_, s_, Char
  <2>2. \A k \in 1..n : ms[k].letter \in Char
    BY <1>3, <2>1
  <2> QED
    BY <2>1, <2>2 DEF Text
<1>5. \A k \in 1..n : Adds(<<BACKSLASH, ms[k].letter>>, ms[k].set)
  <2> TAKE k \in 1..n
  <2>1. ms[k].letter \in {s_, d_, w_} /\ ms[k].set = ClassOf(ms[k].letter)
    BY <1>3
  <2> QED
    BY <2>1, ClassAdds, Zenon
<1>6. pieces \in [1..n -> Text] /\ A \in [1..n -> SUBSET Char]
  BY <1>3, <1>4
<1>7. \A k \in 1..n : Adds(pieces[k], A[k])
  BY <1>5, Zenon
<1>8. {A[k] : k \in 1..n} = {ms[k].set : k \in 1..n}
  OBVIOUS
<1>9. UNION {ms[k].set : k \in 1..n} \subseteq cr
  BY <1>3
<1> HIDE DEF A, pieces, n
<1>10. FlattenSeq(pieces) \in Text /\ Adds(FlattenSeq(pieces), UNION {A[k] : k \in 1..n})
  BY <1>1, <1>6, <1>7, FlattenAdds, Zenon
<1> QED
  BY <1>1, <1>8, <1>9, <1>10, Zenon DEF pieces, ms

(* What describeClassInt writes adds the class it is given. *)
LEMMA ClassIsDescribed ==
  ASSUME NEW cr \in SUBSET Char
  PROVE  describeClassInt(cr).text \in Text /\ Adds(describeClassInt(cr).text, cr)
<1> DEFINE ms == Mnemonics(cr)
           set == UNION {ms[k].set : k \in DOMAIN ms}
           runs == Runs(cr \ set)
           text1 == FlattenSeq([k \in DOMAIN ms |-> <<BACKSLASH, ms[k].letter>>])
           text2 == FlattenSeq([k \in DOMAIN runs |-> describeRange(runs[k].first, runs[k].last)])
<1>1. CASE Len(Runs(cr)) = 1
  <2>1. PICK n \in Nat :
          /\ Runs(cr) \in [1..n -> [first : Char, last : Char]]
          /\ \A k \in 1..n : Runs(cr)[k].first <= Runs(cr)[k].last
          /\ UNION {Runs(cr)[k].first..Runs(cr)[k].last : k \in 1..n} = cr
    BY RunsAre
  <2> DEFINE R == Runs(cr)
             a == R[1].first
             z == R[1].last
  <2> HIDE DEF R
  <2>2. n = 1
    BY <1>1, <2>1, SeqIs DEF R
  <2>3. R \in [1..1 -> [first : Char, last : Char]] /\ 1 \in 1..1 /\ \A k \in 1..1 : k = 1
    BY <2>1, <2>2 DEF R
  <2>4. a \in Char /\ z \in Char /\ a <= z
    <3>1. R[1] \in [first : Char, last : Char]
      BY <2>3
    <3> QED
      BY <2>1, <2>2, <2>3, <3>1 DEF R
  <2>5. a..z = cr
    <3>1. UNION {R[k].first..R[k].last : k \in 1..1} = cr
      BY <2>1, <2>2 DEF R
    <3> QED
      BY <2>3, <3>1
  <2>6. describeClassInt(cr).text = describeRange(a, z)
    BY <1>1 DEF describeClassInt, R
  <2> HIDE DEF a, z
  <2> QED
    BY <2>4, <2>5, <2>6, RangeIsDescribed
<1>2. CASE Len(Runs(cr)) # 1
  <2>1. describeClassInt(cr).text = text1 \o text2
    BY <1>2 DEF describeClassInt
  <2>2. text1 \in Text /\ Adds(text1, set) /\ set \subseteq cr
    BY MnemonicsAreDescribed
  <2>3. text2 \in Text /\ Adds(text2, cr \ set)
    <3>1. cr \ set \in SUBSET Char
      OBVIOUS
    <3> HIDE DEF set
    <3> QED
      BY <3>1, RunsAreDescribed
  <2> HIDE DEF text1, text2, set
  <2>4. set \cup (cr \ set) = cr /\ set \in SUBSET Char
    BY <2>2
  <2>5. Adds(text1 \o text2, set \cup (cr \ set))
    BY <2>2, <2>3, <2>4, JoinAdds, Zenon
  <2>6. text1 \o text2 \in Text
    BY <2>2, <2>3, ConcatProperties DEF Text
  <2> QED
    BY <2>1, <2>4, <2>5, <2>6, Zenon
<1> QED
  BY <1>1, <1>2

(* A text without a character that has a meaning of its own. *)
LEMMA PlainWord ==
  ASSUME NEW w \in Text,
         \A i \in 1..Len(w) : w[i] \notin {LBRACKET, RBRACKET, BACKSLASH, DASH, CARET}
  PROVE  Adds(w, {w[i] : i \in 1..Len(w)})
<1> DEFINE n == Len(w)
           P(m) == SubSeq(w, 1, m)
           U(m) == {w[i] : i \in 1..m}
           Good(m) == P(m) \in Text /\ Adds(P(m), U(m))
           S == {m \in Nat : m <= n => Good(m)}
<1>0. n \in Nat /\ \A i \in 1..n : w[i] \in Char
  BY DEF Text
<1>1. \A m \in Nat : m <= n => /\ P(m) \in Text /\ Len(P(m)) = m
                               /\ \A i \in 1..m : P(m)[i] = w[i]
  <2> TAKE m \in Nat
  <2> HAVE m <= n
  <2>1. 1 \in 1..(n + 1) /\ m \in 0..n /\ m \in 1 - 1..n /\ m - 1 + 1 = m
    BY <1>0
  <2> QED
    BY <1>0, <2>1, SubSeqProperties DEF Text
<1> HIDE DEF P
<1>2. 0 \in S
  <2>1. 0 <= n
    BY <1>0
  <2>2. P(0) \in Text /\ Len(P(0)) = 0
    BY <1>1, <2>1
  <2>3. P(0) = <<>>
    BY <2>2 DEF Text
  <2>4. U(0) = {}
    OBVIOUS
  <2>5. Good(0)
    BY <2>2, <2>3, <2>4, EmptyAdds, Zenon
  <2> HIDE DEF Good
  <2> QED
    BY <2>5
<1>3. ASSUME NEW m \in Nat, m \in S
      PROVE  m + 1 \in S
  <2> SUFFICES ASSUME m + 1 <= n
               PROVE  Good(m + 1)
    OBVIOUS
  <2>1. m <= n /\ m + 1 \in Nat /\ m + 1 \in 1..n
    BY <1>0
  <2>2. Good(m)
    <3> HIDE DEF Good
    <3> QED
      BY <1>3, <2>1
  <2> DEFINE ch == w[m + 1]
  <2>3. ch \in Char /\ ch \notin {LBRACKET, RBRACKET, BACKSLASH, DASH, CARET}
    BY <1>0, <2>1
  <2>4. /\ P(m) \in Text /\ Len(P(m)) = m /\ \A i \in 1..m : P(m)[i] = w[i]
        /\ P(m + 1) \in Text /\ Len(P(m + 1)) = m + 1 /\ \A i \in 1..(m + 1) : P(m + 1)[i] = w[i]
    BY <1>1, <2>1
  <2>5. P(m + 1) = P(m) \o <<ch>>
    <3> HIDE DEF ch
    <3>1. Append(P(m), ch) = P(m) \o <<ch>>
      BY <2>3, <2>4, AppendIsConcat DEF Text
    <3>2. /\ Append(P(m), ch) \in Text /\ Len(Append(P(m), ch)) = m + 1
          /\ \A i \in 1..m : Append(P(m), ch)[i] = P(m)[i]
          /\ Append(P(m), ch)[m + 1] = ch
      BY <2>3, <2>4, AppendProperties DEF Text
    <3>3. \A i \in 1..(m + 1) : Append(P(m), ch)[i] = P(m + 1)[i]
      <4>1. \A i \in 1..(m + 1) : i = m + 1 \/ i \in 1..m
        OBVIOUS
      <4> QED
        BY <2>4, <3>2, <4>1 DEF ch
    <3>4. P(m + 1) = Append(P(m), ch)
      BY <2>4, <3>2, <3>3, SeqEqual DEF Text
    <3> QED
      BY <3>1, <3>4
  <2>6. U(m + 1) = U(m) \cup {ch} /\ U(m) \in SUBSET Char
    <3>1. 1..(m + 1) = (1..m) \cup {m + 1} /\ 1..m \subseteq 1..n
      BY <2>1
    <3> QED
      BY <1>0, <3>1
  <2> HIDE DEF U, ch
  <2>7. Adds(<<ch>>, {ch}) /\ <<ch>> \in Text
    BY <2>3, PlainChar, SingleAdds DEF Text
  <2>8. Adds(P(m) \o <<ch>>, U(m) \cup {ch})
    BY <2>2, <2>6, <2>7, JoinAdds, Zenon
  <2> QED
    BY <2>4, <2>5, <2>6, <2>8, Zenon
<1> HIDE DEF S
<1>4. Nat \subseteq S
  BY <1>2, <1>3, SetInduction
<1>5. Good(n)
  <2> HIDE DEF Good
  <2> QED
    BY <1>0, <1>4 DEF S
<1>6. P(n) = w
  BY <1>0, <1>1, SeqEqual DEF Text
<1> QED
  BY <1>5, <1>6, Zenon

(* Without brackets only a class with a letter is written as one piece. *)
LEMMA BareIsMnemonic ==
  ASSUME NEW cr \in SUBSET Char, cr # {}, ~(describeClassInt(cr).count > 1)
  PROVE  \E e \in {w_, d_, s_} : describeClassInt(cr).text = <<BACKSLASH, e>>
<1> DEFINE ms == Mnemonics(cr)
           set == UNION {ms[k].set : k \in DOMAIN ms}
           runs == Runs(cr \ set)
           pieces1 == [k \in DOMAIN ms |-> <<BACKSLASH, ms[k].letter>>]
           pieces2 == [k \in DOMAIN runs |-> describeRange(runs[k].first, runs[k].last)]
<1>1. Len(Runs(cr)) # 1
  <2> SUFFICES ASSUME Len(Runs(cr)) = 1
               PROVE  FALSE
    OBVIOUS
  <2>1. describeClassInt(cr).count = 2
    BY DEF describeClassInt
  <2> QED
    BY <2>1
<1>2. /\ describeClassInt(cr).count = Len(ms) + Len(runs)
      /\ describeClassInt(cr).text = FlattenSeq(pieces1) \o FlattenSeq(pieces2)
  BY <1>1 DEF describeClassInt
<1>3. ms \in Seq(MnemonicOf(cr))
  BY MnemonicsAre
<1>4. \E n \in Nat : runs \in [1..n -> [first : Char, last : Char]] /\ Len(runs) = n
  <2> HIDE DEF set
  <2>1. PICK n \in Nat : runs \in [1..n -> [first : Char, last : Char]]
    BY RunsAre
  <2> QED
    BY <2>1, SeqIs
<1> HIDE DEF ms, runs
<1>5. Len(ms) \in Nat /\ DOMAIN ms = 1..Len(ms)
  BY <1>3
<1>6. Len(ms) # 0
  <2> SUFFICES ASSUME Len(ms) = 0
               PROVE  FALSE
    OBVIOUS
  <2>1. set = {}
    BY <1>5
  <2>2. runs = Runs(cr)
    BY <2>1 DEF runs
  <2>3. Len(Runs(cr)) = 0
    BY <1>1, <1>2, <1>4, <1>5, <2>2
  <2>4. PICK n \in Nat :
          /\ Runs(cr) \in [1..n -> [first : Char, last : Char]]
          /\ UNION {Runs(cr)[k].first..Runs(cr)[k].last : k \in 1..n} = cr
    BY RunsAre
  <2>5. n = 0
    BY <2>3, <2>4, SeqIs
  <2> QED
    BY <2>4, <2>5
<1>7. Len(ms) = 1 /\ Len(runs) = 0
  BY <1>2, <1>4, <1>5, <1>6
<1>8. FlattenSeq(pieces2) = <<>>
  <2>1. DOMAIN runs = {}
    BY <1>4, <1>7
  <2>2. pieces2 = <<>>
    BY <2>1
  <2> HIDE DEF pieces2
  <2> QED
    BY <2>2 DEF FlattenSeq
<1>9. ms[1] \in MnemonicOf(cr)
  BY <1>3, <1>7
<1>10. ms[1].letter \in {w_, d_, s_}
  BY <1>9 DEF MnemonicOf
<1>11. FlattenSeq(pieces1) = <<BACKSLASH, ms[1].letter>>
  <2>1. DOMAIN ms = 1..1
    BY <1>5, <1>7
  <2>2. pieces1 \in [1..1 -> {<<BACKSLASH, ms[1].letter>>}] /\ pieces1[1] = <<BACKSLASH, ms[1].letter>>
    BY <2>1
  <2> HIDE DEF pieces1
  <2>3. Len(pieces1) = 1
    BY <2>2, SeqIs
  <2> DEFINE f == CHOOSE g : g = Flat(pieces1, Len(pieces1), g)
  <2>4. f = Flat(pieces1, Len(pieces1), f)
    BY <2>3, FlatExists
  <2>5. FlattenSeq(pieces1) = f[Len(pieces1)]
    <3>1. Len(pieces1) # 0
      BY <2>3
    <3> QED
      BY <3>1, FlattenIs, Zenon
  <2> HIDE DEF f
  <2>6. f[1] = pieces1[1]
    BY <2>3, <2>4 DEF Flat
  <2> QED
    BY <2>2, <2>3, <2>5, <2>6, Zenon
<1> HIDE DEF pieces1, pieces2
<1>12. <<BACKSLASH, ms[1].letter>> \o <<>> = <<BACKSLASH, ms[1].letter>>
  <2>1. <<BACKSLASH, ms[1].letter>> \in Seq({BACKSLASH, ms[1].letter})
    OBVIOUS
  <2> QED
    BY <2>1, ConcatEmptySeq
<1> QED
  BY <1>2, <1>8, <1>10, <1>11, <1>12, Zenon

-----------------------------------------------------------------------------
(* A text as a whole.                                                      *)

First == Open(1, {}, FALSE, FALSE, 0, 0, 0)

(* The loop goes through the text t and then has the reach S. *)
Reads(t, S) ==
  \E C \in SUBSET Char, v \in BOOLEAN, m, k \in Char :
    /\ Leads(t, First, Open(Len(t) + 1, C, v, FALSE, 0, m, k))
    /\ S = IF v THEN Char \ C ELSE C

(* The brackets and the caret. *)
LEMMA FlagLeads ==
  ASSUME NEW t \in Text, NEW p \in Nat, NEW C \in SUBSET Char, NEW v \in BOOLEAN, NEW b \in Int,
         NEW l \in Char, NEW r \in Char, p <= Len(t), NEW b2, NEW v2,
         \/ t[p] = LBRACKET /\ b2 = b + 1 /\ v2 = v
         \/ t[p] = RBRACKET /\ b2 = b - 1 /\ v2 = v
         \/ t[p] = CARET /\ b2 = b /\ v2 = TRUE
  PROVE  Leads(t, Open(p, C, v, FALSE, b, l, r), Open(p + 1, C, v2, FALSE, b2, l, r))
<1> DEFINE s == St(p, C, FALSE, v, FALSE, b, l, r)
<1>1. s \in State
  BY DEF St, State
<1>2. /\ s.index = p /\ s.column = C /\ s.escaped = FALSE /\ s.inverting = v
      /\ s.range_set = FALSE /\ s.bracket_sem = b /\ s.last_char = l /\ s.range_start = r
  BY DEF St
<1> HIDE DEF s
<1>3. t[p] \notin {LBRACE, RBRACE} /\ RBRACKET # LBRACKET
  BY DEF LBRACKET, RBRACKET, CARET, LBRACE, RBRACE
<1>4. After(t, s) = AfterPlain(t, s)
  <2>1. ~s.escaped
    BY <1>2
  <2> QED
    BY <1>2, <1>3, <2>1, AfterIs, Zenon
<1>5. AfterPlain(t, s) = St(p + 1, C, FALSE, v2, FALSE, b2, l, r)
  <2>1. CASE t[p] = LBRACKET /\ b2 = b + 1 /\ v2 = v
    <3>1. t[p] = t[s.index] /\ t[p] \in {LBRACKET, RBRACKET}
      BY <1>2, <2>1
    <3>2. AfterPlain(t, s) =
            St(s.index + 1, s.column, FALSE, s.inverting, s.range_set,
               IF t[p] = LBRACKET THEN s.bracket_sem + 1 ELSE s.bracket_sem - 1,
               s.last_char, s.range_start)
      BY ONLY <3>1, AfterPlainIs, Zenon
    <3> QED
      BY ONLY <1>2, <2>1, <3>2, Zenon
  <2>2. CASE t[p] = RBRACKET /\ b2 = b - 1 /\ v2 = v
    <3>1. t[p] # LBRACKET
      BY <1>3, <2>2
    <3>2. (IF t[p] = LBRACKET THEN b + 1 ELSE b - 1) = b2
      BY <2>2, <3>1
    <3>3. AfterPlain(t, s) =
            St(p + 1, C, FALSE, v, FALSE, IF t[p] = LBRACKET THEN b + 1 ELSE b - 1, l, r)
      <4>1. t[p] = t[s.index] /\ t[p] \in {LBRACKET, RBRACKET}
        BY <1>2, <2>2
      <4>2. AfterPlain(t, s) =
              St(s.index + 1, s.column, FALSE, s.inverting, s.range_set,
                 IF t[p] = LBRACKET THEN s.bracket_sem + 1 ELSE s.bracket_sem - 1,
                 s.last_char, s.range_start)
        BY ONLY <4>1, AfterPlainIs, Zenon
      <4> QED
        BY ONLY <1>2, <4>2, Zenon
    <3> QED
      BY <2>2, <3>2, <3>3, Zenon
  <2>3. CASE t[p] = CARET /\ b2 = b /\ v2 = TRUE
    <3>1. CARET = t[s.index]
      BY ONLY <1>2, <2>3, Zenon
    <3>2. AfterPlain(t, s) =
            St(s.index + 1, s.column, FALSE, TRUE, s.range_set, s.bracket_sem,
               s.last_char, s.range_start)
      BY ONLY <3>1, AfterPlainIs, Zenon
    <3> QED
      BY ONLY <1>2, <2>3, <3>2, Zenon
  <2> QED
    BY <2>1, <2>2, <2>3
<1>6. Leads(t, s, After(t, s))
  BY <1>1, <1>2, Stays, Moves, Zenon
<1> QED
  BY ONLY <1>4, <1>5, <1>6, Zenon DEF Open, s

LEMMA TextChars == \A t \in Text : \A i \in 1..Len(t) : t[i] \in Char
BY DEF Text

LEMMA HasAll == \A t \in Text : Has(t, 1, t)
BY DEF Has, Text

LEMMA BareReads ==
  ASSUME NEW t \in Text, NEW S \in SUBSET Char, Adds(t, S)
  PROVE  Reads(t, S)
<1>1. 0 \in Char /\ 1 \in Nat /\ {} \in SUBSET Char /\ 0 \in Int /\ FALSE \in BOOLEAN /\ {} \cup S = S
      /\ 1 + Len(t) = Len(t) + 1
  BY DEF Char, Text
<1>2. PICK m, k \in Char : Leads(t, First, Open(1 + Len(t), {} \cup S, FALSE, FALSE, 0, m, k))
  BY <1>1, HasAll, Zenon DEF Adds, First
<1>3. Leads(t, First, Open(Len(t) + 1, S, FALSE, FALSE, 0, m, k))
  BY ONLY <1>1, <1>2, Zenon
<1>4. S = IF FALSE THEN Char \ S ELSE S
  OBVIOUS
<1> QED
  BY <1>1, <1>3, <1>4, Zenon DEF Reads

(* Between brackets, behind a caret if it is the negation. *)
LEMMA BracketsRead ==
  ASSUME NEW w \in Text, NEW S \in SUBSET Char, Adds(w, S),
         NEW v \in BOOLEAN, NEW open \in Text,
         \/ v = FALSE /\ open = <<LBRACKET>>
         \/ v = TRUE /\ open = <<LBRACKET, CARET>>
  PROVE  LET t == open \o w \o <<RBRACKET>>
         IN /\ Reads(t, IF v THEN Char \ S ELSE S)
            /\ t \in Text /\ t # <<>> /\ t[1] = LBRACKET
<1> DEFINE t == open \o w \o <<RBRACKET>>
           n == Len(open)
           q == 1 + n + Len(w)
<1>1. <<RBRACKET>> \in Text /\ Len(<<RBRACKET>>) = 1 /\ <<RBRACKET>>[1] = RBRACKET
  BY DEF Text, RBRACKET, Char
<1>2. n \in Nat /\ Len(w) \in Nat /\ n \in 1..2 /\ open[1] = LBRACKET /\ (v => n = 2 /\ open[2] = CARET)
      /\ (~v => n = 1)
  BY DEF Text
<1> DEFINE x == open \o w
<1>3. x \in Text /\ t \in Text
  BY <1>1, ConcatProperties DEF Text
<1>4. t = x \o <<RBRACKET>>
  OBVIOUS
<1> HIDE DEF t, x
<1>5. Has(t, 1, x \o <<RBRACKET>>)
  BY <1>3, <1>4, HasAll
<1>6. /\ Has(t, 1, x) /\ Has(t, 1 + Len(x), <<RBRACKET>>)
      /\ 1 + Len(t) = 1 + Len(x) + 1
  BY <1>1, <1>3, <1>4, <1>5, HasParts
<1>7. Has(t, 1, open) /\ Has(t, 1 + n, w) /\ 1 + Len(x) = q
  BY <1>3, <1>6, HasParts DEF x
<1>8. q \in Nat /\ 1 + n \in Nat /\ Len(t) + 1 = q + 1 /\ q <= Len(t) /\ Len(t) \in Nat
  BY <1>2, <1>3, <1>6, <1>7 DEF Text
<1>9. t[q] = RBRACKET
  <2>1. 1 \in 1..Len(<<RBRACKET>>) /\ q + 1 - 1 = q /\ Has(t, q, <<RBRACKET>>)
    BY <1>1, <1>6, <1>7, <1>8
  <2> HIDE DEF q
  <2> QED
    BY <1>1, <2>1 DEF Has
<1>10. t[1] = LBRACKET /\ 1 <= Len(t) /\ (v => t[2] = CARET /\ 2 <= Len(t))
  <2>1. \A k \in 1..Len(open) : 1 + k - 1 <= Len(t) /\ t[1 + k - 1] = open[k]
    BY <1>7 DEF Has
  <2>2. 1 \in 1..Len(open) /\ 1 + 1 - 1 = 1 /\ (v => 2 \in 1..Len(open)) /\ 1 + 2 - 1 = 2
    BY <1>2
  <2>3. 1 <= Len(t) /\ t[1] = open[1]
    BY <2>1, <2>2
  <2>4. v => 2 <= Len(t) /\ t[2] = open[2]
    BY <2>1, <2>2
  <2> QED
    BY <1>2, <2>3, <2>4
<1> HIDE DEF n, q
<1>11. /\ 0 \in Char /\ 1 \in Nat /\ 2 \in Nat /\ {} \in SUBSET Char /\ 0 \in Int /\ 1 \in Int
       /\ FALSE \in BOOLEAN /\ 0 + 1 = 1 /\ 1 + 1 = 2 /\ 1 - 1 = 0 /\ {} \cup S = S
  BY DEF Char
<1>12. Leads(t, First, Open(2, {}, FALSE, FALSE, 1, 0, 0))
  <2>1. Leads(t, Open(1, {}, FALSE, FALSE, 0, 0, 0), Open(1 + 1, {}, FALSE, FALSE, 0 + 1, 0, 0))
    BY <1>3, <1>10, <1>11, FlagLeads, Zenon
  <2> QED
    BY ONLY <1>11, <2>1, Zenon DEF First
<1>13. Leads(t, First, Open(1 + n, {}, v, FALSE, 1, 0, 0))
  <2>1. CASE v = TRUE
    <3>1. Leads(t, Open(2, {}, FALSE, FALSE, 1, 0, 0), Open(2 + 1, {}, TRUE, FALSE, 1, 0, 0))
      BY <1>3, <1>10, <1>11, <2>1, FlagLeads, Zenon
    <3>2. Leads(t, First, Open(2 + 1, {}, TRUE, FALSE, 1, 0, 0))
      BY <1>12, <3>1, Joins, Zenon
    <3>3. 2 + 1 = 1 + n
      BY <1>2, <2>1
    <3> QED
      BY ONLY <2>1, <3>2, <3>3, Zenon
  <2>2. CASE v = FALSE
    <3>1. 2 = 1 + n
      BY <1>2, <2>2
    <3> QED
      BY ONLY <1>12, <2>2, <3>1, Zenon
  <2> QED
    BY <2>1, <2>2
<1>14. PICK m, k \in Char : Leads(t, Open(1 + n, {}, v, FALSE, 1, 0, 0),
                                      Open(1 + n + Len(w), {} \cup S, v, FALSE, 1, m, k))
  <2> DEFINE pos  == 1 + n
             none == {}
             one  == 1
             zero == 0
  <2>1. /\ pos \in Nat /\ Has(t, pos, w) /\ t \in Text
        /\ none \in SUBSET Char /\ one \in Int /\ zero \in Char
    BY <1>3, <1>7, <1>8, <1>11
  <2> HIDE DEF pos, none, one, zero
  <2>2. \E m, k \in Char : Leads(t, Open(pos, none, v, FALSE, one, zero, zero),
                                   Open(pos + Len(w), none \cup S, v, FALSE, one, m, k))
    BY ONLY v \in BOOLEAN, Adds(w, S), <2>1, Zenon DEF Adds
  <2> QED
    BY ONLY <2>2, Zenon DEF pos, none, one, zero
<1>15. Leads(t, First, Open(q, S, v, FALSE, 1, m, k))
  <2>1. Leads(t, Open(1 + n, {}, v, FALSE, 1, 0, 0), Open(q, S, v, FALSE, 1, m, k))
    BY ONLY <1>11, <1>14, Zenon DEF q
  <2> QED
    BY <1>13, <2>1, Joins, Zenon
<1>16. Leads(t, First, Open(Len(t) + 1, S, v, FALSE, 0, m, k))
  <2>1. Leads(t, Open(q, S, v, FALSE, 1, m, k), Open(q + 1, S, v, FALSE, 1 - 1, m, k))
    BY <1>3, <1>8, <1>9, <1>11, FlagLeads, Zenon
  <2>2. Leads(t, First, Open(q + 1, S, v, FALSE, 1 - 1, m, k))
    BY <1>15, <2>1, Joins, Zenon
  <2> QED
    BY ONLY <1>8, <1>11, <2>2, Zenon
<1>17. Reads(t, IF v THEN Char \ S ELSE S)
  BY <1>16, Zenon DEF Reads
<1>18. t # <<>>
  BY <1>10
<1> QED
  BY <1>3, <1>10, <1>17, <1>18 DEF t

-----------------------------------------------------------------------------
(* What describeClass writes.                                              *)

LEMMA BracketedReads ==
  ASSUME NEW w \in Text, NEW S \in SUBSET Char, Adds(w, S)
  PROVE  /\ Reads(Bracketed(w), S)
         /\ Bracketed(w) \in Text /\ Bracketed(w) # <<>> /\ Bracketed(w)[1] = LBRACKET
<1>1. <<LBRACKET>> \in Text
  BY DEF LBRACKET, Text, Char
<1>2. LET t == <<LBRACKET>> \o w \o <<RBRACKET>>
      IN /\ Reads(t, IF FALSE THEN Char \ S ELSE S)
         /\ t \in Text /\ t # <<>> /\ t[1] = LBRACKET
  BY <1>1, BracketsRead, Zenon
<1> QED
  BY <1>2, Zenon DEF Bracketed

LEMMA NegatedReads ==
  ASSUME NEW w \in Text, NEW S \in SUBSET Char, Adds(w, S)
  PROVE  /\ Reads(Negated(w), Char \ S)
         /\ Negated(w) \in Text /\ Negated(w) # <<>> /\ Negated(w)[1] = LBRACKET
<1>1. <<LBRACKET, CARET>> \in Text
  BY DEF LBRACKET, CARET, Text, Char
<1>2. LET t == <<LBRACKET, CARET>> \o w \o <<RBRACKET>>
      IN /\ Reads(t, IF TRUE THEN Char \ S ELSE S)
         /\ t \in Text /\ t # <<>> /\ t[1] = LBRACKET
  BY <1>1, BracketsRead, Zenon
<1> QED
  BY <1>2, Zenon DEF Negated

LEMMA ClassSizes ==
  ASSUME NEW k \in SUBSET Char
  PROVE  /\ Cardinality(k) \in Nat
         /\ Cardinality(k) = 0 <=> k = {}
         /\ Cardinality(k) = 1 => \E x \in Char : k = {x}
         /\ Cardinality(Char \ k) = 256 - Cardinality(k)
<1>1. IsFiniteSet(Char) /\ Cardinality(Char) = 256
  BY CharIsFinite
<1>2. IsFiniteSet(k) /\ Cardinality(k) \in Nat
  BY <1>1, FS_Subset, FS_CardinalityType
<1>3. Cardinality(k) = 0 <=> k = {}
  BY <1>2, FS_EmptySet
<1>4. Cardinality(k) = 1 => \E x \in Char : k = {x}
  <2>1. Cardinality(k) = 1 => \E x : k = {x}
    BY <1>2, FS_Singleton, Zenon
  <2> QED
    BY <2>1
<1>5. Cardinality(Char \ k) = Cardinality(Char) - Cardinality(Char \cap k)
  BY <1>1, FS_Difference, Zenon
<1>6. Char \cap k = k
  OBVIOUS
<1>7. Cardinality(Char \ k) = Cardinality(Char) - Cardinality(k)
  BY ONLY <1>5, <1>6, Zenon
<1> QED
  BY <1>1, <1>2, <1>3, <1>4, <1>7

(* A text with which the loop is entered, or which is a star. *)
Entered(t) == /\ t \in Text /\ t # <<>> /\ t # <<DOT>>
              /\ ~(t[1] = LBRACE /\ t[Len(t)] = RBRACE)

LEMMA BracketsEnter ==
  ASSUME NEW t \in Text, t # <<>>, t[1] = LBRACKET
  PROVE  Entered(t) /\ t # <<STAR>>
<1>1. LBRACKET # DOT /\ LBRACKET # STAR /\ LBRACKET # LBRACE
  BY DEF LBRACKET, DOT, STAR, LBRACE
<1>2. <<DOT>>[1] = DOT /\ <<STAR>>[1] = STAR
  OBVIOUS
<1> QED
  BY <1>1, <1>2 DEF Entered

(* Every class is written as a text that reads as the class, but for three.  *)
LEMMA PrintedReads ==
  ASSUME NEW k \in SUBSET Char
  PROVE  /\ Entered(describeClass(k))
         /\ describeClass(k) = <<STAR>> => k = {STAR}
         /\ \E S \in SUBSET Char : Reads(describeClass(k), S) /\ (k \in {Char, {}} \/ S = k)
<1> DEFINE neg  == Char \ k
           out  == describeClassInt(k)
           nout == describeClassInt(neg)
           t == describeClass(k)
<1>1. /\ neg \in SUBSET Char /\ Cardinality(k) \in Nat /\ (Cardinality(k) = 0 <=> k = {})
      /\ Cardinality(neg) = 256 - Cardinality(k) /\ (Cardinality(neg) = 0 <=> neg = {})
      /\ (Cardinality(k) = 1 => \E x \in Char : k = {x})
      /\ (Cardinality(neg) = 1 => \E x \in Char : neg = {x})
      /\ Char \ neg = k
  <2>1. /\ Cardinality(k) \in Nat /\ (Cardinality(k) = 0 <=> k = {})
        /\ (Cardinality(k) = 1 => \E x \in Char : k = {x})
        /\ Cardinality(neg) = 256 - Cardinality(k)
    BY ClassSizes, Zenon
  <2>2. neg \in SUBSET Char /\ Char \ neg = k
    OBVIOUS
  <2> HIDE DEF neg
  <2>3. /\ (Cardinality(neg) = 0 <=> neg = {})
        /\ (Cardinality(neg) = 1 => \E x \in Char : neg = {x})
    BY <2>2, ClassSizes, Zenon
  <2> QED
    BY <2>1, <2>2, <2>3, Zenon
<1>2. CASE neg = {}
  <2>1. k # {} /\ Cardinality(k) # 1 /\ Cardinality(neg) # 1
    BY <1>1, <1>2
  <2>2. t = ANY
    BY <1>2, <2>1 DEF describeClass
  <2> HIDE DEF t
  <2>3. ANY \in Text /\ Len(ANY) = 5 /\ ANY[1] = LESS
    BY DEF ANY, LESS, GREATER, n_, Text, Char
  <2>4. ASSUME NEW i \in 1..Len(ANY)
        PROVE  ANY[i] \notin {LBRACKET, RBRACKET, BACKSLASH, DASH, CARET}
    <3>1. i = 1 \/ i = 2 \/ i = 3 \/ i = 4 \/ i = 5
      BY <2>3
    <3> QED
      BY <3>1 DEF ANY, LESS, GREATER, n_, LBRACKET, RBRACKET, BACKSLASH, DASH, CARET
  <2> DEFINE S == {ANY[i] : i \in 1..Len(ANY)}
  <2>5. S \in SUBSET Char
    <3>1. \A i \in 1..Len(ANY) : ANY[i] \in Char
      BY <2>3, TextChars, Zenon
    <3> QED
      BY <3>1
  <2>6. Reads(ANY, S)
    BY <2>3, <2>4, <2>5, PlainWord, BareReads
  <2>7. Entered(ANY) /\ ANY # <<STAR>>
    <3>1. Len(<<DOT>>) = 1 /\ Len(<<STAR>>) = 1 /\ Len(<<>>) = 0 /\ LESS # LBRACE
      BY DEF LESS, LBRACE
    <3>2. ANY # <<>> /\ ANY # <<DOT>> /\ ANY # <<STAR>>
      <4>1. Len(ANY) # 0 /\ Len(ANY) # 1
        BY ONLY <2>3
      <4> QED
        BY ONLY <3>1, <4>1, Zenon
    <3> QED
      BY ONLY <2>3, <3>1, <3>2 DEF Entered
  <2>8. k = Char
    BY <1>2
  <2> HIDE DEF S
  <2> QED
    BY <2>2, <2>5, <2>6, <2>7, <2>8 DEF t
<1>3. CASE k = {}
  <2>1. neg # {} /\ Cardinality(k) # 1 /\ Cardinality(neg) # 1
    BY <1>1, <1>3
  <2>2. t = EMPTY
    BY <1>3, <2>1 DEF describeClass
  <2> HIDE DEF t
  <2>3. EMPTY \in Text /\ Len(EMPTY) = 7 /\ EMPTY[1] = LESS
    BY DEF EMPTY, LESS, GREATER, t_, Text, Char
  <2>4. ASSUME NEW i \in 1..Len(EMPTY)
        PROVE  EMPTY[i] \notin {LBRACKET, RBRACKET, BACKSLASH, DASH, CARET}
    <3>1. i = 1 \/ i = 2 \/ i = 3 \/ i = 4 \/ i = 5 \/ i = 6 \/ i = 7
      BY <2>3
    <3> QED
      BY <3>1 DEF EMPTY, LESS, GREATER, t_, LBRACKET, RBRACKET, BACKSLASH, DASH, CARET
  <2> DEFINE S == {EMPTY[i] : i \in 1..Len(EMPTY)}
  <2>5. S \in SUBSET Char
    <3>1. \A i \in 1..Len(EMPTY) : EMPTY[i] \in Char
      BY <2>3, TextChars, Zenon
    <3> QED
      BY <3>1
  <2>6. Reads(EMPTY, S)
    BY <2>3, <2>4, <2>5, PlainWord, BareReads
  <2>7. Entered(EMPTY) /\ EMPTY # <<STAR>>
    <3>1. Len(<<DOT>>) = 1 /\ Len(<<STAR>>) = 1 /\ Len(<<>>) = 0 /\ LESS # LBRACE
      BY DEF LESS, LBRACE
    <3>2. EMPTY # <<>> /\ EMPTY # <<DOT>> /\ EMPTY # <<STAR>>
      <4>1. Len(EMPTY) # 0 /\ Len(EMPTY) # 1
        BY ONLY <2>3
      <4> QED
        BY ONLY <3>1, <4>1, Zenon
    <3> QED
      BY ONLY <2>3, <3>1, <3>2 DEF Entered
  <2> HIDE DEF S
  <2> QED
    BY <1>3, <2>2, <2>5, <2>6, <2>7 DEF t
<1>4. CASE Cardinality(k) = 1
  <2>1. neg # {} /\ k # {} /\ Cardinality(neg) # 1
    BY <1>1, <1>4
  <2>2. PICK x \in Char : k = {x}
    BY <1>1, <1>4
  <2>3. (CHOOSE y \in k : TRUE) = x
    BY <2>2
  <2>4. t = describeChar(CHOOSE y \in k : TRUE)
    BY <1>4, <2>1 DEF describeClass
  <2>5. t = describeChar(x)
    BY <2>3, <2>4, Zenon
  <2> HIDE DEF t
  <2>6. /\ Single(t, x) /\ t \in Text /\ t # <<>> /\ t # <<DOT>> /\ (t = <<STAR>> => x = STAR)
        /\ (t[1] = LBRACE => Len(t) = 1)
    BY <2>5, CharIsDescribed, Zenon
  <2>7. Reads(t, k)
    BY <2>2, <2>6, SingleAdds, BareReads
  <2>8. Entered(t)
    <3>1. LBRACE # RBRACE
      BY DEF LBRACE, RBRACE
    <3> QED
      BY <2>6, <3>1 DEF Entered
  <2> QED
    BY <2>2, <2>6, <2>7, <2>8 DEF t
<1>5. CASE Cardinality(neg) = 1
  <2>1. neg # {} /\ k # {} /\ Cardinality(k) # 1
    BY <1>1, <1>5
  <2>2. PICK x \in Char : neg = {x}
    BY <1>1, <1>5
  <2>3. (CHOOSE y \in neg : TRUE) = x
    BY <2>2
  <2>4. t = Negated(describeChar(CHOOSE y \in neg : TRUE))
    BY <1>5, <2>1 DEF describeClass
  <2>5. t = Negated(describeChar(x))
    BY <2>3, <2>4, Zenon
  <2> HIDE DEF t
  <2> DEFINE w == describeChar(x)
  <2>6. w \in Text /\ Adds(w, {x})
    BY CharIsDescribed, SingleAdds
  <2> HIDE DEF w, neg
  <2>7. t = Negated(w) /\ neg \in SUBSET Char
    BY <1>1, <2>5 DEF w
  <2>8. Adds(w, neg)
    BY <2>2, <2>6, Zenon
  <2>9. Reads(t, Char \ neg) /\ t \in Text /\ t # <<>> /\ t[1] = LBRACKET
    BY <2>6, <2>7, <2>8, NegatedReads, Zenon
  <2>10. Char \ neg = k /\ Entered(t) /\ t # <<STAR>>
    BY <1>1, <2>9, BracketsEnter, Zenon
  <2> QED
    BY <2>9, <2>10, Zenon DEF t
<1>6. CASE neg # {} /\ k # {} /\ Cardinality(k) # 1 /\ Cardinality(neg) # 1
  <2>1. t = IF Len(out.text) > Len(nout.text) THEN Negated(nout.text)
            ELSE IF out.count > 1 THEN Bracketed(out.text) ELSE out.text
    BY <1>6 DEF describeClass
  <2>2. /\ out.text \in Text /\ Adds(out.text, k)
        /\ nout.text \in Text /\ Adds(nout.text, neg)
    BY <1>1, ClassIsDescribed
  <2> HIDE DEF t, neg
  <2>3. CASE t = Negated(nout.text)
    <3>1. Reads(t, Char \ neg) /\ t \in Text /\ t # <<>> /\ t[1] = LBRACKET
      BY <1>1, <2>2, <2>3, NegatedReads, Zenon
    <3>2. Char \ neg = k /\ Entered(t) /\ t # <<STAR>>
      BY <1>1, <3>1, BracketsEnter, Zenon
    <3> QED
      BY <3>1, <3>2, Zenon DEF t
  <2>4. CASE t = Bracketed(out.text)
    <3>1. Reads(t, k) /\ t \in Text /\ t # <<>> /\ t[1] = LBRACKET
      BY <2>2, <2>4, BracketedReads, Zenon
    <3>2. Entered(t) /\ t # <<STAR>>
      BY <3>1, BracketsEnter, Zenon
    <3> QED
      BY <3>1, <3>2, Zenon DEF t
  <2>5. CASE t = out.text /\ ~(out.count > 1)
    <3>1. PICK e \in {w_, d_, s_} : out.text = <<BACKSLASH, e>>
      BY <1>6, <2>5, BareIsMnemonic
    <3>2. t \in Text /\ t = <<BACKSLASH, e>> /\ BACKSLASH # LBRACE
      BY <2>2, <2>5, <3>1 DEF BACKSLASH, LBRACE
    <3>3. Entered(t) /\ t # <<STAR>>
      BY <3>2 DEF Entered
    <3>4. Reads(t, k)
      BY <2>2, <2>5, BareReads
    <3> QED
      BY <3>3, <3>4 DEF t
  <2> QED
    BY <2>1, <2>3, <2>4, <2>5
<1> QED
  BY <1>2, <1>3, <1>4, <1>5, <1>6

-----------------------------------------------------------------------------
(* The inputs are what pcre2mnrl prints for any classes whatsoever.        *)

OnlyPrinted ==
  Inputs \subseteq {[text |-> describeClass(k), set |-> k, ok |-> TRUE] : k \in SUBSET Char}

LEMMA InputIs ==
  ASSUME OnlyPrinted, input \in Inputs
  PROVE  /\ symbol_set = describeClass(input.set) /\ input.set \in SUBSET Char /\ input.ok = TRUE
         /\ symbol_set \in Text /\ Len(symbol_set) \in Nat /\ Len(symbol_set) # 0
<1>1. PICK k \in SUBSET Char : input = [text |-> describeClass(k), set |-> k, ok |-> TRUE]
  BY DEF OnlyPrinted
<1>2. symbol_set = describeClass(k) /\ input.set = k /\ input.ok = TRUE
  BY <1>1 DEF symbol_set
<1>3. symbol_set \in Text /\ symbol_set # <<>>
  <2>1. describeClass(k) \in Text /\ describeClass(k) # <<>>
    BY PrintedReads DEF Entered
  <2> QED
    BY <1>2, <2>1, Zenon
<1>4. Len(symbol_set) \in Nat /\ Len(symbol_set) # 0
  BY <1>3 DEF Text
<1> QED
  BY <1>2, <1>3, <1>4

(* The rest of the text leads to the end of the loop, with the class as its  *)
(* reach.                                                                    *)
Reading ==
  \E C \in SUBSET Char, v \in BOOLEAN, m, k \in Char :
    /\ Leads(symbol_set, Now, Open(Len(symbol_set) + 1, C, v, FALSE, 0, m, k))
    /\ input.set \in {Char, {}} \/ input.set = IF v THEN Char \ C ELSE C

IInv ==
  /\ TypeOK
  /\ pc = "start" => Now = First
  /\ pc = "parse" => Reading
  /\ pc = "done" => /\ ~escaped /\ ~range_set /\ bracket_sem = 0
                    /\ input.set \notin Misprinted => column = input.set
  /\ pc # "exited"

LEMMA InitInv ==
  ASSUME OnlyPrinted, Init
  PROVE  IInv
<1>1. TypeOK
  <2>1. Len(symbol_set) \in Nat
    BY InputIs DEF Init
  <2>2. input \in Inputs /\ pc = "start" /\ index \in 1..(Len(symbol_set) + 1) /\ column \subseteq Char
    BY <2>1 DEF Init
  <2>3. {escaped, inverting, range_set} \subseteq BOOLEAN
    BY DEF Init
  <2>4. bracket_sem \in Int /\ last_char \in Char /\ range_start \in Char
    BY DEF Init, Char
  <2> QED
    BY <2>2, <2>3, <2>4 DEF TypeOK
<1>2. Now = First
  BY Zenon DEF Init, Now, First, Open
<1> QED
  BY <1>1, <1>2 DEF IInv, Init

LEMMA StartInv ==
  ASSUME OnlyPrinted, IInv, Start
  PROVE  IInv'
<1> DEFINE t == symbol_set
<1>1. /\ pc = "start" /\ Now = First /\ UNCHANGED <<input, index, flags>> /\ TypeOK /\ input \in Inputs
  BY DEF Start, IInv, TypeOK
<1>2. /\ t = describeClass(input.set) /\ input.set \in SUBSET Char /\ t \in Text
      /\ Len(t) \in Nat /\ Len(t) # 0
  BY <1>1, InputIs
<1>3. /\ Entered(t) /\ (t = <<STAR>> => input.set = {STAR})
      /\ \E S \in SUBSET Char : Reads(t, S) /\ (input.set \in {Char, {}} \/ S = input.set)
  BY <1>2, PrintedReads, Zenon
<1>4. t # <<DOT>> /\ ~Curly
  BY <1>3 DEF Entered, Curly
<1>5. CASE t = <<STAR>> /\ pc' = "done" /\ column' = Char
  <2>1. First = Now /\ escaped = FALSE /\ range_set = FALSE /\ bracket_sem = 0
    BY <1>1 DEF First, Now, Open, St
  <2>2. ~escaped' /\ ~range_set' /\ bracket_sem' = 0
    BY <1>1, <2>1 DEF flags
  <2>3. input'.set \in Misprinted
    BY <1>1, <1>3, <1>5 DEF Misprinted
  <2>4. TypeOK'
    BY <1>1, <1>5 DEF TypeOK, flags, symbol_set
  <2> QED
    BY <1>5, <2>2, <2>3, <2>4 DEF IInv
<1>6. CASE pc' = "parse" /\ UNCHANGED column
  <2>1. Now' = First
    BY <1>1, <1>6 DEF Now, flags
  <2>2. Reading'
    <3>1. PICK S \in SUBSET Char : Reads(t, S) /\ (input.set \in {Char, {}} \/ S = input.set)
      BY <1>3
    <3>2. PICK C \in SUBSET Char, v \in BOOLEAN, m \in Char, k \in Char :
            /\ Leads(t, First, Open(Len(t) + 1, C, v, FALSE, 0, m, k))
            /\ S = IF v THEN Char \ C ELSE C
      BY <3>1 DEF Reads
    <3>3. t' = t /\ input' = input
      BY <1>1 DEF symbol_set
    <3>4. Leads(t', Now', Open(Len(t') + 1, C, v, FALSE, 0, m, k))
      BY <2>1, <3>2, <3>3, Zenon
    <3>5. input'.set \in {Char, {}} \/ input'.set = IF v THEN Char \ C ELSE C
      BY <3>1, <3>2, <3>3, Zenon
    <3> QED
      BY <3>4, <3>5, Zenon DEF Reading
  <2>3. TypeOK'
    BY <1>1, <1>6 DEF TypeOK, flags, symbol_set
  <2> QED
    BY <1>6, <2>2, <2>3 DEF IInv
<1> QED
  BY <1>4, <1>5, <1>6 DEF Start

LEMMA ParseInv ==
  ASSUME OnlyPrinted, IInv, ParseStep
  PROVE  IInv'
<1> DEFINE t == symbol_set
<1>1. TypeOK /\ input \in Inputs /\ escaped \in BOOLEAN /\ index \in 1..(Len(t) + 1)
  BY DEF IInv, TypeOK
<1>2. /\ pc = "parse" /\ index <= Len(t) /\ UNCHANGED <<pc, input>>
      /\ index' = index + 1 \/ index' = index + 3
      /\ Now' = After(t, Now)
  BY <1>1, ParseStepIs
<1>3. t \in Text /\ Len(t) \in Nat /\ t' = t
  BY <1>1, <1>2, InputIs DEF symbol_set
<1>4. PICK C \in SUBSET Char, v \in BOOLEAN, m \in Char, k \in Char :
        /\ Leads(t, Now, Open(Len(t) + 1, C, v, FALSE, 0, m, k))
        /\ input.set \in {Char, {}} \/ input.set = IF v THEN Char \ C ELSE C
  BY <1>2 DEF IInv, Reading
<1> DEFINE f == Open(Len(t) + 1, C, v, FALSE, 0, m, k)
<1>5. f \in State /\ f.index = Len(t) + 1
  BY <1>3 DEF Open, St, State
<1>6. Now # f
  <2>1. Now.index = index
    BY NowIs
  <2>2. index \in Nat /\ index <= Len(t)
    BY <1>1, <1>2, <1>3
  <2>3. index # Len(t) + 1
    BY ONLY <1>3, <2>2
  <2> HIDE DEF f
  <2> QED
    BY ONLY <1>5, <2>1, <2>3, Zenon
<1> HIDE DEF f
<1>7. Leads(t, Now', f)
  <2>1. Leads(t, Now, f)
    BY <1>4 DEF f
  <2> QED
    BY <1>2, <1>6, <2>1, NextLeads, Zenon
<1>8. Now' \in State
  BY <1>5, <1>7, OnTheWay
<1>9. Now'.index <= Len(t) + 1
  <2>1. CASE Now' = f
    BY <1>3, <1>5, <2>1
  <2>2. CASE Now' # f
    <3>1. Now'.index <= Len(t)
      BY <1>7, <2>2, NextLeads, Zenon
    <3>2. Now'.index \in Nat
      BY <1>8 DEF State
    <3> QED
      BY <1>3, <3>1, <3>2
  <2> QED
    BY <2>1, <2>2
<1>10. TypeOK'
  <2>1. /\ column' \in SUBSET Char /\ escaped' \in BOOLEAN /\ inverting' \in BOOLEAN
        /\ range_set' \in BOOLEAN /\ bracket_sem' \in Int /\ last_char' \in Char
        /\ range_start' \in Char
    BY <1>8 DEF Now, St, State
  <2>2. Now'.index = index'
    BY DEF Now, St
  <2>3. index' \in 1..(Len(t) + 1)
    BY <1>1, <1>2, <1>3, <1>9, <2>2
  <2>4. {escaped', inverting', range_set'} \subseteq BOOLEAN
    BY <2>1, Zenon
  <2> QED
    BY <1>1, <1>2, <1>3, <2>1, <2>3, <2>4 DEF TypeOK
<1>11. Reading'
  <2>1. input' = input
    BY <1>2
  <2>2. Leads(t', Now', Open(Len(t') + 1, C, v, FALSE, 0, m, k))
    BY <1>3, <1>7, Zenon DEF f
  <2>3. input'.set \in {Char, {}} \/ input'.set = IF v THEN Char \ C ELSE C
    BY <1>4, <2>1, Zenon
  <2> QED
    BY <2>2, <2>3, Zenon DEF Reading
<1> QED
  BY <1>2, <1>10, <1>11 DEF IInv

LEMMA FinishInv ==
  ASSUME OnlyPrinted, IInv, Finish
  PROVE  IInv'
<1> DEFINE t == symbol_set
<1>1. /\ TypeOK /\ input \in Inputs /\ index \in 1..(Len(t) + 1) /\ pc = "parse" /\ index > Len(t)
      /\ column' = IF inverting THEN Char \ column ELSE column
      /\ pc' = IF bracket_sem = 0 THEN "done" ELSE "exited"
      /\ UNCHANGED <<input, index, flags>>
  BY DEF IInv, TypeOK, Finish
<1>2. t \in Text /\ Len(t) \in Nat /\ t' = t
  BY <1>1, InputIs DEF symbol_set
<1>3. PICK C \in SUBSET Char, v \in BOOLEAN, m \in Char, k \in Char :
        /\ Leads(t, Now, Open(Len(t) + 1, C, v, FALSE, 0, m, k))
        /\ input.set \in {Char, {}} \/ input.set = IF v THEN Char \ C ELSE C
  BY <1>1 DEF IInv, Reading
<1>4. Now = Open(Len(t) + 1, C, v, FALSE, 0, m, k)
  <2>1. ~(Now.index <= Len(t))
    BY <1>1, <1>2, NowIs
  <2> QED
    BY <1>3, <2>1, NextLeads, Zenon
<1>5. column = C /\ inverting = v /\ escaped = FALSE /\ range_set = FALSE /\ bracket_sem = 0
  BY <1>4 DEF Now, Open, St
<1>6. ~escaped' /\ ~range_set' /\ bracket_sem' = 0 /\ pc' = "done"
  BY <1>1, <1>5 DEF flags
<1>7. column' = IF v THEN Char \ C ELSE C
  BY <1>1, <1>5, Zenon
<1>8. input'.set \notin Misprinted => column' = input'.set
  BY <1>1, <1>3, <1>7 DEF Misprinted
<1>9. TypeOK'
  <2>1. column' \subseteq Char
    BY <1>7
  <2> QED
    BY <1>1, <1>2, <1>6, <2>1 DEF TypeOK, flags
<1> QED
  BY <1>6, <1>8, <1>9 DEF IInv

LEMMA NextInv ==
  ASSUME OnlyPrinted, IInv, [Next]_vars
  PROVE  IInv'
<1>1. CASE Terminated \/ UNCHANGED vars
  <2>1. UNCHANGED vars
    BY <1>1 DEF Terminated
  <2>2. UNCHANGED <<input, pc, index, column, escaped, inverting, range_set, bracket_sem,
                    last_char, range_start>>
    BY <2>1 DEF vars, flags
  <2>3. TypeOK'
    BY <2>2 DEF IInv, TypeOK, symbol_set
  <2>4. Now' = Now /\ symbol_set' = symbol_set
    BY <2>2 DEF Now, symbol_set
  <2>5. pc = "parse" => Reading'
    BY <2>2, <2>4 DEF IInv, Reading
  <2> QED
    BY <2>2, <2>3, <2>4, <2>5 DEF IInv
<1>2. CASE ParseStep
  BY <1>2, ParseInv
<1> QED
  BY <1>1, <1>2, StartInv, FinishInv DEF Next, ParseStep

(* The parser never goes past the end of a text, for any class printed, and  *)
(* its reach holds nothing but characters.                                   *)
THEOREM TypeCorrect == ASSUME OnlyPrinted PROVE Spec => []TypeOK
<1>1. Init => IInv
  BY InitInv
<1>2. IInv /\ [Next]_vars => IInv'
  BY NextInv
<1>3. IInv => TypeOK
  BY DEF IInv
<1> QED
  BY <1>1, <1>2, <1>3, PTL DEF Spec

(* Whatever class a vertex of the compiled PCRE has, hscompile reads it back *)
(* from the text describeClass wrote for it, unless it is one of the three   *)
(* that are written as something else; and no such text is given up.         *)
THEOREM PrintedClassesParse == ASSUME OnlyPrinted PROVE Spec => []ParsesToItsClass
<1>1. Init => IInv
  BY InitInv
<1>2. IInv /\ [Next]_vars => IInv'
  BY NextInv
<1>3. IInv => ParsesToItsClass
  <2> SUFFICES ASSUME IInv
               PROVE  ParsesToItsClass
    OBVIOUS
  <2>1. input.ok = TRUE
    BY InputIs DEF IInv, TypeOK
  <2> QED
    BY <2>1 DEF IInv, ParsesToItsClass
<1> QED
  BY <1>1, <1>2, <1>3, PTL DEF Spec

(* No text describeClass writes leaves a range, an escape or a bracket open, *)
(* not even those of the three classes.                                      *)
THEOREM PrintedClassesClose == ASSUME OnlyPrinted PROVE Spec => []NothingIsOpen
<1>1. Init => IInv
  BY InitInv
<1>2. IInv /\ [Next]_vars => IInv'
  BY NextInv
<1>3. IInv => NothingIsOpen
  BY DEF IInv, NothingIsOpen
<1> QED
  BY <1>1, <1>2, <1>3, PTL DEF Spec
====

--------------------------- MODULE ToolchainProofs ---------------------------
(***************************************************************************)
(* Theorems about Toolchain, for any files of rules: what pcre2mnrl makes  *)
(* of a line, what its message says of the network it exports, what the    *)
(* two compilers leave behind when they fail, what hsrun can load at any   *)
(* moment of the writing, what the reports it prints stand for, and the    *)
(* types of all three.                                                     *)
(***************************************************************************)
EXTENDS Toolchain, FoldProofs, SequenceTheorems, FiniteSetTheorems

-----------------------------------------------------------------------------
(* A line of the file of rules.                                            *)

LEMMA Min2 ==
  ASSUME NEW a \in Nat, NEW b \in Nat
  PROVE  Min({a, b}) = IF a <= b THEN a ELSE b
<1>1. Min({a, b}) \in {a, b} /\ \A y \in {a, b} : Min({a, b}) <= y
  BY MinIs
<1> QED
  BY <1>1

LEMMA Locations ==
  ASSUME NEW S, NEW line \in Seq(S), Slashes(line) # {}
  PROVE  /\ EndLoc(line) \in 1..Len(line) /\ line[EndLoc(line)] = SLASH
         /\ StartLoc(line) \in 1..Len(line) /\ StartLoc(line) <= EndLoc(line)
         /\ \A k \in 1..Len(line) : line[k] = SLASH => StartLoc(line) <= k /\ k <= EndLoc(line)
<1>1. Len(line) \in Nat /\ Slashes(line) \in SUBSET (1..Len(line)) /\ Slashes(line) \in SUBSET Nat
  BY DEF Slashes
<1>2. EndLoc(line) \in Slashes(line) /\ \A y \in Slashes(line) : EndLoc(line) >= y
  BY <1>1, MaxIs DEF EndLoc
<1>3. StartLoc(line) \in Slashes(line) /\ \A y \in Slashes(line) : StartLoc(line) <= y
  BY <1>1, MinIs DEF StartLoc
<1> QED
  BY <1>1, <1>2, <1>3 DEF Slashes

LEMMA SlashIsNoModifier == SLASH \notin Modifiers
BY DEF Modifiers, FlagOf, SLASH

LEMMA ModsAre ==
  ASSUME NEW S, NEW line \in Seq(S), Slashes(line) # {}
  PROVE  /\ ModsOf(line) \in Seq(S) /\ Len(ModsOf(line)) = Len(line) - EndLoc(line)
         /\ \A j \in 1..(Len(line) - EndLoc(line)) : ModsOf(line)[j] = line[EndLoc(line) + j]
         /\ Mods(line) = {line[k] : k \in (EndLoc(line) + 1)..Len(line)}
<1> DEFINE e == EndLoc(line)
           n == Len(line)
<1>1. e \in 1..n /\ n \in Nat
  BY Locations
<1> HIDE DEF e
<1>2. \A k \in (e + 1)..n : line[k] \in S
  BY <1>1
<1>3. /\ SubSeq(line, e + 1, n) \in Seq(S)
      /\ Len(SubSeq(line, e + 1, n)) = IF e + 1 <= n THEN n - (e + 1) + 1 ELSE 0
      /\ \A j \in 1..(n - (e + 1) + 1) : SubSeq(line, e + 1, n)[j] = line[e + 1 + j - 1]
  BY <1>1, <1>2, SubSeqProperties
<1>4. /\ ModsOf(line) \in Seq(S) /\ Len(ModsOf(line)) = n - e
      /\ \A j \in 1..(n - e) : ModsOf(line)[j] = line[e + j]
  BY <1>1, <1>3 DEF ModsOf, e
<1>5. Mods(line) = {line[k] : k \in (e + 1)..n}
  <2>1. DOMAIN ModsOf(line) = 1..(n - e)
    BY <1>1, <1>4
  <2>2. \A k \in (e + 1)..n : k - e \in 1..(n - e) /\ e + (k - e) = k
    BY <1>1
  <2>3. \A j \in 1..(n - e) : e + j \in (e + 1)..n
    BY <1>1
  <2>4. \A x : x \in Mods(line) <=> \E j \in 1..(n - e) : x = line[e + j]
    BY <1>4, <2>1 DEF Mods
  <2> QED
    BY <2>2, <2>3, <2>4
<1> QED
  BY <1>4, <1>5 DEF e

(* The lines main makes an expression of. *)
Taken(line) == Slashes(line) # {} /\ ~Failed(line)

LEMMA UnderstoodIsTaken ==
  ASSUME NEW S, NEW line \in Seq(S)
  PROVE  Understood(line) <=> Taken(line)
<1>1. ASSUME Taken(line)
      PROVE  Understood(line)
  <2>1. EndLoc(line) \in 1..Len(line) /\ line[EndLoc(line)] = SLASH
    BY <1>1, Locations DEF Taken
  <2>2. \A k \in (EndLoc(line) + 1)..Len(line) : line[k] \in Modifiers
    BY <1>1, ModsAre DEF Taken, Failed
  <2> QED
    BY <2>1, <2>2 DEF Understood
<1>2. ASSUME Understood(line)
      PROVE  Taken(line)
  <2>1. PICK n \in 1..Len(line) : /\ line[n] = SLASH
                                  /\ \A k \in (n + 1)..Len(line) : line[k] \in Modifiers
    BY <1>2 DEF Understood
  <2>2. Slashes(line) # {}
    BY <2>1 DEF Slashes
  <2>3. EndLoc(line) \in 1..Len(line) /\ line[EndLoc(line)] = SLASH /\ n <= EndLoc(line)
    BY <2>1, <2>2, Locations
  <2>4. n = EndLoc(line)
    BY <2>1, <2>3, SlashIsNoModifier
  <2>5. Mods(line) = {line[k] : k \in (n + 1)..Len(line)}
    BY <2>2, <2>4, ModsAre
  <2> QED
    BY <2>1, <2>2, <2>5 DEF Taken, Failed
<1> QED
  BY <1>1, <1>2

RuleType == [expr : Seq(STRING), flags : SUBSET Flags, id : Nat]

LEMMA RuleIs ==
  ASSUME NEW line \in Seq(STRING), Slashes(line) # {}, NEW id \in Nat
  PROVE  Rule(line, id) \in RuleType /\ Rule(line, id).id = id
<1> DEFINE from == StartLoc(line) + 1
           n == IF EndLoc(line) = 1 THEN Len(line) ELSE EndLoc(line) - 2
           to == Min({from + n - 1, Len(line)})
<1>1. from \in Nat /\ from >= 1 /\ n \in Nat /\ from + n - 1 \in Nat /\ Len(line) \in Nat
  BY Locations
<1>2. to \in Nat /\ to <= Len(line)
  <2> DEFINE x == from + n - 1
             y == Len(line)
  <2>1. x \in Nat /\ y \in Nat
    BY <1>1
  <2> HIDE DEF x, y
  <2>2. Min({x, y}) = IF x <= y THEN x ELSE y
    BY ONLY <2>1, Min2, Zenon
  <2>3. Min({x, y}) \in Nat /\ Min({x, y}) <= y
    BY ONLY <2>1, <2>2
  <2> QED
    BY ONLY <2>3, Zenon DEF to, x, y
<1>3. \A k \in from..to : line[k] \in STRING
  BY <1>1, <1>2
<1> HIDE DEF from, n, to
<1>4. SubSeq(line, from, to) \in Seq(STRING)
  BY <1>1, <1>2, <1>3, SubSeqProperties
<1>5. ExprOf(line) \in Seq(STRING)
  BY <1>4 DEF ExprOf, Substr, from, n, to
<1>6. FlagsOf(line) \in SUBSET Flags
  BY DEF FlagsOf, Flags
<1> QED
  BY <1>5, <1>6 DEF Rule, RuleType

(* A line that is written as it should be is taken apart as it should be. *)
LEMMA WellFormedIsParsed ==
  ASSUME NEW S, NEW line \in Seq(S), Taken(line), WellFormed(line), NEW id \in Nat
  PROVE  Parsed(line, Rule(line, id))
<1> DEFINE e == EndLoc(line)
           n == Len(line)
           expr == SubSeq(line, 2, e - 1)
           rest == SubSeq(line, e + 1, n)
<1>1. /\ Slashes(line) # {} /\ e \in 1..n /\ n \in Nat /\ line[e] = SLASH /\ line[1] = SLASH
      /\ StartLoc(line) = 1
      /\ \A k \in 1..n : line[k] = SLASH => k <= e
  BY Locations DEF Taken, WellFormed
<1>2. e # 1
  <2> SUFFICES ASSUME e = 1
               PROVE  FALSE
    OBVIOUS
  <2>1. Slashes(line) = {1}
    BY <1>1 DEF Slashes
  <2>2. Cardinality(Slashes(line)) = 1
    BY <2>1, FS_Singleton
  <2> QED
    BY <2>2 DEF WellFormed
<1>3. /\ rest = ModsOf(line) /\ rest \in Seq(S) /\ Len(rest) = n - e
      /\ \A j \in 1..(n - e) : rest[j] = line[e + j]
      /\ Mods(line) = {line[k] : k \in (e + 1)..n}
  BY <1>1, ModsAre DEF ModsOf
<1>4. ExprOf(line) = expr
  <2>1. StartLoc(line) + 1 = 2 /\ 2 + (e - 2) - 1 = e - 1
    BY <1>1
  <2>2. Min({e - 1, n}) = e - 1
    BY <1>1, <1>2, Min2
  <2>3. ExprOf(line) = SubSeq(line, 2, Min({2 + (e - 2) - 1, n}))
    BY <1>2, <2>1 DEF ExprOf, Substr
  <2> QED
    BY <2>1, <2>2, <2>3
<1>5. /\ expr \in Seq(S) /\ Len(expr) = e - 2
      /\ \A j \in 1..(e - 2) : expr[j] = line[1 + j]
  <2>1. \A k \in 2..(e - 1) : line[k] \in S
    BY <1>1
  <2>2. /\ expr \in Seq(S) /\ Len(expr) = IF 2 <= e - 1 THEN (e - 1) - 2 + 1 ELSE 0
        /\ \A j \in 1..((e - 1) - 2 + 1) : expr[j] = line[2 + j - 1]
    BY <1>1, <2>1, SubSeqProperties
  <2> QED
    BY <1>1, <1>2, <2>2
<1> HIDE DEF e, expr, rest
<1>6. line = <<SLASH>> \o expr \o <<SLASH>> \o rest
  <2>1. 1 \in 1..Len(line) /\ e - 1 \in 1..Len(line) /\ e \in 1..Len(line)
    BY <1>1, <1>2
  <2>2. SubSeq(line, 1, e - 1) = <<SLASH>> \o expr
    <3>1. SubSeq(line, 1, e - 1) = <<line[1]>> \o SubSeq(line, 1 + 1, e - 1)
      BY <2>1, <1>2, SubSeqRecursiveFirst
    <3>2. 1 + 1 = 2
      OBVIOUS
    <3> QED
      BY ONLY <3>1, <3>2, <1>1, Zenon DEF expr
  <2>3. SubSeq(line, 1, e) = (<<SLASH>> \o expr) \o <<SLASH>>
    <3>1. SubSeq(line, 1, e) = SubSeq(line, 1, e - 1) \o <<line[e]>>
      BY <2>1, SubSeqRecursiveSecond
    <3> QED
      BY ONLY <3>1, <2>2, <1>1, Zenon
  <2>4. SubSeq(line, 1, e) \o rest = SubSeq(line, 1, n)
    <3>1. SubSeq(line, 1, e) \o SubSeq(line, e + 1, n) = SubSeq(line, 1, n)
      BY <1>1, ConcatAdjacentSubSeq
    <3> QED
      BY ONLY <3>1, Zenon DEF rest
  <2>5. SubSeq(line, 1, n) = line
    BY SubSeqFull
  <2> QED
    BY ONLY <2>3, <2>4, <2>5, Zenon
<1>7. \A k \in DOMAIN rest : rest[k] \in Modifiers
  <2>1. Mods(line) \subseteq Modifiers
    BY DEF Taken, Failed
  <2> QED
    BY <1>1, <1>3, <2>1 DEF Mods
<1>8. FlagsOf(line) = {FlagOf[rest[k]] : k \in DOMAIN rest}
  BY <1>3, <1>7 DEF FlagsOf, Mods
<1>9. SubSeq(line, Len(expr) + 3, Len(line)) = rest
  <2>1. Len(expr) + 3 = e + 1
    BY <1>1, <1>5
  <2> QED
    BY <2>1 DEF rest
<1>10. /\ Rule(line, id).expr = expr /\ Rule(line, id).flags = FlagsOf(line)
  BY <1>4 DEF Rule
<1> DEFINE r == Rule(line, id)
           behind == SubSeq(line, Len(r.expr) + 3, Len(line))
<1>11. r.expr = expr /\ behind = rest
  BY ONLY <1>9, <1>10, Zenon
<1>12. r.flags = {FlagOf[rest[k]] : k \in DOMAIN rest}
  BY ONLY <1>8, <1>10, Zenon
<1>13. Parsed(line, r) <=>
         /\ line = <<SLASH>> \o r.expr \o <<SLASH>> \o behind
         /\ \A k \in DOMAIN behind : behind[k] \in Modifiers
         /\ r.flags = {FlagOf[behind[k]] : k \in DOMAIN behind}
  BY ONLY Zenon DEF Parsed
<1> HIDE DEF r, behind
<1>14. line = <<SLASH>> \o r.expr \o <<SLASH>> \o behind
  BY ONLY <1>6, <1>11, Zenon
<1>15. \A k \in DOMAIN behind : behind[k] \in Modifiers
  BY ONLY <1>7, <1>11, Zenon
<1>16. r.flags = {FlagOf[behind[k]] : k \in DOMAIN behind}
  BY ONLY <1>11, <1>12, Zenon
<1>17. Parsed(line, r)
  BY ONLY <1>13, <1>14, <1>15, <1>16, Zenon
<1> QED
  BY <1>17 DEF r
-----------------------------------------------------------------------------
(* pcre2mnrl, wherever it is.                                              *)

(* The rules taken from the first i lines: in the order of the lines, none   *)
(* missing, each with the number of its line.                                *)
LinesRead ==
  /\ rules \in RuleFiles /\ i \in 0..Len(rules)
  /\ expressions \in Seq(RuleType)
  /\ \A k \in 1..Len(expressions) :
       LET id == expressions[k].id
       IN id + 1 \in 1..i /\ Taken(rules[id + 1]) /\ expressions[k] = Rule(rules[id + 1], id)
  /\ \A j, k \in 1..Len(expressions) : j < k => expressions[j].id < expressions[k].id
  /\ \A n \in 1..i : Taken(rules[n]) => \E k \in 1..Len(expressions) : expressions[k].id + 1 = n

(* What there is before the call, and what the call leaves.                  *)
Call ==
  /\ pcre_pc \in {"lines", "call", "error", "export", "exited"}
  /\ pcre_pc \in {"lines", "call"} =>
       call_outcome = "pending" /\ compile_err = NoError /\ whole = {} /\ ~stray
  /\ pcre_pc \in {"call", "error", "export"} => i = Len(rules)
  /\ pcre_pc = "call" => call_args.elements = Len(expressions)
  /\ stray \in BOOLEAN
  /\ \E n \in 0..Len(expressions) : whole = 1..n
  /\ stray => whole # 1..Len(expressions)
  /\ call_outcome = HS_SUCCESS =>
       i = Len(rules) /\ whole = 1..Len(expressions) /\ ~stray /\ compile_err = NoError
  /\ compile_err.kind = "compile" =>
       /\ compile_err.expression \in 0..(Len(expressions) - 1)
       /\ whole = 1..compile_err.expression /\ ~stray
  /\ compile_err.kind = "param" => whole = {} /\ ~stray

(* The file holds what the call left, once it was exported, and nothing but  *)
(* rules before.                                                             *)
Output ==
  /\ mnrl.rules \in Seq(RuleType) /\ mnrl.pieces \in Seq(RuleType)
  /\ pcre_pc # "exited" => pcre_code = -1 /\ mnrl_lost = FALSE
  /\ HasExported =>
       LET n == Cardinality(whole)
       IN mnrl = Exported(SubSeq(expressions, 1, n),
                          IF stray THEN SubSeq(expressions, n + 1, n + 1) ELSE <<>>)

PcreInv == LinesRead /\ Call /\ Output

LEMMA FilesAreLines ==
  ASSUME NEW file \in RuleFiles
  PROVE  /\ file \in Seq(Seq(STRING)) /\ Len(file) \in 0..MaxElements
         /\ \A n \in 1..Len(file) : file[n] \in Seq(STRING)
BY RulesAssumption, CallAssumption

LEMMA HsCompileLeavesPcre2Mnrl == HsCompileStep => UNCHANGED pcre_vars
<1> SUFFICES ASSUME HsCompileStep
             PROVE  UNCHANGED pcre_vars
  OBVIOUS
<1>1. HsCompile!Next /\ UNCHANGED <<rules, pcre_pc, i, expressions, call, mnrl_lost, pcre_code>>
  BY DEF HsCompileStep
<1>2. mnrl' = mnrl
  BY <1>1 DEF HsCompile!Next, HsCompile!hs_compile_mnrl, HsCompile!CompileFails,
     HsCompile!CompileStops, HsCompile!serialize_mapping, HsCompile!SerializeDatabase,
     HsCompile!SerializeDatabaseFails, HsCompile!Open, HsCompile!OpenFails,
     HsCompile!WriteMap, HsCompile!WriteDb, HsCompile!Close
<1> QED
  BY <1>1, <1>2 DEF pcre_vars, output

LEMMA PcreInvAtFirst == Init => PcreInv
<1> SUFFICES ASSUME Init
             PROVE  PcreInv
  OBVIOUS
<1>1. PcreInit
  BY DEF Init
<1>2. rules \in RuleFiles /\ Len(rules) \in Nat
  BY <1>1, FilesAreLines DEF PcreInit
<1>3. LinesRead
  BY <1>1, <1>2 DEF PcreInit, LinesRead
<1>4. Call
  <2>1. whole = 1..0 /\ 0 \in 0..Len(expressions)
    BY <1>1 DEF PcreInit
  <2> QED
    BY <1>1, <2>1 DEF PcreInit, Call, NoError, Error, HS_SUCCESS
<1>5. Output
  <2>1. mnrl = NoFile \/ mnrl = Exported(OldRules, <<>>)
    BY <1>1 DEF PcreInit
  <2>2. OldRules \in Seq(RuleType) /\ <<>> \in Seq(RuleType)
    BY OldRulesAssumption, EmptySeq DEF RuleType
  <2>3. mnrl.rules \in Seq(RuleType) /\ mnrl.pieces \in Seq(RuleType)
    <3>1. CASE mnrl = NoFile
      BY <2>2, <3>1 DEF NoFile
    <3>2. CASE mnrl = Exported(OldRules, <<>>)
      <4>1. mnrl.rules = OldRules /\ mnrl.pieces = <<>>
        BY <3>2 DEF Exported
      <4> QED
        BY <2>2, <4>1
    <3> QED
      BY <2>1, <3>1, <3>2
  <2> QED
    BY <1>1, <2>3 DEF PcreInit, Output, HasExported
<1> QED
  BY <1>3, <1>4, <1>5 DEF PcreInv

(* The steps of main.                                                        *)

LEMMA SkipRuleKeeps == PcreInv /\ SkipRule => PcreInv'
<1> SUFFICES ASSUME PcreInv, SkipRule
             PROVE  PcreInv'
  OBVIOUS
<1>1. /\ pcre_pc = "lines" /\ i < Len(rules) /\ Slashes(rules[i + 1]) # {} /\ Failed(rules[i + 1])
      /\ i' = i + 1 /\ rules' = rules /\ pcre_pc' = pcre_pc /\ expressions' = expressions
      /\ UNCHANGED <<call_args, call_outcome, compile_err, whole, stray, mnrl, mnrl_lost, pcre_code>>
  BY DEF SkipRule, AtLine, Line, call, output
<1>2. rules \in RuleFiles /\ i \in 0..Len(rules) /\ Len(rules) \in Nat /\ i \in Nat
  BY FilesAreLines DEF PcreInv, LinesRead
<1>3. ~Taken(rules[i + 1])
  BY <1>1 DEF Taken
<1>4. \A n \in 1..(i + 1) : n = i + 1 \/ n \in 1..i
  BY <1>2
<1>5. LinesRead'
  BY <1>1, <1>2, <1>3, <1>4 DEF PcreInv, LinesRead
<1>6. Call'
  BY <1>1 DEF PcreInv, Call, HS_SUCCESS
<1>7. Output'
  BY <1>1 DEF PcreInv, Output, HasExported
<1> QED
  BY <1>5, <1>6, <1>7 DEF PcreInv

LEMMA TakeRuleKeeps == PcreInv /\ TakeRule => PcreInv'
<1> SUFFICES ASSUME PcreInv, TakeRule
             PROVE  PcreInv'
  OBVIOUS
<1>1. /\ pcre_pc = "lines" /\ i < Len(rules) /\ Slashes(rules[i + 1]) # {} /\ ~Failed(rules[i + 1])
      /\ expressions' = Append(expressions, Rule(rules[i + 1], i))
      /\ i' = i + 1 /\ rules' = rules /\ pcre_pc' = pcre_pc
      /\ UNCHANGED <<call_args, call_outcome, compile_err, whole, stray, mnrl, mnrl_lost, pcre_code>>
  BY DEF TakeRule, AtLine, Line, call, output
<1>2. /\ rules \in RuleFiles /\ i \in 0..Len(rules) /\ Len(rules) \in Nat /\ i \in Nat
      /\ rules[i + 1] \in Seq(STRING)
  BY <1>1, FilesAreLines DEF PcreInv, LinesRead
<1>3. Taken(rules[i + 1])
  BY <1>1 DEF Taken
<1>4. \A n \in 1..(i + 1) : n = i + 1 \/ n \in 1..i
  BY <1>2
<1> DEFINE r == Rule(rules[i + 1], i)
<1>5. r \in RuleType /\ r.id = i
  BY <1>1, <1>2, RuleIs
<1>6. expressions \in Seq(RuleType) /\ Len(expressions) \in Nat
  BY DEF PcreInv, LinesRead
<1>7. /\ expressions' \in Seq(RuleType) /\ Len(expressions') = Len(expressions) + 1
      /\ \A k \in 1..Len(expressions) : expressions'[k] = expressions[k]
      /\ expressions'[Len(expressions) + 1] = r
  BY <1>1, <1>5, <1>6, AppendProperties
<1> HIDE DEF r
<1>8. \A k \in 1..Len(expressions') : k = Len(expressions) + 1 \/ k \in 1..Len(expressions)
  BY <1>6, <1>7
<1>9. LinesRead'
  <2>1. ASSUME NEW k \in 1..Len(expressions')
        PROVE  /\ expressions'[k].id + 1 \in 1..(i + 1)
               /\ Taken(rules[expressions'[k].id + 1])
               /\ expressions'[k] = Rule(rules[expressions'[k].id + 1], expressions'[k].id)
    <3>1. CASE k \in 1..Len(expressions)
      BY <1>2, <1>7, <3>1 DEF PcreInv, LinesRead
    <3>2. CASE k = Len(expressions) + 1
      BY <1>2, <1>3, <1>5, <1>7, <3>2 DEF r
    <3> QED
      BY <1>8, <3>1, <3>2
  <2>2. ASSUME NEW j \in 1..Len(expressions'), NEW k \in 1..Len(expressions'), j < k
        PROVE  expressions'[j].id < expressions'[k].id
    <3>0. j \in 1..Len(expressions)
      BY <1>6, <1>7, <2>2
    <3>1. CASE k \in 1..Len(expressions)
      BY <1>7, <2>2, <3>0, <3>1 DEF PcreInv, LinesRead
    <3>2. CASE k = Len(expressions) + 1
      <4>1. expressions[j].id + 1 \in 1..i /\ expressions[j] \in RuleType
        BY <1>6, <3>0 DEF PcreInv, LinesRead
      <4>2. expressions[j].id \in Nat
        BY <4>1 DEF RuleType
      <4> QED
        BY <1>2, <1>5, <1>7, <3>0, <3>2, <4>1, <4>2
    <3> QED
      BY <1>8, <3>1, <3>2
  <2>3. ASSUME NEW n \in 1..(i + 1), Taken(rules[n])
        PROVE  \E k \in 1..Len(expressions') : expressions'[k].id + 1 = n
    <3>1. CASE n = i + 1
      BY <1>5, <1>6, <1>7, <3>1
    <3>2. CASE n \in 1..i
      <4>1. PICK k \in 1..Len(expressions) : expressions[k].id + 1 = n
        BY <2>3, <3>2 DEF PcreInv, LinesRead
      <4> QED
        BY <1>6, <1>7, <4>1
    <3> QED
      BY <1>4, <3>1, <3>2
  <2>4. rules' \in RuleFiles /\ i' \in 0..Len(rules')
    BY <1>1, <1>2
  <2> QED
    BY <1>1, <1>7, <2>1, <2>2, <2>3, <2>4 DEF LinesRead
<1>10. Call'
  <2>1. whole' = 1..0 /\ 0 \in 0..Len(expressions')
    BY <1>1, <1>6, <1>7 DEF PcreInv, Call
  <2> QED
    BY <1>1, <2>1 DEF PcreInv, Call, HS_SUCCESS, NoError, Error
<1>11. Output'
  BY <1>1 DEF PcreInv, Output, HasExported
<1> QED
  BY <1>9, <1>10, <1>11 DEF PcreInv

LEMMA LinesDoneKeeps == PcreInv /\ LinesDone => PcreInv'
<1> SUFFICES ASSUME PcreInv, LinesDone
             PROVE  PcreInv'
  OBVIOUS
<1>1. /\ pcre_pc = "lines" /\ i = Len(rules) /\ pcre_pc' = "call"
      /\ call_args'.elements = Len(expressions)
      /\ UNCHANGED <<rules, i, expressions, call_outcome, compile_err, whole, stray,
                     mnrl, mnrl_lost, pcre_code>>
  BY DEF LinesDone, output
<1>2. LinesRead'
  BY <1>1 DEF PcreInv, LinesRead
<1>3. Call'
  BY <1>1 DEF PcreInv, Call, HS_SUCCESS
<1>4. Output'
  BY <1>1 DEF PcreInv, Output, HasExported
<1> QED
  BY <1>2, <1>3, <1>4 DEF PcreInv

(* The call returns with the first k expressions whole.                      *)
LEMMA AnswerKeeps ==
  ASSUME PcreInv, pcre_pc = "call", pcre_pc' \in {"error", "export"},
         UNCHANGED <<rules, i, expressions, output, pcre_code>>,
         NEW k \in 0..Len(expressions), whole' = 1..k, stray' \in BOOLEAN,
         call_outcome' = HS_SUCCESS =>
           k = Len(expressions) /\ ~stray' /\ compile_err' = NoError,
         compile_err'.kind = "compile" =>
           compile_err'.expression = k /\ k < Len(expressions) /\ ~stray',
         compile_err'.kind = "param" => k = 0 /\ ~stray',
         stray' => k < Len(expressions)
  PROVE  PcreInv'
<1>1. UNCHANGED <<rules, i, expressions, mnrl, mnrl_lost, pcre_code>>
  BY DEF output
<1>2. i = Len(rules) /\ pcre_code = -1
  BY DEF PcreInv, Call, Output
<1>3. LinesRead'
  BY <1>1 DEF PcreInv, LinesRead
<1>4. Call'
  <2>1. \E n \in 0..Len(expressions') : whole' = 1..n
    BY <1>1
  <2>2. compile_err'.kind = "compile" =>
          /\ compile_err'.expression \in 0..(Len(expressions') - 1)
          /\ whole' = 1..compile_err'.expression /\ ~stray'
    BY <1>1
  <2>3. compile_err'.kind = "param" => whole' = {} /\ ~stray'
    BY <1>1
  <2>4. stray' => whole' # 1..Len(expressions')
    <3>1. Len(expressions) \in Nat
      BY DEF PcreInv, LinesRead
    <3>2. k < Len(expressions) => Len(expressions) \in 1..Len(expressions) /\ Len(expressions) \notin 1..k
      BY <3>1
    <3> QED
      BY <1>1, <3>2
  <2> QED
    BY <1>1, <1>2, <2>1, <2>2, <2>3, <2>4 DEF Call
<1>5. Output'
  BY <1>1, <1>2 DEF PcreInv, Output, HasExported
<1> QED
  BY <1>3, <1>4, <1>5 DEF PcreInv

LEMMA ConvertKeeps == PcreInv /\ Convert => PcreInv'
<1> SUFFICES ASSUME PcreInv, Convert
             PROVE  PcreInv'
  OBVIOUS
<1>1. /\ pcre_pc = "call" /\ Conversion!Next /\ UNCHANGED <<rules, i, expressions, output>>
      /\ call_outcome' = "stopped" => PcreExit(-2)
      /\ call_outcome' # "stopped" => pcre_pc' \in {"error", "export"} /\ UNCHANGED pcre_code
  BY DEF Convert, HS_SUCCESS
<1>2. /\ call_outcome = "pending" /\ compile_err = NoError /\ whole = {} /\ ~stray
      /\ i = Len(rules) /\ call_args.elements = Len(expressions) /\ pcre_code = -1
      /\ Len(expressions) \in Nat
  <2>1. Len(expressions) \in Nat
    BY DEF PcreInv, LinesRead
  <2> QED
    BY <1>1, <2>1 DEF PcreInv, Call, Output
<1>3. CASE Conversion!Stop
  <2>1. /\ call_outcome' = "stopped"
        /\ UNCHANGED <<compile_err, whole, stray>> /\ pcre_pc' = "exited" /\ pcre_code' = -2
    BY <1>1, <1>3 DEF Conversion!Stop, PcreExit
  <2>2. LinesRead'
    BY <1>1 DEF PcreInv, LinesRead
  <2>3. Call'
    BY <1>1, <1>2, <2>1 DEF PcreInv, Call, HS_SUCCESS
  <2>4. Output'
    BY <1>1, <2>1 DEF PcreInv, Output, HasExported, output
  <2> QED
    BY <2>2, <2>3, <2>4 DEF PcreInv
<1>4. CASE Conversion!Convert
  <2>1. /\ whole' = 1..Len(expressions) /\ stray' = FALSE /\ compile_err' = NoError
        /\ call_outcome' # "stopped" /\ Len(expressions) \in 0..Len(expressions)
    BY <1>2, <1>4 DEF Conversion!Convert, Conversion!Answer, Conversion!HS_SUCCESS
  <2>2. NoError.kind = "none"
    BY DEF NoError, Error
  <2> QED
    BY <1>1, <1>2, <2>1, <2>2, AnswerKeeps
<1>5. CASE Conversion!Refuse
  <2>1. /\ compile_err' = NoError \/ compile_err'.kind = "param"
        /\ whole' = {} /\ stray' = FALSE /\ call_outcome' = "HS_COMPILER_ERROR"
    BY <1>2, <1>5 DEF Conversion!Refuse, Conversion!Answer, Conversion!HS_COMPILER_ERROR,
       Conversion!Error
  <2>2. 1..0 = {} /\ 0 \in 0..Len(expressions) /\ NoError.kind = "none"
    BY <1>2 DEF NoError, Error
  <2>3. call_outcome' # HS_SUCCESS /\ call_outcome' # "stopped"
    BY <2>1 DEF HS_SUCCESS
  <2>4. whole' = 1..0 /\ compile_err'.kind # "compile"
    BY <2>1, <2>2
  <2> QED
    BY <1>1, <1>2, <2>1, <2>2, <2>3, <2>4, AnswerKeeps
<1>6. ASSUME NEW k \in 0..(MaxElements - 1), Conversion!Reject(k)
      PROVE  PcreInv'
  <2>1. /\ k < Len(expressions) /\ stray' = FALSE /\ whole' = 1..k
        /\ call_outcome' = "HS_COMPILER_ERROR" /\ compile_err' = [kind |-> "compile", expression |-> k]
    BY <1>2, <1>6 DEF Conversion!Reject, Conversion!Answer, Conversion!HS_COMPILER_ERROR,
       Conversion!Error
  <2>2. compile_err'.kind = "compile" /\ compile_err'.expression = k
    BY <2>1
  <2>3. call_outcome' # HS_SUCCESS /\ call_outcome' # "stopped"
    BY <2>1 DEF HS_SUCCESS
  <2>4. k \in 0..Len(expressions)
    BY <1>2, <2>1, CallAssumption
  <2> QED
    BY <1>1, <1>2, <2>1, <2>2, <2>3, <2>4, AnswerKeeps
<1>7. ASSUME NEW k \in 0..(MaxElements - 1), Conversion!Break(k)
      PROVE  PcreInv'
  <2>1. PICK kind \in {"enomem", "einternal"}, pieces \in BOOLEAN :
          Conversion!Answer(Conversion!HS_COMPILER_ERROR, Conversion!Error(kind, 0), 1..k, pieces)
    BY <1>7 DEF Conversion!Break
  <2>2. /\ k < Len(expressions) /\ stray' \in BOOLEAN /\ whole' = 1..k
        /\ call_outcome' = "HS_COMPILER_ERROR" /\ compile_err' = [kind |-> kind, expression |-> 0]
    BY <1>2, <1>7, <2>1 DEF Conversion!Break, Conversion!Answer, Conversion!HS_COMPILER_ERROR,
       Conversion!Error
  <2>3. compile_err'.kind # "compile" /\ compile_err'.kind # "param"
    BY <2>2
  <2>4. call_outcome' # HS_SUCCESS /\ call_outcome' # "stopped"
    BY <2>2 DEF HS_SUCCESS
  <2>5. k \in 0..Len(expressions)
    BY <1>2, <2>2, CallAssumption
  <2> QED
    BY <1>1, <1>2, <2>2, <2>3, <2>4, <2>5, AnswerKeeps
<1> QED
  BY <1>1, <1>3, <1>4, <1>5, <1>6, <1>7 DEF Conversion!Next

(* The rules that are whole, and the one of which the network has pieces.    *)
LEMMA WholeIs ==
  ASSUME PcreInv
  PROVE  \E n \in 0..Len(expressions) :
           /\ whole = 1..n /\ Cardinality(whole) = n /\ (stray => n < Len(expressions))
           /\ SubSeq(expressions, 1, n) \in Seq(RuleType) /\ Len(SubSeq(expressions, 1, n)) = n
           /\ \A k \in 1..n : SubSeq(expressions, 1, n)[k] = expressions[k]
           /\ stray => /\ SubSeq(expressions, n + 1, n + 1) \in Seq(RuleType)
                       /\ Len(SubSeq(expressions, n + 1, n + 1)) = 1
                       /\ SubSeq(expressions, n + 1, n + 1)[1] = expressions[n + 1]
<1>1. PICK n \in 0..Len(expressions) : whole = 1..n
  BY DEF PcreInv, Call
<1>2. expressions \in Seq(RuleType) /\ Len(expressions) \in Nat
  BY DEF PcreInv, LinesRead
<1>3. n \in Nat /\ Cardinality(whole) = n
  <2>1. n \in Nat
    BY <1>2
  <2>2. Cardinality(1..n) = IF 1 > n THEN 0 ELSE n - 1 + 1
    BY <2>1, FS_Interval
  <2> QED
    BY <1>1, <2>1, <2>2
<1>4. stray => n < Len(expressions)
  <2>1. stray => n # Len(expressions)
    BY <1>1 DEF PcreInv, Call
  <2> QED
    BY <1>2, <2>1
<1>5. \A k \in 1..n : expressions[k] \in RuleType
  BY <1>2
<1>6. /\ SubSeq(expressions, 1, n) \in Seq(RuleType) /\ Len(SubSeq(expressions, 1, n)) = n
      /\ \A k \in 1..n : SubSeq(expressions, 1, n)[k] = expressions[k]
  <2>1. /\ SubSeq(expressions, 1, n) \in Seq(RuleType)
        /\ Len(SubSeq(expressions, 1, n)) = IF 1 <= n THEN n - 1 + 1 ELSE 0
        /\ \A k \in 1..(n - 1 + 1) : SubSeq(expressions, 1, n)[k] = expressions[1 + k - 1]
    BY <1>3, <1>5, SubSeqProperties
  <2> QED
    BY <1>3, <2>1
<1>7. ASSUME stray
      PROVE  /\ SubSeq(expressions, n + 1, n + 1) \in Seq(RuleType)
             /\ Len(SubSeq(expressions, n + 1, n + 1)) = 1
             /\ SubSeq(expressions, n + 1, n + 1)[1] = expressions[n + 1]
  <2> DEFINE m == n + 1
  <2>1. m \in Int /\ \A k \in m..m : expressions[k] \in RuleType
    BY <1>2, <1>3, <1>4, <1>7
  <2> HIDE DEF m
  <2>2. /\ SubSeq(expressions, m, m) \in Seq(RuleType)
        /\ Len(SubSeq(expressions, m, m)) = IF m <= m THEN m - m + 1 ELSE 0
        /\ \A k \in 1..(m - m + 1) : SubSeq(expressions, m, m)[k] = expressions[m + k - 1]
    BY <2>1, SubSeqProperties
  <2>3. m <= m /\ m - m + 1 = 1 /\ m + 1 - 1 = m /\ 1 \in 1..(m - m + 1)
    BY <2>1
  <2>4. /\ SubSeq(expressions, m, m) \in Seq(RuleType) /\ Len(SubSeq(expressions, m, m)) = 1
        /\ SubSeq(expressions, m, m)[1] = expressions[m]
    BY <2>2, <2>3
  <2> QED
    BY <2>4 DEF m
<1> QED
  BY <1>1, <1>3, <1>4, <1>6, <1>7

(* The end of main.                                                          *)

LEMMA EndKeeps ==
  ASSUME PcreInv, NotSurrounded \/ ReportError \/ Export \/ ExportFails
  PROVE  PcreInv'
<1>1. UNCHANGED <<rules, i, expressions, call_args, call_outcome, compile_err, whole, stray>>
  BY DEF NotSurrounded, ReportError, Export, ExportFails, call
<1>2. pcre_pc' = "exited" \/ (pcre_pc = "error" /\ pcre_pc' = "export" /\ ReportError)
  BY DEF NotSurrounded, ReportError, Export, ExportFails, PcreExit
<1>3. LinesRead'
  BY <1>1 DEF PcreInv, LinesRead
<1>4. Call'
  BY <1>1, <1>2 DEF PcreInv, Call
<1>5. CASE pcre_pc' # "exited"
  <2>1. UNCHANGED <<pcre_code, mnrl, mnrl_lost>> /\ pcre_pc = "error"
    BY <1>2, <1>5 DEF ReportError, PcreExit, output
  <2> QED
    BY <1>1, <1>3, <1>4, <1>5, <2>1 DEF PcreInv, Output, HasExported
<1>6. CASE pcre_pc' = "exited" /\ ~Export
  <2>1. ~HasExported'
    BY <1>6 DEF HasExported, NotSurrounded, ReportError, ExportFails, PcreExit
  <2>2. mnrl' = mnrl \/ mnrl' = NoFile
    BY <1>6 DEF NotSurrounded, ReportError, ExportFails, output
  <2>3. NoFile.rules = <<>> /\ NoFile.pieces = <<>> /\ <<>> \in Seq(RuleType)
    BY EmptySeq DEF NoFile
  <2> QED
    BY <1>3, <1>4, <1>6, <2>1, <2>2, <2>3 DEF PcreInv, Output
<1>7. CASE Export
  <2>1. PICK n \in 0..Len(expressions) :
          /\ Cardinality(whole) = n /\ SubSeq(expressions, 1, n) \in Seq(RuleType)
          /\ stray => SubSeq(expressions, n + 1, n + 1) \in Seq(RuleType)
    BY WholeIs
  <2>2. /\ mnrl' = Exported(SubSeq(expressions, 1, n),
                            IF stray THEN SubSeq(expressions, n + 1, n + 1) ELSE <<>>)
        /\ pcre_pc' = "exited" /\ <<>> \in Seq(RuleType)
    BY <1>7, <2>1, EmptySeq DEF Export, ExportTo, PcreExit
  <2>3. mnrl'.rules \in Seq(RuleType) /\ mnrl'.pieces \in Seq(RuleType)
    BY <2>1, <2>2 DEF Exported
  <2> QED
    BY <1>1, <1>3, <1>4, <2>1, <2>2, <2>3 DEF PcreInv, Output
<1> QED
  BY <1>5, <1>6, <1>7

LEMMA PcreInvStays == PcreInv /\ [Next]_vars => PcreInv'
<1> SUFFICES ASSUME PcreInv, [Next]_vars
             PROVE  PcreInv'
  OBVIOUS
<1>1. CASE UNCHANGED pcre_vars
  <2>1. UNCHANGED <<rules, pcre_pc, i, expressions, call_args, call_outcome, compile_err, whole,
                    stray, mnrl, mnrl_lost, pcre_code>>
    BY <1>1 DEF pcre_vars, call, output
  <2> QED
    BY <2>1 DEF PcreInv, LinesRead, Call, Output, HasExported
<1>2. CASE Pcre2Mnrl
  <2>1. PcreNext
    BY <1>2 DEF Pcre2Mnrl
  <2> QED
    BY <2>1, SkipRuleKeeps, TakeRuleKeeps, LinesDoneKeeps, ConvertKeeps, EndKeeps DEF PcreNext
<1>3. HsCompileStep \/ Load \/ LoadFails \/ Terminated \/ UNCHANGED vars => UNCHANGED pcre_vars
  BY HsCompileLeavesPcre2Mnrl DEF Load, LoadFails, Terminated, vars
<1> QED
  BY <1>1, <1>2, <1>3 DEF Next

LEMMA PcreInvHolds == Spec => []PcreInv
BY PcreInvAtFirst, PcreInvStays, PTL DEF Spec

(* What the exported file holds of the n rules that are whole.               *)
LEMMA ExportedIs ==
  ASSUME PcreInv, HasExported
  PROVE  \E n \in 0..Len(expressions) :
           /\ whole = 1..n /\ (stray => n < Len(expressions))
           /\ mnrl = Exported(SubSeq(expressions, 1, n),
                              IF stray THEN SubSeq(expressions, n + 1, n + 1) ELSE <<>>)
           /\ Len(mnrl.rules) = n /\ DOMAIN mnrl.rules = 1..n
           /\ \A k \in 1..n : mnrl.rules[k] = expressions[k]
           /\ IF stray THEN Len(mnrl.pieces) = 1 /\ mnrl.pieces[1] = expressions[n + 1]
                       ELSE mnrl.pieces = <<>>
<1>1. PICK n \in 0..Len(expressions) :
        /\ whole = 1..n /\ Cardinality(whole) = n /\ (stray => n < Len(expressions))
        /\ SubSeq(expressions, 1, n) \in Seq(RuleType) /\ Len(SubSeq(expressions, 1, n)) = n
        /\ \A k \in 1..n : SubSeq(expressions, 1, n)[k] = expressions[k]
        /\ stray => /\ Len(SubSeq(expressions, n + 1, n + 1)) = 1
                    /\ SubSeq(expressions, n + 1, n + 1)[1] = expressions[n + 1]
  BY WholeIs
<1>2. mnrl = Exported(SubSeq(expressions, 1, n),
                      IF stray THEN SubSeq(expressions, n + 1, n + 1) ELSE <<>>)
  BY <1>1 DEF PcreInv, Output
<1>3. mnrl.rules = SubSeq(expressions, 1, n)
  BY <1>2 DEF Exported
<1>4. mnrl.pieces = IF stray THEN SubSeq(expressions, n + 1, n + 1) ELSE <<>>
  BY <1>2 DEF Exported
<1>5. Len(mnrl.rules) = n /\ DOMAIN mnrl.rules = 1..n
  BY <1>1, <1>3
<1> QED
  BY <1>1, <1>2, <1>3, <1>4, <1>5

LEMMA RulesAreKeptByInv == PcreInv => RulesAreKept
<1> SUFFICES ASSUME PcreInv, HasExported
             PROVE  /\ \A j, k \in DOMAIN mnrl.rules :
                         j < k => mnrl.rules[j].id < mnrl.rules[k].id
                    /\ \A k \in DOMAIN mnrl.rules :
                         LET line == rules[mnrl.rules[k].id + 1]
                         IN WellFormed(line) => Parsed(line, mnrl.rules[k])
                    /\ call_outcome = HS_SUCCESS =>
                         \A n \in DOMAIN rules :
                           WellFormed(rules[n]) =>
                             (Understood(rules[n])
                                <=> \E k \in DOMAIN mnrl.rules : mnrl.rules[k].id = n - 1)
  BY DEF RulesAreKept
<1>1. PICK n \in 0..Len(expressions) :
        /\ whole = 1..n
        /\ DOMAIN mnrl.rules = 1..n /\ \A k \in 1..n : mnrl.rules[k] = expressions[k]
  BY ExportedIs
<1>2. /\ expressions \in Seq(RuleType) /\ Len(expressions) \in Nat
      /\ rules \in RuleFiles /\ i \in 0..Len(rules)
  BY DEF PcreInv, LinesRead
<1>3. Len(rules) \in Nat /\ DOMAIN rules = 1..Len(rules)
      /\ \A l \in 1..Len(rules) : rules[l] \in Seq(STRING)
  BY <1>2, FilesAreLines
<1>4. ASSUME NEW k \in 1..n
      PROVE  /\ k \in 1..Len(expressions) /\ expressions[k].id \in Nat
             /\ expressions[k].id + 1 \in 1..i /\ expressions[k].id + 1 \in 1..Len(rules)
             /\ Taken(rules[expressions[k].id + 1])
             /\ expressions[k] = Rule(rules[expressions[k].id + 1], expressions[k].id)
  <2>1. k \in 1..Len(expressions)
    BY <1>2
  <2>2. expressions[k] \in RuleType
    BY <1>2, <2>1
  <2>3. expressions[k].id \in Nat
    BY <2>2 DEF RuleType
  <2>4. /\ expressions[k].id + 1 \in 1..i /\ Taken(rules[expressions[k].id + 1])
        /\ expressions[k] = Rule(rules[expressions[k].id + 1], expressions[k].id)
    BY <2>1 DEF PcreInv, LinesRead
  <2> QED
    BY <1>2, <1>3, <2>1, <2>3, <2>4
<1>5. ASSUME NEW j \in 1..n, NEW k \in 1..n, j < k
      PROVE  mnrl.rules[j].id < mnrl.rules[k].id
  BY <1>1, <1>4, <1>5 DEF PcreInv, LinesRead
<1>6. ASSUME NEW k \in 1..n, WellFormed(rules[mnrl.rules[k].id + 1])
      PROVE  Parsed(rules[mnrl.rules[k].id + 1], mnrl.rules[k])
  <2> DEFINE id == expressions[k].id
             line == rules[id + 1]
  <2>1. /\ line \in Seq(STRING) /\ id \in Nat /\ Taken(line) /\ WellFormed(line)
        /\ mnrl.rules[k] = Rule(line, id) /\ rules[mnrl.rules[k].id + 1] = line
    BY <1>1, <1>3, <1>4, <1>6
  <2>2. Parsed(line, Rule(line, id))
    BY <2>1, WellFormedIsParsed
  <2> QED
    BY <2>1, <2>2
<1>7. ASSUME call_outcome = HS_SUCCESS, NEW m \in 1..Len(rules)
      PROVE  Understood(rules[m]) <=> \E k \in 1..n : mnrl.rules[k].id = m - 1
  <2>1. i = Len(rules) /\ whole = 1..Len(expressions)
    BY <1>7 DEF PcreInv, Call
  <2>2. n = Len(expressions)
    BY <1>1, <1>2, <2>1
  <2>3. Understood(rules[m]) <=> Taken(rules[m])
    BY <1>3, UnderstoodIsTaken
  <2>4. ASSUME NEW k \in 1..n, mnrl.rules[k].id = m - 1
        PROVE  Understood(rules[m])
    <3>1. mnrl.rules[k].id = expressions[k].id /\ expressions[k].id + 1 = m
      BY <1>1, <1>4, <2>4
    <3> QED
      BY <1>4, <2>3, <3>1
  <2>5. ASSUME Understood(rules[m])
        PROVE  \E k \in 1..n : mnrl.rules[k].id = m - 1
    <3>1. PICK k \in 1..n : expressions[k].id + 1 = m
      BY <2>1, <2>2, <2>3, <2>5 DEF PcreInv, LinesRead
    <3>2. expressions[k].id \in Nat /\ mnrl.rules[k].id = expressions[k].id
      BY <1>1, <1>4
    <3>3. expressions[k].id = m - 1
      BY <3>1, <3>2
    <3> QED
      BY <3>2, <3>3
  <2> QED
    BY <2>4, <2>5
<1> QED
  BY <1>1, <1>3, <1>5, <1>6, <1>7

LEMMA MessageIsRightByInv == PcreInv => MessageTellsWhatIsMissing
<1> SUFFICES ASSUME PcreInv, HasExported
             PROVE  /\ compile_err.kind = "compile" =>
                         /\ Quoted \in DOMAIN expressions
                         /\ mnrl = Exported(SubSeq(expressions, 1, Quoted - 1), <<>>)
                    /\ compile_err.kind = "param" => mnrl = Exported(<<>>, <<>>)
  BY DEF MessageTellsWhatIsMissing
<1>1. PICK n \in 0..Len(expressions) :
        /\ whole = 1..n
        /\ mnrl = Exported(SubSeq(expressions, 1, n),
                           IF stray THEN SubSeq(expressions, n + 1, n + 1) ELSE <<>>)
  BY ExportedIs
<1>2. expressions \in Seq(RuleType) /\ Len(expressions) \in Nat /\ n \in Nat
  BY DEF PcreInv, LinesRead
<1>3. \A m \in Nat : 1..n = 1..m => n = m
  BY <1>2
<1>4. ASSUME compile_err.kind = "compile"
      PROVE  /\ Quoted \in DOMAIN expressions
             /\ mnrl = Exported(SubSeq(expressions, 1, Quoted - 1), <<>>)
  <2>1. /\ compile_err.expression \in 0..(Len(expressions) - 1)
        /\ whole = 1..compile_err.expression /\ ~stray
    BY <1>4 DEF PcreInv, Call
  <2>2. compile_err.expression = n
    BY <1>1, <1>2, <1>3, <2>1
  <2>3. Quoted \in DOMAIN expressions /\ Quoted - 1 = n
    BY <1>2, <2>1, <2>2 DEF Quoted
  <2> QED
    BY <1>1, <2>1, <2>3
<1>5. ASSUME compile_err.kind = "param"
      PROVE  mnrl = Exported(<<>>, <<>>)
  <2>1. whole = 1..0 /\ ~stray
    BY <1>5 DEF PcreInv, Call
  <2>2. n = 0
    BY <1>1, <1>2, <1>3, <2>1
  <2>3. SubSeq(expressions, 1, 0) = <<>>
    BY SubSeqEmpty
  <2> QED
    BY <1>1, <2>1, <2>2, <2>3
<1> QED
  BY <1>4, <1>5

(* pcre2mnrl's main keeps three parallel vectors, skips lines, and exports   *)
(* the network even of a call that failed. For any file of rules, what is in *)
(* the exported network is in the order of the lines, and where the line     *)
(* whose number a rule carries begins with the first of its two slashes, the *)
(* rule has the text between them and the flags behind. After a call that    *)
(* succeeds no such line is missing but those with unknown modifiers. (What  *)
(* becomes of other lines the violated run of MCToolchain shows.)            *)
THEOREM RulesKeepTheirLines == Spec => []RulesAreKept
BY PcreInvHolds, RulesAreKeptByInv, PTL

(* The message quotes expressions[compile_err->expression] after the call    *)
(* failed: the index is in bounds when the error is about an expression, and *)
(* the network exported behind it is that of the rules before the one quoted. *)
THEOREM MessagesAreRight == Spec => []MessageTellsWhatIsMissing
BY PcreInvHolds, MessageIsRightByInv, PTL

-----------------------------------------------------------------------------
(* The two outputs.                                                        *)

(* Until it opens its output, hscompile has not touched it; it can fail only *)
(* before that.                                                              *)
Kept ==
  /\ pcre_pc # "exited" => mnrl = old.mnrl
  /\ pcre_code \notin {-1, 0} /\ ~mnrl_lost => mnrl = old.mnrl
  /\ pc \in {"compile", "map", "database", "open", "write_map", "write_db", "close", "exited"}
  /\ pc # "exited" => code = -1
  /\ pc \in {"compile", "map", "database", "open"} => compiled = old.compiled
  /\ pc = "exited" => code = 0 \/ compiled = old.compiled

LEMMA Pcre2MnrlKeepsFiles ==
  ASSUME PcreInv, Kept, Pcre2Mnrl
  PROVE  Kept'
<1>1. PcreNext /\ UNCHANGED <<pc, code, compiled, old>>
  BY DEF Pcre2Mnrl, hscompile_vars
<1>2. pcre_pc # "exited" /\ pcre_code = -1 /\ mnrl = old.mnrl /\ mnrl_lost = FALSE
  BY <1>1 DEF PcreNext, NotSurrounded, SkipRule, TakeRule, AtLine, LinesDone, Convert, ReportError,
     Export, ExportFails, PcreInv, Output, Kept
<1>3. CASE UNCHANGED output
  BY <1>1, <1>2, <1>3 DEF Kept, output
<1>4. CASE Export \/ ExportFails
  <2>1. pcre_pc' = "exited" /\ (pcre_code' = 0 \/ mnrl_lost')
    BY <1>4 DEF Export, ExportFails, PcreExit
  <2> QED
    BY <1>1, <2>1 DEF Kept
<1> QED
  BY <1>1, <1>3, <1>4 DEF PcreNext, NotSurrounded, SkipRule, TakeRule, LinesDone, Convert, ReportError

LEMMA HsCompileKeepsFiles ==
  ASSUME Kept, HsCompileStep
  PROVE  Kept'
<1>1. /\ HsCompile!Next /\ UNCHANGED <<pcre_pc, mnrl, pcre_code, mnrl_lost, old>>
  BY HsCompileLeavesPcre2Mnrl DEF HsCompileStep, pcre_vars, output
<1>2. CASE HsCompile!hs_compile_mnrl \/ HsCompile!CompileFails \/ HsCompile!CompileStops
  BY <1>1, <1>2 DEF Kept, HsCompile!hs_compile_mnrl, HsCompile!CompileFails,
     HsCompile!CompileStops, HsCompile!Exit
<1>3. CASE HsCompile!serialize_mapping \/ HsCompile!SerializeDatabase \/ HsCompile!SerializeDatabaseFails
  BY <1>1, <1>3 DEF Kept, HsCompile!serialize_mapping, HsCompile!SerializeDatabase,
     HsCompile!SerializeDatabaseFails, HsCompile!Exit
<1>4. CASE HsCompile!Open \/ HsCompile!OpenFails
  BY <1>1, <1>4 DEF Kept, HsCompile!Open, HsCompile!OpenFails, HsCompile!Exit
<1>5. CASE HsCompile!WriteMap \/ HsCompile!WriteDb \/ HsCompile!Close
  BY <1>1, <1>5 DEF Kept, HsCompile!WriteMap, HsCompile!WriteDb, HsCompile!Close, HsCompile!Exit
<1> QED
  BY <1>1, <1>2, <1>3, <1>4, <1>5 DEF HsCompile!Next

LEMMA KeptHolds == Spec => []Kept
<1>1. Init => Kept
  BY DEF Init, PcreInit, HsCompile!Init, Kept
<1>2. PcreInv /\ Kept /\ [Next]_vars => Kept'
  <2> SUFFICES ASSUME PcreInv, Kept, [Next]_vars
               PROVE  Kept'
    OBVIOUS
  <2>1. CASE UNCHANGED <<pcre_vars, hscompile_vars, old>>
    <3>1. UNCHANGED <<pcre_pc, mnrl, pcre_code, mnrl_lost, pc, code, compiled, old>>
      BY <2>1 DEF pcre_vars, hscompile_vars, output
    <3> QED
      BY <3>1 DEF Kept
  <2> QED
    BY <2>1, Pcre2MnrlKeepsFiles, HsCompileKeepsFiles
       DEF Next, Load, LoadFails, Terminated, vars
<1> QED
  BY <1>1, <1>2, PcreInvHolds, PTL DEF Spec

(* Both programs write their output last. A pcre2mnrl that ends with a code  *)
(* other than 0, unless the export broke off, and an hscompile that does,    *)
(* for whatever reason, leave the file that was there as they found it.      *)
THEOREM FailuresKeepTheFiles == Spec => []FailureKeepsTheFile
<1>1. Kept => FailureKeepsTheFile
  BY DEF Kept, FailureKeepsTheFile
<1> QED
  BY <1>1, KeptHolds, PTL

-----------------------------------------------------------------------------
(* The compiled file of a network, or as much of it as was written: the      *)
(* first a units of the map, then the first b of the database.               *)

Count(net)     == Cardinality(HsCompile!Compilation!Reporters(net))
Numbering(net) == HsCompile!Compilation!NumberingOf(net)
GraphOf(net)   == HsCompile!Compilation!CompiledOf(net)
MapPart(net)   == HsCompile!MapUnits(Numbering(net))
GraphPart(net) == HsCompile!DbUnits(GraphOf(net))
Written(net, a, b) == SubSeq(MapPart(net), 1, a) \o SubSeq(GraphPart(net), 1, b)

UnitsOf(net) == {<<"header", Count(net)>>}
                  \cup {<<"entry", Numbering(net)[k]>> : k \in 1..Count(net)}
                  \cup {<<"db", 1, GraphOf(net)>>, <<"db", 2, GraphOf(net)>>}

LEMMA NumberingIs ==
  ASSUME NEW net, net.size \in Nat
  PROVE  /\ Count(net) \in Nat /\ DOMAIN Numbering(net) = 1..Count(net) /\ Len(Numbering(net)) = Count(net)
         /\ Numbering(net) = [k \in 1..Count(net) |-> Numbering(net)[k]]
         /\ \A k \in 1..Count(net) :
              Numbering(net)[k] = Entry(k - 1, Numbering(net)[k].name, Numbering(net)[k].report)
<1> DEFINE R == HsCompile!Compilation!Reporters(net)
<1>1. Count(net) \in Nat
  <2>1. R \in SUBSET (1..net.size)
    BY DEF HsCompile!Compilation!Reporters
  <2> QED
    BY <2>1, PositionsAreFinite DEF Count
<1> DEFINE e(k) == HsCompile!Compilation!Entry(k - 1, HsCompile!Compilation!Reporter(net, k - 1),
                     net.nodes[HsCompile!Compilation!Reporter(net, k - 1)].rid)
<1>2. Numbering(net) = [k \in 1..Count(net) |-> e(k)]
  BY DEF Numbering, Count, HsCompile!Compilation!NumberingOf, Cardinality,
     HsCompile!Compilation!Cardinality
<1>3. \A k \in 1..Count(net) : e(k) = Entry(k - 1, e(k).name, e(k).report)
  BY DEF Entry, HsCompile!Compilation!Entry
<1> HIDE DEF e
<1>4. Len(Numbering(net)) = Count(net)
  BY <1>1, <1>2
<1> QED
  BY <1>1, <1>2, <1>3, <1>4

LEMMA UnitsAre ==
  ASSUME NEW net, net.size \in Nat
  PROVE  /\ MapPart(net) \in Seq(UnitsOf(net)) /\ Len(MapPart(net)) = Count(net) + 1
         /\ MapPart(net)[1] = <<"header", Count(net)>>
         /\ \A k \in 1..Count(net) : MapPart(net)[k + 1] = <<"entry", Numbering(net)[k]>>
         /\ GraphPart(net) \in Seq(UnitsOf(net)) /\ Len(GraphPart(net)) = 2
         /\ GraphPart(net)[1] = <<"db", 1, GraphOf(net)>>
         /\ GraphPart(net)[2] = <<"db", 2, GraphOf(net)>>
<1> DEFINE c == Count(net)
           h == <<"header", c>>
           U == UnitsOf(net)
           q == [k \in 1..c |-> <<"entry", Numbering(net)[k]>>]
<1>1. c \in Nat /\ DOMAIN Numbering(net) = 1..c /\ Len(Numbering(net)) = c
  BY NumberingIs
<1>2. h \in U /\ \A k \in 1..c : <<"entry", Numbering(net)[k]>> \in U
  BY DEF UnitsOf
<1>3. <<"db", 1, GraphOf(net)>> \in U /\ <<"db", 2, GraphOf(net)>> \in U
  BY DEF UnitsOf
<1>4. MapPart(net) = <<h>> \o q
  BY <1>1 DEF MapPart, HsCompile!MapUnits
<1>5. GraphPart(net) = <<<<"db", 1, GraphOf(net)>>, <<"db", 2, GraphOf(net)>>>>
  BY DEF GraphPart, HsCompile!DbUnits
<1>6. q \in [1..c -> U]
  BY <1>2
<1>7. \A k \in 1..c : q[k] = <<"entry", Numbering(net)[k]>>
  OBVIOUS
<1> HIDE DEF c, h, U, q
<1>8. q \in Seq(U) /\ Len(q) = c
  BY <1>1, <1>6, SeqIs
<1>9. <<h>> \in Seq(U) /\ Len(<<h>>) = 1 /\ <<h>>[1] = h
  BY <1>2
<1>10. /\ <<h>> \o q \in Seq(U) /\ Len(<<h>> \o q) = Len(<<h>>) + Len(q)
       /\ \A k \in 1..(Len(<<h>>) + Len(q)) :
            (<<h>> \o q)[k] = IF k <= Len(<<h>>) THEN <<h>>[k] ELSE q[k - Len(<<h>>)]
  BY <1>8, <1>9, ConcatProperties
<1>11. /\ MapPart(net) \in Seq(U) /\ Len(MapPart(net)) = c + 1
       /\ \A k \in 1..(1 + c) : MapPart(net)[k] = IF k <= 1 THEN <<h>>[k] ELSE q[k - 1]
  BY <1>1, <1>4, <1>8, <1>9, <1>10
<1>12. MapPart(net)[1] = h
  BY <1>1, <1>9, <1>11
<1>13. ASSUME NEW k \in 1..c
       PROVE  MapPart(net)[k + 1] = <<"entry", Numbering(net)[k]>>
  <2>1. k + 1 \in 1..(1 + c) /\ ~(k + 1 <= 1) /\ (k + 1) - 1 = k
    BY <1>1
  <2> QED
    BY <1>7, <1>11, <2>1
<1>14. GraphPart(net) \in Seq(U) /\ Len(GraphPart(net)) = 2
  BY <1>3, <1>5
<1> QED
  BY <1>5, <1>11, <1>12, <1>13, <1>14 DEF c, h, U

(* Some first units of a sequence. *)
LEMMA PrefixIs ==
  ASSUME NEW S, NEW s \in Seq(S), NEW n \in 0..Len(s)
  PROVE  /\ SubSeq(s, 1, n) \in Seq(S) /\ Len(SubSeq(s, 1, n)) = n
         /\ \A k \in 1..n : SubSeq(s, 1, n)[k] = s[k]
<1>1. Len(s) \in Nat /\ n \in Nat /\ \A k \in 1..n : s[k] \in S
  OBVIOUS
<1>2. /\ SubSeq(s, 1, n) \in Seq(S) /\ Len(SubSeq(s, 1, n)) = IF 1 <= n THEN n - 1 + 1 ELSE 0
      /\ \A k \in 1..(n - 1 + 1) : SubSeq(s, 1, n)[k] = s[1 + k - 1]
  BY <1>1, SubSeqProperties
<1> QED
  BY <1>1, <1>2

LEMMA WrittenIs ==
  ASSUME NEW net, net.size \in Nat, NEW a \in 0..(Count(net) + 1), NEW b \in 0..2
  PROVE  /\ Written(net, a, b) \in Seq(UnitsOf(net)) /\ Len(Written(net, a, b)) = a + b
         /\ \A k \in 1..a : Written(net, a, b)[k] = MapPart(net)[k]
         /\ \A k \in 1..b : Written(net, a, b)[a + k] = GraphPart(net)[k]
<1> DEFINE U == UnitsOf(net)
           s == SubSeq(MapPart(net), 1, a)
           t == SubSeq(GraphPart(net), 1, b)
<1>1. /\ MapPart(net) \in Seq(U) /\ Len(MapPart(net)) = Count(net) + 1
      /\ GraphPart(net) \in Seq(U) /\ Len(GraphPart(net)) = 2
  BY UnitsAre
<1>2. Count(net) \in Nat /\ a \in Nat /\ b \in Nat
  BY NumberingIs
<1>3. /\ s \in Seq(U) /\ Len(s) = a /\ \A k \in 1..a : s[k] = MapPart(net)[k]
      /\ t \in Seq(U) /\ Len(t) = b /\ \A k \in 1..b : t[k] = GraphPart(net)[k]
  BY <1>1, PrefixIs
<1>4. Written(net, a, b) = s \o t
  BY DEF Written
<1> HIDE DEF s, t, U
<1>5. /\ s \o t \in Seq(U) /\ Len(s \o t) = Len(s) + Len(t)
      /\ \A k \in 1..(Len(s) + Len(t)) : (s \o t)[k] = IF k <= Len(s) THEN s[k] ELSE t[k - Len(s)]
  BY <1>3, ConcatProperties
<1>6. /\ s \o t \in Seq(U) /\ Len(s \o t) = a + b
      /\ \A k \in 1..(a + b) : (s \o t)[k] = IF k <= a THEN s[k] ELSE t[k - a]
  BY <1>3, <1>5
<1>7. \A k \in 1..a : k \in 1..(a + b) /\ k <= a
  BY <1>2
<1>8. ASSUME NEW k \in 1..b
      PROVE  (s \o t)[a + k] = GraphPart(net)[k]
  <2>1. a + k \in 1..(a + b) /\ ~(a + k <= a) /\ (a + k) - a = k
    BY <1>2
  <2> QED
    BY <1>3, <1>6, <2>1
<1>9. \A k \in 1..a : (s \o t)[k] = MapPart(net)[k]
  BY <1>3, <1>6, <1>7
<1> QED
  BY <1>4, <1>6, <1>8, <1>9 DEF U

(* Of such a file, hsrun reads the entries, and then the database.           *)
LEMMA WholeIsReadBack ==
  ASSUME NEW net, net.size \in Nat
  PROVE  LET file == Written(net, Count(net) + 1, 2)
         IN /\ Readable(file) /\ MapIn(file) = Numbering(net)
            /\ DbPart(file) = GraphPart(net) /\ DbPart(file)[1][3] = GraphOf(net)
<1> DEFINE c == Count(net)
           file == Written(net, c + 1, 2)
           U == UnitsOf(net)
<1>1. c \in Nat /\ c + 1 \in 0..(c + 1) /\ 2 \in 0..2
  BY NumberingIs
<1>2. /\ file \in Seq(U) /\ Len(file) = (c + 1) + 2
      /\ \A k \in 1..(c + 1) : file[k] = MapPart(net)[k]
      /\ \A k \in 1..2 : file[(c + 1) + k] = GraphPart(net)[k]
  BY <1>1, WrittenIs
<1> HIDE DEF file
<1>3. /\ MapPart(net)[1] = <<"header", c>>
      /\ \A k \in 1..c : MapPart(net)[k + 1] = <<"entry", Numbering(net)[k]>>
      /\ GraphPart(net) \in Seq(U) /\ Len(GraphPart(net)) = 2
      /\ GraphPart(net)[1] = <<"db", 1, GraphOf(net)>>
      /\ GraphPart(net)[2] = <<"db", 2, GraphOf(net)>>
  BY UnitsAre
<1>4. file # <<>> /\ file[1] = <<"header", c>> /\ file[1][1] = "header" /\ file[1][2] = c
  BY <1>1, <1>2, <1>3
<1>5. \A k \in 1..Len(file) : file[k] \in U
  BY <1>2
<1> HIDE DEF c, U
<1>6. Min({c + 1, Len(file)}) = c + 1
  BY <1>1, <1>2, Min2
<1>7. /\ Entries(file) \in Seq(U) /\ Len(Entries(file)) = c
      /\ \A k \in 1..c : Entries(file)[k] = <<"entry", Numbering(net)[k]>>
  <2>1. Entries(file) = SubSeq(file, 2, c + 1)
    BY <1>4, <1>6 DEF Entries
  <2>2. \A k \in 2..(c + 1) : file[k] \in U
    BY <1>1, <1>2, <1>5
  <2>3. /\ SubSeq(file, 2, c + 1) \in Seq(U)
        /\ Len(SubSeq(file, 2, c + 1)) = IF 2 <= c + 1 THEN (c + 1) - 2 + 1 ELSE 0
        /\ \A k \in 1..((c + 1) - 2 + 1) : SubSeq(file, 2, c + 1)[k] = file[2 + k - 1]
    BY <1>1, <2>2, SubSeqProperties
  <2>4. ASSUME NEW k \in 1..c
        PROVE  Entries(file)[k] = <<"entry", Numbering(net)[k]>>
    <3>1. k \in 1..((c + 1) - 2 + 1) /\ 2 + k - 1 = k + 1 /\ k + 1 \in 1..(c + 1)
      BY <1>1
    <3>2. file[k + 1] = <<"entry", Numbering(net)[k]>>
      BY <1>2, <1>3, <3>1 DEF c
    <3> QED
      BY <2>1, <2>3, <3>1, <3>2
  <2> QED
    BY <1>1, <2>1, <2>3, <2>4
<1>8. DbPart(file) = GraphPart(net)
  <2> DEFINE d == SubSeq(file, c + 2, Len(file))
  <2>1. d = DbPart(file)
    BY <1>4 DEF DbPart
  <2>2. c + 2 \in Int /\ Len(file) \in Int /\ \A k \in (c + 2)..Len(file) : file[k] \in U
    BY <1>1, <1>2, <1>5
  <2>3. /\ d \in Seq(U) /\ Len(d) = IF c + 2 <= Len(file) THEN Len(file) - (c + 2) + 1 ELSE 0
        /\ \A k \in 1..(Len(file) - (c + 2) + 1) : d[k] = file[(c + 2) + k - 1]
    BY <2>2, SubSeqProperties
  <2> HIDE DEF d
  <2>4. Len(file) - (c + 2) + 1 = 2 /\ c + 2 <= Len(file)
    BY <1>1, <1>2
  <2>5. ASSUME NEW k \in 1..2
        PROVE  d[k] = GraphPart(net)[k]
    <3>1. (c + 2) + k - 1 = (c + 1) + k
      BY <1>1
    <3> QED
      BY <1>2, <2>3, <2>4, <3>1
  <2> QED
    BY <1>3, <2>1, <2>3, <2>4, <2>5, SeqEqual
<1>9. DbPart(file)[1][3] = GraphOf(net) /\ DbPart(file)[1][1] = "db" /\ Len(DbPart(file)) > 0
  BY <1>3, <1>8
<1>10. DbPart(file) = HsCompile!DbUnits(DbPart(file)[1][3])
  BY <1>8, <1>9 DEF GraphPart
<1>11. Readable(file)
  <2>1. \A k \in DOMAIN Entries(file) : Entries(file)[k][1] = "entry"
    BY <1>7
  <2> QED
    BY <1>4, <1>7, <1>9, <1>10, <2>1 DEF Readable
<1>12. MapIn(file) = Numbering(net)
  <2>1. /\ Numbering(net) = [k \in 1..c |-> Numbering(net)[k]]
        /\ \A k \in 1..c : Numbering(net)[k] = Entry(k - 1, Numbering(net)[k].name, Numbering(net)[k].report)
    BY NumberingIs DEF c
  <2>2. DOMAIN Entries(file) = 1..c /\ \A k \in 1..c : Entries(file)[k][2] = Numbering(net)[k]
    BY <1>7
  <2>3. InsertAll(Entries(file)) = Numbering(net)
    BY <1>1, <2>1, <2>2, InsertsInOrder
  <2> QED
    BY <2>3 DEF MapIn, InsertAll, InsertUnit, FoldLeft, MapThenFoldSet
<1> QED
  BY <1>8, <1>9, <1>11, <1>12 DEF c, file

(* What is cut off anywhere is not read as a map and a database. *)
LEMMA CutOffIsUnreadable ==
  ASSUME NEW net, net.size \in Nat, NEW a \in 0..(Count(net) + 1), NEW b \in 0..2,
         Readable(Written(net, a, b))
  PROVE  a = Count(net) + 1 /\ b = 2
<1> DEFINE c == Count(net)
           file == Written(net, a, b)
           U == UnitsOf(net)
<1>1. c \in Nat /\ a \in Nat /\ b \in Nat
  BY NumberingIs
<1>2. /\ file \in Seq(U) /\ Len(file) = a + b
      /\ \A k \in 1..a : file[k] = MapPart(net)[k]
      /\ \A k \in 1..b : file[a + k] = GraphPart(net)[k]
  BY WrittenIs
<1> HIDE DEF file
<1>3. /\ MapPart(net)[1] = <<"header", c>>
      /\ \A k \in 1..c : MapPart(net)[k + 1] = <<"entry", Numbering(net)[k]>>
      /\ GraphPart(net)[1] = <<"db", 1, GraphOf(net)>>
      /\ GraphPart(net)[2] = <<"db", 2, GraphOf(net)>>
      /\ Len(GraphPart(net)) = 2
  BY UnitsAre
<1>4. /\ file # <<>> /\ file[1][1] = "header" /\ Len(Entries(file)) = file[1][2]
      /\ \A k \in DOMAIN Entries(file) : Entries(file)[k][1] = "entry"
      /\ Len(DbPart(file)) > 0 /\ DbPart(file) = HsCompile!DbUnits(DbPart(file)[1][3])
  BY DEF Readable, file
<1>5. \A k \in 1..Len(file) : file[k] \in U
  BY <1>2
<1> HIDE DEF c, U
<1>6. a >= 1
  <2> SUFFICES ASSUME a = 0
               PROVE  FALSE
    BY <1>1
  <2>1. b >= 1
    BY <1>1, <1>2, <1>4
  <2>2. 1 \in 1..b /\ a + 1 = 1
    BY <1>1, <2>1
  <2>3. file[1] = <<"db", 1, GraphOf(net)>>
    BY <1>2, <1>3, <2>2
  <2> QED
    BY <1>4, <2>3
<1>7. file[1] = <<"header", c>> /\ file[1][2] = c
  BY <1>1, <1>2, <1>3, <1>6
<1> DEFINE m == Min({c + 1, Len(file)})
<1>8. m \in Nat /\ m <= c + 1 /\ m <= a + b
  BY <1>1, <1>2, Min2
<1> HIDE DEF m
<1>9. /\ Entries(file) \in Seq(U) /\ Len(Entries(file)) = IF 2 <= m THEN m - 2 + 1 ELSE 0
      /\ \A k \in 1..(m - 2 + 1) : Entries(file)[k] = file[2 + k - 1]
  <2>1. Entries(file) = SubSeq(file, 2, m)
    BY <1>7 DEF Entries, m
  <2>2. \A k \in 2..m : file[k] \in U
    BY <1>1, <1>2, <1>5, <1>8
  <2> QED
    BY <1>8, <2>1, <2>2, SubSeqProperties
<1>10. c >= 1 => m = c + 1
  BY <1>1, <1>4, <1>7, <1>8, <1>9
<1>11. a = c + 1
  <2> SUFFICES ASSUME a < c + 1
               PROVE  FALSE
    BY <1>1 DEF c
  <2>1. c >= 1 /\ a \in 1..c /\ m = c + 1 /\ c + 1 <= a + b
    BY <1>1, <1>6, <1>8, <1>10
  <2>2. Entries(file)[a] = file[a + 1] /\ a \in DOMAIN Entries(file)
    <3>1. a \in 1..(m - 2 + 1) /\ 2 + a - 1 = a + 1
      BY <1>1, <2>1
    <3>2. DOMAIN Entries(file) = 1..c
      BY <1>4, <1>7, <1>9
    <3> QED
      BY <1>9, <2>1, <3>1, <3>2
  <2>3. file[a + 1] = <<"db", 1, GraphOf(net)>>
    <3>1. 1 \in 1..b
      BY <1>1, <2>1
    <3> QED
      BY <1>2, <1>3, <3>1
  <2> QED
    BY <1>4, <2>2, <2>3
<1>12. b = 2
  <2>1. DbPart(file) = SubSeq(file, c + 2, Len(file))
    BY <1>7 DEF DbPart
  <2>2. \A k \in (c + 2)..Len(file) : file[k] \in U
    BY <1>1, <1>5
  <2>3. Len(DbPart(file)) = IF c + 2 <= Len(file) THEN Len(file) - (c + 2) + 1 ELSE 0
    BY <1>1, <1>2, <2>1, <2>2, SubSeqProperties
  <2>4. Len(DbPart(file)) = 2
    <3>1. \A g : Len(HsCompile!DbUnits(g)) = 2
      BY DEF HsCompile!DbUnits
    <3> QED
      BY <1>4, <3>1
  <2>5. Len(file) - (c + 2) + 1 = b /\ Len(file) \in Nat
    BY <1>1, <1>2, <1>11
  <2>6. c + 2 <= Len(file)
    <3> SUFFICES ASSUME ~(c + 2 <= Len(file))
                 PROVE  FALSE
      OBVIOUS
    <3>1. Len(DbPart(file)) = 0
      BY <2>3
    <3> QED
      BY <2>4, <3>1
  <2>7. Len(DbPart(file)) = b
    BY <2>3, <2>5, <2>6
  <2> QED
    BY <2>4, <2>7
<1> QED
  BY <1>11, <1>12 DEF c

(* A network as a record, each of its nodes too. *)
IsNet(net) ==
  /\ net.size \in Nat
  /\ net = [size |-> net.size, nodes |-> net.nodes, sinks |-> net.sinks]
  /\ \A k \in 1..net.size :
       net.nodes[k] = [type |-> net.nodes[k].type, symbols |-> net.nodes[k].symbols,
                       enable |-> net.nodes[k].enable, report |-> net.nodes[k].report,
                       reportEnable |-> net.nodes[k].reportEnable, rid |-> net.nodes[k].rid]

(* The nodes of a network in a file are made from the rules of the file.     *)
LEMMA NetworksAre ==
  ASSUME NEW file, NEW net \in NetworksOf(file)
  PROVE  /\ IsNet(net)
         /\ \A k \in 1..net.size : \E of \in DOMAIN Sources(file) :
              /\ net.nodes[k].symbols = Text(Sources(file)[of])
              /\ net.nodes[k].rid = Sources(file)[of].id
<1>1. PICK shape \in Shapes :
        /\ \A k \in DOMAIN shape.nodes : shape.nodes[k].of \in DOMAIN Sources(file)
        /\ net = NetworkOf(file, shape)
  BY DEF NetworksOf
<1> DEFINE n == Len(shape.nodes)
<1>2. n \in Nat /\ DOMAIN shape.nodes = 1..n
  BY ShapesAssumption
<1>3. /\ net.size = n
      /\ net = [size |-> net.size, nodes |-> net.nodes, sinks |-> net.sinks]
      /\ \A k \in 1..n : net.nodes[k] = NodeOf(Sources(file)[shape.nodes[k].of], shape.nodes[k])
  BY <1>1, <1>2 DEF NetworkOf
<1> HIDE DEF n
<1>4. ASSUME NEW k \in 1..net.size
      PROVE  /\ net.nodes[k] = [type |-> net.nodes[k].type, symbols |-> net.nodes[k].symbols,
                                enable |-> net.nodes[k].enable, report |-> net.nodes[k].report,
                                reportEnable |-> net.nodes[k].reportEnable,
                                rid |-> net.nodes[k].rid]
             /\ \E of \in DOMAIN Sources(file) :
                  /\ net.nodes[k].symbols = Text(Sources(file)[of])
                  /\ net.nodes[k].rid = Sources(file)[of].id
  <2>1. /\ net.nodes[k] = NodeOf(Sources(file)[shape.nodes[k].of], shape.nodes[k])
        /\ shape.nodes[k].of \in DOMAIN Sources(file)
    BY <1>1, <1>2, <1>3
  <2> QED
    BY <2>1 DEF NodeOf
<1> QED
  BY <1>2, <1>3, <1>4 DEF IsNet

(* What hscompile leaves out of a network is in neither its symbols nor its  *)
(* reports.                                                                  *)
LEMMA GraphIs ==
  ASSUME NEW net, IsNet(net)
  PROVE  /\ DOMAIN GraphOf(net).reports = HsCompile!Compilation!Reporters(net)
         /\ \A k \in HsCompile!Compilation!Reporters(net) :
              GraphOf(net).reports[k] = HsCompile!Compilation!ReportId(net, k)
         /\ \A k \in 1..net.size : GraphOf(net).reach[k] = net.nodes[k].symbols
<1> DEFINE less == HsCompile!Compilation!WithoutLast(net)
<1>1. less.size = net.size
  BY DEF HsCompile!Compilation!WithoutLast, IsNet
<1>2. ASSUME NEW k \in 1..net.size
      PROVE  /\ less.nodes[k].symbols = net.nodes[k].symbols
             /\ less.nodes[k].report = net.nodes[k].report
  <2> DEFINE node == net.nodes[k]
             enabled == IF node.enable = "ON_LAST" THEN "ON_ACTIVATE_IN" ELSE node.enable
  <2>1. less.nodes[k] = [node EXCEPT !.reportEnable = "ALWAYS", !.enable = enabled]
    BY DEF HsCompile!Compilation!WithoutLast, IsNet
  <2>2. DOMAIN node = {"type", "symbols", "enable", "report", "reportEnable", "rid"}
    <3>1. node = [type |-> node.type, symbols |-> node.symbols, enable |-> node.enable,
                  report |-> node.report, reportEnable |-> node.reportEnable, rid |-> node.rid]
      BY DEF IsNet
    <3>2. \A t, y, e, r, m, d :
            DOMAIN [type |-> t, symbols |-> y, enable |-> e, report |-> r, reportEnable |-> m, rid |-> d]
              = {"type", "symbols", "enable", "report", "reportEnable", "rid"}
      OBVIOUS
    <3> HIDE DEF node
    <3> QED
      BY ONLY <3>1, <3>2, Zenon
  <2> HIDE DEF node, enabled
  <2>3. less.nodes[k].symbols = node.symbols /\ less.nodes[k].report = node.report
    BY <2>1, <2>2
  <2> QED
    BY <2>3 DEF node
<1> HIDE DEF less
<1>3. HsCompile!Compilation!Reporters(less) = HsCompile!Compilation!Reporters(net)
  BY <1>1, <1>2 DEF HsCompile!Compilation!Reporters
<1>4. \A k : HsCompile!Compilation!ReportId(less, k) = HsCompile!Compilation!ReportId(net, k)
  BY <1>3 DEF HsCompile!Compilation!ReportId
<1>5. GraphOf(net) = HsCompile!Compilation!AutomatonOf(less)
  BY DEF GraphOf, HsCompile!Compilation!CompiledOf, less
<1>6. /\ GraphOf(net).reach = [k \in 1..less.size |-> less.nodes[k].symbols]
      /\ GraphOf(net).reports = [k \in HsCompile!Compilation!Reporters(less) |->
                                   HsCompile!Compilation!ReportId(less, k)]
  BY <1>5 DEF HsCompile!Compilation!AutomatonOf
<1> QED
  BY <1>1, <1>2, <1>3, <1>4, <1>6

LEMMA OldNetworksAre ==
  ASSUME NEW net \in OldNetworks
  PROVE  net.size \in Nat /\ FileOf(net) = Written(net, Count(net) + 1, 2)
<1>1. net.size \in Nat
  BY NetworksAre DEF OldNetworks, IsNet
<1>2. /\ MapPart(net) \in Seq(UnitsOf(net)) /\ Len(MapPart(net)) = Count(net) + 1
      /\ GraphPart(net) \in Seq(UnitsOf(net)) /\ Len(GraphPart(net)) = 2
  BY <1>1, UnitsAre
<1>3. /\ SubSeq(MapPart(net), 1, Count(net) + 1) = MapPart(net)
      /\ SubSeq(GraphPart(net), 1, 2) = GraphPart(net)
  <2>1. SubSeq(MapPart(net), 1, Len(MapPart(net))) = MapPart(net)
    BY <1>2, SubSeqFull
  <2>2. SubSeq(GraphPart(net), 1, Len(GraphPart(net))) = GraphPart(net)
    BY <1>2, SubSeqFull
  <2> QED
    BY <1>2, <2>1, <2>2
<1>4. FileOf(net) = MapPart(net) \o GraphPart(net)
  BY DEF FileOf, MapPart, GraphPart, Numbering, GraphOf
<1> QED
  BY <1>1, <1>3, <1>4 DEF Written

-----------------------------------------------------------------------------
(* Writing at the end of a file, and losing an end of it.                    *)

LEMMA NothingIsEmpty ==
  ASSUME NEW S, NEW s \in Seq(S)
  PROVE  SubSeq(s, 1, 0) = <<>> /\ s \o <<>> = s /\ \A n \in Nat : SubSeq(s, Len(s) + 1 + n, Len(s)) = <<>>
<1>1. Len(s) \in Nat
  OBVIOUS
<1>2. SubSeq(s, 1, 0) = <<>>
  <2>1. SubSeq(s, 1, 0) \in Seq(S) /\ Len(SubSeq(s, 1, 0)) = IF 1 <= 0 THEN 0 - 1 + 1 ELSE 0
    BY SubSeqProperties
  <2> QED
    BY <2>1, EmptySeq
<1>3. ASSUME NEW n \in Nat
      PROVE  SubSeq(s, Len(s) + 1 + n, Len(s)) = <<>>
  <2> DEFINE m == Len(s) + 1 + n
             l == Len(s)
  <2>1. m \in Int /\ l \in Int /\ ~(m <= l) /\ \A k \in m..l : s[k] \in S
    BY <1>1
  <2> HIDE DEF m, l
  <2>2. SubSeq(s, m, l) \in Seq(S) /\ Len(SubSeq(s, m, l)) = IF m <= l THEN l - m + 1 ELSE 0
    BY <2>1, SubSeqProperties
  <2>3. SubSeq(s, m, l) = <<>>
    BY <2>1, <2>2, EmptySeq
  <2> QED
    BY <2>3 DEF m, l
<1>4. s \o <<>> = s
  BY ConcatEmptySeq
<1> QED
  BY <1>2, <1>3, <1>4

(* What fwrite makes of a file that is open at its end.                      *)
LEMMA WriteAppends ==
  ASSUME NEW S, NEW file \in Seq(S), NEW part \in Seq(S)
  PROVE  SubSeq(file, 1, Len(file)) \o part
           \o SubSeq(file, Len(file) + Len(part) + 1, Len(file)) = file \o part
<1>1. SubSeq(file, 1, Len(file)) = file
  BY SubSeqFull
<1>2. Len(file) \in Nat /\ Len(part) \in Nat
  OBVIOUS
<1>3. Len(file) + Len(part) + 1 = Len(file) + 1 + Len(part)
  BY <1>2
<1>4. SubSeq(file, Len(file) + 1 + Len(part), Len(file)) = <<>>
  BY <1>2, NothingIsEmpty
<1>5. file \o part \in Seq(S)
  BY ConcatProperties
<1>6. (file \o part) \o <<>> = file \o part
  BY <1>5, NothingIsEmpty
<1> QED
  BY ONLY <1>1, <1>3, <1>4, <1>6, Zenon

LEMMA WrittenMap ==
  ASSUME NEW net, net.size \in Nat, NEW a \in 0..(Count(net) + 1)
  PROVE  Written(net, a, 0) = SubSeq(MapPart(net), 1, a)
<1>1. /\ MapPart(net) \in Seq(UnitsOf(net)) /\ Len(MapPart(net)) = Count(net) + 1
      /\ GraphPart(net) \in Seq(UnitsOf(net))
  BY UnitsAre
<1>2. SubSeq(MapPart(net), 1, a) \in Seq(UnitsOf(net))
  BY <1>1, PrefixIs
<1>3. /\ SubSeq(GraphPart(net), 1, 0) = <<>>
      /\ SubSeq(MapPart(net), 1, a) \o <<>> = SubSeq(MapPart(net), 1, a)
  BY <1>1, <1>2, NothingIsEmpty
<1> QED
  BY <1>3 DEF Written

LEMMA CutOffIsWritten ==
  ASSUME NEW net, net.size \in Nat, NEW a \in 0..(Count(net) + 1), NEW b \in 0..2,
         NEW n \in 0..(a + b)
  PROVE  \E c \in 0..(Count(net) + 1), d \in 0..2 : SubSeq(Written(net, a, b), 1, n) = Written(net, c, d)
<1> DEFINE file == Written(net, a, b)
           U == UnitsOf(net)
<1>1. Count(net) \in Nat /\ a \in Nat /\ b \in Nat /\ n \in Nat
  BY NumberingIs
<1>2. /\ file \in Seq(U) /\ Len(file) = a + b
      /\ \A k \in 1..a : file[k] = MapPart(net)[k]
      /\ \A k \in 1..b : file[a + k] = GraphPart(net)[k]
  BY WrittenIs
<1> HIDE DEF file
<1>3. /\ SubSeq(file, 1, n) \in Seq(U) /\ Len(SubSeq(file, 1, n)) = n
      /\ \A k \in 1..n : SubSeq(file, 1, n)[k] = file[k]
  BY <1>2, PrefixIs
<1>4. CASE n <= a
  <2>1. n \in 0..(Count(net) + 1) /\ 0 \in 0..2
    BY <1>1, <1>4
  <2>2. /\ Written(net, n, 0) \in Seq(U) /\ Len(Written(net, n, 0)) = n + 0
        /\ \A k \in 1..n : Written(net, n, 0)[k] = MapPart(net)[k]
    BY <2>1, WrittenIs
  <2>3. \A k \in 1..n : SubSeq(file, 1, n)[k] = Written(net, n, 0)[k]
    <3>1. \A k \in 1..n : k \in 1..a
      BY <1>1, <1>4
    <3> QED
      BY <1>2, <1>3, <2>2, <3>1
  <2>4. SubSeq(file, 1, n) = Written(net, n, 0)
    BY <1>1, <1>3, <2>2, <2>3, SeqEqual
  <2> QED
    BY <2>1, <2>4 DEF file
<1>5. CASE ~(n <= a)
  <2> DEFINE d == n - a
  <2>1. d \in 0..2 /\ d \in Nat /\ d <= b /\ a + d = n
    BY <1>1, <1>5
  <2> HIDE DEF d
  <2>2. /\ Written(net, a, d) \in Seq(U) /\ Len(Written(net, a, d)) = a + d
        /\ \A k \in 1..a : Written(net, a, d)[k] = MapPart(net)[k]
        /\ \A k \in 1..d : Written(net, a, d)[a + k] = GraphPart(net)[k]
    BY <2>1, WrittenIs
  <2>3. ASSUME NEW k \in 1..n
        PROVE  SubSeq(file, 1, n)[k] = Written(net, a, d)[k]
    <3>1. CASE k <= a
      <4>1. k \in 1..a
        BY <1>1, <3>1
      <4> QED
        BY <1>2, <1>3, <2>2, <4>1
    <3>2. CASE ~(k <= a)
      <4> DEFINE l == k - a
      <4>1. l \in 1..d /\ l \in 1..b /\ a + l = k
        BY <1>1, <2>1, <3>2
      <4> HIDE DEF l
      <4>2. file[a + l] = Written(net, a, d)[a + l]
        BY <1>2, <2>2, <4>1
      <4> QED
        BY <1>3, <4>1, <4>2
    <3> QED
      BY <3>1, <3>2
  <2>4. SubSeq(file, 1, n) = Written(net, a, d)
    BY <1>1, <1>3, <2>1, <2>2, <2>3, SeqEqual
  <2> QED
    BY <2>1, <2>4 DEF file
<1> QED
  BY <1>4, <1>5

-----------------------------------------------------------------------------
(* hscompile, and an hsrun beside it.                                      *)

(* The call has the network from the file that pcre2mnrl left, and what it   *)
(* returned is what goes into the output.                                    *)
Compiling ==
  /\ pc = "compile" => outcome = "pending"
  /\ pc \in {"map", "database", "open", "write_map", "write_db", "close"} => outcome = "HS_SUCCESS"
  /\ pc = "exited" /\ code = 0 => outcome = "HS_SUCCESS"
  /\ outcome = "HS_SUCCESS" =>
       /\ pcre_pc = "exited" /\ network \in NetworksOf(mnrl)
       /\ database.graph = GraphOf(network) /\ report_map = Numbering(network)
  /\ pc \in {"database", "open", "write_map", "write_db", "close"} => mapping_out = MapPart(network)
  /\ pc \in {"compile", "map", "database", "open"} => at = 0 /\ lost = FALSE

(* Once it is open, the file is the beginning of a map and, the map cut off  *)
(* or not, the beginning of a database.                                      *)
Opened == pc \in {"write_map", "write_db", "close"} \/ (pc = "exited" /\ code = 0)
WrittenTo(a, b) ==
  /\ compiled = Written(network, a, b)
  /\ pc = "write_map" => a = 0 /\ lost = FALSE
  /\ pc \in {"write_map", "write_db"} => b = 0 /\ at = a
  /\ pc # "write_map" /\ ~lost => a = Count(network) + 1
  /\ pc \in {"close", "exited"} /\ ~lost => b = 2
Writing ==
  Opened => \E a \in 0..(Count(network) + 1), b \in 0..2 : WrittenTo(a, b)

OldFile == old.compiled = HsCompile!NoUnits \/ \E net \in OldNetworks : old.compiled = FileOf(net)

(* hsrun has the map and the database of one network.                        *)
Reads(net) == run.map = Numbering(net) /\ run.db = GraphOf(net)
Scanning ==
  /\ DOMAIN run = {"pc", "code", "map", "db"}
  /\ run.pc = "scan" =>
       (\E net \in OldNetworks : Reads(net)) \/ (outcome = "HS_SUCCESS" /\ Reads(network))

ChainInv == Compiling /\ Writing /\ OldFile /\ Scanning

LEMMA ChainInvAtFirst == Init => ChainInv
<1> SUFFICES ASSUME Init
             PROVE  ChainInv
  OBVIOUS
<1>1. /\ pc = "compile" /\ outcome = "pending" /\ at = 0 /\ lost = FALSE /\ code = -1
      /\ compiled \in {FileOf(net) : net \in OldNetworks} \cup {HsCompile!NoUnits}
      /\ run.pc = "load" /\ DOMAIN run = {"pc", "code", "map", "db"} /\ old.compiled = compiled
  BY DEF Init, HsCompile!Init, HsCompile!Compilation!Init
<1> QED
  BY <1>1 DEF ChainInv, Compiling, Writing, Opened, OldFile, Scanning

(* The network that was compiled, however far it is written.                 *)
LEMMA NetworkIs ==
  ASSUME Compiling, outcome = "HS_SUCCESS"
  PROVE  IsNet(network) /\ network.size \in Nat /\ Count(network) \in Nat
<1>1. network \in NetworksOf(mnrl)
  BY DEF Compiling
<1>2. IsNet(network) /\ network.size \in Nat
  BY <1>1, NetworksAre DEF IsNet
<1> QED
  BY <1>2, NumberingIs

(* The call.                                                                 *)
LEMMA CallKeepsChain ==
  ASSUME ChainInv, HsCompileStep,
         HsCompile!hs_compile_mnrl \/ HsCompile!CompileFails \/ HsCompile!CompileStops
  PROVE  ChainInv'
<1>1. /\ pc = "compile" /\ outcome = "pending" /\ at = 0 /\ lost = FALSE
      /\ UNCHANGED <<mnrl, run, old, compiled, at, lost, pcre_pc, mapping_out>> /\ pcre_pc = "exited"
  BY DEF ChainInv, Compiling, HsCompileStep, HsCompile!hs_compile_mnrl, HsCompile!CompileFails,
     HsCompile!CompileStops
<1>2. OldFile' /\ Scanning'
  <2>1. run.pc = "scan" => \E net \in OldNetworks : Reads(net)
    BY <1>1 DEF ChainInv, Scanning
  <2> QED
    BY <1>1, <2>1 DEF ChainInv, Scanning, OldFile, Reads
<1>3. CASE HsCompile!hs_compile_mnrl
  <2>1. PICK net \in NetworksOf(mnrl) : HsCompile!Compilation!CompileTo(net)
    BY <1>3 DEF HsCompile!hs_compile_mnrl
  <2>2. /\ outcome' = "HS_SUCCESS" /\ network' = net /\ database'.graph = GraphOf(net)
        /\ report_map' = Numbering(net)
    BY <2>1 DEF HsCompile!Compilation!CompileTo, HsCompile!Compilation!Db, GraphOf, Numbering
  <2>3. pc' = "map"
    BY <1>3 DEF HsCompile!hs_compile_mnrl
  <2>4. Compiling'
    BY <1>1, <2>2, <2>3 DEF Compiling
  <2>5. Writing'
    BY <2>3 DEF Writing, Opened
  <2> QED
    BY <1>2, <2>4, <2>5 DEF ChainInv
<1>4. CASE HsCompile!CompileFails \/ HsCompile!CompileStops
  <2>1. pc' = "exited" /\ code' # 0 /\ outcome' # "HS_SUCCESS"
    BY <1>4 DEF HsCompile!CompileFails, HsCompile!CompileStops, HsCompile!Exit,
       HsCompile!Compilation!Fail, HsCompile!Compilation!Stop
  <2>2. Compiling' /\ Writing'
    BY <2>1 DEF Compiling, Writing, Opened
  <2> QED
    BY <1>2, <2>2 DEF ChainInv
<1> QED
  BY <1>3, <1>4

(* Serializing, which may fail, and opening the file.                        *)
LEMMA OpeningKeepsChain ==
  ASSUME PcreInv, ChainInv, HsCompileStep,
         \/ HsCompile!serialize_mapping \/ HsCompile!SerializeDatabase
         \/ HsCompile!SerializeDatabaseFails \/ HsCompile!Open \/ HsCompile!OpenFails
  PROVE  ChainInv'
<1>1. /\ UNCHANGED <<mnrl, run, old, at, lost, pcre_pc, network, outcome, database, report_map>>
      /\ pc \in {"map", "database", "open"}
  BY DEF HsCompileStep, HsCompile!serialize_mapping, HsCompile!SerializeDatabase,
     HsCompile!SerializeDatabaseFails, HsCompile!Open, HsCompile!OpenFails, HsCompile!call
<1>2. outcome = "HS_SUCCESS" /\ at = 0 /\ lost = FALSE /\ report_map = Numbering(network)
  BY <1>1 DEF ChainInv, Compiling
<1>3. OldFile' /\ Scanning'
  BY <1>1 DEF ChainInv, Scanning, OldFile, Reads
<1>4. Compiling'
  <2>1. CASE HsCompile!serialize_mapping
    <3>1. pc' = "database" /\ mapping_out' = MapPart(network)
      BY <1>2, <2>1 DEF HsCompile!serialize_mapping, MapPart
    <3> QED
      BY <1>1, <1>2, <3>1 DEF ChainInv, Compiling
  <2>2. CASE HsCompile!SerializeDatabase \/ HsCompile!Open
    <3>1. /\ pc' \in {"open", "write_map"} /\ pc \in {"database", "open"} /\ mapping_out' = mapping_out
      BY <2>2 DEF HsCompile!SerializeDatabase, HsCompile!Open
    <3> QED
      BY <1>1, <1>2, <3>1 DEF ChainInv, Compiling
  <2>3. CASE HsCompile!SerializeDatabaseFails \/ HsCompile!OpenFails
    <3>1. pc' = "exited"
      BY <2>3 DEF HsCompile!SerializeDatabaseFails, HsCompile!OpenFails, HsCompile!Exit
    <3> QED
      BY <1>1, <1>2, <3>1 DEF ChainInv, Compiling
  <2> QED
    BY <2>1, <2>2, <2>3
<1>5. Writing'
  <2>1. CASE HsCompile!Open
    <3>1. pc' = "write_map" /\ compiled' = <<>> /\ network' = network /\ at' = 0 /\ lost' = FALSE
      BY <1>1, <1>2, <2>1 DEF HsCompile!Open, HsCompile!NoUnits
    <3>2. network.size \in Nat /\ Count(network) \in Nat
      BY <1>2, NetworkIs DEF ChainInv
    <3>3. 0 \in 0..(Count(network) + 1) /\ 0 \in 0..2
      BY <3>2
    <3>4. Written(network, 0, 0) \in Seq(UnitsOf(network)) /\ Len(Written(network, 0, 0)) = 0 + 0
      BY <3>2, <3>3, WrittenIs
    <3>5. Written(network, 0, 0) = <<>>
      BY <3>4, EmptySeq
    <3>6. WrittenTo(0, 0)'
      BY <3>1, <3>5 DEF WrittenTo
    <3> QED
      BY <3>1, <3>3, <3>6 DEF Writing
  <2>2. CASE ~HsCompile!Open
    <3>1. pc' \in {"database", "open"} \/ (pc' = "exited" /\ code' # 0)
      BY <2>2 DEF HsCompile!serialize_mapping, HsCompile!SerializeDatabase,
         HsCompile!SerializeDatabaseFails, HsCompile!OpenFails, HsCompile!Exit
    <3> QED
      BY <3>1 DEF Writing, Opened
  <2> QED
    BY <2>1, <2>2
<1> QED
  BY <1>3, <1>4, <1>5 DEF ChainInv

(* Both writes, and the close.                                               *)
LEMMA WriteMapKeepsWriting ==
  ASSUME PcreInv, ChainInv, HsCompile!WriteMap
  PROVE  Writing'
<1>1. /\ pc = "write_map" /\ pc' = "write_db" /\ network' = network
      /\ HsCompile!Write(mapping_out)
  BY DEF HsCompile!WriteMap, HsCompile!call
<1>2. outcome = "HS_SUCCESS" /\ mapping_out = MapPart(network)
  BY <1>1 DEF ChainInv, Compiling
<1>3. network.size \in Nat /\ Count(network) \in Nat
  BY <1>2, NetworkIs DEF ChainInv
<1>4. PICK a \in 0..(Count(network) + 1), b \in 0..2 : WrittenTo(a, b)
  BY <1>1 DEF ChainInv, Writing, Opened
<1>5. a = 0 /\ b = 0 /\ at = 0 /\ lost = FALSE /\ compiled = Written(network, 0, 0)
  BY <1>1, <1>4 DEF WrittenTo
<1> DEFINE U == UnitsOf(network)
<1>6. MapPart(network) \in Seq(U) /\ Len(MapPart(network)) = Count(network) + 1
  BY <1>3, UnitsAre
<1>7. compiled \in Seq(U) /\ Len(compiled) = 0
  <2>1. 0 \in 0..(Count(network) + 1) /\ 0 \in 0..2
    BY <1>3
  <2>2. Written(network, 0, 0) \in Seq(U) /\ Len(Written(network, 0, 0)) = 0 + 0
    BY <1>3, <2>1, WrittenIs
  <2> HIDE DEF U
  <2> QED
    BY <1>5, <2>2
<1> HIDE DEF U
<1>8. compiled = <<>>
  BY <1>7, EmptySeq
<1>9. PICK n \in 0..Len(MapPart(network)) :
        LET part == SubSeq(MapPart(network), 1, n)
        IN /\ compiled' = SubSeq(compiled, 1, at) \o part
                            \o SubSeq(compiled, at + Len(part) + 1, Len(compiled))
           /\ at' = at + Len(part)
           /\ lost' = (lost \/ part # MapPart(network))
  BY <1>1, <1>2 DEF HsCompile!Write, HsCompile!Prefixes
<1> DEFINE part == SubSeq(MapPart(network), 1, n)
<1>10. part \in Seq(U) /\ Len(part) = n /\ n \in 0..(Count(network) + 1) /\ n \in Nat
  BY <1>3, <1>6, <1>9, PrefixIs
<1>11. Written(network, n, 0) = part
  BY <1>3, <1>10, WrittenMap
<1> HIDE DEF part
<1>12. compiled' = Written(network, n, 0)
  <2>1. compiled' = SubSeq(compiled, 1, Len(compiled)) \o part
                      \o SubSeq(compiled, Len(compiled) + Len(part) + 1, Len(compiled))
    BY <1>5, <1>7, <1>9 DEF part
  <2>2. compiled' = compiled \o part
    BY <1>7, <1>10, <2>1, WriteAppends
  <2>3. <<>> \o part = part
    BY <1>10, ConcatEmptySeq
  <2> QED
    BY <1>8, <1>11, <2>2, <2>3
<1>13. at' = n
  BY <1>5, <1>9, <1>10 DEF part
<1>14. ~lost' => n = Count(network) + 1
  BY <1>5, <1>6, <1>9, <1>10 DEF part
<1>15. WrittenTo(n, 0)'
  BY <1>1, <1>12, <1>13, <1>14 DEF WrittenTo
<1>16. Count(network)' = Count(network) /\ 0 \in 0..2
  BY <1>1
<1> QED
  BY <1>10, <1>15, <1>16 DEF Writing

LEMMA WriteDbKeepsWriting ==
  ASSUME PcreInv, ChainInv, HsCompile!WriteDb
  PROVE  Writing'
<1>1. /\ pc = "write_db" /\ pc' = "close" /\ network' = network
      /\ HsCompile!Write(HsCompile!DbUnits(database.graph))
  BY DEF HsCompile!WriteDb, HsCompile!call
<1>2. outcome = "HS_SUCCESS" /\ HsCompile!DbUnits(database.graph) = GraphPart(network)
  BY <1>1 DEF ChainInv, Compiling, GraphPart
<1>3. network.size \in Nat /\ Count(network) \in Nat
  BY <1>2, NetworkIs DEF ChainInv
<1>4. PICK a \in 0..(Count(network) + 1), b \in 0..2 : WrittenTo(a, b)
  BY <1>1 DEF ChainInv, Writing, Opened
<1>5. /\ b = 0 /\ at = a /\ compiled = Written(network, a, 0) /\ a \in Nat
      /\ ~lost => a = Count(network) + 1
  BY <1>1, <1>3, <1>4 DEF WrittenTo
<1> DEFINE U == UnitsOf(network)
<1>6. GraphPart(network) \in Seq(U) /\ Len(GraphPart(network)) = 2
  BY <1>3, UnitsAre
<1>7. compiled \in Seq(U) /\ Len(compiled) = a
  BY <1>3, <1>5, WrittenIs
<1> HIDE DEF U
<1>8. PICK n \in 0..Len(GraphPart(network)) :
        LET part == SubSeq(GraphPart(network), 1, n)
        IN /\ compiled' = SubSeq(compiled, 1, at) \o part
                            \o SubSeq(compiled, at + Len(part) + 1, Len(compiled))
           /\ lost' = (lost \/ part # GraphPart(network))
  BY <1>1, <1>2 DEF HsCompile!Write, HsCompile!Prefixes
<1> DEFINE part == SubSeq(GraphPart(network), 1, n)
<1>9. part \in Seq(U) /\ Len(part) = n /\ n \in 0..2
  BY <1>6, <1>8, PrefixIs
<1>10. compiled' = Written(network, a, n)
  <2>1. compiled' = SubSeq(compiled, 1, at) \o part
                      \o SubSeq(compiled, at + Len(part) + 1, Len(compiled))
    BY <1>8
  <2> HIDE DEF part
  <2>2. compiled' = compiled \o part
    BY <1>5, <1>7, <1>9, <2>1, WriteAppends
  <2>3. compiled = SubSeq(MapPart(network), 1, a)
    BY <1>3, <1>5, WrittenMap
  <2> QED
    BY <2>2, <2>3 DEF Written, part
<1>11. ~lost' => n = 2 /\ a = Count(network) + 1
  <2>1. lost' = (lost \/ part # GraphPart(network))
    BY <1>8
  <2> QED
    BY <1>5, <1>6, <1>9, <2>1
<1>12. WrittenTo(a, n)'
  BY <1>1, <1>10, <1>11 DEF WrittenTo
<1>13. Count(network)' = Count(network)
  BY <1>1
<1> QED
  BY <1>4, <1>9, <1>12, <1>13 DEF Writing

LEMMA CloseKeepsWriting ==
  ASSUME PcreInv, ChainInv, HsCompile!Close
  PROVE  Writing'
<1>1. /\ pc = "close" /\ pc' = "exited" /\ network' = network
      /\ compiled' \in HsCompile!Prefixes(compiled) /\ lost' = (lost \/ compiled' # compiled)
  BY DEF HsCompile!Close, HsCompile!call, HsCompile!Exit
<1>2. outcome = "HS_SUCCESS"
  BY <1>1 DEF ChainInv, Compiling
<1>3. network.size \in Nat /\ Count(network) \in Nat
  BY <1>2, NetworkIs DEF ChainInv
<1>4. PICK a \in 0..(Count(network) + 1), b \in 0..2 : WrittenTo(a, b)
  BY <1>1 DEF ChainInv, Writing, Opened
<1>5. /\ compiled = Written(network, a, b)
      /\ ~lost => a = Count(network) + 1 /\ b = 2
  BY <1>1, <1>4 DEF WrittenTo
<1>6. Count(network)' = Count(network)
  BY <1>1
<1>7. CASE ~lost'
  <2>1. compiled' = compiled /\ ~lost
    BY <1>1, <1>7
  <2>2. WrittenTo(a, b)'
    BY <1>1, <1>5, <2>1 DEF WrittenTo
  <2> QED
    BY <1>4, <1>6, <2>2 DEF Writing
<1>8. CASE lost'
  <2>1. Len(compiled) = a + b
    BY <1>3, <1>5, WrittenIs
  <2>2. PICK n \in 0..(a + b) : compiled' = SubSeq(compiled, 1, n)
    BY <1>1, <2>1 DEF HsCompile!Prefixes
  <2>3. PICK c \in 0..(Count(network) + 1), d \in 0..2 :
          SubSeq(Written(network, a, b), 1, n) = Written(network, c, d)
    BY <1>3, CutOffIsWritten
  <2>4. WrittenTo(c, d)'
    BY <1>1, <1>5, <1>8, <2>2, <2>3 DEF WrittenTo
  <2> QED
    BY <1>6, <2>3, <2>4 DEF Writing
<1> QED
  BY <1>7, <1>8

LEMMA WritingKeepsChain ==
  ASSUME PcreInv, ChainInv, HsCompileStep,
         HsCompile!WriteMap \/ HsCompile!WriteDb \/ HsCompile!Close
  PROVE  ChainInv'
<1>1. /\ UNCHANGED <<mnrl, run, old, pcre_pc, network, outcome, database, report_map, mapping_out>>
      /\ pc \in {"write_map", "write_db", "close"} /\ pc' \in {"write_db", "close", "exited"}
  BY DEF HsCompileStep, HsCompile!WriteMap, HsCompile!WriteDb, HsCompile!Close, HsCompile!call,
     HsCompile!Exit
<1>2. OldFile' /\ Scanning'
  BY <1>1 DEF ChainInv, Scanning, OldFile, Reads
<1>3. Compiling'
  BY <1>1 DEF ChainInv, Compiling
<1> QED
  BY <1>2, <1>3, WriteMapKeepsWriting, WriteDbKeepsWriting, CloseKeepsWriting DEF ChainInv

(* pcre2mnrl runs before anything is compiled. *)
LEMMA Pcre2MnrlKeepsChain ==
  ASSUME ChainInv, Pcre2Mnrl
  PROVE  ChainInv'
<1>1. PcreNext /\ UNCHANGED <<hscompile_vars, run, old>>
  BY DEF Pcre2Mnrl
<1>2. UNCHANGED <<pc, network, outcome, database, mapping_out, compiled, at, lost, code, report_map, run, old>>
  BY <1>1 DEF hscompile_vars
<1>3. pcre_pc # "exited"
  BY <1>1 DEF PcreNext, NotSurrounded, SkipRule, TakeRule, AtLine, LinesDone, Convert, ReportError,
     Export, ExportFails
<1>4. outcome # "HS_SUCCESS"
  BY <1>3 DEF ChainInv, Compiling
<1>5. Compiling'
  BY <1>2, <1>4 DEF ChainInv, Compiling
<1>6. Writing' /\ OldFile' /\ Scanning'
  BY <1>2 DEF ChainInv, Writing, Opened, WrittenTo, OldFile, Scanning, Reads
<1> QED
  BY <1>5, <1>6 DEF ChainInv

(* What hsrun can load is whole. *)
LEMMA LoadedIsWhole ==
  ASSUME PcreInv, Kept, ChainInv, Readable(compiled)
  PROVE  \E net : /\ net \in OldNetworks \/ (outcome = "HS_SUCCESS" /\ net = network)
                  /\ MapIn(compiled) = Numbering(net) /\ DbPart(compiled)[1][3] = GraphOf(net)
<1>1. CASE Opened
  <2>1. outcome = "HS_SUCCESS"
    BY <1>1 DEF ChainInv, Compiling, Opened
  <2>2. network.size \in Nat
    BY <2>1, NetworkIs DEF ChainInv
  <2>3. PICK a \in 0..(Count(network) + 1), b \in 0..2 : compiled = Written(network, a, b)
    BY <1>1 DEF ChainInv, Writing, WrittenTo
  <2>4. a = Count(network) + 1 /\ b = 2
    BY <2>2, <2>3, CutOffIsUnreadable
  <2>5. compiled = Written(network, Count(network) + 1, 2)
    BY <2>3, <2>4
  <2> QED
    BY <2>1, <2>2, <2>5, WholeIsReadBack
<1>2. CASE ~Opened
  <2>1. compiled = old.compiled
    BY <1>2 DEF Kept, Opened
  <2>2. compiled # HsCompile!NoUnits
    BY DEF Readable, HsCompile!NoUnits
  <2>3. PICK net \in OldNetworks : compiled = FileOf(net)
    BY <2>1, <2>2 DEF ChainInv, OldFile
  <2>4. net.size \in Nat /\ compiled = Written(net, Count(net) + 1, 2)
    BY <2>3, OldNetworksAre
  <2> QED
    BY <2>3, <2>4, WholeIsReadBack
<1> QED
  BY <1>1, <1>2

LEMMA LoadKeepsChain ==
  ASSUME PcreInv, Kept, ChainInv, Load \/ LoadFails
  PROVE  ChainInv'
<1>1. UNCHANGED <<pcre_vars, hscompile_vars, old>>
  BY DEF Load, LoadFails
<1>2. /\ UNCHANGED <<pc, network, outcome, database, mapping_out, compiled, at, lost, code, report_map>>
      /\ UNCHANGED <<old, pcre_pc, mnrl>>
  BY <1>1 DEF hscompile_vars, pcre_vars, output
<1>3. Compiling' /\ Writing' /\ OldFile'
  BY <1>2 DEF ChainInv, Compiling, Writing, Opened, WrittenTo, OldFile
<1>4. CASE Load
  <2>1. /\ Readable(compiled) /\ run'.map = MapIn(compiled) /\ run'.db = DbPart(compiled)[1][3]
    BY <1>4 DEF Load
  <2>2. PICK net : /\ net \in OldNetworks \/ (outcome = "HS_SUCCESS" /\ net = network)
                   /\ MapIn(compiled) = Numbering(net) /\ DbPart(compiled)[1][3] = GraphOf(net)
    BY <2>1, LoadedIsWhole
  <2>3. run'.map = Numbering(net) /\ run'.db = GraphOf(net)
    BY <2>1, <2>2
  <2>4. DOMAIN run' = {"pc", "code", "map", "db"}
    BY <1>4 DEF Load
  <2> QED
    BY <1>2, <1>3, <2>2, <2>3, <2>4 DEF ChainInv, Scanning, Reads
<1>5. CASE LoadFails
  <2>1. run'.pc = "exited"
    <3>1. \E status : run' = [run EXCEPT !.pc = "exited", !.code = status]
      BY <1>5 DEF LoadFails
    <3> QED
      BY <3>1 DEF ChainInv, Scanning
  <2>2. DOMAIN run' = DOMAIN run
    BY <1>5 DEF LoadFails
  <2> QED
    BY <1>3, <2>1, <2>2 DEF ChainInv, Scanning
<1> QED
  BY <1>4, <1>5

LEMMA ChainInvHolds == Spec => []ChainInv
<1>1. PcreInv /\ Kept /\ ChainInv /\ [Next]_vars => ChainInv'
  <2> SUFFICES ASSUME PcreInv, Kept, ChainInv, [Next]_vars
               PROVE  ChainInv'
    OBVIOUS
  <2>1. CASE UNCHANGED vars
    <3>1. UNCHANGED <<pc, network, outcome, database, mapping_out, compiled, at, lost, code, report_map>>
      BY <2>1 DEF vars, hscompile_vars
    <3>2. UNCHANGED <<old, run, pcre_pc, mnrl>>
      BY <2>1 DEF vars, pcre_vars, output
    <3> QED
      BY <3>1, <3>2 DEF ChainInv, Compiling, Writing, Opened, WrittenTo, OldFile, Scanning, Reads
  <2>2. CASE HsCompileStep
    <3>1. HsCompile!Next
      BY <2>2 DEF HsCompileStep
    <3> QED
      BY <2>2, <3>1, CallKeepsChain, OpeningKeepsChain, WritingKeepsChain DEF HsCompile!Next
  <2> QED
    BY <2>1, <2>2, Pcre2MnrlKeepsChain, LoadKeepsChain DEF Next, Terminated
<1> QED
  BY <1>1, ChainInvAtFirst, PcreInvHolds, KeptHolds, PTL DEF Spec

(* Whenever hsrun loads the file at the path of the output, before, while or *)
(* after hscompile writes it, and however much of it never reaches the disk, *)
(* what it loads is the map and the database of one network: the one that is *)
(* compiled or one from before.                                              *)
THEOREM LoadsAreWhole == Spec => []WholeOrUnreadable
<1>1. ChainInv => WholeOrUnreadable
  BY DEF ChainInv, Scanning, Reads, WholeOrUnreadable, Numbering, GraphOf
<1> QED
  BY <1>1, ChainInvHolds, PTL

-----------------------------------------------------------------------------
(* From end to end.                                                        *)

(* Rules, and what stayed of one, in the order of the file.                  *)
LEMMA SourcesAre ==
  ASSUME NEW file, file.rules \in Seq(RuleType), file.pieces \in Seq(RuleType),
         NEW of \in DOMAIN Sources(file)
  PROVE  \/ \E j \in 1..Len(file.rules) : Sources(file)[of] = file.rules[j]
         \/ \E j \in 1..Len(file.pieces) : Sources(file)[of] = file.pieces[j]
<1> DEFINE r == Len(file.rules)
           q == Len(file.pieces)
           s == file.rules \o file.pieces
<1>1. r \in Nat /\ q \in Nat
  OBVIOUS
<1>2. /\ s \in Seq(RuleType) /\ Len(s) = r + q
      /\ \A k \in 1..(r + q) : s[k] = IF k <= r THEN file.rules[k] ELSE file.pieces[k - r]
  BY ConcatProperties
<1>3. s = Sources(file)
  BY DEF Sources
<1> HIDE DEF r, q, s
<1>4. of \in 1..(r + q)
  BY <1>2, <1>3
<1>5. CASE of <= r
  <2>1. of \in 1..r
    BY <1>1, <1>4, <1>5
  <2> QED
    BY <1>2, <1>3, <1>4, <1>5, <2>1 DEF r
<1>6. CASE ~(of <= r)
  <2> DEFINE j == of - r
  <2>1. j \in 1..q /\ s[of] = file.pieces[j]
    BY <1>1, <1>2, <1>4, <1>6
  <2> HIDE DEF j
  <2> QED
    BY <1>3, <2>1 DEF q
<1> QED
  BY <1>5, <1>6

(* The reports of a database and the entries of its map.                     *)
LEMMA EntriesAre ==
  ASSUME NEW net, IsNet(net), NEW k \in DOMAIN GraphOf(net).reports
  PROVE  LET id == GraphOf(net).reports[k]
         IN /\ k \in 1..net.size /\ GraphOf(net).reach[k] = net.nodes[k].symbols
            /\ IsMapped(Numbering(net), id)
            /\ find_mapping(Numbering(net), id) = Entry(id, k, net.nodes[k].rid)
<1> DEFINE R == HsCompile!Compilation!Reporters(net)
           G == GraphOf(net)
           N == Numbering(net)
           id == G.reports[k]
<1>1. /\ DOMAIN G.reports = R /\ \A j \in R : G.reports[j] = HsCompile!Compilation!ReportId(net, j)
      /\ \A j \in 1..net.size : G.reach[j] = net.nodes[j].symbols
  BY GraphIs
<1>2. R \in SUBSET (1..net.size) /\ Cardinality(R) = Count(net)
  BY DEF HsCompile!Compilation!Reporters, Count
<1>3. \A j : HsCompile!Compilation!ReportId(net, j) = Rank(R, j)
  BY DEF HsCompile!Compilation!ReportId, Rank, Cardinality, HsCompile!Compilation!Cardinality
<1>4. \A n \in 1..Count(net) :
        LET l == HsCompile!Compilation!Reporter(net, n - 1) IN N[n] = Entry(n - 1, l, net.nodes[l].rid)
  BY DEF Numbering, Count, HsCompile!Compilation!NumberingOf, Cardinality,
     HsCompile!Compilation!Cardinality, Entry, HsCompile!Compilation!Entry
<1>5. \A n : HsCompile!Compilation!Reporter(net, n)
               = CHOOSE j \in R : HsCompile!Compilation!ReportId(net, j) = n
  BY DEF HsCompile!Compilation!Reporter
<1>6. Count(net) \in Nat /\ DOMAIN N = 1..Count(net)
  BY NumberingIs DEF IsNet
<1> HIDE DEF R, G, N
<1>7. k \in R /\ k \in 1..net.size /\ id = HsCompile!Compilation!ReportId(net, k)
  BY <1>1, <1>2 DEF G
<1>8. id \in 0..(Count(net) - 1) /\ \A j \in R : Rank(R, j) = id => j = k
  <2>1. /\ \A j \in R : Rank(R, j) \in 0..(Cardinality(R) - 1)
        /\ \A i1, j \in R : Rank(R, i1) = Rank(R, j) => i1 = j
    <3>1. net.size \in Nat
      BY DEF IsNet
    <3> QED
      BY <1>2, <3>1, RanksAreIds
  <2>2. id = Rank(R, k)
    BY <1>3, <1>7
  <2> HIDE DEF id
  <2> QED
    BY <1>2, <1>7, <2>1, <2>2
<1>9. HsCompile!Compilation!Reporter(net, id) = k
  <2>1. \A j \in R : HsCompile!Compilation!ReportId(net, j) = id => j = k
    BY <1>3, <1>8
  <2> QED
    BY <1>5, <1>7, <2>1
<1> HIDE DEF id
<1>10. id + 1 \in 1..Count(net) /\ (id + 1) - 1 = id /\ N[id + 1] = Entry(id, k, net.nodes[k].rid)
  <2>1. id + 1 \in 1..Count(net) /\ (id + 1) - 1 = id
    BY <1>6, <1>8
  <2> QED
    BY <1>4, <1>9, <2>1
<1>11. Positions(N, id) = {id + 1}
  <2>1. \A n \in 1..Count(net) : N[n].id = n - 1
    <3>1. \A a, b, c : Entry(a, b, c).id = a
      BY DEF Entry
    <3> QED
      BY ONLY <1>4, <3>1
  <2>2. \A n \in 1..Count(net) : N[n].id = id <=> n = id + 1
    BY <1>6, <1>8, <2>1
  <2> QED
    BY <1>6, <1>10, <2>2 DEF Positions
<1>12. IsMapped(N, id) /\ find_mapping(N, id) = N[id + 1]
  BY <1>11 DEF IsMapped, find_mapping
<1> QED
  BY <1>1, <1>7, <1>10, <1>12 DEF N, G, id

(* When hscompile ends and nothing was lost, the whole file is there.        *)
LEMMA ChainRunsByInv == PcreInv /\ Kept /\ ChainInv => ChainRunsTheRules
<1> SUFFICES ASSUME PcreInv, Kept, ChainInv, HasExported, code = 0, ~lost
             PROVE  /\ Readable(compiled)
                    /\ LET graph == DbPart(compiled)[1][3]
                           map   == MapIn(compiled)
                       IN /\ DOMAIN graph.reports = {k \in 1..network.size : network.nodes[k].report}
                          /\ \A k \in DOMAIN graph.reports :
                               /\ IsMapped(map, graph.reports[k])
                               /\ \E r \in Range(Sources(mnrl)) :
                                    /\ find_mapping(map, graph.reports[k])
                                         = Entry(graph.reports[k], k, r.id)
                                    /\ graph.reach[k] = Text(r)
  BY DEF ChainRunsTheRules
<1>1. pc = "exited"
  BY DEF Kept
<1>2. outcome = "HS_SUCCESS" /\ network \in NetworksOf(mnrl)
  BY <1>1 DEF ChainInv, Compiling
<1>3. IsNet(network) /\ network.size \in Nat
  BY <1>2, NetworkIs DEF ChainInv
<1>4. PICK a \in 0..(Count(network) + 1), b \in 0..2 : WrittenTo(a, b)
  BY <1>1 DEF ChainInv, Writing, Opened
<1>5. compiled = Written(network, Count(network) + 1, 2)
  BY <1>1, <1>4 DEF WrittenTo
<1>6. /\ Readable(compiled) /\ MapIn(compiled) = Numbering(network)
      /\ DbPart(compiled)[1][3] = GraphOf(network)
  BY <1>3, <1>5, WholeIsReadBack
<1>7. DOMAIN GraphOf(network).reports = {k \in 1..network.size : network.nodes[k].report}
  BY <1>3, GraphIs DEF HsCompile!Compilation!Reporters
<1>8. ASSUME NEW k \in DOMAIN GraphOf(network).reports
      PROVE  /\ IsMapped(Numbering(network), GraphOf(network).reports[k])
             /\ \E r \in Range(Sources(mnrl)) :
                  /\ find_mapping(Numbering(network), GraphOf(network).reports[k])
                       = Entry(GraphOf(network).reports[k], k, r.id)
                  /\ GraphOf(network).reach[k] = Text(r)
  <2> DEFINE id == GraphOf(network).reports[k]
  <2>1. /\ k \in 1..network.size /\ GraphOf(network).reach[k] = network.nodes[k].symbols
        /\ IsMapped(Numbering(network), id)
        /\ find_mapping(Numbering(network), id) = Entry(id, k, network.nodes[k].rid)
    BY <1>3, EntriesAre
  <2> HIDE DEF id
  <2>2. PICK of \in DOMAIN Sources(mnrl) : /\ network.nodes[k].symbols = Text(Sources(mnrl)[of])
                                          /\ network.nodes[k].rid = Sources(mnrl)[of].id
    BY <1>2, <2>1, NetworksAre
  <2>3. Sources(mnrl)[of] \in Range(Sources(mnrl))
    BY DEF Range
  <2> QED
    BY <2>1, <2>2, <2>3 DEF id
<1> QED
  BY <1>6, <1>7, <1>8

(* A report leads, through the map and the file of rules, to its node.       *)
LEMMA LookupsByInv == PcreInv /\ ChainInv => LookupsNameTheRule
<1> SUFFICES ASSUME PcreInv, ChainInv, run.pc = "scan", HasExported,
                    run.db \notin {HsCompile!Compilation!CompiledOf(net) : net \in OldNetworks},
                    NEW k \in DOMAIN run.db.reports
             PROVE  /\ IsMapped(run.map, run.db.reports[k])
                    /\ LET e == find_mapping(run.map, run.db.reports[k])
                       IN e.name = k /\ run.db.reach[k] = Text(Rule(rules[e.report + 1], e.report))
  BY DEF LookupsNameTheRule
<1>1. outcome = "HS_SUCCESS" /\ run.map = Numbering(network) /\ run.db = GraphOf(network)
  BY DEF ChainInv, Scanning, Reads, GraphOf
<1>2. IsNet(network) /\ network \in NetworksOf(mnrl)
  BY <1>1, NetworkIs DEF ChainInv, Compiling
<1> DEFINE id == run.db.reports[k]
           rid == network.nodes[k].rid
<1>3. /\ k \in 1..network.size /\ run.db.reach[k] = network.nodes[k].symbols
      /\ IsMapped(run.map, id) /\ find_mapping(run.map, id) = Entry(id, k, rid)
  BY <1>1, <1>2, EntriesAre
<1>4. mnrl.rules \in Seq(RuleType) /\ mnrl.pieces \in Seq(RuleType)
  BY DEF PcreInv, Output
<1>5. PICK n \in 0..Len(expressions) :
        /\ (stray => n < Len(expressions)) /\ Len(mnrl.rules) = n
        /\ \A j \in 1..n : mnrl.rules[j] = expressions[j]
        /\ IF stray THEN Len(mnrl.pieces) = 1 /\ mnrl.pieces[1] = expressions[n + 1]
                    ELSE mnrl.pieces = <<>>
  BY ExportedIs
<1>6. Len(expressions) \in Nat
  BY DEF PcreInv, LinesRead
<1>7. \E m \in 1..Len(expressions) : /\ network.nodes[k].symbols = Text(expressions[m])
                                     /\ rid = expressions[m].id
  <2>1. ASSUME NEW j \in 1..Len(mnrl.rules)
        PROVE  j \in 1..Len(expressions) /\ mnrl.rules[j] = expressions[j]
    BY <1>5, <1>6
  <2>2. ASSUME NEW j \in 1..Len(mnrl.pieces)
        PROVE  n + 1 \in 1..Len(expressions) /\ mnrl.pieces[j] = expressions[n + 1]
    <3>1. Len(<<>>) = 0
      OBVIOUS
    <3>2. stray
      BY <1>5, <3>1
    <3> QED
      BY <1>5, <1>6, <3>2
  <2>3. PICK of \in DOMAIN Sources(mnrl) : /\ network.nodes[k].symbols = Text(Sources(mnrl)[of])
                                          /\ rid = Sources(mnrl)[of].id
    BY <1>2, <1>3, NetworksAre
  <2>4. \/ \E j \in 1..Len(mnrl.rules) : Sources(mnrl)[of] = mnrl.rules[j]
        \/ \E j \in 1..Len(mnrl.pieces) : Sources(mnrl)[of] = mnrl.pieces[j]
    BY <1>4, SourcesAre
  <2> QED
    BY <2>1, <2>2, <2>3, <2>4
<1>8. PICK m \in 1..Len(expressions) : /\ network.nodes[k].symbols = Text(expressions[m])
                                       /\ rid = expressions[m].id
  BY <1>7
<1>9. expressions[m] = Rule(rules[rid + 1], rid)
  BY <1>8 DEF PcreInv, LinesRead
<1>10. Entry(id, k, rid).name = k /\ Entry(id, k, rid).report = rid
  BY DEF Entry
<1> QED
  BY <1>3, <1>8, <1>9, <1>10

(* When both programs return 0 and no write fell short, hsrun can load the   *)
(* file; its database reports at the nodes of the network that report, and   *)
(* each report is in the map with its node and with the number of a rule of  *)
(* the network file whose text is what the node matches. That is so for rule *)
(* files of any length and for whatever network the conversion makes of them. *)
THEOREM TheChainRunsItsRules == Spec => []ChainRunsTheRules
BY ChainRunsByInv, PcreInvHolds, KeptHolds, ChainInvHolds, PTL

(* The database's report leads through the map to the code hsrun prints, and *)
(* the code to the line of the file of rules that the node was made from.    *)
THEOREM ReportsNameTheirLines == Spec => []LookupsNameTheRule
BY LookupsByInv, PcreInvHolds, ChainInvHolds, PTL

-----------------------------------------------------------------------------
(* Types. The networks of a file are those Automaton speaks of.              *)

FileFits(file) ==
  /\ file.rules \in Seq(RuleType) /\ file.pieces \in Seq(RuleType)
  /\ \A k \in 1..Len(file.rules) : Fits(file.rules[k])
  /\ \A k \in 1..Len(file.pieces) : Fits(file.pieces[k])

LEMMA NodeIsTyped ==
  ASSUME NEW rule, Fits(rule), NEW node, node.enable \in Enable, node.report \in BOOLEAN,
         node.reportEnable \in ReportEnable
  PROVE  NodeOf(rule, node) \in HsCompile!Compilation!Node
BY DEF NodeOf, Fits, HsCompile!Compilation!Node, Enable, HsCompile!Compilation!Enable,
   ReportEnable, HsCompile!Compilation!ReportEnable

LEMMA NetworksAreTyped ==
  ASSUME NEW file, FileFits(file), NEW net \in NetworksOf(file)
  PROVE  HsCompile!Compilation!IsNetwork(net)
<1> DEFINE S == HsCompile!Compilation!Node
<1>1. PICK shape \in Shapes :
        /\ \A k \in DOMAIN shape.nodes : shape.nodes[k].of \in DOMAIN Sources(file)
        /\ net = NetworkOf(file, shape)
  BY DEF NetworksOf
<1> DEFINE n == Len(shape.nodes)
           nodes == [k \in DOMAIN shape.nodes |->
                       NodeOf(Sources(file)[shape.nodes[k].of], shape.nodes[k])]
<1>2. /\ shape.nodes \in Seq([of : Nat \ {0}, enable : Enable, report : BOOLEAN,
                              reportEnable : ReportEnable])
      /\ n <= MaxNodes /\ shape.sinks \in Seq(SUBSET (1..n)) /\ Len(shape.sinks) = n
  BY ShapesAssumption
<1>3. n \in 0..MaxNodes /\ n \in Nat /\ DOMAIN shape.nodes = 1..n
  BY <1>2, MaxNodesAssumption
<1>4. net = [size |-> n, nodes |-> nodes, sinks |-> shape.sinks]
  BY <1>1 DEF NetworkOf
<1>5. ASSUME NEW k \in 1..n
      PROVE  NodeOf(Sources(file)[shape.nodes[k].of], shape.nodes[k]) \in S
  <2>1. /\ shape.nodes[k].enable \in Enable /\ shape.nodes[k].report \in BOOLEAN
        /\ shape.nodes[k].reportEnable \in ReportEnable
    <3> DEFINE T == [of : Nat \ {0}, enable : Enable, report : BOOLEAN,
                     reportEnable : ReportEnable]
    <3>1. shape.nodes[k] \in T
      <4>1. shape.nodes \in Seq(T) /\ k \in 1..Len(shape.nodes)
        BY <1>2
      <4> HIDE DEF T
      <4> QED
        BY <4>1
    <3> QED
      BY <3>1
  <2>2. Fits(Sources(file)[shape.nodes[k].of])
    BY <1>1, <1>3, SourcesAre DEF FileFits
  <2> QED
    BY <2>1, <2>2, NodeIsTyped
<1>6. nodes \in [1..n -> S]
  BY <1>3, <1>5
<1>7. shape.sinks \in Seq(SUBSET (1..MaxNodes))
  <2>1. SUBSET (1..n) \subseteq SUBSET (1..MaxNodes)
    BY <1>3, MaxNodesAssumption
  <2>2. shape.sinks \in [1..n -> SUBSET (1..n)]
    BY <1>2, <1>3
  <2>3. shape.sinks \in [1..n -> SUBSET (1..MaxNodes)]
    BY <2>1, <2>2
  <2> QED
    BY <1>3, <2>3, SeqIs
<1> HIDE DEF n, nodes, S
<1>8. nodes \in Seq(S) /\ Len(nodes) = n
  BY <1>3, <1>6, SeqIs
<1>9. net \in [size : 0..MaxNodes, nodes : Seq(S), sinks : Seq(SUBSET (1..MaxNodes))]
  BY <1>3, <1>4, <1>7, <1>8
<1>10. net.size = n /\ net.nodes = nodes /\ net.sinks = shape.sinks
  BY <1>4
<1> QED
  BY <1>2, <1>8, <1>9, <1>10
  DEF S, n, HsCompile!Compilation!IsNetwork, HsCompile!Compilation!Network

LEMMA OldFileFits == FileFits(Exported(OldRules, <<>>)) /\ FileFits(NoFile)
<1>1. OldRules \in Seq(RuleType) /\ <<>> \in Seq(RuleType) /\ Len(<<>>) = 0
  BY OldRulesAssumption, EmptySeq DEF RuleType
<1>2. \A k \in 1..Len(OldRules) : Fits(OldRules[k])
  BY <1>1, NetworksAssumption
<1> QED
  BY <1>1, <1>2 DEF FileFits, Exported, NoFile

(* The units of the compiled file of a network.                              *)
LEMMA UnitsAreTyped ==
  ASSUME NEW net, net.size \in 0..MaxNodes, NEW unit \in UnitsOf(net)
  PROVE  IsUnit(unit)
<1>1. Count(net) \in 0..MaxNodes
  <2>1. HsCompile!Compilation!Reporters(net) \in SUBSET (1..net.size)
    BY DEF HsCompile!Compilation!Reporters
  <2>2. net.size \in Nat
    BY MaxNodesAssumption
  <2>3. IsFiniteSet(1..net.size) /\ Cardinality(1..net.size) = net.size
    <3>1. Cardinality(1..net.size) = IF 1 > net.size THEN 0 ELSE net.size - 1 + 1
      BY <2>2, FS_Interval
    <3>2. IsFiniteSet(1..net.size)
      BY <2>2, FS_Interval
    <3> QED
      BY <2>2, <3>1, <3>2
  <2>4. Cardinality(HsCompile!Compilation!Reporters(net)) <= net.size
    BY <2>1, <2>3, FS_Subset
  <2> QED
    BY <2>2, <2>4, NumberingIs, MaxNodesAssumption DEF Count
<1>2. CASE unit = <<"header", Count(net)>>
  BY <1>1, <1>2 DEF IsUnit
<1>3. CASE unit \in {<<"entry", Numbering(net)[k]>> : k \in 1..Count(net)}
  <2>1. net.size \in Nat
    BY MaxNodesAssumption
  <2>2. PICK k \in 1..Count(net) : unit = <<"entry", Numbering(net)[k]>>
    BY <1>3
  <2>3. Numbering(net)[k] = Entry(k - 1, Numbering(net)[k].name, Numbering(net)[k].report)
    BY <2>1, NumberingIs
  <2>4. \A id, name, report : DOMAIN Entry(id, name, report) = {"id", "name", "report"}
    BY DEF Entry
  <2>5. DOMAIN Numbering(net)[k] = {"id", "name", "report"}
    BY ONLY <2>3, <2>4, Zenon
  <2> QED
    BY <2>2, <2>5 DEF IsUnit
<1>4. CASE unit \in {<<"db", 1, GraphOf(net)>>, <<"db", 2, GraphOf(net)>>}
  BY <1>4 DEF IsUnit
<1> QED
  BY <1>2, <1>3, <1>4 DEF UnitsOf
(* What the type invariant rests on, of pcre2mnrl. *)
PcreTypes ==
  /\ Len(expressions) <= i
  /\ pcre_pc # "lines" /\ pcre_code # 5 =>
       call_args \in Arguments /\ call_args.elements = Len(expressions)
  /\ compile_err.kind \in ErrorKind
  /\ FileFits(mnrl) /\ mnrl.readable \in BOOLEAN
  /\ mnrl_lost \in BOOLEAN /\ pcre_code \in {-2, -1, 0, 5}

LEMMA ExpressionsFit ==
  ASSUME PcreInv
  PROVE  \A k \in 1..Len(expressions) : Fits(expressions[k])
<1> SUFFICES ASSUME NEW k \in 1..Len(expressions)
             PROVE  Fits(expressions[k])
  OBVIOUS
<1> DEFINE id == expressions[k].id
<1>1. /\ rules \in RuleFiles /\ i \in 0..Len(rules) /\ expressions[k] \in RuleType
      /\ id + 1 \in 1..i /\ Taken(rules[id + 1]) /\ expressions[k] = Rule(rules[id + 1], id)
  BY DEF PcreInv, LinesRead
<1>2. id \in Nat /\ Len(rules) \in Nat /\ DOMAIN rules = 1..Len(rules)
  BY <1>1, FilesAreLines DEF RuleType
<1>3. id + 1 \in DOMAIN rules /\ (id + 1) - 1 = id
  BY <1>1, <1>2
<1> HIDE DEF id
<1>4. Fits(Rule(rules[id + 1], (id + 1) - 1))
  BY <1>1, <1>3, NetworksAssumption DEF Taken
<1> QED
  BY <1>1, <1>3, <1>4

LEMMA PcreTypesAtFirst == Init => PcreTypes
<1> SUFFICES ASSUME Init
             PROVE  PcreTypes
  OBVIOUS
<1>1. /\ pcre_pc = "lines" /\ i = 0 /\ expressions = <<>> /\ compile_err = NoError
      /\ whole = {} /\ stray = FALSE /\ mnrl_lost = FALSE /\ pcre_code = -1
      /\ mnrl = NoFile \/ mnrl = Exported(OldRules, <<>>)
  BY DEF Init, PcreInit
<1>3. FileFits(mnrl) /\ mnrl.readable \in BOOLEAN
  <2>1. Exported(OldRules, <<>>).readable \in BOOLEAN /\ NoFile.readable \in BOOLEAN
    BY DEF Exported, NoFile
  <2> QED
    BY <1>1, <2>1, OldFileFits
<1>4. Len(expressions) = 0 /\ compile_err.kind \in ErrorKind
  BY <1>1 DEF NoError, Error, ErrorKind
<1>6. Len(expressions) <= i
  BY <1>1, <1>4
<1>7. mnrl_lost \in BOOLEAN
  BY <1>1, Zenon
<1>8. pcre_code \in {-2, -1, 0, 5} /\ pcre_pc = "lines"
  BY <1>1
<1> QED
  BY <1>3, <1>4, <1>6, <1>7, <1>8 DEF PcreTypes

LEMMA LinesKeepTypes ==
  ASSUME PcreInv, PcreTypes, SkipRule \/ TakeRule \/ LinesDone
  PROVE  PcreTypes'
<1>1. /\ pcre_pc = "lines"
      /\ UNCHANGED <<rules, compile_err, whole, stray, mnrl, mnrl_lost, pcre_code>>
  BY DEF SkipRule, TakeRule, LinesDone, AtLine, call, output
<1>2. /\ i \in Nat /\ expressions \in Seq(RuleType) /\ Len(expressions) \in Nat
      /\ i <= Len(rules) /\ Len(rules) \in 0..MaxElements /\ MaxElements \in Nat
  <2>1. rules \in RuleFiles /\ i \in 0..Len(rules) /\ expressions \in Seq(RuleType)
    BY DEF PcreInv, LinesRead
  <2> QED
    BY <2>1, FilesAreLines, CallAssumption
<1>3. FileFits(mnrl)'
  BY <1>1 DEF PcreTypes, FileFits
<1>4. Len(expressions') <= i'
  <2>1. CASE SkipRule \/ LinesDone
    BY <1>2, <2>1 DEF SkipRule, LinesDone, PcreTypes
  <2>2. CASE TakeRule
    <3>1. /\ expressions' = Append(expressions, Rule(rules[i + 1], i)) /\ i' = i + 1
          /\ Slashes(rules[i + 1]) # {} /\ i < Len(rules) /\ rules \in RuleFiles
      BY <2>2 DEF TakeRule, AtLine, Line, PcreInv, LinesRead
    <3>2. rules[i + 1] \in Seq(STRING)
      BY <1>2, <3>1, FilesAreLines
    <3>3. Rule(rules[i + 1], i) \in RuleType
      BY <1>2, <3>1, <3>2, RuleIs
    <3>4. Len(expressions') = Len(expressions) + 1
      BY <1>2, <3>1, <3>3, AppendProperties
    <3> QED
      BY <1>2, <3>1, <3>4 DEF PcreTypes
  <2> QED
    BY <2>1, <2>2
<1>5. pcre_pc' # "lines" => call_args' \in Arguments /\ call_args'.elements = Len(expressions')
  <2>1. CASE SkipRule \/ TakeRule
    BY <1>1, <2>1 DEF SkipRule, TakeRule
  <2>2. CASE LinesDone
    <3>1. PICK not_null \in BOOLEAN :
            call_args' = [comp_error |-> TRUE, expressions |-> not_null, elements |-> Len(expressions)]
      BY <2>2 DEF LinesDone
    <3>2. expressions' = expressions /\ Len(expressions) \in 0..MaxElements
      BY <1>2, <2>2 DEF LinesDone, PcreTypes
    <3> QED
      BY <3>1, <3>2 DEF Arguments
  <2> QED
    BY <2>1, <2>2
<1> QED
  BY <1>1, <1>3, <1>4, <1>5 DEF PcreTypes

LEMMA ConvertKeepsTypes ==
  ASSUME PcreInv, PcreTypes, Convert
  PROVE  PcreTypes'
<1>1. /\ pcre_pc = "call" /\ Conversion!Next
      /\ UNCHANGED <<rules, i, expressions, mnrl, mnrl_lost>>
      /\ pcre_code' = pcre_code \/ pcre_code' = -2
  BY DEF Convert, PcreExit, output, HS_SUCCESS
<1>2. pcre_code = -1 /\ compile_err = NoError /\ call_args \in Arguments
  BY <1>1 DEF PcreInv, Call, Output, PcreTypes
<1>3. call_args' = call_args
  BY <1>1 DEF Conversion!Next, Conversion!Convert, Conversion!Refuse, Conversion!Reject,
     Conversion!Break, Conversion!Stop, Conversion!Answer
<1>4. compile_err'.kind \in ErrorKind
  <2>1. CASE Conversion!Stop \/ Conversion!Convert
    <3>1. compile_err' = compile_err
      BY <2>1 DEF Conversion!Stop, Conversion!Convert, Conversion!Answer
    <3> QED
      BY <3>1 DEF PcreTypes
  <2>2. CASE Conversion!Refuse
    <3>1. compile_err' = NoError \/ compile_err' = [kind |-> "param", expression |-> -1]
      BY <1>2, <2>2 DEF Conversion!Refuse, Conversion!Answer, Conversion!Error
    <3> QED
      BY <3>1 DEF ErrorKind, NoError, Error
  <2>3. ASSUME NEW k \in 0..(MaxElements - 1), Conversion!Reject(k) \/ Conversion!Break(k)
        PROVE  compile_err'.kind \in ErrorKind
    <3>1. \E kind \in {"compile", "enomem", "einternal"}, n \in Int :
            compile_err' = [kind |-> kind, expression |-> n]
      BY <2>3, CallAssumption DEF Conversion!Reject, Conversion!Break, Conversion!Answer,
         Conversion!Error
    <3> QED
      BY <3>1 DEF ErrorKind
  <2> QED
    BY <1>1, <2>1, <2>2, <2>3 DEF Conversion!Next
<1>5. FileFits(mnrl)' /\ mnrl'.readable \in BOOLEAN
  BY <1>1 DEF PcreTypes, FileFits
<1>6. Len(expressions') <= i' /\ call_args'.elements = Len(expressions') /\ call_args' \in Arguments
  BY <1>1, <1>2, <1>3 DEF PcreTypes
<1> QED
  BY <1>1, <1>2, <1>4, <1>5, <1>6 DEF PcreTypes

(* The export, and what else may be the end of main.                         *)
LEMMA EndKeepsTypes ==
  ASSUME PcreInv, PcreTypes, NotSurrounded \/ ReportError \/ Export \/ ExportFails
  PROVE  PcreTypes'
<1>1. UNCHANGED <<rules, i, expressions, call_args, call_outcome, compile_err, whole, stray>>
  BY DEF NotSurrounded, ReportError, Export, ExportFails, call
<1>2. mnrl_lost' \in BOOLEAN /\ pcre_code' \in {-2, -1, 0, 5}
  BY DEF NotSurrounded, ReportError, Export, ExportFails, PcreExit, PcreTypes, output
<1>3. pcre_pc' # "lines" /\ pcre_code' # 5 =>
        call_args' \in Arguments /\ call_args'.elements = Len(expressions')
  <2>1. pcre_pc = "lines" => NotSurrounded
    BY DEF NotSurrounded, ReportError, Export, ExportFails
  <2>2. NotSurrounded => pcre_code' = 5
    BY DEF NotSurrounded, PcreExit
  <2>3. pcre_pc # "lines" => pcre_code = -1
    BY DEF PcreInv, Output, NotSurrounded, ReportError, Export, ExportFails, AtLine
  <2> QED
    BY <1>1, <2>1, <2>2, <2>3 DEF PcreTypes
<1>4. FileFits(mnrl)' /\ mnrl'.readable \in BOOLEAN
  <2>1. CASE ~Export
    <3>1. mnrl' = mnrl \/ mnrl' = NoFile
      BY <2>1 DEF NotSurrounded, ReportError, ExportFails, output
    <3>2. mnrl' = mnrl => FileFits(mnrl)' /\ mnrl'.readable \in BOOLEAN
      BY DEF PcreTypes, FileFits
    <3>3. NoFile.readable \in BOOLEAN
      BY DEF NoFile
    <3>4. mnrl' = NoFile => FileFits(mnrl)' /\ mnrl'.readable \in BOOLEAN
      BY <3>3, OldFileFits DEF FileFits
    <3> QED
      BY <3>1, <3>2, <3>4
  <2>2. CASE Export
    <3>1. PICK n \in 0..Len(expressions) :
            /\ Cardinality(whole) = n /\ (stray => n < Len(expressions))
            /\ SubSeq(expressions, 1, n) \in Seq(RuleType) /\ Len(SubSeq(expressions, 1, n)) = n
            /\ \A k \in 1..n : SubSeq(expressions, 1, n)[k] = expressions[k]
            /\ stray => /\ SubSeq(expressions, n + 1, n + 1) \in Seq(RuleType)
                        /\ Len(SubSeq(expressions, n + 1, n + 1)) = 1
                        /\ SubSeq(expressions, n + 1, n + 1)[1] = expressions[n + 1]
      BY WholeIs
    <3> DEFINE first == SubSeq(expressions, 1, n)
               pieces == IF stray THEN SubSeq(expressions, n + 1, n + 1) ELSE <<>>
    <3>2. mnrl' = Exported(first, pieces)
      BY <2>2, <3>1 DEF Export, ExportTo
    <3>3. Len(expressions) \in Nat /\ n \in Nat /\ stray \in BOOLEAN
      BY DEF PcreInv, LinesRead, Call
    <3>4. /\ pieces \in Seq(RuleType) /\ Len(pieces) = (IF stray THEN 1 ELSE 0)
          /\ \A k \in 1..Len(pieces) : Fits(pieces[k])
      <4>1. CASE stray
        <5>1. pieces = SubSeq(expressions, n + 1, n + 1) /\ n + 1 \in 1..Len(expressions)
          BY <3>1, <3>3, <4>1
        <5>2. pieces \in Seq(RuleType) /\ Len(pieces) = 1 /\ pieces[1] = expressions[n + 1]
          BY <3>1, <4>1, <5>1
        <5>3. Fits(expressions[n + 1])
          BY <5>1, ExpressionsFit
        <5> HIDE DEF pieces
        <5> QED
          BY <4>1, <5>2, <5>3
      <4>2. CASE ~stray
        <5>1. pieces = <<>>
          BY <4>2
        <5> HIDE DEF pieces
        <5>2. pieces \in Seq(RuleType) /\ Len(pieces) = 0
          BY <5>1, EmptySeq
        <5> QED
          BY <4>2, <5>2
      <4> QED
        BY <4>1, <4>2
    <3> HIDE DEF first, pieces
    <3>5. first \in Seq(RuleType) /\ Len(first) = n /\ \A k \in 1..n : Fits(first[k])
      BY <3>1, <3>3, ExpressionsFit DEF first
    <3>6. mnrl'.rules = first /\ mnrl'.pieces = pieces /\ mnrl'.readable = TRUE
      BY <3>2 DEF Exported
    <3> QED
      BY <3>4, <3>5, <3>6 DEF FileFits
  <2> QED
    BY <2>1, <2>2
<1>5. Len(expressions') <= i' /\ compile_err'.kind \in ErrorKind
  BY <1>1 DEF PcreTypes
<1> QED
  BY <1>2, <1>3, <1>4, <1>5 DEF PcreTypes

LEMMA PcreTypesHold == Spec => []PcreTypes
<1>1. PcreInv /\ PcreTypes /\ [Next]_vars => PcreTypes'
  <2> SUFFICES ASSUME PcreInv, PcreTypes, [Next]_vars
               PROVE  PcreTypes'
    OBVIOUS
  <2>1. CASE UNCHANGED pcre_vars
    <3>1. UNCHANGED <<rules, pcre_pc, i, expressions, call_args, compile_err, whole, stray, mnrl,
                      mnrl_lost, pcre_code>>
      BY <2>1 DEF pcre_vars, call, output
    <3> QED
      BY <3>1 DEF PcreTypes, FileFits
  <2>2. CASE Pcre2Mnrl
    <3>1. PcreNext
      BY <2>2 DEF Pcre2Mnrl
    <3> QED
      BY <3>1, LinesKeepTypes, ConvertKeepsTypes, EndKeepsTypes DEF PcreNext
  <2>3. HsCompileStep \/ Load \/ LoadFails \/ Terminated \/ UNCHANGED vars => UNCHANGED pcre_vars
    BY HsCompileLeavesPcre2Mnrl DEF Load, LoadFails, Terminated, vars
  <2> QED
    BY <2>1, <2>2, <2>3 DEF Next
<1> QED
  BY <1>1, PcreTypesAtFirst, PcreInvHolds, PTL DEF Spec

LEMMA PcreTypeByInv == PcreInv /\ PcreTypes => PcreTypeOK
<1> SUFFICES ASSUME PcreInv, PcreTypes
             PROVE  PcreTypeOK
  OBVIOUS
<1>1. /\ rules \in RuleFiles /\ i \in 0..Len(rules) /\ expressions \in Seq(RuleType)
      /\ DOMAIN expressions = 1..Len(expressions)
  BY DEF PcreInv, LinesRead
<1>2. ASSUME NEW k \in DOMAIN expressions
      PROVE  IsRule(expressions[k])
  <2>1. /\ expressions[k] \in RuleType /\ expressions[k].id + 1 \in 1..i
    BY <1>1 DEF PcreInv, LinesRead
  <2>2. /\ DOMAIN expressions[k] = {"expr", "flags", "id"} /\ expressions[k].id \in Nat
        /\ expressions[k].flags \subseteq Flags
    BY <2>1 DEF RuleType
  <2>3. i \in Nat
    BY <1>1, FilesAreLines
  <2> QED
    BY <2>1, <2>2, <2>3 DEF IsRule
<1>3. whole \subseteq DOMAIN expressions
  <2>1. PICK n \in 0..Len(expressions) : whole = 1..n
    BY DEF PcreInv, Call
  <2> QED
    BY <1>1, <2>1
<1>4. /\ pcre_pc \in {"lines", "call", "error", "export", "exited"} /\ stray \in BOOLEAN
  BY DEF PcreInv, Call
<1> QED
  BY <1>1, <1>2, <1>3, <1>4 DEF PcreTypeOK, PcreTypes
(* ... of hscompile and hsrun: where the open file stands, and that hsrun has *)
(* a map only while it scans.                                                *)
ChainTypes ==
  /\ outcome \in {"pending", "stopped", "HS_SUCCESS", "HS_COMPILER_ERROR"}
  /\ lost \in BOOLEAN /\ code \in {-2, -1, 0, 1, 2, 3, 4}
  /\ Len(mapping_out) \in Nat /\ at \in 0..(Len(mapping_out) + 2)
  /\ pc = "write_db" => at \in 0..Len(mapping_out)
  /\ run.pc \in {"load", "scan", "exited"} /\ run.code \in {-2, -1, 2, 3}
  /\ run.pc # "scan" => run.map = EmptyMap

(* The map that goes into the file, and how far one fwrite gets.             *)
LEMMA MappingIs ==
  ASSUME PcreInv, Compiling, outcome = "HS_SUCCESS"
  PROVE  /\ MapPart(network) \in Seq(UnitsOf(network)) /\ Len(MapPart(network)) \in Nat
         /\ HsCompile!DbUnits(database.graph) \in Seq(UnitsOf(network))
         /\ Len(HsCompile!DbUnits(database.graph)) = 2
<1>1. network.size \in Nat /\ Count(network) \in Nat
  BY NetworkIs
<1>2. /\ MapPart(network) \in Seq(UnitsOf(network)) /\ Len(MapPart(network)) = Count(network) + 1
      /\ GraphPart(network) \in Seq(UnitsOf(network)) /\ Len(GraphPart(network)) = 2
  BY <1>1, UnitsAre
<1>3. HsCompile!DbUnits(database.graph) = GraphPart(network)
  BY DEF Compiling, GraphPart
<1> QED
  BY <1>1, <1>2, <1>3

LEMMA WriteMovesAt ==
  ASSUME NEW S, NEW units \in Seq(S), at \in Nat, lost \in BOOLEAN, HsCompile!Write(units)
  PROVE  at' \in at..(at + Len(units)) /\ lost' \in BOOLEAN
<1>1. PICK n \in 0..Len(units) :
        /\ at' = at + Len(SubSeq(units, 1, n))
        /\ lost' = (lost \/ SubSeq(units, 1, n) # units)
  BY DEF HsCompile!Write, HsCompile!Prefixes
<1>2. Len(SubSeq(units, 1, n)) = n /\ Len(units) \in Nat
  BY PrefixIs
<1> QED
  BY <1>1, <1>2

LEMMA ChainTypesAtFirst == Init => ChainTypes
<1> SUFFICES ASSUME Init
             PROVE  ChainTypes
  OBVIOUS
<1>1. /\ pc = "compile" /\ outcome = "pending" /\ at = 0 /\ lost = FALSE /\ code = -1
      /\ mapping_out = <<>> /\ run = [pc |-> "load", code |-> -1, map |-> EmptyMap, db |-> EmptyGraph]
  BY DEF Init, HsCompile!Init, HsCompile!Compilation!Init, HsCompile!NoUnits
<1>2. run.pc = "load" /\ run.code = -1 /\ run.map = EmptyMap /\ Len(mapping_out) = 0
  BY <1>1
<1>3. lost \in BOOLEAN
  BY <1>1, Zenon
<1>4. /\ Len(mapping_out) \in Nat /\ at \in 0..(Len(mapping_out) + 2)
      /\ code \in {-2, -1, 0, 1, 2, 3, 4}
  BY <1>1, <1>2
<1> QED
  BY <1>1, <1>2, <1>3, <1>4 DEF ChainTypes

LEMMA HsCompileKeepsTypes ==
  ASSUME PcreInv, Kept, ChainInv, ChainTypes, HsCompileStep
  PROVE  ChainTypes'
<1>1. run' = run /\ HsCompile!Next
  BY DEF HsCompileStep
<1>2. /\ run'.pc \in {"load", "scan", "exited"} /\ run'.code \in {-2, -1, 2, 3}
      /\ run'.pc # "scan" => run'.map = EmptyMap
  BY <1>1 DEF ChainTypes
<1>3. CASE HsCompile!hs_compile_mnrl \/ HsCompile!CompileFails \/ HsCompile!CompileStops
  <2>1. UNCHANGED <<mapping_out, at, lost>> /\ pc' # "write_db"
    BY <1>3 DEF HsCompile!hs_compile_mnrl, HsCompile!CompileFails, HsCompile!CompileStops,
       HsCompile!Exit
  <2>2. outcome' \in {"HS_SUCCESS", "HS_COMPILER_ERROR", "stopped"}
    BY <1>3 DEF HsCompile!hs_compile_mnrl, HsCompile!CompileFails, HsCompile!CompileStops,
       HsCompile!Compilation!CompileTo, HsCompile!Compilation!Fail, HsCompile!Compilation!Stop
  <2>3. code' \in {-2, -1, 0, 1, 2, 3, 4}
    BY <1>3 DEF ChainTypes, HsCompile!hs_compile_mnrl, HsCompile!CompileFails,
       HsCompile!CompileStops, HsCompile!Exit
  <2> QED
    BY <1>2, <2>1, <2>2, <2>3 DEF ChainTypes
<1>4. CASE HsCompile!serialize_mapping
  <2>1. /\ UNCHANGED <<outcome, at, lost, code>> /\ pc = "map" /\ pc' = "database"
        /\ mapping_out' = HsCompile!MapUnits(report_map)
    BY <1>4 DEF HsCompile!serialize_mapping, HsCompile!call
  <2>2. outcome = "HS_SUCCESS" /\ at = 0 /\ mapping_out' = MapPart(network)
    BY <2>1 DEF ChainInv, Compiling, MapPart
  <2>3. Len(MapPart(network)) \in Nat
    BY <2>2, MappingIs DEF ChainInv
  <2>4. Len(mapping_out') \in Nat /\ at' \in 0..(Len(mapping_out') + 2)
    BY <2>1, <2>2, <2>3
  <2> QED
    BY <1>2, <2>1, <2>4 DEF ChainTypes
<1>5. CASE \/ HsCompile!SerializeDatabase \/ HsCompile!SerializeDatabaseFails
           \/ HsCompile!Open \/ HsCompile!OpenFails
  <2>1. UNCHANGED <<outcome, mapping_out, at, lost>> /\ pc' # "write_db"
    BY <1>5 DEF HsCompile!SerializeDatabase, HsCompile!SerializeDatabaseFails, HsCompile!Open,
       HsCompile!OpenFails, HsCompile!Exit, HsCompile!call
  <2>2. code' \in {-2, -1, 0, 1, 2, 3, 4}
    BY <1>5 DEF ChainTypes, HsCompile!SerializeDatabase, HsCompile!SerializeDatabaseFails,
       HsCompile!Open, HsCompile!OpenFails, HsCompile!Exit
  <2> QED
    BY <1>2, <2>1, <2>2 DEF ChainTypes
<1>6. CASE HsCompile!WriteMap
  <2>1. /\ UNCHANGED <<outcome, mapping_out, code>> /\ pc = "write_map"
        /\ HsCompile!Write(mapping_out)
    BY <1>6 DEF HsCompile!WriteMap, HsCompile!call
  <2>2. outcome = "HS_SUCCESS" /\ mapping_out = MapPart(network) /\ at = 0
    <3>1. \E a \in 0..(Count(network) + 1), b \in 0..2 : WrittenTo(a, b)
      BY <2>1 DEF ChainInv, Writing, Opened
    <3>2. at = 0
      BY <2>1, <3>1 DEF WrittenTo
    <3> QED
      BY <2>1, <3>2 DEF ChainInv, Compiling
  <2>3. /\ mapping_out \in Seq(UnitsOf(network)) /\ Len(mapping_out) \in Nat
        /\ at \in Nat /\ lost \in BOOLEAN
    BY <2>2, MappingIs DEF ChainInv, ChainTypes
  <2>4. at' \in at..(at + Len(mapping_out)) /\ lost' \in BOOLEAN
    BY <2>1, <2>3, WriteMovesAt
  <2>5. at' \in 0..Len(mapping_out') /\ at' \in 0..(Len(mapping_out') + 2)
    BY <2>1, <2>2, <2>3, <2>4
  <2> QED
    BY <1>2, <2>1, <2>4, <2>5 DEF ChainTypes
<1>7. CASE HsCompile!WriteDb
  <2>1. /\ UNCHANGED <<outcome, mapping_out, code>> /\ pc = "write_db" /\ pc' = "close"
        /\ HsCompile!Write(HsCompile!DbUnits(database.graph))
    BY <1>7 DEF HsCompile!WriteDb, HsCompile!call
  <2>2. outcome = "HS_SUCCESS"
    BY <2>1 DEF ChainInv, Compiling
  <2>3. /\ HsCompile!DbUnits(database.graph) \in Seq(UnitsOf(network))
        /\ Len(HsCompile!DbUnits(database.graph)) = 2
    BY <2>2, MappingIs DEF ChainInv
  <2>4. Len(mapping_out) \in Nat /\ at \in 0..Len(mapping_out) /\ at \in Nat /\ lost \in BOOLEAN
    BY <2>1 DEF ChainTypes
  <2>5. /\ at' \in at..(at + Len(HsCompile!DbUnits(database.graph))) /\ lost' \in BOOLEAN
    BY <2>1, <2>3, <2>4, WriteMovesAt
  <2>6. at' \in 0..(Len(mapping_out') + 2)
    BY <2>1, <2>3, <2>4, <2>5
  <2> QED
    BY <1>2, <2>1, <2>5, <2>6 DEF ChainTypes
<1>8. CASE HsCompile!Close
  <2>1. UNCHANGED <<outcome, mapping_out, at>> /\ pc' = "exited" /\ code' = 0
    BY <1>8 DEF HsCompile!Close, HsCompile!call, HsCompile!Exit
  <2>2. lost' \in BOOLEAN
    BY <1>8, Zenon DEF HsCompile!Close
  <2> QED
    BY <1>2, <2>1, <2>2 DEF ChainTypes
<1> QED
  BY <1>1, <1>3, <1>4, <1>5, <1>6, <1>7, <1>8 DEF HsCompile!Next

LEMMA ChainTypesHold == Spec => []ChainTypes
<1>1. PcreInv /\ Kept /\ ChainInv /\ ChainTypes /\ [Next]_vars => ChainTypes'
  <2> SUFFICES ASSUME PcreInv, Kept, ChainInv, ChainTypes, [Next]_vars
               PROVE  ChainTypes'
    OBVIOUS
  <2>1. CASE UNCHANGED <<hscompile_vars, run>>
    <3>1. UNCHANGED <<pc, outcome, mapping_out, at, lost, code, run>>
      BY <2>1 DEF hscompile_vars
    <3> QED
      BY <3>1 DEF ChainTypes
  <2>2. CASE Load \/ LoadFails
    <3>1. UNCHANGED <<pc, outcome, mapping_out, at, lost, code>> /\ run.pc = "load"
      BY <2>2 DEF Load, LoadFails, hscompile_vars
    <3>2. DOMAIN run = {"pc", "code", "map", "db"}
      BY DEF ChainInv, Scanning
    <3>3. CASE Load
      <4>1. run'.pc = "scan" /\ run'.code = -1
        BY <3>3 DEF Load
      <4> QED
        BY <3>1, <4>1 DEF ChainTypes
    <3>4. CASE LoadFails
      <4>1. PICK status \in {2, 3, -2} : run' = [run EXCEPT !.pc = "exited", !.code = status]
        BY <3>4 DEF LoadFails
      <4>2. run'.pc = "exited" /\ run'.code = status /\ run'.map = run.map
        BY <3>2, <4>1
      <4>3. run.map = EmptyMap
        BY <3>1 DEF ChainTypes
      <4> QED
        BY <3>1, <4>2, <4>3 DEF ChainTypes
    <3> QED
      BY <2>2, <3>3, <3>4
  <2> QED
    BY <2>1, <2>2, HsCompileKeepsTypes DEF Next, Pcre2Mnrl, Terminated, vars
<1> QED
  BY <1>1, ChainTypesAtFirst, PcreInvHolds, KeptHolds, ChainInvHolds, PTL DEF Spec

(* The ids of a map that was loaded. *)
LEMMA NumberingIsDense ==
  ASSUME NEW net, net.size \in Nat
  PROVE  DenseIds(Numbering(net)) /\ UniqueIds(Numbering(net))
<1> DEFINE c == Count(net)
           m == Numbering(net)
<1>1. /\ c \in Nat /\ DOMAIN m = 1..c /\ Len(m) = c
      /\ \A k \in 1..c : m[k] = Entry(k - 1, m[k].name, m[k].report)
  BY NumberingIs
<1> HIDE DEF c, m
<1>2. \A k \in 1..c : m[k].id = k - 1
  <2> SUFFICES ASSUME NEW k \in 1..c
               PROVE  m[k].id = k - 1
    OBVIOUS
  <2>1. \A name, report : Entry(k - 1, name, report).id = k - 1
    BY DEF Entry
  <2>2. m[k] = Entry(k - 1, m[k].name, m[k].report)
    BY <1>1
  <2> QED
    BY ONLY <2>1, <2>2, Zenon
<1>3. {m[k].id : k \in 1..c} = 0..(c - 1)
  <2>1. \A x \in 0..(c - 1) : x + 1 \in 1..c /\ m[x + 1].id = x
    BY <1>1, <1>2
  <2>2. \A k \in 1..c : m[k].id \in 0..(c - 1)
    BY <1>1, <1>2
  <2> QED
    BY <2>1, <2>2
<1>4. DenseIds(m)
  BY <1>1, <1>3 DEF DenseIds, count_mapping
<1>5. UniqueIds(m)
  BY <1>1, <1>2 DEF UniqueIds
<1> QED
  BY <1>4, <1>5 DEF m

LEMMA TypeByInv ==
  ASSUME PcreInv, PcreTypes, Kept, ChainInv, ChainTypes
  PROVE  TypeOK
<1>1. \A net \in OldNetworks : HsCompile!Compilation!IsNetwork(net)
  BY OldFileFits, NetworksAreTyped DEF OldNetworks
<1>2. outcome = "HS_SUCCESS" => HsCompile!Compilation!IsNetwork(network)
  BY NetworksAreTyped DEF ChainInv, Compiling, PcreTypes
<1>3. ASSUME NEW net, HsCompile!Compilation!IsNetwork(net)
      PROVE  net.size \in 0..MaxNodes /\ net.size \in Nat
  BY <1>3, MaxNodesAssumption DEF HsCompile!Compilation!IsNetwork, HsCompile!Compilation!Network
<1>4. ASSUME NEW net, HsCompile!Compilation!IsNetwork(net),
             NEW a \in 0..(Count(net) + 1), NEW b \in 0..2, compiled = Written(net, a, b)
      PROVE  \A k \in DOMAIN compiled : IsUnit(compiled[k])
  <2>1. net.size \in 0..MaxNodes /\ net.size \in Nat
    BY <1>3, <1>4
  <2>2. compiled \in Seq(UnitsOf(net))
    BY <1>4, <2>1, WrittenIs
  <2> SUFFICES ASSUME NEW k \in DOMAIN compiled
               PROVE  IsUnit(compiled[k])
    OBVIOUS
  <2>3. compiled[k] \in UnitsOf(net)
    BY <2>2
  <2> QED
    BY <2>1, <2>3, UnitsAreTyped
<1>5. \A k \in DOMAIN compiled : IsUnit(compiled[k])
  <2>1. CASE Opened
    <3>1. outcome = "HS_SUCCESS"
      BY <2>1 DEF ChainInv, Compiling, Opened
    <3>2. \E a \in 0..(Count(network) + 1), b \in 0..2 : compiled = Written(network, a, b)
      BY <2>1 DEF ChainInv, Writing, WrittenTo
    <3> QED
      BY <1>2, <1>4, <3>1, <3>2
  <2>2. CASE ~Opened
    <3>1. compiled = old.compiled
      BY <2>2 DEF Kept, Opened
    <3>2. CASE compiled = HsCompile!NoUnits
      BY <3>2 DEF HsCompile!NoUnits
    <3>3. CASE \E net \in OldNetworks : compiled = FileOf(net)
      <4>1. PICK net \in OldNetworks : compiled = FileOf(net)
        BY <3>3
      <4>2. net.size \in Nat /\ compiled = Written(net, Count(net) + 1, 2)
        BY <4>1, OldNetworksAre
      <4>3. Count(net) + 1 \in 0..(Count(net) + 1) /\ 2 \in 0..2
        BY <4>2, NumberingIs
      <4> QED
        BY <1>1, <1>4, <4>2, <4>3
    <3> QED
      BY <3>1, <3>2, <3>3 DEF ChainInv, OldFile
  <2> QED
    BY <2>1, <2>2
<1>6. DenseIds(run.map) /\ UniqueIds(run.map)
  <2>1. CASE run.pc = "scan"
    <3>1. PICK net : /\ net \in OldNetworks \/ (outcome = "HS_SUCCESS" /\ net = network)
                     /\ run.map = Numbering(net)
      BY <2>1 DEF ChainInv, Scanning, Reads
    <3>2. net.size \in Nat
      BY <1>1, <1>2, <1>3, <3>1
    <3> QED
      BY <3>1, <3>2, NumberingIsDense
  <2>2. CASE run.pc # "scan"
    <3>1. run.map = <<>>
      BY <2>2 DEF ChainTypes, EmptyMap
    <3> QED
      BY <3>1 DEF DenseIds, UniqueIds, count_mapping
  <2> QED
    BY <2>1, <2>2
<1>7. pc \in {"compile", "map", "database", "open", "write_map", "write_db", "close", "exited"}
  BY DEF Kept
<1>8. PcreTypeOK
  BY PcreTypeByInv
<1> QED
  BY <1>2, <1>5, <1>6, <1>7, <1>8 DEF TypeOK, ChainTypes

(* Every value of the three programs keeps its type: the header of the       *)
(* compiled file counts no more entries than a network has nodes, whatever   *)
(* part of it is written, and the ids of a map that hsrun has loaded are 0,  *)
(* 1, 2, ..., each once.                                                     *)
THEOREM TypeCorrect == Spec => []TypeOK
BY TypeByInv, PcreInvHolds, PcreTypesHold, KeptHolds, ChainInvHolds, ChainTypesHold, PTL
=============================================================================

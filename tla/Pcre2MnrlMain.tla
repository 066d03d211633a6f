---------------------------- MODULE Pcre2MnrlMain ---------------------------
(***************************************************************************)
(* main of pcre2mnrl (src/pcre2mnrl.cpp): a file of rules /expression/mods *)
(* is split line by line, the rules go to hs_pcre_mnrl_multi in one call,  *)
(* and the network it leaves is exported, whatever the call returned.      *)
(* The call is the one step of its contract.                               *)
(***************************************************************************)
EXTENDS ConversionCall, Sequences, FiniteSets, FiniteSetsExt

CONSTANTS
  RuleFiles,  \* files of rules: sequences of lines, which are sequences of characters
  OldRules    \* the rules of a network that may already be at the output's path

SLASH == "/"
(* The modifiers main knows, by the flag each of them sets. *)
FlagOf == [i |-> "CASELESS", m |-> "MULTILINE", s |-> "DOTALL", H |-> "SINGLEMATCH"]
Modifiers == DOMAIN FlagOf
Flags == {FlagOf[m] : m \in Modifiers}

ASSUME RulesAssumption ==
         /\ RuleFiles \subseteq Seq(Seq(STRING))
         /\ \A lines \in RuleFiles : Len(lines) <= MaxElements
ASSUME OldRulesAssumption == OldRules \in Seq([expr : Seq(STRING), flags : SUBSET Flags, id : Nat])

(* The network file: the rules that are in it whole, and those of which it  *)
(* has pieces. A file that cannot be read has no rules and is not readable.  *)
Exported(whole_rules, pieces) ==
  [readable |-> TRUE, rules |-> whole_rules, pieces |-> pieces]
NoFile == [readable |-> FALSE, rules |-> <<>>, pieces |-> <<>>]

VARIABLES
  rules,         \* the file of rules
  pcre_pc,
  i,             \* lines read so far; an unsigned int
  expressions,   \* the parallel vectors expressions, flags and ids
  call_args, call_outcome, compile_err, whole, stray,  \* the call, by its contract
  mnrl,          \* the file at argv[2]
  mnrl_lost,     \* history: the export did not write all of the network
  pcre_code      \* exit code; -1 before the exit, -2 after a crash

output     == <<mnrl, mnrl_lost>>
call       == <<call_args, call_outcome, compile_err, whole, stray>>
pcre_vars  == <<rules, pcre_pc, i, expressions, call, output, pcre_code>>

Conversion == INSTANCE ConversionContract WITH
  args <- call_args, outcome <- call_outcome, comp_error <- compile_err

NoCall == [comp_error |-> FALSE, expressions |-> FALSE, elements |-> 0]

PcreInit ==
  /\ rules \in RuleFiles
  /\ pcre_pc = "lines"
  /\ i = 0
  /\ expressions = <<>>
  /\ call_args = NoCall /\ call_outcome = "pending" /\ compile_err = NoError
  /\ whole = {} /\ stray = FALSE
  /\ mnrl \in {NoFile, Exported(OldRules, <<>>)} /\ mnrl_lost = FALSE
  /\ pcre_code = -1

PcreExit(status) == pcre_pc' = "exited" /\ pcre_code' = status

-----------------------------------------------------------------------------
(* A line of the file. Positions count from 1, those of the code from 0.    *)

Slashes(line) == {k \in DOMAIN line : line[k] = SLASH}
StartLoc(line)   == Min(Slashes(line))
EndLoc(line)    == Max(Slashes(line))

(* substr: from a position on, at most n characters. *)
Substr(line, from, n) == SubSeq(line, from, Min({from + n - 1, Len(line)}))

ExprOf_OneShort(line) ==  \* mutant: the last character is cut off
  Substr(line, StartLoc(line) + 1, IF EndLoc(line) = 1 THEN Len(line) ELSE EndLoc(line) - 3)

(* The length is end_loc - 1, as if the first slash were at the beginning; a *)
(* slash at the beginning that is the only one makes it npos.                *)
ExprOf(line) ==
  Substr(line, StartLoc(line) + 1, IF EndLoc(line) = 1 THEN Len(line) ELSE EndLoc(line) - 2)

ModsOf(line)  == SubSeq(line, EndLoc(line) + 1, Len(line))
Mods(line)    == {ModsOf(line)[k] : k \in DOMAIN ModsOf(line)}
FlagsOf(line) == {FlagOf[m] : m \in Mods(line) \cap Modifiers}
Failed(line)  == ~(Mods(line) \subseteq Modifiers)

Rule(line, id) == [expr |-> ExprOf(line), flags |-> FlagsOf(line), id |-> id]

-----------------------------------------------------------------------------
(* One iteration of the loop over the lines.                               *)

AtLine == pcre_pc = "lines" /\ i < Len(rules)
Line   == rules[i + 1]

NotSurrounded ==
  /\ AtLine
  /\ Slashes(Line) = {}
  /\ PcreExit(5)
  /\ UNCHANGED <<rules, i, expressions, call, output>>

SkipRule ==
  /\ AtLine
  /\ Slashes(Line) # {} /\ Failed(Line)
  /\ i' = i + 1
  /\ UNCHANGED <<rules, pcre_pc, expressions, call, output, pcre_code>>

TakeRule_ByPosition ==  \* mutant: skipped lines are not counted in the ids
  /\ AtLine
  /\ Slashes(Line) # {} /\ ~Failed(Line)
  /\ expressions' = Append(expressions, Rule(Line, Len(expressions)))
  /\ i' = i + 1
  /\ UNCHANGED <<rules, pcre_pc, call, output, pcre_code>>

TakeRule ==
  /\ AtLine
  /\ Slashes(Line) # {} /\ ~Failed(Line)
  /\ expressions' = Append(expressions, Rule(Line, i))
  /\ i' = i + 1
  /\ UNCHANGED <<rules, pcre_pc, call, output, pcre_code>>

LinesDone_AllLines ==  \* mutant: the number of lines is passed
  /\ pcre_pc = "lines" /\ i = Len(rules)
  /\ pcre_pc' = "call"
  /\ call_args' = [comp_error |-> TRUE, expressions |-> TRUE, elements |-> i]
  /\ UNCHANGED <<rules, i, expressions, call_outcome, compile_err, whole, stray, output,
                 pcre_code>>

(* data() of a vector that never held anything may be null. *)
LinesDone ==
  /\ pcre_pc = "lines" /\ i = Len(rules)
  /\ pcre_pc' = "call"
  /\ \E not_null \in BOOLEAN :
       /\ not_null \/ expressions = <<>>
       /\ call_args' = [comp_error |-> TRUE, expressions |-> not_null,
                        elements |-> Len(expressions)]
  /\ UNCHANGED <<rules, i, expressions, call_outcome, compile_err, whole, stray, output,
                 pcre_code>>

-----------------------------------------------------------------------------
(* The call and what main makes of its result.                             *)

Convert ==
  /\ pcre_pc = "call"
  /\ Conversion!Next
  /\ CASE call_outcome' = "stopped"  -> PcreExit(-2)
       [] call_outcome' = HS_SUCCESS -> pcre_pc' = "export" /\ UNCHANGED pcre_code
       [] OTHER                      -> pcre_pc' = "error"  /\ UNCHANGED pcre_code
  /\ UNCHANGED <<rules, i, expressions, output>>

(* The rule the message quotes: expressions[compile_err->expression], with   *)
(* an index of -1 for an error that is about no expression.                  *)
Quoted == compile_err.expression + 1

ReportError ==
  /\ pcre_pc = "error"
  /\ \/ pcre_pc' = "export" /\ UNCHANGED pcre_code
     \/ Quoted \notin DOMAIN expressions /\ PcreExit(-2)
  /\ UNCHANGED <<rules, i, expressions, call, output>>

(* The network, after whatever the call returned. *)
ExportTo ==
  LET n == Cardinality(whole)
  IN mnrl' = Exported(SubSeq(expressions, 1, n),
                      IF stray THEN SubSeq(expressions, n + 1, n + 1) ELSE <<>>)

Export ==
  /\ pcre_pc = "export"
  /\ ExportTo
  /\ PcreExit(0)
  /\ UNCHANGED <<rules, i, expressions, call, mnrl_lost>>

(* The file is not written, or not to its end; the library may throw. *)
ExportFails ==
  /\ pcre_pc = "export"
  /\ mnrl' \in {mnrl, NoFile}
  /\ mnrl_lost' = TRUE
  /\ \E status \in {0, -2} : PcreExit(status)
  /\ UNCHANGED <<rules, i, expressions, call>>

PcreNext ==
  \/ NotSurrounded \/ SkipRule \/ TakeRule \/ LinesDone
  \/ Convert \/ ReportError \/ Export \/ ExportFails
-----------------------------------------------------------------------------
(* Properties                                                              *)

IsRule(r) == /\ DOMAIN r = {"expr", "flags", "id"}
             /\ r.id \in 0..(i - 1) /\ r.flags \subseteq Flags

PcreTypeOK ==
  /\ rules \in RuleFiles
  /\ pcre_pc \in {"lines", "call", "error", "export", "exited"}
  /\ i \in 0..Len(rules)
  /\ Len(expressions) <= i /\ \A k \in DOMAIN expressions : IsRule(expressions[k])
  /\ pcre_pc # "lines" /\ pcre_code # 5 =>
       call_args \in Arguments /\ call_args.elements = Len(expressions)
  /\ compile_err.kind \in ErrorKind
  /\ whole \subseteq DOMAIN expressions /\ stray \in BOOLEAN
  /\ mnrl.readable \in BOOLEAN /\ mnrl_lost \in BOOLEAN
  /\ pcre_code \in {-2, -1, 0, 5}

(* Whether the file holds what this run exported. *)
HasExported == pcre_code = 0 /\ ~mnrl_lost

(* A rule written as one should be, the slash first: /expression/modifiers.  *)
Parsed(line, r) ==
  LET rest == SubSeq(line, Len(r.expr) + 3, Len(line))
  IN /\ line = <<SLASH>> \o r.expr \o <<SLASH>> \o rest
     /\ \A k \in DOMAIN rest : rest[k] \in Modifiers
     /\ r.flags = {FlagOf[rest[k]] : k \in DOMAIN rest}
WellFormed(line) == Cardinality(Slashes(line)) > 1 /\ line[1] = SLASH
Understood(line) ==
  \E n \in DOMAIN line : /\ line[n] = SLASH
                         /\ \A k \in (n + 1)..Len(line) : line[k] \in Modifiers

(* A rule keeps, through the parallel vectors, the skipped lines and the     *)
(* call, the number of its line. Of a line as it should be, with its two     *)
(* slashes and the first of them at the beginning, it is the text between    *)
(* them with the flags behind them; and of a call that succeeds no such line *)
(* is missing but those with modifiers main does not know.                   *)
RulesAreKept ==
  HasExported =>
    /\ \A j, k \in DOMAIN mnrl.rules : j < k => mnrl.rules[j].id < mnrl.rules[k].id
    /\ \A k \in DOMAIN mnrl.rules :
         LET line == rules[mnrl.rules[k].id + 1]
         IN WellFormed(line) => Parsed(line, mnrl.rules[k])
    /\ call_outcome = HS_SUCCESS =>
         \A n \in DOMAIN rules :
           WellFormed(rules[n]) =>
             (Understood(rules[n]) <=> \E k \in DOMAIN mnrl.rules : mnrl.rules[k].id = n - 1)

(* "check that we have 3 parts (i.e. 2 / characters)", says the comment in   *)
(* main, and the message that a rule is surrounded by slashes: the expression *)
(* is what stands between the first slash of its line and another one,       *)
(* wherever in the line they are.                                            *)
RulesHaveThreeParts ==
  HasExported =>
    \A k \in DOMAIN mnrl.rules :
      LET line == rules[mnrl.rules[k].id + 1]
      IN \E n \in Slashes(line) :
           /\ n > StartLoc(line)
           /\ mnrl.rules[k].expr = SubSeq(line, StartLoc(line) + 1, n - 1)

(* The file is exported after an error too. What is in it is what the        *)
(* message says: for an expression that does not compile the rules before    *)
(* the one quoted, and nothing when the message is about no rule.            *)
MessageTellsWhatIsMissing ==
  HasExported =>
    /\ compile_err.kind = "compile" =>
         /\ Quoted \in DOMAIN expressions
         /\ mnrl = Exported(SubSeq(expressions, 1, Quoted - 1), <<>>)
    /\ compile_err.kind = "param" => mnrl = Exported(<<>>, <<>>)
=============================================================================

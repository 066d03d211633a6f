------------------------------ MODULE Toolchain -----------------------------
(***************************************************************************)
(* pcre2mnrl, then hscompile, whatever the first returned, and at any time *)
(* an hsrun that loads the compiled file: the three programs meet only in  *)
(* two files, at whose paths older files may be.                           *)
(***************************************************************************)
EXTENDS Pcre2MnrlMain, Automaton, ReportMap, SequencesExt

CONSTANT
  Shapes   \* networks a conversion may leave, but for what its nodes were made from

VARIABLES
  pc, network, outcome, database, mapping_out, compiled, at, lost, code,  \* hscompile
  compile_error, report_map,
  run,       \* hsrun: where it is, its exit code, the map and the database it loaded
  old        \* history: the files before the programs ran

hscompile_vars == <<pc, network, outcome, database, compile_error, report_map,
                    mapping_out, compiled, at, lost, code>>
vars == <<pcre_vars, hscompile_vars, run, old>>

-----------------------------------------------------------------------------
(* The network in a file. Which nodes a rule or the pieces of one are, what  *)
(* each of them does and where it leads is up to the rule: a shape has the   *)
(* nodes in the order of their names, each of some rule, of one rule none,   *)
(* or several, or none that reports. The symbols of a node stand for the     *)
(* rule it was made from; its report code is the rule's number.              *)

ASSUME ShapesAssumption ==
  \A shape \in Shapes :
    /\ shape.nodes \in Seq([of : Nat \ {0}, enable : Enable, report : BOOLEAN,
                            reportEnable : ReportEnable])
    /\ Len(shape.nodes) <= MaxNodes
    /\ shape.sinks \in Seq(SUBSET (1..Len(shape.nodes)))
    /\ Len(shape.sinks) = Len(shape.nodes)

Sources(file) == file.rules \o file.pieces
Text(rule) == <<rule.expr, rule.flags>>

NodeOf(rule, node) ==
  [type |-> "HSTATE", symbols |-> Text(rule), enable |-> node.enable,
   report |-> node.report, reportEnable |-> node.reportEnable, rid |-> rule.id]

NetworkOf(file, shape) ==
  [size  |-> Len(shape.nodes),
   nodes |-> [k \in DOMAIN shape.nodes |->
                NodeOf(Sources(file)[shape.nodes[k].of], shape.nodes[k])],
   sinks |-> shape.sinks]

NetworksOf(file) ==
  IF file.readable
  THEN {NetworkOf(file, shape) : shape \in
          {s \in Shapes : \A k \in DOMAIN s.nodes : s.nodes[k].of \in DOMAIN Sources(file)}}
  ELSE {}

(* A node has the text of a rule and the number of its line.                 *)
Fits(rule) == Text(rule) \in Symbols /\ rule.id \in Rids
ASSUME NetworksAssumption ==
         /\ \A n \in DOMAIN OldRules : Fits(OldRules[n])
         /\ \A lines \in RuleFiles : \A n \in DOMAIN lines :
              Slashes(lines[n]) # {} /\ ~Failed(lines[n]) => Fits(Rule(lines[n], n - 1))

HsCompile == INSTANCE HsCompileMain WITH
  Loaded <- NetworksOf, compile_err <- compile_error

(* The file hscompile writes for a network when nothing goes wrong. *)
FileOf(net) == HsCompile!MapUnits(HsCompile!Compilation!NumberingOf(net))
                 \o HsCompile!DbUnits(HsCompile!Compilation!CompiledOf(net))

OldNetworks == NetworksOf(Exported(OldRules, <<>>))

Init ==
  /\ PcreInit
  /\ compiled \in {FileOf(net) : net \in OldNetworks} \cup {HsCompile!NoUnits}
  /\ HsCompile!Init
  /\ run = [pc |-> "load", code |-> -1, map |-> EmptyMap, db |-> EmptyGraph]
  /\ old = [mnrl |-> mnrl, compiled |-> compiled]

-----------------------------------------------------------------------------
(* hsrun, up to the contexts: it reads the file, takes as many entries as    *)
(* the header says, and gives the rest to hs_deserialize_database, which     *)
(* checks that it is a whole database. ReadInput has the reading itself.     *)

Entries(file)  == SubSeq(file, 2, Min({file[1][2] + 1, Len(file)}))
DbPart(file)   == SubSeq(file, file[1][2] + 2, Len(file))
Readable(file) ==
  /\ file # <<>> /\ file[1][1] = "header"
  /\ Len(Entries(file)) = file[1][2]
  /\ \A k \in DOMAIN Entries(file) : Entries(file)[k][1] = "entry"
  /\ Len(DbPart(file)) > 0 /\ DbPart(file)[1][1] = "db"
  /\ DbPart(file) = HsCompile!DbUnits(DbPart(file)[1][3])

(* unserialize_mapping: the entries are inserted in the order of the file. *)
MapIn(file) ==
  FoldLeft(LAMBDA map, unit : insert_mapping(map, unit[2].id, unit[2].name, unit[2].report),
           EmptyMap, Entries(file))

Load ==
  /\ run.pc = "load"
  /\ Readable(compiled)
  /\ run' = [pc |-> "scan", code |-> -1, map |-> MapIn(compiled), db |-> DbPart(compiled)[1][3]]
  /\ UNCHANGED <<pcre_vars, hscompile_vars, old>>

(* readInputData returns NULL for a file that is absent or empty. A map that  *)
(* is cut off is read beyond its end, a database that is not whole is         *)
(* refused, and the message of that is read through an unassigned pointer.    *)
LoadFails ==
  /\ run.pc = "load"
  /\ ~Readable(compiled)
  /\ \E status \in IF compiled = <<>> THEN {2} ELSE {3, -2} :
       run' = [run EXCEPT !.pc = "exited", !.code = status]
  /\ UNCHANGED <<pcre_vars, hscompile_vars, old>>

Pcre2Mnrl == PcreNext /\ UNCHANGED <<hscompile_vars, run, old>>

HsCompileStep ==
  /\ pcre_pc = "exited"
  /\ HsCompile!Next
  /\ UNCHANGED <<rules, pcre_pc, i, expressions, call, mnrl_lost, pcre_code, run, old>>

Terminated == pc = "exited" /\ run.pc # "load" /\ UNCHANGED vars

Next == Pcre2Mnrl \/ HsCompileStep \/ Load \/ LoadFails \/ Terminated

Spec == Init /\ [][Next]_vars
-----------------------------------------------------------------------------
(* Properties                                                              *)

IsUnit(u) == \/ u[1] = "header" /\ u[2] \in 0..MaxNodes
             \/ u[1] = "entry" /\ DOMAIN u[2] = {"id", "name", "report"}
             \/ u[1] = "db" /\ u[2] \in 1..2

TypeOK ==
  /\ PcreTypeOK
  /\ pc \in {"compile", "map", "database", "open", "write_map", "write_db", "close", "exited"}
  /\ outcome \in {"pending", "stopped", "HS_SUCCESS", "HS_COMPILER_ERROR"}
  /\ outcome = "HS_SUCCESS" => HsCompile!Compilation!IsNetwork(network)
  /\ \A k \in DOMAIN compiled : IsUnit(compiled[k])
  /\ at \in 0..(Len(mapping_out) + 2) /\ lost \in BOOLEAN
  /\ code \in {-2, -1, 0, 1, 2, 3, 4}
  /\ run.pc \in {"load", "scan", "exited"} /\ run.code \in {-2, -1, 2, 3}
  /\ DenseIds(run.map) /\ UniqueIds(run.map)

(* A program that says it failed has not touched the file it was to write:   *)
(* hscompile opens its output when there is nothing left that may fail but   *)
(* the writing.                                                              *)
FailureKeepsTheFile ==
  /\ pcre_code \notin {-1, 0} /\ ~mnrl_lost => mnrl = old.mnrl
  /\ code \notin {-1, 0} => compiled = old.compiled

(* Both fwrite calls and the fclose may fall short unnoticed, the file may be *)
(* read while it is written, and there may have been one before. What hsrun  *)
(* loads is for all that a map and a database of one network, this one or    *)
(* the one before.                                                           *)
WholeOrUnreadable ==
  run.pc = "scan" =>
    \E net \in OldNetworks \cup {network} :
      /\ run.map = HsCompile!Compilation!NumberingOf(net)
      /\ run.db  = HsCompile!Compilation!CompiledOf(net)

(* From end to end: of a database that is not one from before, hsrun's       *)
(* handler finds an entry for any report, for the very node that matched,    *)
(* and the code it prints is the number of the line the node was made from.  *)
LookupsNameTheRule ==
  run.pc = "scan" /\ HasExported
      /\ run.db \notin {HsCompile!Compilation!CompiledOf(net) : net \in OldNetworks} =>
    \A k \in DOMAIN run.db.reports :
      /\ IsMapped(run.map, run.db.reports[k])
      /\ LET e == find_mapping(run.map, run.db.reports[k])
         IN e.name = k /\ run.db.reach[k] = Text(Rule(rules[e.report + 1], e.report))

(* When both programs return 0, and no write fell short unnoticed, the file  *)
(* can be loaded, and its database reports where the nodes of the network    *)
(* do, all of them and no other. Each of these reports is in the map under   *)
(* its own node, and that node carries the number and the text of one rule   *)
(* that pcre2mnrl put into the network file, or of what stayed of one.       *)
ChainRunsTheRules ==
  HasExported /\ code = 0 /\ ~lost =>
    /\ Readable(compiled)
    /\ LET graph == DbPart(compiled)[1][3]
           map   == MapIn(compiled)
       IN /\ DOMAIN graph.reports = {k \in 1..network.size : network.nodes[k].report}
          /\ \A k \in DOMAIN graph.reports :
               /\ IsMapped(map, graph.reports[k])
               /\ \E r \in Range(Sources(mnrl)) :
                    /\ find_mapping(map, graph.reports[k]) = Entry(graph.reports[k], k, r.id)
                    /\ graph.reach[k] = Text(r)
=============================================================================

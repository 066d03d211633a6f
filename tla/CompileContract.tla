--------------------------- MODULE CompileContract --------------------------
(***************************************************************************)
(* What hs_compile_mnrl promises its caller (hs_compile_mnrl.h): one step  *)
(* from a network to the automaton with the same states and connections,   *)
(* and a report map that says which node each report of it stands for; or  *)
(* an error, described when there is somewhere to describe it.             *)
(*                                                                         *)
(* One thing it does not promise, as the code does not do it: that what a  *)
(* node does at the end of the data only is still done only there.         *)
(***************************************************************************)
EXTENDS Automaton, ReportMap

VARIABLES
  args,        \* whether the caller gave db and comp_error pointers
  network,     \* the network that was compiled
  outcome,     \* "pending", a return code, or the end of the process
  db, comp_error, report_map

vars == <<args, network, outcome, db, comp_error, report_map>>

Db(state, graph) == [state |-> state, graph |-> graph]

Init ==
  /\ args \in [db : BOOLEAN, comp_error : BOOLEAN]
  /\ network = EmptyNetwork
  /\ outcome = "pending"
  /\ db = Db("unset", EmptyGraph)
  /\ comp_error = "unset"
  /\ report_map = EmptyMap

IsNetwork(net) == /\ net \in Network
                  /\ Len(net.nodes) = net.size /\ Len(net.sinks) = net.size

-----------------------------------------------------------------------------
(* The automaton of a network.                                             *)

Reporters(net) == {k \in 1..net.size : net.nodes[k].report}

(* Reports are numbered from 0 in the order of the nodes. *)
ReportId(net, k) == Cardinality({j \in Reporters(net) : j < k})

(* Vertices of the nodes that are enabled, and that report, in one way. *)
EnabledBy(net, enable) == {Vertex(k) : k \in {j \in 1..net.size : net.nodes[j].enable = enable}}
ReportingBy(net, enable) ==
  {Vertex(k) : k \in {j \in Reporters(net) : net.nodes[j].reportEnable = enable}}
Connections(net) == UNION {{<<Vertex(k), Vertex(s)>> : s \in net.sinks[k]} : k \in 1..net.size}

(* What MNRL means by a network, in which no node is enabled at the end of   *)
(* the data only: Hyperscan's graphs have a vertex for reports at the end,  *)
(* and none for starts there.                                               *)
AutomatonOf(net) ==
  [reach   |-> [k \in 1..net.size |-> net.nodes[k].symbols],
   edges   |-> FixedEdges \cup ({START_DS} \X EnabledBy(net, "ALWAYS"))
                          \cup ({START} \X EnabledBy(net, "ON_START_AND_ACTIVATE_IN"))
                          \cup (ReportingBy(net, "ALWAYS") \X {ACCEPT})
                          \cup (ReportingBy(net, "ON_LAST") \X {ACCEPT_EOD})
                          \cup Connections(net),
   reports |-> [k \in Reporters(net) |-> ReportId(net, k)]]

(* The network with what happens at the end only left out: reports happen    *)
(* everywhere, and nodes enabled there are enabled by others alone.          *)
WithoutLast(net) ==
  [net EXCEPT !.nodes = [k \in 1..net.size |->
     [net.nodes[k] EXCEPT !.reportEnable = "ALWAYS",
                          !.enable = IF @ = "ON_LAST" THEN "ON_ACTIVATE_IN" ELSE @]]]

CompiledOf(net) == AutomatonOf(WithoutLast(net))

(* The node that reports with this id. *)
Reporter(net, id) == CHOOSE k \in Reporters(net) : ReportId(net, k) = id

NumberingOf(net) ==
  [n \in 1..Cardinality(Reporters(net)) |->
     LET k == Reporter(net, n - 1) IN Entry(n - 1, k, net.nodes[k].rid)]

-----------------------------------------------------------------------------
(* The call succeeds: nothing of the network is lost or added, except that   *)
(* the database is the automaton of the network without its ON_LASTs.        *)
CompileTo(net) ==
  /\ outcome = "pending"
  /\ args.db /\ args.comp_error
  /\ outcome' = "HS_SUCCESS"
  /\ network' = net
  /\ \A k \in 1..net.size : Compilable(net.nodes[k])
  /\ db' = Db("built", CompiledOf(net))
  /\ comp_error' = "null"
  /\ report_map' = NumberingOf(net)
  /\ UNCHANGED args

Compile == IsNetwork(network') /\ CompileTo(network')

(* The call fails: no database, an error wherever there is room for one.   *)
(* The map may hold the reports seen so far.                                *)
Fail ==
  /\ outcome = "pending"
  /\ outcome' = "HS_COMPILER_ERROR"
  /\ db'.state = IF args.db THEN "null" ELSE "unset"
  /\ IF args.comp_error THEN comp_error' \notin {"unset", "null"}
                        ELSE comp_error' = "unset"
  /\ DenseIds(report_map') /\ UniqueIds(report_map')
  /\ UNCHANGED <<args, network>>

(* The process ends inside the call. *)
Stop ==
  /\ outcome = "pending"
  /\ outcome' = "stopped"
  /\ UNCHANGED <<args, network, db, comp_error, report_map>>

Next == Compile \/ Fail \/ Stop

Spec == Init /\ [][Next]_vars
=============================================================================

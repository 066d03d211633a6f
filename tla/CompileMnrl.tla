---------------------------- MODULE CompileMnrl -----------------------------
(***************************************************************************)
(* hs_compile_mnrl_int (src/hs_compile_mnrl.cpp): an MNRL file is loaded,  *)
(* its nodes become the vertices of one Hyperscan graph and its reports    *)
(* are numbered and entered in the report map, its connections become the  *)
(* edges of the graph, and the graph is built into a database.             *)
(*                                                                         *)
(* The MNRL library may load any network and Hyperscan may refuse any      *)
(* graph; either may throw.  Each loop looks at a node or at the           *)
(* connections of a node once, so they are chosen as the loop comes to     *)
(* them.                                                                   *)
(***************************************************************************)
EXTENDS Automaton, ReportMap

CONSTANT MaxSinks    \* bound: the most connections out of one node
ASSUME MaxSinksAssumption == MaxSinks \in Nat

VARIABLES
  args,           \* whether the caller gave db and comp_error pointers
  pc,             \* where the call stands
  network,        \* the loaded network, as far as the loops have looked at it
  graph,          \* the graph under construction
  report_id_int,  \* the next report id
  report_map,     \* the caller's report map
  ret, db, comp_error

results == <<ret, db, comp_error>>
vars == <<args, pc, network, graph, report_id_int, report_map, results>>

Phases == {"args", "load", "nodes", "edges", "build", "returned", "exited", "aborted"}
Errors == {"param", "compile", "mnrl", "enomem", "einternal"}

Db(state, g) == [state |-> state, graph |-> g]
NoDb == Db("null", EmptyGraph)

(* hscompile leaves both results uninitialized and starts from no map. *)
Init ==
  /\ args \in [db : BOOLEAN, comp_error : BOOLEAN]
  /\ pc = "args"
  /\ network = EmptyNetwork
  /\ graph = EmptyGraph
  /\ report_id_int = 0
  /\ report_map = EmptyMap
  /\ ret = "none"
  /\ db = Db("unset", EmptyGraph)
  /\ comp_error = "unset"

Return(code, result, error) ==
  /\ pc' = "returned"
  /\ ret' = code
  /\ db' = result
  /\ comp_error' = error

CheckArgs ==
  /\ pc = "args"
  /\ \/ /\ ~args.comp_error
        /\ Return("HS_COMPILER_ERROR", IF args.db THEN NoDb ELSE db, comp_error)
     \/ /\ args.comp_error /\ ~args.db
        /\ Return("HS_COMPILER_ERROR", db, "param")
     \/ /\ args.comp_error /\ args.db
        /\ pc' = "load"
        /\ UNCHANGED results
  /\ UNCHANGED <<args, network, graph, report_id_int, report_map>>

(* CompileContext and NG are constructed before the try block: what their    *)
(* constructors throw is caught by nobody.                                   *)
SetupThrows ==
  /\ pc = "args"
  /\ args.comp_error /\ args.db
  /\ pc' = "aborted"
  /\ UNCHANGED <<args, network, graph, report_id_int, report_map, results>>

(* loadMNRL returns a network of this many nodes. *)
Load(size) ==
  /\ pc = "load"
  /\ pc' = "nodes"
  /\ network' = [network EXCEPT !.size = size]
  /\ UNCHANGED <<args, graph, report_id_int, report_map, results>>

-----------------------------------------------------------------------------
(* The loop over the nodes.                                                *)

AtNode == pc = "nodes" /\ Len(network.nodes) < network.size
This   == Len(network.nodes) + 1

(* An ON_LAST node gets no edge from a start, and any report one to accept:  *)
(* reportEnable is not looked at.                                            *)
StartEdges(node, v) == CASE node.enable = "ALWAYS" -> {<<START_DS, v>>}
                         [] node.enable = "ON_START_AND_ACTIVATE_IN" -> {<<START, v>>}
                         [] OTHER -> {}
ReportEdges(node, v) == IF node.report THEN {<<v, ACCEPT>>} ELSE {}

AddVertex(node) ==
  [reach   |-> Append(graph.reach, node.symbols),
   edges   |-> graph.edges \cup StartEdges(node, Vertex(This))
                           \cup ReportEdges(node, Vertex(This)),
   reports |-> IF node.report
               THEN [k \in DOMAIN graph.reports \cup {This} |->
                       IF k = This THEN report_id_int ELSE graph.reports[k]]
               ELSE graph.reports]

NextId == (report_id_int + 1) % IdSpace

AddNode_NumberingAll(node) ==  \* mutant: the counter also counts silent nodes
  /\ AtNode
  /\ Compilable(node)
  /\ network' = [network EXCEPT !.nodes = Append(@, node)]
  /\ graph' = AddVertex(node)
  /\ report_id_int' = NextId
  /\ report_map' = IF node.report
                   THEN insert_mapping(report_map, report_id_int, This, node.rid)
                   ELSE report_map
  /\ UNCHANGED <<args, pc, results>>

AddNode_SameId(node) ==  \* mutant: the counter does not advance
  /\ AtNode
  /\ Compilable(node)
  /\ network' = [network EXCEPT !.nodes = Append(@, node)]
  /\ graph' = AddVertex(node)
  /\ report_map' = IF node.report
                   THEN insert_mapping(report_map, report_id_int, This, node.rid)
                   ELSE report_map
  /\ UNCHANGED <<args, pc, report_id_int, results>>

(* A vertex, the edge that starts it, and for a report an id of its own.    *)
AddNode(node) ==
  /\ AtNode
  /\ Compilable(node)
  /\ network' = [network EXCEPT !.nodes = Append(@, node)]
  /\ graph' = AddVertex(node)
  /\ IF node.report
     THEN /\ report_id_int' = NextId
          /\ report_map' = insert_mapping(report_map, report_id_int, This, node.rid)
     ELSE UNCHANGED <<report_id_int, report_map>>
  /\ UNCHANGED <<args, pc, results>>

(* Not an hState, or a symbol set that does not parse: exit(1). *)
ExitAtNode(node) ==
  /\ AtNode
  /\ ~Compilable(node)
  /\ pc' = "exited"
  /\ UNCHANGED <<args, network, graph, report_id_int, report_map, results>>

(* The report manager refuses a report that is already in the map, or what   *)
(* follows the insertion runs out of memory or throws something else: the    *)
(* entry stays.                                                              *)
RefuseReport(node) ==
  /\ AtNode
  /\ Compilable(node) /\ node.report
  /\ report_id_int' = NextId
  /\ report_map' = insert_mapping(report_map, report_id_int, This, node.rid)
  /\ \E error \in {"compile", "enomem", "einternal"} :
       Return("HS_COMPILER_ERROR", NoDb, error)
  /\ UNCHANGED <<args, network, graph>>

NodesDone ==
  /\ pc = "nodes"
  /\ Len(network.nodes) = network.size
  /\ pc' = "edges"
  /\ UNCHANGED <<args, network, graph, report_id_int, report_map, results>>

-----------------------------------------------------------------------------
(* The loop over the connections, one node at a time.                      *)

Connect_OneMore(sinks) ==  \* mutant: the loop runs once too often
  /\ pc = "edges"
  /\ Len(network.sinks) <= network.size
  /\ network' = [network EXCEPT !.sinks = Append(@, sinks)]
  /\ graph' = [graph EXCEPT !.edges =
       @ \cup {<<Vertex(Len(network.sinks) + 1), Vertex(s)>> : s \in sinks}]
  /\ UNCHANGED <<args, pc, report_id_int, report_map, results>>

Connect_Reversed(sinks) ==  \* mutant: source and target swapped
  /\ pc = "edges"
  /\ Len(network.sinks) < network.size
  /\ network' = [network EXCEPT !.sinks = Append(@, sinks)]
  /\ graph' = [graph EXCEPT !.edges =
       @ \cup {<<Vertex(s), Vertex(Len(network.sinks) + 1)>> : s \in sinks}]
  /\ UNCHANGED <<args, pc, report_id_int, report_map, results>>

Connect(sinks) ==
  /\ pc = "edges"
  /\ Len(network.sinks) < network.size
  /\ network' = [network EXCEPT !.sinks = Append(@, sinks)]
  /\ graph' = [graph EXCEPT !.edges =
       @ \cup {<<Vertex(Len(network.sinks) + 1), Vertex(s)>> : s \in sinks}]
  /\ UNCHANGED <<args, pc, report_id_int, report_map, results>>

EdgesDone ==
  /\ pc = "edges"
  /\ Len(network.sinks) = network.size
  /\ pc' = "build"
  /\ UNCHANGED <<args, network, graph, report_id_int, report_map, results>>

-----------------------------------------------------------------------------
(* How the call ends.                                                      *)

(* addGraph takes the graph and build returns a database. *)
Build ==
  /\ pc = "build"
  /\ Return("HS_SUCCESS", Db("built", graph), "null")
  /\ UNCHANGED <<args, network, graph, report_id_int, report_map>>

FailAt(phases, error) ==
  /\ pc \in phases
  /\ Return("HS_COMPILER_ERROR", NoDb, error)
  /\ UNCHANGED <<args, network, graph, report_id_int, report_map>>

(* addGraph or build gives up. *)
RejectGraph == FailAt({"build"}, "compile")
(* The file does not exist, is not JSON or is not MNRL. *)
MnrlError == FailAt({"load"}, "mnrl")

InTry == {"load", "nodes", "edges", "build"}
BadAlloc == FailAt(InTry, "enomem")
(* catch (...): the assertion aborts, unless it was built with NDEBUG. *)
Unexpected ==
  \/ FailAt(InTry, "einternal")
  \/ /\ pc \in InTry
     /\ pc' = "aborted"
     /\ UNCHANGED <<args, network, graph, report_id_int, report_map, results>>

Finished == pc \in {"returned", "exited", "aborted"}
Terminated == Finished /\ UNCHANGED vars

Step == \/ CheckArgs
        \/ \E size \in 0..MaxNodes : Load(size)
        \/ \E node \in Node : AddNode(node)
        \/ NodesDone
        \/ \E sinks \in SUBSET (1..network.size) :
             Cardinality(sinks) <= MaxSinks /\ Connect(sinks)
        \/ EdgesDone
        \/ Build

Fault == \/ SetupThrows
         \/ MnrlError
         \/ \E node \in Node : ExitAtNode(node) \/ RefuseReport(node)
         \/ RejectGraph
         \/ BadAlloc
         \/ Unexpected

Next == Step \/ Fault \/ Terminated

Spec == Init /\ [][Next]_vars
-----------------------------------------------------------------------------
(* Properties                                                              *)

TypeOK ==
  /\ args \in [db : BOOLEAN, comp_error : BOOLEAN]
  /\ pc \in Phases
  /\ network \in Network
  /\ Len(network.nodes) <= network.size /\ Len(network.sinks) <= network.size
  /\ graph \in Graph
  /\ report_id_int \in 0..(IdSpace - 1)
  /\ report_map \in MapOver(0..(IdSpace - 1), 1..MaxNodes, Rids)
  /\ ret \in {"none", "HS_SUCCESS", "HS_COMPILER_ERROR"}
  /\ db \in [state : {"unset", "null", "built"}, graph : Graph]
  /\ comp_error \in {"unset", "null"} \cup Errors

(* The ids of the map are 0 .. count - 1, each once, after every iteration  *)
(* and on every way out: hsrun allocates one support counter per entry and  *)
(* uses report ids as indices into them. The counter is the next of them:   *)
(* it has not wrapped.                                                      *)
ReportIdsDense ==
  DenseIds(report_map) /\ UniqueIds(report_map) /\ report_id_int = count_mapping(report_map)

(* The map hscompile writes next to the database names, for every id the    *)
(* database can pass to a callback, the one node that reports with it.      *)
ReportsNameTheirNodes ==
  /\ \A k \in DOMAIN graph.reports :
       /\ IsMapped(report_map, graph.reports[k])
       /\ find_mapping(report_map, graph.reports[k])
            = Entry(graph.reports[k], k, network.nodes[k].rid)
  /\ \A j, k \in DOMAIN graph.reports : graph.reports[j] = graph.reports[k] => j = k

(* An entry of the map is final: no later node takes its id or its place.   *)
EntriesAreFinal ==
  [][\A k \in DOMAIN report_map :
       k \in DOMAIN report_map' /\ report_map'[k] = report_map[k]]_vars

(* The call as its caller sees it: nothing until it ends, then everything.  *)
Contract == INSTANCE CompileContract WITH
  network    <- IF ret = "HS_SUCCESS" THEN network ELSE EmptyNetwork,
  outcome    <- CASE pc = "returned" -> ret
                  [] pc \in {"exited", "aborted"} -> "stopped"
                  [] OTHER -> "pending",
  report_map <- IF pc = "returned" THEN report_map ELSE EmptyMap

(* hs_compile_mnrl keeps the promise of its header: on success the database  *)
(* is the automaton of the whole network, but for what nodes do at the end   *)
(* of the data only, with the reports numbered in the order of the nodes,    *)
(* and on failure there is no database and an error.                         *)
ImplementsContract == Contract!Spec

(* README.md calls this a compiler for MNRL files, whose nodes may report at *)
(* the end of the data only: pcre2mnrl marks the node of a $ so. In the      *)
(* database such a node leads to the accept vertex of the end alone.         *)
LastReportsAreLast ==
  ret = "HS_SUCCESS" =>
    \A k \in 1..network.size :
      network.nodes[k].report /\ network.nodes[k].reportEnable = "ON_LAST"
        => <<Vertex(k), ACCEPT>> \notin db.graph.edges
=============================================================================

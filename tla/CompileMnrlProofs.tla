-------------------------- MODULE CompileMnrlProofs -------------------------
(***************************************************************************)
(* Theorems about CompileMnrl, for networks of any size: its type          *)
(* invariant, and that the reports are numbered 0, 1, 2, ... in the order  *)
(* in which they enter the report map, whose entries name their nodes and  *)
(* never change; and, in the second half, that it implements the contract  *)
(* of its header, CompileContract.                                         *)
(***************************************************************************)
EXTENDS CompileMnrl, SequenceTheorems, FiniteSetTheorems, TLAPS

(* The map is a numbering: the k-th entry has id k - 1, the counter is the   *)
(* number of entries, and there are no more of them than nodes looked at.    *)
Numbered ==
  /\ report_id_int = Len(report_map)
  /\ \A k \in DOMAIN report_map : report_map[k].id = k - 1
  /\ Len(report_map) <= MaxNodes
  /\ pc # "returned" => Len(report_map) <= Len(network.nodes)

(* Every report of the graph has the entry its id points to. *)
Named ==
  \A k \in DOMAIN graph.reports :
    /\ k \in 1..Len(network.nodes)
    /\ graph.reports[k] \in 0..(Len(report_map) - 1)
    /\ report_map[graph.reports[k] + 1]
         = Entry(graph.reports[k], k, network.nodes[k].rid)

(* The loops have not started before the network is there. *)
Unread == pc \in {"args", "load"} => network.nodes = <<>> /\ network.sinks = <<>>

IInv == TypeOK /\ Numbered /\ Named /\ Unread

-----------------------------------------------------------------------------
(* The counter of hs_compile_mnrl_int does not wrap below IdSpace. *)
LEMMA NextIdIsSuccessor ==
  ASSUME NEW n \in Nat, NEW x \in Nat, x + 1 < n
  PROVE  (x + 1) % n = x + 1
  BY SMT

(* insert_mapping under the first free number of a numbering appends. *)
LEMMA InsertNext ==
  ASSUME NEW S, NEW map \in Seq(S),
         \A k \in DOMAIN map : map[k].id = k - 1,
         NEW name, NEW report
  PROVE  insert_mapping(map, Len(map), name, report)
           = Append(map, Entry(Len(map), name, report))
  BY DEF insert_mapping, Positions

(* A numbering has the ids 0 .. count - 1, each once. *)
LEMMA NumberingIsDense ==
  ASSUME NEW S, NEW map \in Seq(S),
         \A k \in DOMAIN map : map[k].id = k - 1
  PROVE  DenseIds(map) /\ UniqueIds(map)
<1>1. UniqueIds(map)
  BY DEF UniqueIds
<1>2. {map[k].id : k \in DOMAIN map} = 0..(Len(map) - 1)
  <2>1. ASSUME NEW r \in 0..(Len(map) - 1)
        PROVE  r \in {map[k].id : k \in DOMAIN map}
    <3>1. r + 1 \in DOMAIN map /\ map[r + 1].id = r
      OBVIOUS
    <3>2. QED
      BY <3>1
  <2>2. ASSUME NEW k \in DOMAIN map
        PROVE  map[k].id \in 0..(Len(map) - 1)
    OBVIOUS
  <2>3. QED
    BY <2>1, <2>2, Zenon
<1>3. QED
  BY <1>1, <1>2 DEF DenseIds, count_mapping

(* In a numbering, find_mapping returns the entry after the id's number. *)
LEMMA FindInNumbering ==
  ASSUME NEW S, NEW map \in Seq(S),
         \A k \in DOMAIN map : map[k].id = k - 1,
         NEW r \in 0..(Len(map) - 1)
  PROVE  IsMapped(map, r) /\ find_mapping(map, r) = map[r + 1]
<1>1. Positions(map, r) = {r + 1}
  BY DEF Positions
<1>2. QED
  BY <1>1 DEF IsMapped, find_mapping

-----------------------------------------------------------------------------
LEMMA EmptyGraphType == EmptyGraph \in Graph
<1> USE MaxNodesAssumption, IdSpaceAssumption
<1>1. <<>> \in [{} -> 0..(IdSpace - 1)]
  OBVIOUS
<1>2. <<>> \in ReportIds
  BY <1>1 DEF ReportIds
<1>3. FixedEdges \subseteq GraphEdge
  BY DEF FixedEdges, GraphEdge, Vertex, N_SPECIALS, START, START_DS, ACCEPT, ACCEPT_EOD
<1>4. QED
  BY <1>2, <1>3 DEF EmptyGraph, Graph

LEMMA InitInv == Init => IInv
<1> SUFFICES ASSUME Init PROVE IInv
  OBVIOUS
<1> USE MaxNodesAssumption, IdSpaceAssumption
<1>1. EmptyGraph \in Graph
  BY EmptyGraphType
<1>2. EmptyNetwork \in Network
  BY DEF EmptyNetwork, Network
<1>3. TypeOK
  BY <1>1, <1>2 DEF Init, TypeOK, Phases, Errors, MapOver, EmptyMap, Db, EmptyNetwork
<1>4. Numbered /\ Named /\ Unread
  BY DEF Init, Numbered, Named, Unread, EmptyMap, EmptyGraph, EmptyNetwork
<1>5. QED
  BY <1>3, <1>4 DEF IInv

-----------------------------------------------------------------------------
(* Most steps only move pc and, at the end, set the results. *)
LEMMA MoveInv ==
  ASSUME IInv,
         UNCHANGED <<args, network, graph, report_id_int, report_map>>,
         pc # "returned",
         pc' \in Phases, pc' \in {"args", "load"} => pc \in {"args", "load"},
         ret' \in {"none", "HS_SUCCESS", "HS_COMPILER_ERROR"},
         db' \in [state : {"unset", "null", "built"}, graph : Graph],
         comp_error' \in {"unset", "null"} \cup Errors
  PROVE  IInv'
<1>1. TypeOK'
  BY DEF IInv, TypeOK
<1>2. Numbered' /\ Named' /\ Unread'
  BY DEF IInv, Numbered, Named, Unread
<1>3. QED
  BY <1>1, <1>2 DEF IInv

(* What a return sets is well typed. *)
LEMMA ReturnTypes ==
  ASSUME NEW code \in {"HS_SUCCESS", "HS_COMPILER_ERROR"},
         NEW result \in [state : {"unset", "null", "built"}, graph : Graph],
         NEW error \in {"unset", "null"} \cup Errors,
         Return(code, result, error)
  PROVE  /\ pc' \in Phases /\ pc' = "returned"
         /\ ret' \in {"none", "HS_SUCCESS", "HS_COMPILER_ERROR"}
         /\ db' \in [state : {"unset", "null", "built"}, graph : Graph]
         /\ comp_error' \in {"unset", "null"} \cup Errors
  BY DEF Return, Phases

LEMMA CheckArgsInv ==
  ASSUME IInv, CheckArgs
  PROVE  IInv'
<1>1. db \in [state : {"unset", "null", "built"}, graph : Graph]
      /\ NoDb \in [state : {"unset", "null", "built"}, graph : Graph]
  BY EmptyGraphType DEF IInv, TypeOK, NoDb, Db
<1>2. CASE /\ ~args.comp_error
           /\ Return("HS_COMPILER_ERROR", IF args.db THEN NoDb ELSE db, comp_error)
  <2>1. comp_error \in {"unset", "null"} \cup Errors
    BY DEF IInv, TypeOK
  <2>2. QED
    BY <1>1, <1>2, <2>1, ReturnTypes, MoveInv DEF CheckArgs
<1>3. CASE args.comp_error /\ ~args.db /\ Return("HS_COMPILER_ERROR", db, "param")
  BY <1>1, <1>3, ReturnTypes, MoveInv DEF CheckArgs, Errors
<1>4. CASE args.comp_error /\ args.db /\ pc' = "load" /\ UNCHANGED results
  BY <1>4, MoveInv DEF CheckArgs, results, Phases, IInv, TypeOK
<1>5. QED
  BY <1>2, <1>3, <1>4 DEF CheckArgs

LEMMA LoadInv ==
  ASSUME IInv, NEW size \in 0..MaxNodes, Load(size)
  PROVE  IInv'
<1>1. network.nodes = <<>> /\ network.sinks = <<>>
  BY DEF IInv, Unread, Load
<1>2. network'.nodes = <<>> /\ network'.sinks = <<>>
  BY <1>1 DEF IInv, TypeOK, Load, Network
<1>3. TypeOK'
  BY <1>1, <1>2 DEF IInv, TypeOK, Load, Network, results, Phases
<1>4. Numbered' /\ Named' /\ Unread'
  BY <1>1, <1>2 DEF IInv, Numbered, Named, Unread, Load
<1>5. QED
  BY <1>3, <1>4 DEF IInv

-----------------------------------------------------------------------------
(* The loop over the nodes.                                                *)

(* There is room for one more report: its id is new and the next is no wrap. *)
LEMMA RoomForReport ==
  ASSUME IInv, AtNode
  PROVE  /\ report_id_int = Len(report_map) /\ Len(report_map) \in Nat
         /\ report_id_int + 1 <= MaxNodes
         /\ This \in 1..MaxNodes
         /\ NextId = report_id_int + 1
         /\ report_id_int \in 0..(IdSpace - 1) /\ NextId \in 0..(IdSpace - 1)
<1> USE MaxNodesAssumption, IdSpaceAssumption
<1>1. Len(report_map) \in Nat /\ Len(network.nodes) \in Nat /\ network.size \in 0..MaxNodes
  BY DEF IInv, TypeOK, MapOver, Network
<1>2. report_id_int = Len(report_map) /\ report_id_int + 1 <= MaxNodes
  BY <1>1 DEF IInv, Numbered, AtNode
<1>3. NextId = report_id_int + 1
  <2>1. report_id_int \in Nat /\ report_id_int + 1 < IdSpace
    BY <1>1, <1>2
  <2>2. QED
    BY <2>1, NextIdIsSuccessor DEF NextId
<1>4. QED
  BY <1>1, <1>2, <1>3 DEF AtNode, This

(* What entering a report does to the map. *)
LEMMA EnterReport ==
  ASSUME IInv, AtNode, NEW node \in Node
  PROVE  LET new == insert_mapping(report_map, report_id_int, This, node.rid)
         IN /\ new = Append(report_map, Entry(report_id_int, This, node.rid))
            /\ new \in MapOver(0..(IdSpace - 1), 1..MaxNodes, Rids)
            /\ Len(new) = report_id_int + 1
            /\ \A k \in DOMAIN new : new[k].id = k - 1
            /\ \A k \in 1..Len(report_map) : new[k] = report_map[k]
            /\ new[report_id_int + 1] = Entry(report_id_int, This, node.rid)
<1> DEFINE EntryType == [id : 0..(IdSpace - 1), name : 1..MaxNodes, report : Rids]
           new == insert_mapping(report_map, report_id_int, This, node.rid)
           e == Entry(report_id_int, This, node.rid)
<1>1. report_map \in Seq(EntryType)
  BY DEF IInv, TypeOK, MapOver
<1>2. \A k \in DOMAIN report_map : report_map[k].id = k - 1
  BY DEF IInv, Numbered
<1>3. report_id_int = Len(report_map)
  BY RoomForReport
<1>4. new = Append(report_map, e)
  <2> HIDE DEF EntryType
  <2>1. insert_mapping(report_map, Len(report_map), This, node.rid)
          = Append(report_map, Entry(Len(report_map), This, node.rid))
    BY <1>1, <1>2, InsertNext
  <2>2. QED
    BY <2>1, <1>3
<1>5. e \in EntryType /\ e.id = report_id_int
  BY RoomForReport DEF Entry, Node
<1> HIDE DEF new, e, EntryType
<1>6. /\ new \in Seq(EntryType) /\ Len(new) = report_id_int + 1
      /\ \A k \in 1..Len(report_map) : new[k] = report_map[k]
      /\ new[report_id_int + 1] = e
  BY <1>1, <1>3, <1>4, <1>5
<1>7. \A k \in DOMAIN new : new[k].id = k - 1
  BY <1>1, <1>2, <1>3, <1>5, <1>6
<1>8. QED
  BY <1>4, <1>6, <1>7 DEF MapOver, new, e, EntryType

(* The vertex, its edges and its report are well typed. *)
LEMMA AddVertexType ==
  ASSUME IInv, AtNode, NEW node \in Node
  PROVE  AddVertex(node) \in Graph
<1> USE MaxNodesAssumption, IdSpaceAssumption
<1>1. Vertex(This) \in 0..Vertex(MaxNodes) /\ {START, START_DS, ACCEPT} \subseteq 0..Vertex(MaxNodes)
  BY RoomForReport DEF Vertex, N_SPECIALS, START, START_DS, ACCEPT
<1>2. StartEdges(node, Vertex(This)) \subseteq GraphEdge
      /\ ReportEdges(node, Vertex(This)) \subseteq GraphEdge
  <2>1. \A u, w \in {Vertex(This), START, START_DS, ACCEPT} : {<<u, w>>} \subseteq GraphEdge
    BY <1>1 DEF GraphEdge
  <2>2. StartEdges(node, Vertex(This)) \in
          {{}, {<<START, Vertex(This)>>}, {<<START_DS, Vertex(This)>>}}
    BY DEF StartEdges
  <2>3. ReportEdges(node, Vertex(This)) \in {{}, {<<Vertex(This), ACCEPT>>}}
    BY Zenon DEF ReportEdges
  <2>4. QED
    BY <2>1, <2>2, <2>3, Zenon
<1>3. graph.reach \in Seq(Symbols) /\ graph.edges \subseteq GraphEdge /\ graph.reports \in ReportIds
  BY DEF IInv, TypeOK, Graph
<1>4. AddVertex(node).reports \in ReportIds
  <2>1. PICK ks \in SUBSET (1..MaxNodes) : graph.reports \in [ks -> 0..(IdSpace - 1)]
    BY <1>3 DEF ReportIds
  <2>2. CASE node.report
    <3>1. AddVertex(node).reports \in [ks \cup {This} -> 0..(IdSpace - 1)]
      BY <2>1, <2>2, RoomForReport DEF AddVertex
    <3>2. ks \cup {This} \in SUBSET (1..MaxNodes)
      BY <2>1, RoomForReport
    <3>3. QED
      BY <3>1, <3>2 DEF ReportIds
  <2>3. CASE ~node.report
    BY <2>3, <1>3 DEF AddVertex
  <2>4. QED
    BY <2>2, <2>3
<1>5. Append(graph.reach, node.symbols) \in Seq(Symbols)
  BY <1>3 DEF Node
<1>6. QED
  BY <1>2, <1>3, <1>4, <1>5 DEF AddVertex, Graph

(* One more node of the network has been looked at. *)
LEMMA NetworkGrows ==
  ASSUME IInv, AtNode, NEW node \in Node,
         network' = [network EXCEPT !.nodes = Append(@, node)]
  PROVE  /\ network' \in Network
         /\ network'.size = network.size /\ network'.sinks = network.sinks
         /\ Len(network'.nodes) = This /\ This <= network.size
         /\ \A k \in 1..Len(network.nodes) : network'.nodes[k] = network.nodes[k]
         /\ network'.nodes[This] = node
<1>1. network \in Network
  BY DEF IInv, TypeOK
<1>2. network'.nodes = Append(network.nodes, node)
      /\ network'.size = network.size /\ network'.sinks = network.sinks
  BY <1>1 DEF Network
<1>3. /\ network.nodes \in Seq(Node) /\ Len(network.nodes) \in Nat
      /\ Len(network.nodes) < network.size /\ network.size \in 0..MaxNodes
      /\ network.sinks \in Seq(SUBSET (1..MaxNodes))
  BY <1>1 DEF Network, AtNode
<1>4. /\ network'.nodes \in Seq(Node) /\ Len(network'.nodes) = This
      /\ This <= network.size
      /\ \A k \in 1..Len(network.nodes) : network'.nodes[k] = network.nodes[k]
      /\ network'.nodes[This] = node
  <2> DEFINE ns == network.nodes
  <2>1. ns \in Seq(Node) /\ Len(ns) \in Nat /\ network'.nodes = Append(ns, node)
        /\ This = Len(ns) + 1 /\ Len(ns) < network.size /\ network.size \in Nat
    BY <1>2, <1>3, MaxNodesAssumption DEF This
  <2> HIDE DEF ns
  <2>2. Append(ns, node) \in Seq(Node) /\ Len(Append(ns, node)) = Len(ns) + 1
        /\ (\A k \in 1..Len(ns) : Append(ns, node)[k] = ns[k])
        /\ Append(ns, node)[Len(ns) + 1] = node
    BY <2>1
  <2>3. QED
    BY <2>1, <2>2 DEF ns
<1>5. network' \in Network
  <2>1. network' = [size |-> network.size, nodes |-> network'.nodes, sinks |-> network.sinks]
    BY <1>1 DEF Network
  <2>2. QED
    BY <1>3, <1>4, <2>1 DEF Network
<1>6. QED
  BY <1>2, <1>4, <1>5

LEMMA AddNodeInv ==
  ASSUME IInv, NEW node \in Node, AddNode(node)
  PROVE  IInv'
<1>1. AtNode /\ network' = [network EXCEPT !.nodes = Append(@, node)]
      /\ graph' = AddVertex(node) /\ UNCHANGED <<args, pc, ret, db, comp_error>> /\ pc = "nodes"
  BY DEF AddNode, AtNode, results
<1>2. /\ network' \in Network
      /\ network'.size = network.size /\ network'.sinks = network.sinks
      /\ Len(network'.nodes) = This /\ This <= network.size
      /\ \A k \in 1..Len(network.nodes) : network'.nodes[k] = network.nodes[k]
      /\ network'.nodes[This] = node
  BY <1>1, NetworkGrows
<1>3. This = Len(network.nodes) + 1 /\ Len(network.nodes) \in Nat /\ Len(report_map) \in Nat
  BY DEF This, IInv, TypeOK, Network, MapOver
<1>4. graph' \in Graph
  BY <1>1, AddVertexType
<1>5. Unread'
  BY <1>1 DEF Unread
<1>6. CASE node.report
  <2>1. /\ report_id_int' = report_id_int + 1
        /\ report_id_int' \in 0..(IdSpace - 1)
        /\ report_id_int = Len(report_map)
        /\ report_id_int + 1 <= MaxNodes
    BY <1>1, <1>6, RoomForReport DEF AddNode
  <2>2. report_map' = insert_mapping(report_map, report_id_int, This, node.rid)
    BY <1>6 DEF AddNode
  <2>3. /\ report_map' \in MapOver(0..(IdSpace - 1), 1..MaxNodes, Rids)
        /\ Len(report_map') = report_id_int + 1
        /\ \A k \in DOMAIN report_map' : report_map'[k].id = k - 1
        /\ \A k \in 1..Len(report_map) : report_map'[k] = report_map[k]
        /\ report_map'[report_id_int + 1] = Entry(report_id_int, This, node.rid)
    BY <1>1, <2>2, EnterReport
  <2>4. TypeOK'
    BY <1>1, <1>2, <1>3, <1>4, <2>1, <2>3 DEF IInv, TypeOK
  <2>5. Numbered'
    BY <1>1, <1>2, <1>3, <2>1, <2>3 DEF IInv, Numbered
  <2>6. Named'
    <3> SUFFICES ASSUME NEW k \in DOMAIN graph'.reports
                 PROVE  /\ k \in 1..Len(network'.nodes)
                        /\ graph'.reports[k] \in 0..(Len(report_map') - 1)
                        /\ report_map'[graph'.reports[k] + 1]
                             = Entry(graph'.reports[k], k, network'.nodes[k].rid)
      BY DEF Named
    <3>1. k \in DOMAIN graph.reports \cup {This}
          /\ graph'.reports[k] = IF k = This THEN report_id_int ELSE graph.reports[k]
      BY <1>1, <1>6 DEF AddVertex
    <3>2. CASE k = This
      BY <1>2, <1>3, <2>1, <2>3, <3>1, <3>2
    <3>3. CASE k # This
      <4>1. /\ k \in 1..Len(network.nodes)
            /\ graph.reports[k] \in 0..(Len(report_map) - 1)
            /\ report_map[graph.reports[k] + 1]
                 = Entry(graph.reports[k], k, network.nodes[k].rid)
        BY <3>1, <3>3 DEF IInv, Named
      <4>2. graph.reports[k] + 1 \in 1..Len(report_map)
        BY <4>1, <1>3
      <4>3. report_map'[graph.reports[k] + 1] = report_map[graph.reports[k] + 1]
        BY <2>3, <4>2
      <4>4. network'.nodes[k] = network.nodes[k]
        BY <1>2, <4>1
      <4>5. QED
        BY <1>2, <1>3, <2>1, <2>3, <3>1, <3>3, <4>1, <4>3, <4>4
    <3>4. QED
      BY <3>2, <3>3
  <2>7. QED
    BY <2>4, <2>5, <2>6, <1>5 DEF IInv
<1>7. CASE ~node.report
  <2>1. UNCHANGED <<report_id_int, report_map>>
    BY <1>7 DEF AddNode
  <2>2. graph'.reports = graph.reports
    BY <1>1, <1>7 DEF AddVertex
  <2>3. TypeOK'
    BY <1>1, <1>2, <1>3, <1>4, <2>1 DEF IInv, TypeOK
  <2>4. Numbered'
    BY <1>1, <1>2, <1>3, <2>1 DEF IInv, Numbered
  <2>5. Named'
    <3> SUFFICES ASSUME NEW k \in DOMAIN graph.reports
                 PROVE  /\ k \in 1..Len(network'.nodes)
                        /\ graph.reports[k] \in 0..(Len(report_map) - 1)
                        /\ report_map[graph.reports[k] + 1]
                             = Entry(graph.reports[k], k, network'.nodes[k].rid)
      BY <2>1, <2>2 DEF Named
    <3>1. /\ k \in 1..Len(network.nodes)
          /\ graph.reports[k] \in 0..(Len(report_map) - 1)
          /\ report_map[graph.reports[k] + 1]
               = Entry(graph.reports[k], k, network.nodes[k].rid)
      BY DEF IInv, Named
    <3>2. QED
      BY <1>2, <1>3, <3>1
  <2>6. QED
    BY <2>3, <2>4, <2>5, <1>5 DEF IInv
<1>8. QED
  BY <1>6, <1>7

LEMMA RefuseReportInv ==
  ASSUME IInv, NEW node \in Node, RefuseReport(node)
  PROVE  IInv'
<1>1. /\ AtNode
      /\ report_id_int' = report_id_int + 1
      /\ report_id_int' \in 0..(IdSpace - 1)
      /\ report_id_int = Len(report_map)
      /\ report_id_int + 1 <= MaxNodes
      /\ Len(report_map) \in Nat
  BY RoomForReport DEF RefuseReport
<1>2. report_map' = insert_mapping(report_map, report_id_int, This, node.rid)
      /\ UNCHANGED <<args, network, graph>>
      /\ \E error \in Errors : Return("HS_COMPILER_ERROR", NoDb, error)
  BY DEF RefuseReport, Errors
<1>3. /\ report_map' \in MapOver(0..(IdSpace - 1), 1..MaxNodes, Rids)
      /\ Len(report_map') = report_id_int + 1
      /\ \A k \in DOMAIN report_map' : report_map'[k].id = k - 1
      /\ \A k \in 1..Len(report_map) : report_map'[k] = report_map[k]
  BY <1>1, <1>2, EnterReport
<1>4. /\ pc' \in Phases /\ pc' = "returned"
      /\ ret' \in {"none", "HS_SUCCESS", "HS_COMPILER_ERROR"}
      /\ db' \in [state : {"unset", "null", "built"}, graph : Graph]
      /\ comp_error' \in {"unset", "null"} \cup Errors
  <2>1. NoDb \in [state : {"unset", "null", "built"}, graph : Graph]
    BY EmptyGraphType DEF NoDb, Db
  <2>2. PICK error \in Errors : Return("HS_COMPILER_ERROR", NoDb, error)
    BY <1>2
  <2>3. QED
    BY <2>1, <2>2, ReturnTypes
<1>5. TypeOK'
  BY <1>1, <1>2, <1>3, <1>4 DEF IInv, TypeOK
<1>6. Numbered' /\ Unread'
  BY <1>1, <1>3, <1>4 DEF Numbered, Unread
<1>7. Named'
  <2> SUFFICES ASSUME NEW k \in DOMAIN graph.reports
               PROVE  /\ k \in 1..Len(network.nodes)
                      /\ graph.reports[k] \in 0..(Len(report_map') - 1)
                      /\ report_map'[graph.reports[k] + 1]
                           = Entry(graph.reports[k], k, network.nodes[k].rid)
    BY <1>2 DEF Named
  <2>1. /\ k \in 1..Len(network.nodes)
        /\ graph.reports[k] \in 0..(Len(report_map) - 1)
        /\ report_map[graph.reports[k] + 1]
             = Entry(graph.reports[k], k, network.nodes[k].rid)
    BY DEF IInv, Named
  <2>2. graph.reports[k] + 1 \in 1..Len(report_map)
    BY <2>1, <1>1
  <2>3. QED
    BY <2>1, <2>2, <1>1, <1>3
<1>8. QED
  BY <1>5, <1>6, <1>7 DEF IInv

LEMMA ConnectInv ==
  ASSUME IInv, NEW sinks \in SUBSET (1..network.size), Connect(sinks)
  PROVE  IInv'
<1> USE MaxNodesAssumption
<1> DEFINE c == Len(network.sinks) + 1
           new == {<<Vertex(c), Vertex(s)>> : s \in sinks}
<1>1. network \in Network /\ graph \in Graph /\ pc = "edges" /\ Len(network.sinks) < network.size
  BY DEF IInv, TypeOK, Connect
<1>2. /\ network'.nodes = network.nodes /\ network'.size = network.size
      /\ network'.sinks = Append(network.sinks, sinks)
      /\ network' \in Network
      /\ Len(network'.sinks) <= network.size
  <2>1. network.sinks \in Seq(SUBSET (1..MaxNodes)) /\ sinks \in SUBSET (1..MaxNodes)
        /\ network.size \in 0..MaxNodes
    BY <1>1 DEF Network
  <2>2. Append(network.sinks, sinks) \in Seq(SUBSET (1..MaxNodes))
        /\ Len(Append(network.sinks, sinks)) <= network.size
    BY <1>1, <2>1
  <2>3. QED
    BY <1>1, <2>2 DEF Connect, Network
<1>3. graph'.reach = graph.reach /\ graph'.reports = graph.reports /\ graph' \in Graph
  <2>1. new \subseteq GraphEdge
    <3>1. ASSUME NEW s \in sinks
          PROVE  <<Vertex(c), Vertex(s)>> \in GraphEdge
      <4>1. c \in 1..MaxNodes /\ s \in 1..MaxNodes
        BY <1>1 DEF Network
      <4>2. QED
        BY <4>1 DEF GraphEdge, Vertex, N_SPECIALS
    <3>2. QED
      BY <3>1
  <2>2. graph' = [graph EXCEPT !.edges = @ \cup new]
    BY DEF Connect
  <2>3. QED
    BY <1>1, <2>1, <2>2 DEF Graph
<1>4. TypeOK'
  BY <1>1, <1>2, <1>3 DEF IInv, TypeOK, Connect, results
<1>5. Numbered' /\ Named' /\ Unread'
  BY <1>1, <1>2, <1>3 DEF IInv, Numbered, Named, Unread, Connect
<1>6. QED
  BY <1>4, <1>5 DEF IInv

-----------------------------------------------------------------------------
(* The ways out.                                                           *)

LEMMA FailInv ==
  ASSUME IInv, NEW phases, phases \subseteq {"load", "nodes", "edges", "build"},
         NEW error \in Errors, FailAt(phases, error)
  PROVE  IInv'
<1>1. NoDb \in [state : {"unset", "null", "built"}, graph : Graph]
  BY EmptyGraphType DEF NoDb, Db
<1>2. Return("HS_COMPILER_ERROR", NoDb, error) /\ pc \in phases
      /\ UNCHANGED <<args, network, graph, report_id_int, report_map>>
  BY DEF FailAt
<1>3. /\ pc' \in Phases /\ pc' = "returned"
      /\ ret' \in {"none", "HS_SUCCESS", "HS_COMPILER_ERROR"}
      /\ db' \in [state : {"unset", "null", "built"}, graph : Graph]
      /\ comp_error' \in {"unset", "null"} \cup Errors
  BY <1>1, <1>2, ReturnTypes
<1>4. QED
  BY <1>2, <1>3, MoveInv

LEMMA BuildInv ==
  ASSUME IInv, Build
  PROVE  IInv'
<1>1. Db("built", graph) \in [state : {"unset", "null", "built"}, graph : Graph]
  BY DEF Db, IInv, TypeOK
<1>2. Return("HS_SUCCESS", Db("built", graph), "null") /\ pc = "build"
      /\ UNCHANGED <<args, network, graph, report_id_int, report_map>>
  BY DEF Build
<1>3. /\ pc' \in Phases /\ pc' = "returned"
      /\ ret' \in {"none", "HS_SUCCESS", "HS_COMPILER_ERROR"}
      /\ db' \in [state : {"unset", "null", "built"}, graph : Graph]
      /\ comp_error' \in {"unset", "null"} \cup Errors
  BY <1>1, <1>2, ReturnTypes
<1>4. QED
  BY <1>2, <1>3, MoveInv

(* Steps of pc alone: the ends of the loops, exits and aborts. *)
LEMMA PhaseInv ==
  ASSUME IInv,
         UNCHANGED <<args, network, graph, report_id_int, report_map, results>>,
         pc # "returned", pc' \in {"edges", "build", "exited", "aborted"}
  PROVE  IInv'
<1>1. /\ ret' \in {"none", "HS_SUCCESS", "HS_COMPILER_ERROR"}
      /\ db' \in [state : {"unset", "null", "built"}, graph : Graph]
      /\ comp_error' \in {"unset", "null"} \cup Errors
      /\ pc' \in Phases
  BY DEF results, IInv, TypeOK, Phases
<1>2. QED
  BY <1>1, MoveInv

(* Every step preserves the invariant. *)
LEMMA NextInv == IInv /\ [Next]_vars => IInv'
<1> SUFFICES ASSUME IInv, [Next]_vars PROVE IInv'
  OBVIOUS
<1>1. CASE CheckArgs
  BY <1>1, CheckArgsInv
<1>2. ASSUME NEW size \in 0..MaxNodes, Load(size) PROVE IInv'
  BY <1>2, LoadInv
<1>3. ASSUME NEW node \in Node, AddNode(node) PROVE IInv'
  BY <1>3, AddNodeInv
<1>4. CASE NodesDone
  BY <1>4, PhaseInv DEF NodesDone
<1>5. ASSUME NEW sinks \in SUBSET (1..network.size), Connect(sinks) PROVE IInv'
  BY <1>5, ConnectInv
<1>6. CASE EdgesDone
  BY <1>6, PhaseInv DEF EdgesDone
<1>7. CASE Build
  BY <1>7, BuildInv
<1>8. CASE SetupThrows
  BY <1>8, PhaseInv DEF SetupThrows
<1>9. CASE MnrlError
  BY <1>9, FailInv DEF MnrlError, Errors
<1>10. ASSUME NEW node \in Node, ExitAtNode(node) PROVE IInv'
  BY <1>10, PhaseInv DEF ExitAtNode, AtNode
<1>11. ASSUME NEW node \in Node, RefuseReport(node) PROVE IInv'
  BY <1>11, RefuseReportInv
<1>12. CASE RejectGraph
  BY <1>12, FailInv DEF RejectGraph, Errors
<1>13. CASE BadAlloc
  BY <1>13, FailInv DEF BadAlloc, InTry, Errors
<1>14. CASE Unexpected
  <2>1. CASE FailAt(InTry, "einternal")
    BY <2>1, FailInv DEF InTry, Errors
  <2>2. CASE /\ pc \in InTry /\ pc' = "aborted"
             /\ UNCHANGED <<args, network, graph, report_id_int, report_map, results>>
    BY <2>2, PhaseInv DEF InTry
  <2>3. QED
    BY <1>14, <2>1, <2>2 DEF Unexpected
<1>15. CASE UNCHANGED vars
  BY <1>15 DEF vars, results, IInv, TypeOK, Numbered, Named, Unread
<1>16. CASE Terminated
  BY <1>15, <1>16 DEF Terminated
<1>17. CASE Step
  BY <1>17, <1>1, <1>2, <1>3, <1>4, <1>5, <1>6, <1>7 DEF Step
<1>18. CASE Fault
  BY <1>18, <1>8, <1>9, <1>10, <1>11, <1>12, <1>13, <1>14 DEF Fault
<1>19. QED
  BY <1>15, <1>16, <1>17, <1>18 DEF Next

(* The strengthened invariant holds in every reachable state of the call. *)
LEMMA Inductive == Spec => []IInv
<1>1. QED
  BY InitInv, NextInv, PTL DEF Spec

-----------------------------------------------------------------------------
(* The theorems.                                                           *)

(* Every variable keeps its type: above all the map, the graph and the       *)
(* network, which grow side by side.                                         *)
THEOREM TypeCorrect == Spec => []TypeOK
<1>1. IInv => TypeOK
  BY DEF IInv
<1>2. QED
  BY <1>1, Inductive, PTL

(* The report ids of the map are 0 .. count - 1, each once, and the counter  *)
(* is their number, which it can only be as long as it has not wrapped: what *)
(* hsrun needs of a mapping file to size and to index its support counters.  *)
THEOREM ReportsAreDense == Spec => []ReportIdsDense
<1>1. IInv => ReportIdsDense
  <2> SUFFICES ASSUME IInv PROVE ReportIdsDense
    OBVIOUS
  <2> DEFINE EntryType == [id : 0..(IdSpace - 1), name : 1..MaxNodes, report : Rids]
  <2>1. report_map \in Seq(EntryType)
    BY DEF IInv, TypeOK, MapOver
  <2>2. \A k \in DOMAIN report_map : report_map[k].id = k - 1
    BY DEF IInv, Numbered
  <2> HIDE DEF EntryType
  <2>3. report_id_int = count_mapping(report_map)
    BY DEF IInv, Numbered, count_mapping
  <2>4. QED
    BY <2>1, <2>2, <2>3, NumberingIsDense DEF ReportIdsDense
<1>2. QED
  BY <1>1, Inductive, PTL

(* The id a vertex reports with finds, in the map, the entry of its own node *)
(* and of no other: what the tallies of hsrun are labelled with.             *)
THEOREM ReportsAreNamed == Spec => []ReportsNameTheirNodes
<1>1. IInv => ReportsNameTheirNodes
  <2> SUFFICES ASSUME IInv PROVE ReportsNameTheirNodes
    OBVIOUS
  <2> DEFINE EntryType == [id : 0..(IdSpace - 1), name : 1..MaxNodes, report : Rids]
  <2>1. report_map \in Seq(EntryType)
    BY DEF IInv, TypeOK, MapOver
  <2>2. \A k \in DOMAIN report_map : report_map[k].id = k - 1
    BY DEF IInv, Numbered
  <2> HIDE DEF EntryType
  <2>3. ASSUME NEW k \in DOMAIN graph.reports
        PROVE  /\ IsMapped(report_map, graph.reports[k])
               /\ find_mapping(report_map, graph.reports[k])
                    = Entry(graph.reports[k], k, network.nodes[k].rid)
    <3>1. /\ graph.reports[k] \in 0..(Len(report_map) - 1)
          /\ report_map[graph.reports[k] + 1]
               = Entry(graph.reports[k], k, network.nodes[k].rid)
      BY DEF IInv, Named
    <3>2. IsMapped(report_map, graph.reports[k])
          /\ find_mapping(report_map, graph.reports[k]) = report_map[graph.reports[k] + 1]
      BY <2>1, <2>2, <3>1, FindInNumbering
    <3>3. QED
      BY <3>1, <3>2
  <2>4. ASSUME NEW j \in DOMAIN graph.reports, NEW k \in DOMAIN graph.reports,
               graph.reports[j] = graph.reports[k]
        PROVE  j = k
    <3>1. Entry(graph.reports[j], j, network.nodes[j].rid).name
            = Entry(graph.reports[k], k, network.nodes[k].rid).name
      BY <2>3, <2>4
    <3>2. QED
      BY <3>1 DEF Entry
  <2>5. QED
    BY <2>3, <2>4 DEF ReportsNameTheirNodes
<1>2. QED
  BY <1>1, Inductive, PTL

(* An entry of the map is never replaced, moved or removed, not even by the  *)
(* report the report manager refuses: insert_mapping only ever appends here. *)
THEOREM EntriesStay == Spec => EntriesAreFinal
<1> DEFINE Final == \A k \in DOMAIN report_map :
                      k \in DOMAIN report_map' /\ report_map'[k] = report_map[k]
<1>1. IInv /\ [Next]_vars => [Final]_vars
  <2> SUFFICES ASSUME IInv, Next PROVE Final
    BY Zenon
  <2>1. ASSUME NEW node \in Node, AtNode,
               report_map' = insert_mapping(report_map, report_id_int, This, node.rid)
        PROVE  Final
    <3>1. /\ Len(report_map') = report_id_int + 1
          /\ report_map' \in MapOver(0..(IdSpace - 1), 1..MaxNodes, Rids)
          /\ \A k \in 1..Len(report_map) : report_map'[k] = report_map[k]
      BY <2>1, EnterReport
    <3>2. DOMAIN report_map = 1..Len(report_map) /\ DOMAIN report_map' = 1..Len(report_map')
          /\ Len(report_map) \in Nat
      BY <3>1 DEF IInv, TypeOK, MapOver
    <3>3. report_id_int = Len(report_map)
      BY DEF IInv, Numbered
    <3>4. QED
      BY <3>1, <3>2, <3>3
  <2>2. CASE UNCHANGED report_map
    BY <2>2
  <2>3. ASSUME NEW node \in Node, AddNode(node) \/ RefuseReport(node) PROVE Final
    <3>1. CASE AddNode(node)
      <4>1. AtNode /\ (\/ report_map' = insert_mapping(report_map, report_id_int, This, node.rid)
                       \/ UNCHANGED report_map)
        BY <3>1 DEF AddNode
      <4>2. QED
        BY <4>1, <2>1, <2>2
    <3>2. CASE RefuseReport(node)
      <4>1. AtNode /\ report_map' = insert_mapping(report_map, report_id_int, This, node.rid)
        BY <3>2 DEF RefuseReport
      <4>2. QED
        BY <4>1, <2>1
    <3>3. QED
      BY <2>3, <3>1, <3>2
  <2>4. \/ \E node \in Node : AddNode(node) \/ RefuseReport(node)
        \/ UNCHANGED report_map
    BY Zenon DEF Next, Step, Fault, Terminated, CheckArgs, Load, NodesDone, Connect, EdgesDone,
           Build, SetupThrows, MnrlError, ExitAtNode, RejectGraph, BadAlloc, Unexpected,
           FailAt, vars
  <2>5. QED
    BY <2>2, <2>3, <2>4
<1>2. QED
  BY <1>1, Inductive, PTL DEF Spec, EntriesAreFinal

-----------------------------------------------------------------------------
(* hs_compile_mnrl keeps the promise of its header, for networks of any      *)
(* size: CompileMnrl implements CompileContract.  The loops build the        *)
(* automaton of the network one node and one row of connections at a time;   *)
(* the caller sees it appear at once.                                        *)

(* What the loops make of the nodes and of the connections seen so far. *)
ReportersIn(ns) == {k \in 1..Len(ns) : ns[k].report}
NodeEdges(ns) ==
  UNION {StartEdges(ns[k], Vertex(k)) \cup ReportEdges(ns[k], Vertex(k)) : k \in 1..Len(ns)}
Row(k, sinks) == {<<Vertex(k), Vertex(s)>> : s \in sinks}
SinkEdges(ss) == UNION {Row(k, ss[k]) : k \in 1..Len(ss)}
IdAmong(reporters, k) == Cardinality({l \in reporters : l < k})

(* Nothing is handed out before the call returns, and it goes past its      *)
(* arguments only with room for both results.                               *)
Pending ==
  /\ pc # "returned" => ret = "none" /\ db = Db("unset", EmptyGraph) /\ comp_error = "unset"
  /\ pc \notin {"args", "returned"} => args.db /\ args.comp_error

(* One loop after the other. *)
Looped ==
  /\ pc \in {"args", "load", "nodes"} => network.sinks = <<>>
  /\ pc \in {"edges", "build"} => Len(network.nodes) = network.size
  /\ pc = "build" => Len(network.sinks) = network.size

(* Until it returns, the graph is the automaton of what has been seen, and  *)
(* the map numbers the reports among it in their order.                     *)
Reported ==
  /\ DOMAIN graph.reports = ReportersIn(network.nodes)
  /\ \A k \in DOMAIN graph.reports :
       graph.reports[k] = IdAmong(ReportersIn(network.nodes), k)
  /\ Len(report_map) = Cardinality(ReportersIn(network.nodes))
  /\ \A n \in 1..Len(report_map) : \E k \in DOMAIN graph.reports : graph.reports[k] = n - 1

Drawn ==
  /\ \A k \in 1..Len(network.nodes) : Compilable(network.nodes[k])
  /\ Len(graph.reach) = Len(network.nodes)
  /\ \A k \in 1..Len(network.nodes) : graph.reach[k] = network.nodes[k].symbols
  /\ graph.edges = FixedEdges \cup NodeEdges(network.nodes) \cup SinkEdges(network.sinks)

Built == pc # "returned" => Reported /\ Drawn

CInv == IInv /\ Pending /\ Looped /\ Built

-----------------------------------------------------------------------------
(* Sequences that grow.                                                    *)

LEMMA AppendIs ==
  ASSUME NEW S, NEW s \in Seq(S), NEW e \in S
  PROVE  /\ Append(s, e) \in Seq(S) /\ Len(Append(s, e)) = Len(s) + 1 /\ Len(s) \in Nat
         /\ \A k \in 1..Len(s) : Append(s, e)[k] = s[k]
         /\ Append(s, e)[Len(s) + 1] = e
OBVIOUS

LEMMA AppendReporters ==
  ASSUME NEW ns \in Seq(Node), NEW node \in Node
  PROVE  ReportersIn(Append(ns, node)) =
           ReportersIn(ns) \cup (IF node.report THEN {Len(ns) + 1} ELSE {})
<1> DEFINE new == Append(ns, node)
<1>1. /\ Len(new) = Len(ns) + 1 /\ Len(ns) \in Nat
      /\ \A k \in 1..Len(ns) : new[k] = ns[k]
      /\ new[Len(ns) + 1] = node
  BY AppendIs
<1> HIDE DEF new
<1> QED
  BY <1>1 DEF ReportersIn, new

LEMMA AppendNodeEdges ==
  ASSUME NEW ns \in Seq(Node), NEW node \in Node
  PROVE  LET v == Vertex(Len(ns) + 1)
         IN NodeEdges(Append(ns, node)) =
              NodeEdges(ns) \cup StartEdges(node, v) \cup ReportEdges(node, v)
<1> DEFINE new == Append(ns, node)
           F(k) == StartEdges(new[k], Vertex(k)) \cup ReportEdges(new[k], Vertex(k))
           G(k) == StartEdges(ns[k], Vertex(k)) \cup ReportEdges(ns[k], Vertex(k))
<1>1. /\ Len(new) = Len(ns) + 1 /\ Len(ns) \in Nat
      /\ \A k \in 1..Len(ns) : new[k] = ns[k]
      /\ new[Len(ns) + 1] = node
  BY AppendIs
<1>2. \A k \in 1..Len(ns) : F(k) = G(k)
  BY <1>1
<1>3. F(Len(ns) + 1) = StartEdges(node, Vertex(Len(ns) + 1)) \cup ReportEdges(node, Vertex(Len(ns) + 1))
  BY <1>1
<1>4. NodeEdges(new) = UNION {F(k) : k \in 1..Len(new)} /\ NodeEdges(ns) = UNION {G(k) : k \in 1..Len(ns)}
  BY DEF NodeEdges
<1>5. 1..Len(new) = (1..Len(ns)) \cup {Len(ns) + 1}
  BY <1>1
<1> HIDE DEF new, F, G
<1>6. UNION {F(k) : k \in 1..Len(new)} = (UNION {F(k) : k \in 1..Len(ns)}) \cup F(Len(ns) + 1)
  BY <1>5
<1>7. UNION {F(k) : k \in 1..Len(ns)} = UNION {G(k) : k \in 1..Len(ns)}
  BY <1>2
<1> QED
  BY <1>3, <1>4, <1>6, <1>7 DEF new

LEMMA AppendSinkEdges ==
  ASSUME NEW S, NEW ss \in Seq(S), NEW sinks \in S
  PROVE  SinkEdges(Append(ss, sinks)) = SinkEdges(ss) \cup Row(Len(ss) + 1, sinks)
<1> DEFINE new == Append(ss, sinks)
           F(k) == Row(k, new[k])
           G(k) == Row(k, ss[k])
<1>1. /\ Len(new) = Len(ss) + 1 /\ Len(ss) \in Nat
      /\ \A k \in 1..Len(ss) : new[k] = ss[k]
      /\ new[Len(ss) + 1] = sinks
  BY AppendIs
<1>2. \A k \in 1..Len(ss) : F(k) = G(k)
  BY <1>1
<1>3. F(Len(ss) + 1) = Row(Len(ss) + 1, sinks)
  BY <1>1
<1>4. SinkEdges(new) = UNION {F(k) : k \in 1..Len(new)} /\ SinkEdges(ss) = UNION {G(k) : k \in 1..Len(ss)}
  BY DEF SinkEdges
<1>5. 1..Len(new) = (1..Len(ss)) \cup {Len(ss) + 1}
  BY <1>1
<1> HIDE DEF new, F, G
<1>6. UNION {F(k) : k \in 1..Len(new)} = (UNION {F(k) : k \in 1..Len(ss)}) \cup F(Len(ss) + 1)
  BY <1>5
<1>7. UNION {F(k) : k \in 1..Len(ss)} = UNION {G(k) : k \in 1..Len(ss)}
  BY <1>2
<1> QED
  BY <1>3, <1>4, <1>6, <1>7 DEF new

(* The reports of a sequence of nodes are finitely many, and a report that  *)
(* follows them all gets their number as its id without changing theirs.    *)
LEMMA ReportersAreFinite ==
  ASSUME NEW ns, Len(ns) \in Nat
  PROVE  /\ IsFiniteSet(ReportersIn(ns)) /\ Cardinality(ReportersIn(ns)) \in Nat
         /\ ReportersIn(ns) \subseteq 1..Len(ns)
<1>1. ReportersIn(ns) \subseteq 1..Len(ns)
  BY DEF ReportersIn
<1>2. IsFiniteSet(1..Len(ns))
  BY FS_Interval
<1> QED
  BY <1>1, <1>2, FS_Subset, FS_CardinalityType

LEMMA LaterReport ==
  ASSUME NEW n \in Nat, NEW R \in SUBSET (1..n), IsFiniteSet(R)
  PROVE  /\ Cardinality(R \cup {n + 1}) = Cardinality(R) + 1
         /\ IdAmong(R \cup {n + 1}, n + 1) = Cardinality(R)
         /\ \A k \in R : IdAmong(R \cup {n + 1}, k) = IdAmong(R, k)
<1>1. Cardinality(R \cup {n + 1}) = Cardinality(R) + 1
  <2>1. n + 1 \notin R
    OBVIOUS
  <2> QED
    BY <2>1, FS_AddElement
<1>2. {l \in R \cup {n + 1} : l < n + 1} = R
  <2>1. \A l \in R : l \in Int /\ l < n + 1
    OBVIOUS
  <2>2. ~(n + 1 < n + 1)
    OBVIOUS
  <2> QED
    BY <2>1, <2>2
<1>3. \A k \in R : {l \in R \cup {n + 1} : l < k} = {l \in R : l < k}
  OBVIOUS
<1> QED
  BY <1>1, <1>2, <1>3 DEF IdAmong

-----------------------------------------------------------------------------
(* The invariant.                                                          *)

LEMMA InitC == Init => CInv
<1> SUFFICES ASSUME Init
             PROVE  CInv
  OBVIOUS
<1>1. IInv
  BY InitInv
<1>2. Pending /\ Looped
  BY DEF Init, Pending, Looped, EmptyNetwork
<1>3. /\ network.nodes = <<>> /\ network.sinks = <<>> /\ Len(network.nodes) = 0
      /\ Len(network.sinks) = 0
      /\ graph.reach = <<>> /\ graph.edges = FixedEdges /\ graph.reports = <<>>
      /\ Len(report_map) = 0
  BY DEF Init, EmptyNetwork, EmptyGraph, EmptyMap
<1>4. ReportersIn(network.nodes) = {}
  BY <1>3 DEF ReportersIn
<1>5. Reported
  BY <1>3, <1>4, FS_EmptySet DEF Reported
<1>6. NodeEdges(network.nodes) = {} /\ SinkEdges(network.sinks) = {}
  BY <1>3 DEF NodeEdges, SinkEdges
<1>7. Drawn
  BY <1>3, <1>6 DEF Drawn
<1> QED
  BY <1>1, <1>2, <1>5, <1>7 DEF CInv, Built

(* Once the call has returned nothing is left of the loops to maintain.     *)
LEMMA ReturnC ==
  ASSUME pc' = "returned"
  PROVE  (Pending /\ Looped /\ Built)'
BY DEF Pending, Looped, Built

(* Steps that only move on: the network, the graph and the map stay.        *)
LEMMA MoveC ==
  ASSUME CInv, UNCHANGED <<args, network, graph, report_map, results>>, pc # "returned",
         pc \in {"args", "load", "nodes"} \/ pc' \notin {"args", "load", "nodes"},
         pc' \in {"edges", "build"} => Len(network.nodes) = network.size,
         pc' = "build" => Len(network.sinks) = network.size,
         pc = "args" => args.db /\ args.comp_error
  PROVE  (Pending /\ Looped /\ Built)'
<1>1. Pending'
  BY DEF CInv, Pending, results
<1>2. Looped'
  BY DEF CInv, Looped
<1>3. Built'
  BY DEF CInv, Built, Reported, Drawn
<1> QED
  BY <1>1, <1>2, <1>3

LEMMA LoadC ==
  ASSUME CInv, NEW size \in 0..MaxNodes, Load(size)
  PROVE  (Pending /\ Looped /\ Built)'
<1>1. /\ pc = "load" /\ pc' = "nodes" /\ UNCHANGED <<args, graph, report_map, results>>
      /\ network'.nodes = network.nodes /\ network'.sinks = network.sinks
  BY DEF Load, CInv, IInv, TypeOK, Network
<1>2. Pending' /\ Looped'
  BY <1>1 DEF CInv, Pending, Looped, results
<1>3. Built'
  BY <1>1 DEF CInv, Built, Reported, Drawn
<1> QED
  BY <1>2, <1>3

(* One node more: its vertex, its edges and, if it reports, the next id.    *)
LEMMA AddNodeC ==
  ASSUME CInv, NEW node \in Node, AddNode(node)
  PROVE  (Pending /\ Looped /\ Built)'
<1> DEFINE ns == network.nodes
           n == Len(network.nodes)
<1>1. /\ pc = "nodes" /\ pc' = "nodes" /\ AtNode /\ Compilable(node)
      /\ graph' = AddVertex(node) /\ UNCHANGED <<args, results>>
      /\ network' = [network EXCEPT !.nodes = Append(@, node)]
      /\ IInv /\ Reported /\ Drawn
  BY DEF AddNode, AtNode, CInv, Built
<1>2. /\ network \in Network /\ ns \in Seq(Node) /\ n \in Nat
      /\ network'.nodes = Append(ns, node) /\ network'.sinks = network.sinks
      /\ This = n + 1
  BY <1>1 DEF IInv, TypeOK, Network, This
<1>3. /\ Len(network'.nodes) = n + 1
      /\ \A k \in 1..n : network'.nodes[k] = ns[k]
      /\ network'.nodes[n + 1] = node
  BY <1>2, AppendIs
<1>4. Pending' /\ Looped'
  BY <1>1, <1>2 DEF CInv, Pending, Looped, results
<1>5. Drawn'
  <2>1. \A k \in 1..(n + 1) : Compilable(network'.nodes[k])
    BY <1>1, <1>2, <1>3 DEF Drawn
  <2>2. graph.reach \in Seq(Symbols) /\ node.symbols \in Symbols
    BY <1>1 DEF IInv, TypeOK, Graph, Node
  <2>3. graph'.reach = Append(graph.reach, node.symbols)
    BY <1>1 DEF AddVertex
  <2>4. /\ Len(graph'.reach) = n + 1
        /\ \A k \in 1..(n + 1) : graph'.reach[k] = network'.nodes[k].symbols
    BY <1>1, <1>2, <1>3, <2>2, <2>3, AppendIs DEF Drawn
  <2>5. graph'.edges = FixedEdges \cup NodeEdges(network'.nodes) \cup SinkEdges(network'.sinks)
    <3>1. graph'.edges = graph.edges \cup StartEdges(node, Vertex(n + 1))
                                     \cup ReportEdges(node, Vertex(n + 1))
      BY <1>1, <1>2 DEF AddVertex
    <3>2. NodeEdges(network'.nodes) = NodeEdges(ns) \cup StartEdges(node, Vertex(n + 1))
                                                    \cup ReportEdges(node, Vertex(n + 1))
      BY <1>2, AppendNodeEdges
    <3> QED
      BY <1>1, <1>2, <3>1, <3>2 DEF Drawn
  <2> QED
    BY <1>3, <2>1, <2>4, <2>5 DEF Drawn
<1>6. CASE ~node.report
  <2>1. UNCHANGED report_map /\ graph'.reports = graph.reports
    BY <1>1, <1>6 DEF AddNode, AddVertex
  <2>2. ReportersIn(network'.nodes) = ReportersIn(ns)
    BY <1>2, <1>6, AppendReporters
  <2> QED
    BY <1>1, <1>4, <1>5, <2>1, <2>2 DEF Reported, Built
<1>7. CASE node.report
  <2> DEFINE R == ReportersIn(ns)
  <2>1. R \subseteq 1..n /\ IsFiniteSet(R) /\ Cardinality(R) \in Nat
    BY <1>2, ReportersAreFinite
  <2>2. ReportersIn(network'.nodes) = R \cup {n + 1}
    BY <1>2, <1>7, AppendReporters
  <2>3. /\ Cardinality(R \cup {n + 1}) = Cardinality(R) + 1
        /\ IdAmong(R \cup {n + 1}, n + 1) = Cardinality(R)
        /\ \A k \in R : IdAmong(R \cup {n + 1}, k) = IdAmong(R, k)
    BY <1>2, <2>1, LaterReport
  <2>4. /\ report_id_int = Len(report_map) /\ Len(report_map) = Cardinality(R)
    BY <1>1, RoomForReport DEF Reported
  <2>5. Len(report_map') = report_id_int + 1
    BY <1>1, <1>7, EnterReport DEF AddNode
  <2>6. /\ DOMAIN graph'.reports = DOMAIN graph.reports \cup {n + 1}
        /\ \A k \in DOMAIN graph'.reports :
             graph'.reports[k] = IF k = n + 1 THEN report_id_int ELSE graph.reports[k]
    BY <1>1, <1>2, <1>7 DEF AddVertex
  <2>7. /\ DOMAIN graph.reports = R /\ \A k \in R : graph.reports[k] = IdAmong(R, k) /\ k # n + 1
    BY <1>1, <1>2, <2>1 DEF Reported
  <2>8. \A m \in 1..Len(report_map) : \E k \in DOMAIN graph.reports : graph.reports[k] = m - 1
    BY <1>1 DEF Reported
  <2> HIDE DEF R, n
  <2>9. \A k \in DOMAIN graph'.reports : graph'.reports[k] = IdAmong(R \cup {n + 1}, k)
    BY <2>3, <2>4, <2>6, <2>7
  <2>10. ASSUME NEW m \in 1..Len(report_map')
         PROVE  \E k \in DOMAIN graph'.reports : graph'.reports[k] = m - 1
    <3>1. CASE m = Len(report_map')
      BY <2>1, <2>4, <2>5, <2>6, <3>1
    <3>2. CASE m # Len(report_map')
      <4>1. m \in 1..Len(report_map)
        BY <2>1, <2>4, <2>5, <3>2
      <4>2. PICK k \in DOMAIN graph.reports : graph.reports[k] = m - 1
        BY <2>8, <4>1
      <4> QED
        BY <2>6, <2>7, <4>2
    <3> QED
      BY <3>1, <3>2
  <2>11. Reported'
    BY <2>2, <2>3, <2>4, <2>5, <2>6, <2>7, <2>9, <2>10 DEF Reported
  <2> QED
    BY <1>4, <1>5, <2>11 DEF Built
<1> QED
  BY <1>6, <1>7

LEMMA ConnectC ==
  ASSUME CInv, NEW sinks \in SUBSET (1..network.size), Connect(sinks)
  PROVE  (Pending /\ Looped /\ Built)'
<1>1. /\ pc = "edges" /\ pc' = "edges" /\ UNCHANGED <<args, report_map, results>>
      /\ network' = [network EXCEPT !.sinks = Append(@, sinks)]
      /\ graph' = [graph EXCEPT !.edges =
           @ \cup {<<Vertex(Len(network.sinks) + 1), Vertex(s)>> : s \in sinks}]
      /\ IInv /\ Reported /\ Drawn
  BY DEF Connect, CInv, Built
<1>2. /\ network'.nodes = network.nodes /\ network'.size = network.size
      /\ network'.sinks = Append(network.sinks, sinks)
      /\ network.sinks \in Seq(SUBSET (1..MaxNodes)) /\ sinks \in SUBSET (1..MaxNodes)
  BY <1>1, MaxNodesAssumption DEF IInv, TypeOK, Network
<1>3. /\ graph'.reach = graph.reach /\ graph'.reports = graph.reports
      /\ graph'.edges = graph.edges \cup Row(Len(network.sinks) + 1, sinks)
  BY <1>1 DEF IInv, TypeOK, Graph, Row
<1>4. Pending' /\ Looped'
  BY <1>1, <1>2 DEF CInv, Pending, Looped, results
<1>5. SinkEdges(network'.sinks) = SinkEdges(network.sinks) \cup Row(Len(network.sinks) + 1, sinks)
  <2>1. SinkEdges(Append(network.sinks, sinks))
          = SinkEdges(network.sinks) \cup Row(Len(network.sinks) + 1, sinks)
    <3>1. \A S : \A ss \in Seq(S), r \in S :
            SinkEdges(Append(ss, r)) = SinkEdges(ss) \cup Row(Len(ss) + 1, r)
      BY AppendSinkEdges
    <3>2. PICK S : network.sinks \in Seq(S) /\ sinks \in S
      BY <1>2
    <3>3. \A ss \in Seq(S), r \in S :
            SinkEdges(Append(ss, r)) = SinkEdges(ss) \cup Row(Len(ss) + 1, r)
      BY <3>1
    <3> QED
      BY <3>2, <3>3, Zenon
  <2> QED
    BY <1>2, <2>1
<1>6. Drawn'
  BY <1>1, <1>2, <1>3, <1>5 DEF Drawn
<1>7. Reported'
  BY <1>1, <1>2, <1>3 DEF Reported
<1> QED
  BY <1>4, <1>6, <1>7 DEF Built

LEMMA NextC == CInv /\ [Next]_vars => CInv'
<1> SUFFICES ASSUME CInv, [Next]_vars
             PROVE  CInv'
  OBVIOUS
<1>1. IInv'
  BY NextInv DEF CInv
<1>2. (Pending /\ Looped /\ Built)'
  <2>1. CASE CheckArgs
    <3>1. CASE pc' = "returned"
      BY <3>1, ReturnC
    <3>2. CASE pc' # "returned"
      <4>1. /\ pc = "args" /\ pc' = "load" /\ args.db /\ args.comp_error
            /\ UNCHANGED <<args, network, graph, report_map, results>>
        BY <2>1, <3>2 DEF CheckArgs, Return
      <4> QED
        BY <4>1, MoveC
    <3> QED
      BY <3>1, <3>2
  <2>2. ASSUME NEW size \in 0..MaxNodes, Load(size)
        PROVE  (Pending /\ Looped /\ Built)'
    BY <2>2, LoadC
  <2>3. ASSUME NEW node \in Node, AddNode(node)
        PROVE  (Pending /\ Looped /\ Built)'
    BY <2>3, AddNodeC
  <2>4. CASE NodesDone
    BY <2>4, MoveC DEF NodesDone
  <2>5. ASSUME NEW sinks \in SUBSET (1..network.size), Connect(sinks)
        PROVE  (Pending /\ Looped /\ Built)'
    BY <2>5, ConnectC
  <2>6. CASE EdgesDone
    <3>1. Len(network.nodes) = network.size
      BY <2>6 DEF EdgesDone, CInv, Looped
    <3> QED
      BY <2>6, <3>1, MoveC DEF EdgesDone
  <2>7. CASE Build
    BY <2>7, ReturnC DEF Build, Return
  <2>8. CASE SetupThrows
    BY <2>8, MoveC DEF SetupThrows
  <2>9. ASSUME NEW node \in Node, ExitAtNode(node)
        PROVE  (Pending /\ Looped /\ Built)'
    BY <2>9, MoveC DEF ExitAtNode, AtNode
  <2>10. ASSUME NEW node \in Node, RefuseReport(node)
         PROVE  (Pending /\ Looped /\ Built)'
    BY <2>10, ReturnC DEF RefuseReport, Return
  <2>11. CASE MnrlError \/ RejectGraph \/ BadAlloc
    BY <2>11, ReturnC DEF MnrlError, RejectGraph, BadAlloc, FailAt, Return
  <2>12. CASE Unexpected
    <3>1. CASE FailAt(InTry, "einternal")
      BY <3>1, ReturnC DEF FailAt, Return
    <3>2. CASE pc' = "aborted"
      BY <2>12, <3>2, MoveC DEF Unexpected, FailAt, Return, InTry
    <3> QED
      BY <2>12, <3>1, <3>2 DEF Unexpected
  <2>13. CASE Terminated \/ UNCHANGED vars
    BY <2>13 DEF CInv, Pending, Looped, Built, Reported, Drawn, Terminated, vars, results
  <2> QED
    BY <2>1, <2>2, <2>3, <2>4, <2>5, <2>6, <2>7, <2>8, <2>9, <2>10, <2>11, <2>12, <2>13
       DEF Next, Step, Fault
<1> QED
  BY <1>1, <1>2 DEF CInv

LEMMA InductiveC == Spec => []CInv
BY InitC, NextC, PTL DEF Spec

-----------------------------------------------------------------------------
(* What the loops have built is what the contract asks for.                *)

LEMMA SameGraphs ==
  /\ \A k : Contract!Vertex(k) = Vertex(k)
  /\ Contract!START = START /\ Contract!START_DS = START_DS /\ Contract!ACCEPT = ACCEPT
  /\ Contract!FixedEdges = FixedEdges /\ Contract!Node = Node /\ Contract!Network = Network
  /\ \A node : Contract!Compilable(node) = Compilable(node)
  /\ Contract!EmptyNetwork = EmptyNetwork /\ Contract!EmptyGraph = EmptyGraph
  /\ \A id, name, report : Contract!Entry(id, name, report) = Entry(id, name, report)
  /\ \A state, g : Contract!Db(state, g) = Db(state, g)
  /\ \A map : Contract!DenseIds(map) = DenseIds(map) /\ Contract!UniqueIds(map) = UniqueIds(map)
  /\ Contract!EmptyMap = EmptyMap
  /\ \A S : Contract!Cardinality(S) = Cardinality(S)
<1>1. \A k : Contract!Vertex(k) = Vertex(k)
  BY DEF Contract!Vertex, Vertex, Contract!N_SPECIALS, N_SPECIALS
<1>2. Contract!START = START /\ Contract!START_DS = START_DS /\ Contract!ACCEPT = ACCEPT
  BY DEF Contract!START, Contract!START_DS, Contract!ACCEPT, START, START_DS, ACCEPT
<1>3. Contract!FixedEdges = FixedEdges
  BY DEF Contract!FixedEdges, FixedEdges, Contract!START, Contract!START_DS, Contract!ACCEPT,
         Contract!ACCEPT_EOD, START, START_DS, ACCEPT, ACCEPT_EOD
<1>4. Contract!Node = Node
  BY DEF Contract!Node, Node, Contract!Enable, Enable, Contract!ReportEnable, ReportEnable
<1>5. Contract!Network = Network
  BY <1>4 DEF Contract!Network, Network
<1>6. \A node : Contract!Compilable(node) = Compilable(node)
  BY DEF Contract!Compilable, Compilable
<1>7. Contract!EmptyNetwork = EmptyNetwork /\ Contract!EmptyMap = EmptyMap
  BY DEF Contract!EmptyNetwork, EmptyNetwork, Contract!EmptyMap, EmptyMap
<1>8. Contract!EmptyGraph = EmptyGraph
  BY <1>3 DEF Contract!EmptyGraph, EmptyGraph
<1>9. /\ \A id, name, report : Contract!Entry(id, name, report) = Entry(id, name, report)
      /\ \A state, g : Contract!Db(state, g) = Db(state, g)
  BY DEF Contract!Entry, Entry, Contract!Db, Db
<1>10. \A map : Contract!DenseIds(map) = DenseIds(map) /\ Contract!UniqueIds(map) = UniqueIds(map)
  BY DEF Contract!DenseIds, DenseIds, Contract!UniqueIds, UniqueIds,
         Contract!count_mapping, count_mapping
<1>11. \A S : Contract!Cardinality(S) = Cardinality(S)
  BY DEF Contract!Cardinality, Cardinality
<1> QED
  BY <1>1, <1>2, <1>3, <1>4, <1>5, <1>6, <1>7, <1>8, <1>9, <1>10, <1>11

(* The network without its ON_LASTs has the same nodes, started and          *)
(* reporting as the code's edges have it.                                    *)
LEMMA WithoutLastIs ==
  ASSUME NEW net \in Network, Len(net.nodes) = net.size
  PROVE  LET w == Contract!WithoutLast(net)
         IN /\ w.size = net.size /\ w.sinks = net.sinks
            /\ \A k \in 1..net.size :
                 /\ w.nodes[k].symbols = net.nodes[k].symbols
                 /\ w.nodes[k].report = net.nodes[k].report
                 /\ w.nodes[k].reportEnable = "ALWAYS"
                 /\ \A enable \in {"ALWAYS", "ON_START_AND_ACTIVATE_IN"} :
                      w.nodes[k].enable = enable <=> net.nodes[k].enable = enable
<1> DEFINE w == Contract!WithoutLast(net)
           Changed(node) ==
             [node EXCEPT !.reportEnable = "ALWAYS",
                          !.enable = IF @ = "ON_LAST" THEN "ON_ACTIVATE_IN" ELSE @]
<1>1. net \in [size : 0..MaxNodes, nodes : Seq(Node), sinks : Seq(SUBSET (1..MaxNodes))]
  BY DEF Network
<1>2. w = [net EXCEPT !.nodes = [k \in 1..net.size |-> Changed(net.nodes[k])]]
  BY DEF Contract!WithoutLast
<1>3. /\ w.size = net.size /\ w.sinks = net.sinks
      /\ w.nodes = [k \in 1..net.size |-> Changed(net.nodes[k])]
  BY <1>1, <1>2
<1>4. ASSUME NEW node \in Node
      PROVE  /\ Changed(node).symbols = node.symbols
             /\ Changed(node).report = node.report
             /\ Changed(node).reportEnable = "ALWAYS"
             /\ Changed(node).enable =
                  IF node.enable = "ON_LAST" THEN "ON_ACTIVATE_IN" ELSE node.enable
  BY DEF Node
<1>5. \A k \in 1..net.size : net.nodes[k] \in Node
  BY <1>1
<1> HIDE DEF w, Changed
<1>6. \A k \in 1..net.size : w.nodes[k] = Changed(net.nodes[k])
  BY <1>3
<1>7. ASSUME NEW k \in 1..net.size
      PROVE  /\ w.nodes[k].symbols = net.nodes[k].symbols
             /\ w.nodes[k].report = net.nodes[k].report
             /\ w.nodes[k].reportEnable = "ALWAYS"
             /\ \A enable \in {"ALWAYS", "ON_START_AND_ACTIVATE_IN"} :
                  w.nodes[k].enable = enable <=> net.nodes[k].enable = enable
  <2>1. net.nodes[k] \in Node /\ w.nodes[k] = Changed(net.nodes[k])
    BY <1>5, <1>6
  <2>2. /\ w.nodes[k].symbols = net.nodes[k].symbols
        /\ w.nodes[k].report = net.nodes[k].report
        /\ w.nodes[k].reportEnable = "ALWAYS"
        /\ w.nodes[k].enable =
             IF net.nodes[k].enable = "ON_LAST" THEN "ON_ACTIVATE_IN" ELSE net.nodes[k].enable
    BY <2>1, <1>4, Zenon
  <2>3. \A enable \in {"ALWAYS", "ON_START_AND_ACTIVATE_IN"} :
          w.nodes[k].enable = enable <=> net.nodes[k].enable = enable
    BY <2>2
  <2> QED
    BY <2>2, <2>3
<1> QED
  BY <1>3, <1>7 DEF w

(* The edges the loop over the nodes draws are those that the contract       *)
(* collects by kind.                                                         *)
LEMMA NodeEdgesByKind ==
  ASSUME NEW net \in Network, Len(net.nodes) = net.size
  PROVE  LET w == Contract!WithoutLast(net)
         IN NodeEdges(net.nodes) =
              ({START_DS} \X Contract!EnabledBy(w, "ALWAYS"))
                \cup ({START} \X Contract!EnabledBy(w, "ON_START_AND_ACTIVATE_IN"))
                \cup (Contract!ReportingBy(w, "ALWAYS") \X {ACCEPT})
                \cup (Contract!ReportingBy(w, "ON_LAST") \X {Contract!ACCEPT_EOD})
<1> DEFINE w == Contract!WithoutLast(net)
           I == 1..net.size
           ns == net.nodes
           Always == {k \in I : ns[k].enable = "ALWAYS"}
           AtStart == {k \in I : ns[k].enable = "ON_START_AND_ACTIVATE_IN"}
           R == {k \in I : ns[k].report}
           At(ks) == {Vertex(k) : k \in ks}
<1>1. /\ w.size = net.size
      /\ \A k \in I : /\ w.nodes[k].report = ns[k].report
                      /\ w.nodes[k].reportEnable = "ALWAYS"
                      /\ w.nodes[k].enable = "ALWAYS" <=> ns[k].enable = "ALWAYS"
                      /\ w.nodes[k].enable = "ON_START_AND_ACTIVATE_IN"
                           <=> ns[k].enable = "ON_START_AND_ACTIVATE_IN"
  BY WithoutLastIs
<1>2. NodeEdges(ns) = UNION {StartEdges(ns[k], Vertex(k)) \cup ReportEdges(ns[k], Vertex(k)) : k \in I}
  BY DEF NodeEdges
<1> HIDE DEF w, ns, I
<1>3. Contract!EnabledBy(w, "ALWAYS") = At(Always)
  BY <1>1, SameGraphs DEF Contract!EnabledBy, I
<1>4. Contract!EnabledBy(w, "ON_START_AND_ACTIVATE_IN") = At(AtStart)
  BY <1>1, SameGraphs DEF Contract!EnabledBy, I
<1>5. Contract!ReportingBy(w, "ALWAYS") = At(R)
  BY <1>1, SameGraphs DEF Contract!ReportingBy, Contract!Reporters, I
<1>6. Contract!ReportingBy(w, "ON_LAST") = {}
  BY <1>1, SameGraphs DEF Contract!ReportingBy, Contract!Reporters, I
<1>7. /\ \A k \in Always : StartEdges(ns[k], Vertex(k)) = {<<START_DS, Vertex(k)>>}
      /\ \A k \in AtStart : StartEdges(ns[k], Vertex(k)) = {<<START, Vertex(k)>>}
      /\ \A k \in I \ (Always \cup AtStart) : StartEdges(ns[k], Vertex(k)) = {}
      /\ \A k \in R : ReportEdges(ns[k], Vertex(k)) = {<<Vertex(k), ACCEPT>>}
      /\ \A k \in I \ R : ReportEdges(ns[k], Vertex(k)) = {}
  BY DEF StartEdges, ReportEdges
<1> DEFINE S(k) == StartEdges(ns[k], Vertex(k))
           P(k) == ReportEdges(ns[k], Vertex(k))
           Started == ({START_DS} \X At(Always)) \cup ({START} \X At(AtStart))
           Reporting == At(R) \X {ACCEPT}
<1>8. (UNION {S(k) : k \in I}) = Started
  <2>1. ASSUME NEW k \in I PROVE S(k) \subseteq Started
    <3>1. CASE k \in Always
      BY <1>7, <3>1
    <3>2. CASE k \in AtStart
      BY <1>7, <3>2
    <3>3. CASE k \notin Always \cup AtStart
      BY <1>7, <3>3
    <3> QED
      BY <3>1, <3>2, <3>3
  <2>2. ASSUME NEW k \in Always PROVE k \in I /\ <<START_DS, Vertex(k)>> \in S(k)
    BY <1>7
  <2>3. ASSUME NEW k \in AtStart PROVE k \in I /\ <<START, Vertex(k)>> \in S(k)
    BY <1>7
  <2> HIDE DEF S, Always, AtStart
  <2>4. {START_DS} \X At(Always) \subseteq UNION {S(k) : k \in I}
    <3>1. ASSUME NEW k \in Always PROVE <<START_DS, Vertex(k)>> \in UNION {S(j) : j \in I}
      BY <2>2, Zenon
    <3> QED
      BY <3>1
  <2>5. {START} \X At(AtStart) \subseteq UNION {S(k) : k \in I}
    <3>1. ASSUME NEW k \in AtStart PROVE <<START, Vertex(k)>> \in UNION {S(j) : j \in I}
      BY <2>3, Zenon
    <3> QED
      BY <3>1
  <2>6. UNION {S(k) : k \in I} \subseteq Started
    BY <2>1, Zenon
  <2> HIDE DEF At
  <2> QED
    BY <2>4, <2>5, <2>6
<1>9. (UNION {P(k) : k \in I}) = Reporting
  <2>1. ASSUME NEW k \in I PROVE P(k) \subseteq Reporting
    <3>1. CASE k \in R
      BY <1>7, <3>1
    <3>2. CASE k \notin R
      BY <1>7, <3>2
    <3> QED
      BY <3>1, <3>2
  <2>2. ASSUME NEW k \in R PROVE k \in I /\ <<Vertex(k), ACCEPT>> \in P(k)
    BY <1>7
  <2> HIDE DEF P, R
  <2>3. Reporting \subseteq UNION {P(k) : k \in I}
    <3>1. ASSUME NEW k \in R PROVE <<Vertex(k), ACCEPT>> \in UNION {P(j) : j \in I}
      BY <2>2, Zenon
    <3> QED
      BY <3>1
  <2>4. UNION {P(k) : k \in I} \subseteq Reporting
    BY <2>1, Zenon
  <2> QED
    BY <2>3, <2>4
<1>10. NodeEdges(ns) = (UNION {S(k) : k \in I}) \cup (UNION {P(k) : k \in I})
  <2>1. NodeEdges(ns) = UNION {S(k) \cup P(k) : k \in I}
    BY <1>2
  <2> HIDE DEF S, P
  <2> QED
    BY <2>1
<1>11. NodeEdges(ns) = Started \cup Reporting \cup ({} \X {Contract!ACCEPT_EOD})
  BY <1>8, <1>9, <1>10
<1> QED
  BY <1>3, <1>4, <1>5, <1>6, <1>11 DEF w, ns

(* At the end of the loops the graph is the automaton of the network without *)
(* its ON_LASTs and the map the numbering of the network.                    *)
LEMMA AutomatonIsBuilt ==
  ASSUME CInv, pc = "build"
  PROVE  /\ Contract!IsNetwork(network)
         /\ \A k \in 1..network.size : Compilable(network.nodes[k])
         /\ Contract!CompiledOf(network) = graph
         /\ Contract!NumberingOf(network) = report_map
<1> DEFINE R == ReportersIn(network.nodes)
           w == Contract!WithoutLast(network)
<1>1. /\ IInv /\ Reported /\ Drawn
      /\ Len(network.nodes) = network.size /\ Len(network.sinks) = network.size
  BY DEF CInv, Built, Looped
<1>2. /\ network \in Network /\ graph \in Graph /\ network.size \in Nat
      /\ report_map \in Seq([id : 0..(IdSpace - 1), name : 1..MaxNodes, report : Rids])
  BY <1>1, MaxNodesAssumption DEF IInv, TypeOK, MapOver, Network
<1>3. Contract!IsNetwork(network)
  BY <1>1, <1>2, SameGraphs DEF Contract!IsNetwork
<1>4. \A k \in 1..network.size : Compilable(network.nodes[k])
  BY <1>1 DEF Drawn
<1>5. Contract!Reporters(network) = R /\ \A k : Contract!ReportId(network, k) = IdAmong(R, k)
  <2>1. Contract!Reporters(network) = R
    BY <1>1 DEF Contract!Reporters, ReportersIn
  <2> QED
    BY <2>1, SameGraphs DEF Contract!ReportId, IdAmong
<1>6. /\ w.size = network.size /\ w.sinks = network.sinks
      /\ \A k \in 1..network.size : /\ w.nodes[k].symbols = network.nodes[k].symbols
                                    /\ w.nodes[k].report = network.nodes[k].report
  BY <1>1, <1>2, WithoutLastIs
<1> HIDE DEF w
<1>7. graph.reports = [k \in Contract!Reporters(w) |-> Contract!ReportId(w, k)]
  <2>1. PICK ks : graph.reports \in [ks -> 0..(IdSpace - 1)]
    BY <1>2 DEF Graph, ReportIds
  <2>2. DOMAIN graph.reports = R /\ \A k \in R : graph.reports[k] = IdAmong(R, k)
    BY <1>1 DEF Reported
  <2>3. Contract!Reporters(w) = R
    BY <1>1, <1>6 DEF Contract!Reporters, ReportersIn
  <2>4. \A k : Contract!ReportId(w, k) = IdAmong(R, k)
    BY <2>3, SameGraphs DEF Contract!ReportId, IdAmong
  <2> HIDE DEF R
  <2> QED
    BY <2>1, <2>2, <2>3, <2>4
<1>8. graph.reach = [k \in 1..w.size |-> w.nodes[k].symbols]
  <2>1. graph.reach \in Seq(Symbols)
    BY <1>2 DEF Graph
  <2>2. graph.reach = [k \in 1..Len(graph.reach) |-> graph.reach[k]]
    BY <2>1
  <2> QED
    BY <1>1, <1>6, <2>2 DEF Drawn
<1> DEFINE ByKind == ({START_DS} \X Contract!EnabledBy(w, "ALWAYS"))
             \cup ({START} \X Contract!EnabledBy(w, "ON_START_AND_ACTIVATE_IN"))
             \cup (Contract!ReportingBy(w, "ALWAYS") \X {ACCEPT})
             \cup (Contract!ReportingBy(w, "ON_LAST") \X {Contract!ACCEPT_EOD})
<1>9. graph.edges = FixedEdges \cup ByKind \cup Contract!Connections(w)
  <2>1. SinkEdges(network.sinks) = Contract!Connections(w)
    BY <1>1, <1>6, SameGraphs DEF SinkEdges, Row, Contract!Connections
  <2>2. NodeEdges(network.nodes) = ByKind
    BY <1>1, <1>2, NodeEdgesByKind DEF w
  <2>3. graph.edges = FixedEdges \cup NodeEdges(network.nodes) \cup SinkEdges(network.sinks)
    BY <1>1 DEF Drawn
  <2> QED
    BY <2>1, <2>2, <2>3
<1>10. Contract!CompiledOf(network) =
         [reach   |-> [k \in 1..w.size |-> w.nodes[k].symbols],
          edges   |-> FixedEdges \cup ByKind \cup Contract!Connections(w),
          reports |-> [k \in Contract!Reporters(w) |-> Contract!ReportId(w, k)]]
  <2>1. Contract!AutomatonOf(w) =
         [reach   |-> [k \in 1..w.size |-> w.nodes[k].symbols],
          edges   |-> FixedEdges \cup ({START_DS} \X Contract!EnabledBy(w, "ALWAYS"))
                        \cup ({START} \X Contract!EnabledBy(w, "ON_START_AND_ACTIVATE_IN"))
                        \cup (Contract!ReportingBy(w, "ALWAYS") \X {ACCEPT})
                        \cup (Contract!ReportingBy(w, "ON_LAST") \X {Contract!ACCEPT_EOD})
                        \cup Contract!Connections(w),
          reports |-> [k \in Contract!Reporters(w) |-> Contract!ReportId(w, k)]]
    BY SameGraphs DEF Contract!AutomatonOf
  <2>2. \A F, A, B, C, D, E : F \cup A \cup B \cup C \cup D \cup E
                              = F \cup (A \cup B \cup C \cup D) \cup E
    OBVIOUS
  <2>3. Contract!CompiledOf(network) = Contract!AutomatonOf(w)
    BY DEF Contract!CompiledOf, w
  <2> QED
    BY <2>1, <2>2, <2>3, Zenon
<1>11. Contract!CompiledOf(network) = graph
  <2>1. graph = [reach |-> graph.reach, edges |-> graph.edges, reports |-> graph.reports]
    BY <1>2 DEF Graph
  <2> HIDE DEF ByKind
  <2> QED
    BY <1>7, <1>8, <1>9, <1>10, <2>1
<1>12. Contract!NumberingOf(network) = report_map
  <2>1. Len(report_map) = Cardinality(R)
    BY <1>1 DEF Reported
  <2>2. ASSUME NEW n \in 1..Len(report_map)
        PROVE  report_map[n] = LET k == Contract!Reporter(network, n - 1)
                               IN Contract!Entry(n - 1, k, network.nodes[k].rid)
    <3>1. PICK k \in R : IdAmong(R, k) = n - 1
      BY <1>1 DEF Reported
    <3>2. \A j \in R : IdAmong(R, j) = n - 1 =>
            report_map[n] = Entry(n - 1, j, network.nodes[j].rid)
      BY <1>1, <1>2, n - 1 + 1 = n DEF IInv, Named, Reported
    <3>3. ASSUME NEW j \in R, IdAmong(R, j) = n - 1
          PROVE  j = k
      <4>1. Entry(n - 1, j, network.nodes[j].rid) = Entry(n - 1, k, network.nodes[k].rid)
        BY <3>1, <3>2, <3>3
      <4>2. \A id, a, b, x, y : Entry(id, a, x) = Entry(id, b, y) => a = b
        BY DEF Entry
      <4> QED
        BY <4>1, <4>2
    <3>4. Contract!Reporter(network, n - 1) = k
      BY <1>5, <3>1, <3>3 DEF Contract!Reporter
    <3> QED
      BY <3>1, <3>2, <3>4, SameGraphs
  <2>3. report_map = [n \in 1..Len(report_map) |-> report_map[n]]
    BY <1>2
  <2> QED
    BY <1>5, <2>1, <2>2, <2>3, SameGraphs DEF Contract!NumberingOf
<1> QED
  BY <1>3, <1>4, <1>11, <1>12

-----------------------------------------------------------------------------
(* The steps of the call as steps of the contract.                         *)

LEMMA InitImplements == Init => Contract!Init
<1> SUFFICES ASSUME Init
             PROVE  Contract!Init
  OBVIOUS
<1>1. /\ args \in [db : BOOLEAN, comp_error : BOOLEAN] /\ pc = "args" /\ ret = "none"
      /\ db = Db("unset", EmptyGraph) /\ comp_error = "unset"
  BY DEF Init
<1> QED
  BY <1>1, SameGraphs DEF Contract!Init

(* The call returns without a database. *)
LEMMA FailImplements ==
  ASSUME CInv, CInv', UNCHANGED args, pc \in Phases \ {"returned", "exited", "aborted"},
         pc' = "returned", ret' = "HS_COMPILER_ERROR",
         db'.state = (IF args.db THEN "null" ELSE "unset"),
         IF args.comp_error THEN comp_error' \notin {"unset", "null"} ELSE comp_error' = "unset"
  PROVE  Contract!Fail
<1>1. ret = "none"
  BY DEF CInv, Pending
<1>2. (DenseIds(report_map) /\ UniqueIds(report_map))'
  <2>1. /\ (report_map \in Seq([id : 0..(IdSpace - 1), name : 1..MaxNodes, report : Rids]))'
        /\ (\A k \in DOMAIN report_map : report_map[k].id = k - 1)'
    BY DEF CInv, IInv, TypeOK, MapOver, Numbered
  <2> QED
    BY <2>1, NumberingIsDense
<1> QED
  BY <1>1, <1>2, SameGraphs DEF Contract!Fail

(* The process ends inside the call. *)
LEMMA StopImplements ==
  ASSUME CInv, pc \in Phases \ {"returned", "exited", "aborted"}, pc' \in {"exited", "aborted"},
         UNCHANGED <<args, results>>
  PROVE  Contract!Stop
<1>1. ret = "none" /\ ret' = "none" /\ UNCHANGED <<args, db, comp_error>>
  BY DEF CInv, Pending, results
<1> QED
  BY <1>1, SameGraphs DEF Contract!Stop

(* A step inside the call. *)
LEMMA InsideImplements ==
  ASSUME CInv, pc \in Phases \ {"returned", "exited", "aborted"},
         pc' \in Phases \ {"returned", "exited", "aborted"}, UNCHANGED <<args, results>>
  PROVE  UNCHANGED Contract!vars
<1>1. ret = "none" /\ ret' = "none" /\ UNCHANGED <<args, db, comp_error>>
  BY DEF CInv, Pending, results
<1> QED
  BY <1>1, SameGraphs DEF Contract!vars

LEMMA BuildImplements ==
  ASSUME CInv, Build
  PROVE  Contract!Compile
<1>1. /\ pc = "build" /\ pc' = "returned" /\ ret' = "HS_SUCCESS" /\ db' = Db("built", graph)
      /\ comp_error' = "null" /\ UNCHANGED <<args, network, report_map>>
      /\ args.db /\ args.comp_error
  BY DEF CInv, Pending, Build, Return
<1>2. /\ Contract!IsNetwork(network)
      /\ \A k \in 1..network.size : Compilable(network.nodes[k])
      /\ Contract!CompiledOf(network) = graph
      /\ Contract!NumberingOf(network) = report_map
  BY <1>1, AutomatonIsBuilt
<1> QED
  BY <1>1, <1>2, SameGraphs DEF Contract!Compile, Contract!CompileTo

LEMMA NextImplements ==
  ASSUME CInv, CInv', [Next]_vars
  PROVE  [Contract!Next]_(Contract!vars)
<1>1. CASE CheckArgs
  <2>1. /\ pc = "args" /\ UNCHANGED args /\ db = Db("unset", EmptyGraph)
        /\ comp_error = "unset"
    BY <1>1 DEF CheckArgs, CInv, Pending
  <2>2. CASE ~args.comp_error
    <3>1. /\ pc' = "returned" /\ ret' = "HS_COMPILER_ERROR" /\ comp_error' = "unset"
          /\ db' = (IF args.db THEN NoDb ELSE db)
      BY <1>1, <2>1, <2>2 DEF CheckArgs, Return
    <3>2. db'.state = IF args.db THEN "null" ELSE "unset"
      BY <2>1, <3>1 DEF NoDb, Db
    <3> QED
      BY <2>1, <2>2, <3>1, <3>2, FailImplements DEF Contract!Next, Phases
  <2>3. CASE args.comp_error /\ ~args.db
    <3>1. /\ pc' = "returned" /\ ret' = "HS_COMPILER_ERROR" /\ comp_error' = "param"
          /\ db' = db
      BY <1>1, <2>3 DEF CheckArgs, Return
    <3>2. db'.state = IF args.db THEN "null" ELSE "unset"
      BY <2>1, <2>3, <3>1 DEF Db
    <3> QED
      BY <2>1, <2>3, <3>1, <3>2, FailImplements DEF Contract!Next, Phases
  <2>4. CASE args.comp_error /\ args.db
    BY <1>1, <2>1, <2>4, InsideImplements DEF CheckArgs, Phases
  <2> QED
    BY <2>2, <2>3, <2>4
<1>2. ASSUME NEW size \in 0..MaxNodes, Load(size)
      PROVE  UNCHANGED Contract!vars
  BY <1>2, InsideImplements DEF Load, Phases
<1>3. ASSUME NEW node \in Node, AddNode(node)
      PROVE  UNCHANGED Contract!vars
  BY <1>3, InsideImplements DEF AddNode, AtNode, Phases
<1>4. CASE NodesDone \/ EdgesDone
  BY <1>4, InsideImplements DEF NodesDone, EdgesDone, Phases
<1>5. ASSUME NEW sinks \in SUBSET (1..network.size), Connect(sinks)
      PROVE  UNCHANGED Contract!vars
  BY <1>5, InsideImplements DEF Connect, Phases
<1>6. CASE Build
  BY <1>6, BuildImplements DEF Contract!Next
<1>7. CASE SetupThrows
  BY <1>7, StopImplements DEF SetupThrows, Phases, Contract!Next
<1>8. ASSUME NEW node \in Node, ExitAtNode(node)
      PROVE  Contract!Next
  BY <1>8, StopImplements DEF ExitAtNode, AtNode, Phases, Contract!Next
<1>9. ASSUME NEW node \in Node, RefuseReport(node)
      PROVE  Contract!Next
  <2>1. /\ pc = "nodes" /\ pc' = "returned" /\ ret' = "HS_COMPILER_ERROR" /\ UNCHANGED args
        /\ db'.state = "null" /\ comp_error' \in {"compile", "enomem", "einternal"}
    BY <1>9 DEF RefuseReport, AtNode, Return, NoDb, Db
  <2>2. args.db /\ args.comp_error
    BY <2>1 DEF CInv, Pending
  <2> QED
    BY <2>1, <2>2, FailImplements DEF Contract!Next, Phases
<1>10. ASSUME NEW phases, phases \subseteq InTry, NEW error \in Errors, FailAt(phases, error)
       PROVE  Contract!Next
  <2>1. /\ pc \in InTry /\ pc' = "returned" /\ ret' = "HS_COMPILER_ERROR" /\ UNCHANGED args
        /\ db'.state = "null" /\ comp_error' = error
    BY <1>10 DEF FailAt, Return, NoDb, Db
  <2>2. args.db /\ args.comp_error
    BY <2>1 DEF CInv, Pending, InTry
  <2>3. error \notin {"unset", "null"}
    BY DEF Errors
  <2> QED
    BY <2>1, <2>2, <2>3, FailImplements DEF Contract!Next, Phases, InTry
<1>11. CASE MnrlError \/ RejectGraph \/ BadAlloc
  BY <1>10, <1>11 DEF MnrlError, RejectGraph, BadAlloc, InTry, Errors
<1>12. CASE Unexpected
  <2>1. CASE FailAt(InTry, "einternal")
    BY <1>10, <2>1 DEF Errors
  <2>2. CASE pc \in InTry /\ pc' = "aborted" /\ UNCHANGED <<args, results>>
    BY <2>2, StopImplements DEF InTry, Phases, Contract!Next
  <2> QED
    BY <1>12, <2>1, <2>2 DEF Unexpected
<1>13. CASE Terminated \/ UNCHANGED vars
  <2>1. UNCHANGED <<args, pc, network, ret, db, comp_error, report_map>>
    BY <1>13 DEF Terminated, vars, results
  <2> QED
    BY <2>1 DEF Contract!vars
<1> QED
  BY <1>1, <1>2, <1>3, <1>4, <1>5, <1>6, <1>7, <1>8, <1>9, <1>11, <1>12, <1>13
     DEF Next, Step, Fault

-----------------------------------------------------------------------------
(* The theorem.                                                            *)

(* hs_compile_mnrl keeps the promise of its header.  When it returns success *)
(* the database is the automaton of the network without its ON_LASTs - a     *)
(* vertex for every node, an edge for every connection and every start,      *)
(* every report everywhere, numbered in the order of the nodes - and the     *)
(* report map names the node behind every number; when it fails there is no  *)
(* database, an error wherever there is room for one, and a map whose        *)
(* numbers are still dense.                                                  *)
THEOREM CompilesTheNetwork == Spec => ImplementsContract
<1>1. Init => Contract!Init
  BY InitImplements
<1>2. CInv /\ CInv' /\ [Next]_vars => [Contract!Next]_(Contract!vars)
  BY NextImplements
<1> QED
  BY <1>1, <1>2, InductiveC, PTL DEF Spec, ImplementsContract, Contract!Spec
=============================================================================

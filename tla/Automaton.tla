------------------------------ MODULE Automaton -----------------------------
(***************************************************************************)
(* The two graphs hs_compile_mnrl_int stands between: the MNRL network it  *)
(* reads and the NGWrapper it hands to Hyperscan.  The nodes of a network  *)
(* are numbered in the order of their ids, which is the order in which     *)
(* std::map visits them.                                                   *)
(***************************************************************************)
EXTENDS Integers, Sequences, FiniteSets

CONSTANTS
  MaxNodes,    \* bound: the most nodes of a network
  Symbols,     \* symbol sets of the nodes, as strings of the MNRL file
  Malformed,   \* those parseSymbolSet gives up on with exit(1)
  Rids,        \* report codes of the nodes
  IdSpace      \* values of an unsigned int: 2^32

ASSUME MaxNodesAssumption == MaxNodes \in Nat
ASSUME SymbolsAssumption  == Malformed \subseteq Symbols
(* No machine holds a network of more than 2^32 reporting nodes. *)
ASSUME IdSpaceAssumption  == IdSpace \in Nat /\ MaxNodes < IdSpace

Enable == {"ON_ACTIVATE_IN", "ON_START_AND_ACTIVATE_IN", "ALWAYS", "ON_LAST"}
ReportEnable == {"ALWAYS", "ON_LAST"}

Node == [type : {"HSTATE", "OTHER"}, symbols : Symbols, enable : Enable,
         report : BOOLEAN, reportEnable : ReportEnable, rid : Rids]

(* The nodes the loop over the nodes gets past. *)
Compilable(node) == node.type = "HSTATE" /\ node.symbols \notin Malformed

(* A network: how many nodes it has, what they are, where each one leads.  *)
Network == [size : 0..MaxNodes, nodes : Seq(Node), sinks : Seq(SUBSET (1..MaxNodes))]
EmptyNetwork == [size |-> 0, nodes |-> <<>>, sinks |-> <<>>]

-----------------------------------------------------------------------------
(* Vertices: the special ones of every graph, then one for each node.      *)

START    == 0
START_DS == 1
ACCEPT   == 2
ACCEPT_EOD == 3
N_SPECIALS == 4
Vertex(k) == N_SPECIALS + k - 1

FixedEdges == {<<START, START_DS>>, <<START_DS, START_DS>>, <<ACCEPT, ACCEPT_EOD>>}

(* A graph: the symbols of the node behind each vertex, its edges, and for  *)
(* the nodes that report the id the scan passes to its callback.            *)
EmptyGraph == [reach |-> <<>>, edges |-> FixedEdges, reports |-> <<>>]

GraphEdge == (0..Vertex(MaxNodes)) \X (0..Vertex(MaxNodes))

(* The reports of a graph: an id for each of some of the nodes. *)
ReportIds == UNION {[ks -> 0..(IdSpace - 1)] : ks \in SUBSET (1..MaxNodes)}
Graph == [reach : Seq(Symbols), edges : SUBSET GraphEdge, reports : ReportIds]
=============================================================================

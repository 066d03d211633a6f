----------------------------- MODULE PcreToMnrl -----------------------------
(***************************************************************************)
(* hs_pcre_mnrl_multi_int and addExpressionMNRL (src/hs_pcre_mnrl.cpp):    *)
(* every expression is parsed by Hyperscan into an automaton graph, and    *)
(* the graph is rewritten, vertex by vertex and edge by edge, into the     *)
(* homogeneous states and connections of one MNRL network that all the     *)
(* expressions share.                                                      *)
(*                                                                         *)
(* The parser and the graph builder are Hyperscan's: they may return any   *)
(* graph and any of their calls may throw.  The order in which boost walks *)
(* the vertices and the edges is not the program's, so each loop takes its *)
(* elements in every order.  Nothing but the loop over the edges looks at  *)
(* them, so the edges of a graph are chosen as that loop comes to them.    *)
(***************************************************************************)
EXTENDS ConversionCall, Sequences, FiniteSets

CONSTANTS
  Inner,              \* indices of ordinary vertices (N_SPECIALS and up)
  Ids,                \* ids[i], the prefix of the node ids of expression i
  AllowVacuous,       \* whether the flags hold HS_FLAG_ALLOWEMPTY
  Vertices(_),        \* bound: the ordinary vertices a graph may have, and the
  MaxEdges(_)         \* most edges beyond FixedEdges, by the number of expressions

(* Indices of the special vertices of every Hyperscan graph. *)
NODE_START         == 0
NODE_START_DOTSTAR == 1
NODE_ACCEPT        == 2
NODE_ACCEPT_EOD    == 3
Starts   == {NODE_START, NODE_START_DOTSTAR}
Accepts  == {NODE_ACCEPT, NODE_ACCEPT_EOD}
Specials == Starts \cup Accepts

(* The edges NGHolder gives every graph it creates. *)
FixedEdges == {<<NODE_START, NODE_START_DOTSTAR>>,
               <<NODE_START_DOTSTAR, NODE_START_DOTSTAR>>,
               <<NODE_ACCEPT, NODE_ACCEPT_EOD>>}

(* The other edges a graph over the ordinary vertices vs may have. *)
ExprEdges(vs) == (Starts \X (vs \cup Accepts)) \cup (vs \X (vs \cup Accepts))

GraphType == [inner : SUBSET Inner,
              edges : SUBSET ((Specials \cup Inner) \X (Specials \cup Inner))]

ASSUME InnerAssumption == Inner \subseteq Nat /\ Inner \cap Specials = {}
(* pcre2mnrl numbers the expressions by their lines, so no id is repeated. *)
ASSUME IdsAssumption ==
         /\ Ids \in [1..MaxElements -> Nat]
         /\ \A j, k \in 1..MaxElements : Ids[j] = Ids[k] => j = k
ASSUME LimitsAssumption == AllowVacuous \in BOOLEAN

-----------------------------------------------------------------------------
(* MNRL: a homogeneous state as addHState creates it and its attributes.   *)

Enable       == {"ON_ACTIVATE_IN", "ON_START_AND_ACTIVATE_IN", "ALWAYS", "ON_LAST"}
ReportEnable == {"ALWAYS", "ON_LAST"}
Node         == [enable : Enable, report : BOOLEAN, reportEnable : ReportEnable]
NodeIds      == Nat \X Inner

NewNode == [enable |-> "ON_ACTIVATE_IN", report |-> FALSE, reportEnable |-> "ALWAYS"]

(* addHState under a fresh id. *)
AddHState(net, n) ==
  [m \in DOMAIN net \cup {n} |-> IF m = n THEN NewNode ELSE net[m]]

convert_enable(idx) ==
  CASE idx = NODE_START         -> "ON_START_AND_ACTIVATE_IN"
    [] idx = NODE_START_DOTSTAR -> "ALWAYS"
    [] idx = NODE_ACCEPT_EOD    -> "ON_LAST"
    [] OTHER                    -> "ON_ACTIVATE_IN"

(* ACTIVATE_IN < START_AND_ACTIVATE_IN < ALWAYS < LAST. *)
Rank(en) == CASE en = "ON_ACTIVATE_IN"           -> 0
              [] en = "ON_START_AND_ACTIVATE_IN" -> 1
              [] en = "ALWAYS"                   -> 2
              [] OTHER                           -> 3

upgrade_start_overwriting(node, en) == [node EXCEPT !.enable = en]  \* mutant

upgrade_start(node, en) ==
  IF Rank(en) > Rank(node.enable) THEN [node EXCEPT !.enable = en] ELSE node

(* What the edge from an ordinary vertex to accept vertex a does to its node. *)
report_edge_tightening(node, a) ==  \* mutant: EOD does not look at the report
  [node EXCEPT
     !.report = TRUE,
     !.reportEnable = IF a = NODE_ACCEPT_EOD THEN "ON_LAST" ELSE "ALWAYS"]

report_edge(node, a) ==
  [node EXCEPT
     !.report = TRUE,
     !.reportEnable = CASE a = NODE_ACCEPT_EOD /\ ~node.report -> "ON_LAST"
                        [] a = NODE_ACCEPT                     -> "ALWAYS"
                        [] OTHER                               -> @]

-----------------------------------------------------------------------------
VARIABLES
  args,           \* what the caller passed: non-null pointers, element count
  pc,             \* where the call stands
  i,              \* loop counter: the expressions converted so far
  graphs,         \* the graphs built so far; the last one is being converted,
                  \* and its edges are the ones visited so far
  todoV,          \* vertices of that graph the first loop has yet to visit
  todoS,          \* start nodes the last loop has yet to visit
  nodes, conns,   \* the MNRL network: nodes by id, connections
  start_nodes,    \* ids of the nodes reached from a start vertex
  start_to_report,\* an edge from a start to an accept vertex was seen
  ret, comp_error \* result of the call

locals == <<todoV, todoS, start_nodes, start_to_report>>
vars   == <<args, pc, i, graphs, locals, nodes, conns, ret, comp_error>>

Phases == {"args", "parse", "vertices", "edges", "starts", "returned", "aborted"}

Init ==
  /\ args \in Arguments
  /\ pc = "args"
  /\ i = 0
  /\ graphs = <<>>
  /\ todoV = {} /\ todoS = {}
  /\ nodes = [n \in {} |-> NewNode]
  /\ conns = {}
  /\ start_nodes = {}
  /\ start_to_report = FALSE
  /\ ret = "none"
  /\ comp_error = NoError

Current   == graphs[i + 1]
NodeId(v) == <<Ids[i + 1], v>>

Return(code, error) ==
  /\ pc' = "returned"
  /\ ret' = code
  /\ comp_error' = error

(* The argument checks before the compile context is created. *)
CheckArgs ==
  /\ pc = "args"
  /\ \/ ~args.comp_error /\ Return(HS_COMPILER_ERROR, NoError)
     \/ args.comp_error /\ BadArgs(args) /\ Return(HS_COMPILER_ERROR, Error("param", -1))
     \/ /\ args.comp_error /\ ~BadArgs(args)
        /\ pc' = "parse"
        /\ UNCHANGED <<ret, comp_error>>
  /\ UNCHANGED <<args, i, graphs, locals, nodes, conns>>

(* CompileContext and NG are constructed before the try block: what their    *)
(* constructors throw is caught by nobody.                                   *)
SetupThrows ==
  /\ pc = "args"
  /\ args.comp_error /\ ~BadArgs(args)
  /\ pc' = "aborted"
  /\ UNCHANGED <<args, i, graphs, locals, nodes, conns, ret, comp_error>>

BuildGraph_KeepingStarts(vs) ==  \* mutant: start_nodes outlives its expression
  /\ pc = "parse"
  /\ i < args.elements
  /\ vs \subseteq Vertices(args.elements)
  /\ pc' = "vertices"
  /\ graphs' = Append(graphs, [inner |-> vs, edges |-> {}])
  /\ todoV' = vs
  /\ start_to_report' = FALSE
  /\ UNCHANGED <<args, i, todoS, nodes, conns, start_nodes, ret, comp_error>>

(* The expression is parsed, checked and built into a graph over vs. *)
BuildGraph(vs) ==
  /\ pc = "parse"
  /\ i < args.elements
  /\ vs \subseteq Vertices(args.elements)
  /\ pc' = "vertices"
  /\ graphs' = Append(graphs, [inner |-> vs, edges |-> {}])
  /\ todoV' = vs
  /\ start_nodes' = {}
  /\ start_to_report' = FALSE
  /\ UNCHANGED <<args, i, todoS, nodes, conns, ret, comp_error>>

RejectExpression_NoIndex ==  \* mutant: setExpressionIndex is forgotten
  /\ pc = "parse"
  /\ i < args.elements
  /\ Return(HS_COMPILER_ERROR, Error("compile", -1))
  /\ UNCHANGED <<args, i, graphs, locals, nodes, conns>>

(* The pattern is too long, does not parse, is not supported, has no graph  *)
(* or matches everywhere: a CompileError that carries the loop's index.     *)
RejectExpression ==
  /\ pc = "parse"
  /\ i < args.elements
  /\ Return(HS_COMPILER_ERROR, Error("compile", i))
  /\ UNCHANGED <<args, i, graphs, locals, nodes, conns>>

(* One iteration of the loop over the ordinary vertices. *)
AddNode(v) ==
  /\ pc = "vertices"
  /\ v \in todoV
  /\ nodes' = AddHState(nodes, NodeId(v))
  /\ todoV' = todoV \ {v}
  /\ UNCHANGED <<args, pc, i, graphs, todoS, conns, start_nodes,
                 start_to_report, ret, comp_error>>

VerticesDone ==
  /\ pc = "vertices"
  /\ todoV = {}
  /\ pc' = "edges"
  /\ UNCHANGED <<args, i, graphs, locals, nodes, conns, ret, comp_error>>

-----------------------------------------------------------------------------
(* One iteration of the loop over the edges, by the ends of the edge.      *)

(* matches_everywhere: the empty buffer matches.  Without ALLOWEMPTY a graph *)
(* with this edge has been rejected before the loop.                         *)
EmptyMatch == <<NODE_START_DOTSTAR, NODE_ACCEPT>>

MoreEdges(g) ==
  {e \in (FixedEdges \cup ExprEdges(g.inner)) \ g.edges :
     /\ e \in FixedEdges \/ Cardinality(g.edges \ FixedEdges) < MaxEdges(args.elements)
     /\ e = EmptyMatch => AllowVacuous}

Visit(e) ==
  /\ pc = "edges"
  /\ e \in MoreEdges(Current)
  /\ graphs' = [graphs EXCEPT ![i + 1].edges = @ \cup {e}]
  /\ UNCHANGED <<args, pc, i, todoV, todoS, ret, comp_error>>

(* start -> ordinary vertex: the vertex becomes a start of its own. *)
StartEdge(e) ==
  /\ Visit(e)
  /\ e[1] \in Starts
  /\ e[2] \in Inner
  /\ nodes' = [nodes EXCEPT ![NodeId(e[2])] = upgrade_start(@, convert_enable(e[1]))]
  /\ start_nodes' = start_nodes \cup {NodeId(e[2])}
  /\ UNCHANGED <<conns, start_to_report>>

(* start -> accept: only remembered. *)
StartToReportEdge(e) ==
  /\ Visit(e)
  /\ e[1] \in Starts
  /\ e[2] \in Accepts
  /\ start_to_report' = TRUE
  /\ UNCHANGED <<nodes, conns, start_nodes>>

(* ordinary vertex -> accept: the node reports. *)
ReportEdge(e) ==
  /\ Visit(e)
  /\ e[1] \in Inner
  /\ e[2] \in Accepts
  /\ nodes' = [nodes EXCEPT ![NodeId(e[1])] = report_edge(@, e[2])]
  /\ UNCHANGED <<conns, start_nodes, start_to_report>>

InnerEdge_Reversed(e) ==  \* mutant: source and target swapped
  /\ Visit(e)
  /\ e[1] \in Inner
  /\ e[2] \in Inner
  /\ conns' = conns \cup {<<NodeId(e[2]), NodeId(e[1])>>}
  /\ UNCHANGED <<nodes, start_nodes, start_to_report>>

InnerEdge_NoLoops(e) ==  \* mutant: a vertex is not connected to itself
  /\ Visit(e)
  /\ e[1] \in Inner
  /\ e[2] \in Inner
  /\ conns' = IF e[1] = e[2] THEN conns ELSE conns \cup {<<NodeId(e[1]), NodeId(e[2])>>}
  /\ UNCHANGED <<nodes, start_nodes, start_to_report>>

(* ordinary vertex -> ordinary vertex: a connection. *)
InnerEdge(e) ==
  /\ Visit(e)
  /\ e[1] \in Inner
  /\ e[2] \in Inner
  /\ conns' = conns \cup {<<NodeId(e[1]), NodeId(e[2])>>}
  /\ UNCHANGED <<nodes, start_nodes, start_to_report>>

(* Edges out of an accept vertex or into a start vertex are passed over. *)
IgnoredEdge(e) ==
  /\ Visit(e)
  /\ e[1] \in Accepts \/ e[2] \in Starts
  /\ UNCHANGED <<nodes, conns, start_nodes, start_to_report>>

EdgesDone ==
  /\ pc = "edges"
  /\ FixedEdges \subseteq Current.edges
  /\ pc' = "starts"
  /\ todoS' = IF start_to_report THEN start_nodes ELSE {}
  /\ UNCHANGED <<args, i, graphs, todoV, nodes, conns, start_nodes,
                 start_to_report, ret, comp_error>>

ReportStart_NoAdvance(n) ==  \* mutant: the loop does not advance
  /\ pc = "starts"
  /\ n \in todoS
  /\ nodes' = [nodes EXCEPT ![n].report = TRUE]
  /\ UNCHANGED <<args, pc, i, graphs, locals, conns, ret, comp_error>>

(* One iteration of the loop that sets every start to report. *)
ReportStart(n) ==
  /\ pc = "starts"
  /\ n \in todoS
  /\ nodes' = [nodes EXCEPT ![n].report = TRUE]
  /\ todoS' = todoS \ {n}
  /\ UNCHANGED <<args, pc, i, graphs, todoV, conns, start_nodes,
                 start_to_report, ret, comp_error>>

NextExpression_Twice ==  \* mutant: the counter advances twice
  /\ pc = "starts"
  /\ todoS = {}
  /\ pc' = "parse"
  /\ i' = i + 2
  /\ UNCHANGED <<args, graphs, locals, nodes, conns, ret, comp_error>>

NextExpression ==
  /\ pc = "starts"
  /\ todoS = {}
  /\ pc' = "parse"
  /\ i' = i + 1
  /\ UNCHANGED <<args, graphs, locals, nodes, conns, ret, comp_error>>

-----------------------------------------------------------------------------
(* How the call ends.                                                      *)

Succeed ==
  /\ pc = "parse"
  /\ i = args.elements
  /\ Return(HS_SUCCESS, comp_error)
  /\ UNCHANGED <<args, i, graphs, locals, nodes, conns>>

InTry == \/ pc = "parse" /\ i < args.elements
         \/ pc \in {"vertices", "edges", "starts"}

(* std::bad_alloc out of any call; hs_enomem names expression 0. *)
BadAlloc ==
  /\ InTry
  /\ Return(HS_COMPILER_ERROR, Error("enomem", 0))
  /\ UNCHANGED <<args, i, graphs, locals, nodes, conns>>

(* Any other exception: the assertion aborts, or, built with NDEBUG, the     *)
(* error is hs_einternal.                                                    *)
Unexpected ==
  /\ InTry
  /\ \/ pc' = "aborted" /\ UNCHANGED <<ret, comp_error>>
     \/ Return(HS_COMPILER_ERROR, Error("einternal", 0))
  /\ UNCHANGED <<args, i, graphs, locals, nodes, conns>>

Finished == pc \in {"returned", "aborted"}
Terminated == Finished /\ UNCHANGED vars

VisitEdge(e) == \/ StartEdge(e) \/ StartToReportEdge(e) \/ ReportEdge(e)
                \/ InnerEdge(e) \/ IgnoredEdge(e)

Step ==
  \/ CheckArgs
  \/ \E vs \in SUBSET Inner : BuildGraph(vs)
  \/ \E v \in todoV : AddNode(v)
  \/ VerticesDone
  \/ \E e \in FixedEdges \cup ExprEdges(Inner) : VisitEdge(e)
  \/ EdgesDone
  \/ \E n \in todoS : ReportStart(n)
  \/ NextExpression
  \/ Succeed

Next == Step \/ SetupThrows \/ RejectExpression \/ BadAlloc \/ Unexpected \/ Terminated

Spec     == Init /\ [][Next]_vars
(* A thread that is not interrupted: its own steps are taken, while nothing *)
(* forces an exception.                                                     *)
FairSpec == Spec /\ WF_vars(Step)
-----------------------------------------------------------------------------
(* What the conversion of a graph is, with no reference to an order.       *)
(* D is the set of the edges taken into account.                           *)

EnableBy(v, D) ==
  CASE <<NODE_START_DOTSTAR, v>> \in D -> "ALWAYS"
    [] /\ <<NODE_START_DOTSTAR, v>> \notin D
       /\ <<NODE_START, v>> \in D     -> "ON_START_AND_ACTIVATE_IN"
    [] OTHER                           -> "ON_ACTIVATE_IN"

ReportBy(v, D) == <<v, NODE_ACCEPT>> \in D \/ <<v, NODE_ACCEPT_EOD>> \in D

ReportEnableBy(v, D) ==
  IF <<v, NODE_ACCEPT_EOD>> \in D /\ <<v, NODE_ACCEPT>> \notin D
  THEN "ON_LAST" ELSE "ALWAYS"

NodeBy(v, D) == [enable       |-> EnableBy(v, D),
                 report       |-> ReportBy(v, D),
                 reportEnable |-> ReportEnableBy(v, D)]

StartToReportBy(D) == \E s \in Starts, a \in Accepts : <<s, a>> \in D
IsStartBy(v, D)    == \E s \in Starts : <<s, v>> \in D

(* The node of vertex v once the whole of g is converted. *)
Converted(g, v) ==
  [NodeBy(v, g.edges) EXCEPT
     !.report = @ \/ (StartToReportBy(g.edges) /\ IsStartBy(v, g.edges))]

InnerEdges(g) == {e \in g.edges : e[1] \in Inner /\ e[2] \in Inner}

-----------------------------------------------------------------------------
(* Properties                                                              *)

TypeOK ==
  /\ args \in Arguments
  /\ pc \in Phases
  /\ i \in 0..args.elements
  /\ graphs \in Seq(GraphType)
  /\ todoV \subseteq Inner
  /\ todoS \subseteq start_nodes
  /\ DOMAIN nodes \subseteq NodeIds
  /\ nodes \in [DOMAIN nodes -> Node]
  /\ conns \subseteq NodeIds \X NodeIds
  /\ start_nodes \subseteq DOMAIN nodes
  /\ start_to_report \in BOOLEAN
  /\ ret \in {"none", HS_SUCCESS, HS_COMPILER_ERROR}
  /\ comp_error \in [kind : ErrorKind, expression : -1..MaxElements]

(* The order in which boost enumerates vertices and edges never shows: once *)
(* an expression is converted, its nodes are the ones its graph determines  *)
(* (upgrade_start and the two report branches of addExpressionMNRL commute),*)
(* and they stay so while later expressions are added or fail.              *)
ConversionIsConfluent ==
  \A k \in 1..i : \A v \in graphs[k].inner :
    /\ <<Ids[k], v>> \in DOMAIN nodes
    /\ nodes[<<Ids[k], v>>] = Converted(graphs[k], v)

(* The connections of the converted expressions are the ordinary edges of   *)
(* their graphs, and no connection joins two expressions or dangles.        *)
ConnectionsAreEdges ==
  /\ \A k \in 1..i : \A e \in InnerEdges(graphs[k]) :
       <<<<Ids[k], e[1]>>, <<Ids[k], e[2]>>>> \in conns
  /\ \A c \in conns : \E k \in 1..Len(graphs) : \E e \in InnerEdges(graphs[k]) :
       c = <<<<Ids[k], e[1]>>, <<Ids[k], e[2]>>>>
  /\ \A c \in conns : c[1] \in DOMAIN nodes /\ c[2] \in DOMAIN nodes

(* A rejected expression leaves no trace: the network pcre2mnrl goes on to  *)
(* export holds the expressions before the one comp_error names, whole, and *)
(* nothing else.                                                            *)
RejectionLeavesPrefix ==
  comp_error.kind = "compile" =>
    /\ comp_error.expression = i
    /\ DOMAIN nodes = UNION {{<<Ids[k], v>> : v \in graphs[k].inner} : k \in 1..i}
    /\ \A c \in conns : \E k \in 1..i : c[1][1] = Ids[k]

(* The order upgrade_start states, ACTIVATE_IN < START < ALWAYS < LAST, is   *)
(* only ever climbed, and ENABLE_ON_LAST is never a node's enable type: end  *)
(* of data is kept in the report's enable type alone.                        *)
EnableOnlyUpgraded ==
  [][\A n \in DOMAIN nodes :
       /\ n \in DOMAIN nodes'
       /\ Rank(nodes[n].enable) <= Rank(nodes'[n].enable)
       /\ nodes'[n].enable # "ON_LAST"]_vars

(* A report is only ever loosened: no edge seen later takes a report away or *)
(* restricts to the end of data one that already happens everywhere.         *)
ReportOnlyLoosened ==
  [][\A n \in DOMAIN nodes :
       nodes[n].report => /\ nodes'[n].report
                          /\ nodes[n].reportEnable = "ALWAYS"
                               => nodes'[n].reportEnable = "ALWAYS"]_vars

(* A step never touches the nodes of an expression that is already done.     *)
DoneExpressionsUntouched ==
  [][\A k \in 1..i : \A n \in DOMAIN nodes :
       n[1] = Ids[k] => nodes'[n] = nodes[n]]_vars

(* The expressions that are in the network as their graphs demand. *)
Whole == {k \in 1..i : /\ \A v \in graphs[k].inner :
                            /\ <<Ids[k], v>> \in DOMAIN nodes
                            /\ nodes[<<Ids[k], v>>] = Converted(graphs[k], v)
                       /\ \A e \in InnerEdges(graphs[k]) :
                            <<<<Ids[k], e[1]>>, <<Ids[k], e[2]>>>> \in conns}

(* The call as pcre2mnrl sees it: nothing until it ends, then everything.   *)
Contract == INSTANCE ConversionContract WITH
  outcome <- CASE pc = "returned" -> ret [] pc = "aborted" -> "stopped" [] OTHER -> "pending",
  whole   <- IF pc = "returned" THEN Whole ELSE {},
  stray   <- pc = "returned" /\ \E n \in DOMAIN nodes : n[1] \notin {Ids[k] : k \in Whole}

(* hs_pcre_mnrl_multi leaves the caller's network with the whole expressions *)
(* before the one its error names, or with all of them; what else can be in  *)
(* it, and when, is what pcre2mnrl exports after a failure.                  *)
ImplementsConversion == Contract!Spec

(* The loops end, whatever the graphs are: the call returns or aborts.       *)
Terminates == <>Finished
=============================================================================

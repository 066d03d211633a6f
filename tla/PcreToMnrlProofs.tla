-------------------------- MODULE PcreToMnrlProofs --------------------------
(***************************************************************************)
(* Theorems about PcreToMnrl, for graphs of any size and any number of     *)
(* expressions: the network is the one the graphs determine, whatever the  *)
(* order in which their vertices and edges are visited, and a failure      *)
(* leaves whole expressions behind.  And it implements ConversionContract. *)
(***************************************************************************)
EXTENDS PcreToMnrl, SequenceTheorems, TLAPS

Id(k, v)   == <<Ids[k], v>>
Conn(k, e) == <<Id(k, e[1]), Id(k, e[2])>>

Loops == {"vertices", "edges", "starts"}

(* How far the call has come: a graph for each expression that is done, and  *)
(* one more inside the three loops.                                          *)
Place ==
  /\ i <= Len(graphs) /\ Len(graphs) <= i + 1 /\ Len(graphs) <= args.elements
  /\ pc \in {"args", "parse"} => Len(graphs) = i
  /\ pc \in Loops => Len(graphs) = i + 1
  /\ pc = "args" => i = 0
  /\ pc \notin {"args", "returned"} => args.comp_error /\ ~BadArgs(args)
  /\ pc # "returned" => ret = "none" /\ comp_error = NoError
  /\ comp_error.kind = "compile" => comp_error.expression = i /\ Len(graphs) = i

(* What the loops have left to visit. *)
Left ==
  /\ pc \in {"args", "parse", "edges", "starts"} => todoV = {}
  /\ todoV # {} => Len(graphs) = i + 1 /\ Current.edges = {}
  /\ pc = "vertices" => todoV \subseteq Current.inner /\ Current.edges = {}
  /\ pc \in {"args", "parse", "vertices", "edges"} => todoS = {}
  /\ pc = "starts" /\ todoS # {} => start_to_report

Drawn ==
  \A k \in 1..Len(graphs) :
    graphs[k].edges \subseteq FixedEdges \cup ExprEdges(graphs[k].inner)

(* A node for each vertex that has been visited. *)
Known ==
  /\ \A n \in DOMAIN nodes : \E k \in 1..Len(graphs) : \E v \in graphs[k].inner :
       n = Id(k, v) /\ (k = i + 1 => v \notin todoV)
  /\ \A k \in 1..Len(graphs) : \A v \in graphs[k].inner :
       (k = i + 1 => v \notin todoV) => Id(k, v) \in DOMAIN nodes

(* The expressions that are done are converted. *)
Done == \A k \in 1..i : \A v \in graphs[k].inner : nodes[Id(k, v)] = Converted(graphs[k], v)

(* The nodes of the expression at hand are what the edges seen so far make   *)
(* of them, and the loop's own variables are what they were collected for.   *)
Underway ==
  /\ pc \in {"vertices", "edges"} =>
       \A v \in Current.inner \ todoV : nodes[NodeId(v)] = NodeBy(v, Current.edges)
  /\ pc = "starts" =>
       \A v \in Current.inner :
         nodes[NodeId(v)] =
           [NodeBy(v, Current.edges) EXCEPT
              !.report = @ \/ (start_to_report /\ NodeId(v) \in start_nodes \ todoS)]
  /\ pc \in Loops =>
       /\ start_to_report = StartToReportBy(Current.edges)
       /\ \A n \in start_nodes : \E v \in Current.inner : n = NodeId(v)
       /\ \A v \in Current.inner : NodeId(v) \in start_nodes <=> IsStartBy(v, Current.edges)

(* The connections are the ordinary edges seen so far. *)
Connected ==
  /\ \A k \in 1..Len(graphs) : \A e \in InnerEdges(graphs[k]) : Conn(k, e) \in conns
  /\ \A c \in conns : \E k \in 1..Len(graphs) : \E e \in InnerEdges(graphs[k]) : c = Conn(k, e)

IInv == TypeOK /\ Place /\ Left /\ Drawn /\ Known /\ Done /\ Underway /\ Connected

-----------------------------------------------------------------------------
(* The algebra of the edges: what one more edge does to a node that is      *)
(* already what a set of edges makes of it.                                 *)

LEMMA SpecialsApart ==
  /\ Inner \cap Starts = {} /\ Inner \cap Accepts = {} /\ Starts \cap Accepts = {}
  /\ NODE_START # NODE_START_DOTSTAR /\ NODE_ACCEPT # NODE_ACCEPT_EOD
  /\ \A v \in Inner : v # NODE_START /\ v # NODE_START_DOTSTAR /\ v # NODE_ACCEPT
                      /\ v # NODE_ACCEPT_EOD
BY InnerAssumption DEF Specials, Starts, Accepts, NODE_START, NODE_START_DOTSTAR, NODE_ACCEPT,
                       NODE_ACCEPT_EOD

LEMMA NodeByType ==
  ASSUME NEW v, NEW D
  PROVE  NodeBy(v, D) \in Node /\ NodeBy(v, D).enable # "ON_LAST"
<1>1. EnableBy(v, D) \in Enable /\ EnableBy(v, D) # "ON_LAST"
  BY DEF EnableBy, Enable
<1>2. ReportBy(v, D) \in BOOLEAN
  BY DEF ReportBy
<1>3. ReportEnableBy(v, D) \in ReportEnable
  BY DEF ReportEnableBy, ReportEnable
<1> QED
  BY <1>1, <1>2, <1>3 DEF NodeBy, Node

(* No edge yet: the node as addHState creates it. *)
LEMMA NoEdges ==
  ASSUME NEW v
  PROVE  NodeBy(v, {}) = NewNode
BY DEF NodeBy, EnableBy, ReportBy, ReportEnableBy, NewNode

(* The edge from a start to v. *)
LEMMA StartEdgeAlgebra ==
  ASSUME NEW v \in Inner, NEW D, NEW s \in Starts
  PROVE  upgrade_start(NodeBy(v, D), convert_enable(s)) = NodeBy(v, D \cup {<<s, v>>})
<1> DEFINE E == D \cup {<<s, v>>}
<1>1. /\ <<v, NODE_ACCEPT>> \in E <=> <<v, NODE_ACCEPT>> \in D
      /\ <<v, NODE_ACCEPT_EOD>> \in E <=> <<v, NODE_ACCEPT_EOD>> \in D
  BY SpecialsApart
<1>2. /\ <<NODE_START, v>> \in E <=> s = NODE_START \/ <<NODE_START, v>> \in D
      /\ <<NODE_START_DOTSTAR, v>> \in E <=> s = NODE_START_DOTSTAR \/ <<NODE_START_DOTSTAR, v>> \in D
  OBVIOUS
<1> HIDE DEF E
<1>3. /\ ReportBy(v, E) = ReportBy(v, D) /\ ReportEnableBy(v, E) = ReportEnableBy(v, D)
  BY <1>1 DEF ReportBy, ReportEnableBy
<1>4. EnableBy(v, E) = IF Rank(convert_enable(s)) > Rank(EnableBy(v, D))
                       THEN convert_enable(s) ELSE EnableBy(v, D)
  <2>1. s = NODE_START \/ s = NODE_START_DOTSTAR
    BY DEF Starts
  <2>2. CASE s = NODE_START
    <3>1. convert_enable(s) = "ON_START_AND_ACTIVATE_IN"
      BY <2>2 DEF convert_enable, NODE_START, NODE_START_DOTSTAR, NODE_ACCEPT_EOD
    <3> QED
      BY <1>2, <2>2, <3>1, SpecialsApart DEF EnableBy, Rank
  <2>3. CASE s = NODE_START_DOTSTAR
    <3>1. convert_enable(s) = "ALWAYS"
      BY <2>3 DEF convert_enable, NODE_START, NODE_START_DOTSTAR, NODE_ACCEPT_EOD
    <3> QED
      BY <1>2, <2>3, <3>1, SpecialsApart DEF EnableBy, Rank
  <2> QED
    BY <2>1, <2>2, <2>3
<1> QED
  BY <1>3, <1>4 DEF NodeBy, upgrade_start, E

(* The two report branches of the loop over the edges. *)
LEMMA ReportEdgeIs ==
  ASSUME NEW en, NEW r \in BOOLEAN, NEW re, NEW a \in Accepts
  PROVE  report_edge([enable |-> en, report |-> r, reportEnable |-> re], a) =
           [enable |-> en, report |-> TRUE,
            reportEnable |-> IF a = NODE_ACCEPT THEN "ALWAYS" ELSE IF r THEN re ELSE "ON_LAST"]
<1> DEFINE node == [enable |-> en, report |-> r, reportEnable |-> re]
           x == CASE a = NODE_ACCEPT_EOD /\ ~node.report -> "ON_LAST"
                  [] a = NODE_ACCEPT                     -> "ALWAYS"
                  [] OTHER                               -> node.reportEnable
<1>1. node.report = r /\ node.reportEnable = re
  OBVIOUS
<1>2. report_edge(node, a) = [node EXCEPT !.report = TRUE, !.reportEnable = x]
  BY Zenon DEF report_edge
<1>3. x = IF a = NODE_ACCEPT THEN "ALWAYS" ELSE IF r THEN re ELSE "ON_LAST"
  BY <1>1 DEF Accepts, NODE_ACCEPT, NODE_ACCEPT_EOD
<1> HIDE DEF x
<1> QED
  BY <1>2, <1>3

(* The edge from v to an accept. *)
LEMMA ReportEdgeAlgebra ==
  ASSUME NEW v \in Inner, NEW D, NEW a \in Accepts
  PROVE  report_edge(NodeBy(v, D), a) = NodeBy(v, D \cup {<<v, a>>})
<1> DEFINE E == D \cup {<<v, a>>}
<1>1. /\ <<NODE_START, v>> \in E <=> <<NODE_START, v>> \in D
      /\ <<NODE_START_DOTSTAR, v>> \in E <=> <<NODE_START_DOTSTAR, v>> \in D
  BY SpecialsApart
<1>2. /\ <<v, NODE_ACCEPT>> \in E <=> a = NODE_ACCEPT \/ <<v, NODE_ACCEPT>> \in D
      /\ <<v, NODE_ACCEPT_EOD>> \in E <=> a = NODE_ACCEPT_EOD \/ <<v, NODE_ACCEPT_EOD>> \in D
  OBVIOUS
<1>3. a = NODE_ACCEPT \/ a = NODE_ACCEPT_EOD
  BY DEF Accepts
<1> HIDE DEF E
<1>4. EnableBy(v, E) = EnableBy(v, D)
  BY <1>1 DEF EnableBy
<1>5. ReportBy(v, E) = TRUE
  BY <1>2, <1>3 DEF ReportBy
<1>6. ReportEnableBy(v, E) = IF a = NODE_ACCEPT THEN "ALWAYS"
                            ELSE IF ReportBy(v, D) THEN ReportEnableBy(v, D) ELSE "ON_LAST"
  BY <1>2, <1>3, SpecialsApart DEF ReportEnableBy, ReportBy
<1>7. PICK r \in BOOLEAN, q \in BOOLEAN : r = ReportBy(v, D) /\ q = ReportBy(v, E) /\ q
  BY <1>5 DEF ReportBy
<1>8. NodeBy(v, D) = [enable |-> EnableBy(v, D), report |-> r, reportEnable |-> ReportEnableBy(v, D)]
  BY <1>7 DEF NodeBy
<1>9. NodeBy(v, E) = [enable |-> EnableBy(v, D), report |-> TRUE,
                      reportEnable |-> IF a = NODE_ACCEPT THEN "ALWAYS"
                                       ELSE IF r THEN ReportEnableBy(v, D) ELSE "ON_LAST"]
  BY <1>4, <1>5, <1>6, <1>7 DEF NodeBy
<1> QED
  BY <1>8, <1>9, ReportEdgeIs DEF E

(* Any other edge. *)
LEMMA OtherEdgeAlgebra ==
  ASSUME NEW v \in Inner, NEW D, NEW e,
         ~(e[1] \in Starts /\ e[2] = v), ~(e[1] = v /\ e[2] \in Accepts)
  PROVE  NodeBy(v, D \cup {e}) = NodeBy(v, D)
<1>1. /\ e # <<NODE_START, v>> /\ e # <<NODE_START_DOTSTAR, v>>
      /\ e # <<v, NODE_ACCEPT>> /\ e # <<v, NODE_ACCEPT_EOD>>
  BY DEF Starts, Accepts
<1> QED
  BY <1>1 DEF NodeBy, EnableBy, ReportBy, ReportEnableBy

LEMMA StartToReportAlgebra ==
  ASSUME NEW D, NEW e, e = <<e[1], e[2]>>
  PROVE  StartToReportBy(D \cup {e}) =
           (StartToReportBy(D) \/ (e[1] \in Starts /\ e[2] \in Accepts))
<1>1. \A s, a : <<s, a>> \in D \cup {e} <=> <<s, a>> \in D \/ (s = e[1] /\ a = e[2])
  OBVIOUS
<1>2. ASSUME StartToReportBy(D \cup {e})
      PROVE  StartToReportBy(D) \/ (e[1] \in Starts /\ e[2] \in Accepts)
  BY <1>1, <1>2 DEF StartToReportBy
<1>3. ASSUME StartToReportBy(D) \/ (e[1] \in Starts /\ e[2] \in Accepts)
      PROVE  StartToReportBy(D \cup {e})
  BY <1>1, <1>3 DEF StartToReportBy
<1>4. StartToReportBy(D \cup {e}) \in BOOLEAN /\ StartToReportBy(D) \in BOOLEAN
  BY DEF StartToReportBy
<1> QED
  BY <1>2, <1>3, <1>4

-----------------------------------------------------------------------------
(* Ids and graphs.                                                         *)

(* Two expressions never share an id. *)
LEMMA IdsDiffer ==
  ASSUME NEW j \in 1..MaxElements, NEW k \in 1..MaxElements, NEW v, NEW w, Id(j, v) = Id(k, w)
  PROVE  j = k /\ v = w
BY IdsAssumption DEF Id

LEMMA IdType ==
  ASSUME NEW k \in 1..MaxElements, NEW v \in Inner
  PROVE  Id(k, v) \in NodeIds
BY IdsAssumption DEF Id, NodeIds

LEMMA Sizes ==
  ASSUME TypeOK, Place
  PROVE  /\ i \in Nat /\ Len(graphs) \in Nat /\ args.elements \in Nat /\ args.elements <= MaxElements
         /\ MaxElements \in Nat
         /\ \A k \in 1..Len(graphs) : /\ k \in 1..MaxElements
                                      /\ graphs[k] \in GraphType /\ graphs[k].inner \subseteq Inner
         /\ \A k \in 1..i : k \in 1..Len(graphs) /\ k # i + 1
         /\ pc \in Loops => i + 1 \in 1..Len(graphs) /\ Current \in GraphType
                            /\ Current.inner \subseteq Inner
<1>1. /\ i \in Nat /\ Len(graphs) \in Nat /\ args.elements \in Nat /\ args.elements <= MaxElements
      /\ MaxElements \in Nat /\ i <= Len(graphs) /\ Len(graphs) <= args.elements
      /\ graphs \in Seq(GraphType)
      /\ pc \in Loops => Len(graphs) = i + 1
  BY CallAssumption DEF TypeOK, Place, Arguments
<1>2. \A k \in 1..Len(graphs) : /\ k \in 1..MaxElements
                                /\ graphs[k] \in GraphType /\ graphs[k].inner \subseteq Inner
  <2>1. \A g \in GraphType : g.inner \subseteq Inner
    BY DEF GraphType
  <2>2. \A k \in 1..Len(graphs) : graphs[k] \in GraphType
    BY <1>1
  <2>3. \A k \in 1..Len(graphs) : k \in 1..MaxElements
    BY <1>1
  <2> QED
    BY <2>1, <2>2, <2>3
<1>3. \A k \in 1..i : k \in 1..Len(graphs) /\ k # i + 1
  BY <1>1
<1> QED
  BY <1>1, <1>2, <1>3 DEF Current

(* The ends of an edge. *)
LEMMA EdgeEnds ==
  ASSUME NEW vs \in SUBSET Inner, NEW e \in FixedEdges \cup ExprEdges(vs)
  PROVE  /\ e = <<e[1], e[2]>>
         /\ e[1] \in Specials \cup vs /\ e[2] \in Specials \cup vs
         /\ e[1] \in Inner => e[1] \in vs
         /\ e[2] \in Inner => e[2] \in vs
<1>1. CASE e \in FixedEdges
  <2>1. e[1] \in Specials /\ e[2] \in Specials /\ e = <<e[1], e[2]>>
    BY <1>1 DEF FixedEdges, Specials, Starts, Accepts
  <2> QED
    BY <2>1, InnerAssumption
<1>2. CASE e \in ExprEdges(vs)
  <2>1. /\ e = <<e[1], e[2]>> /\ e[1] \in Starts \cup vs /\ e[2] \in vs \cup Accepts
    BY <1>2 DEF ExprEdges
  <2> QED
    BY <2>1, SpecialsApart DEF Specials
<1> QED
  BY <1>1, <1>2

-----------------------------------------------------------------------------
(* The invariant.                                                          *)

LEMMA InitInv == Init => IInv
<1> SUFFICES ASSUME Init
             PROVE  IInv
  OBVIOUS
<1>1. Len(graphs) = 0 /\ graphs \in Seq(GraphType) /\ args.elements \in Nat /\ DOMAIN nodes = {}
  BY CallAssumption DEF Init, Arguments
<1>2. comp_error \in [kind : ErrorKind, expression : -1..MaxElements] /\ comp_error.kind = "none"
  BY CallAssumption DEF Init, NoError, Error, ErrorKind
<1>3. TypeOK
  <2>1. nodes \in [DOMAIN nodes -> Node] /\ DOMAIN nodes \subseteq NodeIds
    BY <1>1 DEF Init
  <2>2. i \in 0..args.elements
    BY <1>1 DEF Init
  <2> QED
    BY <1>1, <1>2, <2>1, <2>2 DEF Init, TypeOK, Phases
<1>4. Place /\ Left
  BY <1>1, <1>2 DEF Init, Place, Left, Loops
<1>5. Drawn /\ Known /\ Done
  BY <1>1 DEF Init, Drawn, Known, Done
<1>6. Underway /\ Connected
  BY <1>1 DEF Init, Underway, Connected, Loops
<1> QED
  BY <1>3, <1>4, <1>5, <1>6 DEF IInv

(* The call ends: what has been built stays as it is. *)
LEMMA EndInv ==
  ASSUME IInv, UNCHANGED <<args, i, graphs, locals, nodes, conns>>, ~Finished,
         pc' \in {"returned", "aborted"},
         ret' \in {"none", HS_SUCCESS, HS_COMPILER_ERROR},
         comp_error' \in [kind : ErrorKind, expression : -1..MaxElements],
         comp_error'.kind = "compile" => comp_error'.expression = i /\ Len(graphs) = i,
         pc' = "aborted" => args.comp_error /\ ~BadArgs(args) /\ UNCHANGED <<ret, comp_error>>
  PROVE  IInv'
<1>1. TypeOK'
  BY DEF IInv, TypeOK, locals, Phases
<1>2. Place'
  BY DEF IInv, Place, Loops, Finished
<1>3. Left'
  BY DEF IInv, Left, locals, Current
<1>4. Drawn' /\ Known' /\ Done' /\ Underway' /\ Connected'
  BY DEF IInv, Drawn, Known, Done, Underway, Connected, locals, Loops
<1> QED
  BY <1>1, <1>2, <1>3, <1>4 DEF IInv

LEMMA ErrorTypes ==
  /\ Error("param", -1) \in [kind : ErrorKind, expression : -1..MaxElements]
  /\ \A k \in {"enomem", "einternal"} : Error(k, 0) \in [kind : ErrorKind, expression : -1..MaxElements]
  /\ \A k \in 0..MaxElements : Error("compile", k) \in [kind : ErrorKind, expression : -1..MaxElements]
  /\ NoError \in [kind : ErrorKind, expression : -1..MaxElements]
BY CallAssumption DEF Error, ErrorKind, NoError

LEMMA CheckArgsInv ==
  ASSUME IInv, CheckArgs
  PROVE  IInv'
<1>1. UNCHANGED <<args, i, graphs, locals, nodes, conns>> /\ pc = "args" /\ ~Finished
  BY DEF CheckArgs, Finished
<1>2. CASE pc' = "returned" /\ ret' = HS_COMPILER_ERROR /\ comp_error' \in {NoError, Error("param", -1)}
  BY <1>1, <1>2, ErrorTypes, EndInv DEF Error, NoError
<1>3. CASE args.comp_error /\ ~BadArgs(args) /\ pc' = "parse" /\ UNCHANGED <<ret, comp_error>>
  <2>1. TypeOK'
    BY <1>1, <1>3 DEF IInv, TypeOK, locals, Phases
  <2>2. Place' /\ Left'
    BY <1>1, <1>3 DEF IInv, Place, Left, locals, Loops, Current
  <2>3. Drawn' /\ Known' /\ Done' /\ Underway' /\ Connected'
    BY <1>1, <1>3 DEF IInv, Drawn, Known, Done, Underway, Connected, locals, Loops
  <2> QED
    BY <2>1, <2>2, <2>3 DEF IInv
<1> QED
  BY <1>2, <1>3 DEF CheckArgs, Return

LEMMA FailInv ==
  ASSUME IInv,
         SetupThrows \/ RejectExpression \/ Succeed \/ BadAlloc \/ Unexpected
  PROVE  IInv'
<1>1. UNCHANGED <<args, i, graphs, locals, nodes, conns>> /\ ~Finished
  BY DEF SetupThrows, RejectExpression, Succeed, BadAlloc, Unexpected, InTry, Finished
<1>2. CASE SetupThrows
  BY <1>1, <1>2, EndInv DEF SetupThrows, IInv, TypeOK, Place, NoError, Error
<1>3. CASE RejectExpression
  <2>1. /\ pc = "parse" /\ Len(graphs) = i /\ i \in 0..MaxElements
        /\ pc' = "returned" /\ ret' = HS_COMPILER_ERROR /\ comp_error' = Error("compile", i)
    BY <1>3, Sizes DEF RejectExpression, Return, IInv, Place
  <2> QED
    BY <1>1, <2>1, ErrorTypes, EndInv DEF Error
<1>4. CASE Succeed
  BY <1>1, <1>4, EndInv DEF Succeed, Return, IInv, TypeOK, Place, NoError, Error
<1>5. CASE BadAlloc
  BY <1>1, <1>5, EndInv, ErrorTypes DEF BadAlloc, Return, Error
<1>6. CASE Unexpected
  <2>1. CASE pc' = "aborted" /\ UNCHANGED <<ret, comp_error>>
    <3>1. args.comp_error /\ ~BadArgs(args)
      BY <1>6 DEF Unexpected, InTry, IInv, Place
    <3>2. /\ ret \in {"none", HS_SUCCESS, HS_COMPILER_ERROR}
          /\ comp_error \in [kind : ErrorKind, expression : -1..MaxElements]
          /\ comp_error.kind = "compile" => comp_error.expression = i /\ Len(graphs) = i
      BY DEF IInv, TypeOK, Place
    <3> QED
      BY <1>1, <2>1, <3>1, <3>2, EndInv
  <2>2. CASE Return(HS_COMPILER_ERROR, Error("einternal", 0))
    BY <1>1, <2>2, EndInv, ErrorTypes DEF Return, Error
  <2> QED
    BY <1>6, <2>1, <2>2 DEF Unexpected
<1> QED
  BY <1>2, <1>3, <1>4, <1>5, <1>6

(* A new graph behind the ones that are done. *)
LEMMA BuildGraphInv ==
  ASSUME IInv, NEW vs \in SUBSET Inner, BuildGraph(vs)
  PROVE  IInv'
<1> DEFINE g == [inner |-> vs, edges |-> {}]
<1>1. /\ pc = "parse" /\ pc' = "vertices" /\ i < args.elements /\ i' = i
      /\ graphs' = Append(graphs, g) /\ todoV' = vs /\ start_nodes' = {}
      /\ start_to_report' = FALSE
      /\ UNCHANGED <<args, i, todoS, nodes, conns, ret, comp_error>>
      /\ TypeOK /\ Place /\ Left /\ Len(graphs) = i /\ i \in Nat /\ args.elements \in Nat
  BY Sizes DEF BuildGraph, IInv, Place
<1>2. /\ g \in GraphType /\ g.inner = vs /\ g.edges = {}
  BY DEF GraphType
<1>3. /\ graphs' \in Seq(GraphType) /\ Len(graphs') = i + 1
      /\ \A k \in 1..i : graphs'[k] = graphs[k] /\ k # i + 1
      /\ graphs'[i + 1] = g
      /\ \A k \in 1..Len(graphs') : k \in 1..i \/ k = i + 1
  BY <1>1, <1>2 DEF TypeOK
<1> HIDE DEF g
<1>4. TypeOK'
  BY <1>1, <1>3 DEF TypeOK, Left, Phases
<1>5. Place'
  BY <1>1, <1>3 DEF Place, Loops, NoError, Error
<1>6. Left'
  BY <1>1, <1>2, <1>3 DEF Left, Current
<1>7. Drawn'
  BY <1>1, <1>2, <1>3 DEF IInv, Drawn
<1>8. Known'
  <2>1. ASSUME NEW n \in DOMAIN nodes
        PROVE  \E k \in 1..Len(graphs') : \E v \in graphs'[k].inner :
                 n = Id(k, v) /\ (k = i + 1 => v \notin todoV')
    BY <1>1, <1>3 DEF IInv, Known
  <2>2. ASSUME NEW k \in 1..Len(graphs'), NEW v \in graphs'[k].inner,
               k = i + 1 => v \notin todoV'
        PROVE  Id(k, v) \in DOMAIN nodes
    BY <1>1, <1>2, <1>3, <2>2 DEF IInv, Known
  <2> QED
    BY <1>1, <2>1, <2>2 DEF Known
<1>9. Done'
  BY <1>1, <1>3 DEF IInv, Done
<1>10. Underway'
  <2>1. Current' = g
    BY <1>1, <1>3 DEF Current
  <2>2. StartToReportBy({}) = FALSE /\ \A v : IsStartBy(v, {}) = FALSE
    BY DEF StartToReportBy, IsStartBy
  <2> QED
    BY <1>1, <1>2, <2>1, <2>2 DEF Underway
<1>11. Connected'
  <2>1. InnerEdges(g) = {}
    BY <1>2 DEF InnerEdges
  <2>2. \A k \in 1..Len(graphs') : k \in 1..i \/ InnerEdges(graphs'[k]) = {}
    BY <1>3, <2>1
  <2>3. \A k \in 1..i : k \in 1..Len(graphs') /\ k \in 1..Len(graphs)
    BY <1>1, <1>3
  <2>4. \A k \in 1..Len(graphs') : \A e \in InnerEdges(graphs'[k]) : Conn(k, e) \in conns
    BY <1>1, <1>3, <2>2, <2>3 DEF IInv, Connected
  <2>5. ASSUME NEW c \in conns
        PROVE  \E k \in 1..Len(graphs') : \E e \in InnerEdges(graphs'[k]) : c = Conn(k, e)
    <3>1. PICK k \in 1..Len(graphs) : \E e \in InnerEdges(graphs[k]) : c = Conn(k, e)
      BY DEF IInv, Connected
    <3>2. k \in 1..Len(graphs') /\ graphs'[k] = graphs[k]
      BY <1>1, <1>3
    <3> QED
      BY <3>1, <3>2
  <2> QED
    BY <1>1, <2>4, <2>5 DEF Connected
<1> QED
  BY <1>4, <1>5, <1>6, <1>7, <1>8, <1>9, <1>10, <1>11 DEF IInv

(* A node for one more vertex, under an id that was free. *)
LEMMA AddNodeInv ==
  ASSUME IInv, NEW v \in todoV, AddNode(v)
  PROVE  IInv' /\ NodeId(v) \notin DOMAIN nodes
<1>1. /\ pc = "vertices" /\ nodes' = AddHState(nodes, NodeId(v)) /\ todoV' = todoV \ {v}
      /\ UNCHANGED <<args, pc, i, graphs, todoS, conns, start_nodes, start_to_report, ret, comp_error>>
      /\ TypeOK /\ Place /\ Left /\ v \in Current.inner /\ Current.edges = {}
      /\ Len(graphs) = i + 1
  BY DEF AddNode, IInv, Left, Place, Loops
<1>2. /\ i \in Nat /\ i + 1 \in 1..MaxElements /\ v \in Inner /\ i + 1 \in 1..Len(graphs)
      /\ \A k \in 1..Len(graphs) : k \in 1..MaxElements
      /\ \A k \in 1..i : k \in 1..Len(graphs) /\ k # i + 1
  BY <1>1, Sizes DEF Loops
<1>3. NodeId(v) = Id(i + 1, v) /\ NodeId(v) \in NodeIds
  BY <1>2, IdType DEF NodeId, Id
<1>4. NodeId(v) \notin DOMAIN nodes
  BY <1>1, <1>2, <1>3, IdsDiffer DEF IInv, Known
<1>5. /\ DOMAIN nodes' = DOMAIN nodes \cup {NodeId(v)}
      /\ \A n \in DOMAIN nodes : nodes'[n] = nodes[n]
      /\ nodes'[NodeId(v)] = NewNode
      /\ nodes' = [n \in DOMAIN nodes' |-> nodes'[n]]
  BY <1>1, <1>4 DEF AddHState
<1>6. TypeOK'
  <2>1. NewNode \in Node
    BY DEF NewNode, Node, Enable, ReportEnable
  <2>2. nodes \in [DOMAIN nodes -> Node]
    BY <1>1 DEF TypeOK
  <2>3. \A n \in DOMAIN nodes' : nodes'[n] \in Node
    BY <1>5, <2>1, <2>2
  <2>4. nodes' \in [DOMAIN nodes' -> Node]
    BY <1>5, <2>3
  <2> QED
    BY <1>1, <1>3, <1>5, <2>4 DEF TypeOK
<1>7. Place' /\ Left' /\ Drawn' /\ Connected'
  BY <1>1 DEF IInv, Place, Left, Drawn, Connected, Current
<1>8. Known'
  <2>1. ASSUME NEW n \in DOMAIN nodes'
        PROVE  \E k \in 1..Len(graphs) : \E w \in graphs[k].inner :
                 n = Id(k, w) /\ (k = i + 1 => w \notin todoV')
    <3>1. CASE n = NodeId(v)
      BY <1>1, <1>2, <1>3, <3>1 DEF Current
    <3>2. CASE n \in DOMAIN nodes
      <4>1. PICK k \in 1..Len(graphs) : \E w \in graphs[k].inner :
              n = Id(k, w) /\ (k = i + 1 => w \notin todoV)
        BY <3>2 DEF IInv, Known
      <4> QED
        BY <1>1, <4>1
    <3> QED
      BY <1>5, <3>1, <3>2
  <2>2. ASSUME NEW k \in 1..Len(graphs), NEW w \in graphs[k].inner,
               k = i + 1 => w \notin todoV'
        PROVE  Id(k, w) \in DOMAIN nodes'
    <3>1. CASE k = i + 1 /\ w = v
      BY <1>3, <1>5, <3>1
    <3>2. CASE ~(k = i + 1 /\ w = v)
      <4>1. Id(k, w) \in DOMAIN nodes
        BY <1>1, <2>2, <3>2 DEF IInv, Known
      <4> QED
        BY <1>5, <4>1
    <3> QED
      BY <3>1, <3>2
  <2> QED
    BY <1>1, <2>1, <2>2 DEF Known
<1>9. Done'
  <2>1. ASSUME NEW k \in 1..i, NEW w \in graphs[k].inner
        PROVE  nodes'[Id(k, w)] = Converted(graphs[k], w)
    <3>1. Id(k, w) \in DOMAIN nodes
      BY <1>2 DEF IInv, Known
    <3> QED
      BY <1>5, <3>1 DEF IInv, Done
  <2> QED
    BY <1>1, <2>1 DEF Done
<1>10. Underway'
  <2>1. ASSUME NEW w \in Current.inner \ todoV'
        PROVE  nodes'[NodeId(w)] = NodeBy(w, Current.edges)
    <3>1. CASE w = v
      BY <1>1, <1>5, <3>1, NoEdges
    <3>2. CASE w # v
      <4>1. w \notin todoV
        BY <1>1, <3>2
      <4>2. NodeId(w) \in DOMAIN nodes
        BY <1>2, <4>1 DEF IInv, Known, NodeId, Id, Current
      <4> QED
        BY <1>1, <1>5, <4>1, <4>2 DEF IInv, Underway
    <3> QED
      BY <3>1, <3>2
  <2>2. \A w : NodeId(w)' = NodeId(w)
    BY <1>1 DEF NodeId
  <2>3. Current' = Current
    BY <1>1 DEF Current
  <2> QED
    BY <1>1, <2>1, <2>2, <2>3 DEF IInv, Underway
<1> QED
  BY <1>4, <1>6, <1>7, <1>8, <1>9, <1>10 DEF IInv

LEMMA VerticesDoneInv ==
  ASSUME IInv, VerticesDone
  PROVE  IInv'
<1>1. /\ pc = "vertices" /\ pc' = "edges" /\ todoV = {}
      /\ UNCHANGED <<args, i, graphs, todoV, todoS, start_nodes, start_to_report, nodes, conns,
                     ret, comp_error>>
  BY DEF VerticesDone, locals
<1>2. TypeOK' /\ Place' /\ Left'
  BY <1>1 DEF IInv, TypeOK, Phases, Place, Loops, Left, Current
<1>3. Drawn' /\ Known' /\ Done' /\ Connected'
  BY <1>1 DEF IInv, Drawn, Known, Done, Connected
<1>4. Underway'
  BY <1>1 DEF IInv, Underway, Loops, Current, NodeId
<1> QED
  BY <1>2, <1>3, <1>4 DEF IInv

-----------------------------------------------------------------------------
(* The loop over the edges.                                                *)

(* The graph of the expression at hand has one edge more. *)
LEMMA VisitGraphs ==
  ASSUME IInv, NEW e, Visit(e)
  PROVE  /\ pc = "edges" /\ todoV = {} /\ todoS = {}
         /\ UNCHANGED <<args, pc, i, todoV, todoS, ret, comp_error>>
         /\ TypeOK /\ Place /\ Left /\ Len(graphs) = i + 1 /\ i \in Nat
         /\ i + 1 \in 1..MaxElements
         /\ i + 1 \in 1..Len(graphs) /\ Current.inner \subseteq Inner
         /\ e \in FixedEdges \cup ExprEdges(Current.inner)
         /\ graphs' \in Seq(GraphType) /\ Len(graphs') = Len(graphs)
         /\ \A k \in 1..Len(graphs) : graphs'[k].inner = graphs[k].inner
         /\ \A k \in 1..i : graphs'[k] = graphs[k]
         /\ \A k \in 1..Len(graphs) : k \in 1..i \/ k = i + 1
         /\ Current' = graphs'[i + 1] /\ Current'.inner = Current.inner
         /\ Current'.edges = Current.edges \cup {e}
         /\ Place' /\ Left' /\ Drawn'
<1>1. /\ pc = "edges" /\ e \in FixedEdges \cup ExprEdges(Current.inner)
      /\ graphs' = [graphs EXCEPT ![i + 1].edges = @ \cup {e}]
      /\ UNCHANGED <<args, pc, i, todoV, todoS, ret, comp_error>>
      /\ TypeOK /\ Place /\ Left
  BY DEF Visit, MoreEdges, IInv
<1>2. /\ Len(graphs) = i + 1 /\ i \in Nat /\ i + 1 \in 1..Len(graphs) /\ i + 1 \in 1..MaxElements
      /\ Current \in GraphType /\ Current.inner \subseteq Inner
      /\ graphs \in Seq(GraphType)
      /\ todoV = {} /\ todoS = {}
      /\ \A k \in 1..i : k \in 1..Len(graphs) /\ k # i + 1
      /\ \A k \in 1..Len(graphs) : k \in 1..i \/ k = i + 1
  BY <1>1, Sizes DEF Place, Loops, TypeOK, Left
<1>3. e \in (Specials \cup Inner) \X (Specials \cup Inner)
  <2>1. e = <<e[1], e[2]>> /\ e[1] \in Specials \cup Current.inner /\ e[2] \in Specials \cup Current.inner
    BY <1>1, <1>2, EdgeEnds
  <2> QED
    BY <1>2, <2>1
<1> DEFINE g == [Current EXCEPT !.edges = @ \cup {e}]
<1>4. g \in GraphType /\ g.inner = Current.inner /\ g.edges = Current.edges \cup {e}
  BY <1>2, <1>3 DEF GraphType
<1>5. graphs' = [graphs EXCEPT ![i + 1] = g]
  BY <1>1 DEF Current
<1> HIDE DEF g
<1>6. /\ graphs' \in Seq(GraphType) /\ Len(graphs') = Len(graphs)
      /\ \A k \in 1..i : graphs'[k] = graphs[k]
      /\ graphs'[i + 1] = g
  BY <1>2, <1>4, <1>5
<1>7. Current' = graphs'[i + 1] /\ Current = graphs[i + 1]
  BY <1>1 DEF Current
<1>8. \A k \in 1..Len(graphs) : graphs'[k].inner = graphs[k].inner
  BY <1>2, <1>4, <1>6, <1>7
<1>9. Place' /\ Left'
  BY <1>1, <1>2, <1>6 DEF Place, Left, Loops
<1>10. Drawn'
  <2>1. g.edges \subseteq FixedEdges \cup ExprEdges(g.inner)
    BY <1>1, <1>2, <1>4, <1>7 DEF IInv, Drawn
  <2> QED
    BY <1>2, <1>6, <2>1 DEF IInv, Drawn
<1> QED
  BY <1>1, <1>2, <1>4, <1>6, <1>7, <1>8, <1>9, <1>10

(* Whatever the edge is: if the nodes, the connections and the loop's own    *)
(* variables are updated for it, and only those of this expression, the      *)
(* invariant holds.                                                          *)
LEMMA VisitInv ==
  ASSUME IInv, NEW e, Visit(e),
         nodes' \in [DOMAIN nodes -> Node],
         \A k \in 1..i : \A v : Id(k, v) \in DOMAIN nodes => nodes'[Id(k, v)] = nodes[Id(k, v)],
         \A v \in Current.inner : nodes'[NodeId(v)] = NodeBy(v, Current.edges \cup {e}),
         start_to_report' = (start_to_report \/ (e[1] \in Starts /\ e[2] \in Accepts)),
         start_nodes' = start_nodes \cup (IF e[1] \in Starts /\ e[2] \in Inner
                                          THEN {NodeId(e[2])} ELSE {}),
         conns' = conns \cup (IF e[1] \in Inner /\ e[2] \in Inner THEN {Conn(i + 1, e)} ELSE {})
  PROVE  IInv'
<1>1. /\ pc = "edges" /\ todoV = {} /\ todoS = {}
      /\ UNCHANGED <<args, pc, i, todoV, todoS, ret, comp_error>>
      /\ TypeOK /\ Place /\ Left /\ Len(graphs) = i + 1 /\ i \in Nat
      /\ i + 1 \in 1..MaxElements
      /\ i + 1 \in 1..Len(graphs) /\ Current.inner \subseteq Inner
      /\ e \in FixedEdges \cup ExprEdges(Current.inner)
      /\ graphs' \in Seq(GraphType) /\ Len(graphs') = Len(graphs)
      /\ \A k \in 1..Len(graphs) : graphs'[k].inner = graphs[k].inner
      /\ \A k \in 1..i : graphs'[k] = graphs[k]
      /\ \A k \in 1..Len(graphs) : k \in 1..i \/ k = i + 1
      /\ Current' = graphs'[i + 1] /\ Current'.inner = Current.inner
      /\ Current'.edges = Current.edges \cup {e}
      /\ Place' /\ Left' /\ Drawn'
  BY VisitGraphs
<1>2. DOMAIN nodes' = DOMAIN nodes /\ DOMAIN nodes \subseteq NodeIds
  BY <1>1 DEF TypeOK
<1>3. /\ e = <<e[1], e[2]>>
      /\ e[1] \in Inner => e[1] \in Current.inner
      /\ e[2] \in Inner => e[2] \in Current.inner
  BY <1>1, EdgeEnds
<1>4. \A v \in Inner : NodeId(v) = Id(i + 1, v) /\ NodeId(v) \in NodeIds
  BY <1>1, IdType DEF NodeId, Id
<1>5. \A v \in Current.inner : NodeId(v) \in DOMAIN nodes
  BY <1>1, <1>4 DEF IInv, Known, Current
<1>6. TypeOK'
  <2>1. start_nodes' \subseteq DOMAIN nodes'
    BY <1>1, <1>2, <1>3, <1>5 DEF TypeOK
  <2>2. conns' \subseteq NodeIds \X NodeIds
    BY <1>1, <1>4 DEF TypeOK, Conn
  <2>3. start_to_report' \in BOOLEAN
    OBVIOUS
  <2> QED
    BY <1>1, <1>2, <2>1, <2>2, <2>3 DEF TypeOK
<1>7. Known'
  BY <1>1, <1>2 DEF IInv, Known
<1>8. Done'
  <2>1. ASSUME NEW k \in 1..i, NEW v \in graphs[k].inner
        PROVE  nodes'[Id(k, v)] = Converted(graphs[k], v)
    <3>1. k \in 1..Len(graphs) /\ Id(k, v) \in DOMAIN nodes
      BY <1>1 DEF IInv, Known
    <3> QED
      BY <3>1 DEF IInv, Done
  <2> QED
    BY <1>1, <2>1 DEF Done
<1>9. Underway'
  <2>1. \A v : NodeId(v)' = NodeId(v)
    BY <1>1 DEF NodeId
  <2>2. /\ start_to_report = StartToReportBy(Current.edges)
        /\ \A n \in start_nodes : \E v \in Current.inner : n = NodeId(v)
        /\ \A v \in Current.inner : NodeId(v) \in start_nodes <=> IsStartBy(v, Current.edges)
    BY <1>1 DEF IInv, Underway, Loops
  <2>3. start_to_report' = StartToReportBy(Current.edges \cup {e})
    <3>1. StartToReportBy(Current.edges \cup {e}) =
            (StartToReportBy(Current.edges) \/ (e[1] \in Starts /\ e[2] \in Accepts))
      BY <1>3, StartToReportAlgebra
    <3> QED
      BY <2>2, <3>1
  <2>4. \A n \in start_nodes' : \E v \in Current.inner : n = NodeId(v)
    BY <1>3, <2>2
  <2>5. ASSUME NEW v \in Current.inner
        PROVE  NodeId(v) \in start_nodes' <=> IsStartBy(v, Current.edges \cup {e})
    <3>1. IsStartBy(v, Current.edges \cup {e}) <=>
            IsStartBy(v, Current.edges) \/ (e[1] \in Starts /\ e[2] = v)
      BY <1>3 DEF IsStartBy
    <3>2. \A w \in Inner : NodeId(v) = NodeId(w) => v = w
      BY <1>1, <1>4, IdsDiffer
    <3> QED
      BY <1>1, <2>2, <3>1, <3>2
  <2> QED
    BY <1>1, <2>1, <2>3, <2>4, <2>5 DEF Underway
<1>10. Connected'
  <2> DEFINE new == IF e[1] \in Inner /\ e[2] \in Inner THEN {e} ELSE {}
  <2>1. InnerEdges(graphs'[i + 1]) = InnerEdges(graphs[i + 1]) \cup new
    BY <1>1 DEF InnerEdges, Current
  <2>2. /\ \A k \in 1..i : InnerEdges(graphs'[k]) = InnerEdges(graphs[k])
        /\ conns' = conns \cup {Conn(i + 1, d) : d \in new}
    BY <1>1
  <2> HIDE DEF new
  <2>3. \A k \in 1..Len(graphs') : \A d \in InnerEdges(graphs'[k]) : Conn(k, d) \in conns'
    BY <1>1, <2>1, <2>2 DEF IInv, Connected
  <2>4. ASSUME NEW c \in conns'
        PROVE  \E k \in 1..Len(graphs') : \E d \in InnerEdges(graphs'[k]) : c = Conn(k, d)
    <3>1. CASE c \in conns
      <4>1. PICK k \in 1..Len(graphs) : \E d \in InnerEdges(graphs[k]) : c = Conn(k, d)
        BY <3>1 DEF IInv, Connected
      <4>2. InnerEdges(graphs[k]) \subseteq InnerEdges(graphs'[k])
        BY <1>1, <2>1, <2>2
      <4> QED
        BY <1>1, <4>1, <4>2
    <3>2. CASE c \notin conns
      <4>1. PICK d \in new : c = Conn(i + 1, d)
        BY <2>2, <3>2
      <4> QED
        BY <1>1, <2>1, <4>1
    <3> QED
      BY <3>1, <3>2
  <2> QED
    BY <2>3, <2>4 DEF Connected
<1> QED
  BY <1>1, <1>6, <1>7, <1>8, <1>9, <1>10 DEF IInv

(* The branches of the loop's body. *)
LEMMA VisitEdgeInv ==
  ASSUME IInv, NEW e, VisitEdge(e)
  PROVE  IInv'
<1> DEFINE E == Current.edges \cup {e}
           Same == \A k \in 1..i : \A v : Id(k, v) \in DOMAIN nodes => nodes'[Id(k, v)] = nodes[Id(k, v)]
<1>1. Visit(e)
  BY DEF VisitEdge, StartEdge, StartToReportEdge, ReportEdge, InnerEdge, IgnoredEdge
<1>2. /\ pc = "edges" /\ todoV = {} /\ TypeOK /\ i \in Nat /\ i + 1 \in 1..MaxElements
      /\ \A k \in 1..i : k \in 1..MaxElements /\ k # i + 1
      /\ i + 1 \in 1..Len(graphs) /\ Current.inner \subseteq Inner
      /\ e \in FixedEdges \cup ExprEdges(Current.inner)
  <2>1. \A k \in 1..i : k \in 1..Len(graphs) /\ k # i + 1
    BY Sizes DEF IInv
  <2>2. \A k \in 1..Len(graphs) : k \in 1..MaxElements
    BY Sizes DEF IInv
  <2> QED
    BY <1>1, <2>1, <2>2, VisitGraphs
<1>3. /\ e = <<e[1], e[2]>>
      /\ e[1] \in Inner => e[1] \in Current.inner
      /\ e[2] \in Inner => e[2] \in Current.inner
      /\ e[1] \in Starts \cup Accepts \cup Inner /\ e[2] \in Starts \cup Accepts \cup Inner
  BY <1>2, EdgeEnds DEF Specials
<1>4. nodes \in [DOMAIN nodes -> Node] /\ start_to_report \in BOOLEAN
  BY <1>2 DEF TypeOK
<1>5. \A v \in Current.inner : /\ NodeId(v) = Id(i + 1, v) /\ NodeId(v) \in DOMAIN nodes
                               /\ nodes[NodeId(v)] = NodeBy(v, Current.edges)
  BY <1>2 DEF IInv, Known, Underway, Current, NodeId, Id
<1>6. \A v, w \in Current.inner : NodeId(v) = NodeId(w) => v = w
  BY <1>2, <1>5, IdsDiffer
<1>7. \A k \in 1..i : \A v, w : w \in Current.inner => Id(k, v) # NodeId(w)
  BY <1>2, <1>5, IdsDiffer
(* One node, of this expression, changes into what the edge makes of it. *)
<1>8. ASSUME NEW w \in Current.inner, NEW node, nodes' = [nodes EXCEPT ![NodeId(w)] = node],
             node = NodeBy(w, E),
             \A v \in Current.inner : v # w => NodeBy(v, E) = NodeBy(v, Current.edges)
      PROVE  /\ nodes' \in [DOMAIN nodes -> Node] /\ Same
             /\ \A v \in Current.inner : nodes'[NodeId(v)] = NodeBy(v, E)
  <2>1. node \in Node
    BY <1>8, NodeByType
  <2>2. nodes' \in [DOMAIN nodes -> Node]
    BY <1>4, <1>8, <2>1
  <2>3. Same
    BY <1>4, <1>7, <1>8
  <2>4. \A v \in Current.inner : nodes'[NodeId(v)] = NodeBy(v, E)
    BY <1>4, <1>5, <1>6, <1>8
  <2> QED
    BY <2>2, <2>3, <2>4
(* No node changes, and the edge is none that would make a difference. *)
<1>9. ASSUME UNCHANGED nodes, ~(e[1] \in Starts /\ e[2] \in Inner), ~(e[1] \in Inner /\ e[2] \in Accepts)
      PROVE  /\ nodes' \in [DOMAIN nodes -> Node] /\ Same
             /\ \A v \in Current.inner : nodes'[NodeId(v)] = NodeBy(v, E)
  <2>1. \A v \in Current.inner : NodeBy(v, E) = NodeBy(v, Current.edges)
    BY <1>2, <1>9, OtherEdgeAlgebra
  <2> QED
    BY <1>4, <1>5, <1>9, <2>1
<1>10. CASE StartEdge(e)
  <2>1. /\ e[1] \in Starts /\ e[2] \in Inner /\ UNCHANGED <<conns, start_to_report>>
        /\ nodes' = [nodes EXCEPT ![NodeId(e[2])] = upgrade_start(@, convert_enable(e[1]))]
        /\ start_nodes' = start_nodes \cup {NodeId(e[2])}
    BY <1>10 DEF StartEdge
  <2>2. /\ e[1] \notin Inner /\ e[2] \notin Accepts /\ e[2] \in Current.inner
    BY <1>3, <2>1, SpecialsApart
  <2>3. upgrade_start(nodes[NodeId(e[2])], convert_enable(e[1])) = NodeBy(e[2], E)
    <3>1. nodes[NodeId(e[2])] = NodeBy(e[2], Current.edges)
      BY <1>5, <2>2
    <3>2. upgrade_start(NodeBy(e[2], Current.edges), convert_enable(e[1]))
            = NodeBy(e[2], Current.edges \cup {<<e[1], e[2]>>})
      BY <2>1, StartEdgeAlgebra
    <3> QED
      BY <1>3, <3>1, <3>2
  <2>4. \A v \in Current.inner : v # e[2] => NodeBy(v, E) = NodeBy(v, Current.edges)
    BY <1>2, <2>2, OtherEdgeAlgebra
  <2>5. nodes' = [nodes EXCEPT ![NodeId(e[2])] = NodeBy(e[2], E)]
    BY <1>4, <1>5, <2>1, <2>2, <2>3
  <2>6. /\ nodes' \in [DOMAIN nodes -> Node] /\ Same
        /\ \A v \in Current.inner : nodes'[NodeId(v)] = NodeBy(v, E)
    BY <1>8, <2>2, <2>4, <2>5
  <2>7. start_to_report' = (start_to_report \/ (e[1] \in Starts /\ e[2] \in Accepts))
    BY <1>4, <2>1, <2>2
  <2> QED
    BY <1>1, <2>1, <2>2, <2>6, <2>7, VisitInv
<1>11. CASE ReportEdge(e)
  <2>1. /\ e[1] \in Inner /\ e[2] \in Accepts /\ UNCHANGED <<conns, start_nodes, start_to_report>>
        /\ nodes' = [nodes EXCEPT ![NodeId(e[1])] = report_edge(@, e[2])]
    BY <1>11 DEF ReportEdge
  <2>2. /\ e[1] \notin Starts /\ e[2] \notin Inner /\ e[1] \in Current.inner
    BY <1>3, <2>1, SpecialsApart
  <2>3. report_edge(nodes[NodeId(e[1])], e[2]) = NodeBy(e[1], E)
    <3>1. nodes[NodeId(e[1])] = NodeBy(e[1], Current.edges)
      BY <1>5, <2>2
    <3>2. report_edge(NodeBy(e[1], Current.edges), e[2])
            = NodeBy(e[1], Current.edges \cup {<<e[1], e[2]>>})
      BY <2>1, ReportEdgeAlgebra
    <3> QED
      BY <1>3, <3>1, <3>2
  <2>4. \A v \in Current.inner : v # e[1] => NodeBy(v, E) = NodeBy(v, Current.edges)
    BY <1>2, <2>2, OtherEdgeAlgebra
  <2>5. nodes' = [nodes EXCEPT ![NodeId(e[1])] = NodeBy(e[1], E)]
    BY <1>4, <1>5, <2>1, <2>2, <2>3
  <2>6. /\ nodes' \in [DOMAIN nodes -> Node] /\ Same
        /\ \A v \in Current.inner : nodes'[NodeId(v)] = NodeBy(v, E)
    BY <1>8, <2>2, <2>4, <2>5
  <2>7. start_to_report' = (start_to_report \/ (e[1] \in Starts /\ e[2] \in Accepts))
    BY <1>4, <2>1, <2>2
  <2> QED
    BY <1>1, <2>1, <2>2, <2>6, <2>7, VisitInv
<1>12. CASE StartToReportEdge(e)
  <2>1. /\ e[1] \in Starts /\ e[2] \in Accepts /\ UNCHANGED <<nodes, conns, start_nodes>>
        /\ start_to_report' = TRUE
    BY <1>12 DEF StartToReportEdge
  <2>2. e[1] \notin Inner /\ e[2] \notin Inner
    BY <2>1, SpecialsApart
  <2>3. /\ nodes' \in [DOMAIN nodes -> Node] /\ Same
        /\ \A v \in Current.inner : nodes'[NodeId(v)] = NodeBy(v, E)
    BY <1>9, <2>1, <2>2
  <2>4. start_to_report' = (start_to_report \/ (e[1] \in Starts /\ e[2] \in Accepts))
    BY <2>1
  <2> QED
    BY <1>1, <2>1, <2>2, <2>3, <2>4, VisitInv
<1>13. CASE InnerEdge(e)
  <2>1. /\ e[1] \in Inner /\ e[2] \in Inner /\ UNCHANGED <<nodes, start_nodes, start_to_report>>
        /\ conns' = conns \cup {<<NodeId(e[1]), NodeId(e[2])>>}
    BY <1>13 DEF InnerEdge
  <2>2. e[1] \notin Starts /\ e[2] \notin Accepts
    BY <2>1, SpecialsApart
  <2>3. /\ nodes' \in [DOMAIN nodes -> Node] /\ Same
        /\ \A v \in Current.inner : nodes'[NodeId(v)] = NodeBy(v, E)
    BY <1>9, <2>1, <2>2
  <2>4. <<NodeId(e[1]), NodeId(e[2])>> = Conn(i + 1, e)
    BY DEF NodeId, Id, Conn
  <2>5. start_to_report' = (start_to_report \/ (e[1] \in Starts /\ e[2] \in Accepts))
    BY <1>4, <2>1, <2>2
  <2> QED
    BY <1>1, <2>1, <2>2, <2>3, <2>4, <2>5, VisitInv
<1>14. CASE IgnoredEdge(e)
  <2>1. /\ e[1] \in Accepts \/ e[2] \in Starts
        /\ UNCHANGED <<nodes, conns, start_nodes, start_to_report>>
    BY <1>14 DEF IgnoredEdge
  <2>2. /\ ~(e[1] \in Starts /\ e[2] \in Inner) /\ ~(e[1] \in Inner /\ e[2] \in Accepts)
        /\ ~(e[1] \in Starts /\ e[2] \in Accepts) /\ ~(e[1] \in Inner /\ e[2] \in Inner)
    BY <2>1, SpecialsApart
  <2>3. /\ nodes' \in [DOMAIN nodes -> Node] /\ Same
        /\ \A v \in Current.inner : nodes'[NodeId(v)] = NodeBy(v, E)
    BY <1>9, <2>1, <2>2
  <2>4. start_to_report' = (start_to_report \/ (e[1] \in Starts /\ e[2] \in Accepts))
    BY <1>4, <2>1, <2>2
  <2> QED
    BY <1>1, <2>1, <2>2, <2>3, <2>4, VisitInv
<1> QED
  BY <1>10, <1>11, <1>12, <1>13, <1>14 DEF VisitEdge

-----------------------------------------------------------------------------
(* The rest of an expression.                                              *)

LEMMA EdgesDoneInv ==
  ASSUME IInv, EdgesDone
  PROVE  IInv'
<1>1. /\ pc = "edges" /\ pc' = "starts" /\ todoV = {} /\ todoS' \subseteq start_nodes
      /\ todoS' = (IF start_to_report THEN start_nodes ELSE {})
      /\ UNCHANGED <<args, i, graphs, todoV, nodes, conns, start_nodes, start_to_report,
                     ret, comp_error>>
      /\ TypeOK /\ start_to_report \in BOOLEAN
  BY DEF EdgesDone, IInv, Left, TypeOK
<1>2. TypeOK' /\ Place' /\ Left'
  BY <1>1 DEF IInv, TypeOK, Phases, Place, Loops, Left, Current
<1>3. Drawn' /\ Known' /\ Done' /\ Connected'
  BY <1>1 DEF IInv, Drawn, Known, Done, Connected
<1>4. Underway'
  <2>1. /\ \A v : NodeId(v)' = NodeId(v)
        /\ Current' = Current
    BY <1>1 DEF NodeId, Current
  <2>2. ASSUME NEW v \in Current.inner
        PROVE  nodes[NodeId(v)] =
                 [NodeBy(v, Current.edges) EXCEPT
                    !.report = @ \/ (start_to_report /\ NodeId(v) \in start_nodes \ todoS')]
    <3>1. nodes[NodeId(v)] = NodeBy(v, Current.edges)
      BY <1>1 DEF IInv, Underway
    <3>2. (start_to_report /\ NodeId(v) \in start_nodes \ todoS') = FALSE
      BY <1>1
    <3>3. NodeBy(v, Current.edges) \in Node
      BY NodeByType
    <3> QED
      BY <3>1, <3>2, <3>3 DEF Node
  <2> QED
    BY <1>1, <2>1, <2>2 DEF IInv, Underway, Loops
<1> QED
  BY <1>2, <1>3, <1>4 DEF IInv

LEMMA ReportStartInv ==
  ASSUME IInv, NEW n \in todoS, ReportStart(n)
  PROVE  IInv'
<1>1. /\ pc = "starts" /\ todoV = {} /\ nodes' = [nodes EXCEPT ![n].report = TRUE]
      /\ todoS' = todoS \ {n}
      /\ UNCHANGED <<args, pc, i, graphs, todoV, conns, start_nodes, start_to_report, ret, comp_error>>
      /\ TypeOK /\ Place
  BY DEF ReportStart, IInv, Left
<1>2. /\ i \in Nat /\ i + 1 \in 1..MaxElements /\ i + 1 \in 1..Len(graphs)
      /\ \A k \in 1..i : k \in 1..Len(graphs) /\ k \in 1..MaxElements /\ k # i + 1
      /\ Current.inner \subseteq Inner
  BY <1>1, Sizes DEF Loops
<1>3. /\ nodes \in [DOMAIN nodes -> Node] /\ n \in start_nodes /\ n \in DOMAIN nodes
      /\ start_nodes \subseteq DOMAIN nodes
  BY <1>1 DEF TypeOK
<1>4. PICK w \in Current.inner : n = NodeId(w)
  BY <1>1, <1>3 DEF IInv, Underway, Loops
<1>5. \A v \in Current.inner : NodeId(v) = Id(i + 1, v) /\ NodeId(v) \in DOMAIN nodes
  BY <1>1, <1>2 DEF IInv, Known, NodeId, Id, Current
<1>6. \A v \in Current.inner : NodeId(v) = n => v = w
  BY <1>2, <1>4, <1>5, IdsDiffer
<1>7. \A k \in 1..i : \A v : Id(k, v) # n
  BY <1>2, <1>4, <1>5, IdsDiffer
<1>8. nodes' \in [DOMAIN nodes -> Node] /\ DOMAIN nodes' = DOMAIN nodes
  <2>1. nodes[n] \in Node
    BY <1>3
  <2>2. [nodes[n] EXCEPT !.report = TRUE] \in Node
    BY <2>1 DEF Node
  <2> QED
    BY <1>1, <1>3, <2>2
<1>9. /\ nodes'[n] = [nodes[n] EXCEPT !.report = TRUE]
      /\ \A m \in DOMAIN nodes : m # n => nodes'[m] = nodes[m]
  BY <1>1, <1>3
<1>10. TypeOK'
  BY <1>1, <1>8 DEF TypeOK
<1>11. Place' /\ Left' /\ Drawn' /\ Known' /\ Connected'
  BY <1>1, <1>8 DEF IInv, Place, Left, Drawn, Known, Connected, Loops, Current
<1>12. Done'
  <2>1. ASSUME NEW k \in 1..i, NEW v \in graphs[k].inner
        PROVE  nodes'[Id(k, v)] = Converted(graphs[k], v)
    <3>1. Id(k, v) \in DOMAIN nodes /\ Id(k, v) # n
      BY <1>2, <1>7 DEF IInv, Known
    <3> QED
      BY <1>9, <3>1 DEF IInv, Done
  <2> QED
    BY <1>1, <2>1 DEF Done
<1>13. Underway'
  <2>1. /\ \A v : NodeId(v)' = NodeId(v)
        /\ Current' = Current
    BY <1>1 DEF NodeId, Current
  <2>2. start_to_report = TRUE
    BY <1>1 DEF IInv, Left, TypeOK
  <2>3. ASSUME NEW v \in Current.inner
        PROVE  nodes'[NodeId(v)] =
                 [NodeBy(v, Current.edges) EXCEPT
                    !.report = @ \/ (start_to_report /\ NodeId(v) \in start_nodes \ todoS')]
    <3>1. nodes[NodeId(v)] =
            [NodeBy(v, Current.edges) EXCEPT
               !.report = @ \/ (start_to_report /\ NodeId(v) \in start_nodes \ todoS)]
      BY <1>1 DEF IInv, Underway
    <3>2. NodeBy(v, Current.edges) \in Node
      BY NodeByType
    <3>3. CASE NodeId(v) = n
      BY <1>1, <1>3, <1>9, <2>2, <3>1, <3>2, <3>3 DEF Node
    <3>4. CASE NodeId(v) # n
      <4>1. NodeId(v) \in start_nodes \ todoS' <=> NodeId(v) \in start_nodes \ todoS
        BY <1>1, <3>4
      <4> QED
        BY <1>5, <1>9, <3>1, <3>4, <4>1
    <3> QED
      BY <3>3, <3>4
  <2> QED
    BY <1>1, <2>1, <2>3 DEF IInv, Underway, Loops
<1> QED
  BY <1>10, <1>11, <1>12, <1>13 DEF IInv

(* With the starts done the nodes are the converted ones. *)
LEMMA NextExpressionInv ==
  ASSUME IInv, NextExpression
  PROVE  IInv'
<1>1. /\ pc = "starts" /\ pc' = "parse" /\ todoS = {} /\ todoV = {} /\ i' = i + 1
      /\ UNCHANGED <<args, graphs, todoV, todoS, nodes, conns, start_nodes, start_to_report,
                     ret, comp_error>>
      /\ TypeOK /\ Place
  BY DEF NextExpression, locals, IInv, Left
<1>2. /\ i \in Nat /\ args.elements \in Nat /\ i + 1 \in 1..MaxElements /\ i + 1 \in 1..Len(graphs)
      /\ Len(graphs) = i + 1
      /\ \A k \in 1..(i + 1) : k \in 1..i \/ k = i + 1
      /\ \A k \in 1..Len(graphs) : k # i' + 1
  BY <1>1, Sizes DEF Loops, Place
<1>3. TypeOK' /\ Place' /\ Left'
  BY <1>1, <1>2 DEF IInv, TypeOK, Phases, Place, Loops, Left
<1>4. Drawn' /\ Connected'
  BY <1>1 DEF IInv, Drawn, Connected
<1>5. Known'
  BY <1>1, <1>2 DEF IInv, Known
<1>6. ASSUME NEW v \in Current.inner
      PROVE  nodes[Id(i + 1, v)] = Converted(Current, v)
  <2>1. NodeId(v) = Id(i + 1, v)
    BY DEF NodeId, Id
  <2>2. nodes[NodeId(v)] =
          [NodeBy(v, Current.edges) EXCEPT
             !.report = @ \/ (start_to_report /\ NodeId(v) \in start_nodes \ todoS)]
    BY <1>1 DEF IInv, Underway
  <2>3. (start_to_report /\ NodeId(v) \in start_nodes \ todoS)
          = (StartToReportBy(Current.edges) /\ IsStartBy(v, Current.edges))
    <3>1. start_to_report = StartToReportBy(Current.edges)
      BY <1>1 DEF IInv, Underway, Loops
    <3>2. NodeId(v) \in start_nodes \ todoS <=> IsStartBy(v, Current.edges)
      BY <1>1 DEF IInv, Underway, Loops
    <3>3. StartToReportBy(Current.edges) \in BOOLEAN /\ IsStartBy(v, Current.edges) \in BOOLEAN
      BY DEF StartToReportBy, IsStartBy
    <3> QED
      BY <3>1, <3>2, <3>3
  <2> QED
    BY <2>1, <2>2, <2>3 DEF Converted
<1>7. Done'
  BY <1>1, <1>2, <1>6 DEF IInv, Done, Current
<1>8. Underway'
  BY <1>1 DEF Underway, Loops
<1> QED
  BY <1>3, <1>4, <1>5, <1>7, <1>8 DEF IInv

LEMMA NextInv == IInv /\ [Next]_vars => IInv'
<1> SUFFICES ASSUME IInv, [Next]_vars
             PROVE  IInv'
  OBVIOUS
<1>1. CASE CheckArgs
  BY <1>1, CheckArgsInv
<1>2. ASSUME NEW vs \in SUBSET Inner, BuildGraph(vs)
      PROVE  IInv'
  BY <1>2, BuildGraphInv
<1>3. ASSUME NEW v \in todoV, AddNode(v)
      PROVE  IInv'
  BY <1>3, AddNodeInv
<1>4. CASE VerticesDone
  BY <1>4, VerticesDoneInv
<1>5. ASSUME NEW e, VisitEdge(e)
      PROVE  IInv'
  BY <1>5, VisitEdgeInv
<1>6. CASE EdgesDone
  BY <1>6, EdgesDoneInv
<1>7. ASSUME NEW n \in todoS, ReportStart(n)
      PROVE  IInv'
  BY <1>7, ReportStartInv
<1>8. CASE NextExpression
  BY <1>8, NextExpressionInv
<1>9. CASE SetupThrows \/ RejectExpression \/ Succeed \/ BadAlloc \/ Unexpected
  BY <1>9, FailInv
<1>10. CASE Terminated \/ UNCHANGED vars
  <2>1. UNCHANGED <<args, pc, i, graphs, todoV, todoS, start_nodes, start_to_report, nodes, conns,
                    ret, comp_error>>
    BY <1>10 DEF Terminated, vars, locals
  <2>2. TypeOK' /\ Place' /\ Left'
    BY <2>1 DEF IInv, TypeOK, Place, Left, Loops, Current
  <2>3. Drawn' /\ Known' /\ Done' /\ Connected'
    BY <2>1 DEF IInv, Drawn, Known, Done, Connected
  <2>4. Underway'
    BY <2>1 DEF IInv, Underway, Loops, Current, NodeId
  <2> QED
    BY <2>2, <2>3, <2>4 DEF IInv
<1> QED
  BY <1>1, <1>2, <1>3, <1>4, <1>5, <1>6, <1>7, <1>8, <1>9, <1>10 DEF Next, Step

LEMMA Inductive == Spec => []IInv
BY InitInv, NextInv, PTL DEF Spec

-----------------------------------------------------------------------------
(* The invariants.                                                         *)

(* The variables of the two functions keep their types: no node is made that *)
(* is not of some vertex, and none is started or reported that was not made. *)
THEOREM TypeCorrect == Spec => []TypeOK
<1>1. IInv => TypeOK
  BY DEF IInv
<1> QED
  BY <1>1, Inductive, PTL

(* However boost walks the graphs, whatever graphs they are and however many *)
(* expressions follow or fail: the nodes of an expression that is done are   *)
(* the ones its graph determines.                                            *)
THEOREM ConversionsAreConfluent == Spec => []ConversionIsConfluent
<1>1. IInv => ConversionIsConfluent
  <2> SUFFICES ASSUME IInv, NEW k \in 1..i, NEW v \in graphs[k].inner
               PROVE  <<Ids[k], v>> \in DOMAIN nodes /\ nodes[<<Ids[k], v>>] = Converted(graphs[k], v)
    BY DEF ConversionIsConfluent
  <2>1. k \in 1..Len(graphs) /\ k # i + 1
    BY Sizes DEF IInv
  <2> QED
    BY <2>1 DEF IInv, Known, Done, Id
<1> QED
  BY <1>1, Inductive, PTL

(* The connections are the ordinary edges of the graphs, self-loops          *)
(* included, and nothing else; both their ends are nodes.                    *)
THEOREM ConnectionsAreTheEdges == Spec => []ConnectionsAreEdges
<1>1. IInv => ConnectionsAreEdges
  <2> SUFFICES ASSUME IInv
               PROVE  ConnectionsAreEdges
    OBVIOUS
  <2>1. \A k \in 1..i : k \in 1..Len(graphs)
    BY Sizes DEF IInv
  <2>2. \A k \in 1..i : \A e \in InnerEdges(graphs[k]) :
          <<<<Ids[k], e[1]>>, <<Ids[k], e[2]>>>> \in conns
    BY <2>1 DEF IInv, Connected, Conn, Id
  <2>3. \A c \in conns : \E k \in 1..Len(graphs) : \E e \in InnerEdges(graphs[k]) :
          c = <<<<Ids[k], e[1]>>, <<Ids[k], e[2]>>>>
    BY DEF IInv, Connected, Conn, Id
  <2>4. ASSUME NEW c \in conns
        PROVE  c[1] \in DOMAIN nodes /\ c[2] \in DOMAIN nodes
    <3>1. PICK k \in 1..Len(graphs) : \E e \in InnerEdges(graphs[k]) : c = Conn(k, e)
      BY DEF IInv, Connected
    <3>2. PICK e \in InnerEdges(graphs[k]) : c = Conn(k, e)
      BY <3>1
    <3>3. graphs[k].inner \subseteq Inner /\ e \in FixedEdges \cup ExprEdges(graphs[k].inner)
      BY Sizes DEF IInv, Drawn, InnerEdges
    <3>4. e[1] \in graphs[k].inner /\ e[2] \in graphs[k].inner
      BY <3>3, EdgeEnds DEF InnerEdges
    <3>5. k = i + 1 => todoV = {}
      BY Sizes DEF IInv, Left, Current, InnerEdges
    <3> QED
      BY <3>2, <3>4, <3>5 DEF IInv, Known, Conn
  <2> QED
    BY <2>2, <2>3, <2>4 DEF ConnectionsAreEdges
<1> QED
  BY <1>1, Inductive, PTL

(* When an expression is refused the network holds the expressions before    *)
(* it, whole, and the error names it.                                        *)
THEOREM RejectionsLeavePrefix == Spec => []RejectionLeavesPrefix
<1>1. IInv => RejectionLeavesPrefix
  <2> SUFFICES ASSUME IInv, comp_error.kind = "compile"
               PROVE  /\ comp_error.expression = i
                      /\ DOMAIN nodes = UNION {{<<Ids[k], v>> : v \in graphs[k].inner} : k \in 1..i}
                      /\ \A c \in conns : \E k \in 1..i : c[1][1] = Ids[k]
    BY DEF RejectionLeavesPrefix
  <2>1. comp_error.expression = i /\ Len(graphs) = i /\ \A k \in 1..i : k # i + 1
    BY Sizes DEF IInv, Place
  <2>2. \A n \in DOMAIN nodes : \E k \in 1..i : \E v \in graphs[k].inner : n = <<Ids[k], v>>
    BY <2>1 DEF IInv, Known, Id
  <2>3. \A k \in 1..i : \A v \in graphs[k].inner : <<Ids[k], v>> \in DOMAIN nodes
    BY <2>1 DEF IInv, Known, Id
  <2>4. \A c \in conns : \E k \in 1..i : c[1][1] = Ids[k]
    BY <2>1 DEF IInv, Connected, Conn, Id
  <2>5. DOMAIN nodes = UNION {{<<Ids[k], v>> : v \in graphs[k].inner} : k \in 1..i}
    <3> DEFINE F(k) == {<<Ids[k], v>> : v \in graphs[k].inner}
    <3>1. /\ \A n \in DOMAIN nodes : \E k \in 1..i : n \in F(k)
          /\ \A k \in 1..i : F(k) \subseteq DOMAIN nodes
      BY <2>2, <2>3
    <3> HIDE DEF F
    <3>2. DOMAIN nodes = UNION {F(k) : k \in 1..i}
      BY <3>1
    <3> QED
      BY <3>2 DEF F
  <2> QED
    BY <2>1, <2>4, <2>5
<1> QED
  BY <1>1, Inductive, PTL

-----------------------------------------------------------------------------
(* What a step may do to the nodes.                                        *)

(* While the call runs, no node is enabled at the end of data. *)
LEMMA NeverOnLast ==
  ASSUME IInv, ~Finished, NEW n \in DOMAIN nodes
  PROVE  nodes[n] \in Node /\ nodes[n].enable # "ON_LAST"
<1>1. nodes[n] \in Node
  BY DEF IInv, TypeOK
<1>2. PICK k \in 1..Len(graphs), v \in Inner :
         v \in graphs[k].inner /\ n = Id(k, v) /\ (k = i + 1 => v \notin todoV)
  BY Sizes DEF IInv, Known
<1>3. CASE k \in 1..i
  <2>1. nodes[n] = Converted(graphs[k], v)
    BY <1>2, <1>3 DEF IInv, Done
  <2>2. Converted(graphs[k], v).enable = NodeBy(v, graphs[k].edges).enable
    BY DEF Converted, NodeBy
  <2> QED
    BY <1>1, <2>1, <2>2, NodeByType
<1>4. CASE k = i + 1
  <2>1. pc \in Loops /\ n = NodeId(v) /\ v \in Current.inner /\ v \notin todoV
    <3>1. n = NodeId(v) /\ v \in Current.inner /\ v \notin todoV
      BY <1>2, <1>4 DEF NodeId, Id, Current
    <3>2. i + 1 <= Len(graphs) /\ i \in Nat /\ Len(graphs) \in Nat
      BY <1>2, <1>4, Sizes DEF IInv
    <3>3. Len(graphs) # i
      BY ONLY <3>2
    <3>4. pc \in Loops
      BY <3>3 DEF IInv, TypeOK, Place, Phases, Finished, Loops
    <3> QED
      BY <3>1, <3>4
  <2>2. nodes[n].enable = NodeBy(v, Current.edges).enable
    <3>1. CASE pc = "starts"
      <4> DEFINE D == Current.edges
                 y == NodeBy(v, D).report \/ (start_to_report /\ n \in start_nodes \ todoS)
      <4>1. nodes[n] = [NodeBy(v, D) EXCEPT !.report = y]
        BY <2>1, <3>1, Zenon DEF IInv, Underway
      <4> HIDE DEF D, y
      <4>2. [NodeBy(v, D) EXCEPT !.report = y].enable = NodeBy(v, D).enable
        BY DEF NodeBy
      <4> QED
        BY ONLY <4>1, <4>2, Zenon DEF D
    <3>2. CASE pc \in {"vertices", "edges"}
      BY <2>1, <3>2 DEF IInv, Underway
    <3> QED
      BY <2>1, <3>1, <3>2 DEF Loops
  <2> QED
    BY <1>1, <2>2, NodeByType
<1> QED
  BY <1>2, <1>3, <1>4, Sizes DEF IInv, Place

(* a becomes b: the enable type only climbs, the report is only loosened. *)
Grown(a, b) ==
  /\ Rank(a.enable) <= Rank(b.enable) /\ b.enable # "ON_LAST"
  /\ a.report => b.report
  /\ a.report /\ a.reportEnable = "ALWAYS" => b.reportEnable = "ALWAYS"

LEMMA GrownBySame ==
  ASSUME NEW a \in Node, a.enable # "ON_LAST"
  PROVE  Grown(a, a)
BY DEF Grown, Rank

LEMMA GrownByStart ==
  ASSUME NEW a \in Node, a.enable # "ON_LAST", NEW s \in Starts
  PROVE  Grown(a, upgrade_start(a, convert_enable(s)))
<1>1. PICK en : en = convert_enable(s) /\ en \in {"ON_START_AND_ACTIVATE_IN", "ALWAYS"}
  BY DEF convert_enable, Starts, NODE_START, NODE_START_DOTSTAR, NODE_ACCEPT_EOD
<1>2. Rank(en) \in Nat /\ Rank(a.enable) \in Nat
  BY DEF Rank
<1>3. CASE Rank(en) > Rank(a.enable)
  <2>1. upgrade_start(a, en) = [a EXCEPT !.enable = en]
    BY <1>3 DEF upgrade_start
  <2>2. /\ [a EXCEPT !.enable = en].enable = en
        /\ [a EXCEPT !.enable = en].report = a.report
        /\ [a EXCEPT !.enable = en].reportEnable = a.reportEnable
    BY DEF Node
  <2> QED
    BY <1>1, <1>2, <1>3, <2>1, <2>2 DEF Grown
<1>4. CASE ~(Rank(en) > Rank(a.enable))
  BY <1>1, <1>4, GrownBySame DEF upgrade_start
<1> QED
  BY <1>3, <1>4

LEMMA GrownByReport ==
  ASSUME NEW a \in Node, a.enable # "ON_LAST", NEW acc \in Accepts
  PROVE  Grown(a, report_edge(a, acc))
<1>1. PICK en \in Enable, r \in BOOLEAN, re \in ReportEnable :
         a = [enable |-> en, report |-> r, reportEnable |-> re]
  BY DEF Node
<1>2. report_edge(a, acc) =
        [enable |-> en, report |-> TRUE,
         reportEnable |-> IF acc = NODE_ACCEPT THEN "ALWAYS" ELSE IF r THEN re ELSE "ON_LAST"]
  BY <1>1, ReportEdgeIs
<1> QED
  BY <1>1, <1>2 DEF Grown, Rank

LEMMA GrownByReportStart ==
  ASSUME NEW a \in Node, a.enable # "ON_LAST"
  PROVE  Grown(a, [a EXCEPT !.report = TRUE])
BY DEF Grown, Rank, Node

(* A step adds a node under a free id or lets a node of the expression at    *)
(* hand grow.                                                                *)
LEMMA NodesStep ==
  ASSUME IInv, Next, ~Finished
  PROVE  \/ nodes' = nodes
         \/ \E v \in todoV : NodeId(v) \notin DOMAIN nodes /\ nodes' = AddHState(nodes, NodeId(v))
         \/ \E v \in Inner : \E node \in Node :
              /\ pc \in Loops /\ NodeId(v) \in DOMAIN nodes
              /\ nodes' = [nodes EXCEPT ![NodeId(v)] = node]
              /\ Grown(nodes[NodeId(v)], node)
<1> DEFINE Goal == \E v \in Inner : \E node \in Node :
                     /\ pc \in Loops /\ NodeId(v) \in DOMAIN nodes
                     /\ nodes' = [nodes EXCEPT ![NodeId(v)] = node]
                     /\ Grown(nodes[NodeId(v)], node)
<1>1. CASE UNCHANGED nodes
  BY <1>1
<1>2. ASSUME NEW v \in todoV, AddNode(v)
      PROVE  NodeId(v) \notin DOMAIN nodes /\ nodes' = AddHState(nodes, NodeId(v))
  BY <1>2, AddNodeInv DEF AddNode
<1>3. nodes \in [DOMAIN nodes -> Node]
  BY DEF IInv, TypeOK
<1>4. ASSUME NEW e, StartEdge(e) \/ ReportEdge(e)
      PROVE  Goal
  <2>1. /\ pc = "edges" /\ todoV = {} /\ Current.inner \subseteq Inner /\ i + 1 \in 1..Len(graphs)
        /\ e \in FixedEdges \cup ExprEdges(Current.inner)
    BY <1>4, VisitGraphs DEF StartEdge, ReportEdge
  <2>2. \A v \in Current.inner : NodeId(v) \in DOMAIN nodes
    BY <2>1 DEF IInv, Known, NodeId, Id, Current
  <2>3. /\ e[1] \in Inner => e[1] \in Current.inner
        /\ e[2] \in Inner => e[2] \in Current.inner
    BY <2>1, EdgeEnds
  <2>4. CASE StartEdge(e)
    <3> DEFINE n == NodeId(e[2])
               node == upgrade_start(nodes[n], convert_enable(e[1]))
    <3>1. /\ e[1] \in Starts /\ e[2] \in Inner /\ n \in DOMAIN nodes
          /\ nodes' = [nodes EXCEPT ![n] = node]
      BY <1>3, <2>2, <2>3, <2>4 DEF StartEdge
    <3>2. nodes[n] \in Node /\ nodes[n].enable # "ON_LAST"
      BY <3>1, NeverOnLast
    <3>3. convert_enable(e[1]) \in Enable
      BY DEF convert_enable, Enable
    <3>4. node \in Node
      BY <3>2, <3>3 DEF upgrade_start, Node
    <3>5. Grown(nodes[n], node)
      BY <3>1, <3>2, GrownByStart
    <3> QED
      BY <2>1, <3>1, <3>4, <3>5 DEF Loops
  <2>5. CASE ReportEdge(e)
    <3> DEFINE n == NodeId(e[1])
               node == report_edge(nodes[n], e[2])
    <3>1. /\ e[2] \in Accepts /\ e[1] \in Inner /\ n \in DOMAIN nodes
          /\ nodes' = [nodes EXCEPT ![n] = node]
      BY <1>3, <2>2, <2>3, <2>5 DEF ReportEdge
    <3>2. nodes[n] \in Node /\ nodes[n].enable # "ON_LAST"
      BY <3>1, NeverOnLast
    <3>3. node \in Node
      <4>1. PICK en \in Enable, r \in BOOLEAN, re \in ReportEnable :
               nodes[n] = [enable |-> en, report |-> r, reportEnable |-> re]
        BY <3>2 DEF Node
      <4>2. node = [enable |-> en, report |-> TRUE,
                    reportEnable |-> IF e[2] = NODE_ACCEPT THEN "ALWAYS"
                                     ELSE IF r THEN re ELSE "ON_LAST"]
        BY <3>1, <4>1, ReportEdgeIs
      <4>3. (IF e[2] = NODE_ACCEPT THEN "ALWAYS" ELSE IF r THEN re ELSE "ON_LAST") \in ReportEnable
        BY DEF ReportEnable
      <4> HIDE DEF node
      <4> QED
        BY <4>2, <4>3 DEF Node
    <3>4. Grown(nodes[n], node)
      BY <3>1, <3>2, GrownByReport
    <3> QED
      BY <2>1, <3>1, <3>3, <3>4 DEF Loops
  <2> QED
    BY <1>4, <2>4, <2>5
<1>5. ASSUME NEW n \in todoS, ReportStart(n)
      PROVE  Goal
  <2>1. /\ pc \in Loops /\ n \in DOMAIN nodes /\ nodes' = [nodes EXCEPT ![n].report = TRUE]
        /\ Current.inner \subseteq Inner
    BY <1>5, Sizes DEF ReportStart, IInv, TypeOK, Loops
  <2>2. PICK v \in Current.inner : n = NodeId(v)
    BY <1>5, <2>1 DEF IInv, Underway, TypeOK
  <2>3. nodes[n] \in Node /\ nodes[n].enable # "ON_LAST"
    BY <2>1, NeverOnLast
  <2>4. /\ [nodes[n] EXCEPT !.report = TRUE] \in Node
        /\ Grown(nodes[n], [nodes[n] EXCEPT !.report = TRUE])
    BY <2>3, GrownByReportStart DEF Node
  <2> QED
    BY <2>1, <2>2, <2>4
<1>6. ASSUME NEW e, StartToReportEdge(e) \/ InnerEdge(e) \/ IgnoredEdge(e)
      PROVE  UNCHANGED nodes
  BY <1>6 DEF StartToReportEdge, InnerEdge, IgnoredEdge
<1>7. CASE \/ CheckArgs \/ VerticesDone \/ EdgesDone \/ NextExpression \/ Succeed
           \/ SetupThrows \/ RejectExpression \/ BadAlloc \/ Unexpected \/ Terminated
           \/ \E vs \in SUBSET Inner : BuildGraph(vs)
  BY <1>1, <1>7 DEF CheckArgs, VerticesDone, EdgesDone, NextExpression, Succeed, SetupThrows,
                    RejectExpression, BadAlloc, Unexpected, Terminated, BuildGraph, vars
<1> HIDE DEF Goal
<1>8. CASE \E v \in todoV : AddNode(v)
  BY <1>2, <1>8
<1>9. CASE \E e \in FixedEdges \cup ExprEdges(Inner) : VisitEdge(e)
  <2>1. PICK e : VisitEdge(e)
    BY <1>9
  <2>2. Goal \/ UNCHANGED nodes
    BY <1>4, <1>6, <2>1 DEF VisitEdge
  <2> QED
    BY <2>2 DEF Goal
<1>10. CASE \E n \in todoS : ReportStart(n)
  BY <1>5, <1>10 DEF Goal
<1> QED
  BY <1>7, <1>8, <1>9, <1>10 DEF Next, Step

(* The same, node by node: none disappears, none shrinks. *)
LEMMA NodesGrow ==
  ASSUME IInv, Next, ~Finished, NEW n \in DOMAIN nodes
  PROVE  n \in DOMAIN nodes' /\ Grown(nodes[n], nodes'[n])
<1>1. nodes \in [DOMAIN nodes -> Node]
  BY DEF IInv, TypeOK
<1>2. Grown(nodes[n], nodes[n])
  BY NeverOnLast, GrownBySame
<1>3. CASE nodes' = nodes
  BY <1>2, <1>3
<1>4. ASSUME NEW v \in todoV, NodeId(v) \notin DOMAIN nodes, nodes' = AddHState(nodes, NodeId(v))
      PROVE  n \in DOMAIN nodes' /\ Grown(nodes[n], nodes'[n])
  BY <1>2, <1>4 DEF AddHState
<1>5. ASSUME NEW v \in Inner, NEW node \in Node, NodeId(v) \in DOMAIN nodes,
             nodes' = [nodes EXCEPT ![NodeId(v)] = node], Grown(nodes[NodeId(v)], node)
      PROVE  n \in DOMAIN nodes' /\ Grown(nodes[n], nodes'[n])
  <2>1. DOMAIN nodes' = DOMAIN nodes /\ nodes'[n] = IF n = NodeId(v) THEN node ELSE nodes[n]
    BY <1>1, <1>5
  <2> QED
    BY <1>2, <1>5, <2>1
<1> QED
  BY <1>3, <1>4, <1>5, NodesStep

(* A call that has ended does nothing more. *)
LEMMA EndedStays ==
  ASSUME Next, Finished
  PROVE  UNCHANGED vars
BY DEF Finished, Next, Step, Terminated, CheckArgs, BuildGraph, AddNode, VerticesDone,
       VisitEdge, StartEdge, StartToReportEdge, ReportEdge, InnerEdge, IgnoredEdge, Visit,
       EdgesDone, ReportStart, NextExpression, Succeed, SetupThrows, RejectExpression,
       BadAlloc, Unexpected, InTry

(* The order of upgrade_start is only climbed, in every step of every call,  *)
(* and no node is ever enabled at the end of data.                           *)
THEOREM EnablesOnlyClimb == Spec => EnableOnlyUpgraded
<1> DEFINE Climbs == \A n \in DOMAIN nodes :
                       /\ n \in DOMAIN nodes'
                       /\ Rank(nodes[n].enable) <= Rank(nodes'[n].enable)
                       /\ nodes'[n].enable # "ON_LAST"
<1>1. IInv /\ [Next]_vars => Climbs \/ UNCHANGED vars
  <2> SUFFICES ASSUME IInv, Next, vars' # vars
               PROVE  Climbs
    OBVIOUS
  <2>1. ~Finished
    BY EndedStays
  <2> QED
    BY <2>1, NodesGrow DEF Grown
<1> QED
  BY <1>1, Inductive, PTL DEF Spec, EnableOnlyUpgraded

(* A report that has been set is never taken back or restricted. *)
THEOREM ReportsOnlyLoosen == Spec => ReportOnlyLoosened
<1> DEFINE Loosens == \A n \in DOMAIN nodes :
                        nodes[n].report => /\ nodes'[n].report
                                           /\ nodes[n].reportEnable = "ALWAYS"
                                                => nodes'[n].reportEnable = "ALWAYS"
<1>1. IInv /\ [Next]_vars => Loosens \/ UNCHANGED vars
  <2> SUFFICES ASSUME IInv, Next, vars' # vars
               PROVE  Loosens
    OBVIOUS
  <2>1. ~Finished
    BY EndedStays
  <2> QED
    BY <2>1, NodesGrow DEF Grown
<1> QED
  BY <1>1, Inductive, PTL DEF Spec, ReportOnlyLoosened

(* The nodes of an expression that is done are never touched again: the ids  *)
(* of two expressions differ, and a step changes the expression at hand.     *)
THEOREM DoneExpressionsStay == Spec => DoneExpressionsUntouched
<1> DEFINE Stay == \A k \in 1..i : \A n \in DOMAIN nodes :
                     n[1] = Ids[k] => nodes'[n] = nodes[n]
<1>1. IInv /\ [Next]_vars => Stay \/ UNCHANGED vars
  <2> SUFFICES ASSUME IInv, Next, vars' # vars, NEW k \in 1..i, NEW n \in DOMAIN nodes,
                      n[1] = Ids[k]
               PROVE  nodes'[n] = nodes[n]
    OBVIOUS
  <2>1. ~Finished
    BY EndedStays
  <2>2. CASE nodes' = nodes
    BY <2>2
  <2>3. ASSUME NEW v \in todoV, NodeId(v) \notin DOMAIN nodes, nodes' = AddHState(nodes, NodeId(v))
        PROVE  nodes'[n] = nodes[n]
    BY <2>3 DEF AddHState
  <2>4. ASSUME NEW v \in Inner, NEW node \in Node, pc \in Loops, NodeId(v) \in DOMAIN nodes,
               nodes' = [nodes EXCEPT ![NodeId(v)] = node]
        PROVE  nodes'[n] = nodes[n]
    <3>1. i + 1 \in 1..MaxElements /\ k \in 1..MaxElements /\ k # i + 1
      BY <2>4, Sizes DEF IInv
    <3>2. Ids[k] # Ids[i + 1]
      BY <3>1, IdsAssumption
    <3>3. n # NodeId(v)
      BY <3>2 DEF NodeId
    <3> QED
      BY <2>4, <3>3
  <2> QED
    BY <2>1, <2>2, <2>3, <2>4, NodesStep
<1> QED
  BY <1>1, Inductive, PTL DEF Spec, DoneExpressionsUntouched

-----------------------------------------------------------------------------
(* PcreToMnrl implements ConversionContract: every step of the conversion    *)
(* is, for pcre2mnrl, the one step of the contract or nothing at all.        *)

(* The refinement mapping, by name. *)
Outcome == CASE pc = "returned" -> ret [] pc = "aborted" -> "stopped" [] OTHER -> "pending"
Held    == IF pc = "returned" THEN Whole ELSE {}
Pieces  == pc = "returned" /\ \E n \in DOMAIN nodes : n[1] \notin {Ids[k] : k \in Whole}

(* Both sides see the same call. *)
LEMMA SameCall ==
  /\ Contract!Arguments = Arguments /\ \A a : Contract!BadArgs(a) = BadArgs(a)
  /\ Contract!HS_SUCCESS = HS_SUCCESS /\ Contract!HS_COMPILER_ERROR = HS_COMPILER_ERROR
  /\ Contract!NoError = NoError /\ \A kind, e : Contract!Error(kind, e) = Error(kind, e)
BY DEF Contract!Arguments, Contract!BadArgs, Contract!HS_SUCCESS, Contract!HS_COMPILER_ERROR,
       Contract!NoError, Contract!Error, Arguments, BadArgs, HS_SUCCESS, HS_COMPILER_ERROR,
       NoError, Error

(* The expressions that are done are whole, and between two expressions no  *)
(* node is of another one.                                                  *)
LEMMA WholeIs ==
  ASSUME IInv
  PROVE  /\ Whole = 1..i
         /\ Len(graphs) = i => \A n \in DOMAIN nodes : n[1] \in {Ids[k] : k \in Whole}
<1>1. \A k \in 1..i : k \in 1..Len(graphs) /\ k # i + 1
  BY Sizes DEF IInv
<1>2. ASSUME NEW k \in 1..i
      PROVE  k \in Whole
  <2>1. \A v \in graphs[k].inner : /\ <<Ids[k], v>> \in DOMAIN nodes
                                   /\ nodes[<<Ids[k], v>>] = Converted(graphs[k], v)
    BY <1>1 DEF IInv, Known, Done, Id
  <2>2. \A e \in InnerEdges(graphs[k]) : <<<<Ids[k], e[1]>>, <<Ids[k], e[2]>>>> \in conns
    BY <1>1 DEF IInv, Connected, Conn, Id
  <2> QED
    BY <2>1, <2>2 DEF Whole
<1>3. Whole = 1..i
  BY <1>2 DEF Whole
<1>4. ASSUME Len(graphs) = i, NEW n \in DOMAIN nodes
      PROVE  n[1] \in {Ids[k] : k \in Whole}
  BY <1>3, <1>4 DEF IInv, Known, Id
<1> QED
  BY <1>3, <1>4

(* The call returns and leaves what it has built. *)
LEMMA ReturnIs ==
  ASSUME IInv, ~Finished, pc' = "returned", UNCHANGED <<i, graphs, nodes, conns>>
  PROVE  /\ Outcome = "pending" /\ Outcome' = ret' /\ Held' = 1..i
         /\ Pieces' \in BOOLEAN
         /\ Len(graphs) = i => Pieces' = FALSE
<1>1. Whole' = Whole
  BY DEF Whole
<1>2. \A k \in Whole : Ids[k]' = Ids[k]
  OBVIOUS
<1>3. Pieces' = (\E n \in DOMAIN nodes : n[1] \notin {Ids[k] : k \in Whole})
  BY <1>1 DEF Pieces
<1> QED
  BY <1>1, <1>3, WholeIs DEF Outcome, Held, Finished, Phases, IInv, TypeOK

LEMMA InitImplements == Init => Contract!Init
<1> SUFFICES ASSUME Init
             PROVE  Contract!Init
  OBVIOUS
<1>1. Outcome = "pending" /\ Held = {} /\ Pieces = FALSE
  BY DEF Init, Outcome, Held, Pieces
<1> QED
  BY <1>1, SameCall DEF Init, Contract!Init, Outcome, Held, Pieces

(* A step inside the call is none of the contract's. *)
LEMMA InsideImplements ==
  ASSUME ~Finished, ~Finished', UNCHANGED <<args, comp_error>>
  PROVE  UNCHANGED Contract!vars
<1>1. /\ Outcome = "pending" /\ Held = {} /\ Pieces = FALSE
      /\ Outcome' = "pending" /\ Held' = {} /\ Pieces' = FALSE
  BY DEF Finished, Outcome, Held, Pieces
<1> QED
  BY <1>1 DEF Contract!vars, Outcome, Held, Pieces

(* A call that returns: what the contract's Answer is asked for. *)
LEMMA AnswerImplements ==
  ASSUME IInv, ~Finished, pc' = "returned", UNCHANGED <<args, i, graphs, nodes, conns>>,
         NEW code, NEW error, NEW expressions, NEW pieces \in BOOLEAN,
         ret' = code, comp_error' = error, expressions = 1..i, Pieces' = pieces
  PROVE  Contract!Answer(code, error, expressions, pieces)
BY ReturnIs DEF Contract!Answer, Outcome, Held, Pieces

LEMMA AcceptedIs ==
  ASSUME ~Finished
  PROVE  /\ Contract!Accepted <=> args.comp_error /\ ~BadArgs(args)
         /\ Outcome = "pending"
BY SameCall DEF Contract!Accepted, Outcome, Finished

LEMMA CheckArgsImplements ==
  ASSUME IInv, CheckArgs
  PROVE  Contract!Refuse \/ UNCHANGED Contract!vars
<1>1. /\ pc = "args" /\ ~Finished /\ i = 0 /\ Len(graphs) = 0 /\ comp_error = NoError
      /\ UNCHANGED <<args, i, graphs, nodes, conns>>
  BY DEF CheckArgs, IInv, Place, Finished
<1>2. CASE args.comp_error /\ ~BadArgs(args)
  BY <1>1, <1>2, InsideImplements DEF CheckArgs, Finished
<1>3. CASE ~(args.comp_error /\ ~BadArgs(args))
  <2> DEFINE error == IF args.comp_error THEN Error("param", -1) ELSE NoError
  <2>1. pc' = "returned" /\ ret' = HS_COMPILER_ERROR /\ comp_error' = error
    BY <1>1, <1>3 DEF CheckArgs, Return
  <2>2. Pieces' = FALSE /\ 1..i = {}
    BY <1>1, <2>1, ReturnIs
  <2>3. Contract!Answer(HS_COMPILER_ERROR, error, {}, FALSE)
    BY <1>1, <2>1, <2>2, AnswerImplements
  <2>4. ~Contract!Accepted /\ Outcome = "pending"
    BY <1>1, <1>3, AcceptedIs
  <2> QED
    BY <1>1, <2>3, <2>4, SameCall DEF Contract!Refuse, Outcome
<1> QED
  BY <1>2, <1>3

LEMMA SucceedImplements ==
  ASSUME IInv, Succeed
  PROVE  Contract!Convert
<1>1. /\ pc = "parse" /\ pc' = "returned" /\ ret' = HS_SUCCESS /\ comp_error' = comp_error
      /\ i = args.elements /\ UNCHANGED <<args, i, graphs, nodes, conns>>
      /\ Len(graphs) = i /\ args.comp_error /\ ~BadArgs(args) /\ ~Finished
  BY DEF Succeed, Return, IInv, Place, Finished
<1>2. Pieces' = FALSE
  BY <1>1, ReturnIs
<1>3. Contract!Answer(HS_SUCCESS, comp_error, 1..args.elements, FALSE)
  BY <1>1, <1>2, AnswerImplements
<1> QED
  BY <1>1, <1>3, AcceptedIs, SameCall DEF Contract!Convert

(* An expression is refused, or something unforeseen happens, with i done.  *)
LEMMA FailImplements ==
  ASSUME IInv, RejectExpression \/ BadAlloc \/ Unexpected
  PROVE  Contract!Next
<1>1. /\ ~Finished /\ UNCHANGED <<args, i, graphs, nodes, conns>>
      /\ args.comp_error /\ ~BadArgs(args)
      /\ (pc = "parse" /\ i < args.elements) \/ pc \in Loops
  BY DEF RejectExpression, BadAlloc, Unexpected, InTry, IInv, Place, Finished, Loops
<1>2. i \in 0..(MaxElements - 1) /\ i < args.elements
  BY <1>1, Sizes DEF IInv, Place
<1>3. Contract!Accepted
  BY <1>1, AcceptedIs
<1>4. CASE RejectExpression
  <2>1. /\ pc' = "returned" /\ ret' = HS_COMPILER_ERROR /\ comp_error' = Error("compile", i)
        /\ Len(graphs) = i
    BY <1>4 DEF RejectExpression, Return, IInv, Place
  <2>2. Pieces' = FALSE
    BY <1>1, <2>1, ReturnIs
  <2>3. Contract!Answer(HS_COMPILER_ERROR, Error("compile", i), 1..i, FALSE)
    BY <1>1, <2>1, <2>2, AnswerImplements
  <2>4. Contract!Reject(i)
    BY <1>2, <1>3, <2>3, SameCall DEF Contract!Reject
  <2> QED
    BY <1>2, <2>4 DEF Contract!Next
<1>5. ASSUME NEW kind \in {"enomem", "einternal"}, Return(HS_COMPILER_ERROR, Error(kind, 0))
      PROVE  Contract!Next
  <2>1. pc' = "returned" /\ ret' = HS_COMPILER_ERROR /\ comp_error' = Error(kind, 0)
    BY <1>5 DEF Return
  <2>2. PICK pieces \in BOOLEAN : Pieces' = pieces
    BY <1>1, <2>1, ReturnIs
  <2>3. Contract!Answer(HS_COMPILER_ERROR, Error(kind, 0), 1..i, pieces)
    BY <1>1, <2>1, <2>2, AnswerImplements
  <2>4. Contract!Break(i)
    BY <1>2, <1>3, <2>3, SameCall DEF Contract!Break
  <2> QED
    BY <1>2, <2>4 DEF Contract!Next
<1>6. CASE pc' = "aborted" /\ UNCHANGED <<ret, comp_error>>
  <2>1. Outcome' = "stopped" /\ Held' = {} /\ Pieces' = FALSE /\ Held = {} /\ Pieces = FALSE
    BY <1>1, <1>6 DEF Outcome, Held, Pieces, Finished
  <2> QED
    BY <1>1, <1>3, <1>6, <2>1 DEF Contract!Next, Contract!Stop, Outcome, Held, Pieces
<1> QED
  BY <1>4, <1>5, <1>6 DEF BadAlloc, Unexpected

LEMMA SetupImplements ==
  ASSUME IInv, SetupThrows
  PROVE  Contract!Stop
<1>1. /\ ~Finished /\ pc' = "aborted" /\ UNCHANGED <<args, comp_error>>
      /\ args.comp_error /\ ~BadArgs(args)
  BY DEF SetupThrows, Finished
<1>2. Outcome' = "stopped" /\ Held' = {} /\ Pieces' = FALSE /\ Held = {} /\ Pieces = FALSE
  BY <1>1 DEF Outcome, Held, Pieces, Finished
<1> QED
  BY <1>1, <1>2, AcceptedIs DEF Contract!Stop, Outcome, Held, Pieces

(* The steps of the loops. *)
LEMMA LoopsImplement ==
  ASSUME \/ \E vs \in SUBSET Inner : BuildGraph(vs)
         \/ \E v \in todoV : AddNode(v)
         \/ VerticesDone
         \/ \E e \in FixedEdges \cup ExprEdges(Inner) : VisitEdge(e)
         \/ EdgesDone
         \/ \E n \in todoS : ReportStart(n)
         \/ NextExpression
  PROVE  UNCHANGED Contract!vars
<1>1. CASE \E e \in FixedEdges \cup ExprEdges(Inner) : VisitEdge(e)
  <2>1. ~Finished /\ UNCHANGED <<args, pc, comp_error>>
    BY <1>1 DEF VisitEdge, StartEdge, StartToReportEdge, ReportEdge, InnerEdge, IgnoredEdge, Visit,
                Finished
  <2> QED
    BY <2>1, InsideImplements DEF Finished
<1>2. CASE ~\E e \in FixedEdges \cup ExprEdges(Inner) : VisitEdge(e)
  <2>1. ~Finished /\ ~Finished' /\ UNCHANGED <<args, comp_error>>
    BY <1>2 DEF BuildGraph, AddNode, VerticesDone, EdgesDone, ReportStart, NextExpression, Finished
  <2> QED
    BY <2>1, InsideImplements
<1> QED
  BY <1>1, <1>2

LEMMA NextImplements ==
  ASSUME IInv, [Next]_vars
  PROVE  [Contract!Next]_(Contract!vars)
<1>1. CASE CheckArgs
  BY <1>1, CheckArgsImplements DEF Contract!Next
<1>2. CASE Succeed
  BY <1>2, SucceedImplements DEF Contract!Next
<1>3. CASE SetupThrows
  BY <1>3, SetupImplements DEF Contract!Next
<1>4. CASE RejectExpression \/ BadAlloc \/ Unexpected
  BY <1>4, FailImplements
<1>5. CASE Terminated \/ UNCHANGED vars
  <2>1. UNCHANGED <<args, pc, i, graphs, nodes, conns, ret, comp_error>>
    BY <1>5 DEF Terminated, vars
  <2>2. Whole' = Whole
    BY <2>1 DEF Whole
  <2> QED
    BY <2>1, <2>2 DEF Contract!vars
<1> QED
  BY <1>1, <1>2, <1>3, <1>4, <1>5, LoopsImplement DEF Next, Step

-----------------------------------------------------------------------------
(* hs_pcre_mnrl_multi keeps what pcre2mnrl relies on, for any number of      *)
(* expressions with any graphs: on success all of them are in the network,   *)
(* whole; when one is refused the error names it and the network holds the   *)
(* ones before it; pieces of another stay behind only after bad_alloc or an  *)
(* unexpected exception.                                                     *)
THEOREM ConversionImplementsContract == Spec => ImplementsConversion
<1>1. Init => Contract!Init
  BY InitImplements
<1>2. IInv /\ [Next]_vars => [Contract!Next]_(Contract!vars)
  BY NextImplements
<1> QED
  BY <1>1, <1>2, Inductive, PTL DEF Spec, ImplementsConversion, Contract!Spec
=============================================================================

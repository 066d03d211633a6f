---------------------------- MODULE MCPcreToMnrl ----------------------------
(* An instance of PcreToMnrl for TLC: one expression of two vertices and up  *)
(* to five edges, or two expressions of one vertex and up to two edges.      *)
EXTENDS PcreToMnrl

(* Ids of expressions on every other line: the lines between were skipped. *)
MCIds == [k \in 1..MaxElements |-> 2 * k - 2]

MCVertices(elements) == IF elements = 1 THEN {4, 5} ELSE {4}
MCMaxEdges(elements)    == IF elements = 1 THEN 5 ELSE 2
=============================================================================

----------------------------- MODULE MCToolchain ----------------------------
(* An instance of Toolchain for TLC.                                       *)
EXTENDS Toolchain

(* Lines of every shape: no slash, one, two, three; with something in front; *)
(* with modifiers, unknown ones, a slash inside.                             *)
Lines == {<<>>, <<"a">>, <<"/">>, <<"/", "a">>, <<"a", "/">>, <<"/", "/">>, <<"/", "a", "/">>,
          <<"/", "a", "/", "i">>, <<"/", "a", "/", "i", "s">>, <<"/", "a", "/", "z">>,
          <<"/", "b", "/", "a", "/", "m">>, <<"a", "/", "b", "/", "i">>}

(* Two lines of which either may be skipped, strange or refused, and three,  *)
(* more than the limit of one call.                                          *)
Pairs == {<<"/">>, <<"/", "a", "/", "i">>, <<"/", "a", "/", "z">>, <<"a", "/", "b", "/", "i">>}
           \X {<<"/", "b", "/", "H">>, <<"/", "b", "/", "z">>, <<"b">>}
Triples == {<<l, m, m>> : l, m \in {<<"/", "a", "/">>, <<"/", "b", "/", "z">>}}

MCRuleFiles == {<<>>} \cup {<<l>> : l \in Lines} \cup Pairs \cup Triples
MCOldRules  == <<[expr |-> <<"c">>, flags |-> {}, id |-> 0]>>
MCSymbols   == Seq({"/", "a", "b", "c", "i", "m", "s", "z", "H"}) \X SUBSET Flags

(* What the rules may become: nothing; a node that does not report, one that *)
(* does, of either rule; a node that leads to one that reports at the end;   *)
(* two that report; and the nodes of two rules in mixed orders.              *)
N(of, enable, report, reportEnable) ==
  [of |-> of, enable |-> enable, report |-> report, reportEnable |-> reportEnable]
Reporting(of) == N(of, "ON_ACTIVATE_IN", TRUE, "ALWAYS")
AtEnd(of)     == N(of, "ON_ACTIVATE_IN", TRUE, "ON_LAST")
Both(of)      == N(of, "ON_START_AND_ACTIVATE_IN", TRUE, "ALWAYS")
Leading(of)   == N(of, "ALWAYS", FALSE, "ALWAYS")
Shape(nodes, sinks) == [nodes |-> nodes, sinks |-> sinks]

MCShapes ==
  {Shape(<<>>, <<>>), Shape(<<Leading(1)>>, <<{1}>>)}
    \cup {Shape(<<Both(n)>>, <<{}>>) : n \in 1..2}
    \cup {Shape(<<AtEnd(1), Leading(1)>>, <<{}, {1}>>),
          Shape(<<Both(1), Both(1)>>, <<{2}, {}>>),
          Shape(<<Both(2), Leading(1), AtEnd(1)>>, <<{}, {3}, {}>>),
          Shape(<<Leading(2), Leading(1), Reporting(1), AtEnd(2)>>, <<{4}, {3}, {3}, {}>>)}
=============================================================================

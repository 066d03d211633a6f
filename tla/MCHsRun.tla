------------------------------ MODULE MCHsRun -------------------------------
(* Instances of HsRun for TLC.                                             *)
EXTENDS HsRun

(* Names of databases, .hs which is too short for one, and an input. *)
A == <<"a", ".", "h", "s">>
B == <<"b", ".", "h", "s">>
DOT_HS == <<".", "h", "s">>
LOGS == <<"l", "o", "g", "s">>

(* Three databases and two inputs. *)
Large == {<<A, LOGS, B, DOT_HS, B>>, <<A, LOGS, SUPPORT, T, <<"2">>, B, DOT_HS, B>>}

Args == {T, SUPPORT, A, DOT_HS, LOGS}
MCCommandLines == Large \cup UNION {[1..n -> Args] : n \in 0..4}
OneOfEach == {<<A, LOGS>>, <<SUPPORT, A, LOGS>>}
=============================================================================

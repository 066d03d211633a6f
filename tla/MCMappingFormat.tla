-------------------------- MODULE MCMappingFormat ---------------------------
(* Instances of MappingFormat for TLC: bytes of three values, so that an   *)
(* unsigned int holds 0 .. 80 and two long entries do not fit.             *)
EXTENDS MappingFormat

Short == <<2>>
Long  == [k \in 1..20 |-> 1 + (k % 2)]

MCNames   == {<<>>, Short, Long}
MCMapIds  == {0, 1, 80}
MCDbBytes == <<0, 2>>
=============================================================================

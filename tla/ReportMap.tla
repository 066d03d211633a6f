----------------------------- MODULE ReportMap ------------------------------
(***************************************************************************)
(* The report map of ht.h: a hash table from report ids to the id and the  *)
(* report code of an MNRL node.  The table iterates in insertion order, so *)
(* a map is the sequence of its entries in that order.                     *)
(***************************************************************************)
EXTENDS Integers, Sequences

EmptyMap == <<>>

(* The positions of the entries with this id: HASH_FIND_INT. *)
Positions(map, id) == {k \in DOMAIN map : map[k].id = id}

Entry(id, name, report) == [id |-> id, name |-> name, report |-> report]

insert_mapping_duplicating(map, id, name, report) ==  \* mutant: no lookup first
  Append(map, Entry(id, name, report))

(* An id that is present keeps its place and changes its strings. *)
insert_mapping(map, id, name, report) ==
  IF Positions(map, id) = {}
  THEN Append(map, Entry(id, name, report))
  ELSE [k \in DOMAIN map |->
          IF map[k].id = id THEN Entry(id, name, report) ELSE map[k]]

(* find_mapping returns an entry: NULL when Positions is empty. *)
IsMapped(map, id)     == Positions(map, id) # {}
find_mapping(map, id) == map[CHOOSE k \in Positions(map, id) : TRUE]

count_mapping(map) == Len(map)

-----------------------------------------------------------------------------
(* What the two programs need of a map that hscompile wrote.               *)

MapOver(Id, Name, Report) == Seq([id : Id, name : Name, report : Report])

(* HASH_FIND_INT finds the one entry an id has. *)
UniqueIds(map) == \A j, k \in DOMAIN map : map[j].id = map[k].id => j = k

(* The ids are 0 .. count - 1: hsrun indexes its supports with them, and    *)
(* looks every number below the count up without testing for NULL.          *)
DenseIds(map) == {map[k].id : k \in DOMAIN map} = 0..(count_mapping(map) - 1)
=============================================================================

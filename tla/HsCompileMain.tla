---------------------------- MODULE HsCompileMain ---------------------------
(***************************************************************************)
(* main of hscompile (src/hscompile.c): one call of hs_compile_mnrl, the   *)
(* report map and the database serialized, and only then the output opened *)
(* and written.  The call is the one step of its contract; a file is a     *)
(* sequence of units, each the header or an entry of the map or a part of  *)
(* the database.                                                           *)
(***************************************************************************)
EXTENDS Automaton, ReportMap

CONSTANT Loaded(_)  \* the networks loadMNRL may make of a file; none: it throws

NoUnits == <<>>     \* a file that does not exist is not told from an empty one

VARIABLES
  mnrl,         \* the file at argv[1]
  pc,
  network, outcome, database, compile_err, report_map,  \* the call, by its contract
  mapping_out,  \* the serialized map
  compiled,     \* the file at argv[2]
  at,           \* the position of the open file
  lost,         \* history: a write or the close did not put everything on the disk
  code          \* exit code; -1 before the exit, -2 after a crash

call == <<network, outcome, database, compile_err, report_map>>
vars == <<mnrl, pc, call, mapping_out, compiled, at, lost, code>>

Compilation == INSTANCE CompileContract WITH
  args <- [db |-> TRUE, comp_error |-> TRUE], db <- database, comp_error <- compile_err

Init ==
  /\ Compilation!Init
  /\ pc = "compile"
  /\ mapping_out = NoUnits
  /\ at = 0
  /\ lost = FALSE
  /\ code = -1

Exit(status) == pc' = "exited" /\ code' = status

-----------------------------------------------------------------------------
(* The format of the file: the header says how many entries follow, and so  *)
(* where the database begins.                                               *)
MapUnits_OneLess(map) ==  \* mutant: an entry is not counted
  <<<<"header", Len(map) - 1>>>> \o [k \in DOMAIN map |-> <<"entry", map[k]>>]

MapUnits(map) == <<<<"header", Len(map)>>>> \o [k \in DOMAIN map |-> <<"entry", map[k]>>]
DbUnits(graph) == <<<<"db", 1, graph>>, <<"db", 2, graph>>>>

Prefixes(units) == {SubSeq(units, 1, n) : n \in 0..Len(units)}

-----------------------------------------------------------------------------
hs_compile_mnrl ==
  /\ pc = "compile"
  /\ \E net \in Loaded(mnrl) : Compilation!CompileTo(net)
  /\ pc' = "map"
  /\ UNCHANGED <<mnrl, mapping_out, compiled, at, lost, code>>

(* The message of the error is printed, and nobody looks at the map. *)
CompileFails ==
  /\ pc = "compile"
  /\ compile_err' \in {"compile", "mnrl", "enomem", "einternal"}
  /\ database' = Compilation!Db("null", EmptyGraph)
  /\ report_map' = report_map
  /\ Compilation!Fail
  /\ Exit(2)
  /\ UNCHANGED <<mnrl, mapping_out, compiled, at, lost>>

(* exit(1) in the library, or an exception nobody catches. *)
CompileStops ==
  /\ pc = "compile"
  /\ Compilation!Stop
  /\ \E status \in {1, -2} : Exit(status)
  /\ UNCHANGED <<mnrl, mapping_out, compiled, at, lost>>

serialize_mapping_opening ==  \* mutant: the file is opened before all is serialized
  /\ pc = "map"
  /\ mapping_out' = MapUnits(report_map)
  /\ compiled' = NoUnits
  /\ pc' = "database"
  /\ UNCHANGED <<mnrl, call, at, lost, code>>

serialize_mapping ==
  /\ pc = "map"
  /\ mapping_out' = MapUnits(report_map)
  /\ pc' = "database"
  /\ UNCHANGED <<mnrl, call, compiled, at, lost, code>>

SerializeDatabase ==
  /\ pc = "database"
  /\ pc' = "open"
  /\ UNCHANGED <<mnrl, call, mapping_out, compiled, at, lost, code>>

(* The message is read from compile_err, where the call left a null pointer. *)
SerializeDatabaseFails ==
  /\ pc = "database"
  /\ Exit(IF compile_err \in {"unset", "null"} THEN -2 ELSE 3)
  /\ UNCHANGED <<mnrl, call, mapping_out, compiled, at, lost>>

Open_KeepingContent ==  \* mutant: "r+b" instead of "wb"
  /\ pc = "open"
  /\ pc' = "write_map"
  /\ UNCHANGED <<mnrl, call, mapping_out, compiled, at, lost, code>>

(* fopen with "wb" empties the file. *)
Open ==
  /\ pc = "open"
  /\ compiled' = NoUnits
  /\ pc' = "write_map"
  /\ UNCHANGED <<mnrl, call, mapping_out, at, lost, code>>

OpenFails ==
  /\ pc = "open"
  /\ Exit(4)
  /\ UNCHANGED <<mnrl, call, mapping_out, compiled, at, lost>>

(* One fwrite: some of it may not reach the file, and the result is not      *)
(* looked at.                                                                *)
Write(units) ==
  \E part \in Prefixes(units) :
    /\ compiled' = SubSeq(compiled, 1, at) \o part
                     \o SubSeq(compiled, at + Len(part) + 1, Len(compiled))
    /\ at' = at + Len(part)
    /\ lost' = (lost \/ part # units)

WriteMap ==
  /\ pc = "write_map"
  /\ Write(mapping_out)
  /\ pc' = "write_db"
  /\ UNCHANGED <<mnrl, call, mapping_out, code>>

WriteDb ==
  /\ pc = "write_db"
  /\ Write(DbUnits(database.graph))
  /\ pc' = "close"
  /\ UNCHANGED <<mnrl, call, mapping_out, code>>

(* fclose flushes what stdio still held back: the end of the file may be     *)
(* missing, and nothing looks at that either.                                *)
Close ==
  /\ pc = "close"
  /\ compiled' \in Prefixes(compiled)
  /\ lost' = (lost \/ compiled' # compiled)
  /\ Exit(0)
  /\ UNCHANGED <<mnrl, call, mapping_out, at>>

Next ==
  \/ hs_compile_mnrl \/ CompileFails \/ CompileStops
  \/ serialize_mapping \/ SerializeDatabase \/ SerializeDatabaseFails
  \/ Open \/ OpenFails
  \/ WriteMap \/ WriteDb \/ Close
=============================================================================

---------------------------- MODULE MappingFormat ---------------------------
(***************************************************************************)
(* serialize_mapping and unserialize_mapping (ht.h): hscompile writes the  *)
(* report map in front of the serialized database, and hsrun reads the map *)
(* back and takes what follows it for the database.                        *)
(*                                                                         *)
(* A byte has Base values instead of 256, so that the widths of unsigned   *)
(* int and size_t (4 and 8 bytes) are within reach of a small map.         *)
(***************************************************************************)
EXTENDS Integers, Sequences, SequencesExt, ReportMap

CONSTANTS
  Base,        \* values of a byte
  Names,       \* names and report codes, as strings of non-zero bytes
  MapIds,      \* report ids
  MaxInserts,  \* bound: the most calls of insert_mapping
  DbBytes      \* the serialized database

UIntBytes == 4
SizeBytes == 8
Byte      == 0..(Base - 1)

(* What the byte before the last n bytes counts for, and what n bytes hold. *)
Place[n \in 0..SizeBytes] == IF n = 0 THEN 1 ELSE Base * Place[n - 1]
UIntSpace == Place[UIntBytes]

ASSUME BaseAssumption  == Base \in Nat /\ Base > 1
ASSUME NamesAssumption == Names \subseteq Seq(Byte \ {0})
ASSUME IdsAssumption   == MapIds \subseteq 0..(UIntSpace - 1) /\ MaxInserts \in 0..(UIntSpace - 2)
ASSUME DbAssumption    == DbBytes \in Seq(Byte)

(* Memory that malloc or realloc returned and nothing was written to. *)
UNWRITTEN == -1

VARIABLES
  pc,
  map,      \* the map that is written
  outstr,   \* the buffer it is serialized into, then the file
  size,     \* *size
  next,     \* the next entry HASH_ITER visits, or the next one to read
  num_entries, loc, ht  \* unserialize_mapping: count, position, map read back

reading == <<num_entries, loc, ht>>
vars    == <<pc, map, outstr, size, next, reading>>

Init ==
  /\ pc = "insert"
  /\ map = EmptyMap
  /\ outstr = <<>> /\ size = 0 /\ next = 1
  /\ num_entries = 0 /\ loc = 0 /\ ht = EmptyMap

-----------------------------------------------------------------------------
(* The bytes of a number, most significant first, and the number of bytes. *)

Bytes(x, n)   == [k \in 1..n |-> (x \div Place[n - k]) % Base]
Number(bytes) == FoldLeft(LAMBDA x, b : x * Base + b, 0, bytes)

(* bytes written from offset on; what falls outside is lost. *)
WriteAt(buffer, offset, bytes) ==
  [k \in DOMAIN buffer |->
     IF k - offset \in DOMAIN bytes THEN bytes[k - offset] ELSE buffer[k]]

ReadAt(offset, n) == SubSeq(outstr, offset + 1, offset + n)
(* These bytes lie in the file and were written. *)
Readable(offset, n) ==
  \A k \in (offset + 1)..(offset + n) : k \in DOMAIN outstr /\ outstr[k] # UNWRITTEN
UIntAt(offset) == Number(ReadAt(offset, UIntBytes))

-----------------------------------------------------------------------------
(* The caller fills the map; the bound is MaxInserts entries and, with       *)
(* replaced ones, as many calls.                                             *)
Insert(id, name, report) ==
  /\ pc = "insert"
  /\ next <= MaxInserts
  /\ map' = insert_mapping(map, id, name, report)
  /\ next' = next + 1
  /\ UNCHANGED <<pc, outstr, size, reading>>

SerializeCount ==
  /\ pc = "insert"
  /\ pc' = "entries"
  /\ size' = UIntBytes
  /\ outstr' = Bytes(count_mapping(map), UIntBytes)
  /\ next' = 1
  /\ UNCHANGED <<map, reading>>

EntrySize_WithNul(e) ==  \* mutant: the terminators are counted
  3 * UIntBytes + Len(e.name) + 1 + Len(e.report) + 1

EntrySize(e) == 3 * UIntBytes + Len(e.name) + Len(e.report)
Grown(n) == outstr \o [k \in 1..n |-> UNWRITTEN]

(* One iteration of HASH_ITER: realloc, then the id, the length and bytes   *)
(* of the name, the length and bytes of the report.  The offset is kept in   *)
(* an unsigned int, so it wraps where the size does not.                     *)
SerializeEntry ==
  /\ pc = "entries"
  /\ next <= count_mapping(map)
  /\ LET e == map[next]
         at_id == size % UIntSpace
         at_name_length == (at_id + UIntBytes) % UIntSpace
         at_name == (at_name_length + UIntBytes) % UIntSpace
         at_report_length == (at_name + Len(e.name)) % UIntSpace
         at_report == (at_report_length + UIntBytes) % UIntSpace
         b1 == WriteAt(Grown(EntrySize(e)), at_id, Bytes(e.id, UIntBytes))
         b2 == WriteAt(b1, at_name_length, Bytes(Len(e.name), UIntBytes))
         b3 == WriteAt(b2, at_name, e.name)
         b4 == WriteAt(b3, at_report_length, Bytes(Len(e.report), UIntBytes))
     IN outstr' = WriteAt(b4, at_report, e.report)
  /\ size' = size + EntrySize(map[next])
  /\ next' = next + 1
  /\ UNCHANGED <<pc, map, reading>>

SerializeSize_OfEntries ==  \* mutant: the size does not count itself
  /\ pc = "entries"
  /\ next > count_mapping(map)
  /\ size' = size + SizeBytes
  /\ outstr' = Bytes(size, SizeBytes) \o outstr \o DbBytes
  /\ pc' = "header"
  /\ UNCHANGED <<map, next, reading>>

(* The size is put in front, itself included; main writes the database next. *)
SerializeSize ==
  /\ pc = "entries"
  /\ next > count_mapping(map)
  /\ size' = size + SizeBytes
  /\ outstr' = Bytes(size', SizeBytes) \o outstr \o DbBytes
  /\ pc' = "header"
  /\ UNCHANGED <<map, next, reading>>

-----------------------------------------------------------------------------
(* unserialize_mapping; hsrun takes the file from size on for the database.  *)
UnserializeHeader ==
  /\ pc = "header"
  /\ pc' = "read"
  /\ size' = Number(ReadAt(0, SizeBytes))
  /\ num_entries' = UIntAt(SizeBytes)
  /\ loc' = SizeBytes + UIntBytes
  /\ next' = 1
  /\ UNCHANGED <<map, outstr, ht>>

(* The entry at a position, and where the next one starts. *)
EntryAt_Swapped(at) ==  \* mutant: the two strings are taken in the wrong order
  LET name   == at + 2 * UIntBytes
      report == name + UIntAt(at + UIntBytes) + UIntBytes
      len    == UIntAt(report - UIntBytes)
  IN [id |-> UIntAt(at), name |-> ReadAt(report, len),
      report |-> ReadAt(name, UIntAt(at + UIntBytes)), end |-> (report + len) % UIntSpace]

EntryAt(at) ==
  LET name   == at + 2 * UIntBytes
      report == name + UIntAt(at + UIntBytes) + UIntBytes
      len    == UIntAt(report - UIntBytes)
  IN [id |-> UIntAt(at), name |-> ReadAt(name, UIntAt(at + UIntBytes)),
      report |-> ReadAt(report, len), end |-> (report + len) % UIntSpace]

(* The two lengths, then what they measure, can be read. *)
EntryReadable ==
  LET name == loc + 2 * UIntBytes
      len  == UIntAt(loc + UIntBytes)
  IN /\ Readable(loc, 2 * UIntBytes)
     /\ Readable(name, len + UIntBytes)
     /\ Readable(name + len + UIntBytes, UIntAt(name + len))

(* One iteration of the loop. *)
UnserializeEntry ==
  /\ pc = "read"
  /\ next <= num_entries
  /\ IF EntryReadable
     THEN LET e == EntryAt(loc)
          IN /\ ht' = insert_mapping(ht, e.id, e.name, e.report)
             /\ loc' = e.end
             /\ next' = next + 1
             /\ UNCHANGED <<pc, map, outstr, size, num_entries>>
     ELSE /\ pc' = "overrun"
          /\ UNCHANGED <<map, outstr, size, next, reading>>

UnserializeDone ==
  /\ pc = "read"
  /\ next > num_entries
  /\ pc' = "done"
  /\ UNCHANGED <<map, outstr, size, next, reading>>

Finished   == pc \in {"done", "overrun"}
Terminated == Finished /\ UNCHANGED vars

Next ==
  \/ \E id \in MapIds, name, report \in Names : Insert(id, name, report)
  \/ SerializeCount \/ SerializeEntry \/ SerializeSize
  \/ UnserializeHeader \/ UnserializeEntry \/ UnserializeDone
  \/ Terminated

Spec == Init /\ [][Next]_vars
-----------------------------------------------------------------------------
(* Properties                                                              *)

(* The size of the serialized form, and whether an unsigned int can hold it: *)
(* whatever is larger is written over its own beginning.                     *)
FormSize == SizeBytes + UIntBytes
              + FoldLeft(LAMBDA n, e : n + EntrySize(e), 0, map)
Fits == FormSize < UIntSpace

TypeOK ==
  /\ pc \in {"insert", "entries", "header", "read", "done", "overrun"}
  /\ map \in MapOver(MapIds, Names, Names)
  /\ outstr \in Seq(Byte \cup {UNWRITTEN})
  /\ size \in Nat
  /\ next \in 1..UIntSpace
  /\ num_entries \in 0..(UIntSpace - 1) /\ loc \in 0..(UIntSpace - 1)
  /\ UniqueIds(map) /\ UniqueIds(ht)

(* hsrun gets back the map hscompile had, entry by entry and in the same     *)
(* order, and what it takes for the database is the database.                *)
RoundTrip ==
  pc = "done" /\ Fits =>
    /\ ht = map
    /\ SubSeq(outstr, size + 1, Len(outstr)) = DbBytes

(* unserialize_mapping is given no length and checks no bound.  On a file of *)
(* hscompile whose map fits the width of the offset it reads no byte past    *)
(* the map, and none that was not written.                                   *)
ReadsStayInTheMap == Fits => pc # "overrun" /\ (pc = "read" => loc <= size)

(* After each entry the buffer is full up to the size: serialize_mapping     *)
(* leaves no gap and writes nothing twice.                                   *)
BufferIsFull ==
  pc = "entries" /\ Fits =>
    /\ Len(outstr) = size
    /\ \A k \in 1..size : outstr[k] # UNWRITTEN
=============================================================================

------------------------------- MODULE HsRun --------------------------------
(***************************************************************************)
(* main of hsrun (src/hsrun.c): the arguments are sorted into databases    *)
(* and inputs, each of them is loaded, a context is stored for each pair   *)
(* of a database and an input, every context is scanned, and what was      *)
(* found is printed as it is found or, with --support, as a count for each *)
(* report at the end.                                                      *)
(*                                                                         *)
(* What malloc and Hyperscan hand out is kept as a set of live objects.    *)
(* Loading, deserializing, allocating and scanning may each fail.  The     *)
(* database files are ones hscompile wrote: the ids of a report map are    *)
(* 0 .. count - 1 and the database reports with no others.                 *)
(***************************************************************************)
EXTENDS Integers, FiniteSets, Sequences

CONSTANTS
  CommandLines,  \* argv without the program: sequences of sequences of characters
  MaxReports,    \* bound: the most entries of a report map
  CounterSpace,  \* values of a support counter, an unsigned int: 2^32
  MaxMatches     \* bound: the most matches of one report

ASSUME BoundsAssumption == /\ MaxReports \in Nat /\ MaxMatches \in Nat
                           /\ CounterSpace \in Nat \ {0}
ASSUME CommandLinesAssumption == CommandLines \subseteq Seq(Seq(STRING))

VARIABLES
  command,    \* history: the command line
  argv,       \* the arguments not looked at yet
  support,    \* --support was given
  db_fns, input_fns,  \* the names of the files
  pc,
  i, j,       \* loop counters: databases, inputs; i also counts contexts
  count,      \* count_mapping of each report map
  contexts,   \* the context stored for each pair, by its index
  counts,     \* the support arrays
  live,       \* objects that are allocated
  misfreed,   \* objects freed twice, or when they were not live
  plain_freed,  \* Hyperscan's objects that were given to free, not to its own functions
  code,       \* exit code; -1 before the exit, -2 after a crash
  garbage,    \* history: what malloc left in the support arrays
  delivered,  \* history: the matches Hyperscan reported
  scanned,    \* history: how often each pair was scanned
  printed     \* lines or count printed for each report

NumDbs    == Len(db_fns)
NumInputs == Len(input_fns)

Dbs     == 0..(NumDbs - 1)
Inputs  == 0..(NumInputs - 1)
Counter == 0..(CounterSpace - 1)
(* A report: a database and an id of its report map. *)
Reports == Dbs \X (0..(MaxReports - 1))

(* The objects on the heap. *)
Input(k)      == <<"inputData", k, 0>>
Serialized(k) == <<"hsmSer", k, 0>>
RMap(k)       == <<"report_map", k, 0>>
Database(k)   == <<"database", k, 0>>
Supports(k)   == <<"support", k, 0>>
Prototype(k)  == <<"db_scratch", k, 0>>
Scratch(k, m) == <<"scratch", k, m>>

Objects == {Input(k) : k \in Inputs}
  \cup (UNION {{Serialized(k), RMap(k), Database(k), Supports(k), Prototype(k)} : k \in Dbs})
  \cup {Scratch(k, m) : k \in Dbs, m \in Inputs}

NumContexts == NumDbs * NumInputs

command_line == <<command, argv, support, db_fns, input_fns>>
loading == <<count, contexts, counts, garbage>>
frees   == <<misfreed, plain_freed>>
output  == <<delivered, scanned, printed>>
vars    == <<command_line, pc, i, j, loading, live, frees, code, output>>

Init ==
  /\ command \in CommandLines
  /\ argv = command
  /\ support = FALSE
  /\ db_fns = <<>> /\ input_fns = <<>>
  /\ pc = "argc"
  /\ i = 0 /\ j = 0
  /\ count = <<>> /\ contexts = <<>> /\ counts = <<>> /\ garbage = <<>>
  /\ live = {} /\ misfreed = {} /\ plain_freed = {}
  /\ code = -1
  /\ delivered = <<>> /\ scanned = <<>> /\ printed = <<>>

(* main returns, having freed the objects of freed: those of again twice,   *)
(* and those of plain by free, though Hyperscan has a function of its own.  *)
Exit(status, freed, again, plain) ==
  /\ pc' = "exited"
  /\ code' = status
  /\ live' = live \ freed
  /\ misfreed' = misfreed \cup (freed \ live) \cup again
  /\ plain_freed' = plain_freed \cup plain
  /\ UNCHANGED <<command_line, i, j, loading, output>>

Crash ==
  /\ pc' = "exited"
  /\ code' = -2
  /\ UNCHANGED <<command_line, i, j, loading, live, frees, output>>

-----------------------------------------------------------------------------
(* The arguments.                                                          *)

T       == <<"-", "t">>
SUPPORT == <<"-", "-", "s", "u", "p", "p", "o", "r", "t">>

(* Four characters or more, of which the last three are .hs *)
IsDb(arg) == Len(arg) >= 4 /\ SubSeq(arg, Len(arg) - 2, Len(arg)) = <<".", "h", "s">>

CheckArgc ==
  /\ pc = "argc"
  /\ \/ Len(argv) < 2 /\ Exit(1, {}, {}, {})
     \/ /\ Len(argv) >= 2
        /\ pc' = "args"
        /\ UNCHANGED <<command_line, i, j, loading, live, frees, code, output>>

AtArg == pc = "args" /\ argv # <<>>

(* The number that follows is taken for one whatever it is. Nothing follows  *)
(* the last argument but a null pointer, which atoi follows.                 *)
Threads ==
  /\ AtArg /\ Head(argv) = T
  /\ \/ Tail(argv) = <<>> /\ Crash
     \/ /\ Tail(argv) # <<>>
        /\ argv' = Tail(Tail(argv))
        /\ UNCHANGED <<command, support, db_fns, input_fns, pc, i, j, loading, live, frees,
                       code, output>>

Support ==
  /\ AtArg /\ Head(argv) = SUPPORT
  /\ support' = TRUE
  /\ argv' = Tail(argv)
  /\ UNCHANGED <<command, db_fns, input_fns, pc, i, j, loading, live, frees, code, output>>

File_Prepending ==  \* mutant: a file goes to the front of its list
  /\ AtArg /\ Head(argv) \notin {T, SUPPORT}
  /\ IF IsDb(Head(argv))
     THEN db_fns' = <<Head(argv)>> \o db_fns /\ UNCHANGED input_fns
     ELSE input_fns' = <<Head(argv)>> \o input_fns /\ UNCHANGED db_fns
  /\ argv' = Tail(argv)
  /\ UNCHANGED <<command, support, pc, i, j, loading, live, frees, code, output>>

File ==
  /\ AtArg /\ Head(argv) \notin {T, SUPPORT}
  /\ IF IsDb(Head(argv))
     THEN db_fns' = Append(db_fns, Head(argv)) /\ UNCHANGED input_fns
     ELSE input_fns' = Append(input_fns, Head(argv)) /\ UNCHANGED db_fns
  /\ argv' = Tail(argv)
  /\ UNCHANGED <<command, support, pc, i, j, loading, live, frees, code, output>>

(* The arrays for the contexts and for what has to be freed get their sizes. *)
ArgsDone ==
  /\ pc = "args" /\ argv = <<>>
  /\ \/ (NumDbs = 0 \/ NumInputs = 0) /\ Exit(45, {}, {}, {})
     \/ /\ NumDbs # 0 /\ NumInputs # 0
        /\ pc' = "inputs"
        /\ count' = [k \in Dbs |-> 0]
        /\ delivered' = [r \in Reports |-> 0]
        /\ scanned' = [p \in Dbs \X Inputs |-> 0]
        /\ printed' = [r \in Reports |-> 0]
        /\ UNCHANGED <<command_line, i, j, contexts, counts, garbage, live, frees, code>>

-----------------------------------------------------------------------------
(* Loading.                                                                *)

ReadInput ==
  /\ pc = "inputs" /\ j < NumInputs
  /\ live' = live \cup {Input(j)}
  /\ j' = j + 1
  /\ UNCHANGED <<command_line, pc, i, loading, frees, code, output>>

ReadInputFails ==
  /\ pc = "inputs" /\ j < NumInputs
  /\ Exit(4, {Input(k) : k \in 0..(j - 1)}, {}, {})

InputsDone ==
  /\ pc = "inputs" /\ j = NumInputs
  /\ pc' = "read"
  /\ UNCHANGED <<command_line, i, j, loading, live, frees, code, output>>

(* The file is read and its report map, of this many entries, rebuilt. *)
ReadDb(entries) ==
  /\ pc = "read" /\ i < NumDbs
  /\ pc' = "deserialize"
  /\ live' = live \cup {Serialized(i), RMap(i)}
  /\ count' = [count EXCEPT ![i] = entries]
  /\ UNCHANGED <<command_line, i, j, contexts, counts, garbage, frees, code, output>>

(* Nothing is freed: not the inputs, nor what the earlier databases hold.   *)
ReadDbFails ==
  /\ pc = "read" /\ i < NumDbs
  /\ Exit(2, {}, {}, {})

(* What every later failure frees: all inputs, and for each database before *)
(* this one the database, its supports, its report map and its scratches.   *)
AllInputs == {Input(k) : k \in Inputs}
SupportsOf(k) == IF support THEN {Supports(k)} ELSE {}
ScratchesOf(k) == {Scratch(k, m) : m \in Inputs}
Earlier == UNION {{Database(k), RMap(k)} \cup SupportsOf(k) : k \in 0..(i - 1)}
EarlierScratches == UNION {ScratchesOf(k) : k \in 0..(i - 1)}
EarlierDatabases == {Database(k) : k \in 0..(i - 1)}

DeserializeFails_KeepingInputs ==  \* mutant: the inputs are forgotten
  /\ pc = "deserialize"
  /\ \/ Exit(3, {Serialized(i), RMap(i)} \cup Earlier \cup EarlierScratches,
                {}, EarlierDatabases \cup EarlierScratches)
     \/ Crash

(* The message is read through compile_err, which nothing has assigned.  If *)
(* that does not crash, everything is freed; the earlier databases and the  *)
(* scratches go to free, not to hs_free_database and hs_free_scratch.       *)
DeserializeFails ==
  /\ pc = "deserialize"
  /\ \/ Exit(3, {Serialized(i), RMap(i)} \cup AllInputs \cup Earlier \cup EarlierScratches,
                {}, EarlierDatabases \cup EarlierScratches)
     \/ Crash

(* With --support an array is allocated for the reports, and not cleared. *)
SupportArray(left) ==
  /\ counts'  = [r \in DOMAIN counts \cup {<<i, k>> : k \in 0..(count[i] - 1)} |->
                   IF r \in DOMAIN counts THEN counts[r] ELSE left[r[2]]]
  /\ garbage' = [r \in DOMAIN counts' |-> IF r[1] = i THEN counts'[r] ELSE garbage[r]]

Deserialize(left) ==
  /\ pc = "deserialize"
  /\ pc' = "alloc"
  /\ live' = live \cup {Database(i)} \cup SupportsOf(i)
  /\ IF support THEN SupportArray(left) ELSE UNCHANGED <<counts, garbage>>
  /\ UNCHANGED <<command_line, i, j, count, contexts, frees, code, output>>

AllocScratch ==
  /\ pc = "alloc"
  /\ pc' = "clone"
  /\ live' = live \cup {Prototype(i)}
  /\ j' = 0
  /\ UNCHANGED <<command_line, i, loading, frees, code, output>>

AllocScratchFails ==
  /\ pc = "alloc"
  /\ Exit(5, {Serialized(i), RMap(i), Database(i)} \cup AllInputs \cup SupportsOf(i)
               \cup Earlier \cup EarlierScratches,
             {}, EarlierDatabases \cup EarlierScratches)

Context(k, m) == [database |-> Database(k), report_map |-> RMap(k),
                  scratch |-> Scratch(k, m), inputData |-> Input(m),
                  counts |-> Supports(k), db_off |-> k, inp_off |-> m]

StoreAt(index) ==
  contexts' = [x \in DOMAIN contexts \cup {index} |->
                 IF x = index THEN Context(i, j) ELSE contexts[x]]

CloneScratch_ByDbs ==  \* mutant: the row length is the number of databases
  /\ pc = "clone" /\ j < NumInputs
  /\ live' = live \cup {Scratch(i, j)}
  /\ StoreAt(i * NumDbs + j)
  /\ j' = j + 1
  /\ UNCHANGED <<command_line, pc, i, count, counts, garbage, frees, code, output>>

CloneScratch ==
  /\ pc = "clone" /\ j < NumInputs
  /\ live' = live \cup {Scratch(i, j)}
  /\ StoreAt(i * NumInputs + j)
  /\ j' = j + 1
  /\ UNCHANGED <<command_line, pc, i, count, counts, garbage, frees, code, output>>

(* inputData is freed, and is also one of inputs_to_delete: where free does *)
(* not abort, it is freed twice.  This database's scratches stay behind.    *)
CloneScratchFails ==
  /\ pc = "clone" /\ j < NumInputs
  /\ \/ Exit(7, {Serialized(i), RMap(i), Database(i)} \cup AllInputs \cup SupportsOf(i)
                  \cup Earlier \cup EarlierScratches,
                {Input(j)}, EarlierDatabases \cup EarlierScratches)
     \/ Crash

DbDone_ClosingDatabase ==  \* mutant: hs_free_database is not commented out
  /\ pc = "clone" /\ j = NumInputs
  /\ pc' = "read"
  /\ i' = i + 1
  /\ live' = live \ {Serialized(i), Prototype(i), Database(i)}
  /\ UNCHANGED <<command_line, j, loading, frees, code, output>>

DbDone ==
  /\ pc = "clone" /\ j = NumInputs
  /\ pc' = "read"
  /\ i' = i + 1
  /\ live' = live \ {Serialized(i), Prototype(i)}
  /\ UNCHANGED <<command_line, j, loading, frees, code, output>>

DbsDone ==
  /\ pc = "read" /\ i = NumDbs
  /\ pc' = "scan"
  /\ i' = 0
  /\ UNCHANGED <<command_line, j, loading, live, frees, code, output>>

-----------------------------------------------------------------------------
(* Scanning: one context after the other (the OpenMP pragma is commented   *)
(* out).  hs_scan calls the handler for each match before it returns.      *)

Scanning == pc = "scan" /\ i < NumContexts
ctx == contexts[i]

(* The report of ctx's database with this id; its map holds the id. *)
ReportOf(id) == <<ctx.db_off, id>>
Delivers(id) ==
  /\ Scanning
  /\ id < count[ctx.db_off]
  /\ delivered[ReportOf(id)] < MaxMatches
  /\ delivered' = [delivered EXCEPT ![ReportOf(id)] = @ + 1]

(* eventHandler: a line with the name and the report code of the id in the  *)
(* context's report map; the handler returns 0 and the scan goes on.        *)
eventHandler(id) ==
  /\ ~support
  /\ Delivers(id)
  /\ printed' = [printed EXCEPT ![<<ctx.report_map[2], id>>] = @ + 1]
  /\ UNCHANGED <<command_line, pc, i, j, loading, live, frees, code, scanned>>

supportEventHandler_Saturating(id) ==  \* mutant: the counter stops at its limit
  /\ support
  /\ Delivers(id)
  /\ counts' = [counts EXCEPT ![<<ctx.counts[2], id>>] =
                  IF @ = CounterSpace - 1 THEN @ ELSE @ + 1]
  /\ UNCHANGED <<command_line, pc, i, j, count, contexts, garbage, live, frees, code,
                 scanned, printed>>

(* supportEventHandler: support[id]++ in the context's array. *)
supportEventHandler(id) ==
  /\ support
  /\ Delivers(id)
  /\ counts' = [counts EXCEPT ![<<ctx.counts[2], id>>] = (@ + 1) % CounterSpace]
  /\ UNCHANGED <<command_line, pc, i, j, count, contexts, garbage, live, frees, code,
                 scanned, printed>>

ScanReturns_StoppingOnError ==  \* mutant: the first failure ends the scans
  /\ Scanning
  /\ scanned' = [scanned EXCEPT ![<<ctx.db_off, ctx.inp_off>>] = @ + 1]
  /\ i' \in {i + 1, NumContexts}
  /\ UNCHANGED <<command_line, pc, j, loading, live, frees, code, delivered, printed>>

(* hs_scan returns; when it failed that is only logged. *)
ScanReturns ==
  /\ Scanning
  /\ scanned' = [scanned EXCEPT ![<<ctx.db_off, ctx.inp_off>>] = @ + 1]
  /\ i' = i + 1
  /\ UNCHANGED <<command_line, pc, j, loading, live, frees, code, delivered, printed>>

(* Supports are printed for every number below the count of the map. *)
ScansDone ==
  /\ pc = "scan" /\ i = NumContexts
  /\ pc' = "cleanup"
  /\ printed' = IF support
                THEN [r \in Reports |-> IF r[2] < count[r[1]] THEN counts[r] ELSE 0]
                ELSE printed
  /\ UNCHANGED <<command_line, i, j, loading, live, frees, code, delivered, scanned>>

Cleanup_PerContext ==  \* mutant: supports are freed in the loop over contexts
  /\ pc = "cleanup"
  /\ Exit(0, {contexts[x].scratch : x \in 0..(NumContexts - 1)} \cup AllInputs
               \cup UNION {{Database(k), RMap(k)} \cup SupportsOf(k) : k \in Dbs},
             IF NumInputs > 1 THEN UNION {SupportsOf(k) : k \in Dbs} ELSE {},
             {Database(k) : k \in Dbs})

(* The scratches go to hs_free_scratch, the databases to free. *)
Cleanup ==
  /\ pc = "cleanup"
  /\ Exit(0, {contexts[x].scratch : x \in 0..(NumContexts - 1)} \cup AllInputs
               \cup UNION {{Database(k), RMap(k)} \cup SupportsOf(k) : k \in Dbs},
             {}, {Database(k) : k \in Dbs})

Terminated == pc = "exited" /\ UNCHANGED vars

Next ==
  \/ CheckArgc \/ Threads \/ Support \/ File \/ ArgsDone
  \/ ReadInput \/ ReadInputFails \/ InputsDone
  \/ \E entries \in 0..MaxReports : ReadDb(entries)
  \/ ReadDbFails
  \/ \E left \in [0..(MaxReports - 1) -> Counter] : Deserialize(left)
  \/ DeserializeFails
  \/ AllocScratch \/ AllocScratchFails
  \/ CloneScratch \/ CloneScratchFails
  \/ DbDone \/ DbsDone
  \/ \E id \in 0..(MaxReports - 1) : eventHandler(id) \/ supportEventHandler(id)
  \/ ScanReturns \/ ScansDone
  \/ Cleanup
  \/ Terminated

Spec == Init /\ [][Next]_vars
-----------------------------------------------------------------------------
(* Properties                                                              *)

Phases == {"argc", "args", "inputs", "read", "deserialize", "alloc", "clone", "scan", "cleanup", "exited"}

(* The arguments have been accepted. *)
Loading == pc \notin {"argc", "args"} /\ count # <<>>

TypeOK ==
  /\ support \in BOOLEAN
  /\ pc \in Phases
  /\ i \in 0..NumContexts /\ j \in 0..NumInputs
  /\ Loading => /\ count \in [Dbs -> 0..MaxReports]
                /\ delivered \in [Reports -> 0..MaxMatches]
                /\ scanned \in [Dbs \X Inputs -> Nat]
                /\ printed \in [Reports -> Nat]
  /\ DOMAIN contexts \subseteq 0..(NumContexts - 1)
  /\ \A x \in DOMAIN contexts : \E k \in Dbs, m \in Inputs : contexts[x] = Context(k, m)
  /\ DOMAIN counts \subseteq Reports /\ DOMAIN garbage = DOMAIN counts
  /\ \A r \in DOMAIN counts : counts[r] \in Counter /\ garbage[r] \in Counter
  /\ live \subseteq Objects /\ misfreed \subseteq Objects /\ plain_freed \subseteq Objects
  /\ code \in {-2, -1, 0, 1, 2, 3, 4, 5, 7, 45}

(* The number that belongs to a -t: an odd number of them comes before it.    *)
IsThreads(k) ==
  \E n \in 1..(k - 1) : /\ n % 2 = 1
                        /\ \A l \in (k - n)..(k - 1) : command[l] = T
                        /\ k - n = 1 \/ command[k - n - 1] # T

Option(k) == IsThreads(k) \/ command[k] \in {T, SUPPORT}

(* The arguments at these places, in their order. *)
Listed(places) ==
  [n \in 1..Cardinality(places) |->
     command[CHOOSE k \in places : Cardinality({l \in places : l < k}) = n - 1]]

(* Once loading begins every argument that is neither an option nor its      *)
(* number is in one of the lists, each once and in the order given: the      *)
(* indices of the lists are what contexts, counters and printed names share. *)
EveryFileIsTaken ==
  Loading =>
    LET files == {k \in DOMAIN command : ~Option(k)}
    IN /\ db_fns = Listed({k \in files : IsDb(command[k])})
       /\ input_fns = Listed({k \in files : ~IsDb(command[k])})
       /\ support <=> \E k \in DOMAIN command : command[k] = SUPPORT /\ ~IsThreads(k)

(* Every scan works on memory that is still allocated, and on the counters   *)
(* of the database it scans with: the contexts outlive the buffers, the      *)
(* loops and the failures between their being stored and being used.         *)
ScanUsesLiveObjects ==
  Scanning =>
    /\ i \in DOMAIN contexts
    /\ {ctx.database, ctx.report_map, ctx.scratch, ctx.inputData} \cup SupportsOf(ctx.db_off)
         \subseteq live
    /\ ctx.counts = Supports(ctx.db_off) /\ ctx.report_map = RMap(ctx.db_off)
    /\ support => \A k \in 0..(count[ctx.db_off] - 1) : <<ctx.db_off, k>> \in DOMAIN counts

(* What an exit leaves allocated is decided by its code, in whatever round    *)
(* it happens: nothing after a run and when an input, a database or its      *)
(* scratch space fails; everything when a database cannot be read; and when  *)
(* a scratch cannot be cloned the one it was to be cloned from and the       *)
(* clones there are of it.                                                   *)
ExitsLeave ==
  /\ code \in {0, 3, 4, 5} => live = {}
  /\ code = 2 => live = AllInputs \cup Earlier \cup EarlierScratches
  /\ code = 7 => live = {Prototype(i)} \cup {Scratch(i, m) : m \in 0..(j - 1)}

(* Nothing is freed twice, and nothing that is not allocated, but the input  *)
(* whose scratch cannot be cloned. Of Hyperscan's objects a run that         *)
(* succeeds gives the databases to free, all of them and nothing else.       *)
FreedOnce ==
  /\ misfreed = IF code = 7 THEN {Input(j)} ELSE {}
  /\ code = 0 => plain_freed = {Database(k) : k \in Dbs}

(* "No need to stop, just keep trying": every input is scanned with every    *)
(* database, once, whichever scans fail.                                     *)
EveryPairIsScanned == code = 0 => \A p \in Dbs \X Inputs : scanned[p] = 1

(* What a run prints for a report: without --support a line for each match;  *)
(* with it the number of matches over all inputs, added, modulo the width of *)
(* the counter, to whatever the array held before.                           *)
PrintsTheMatches ==
  code = 0 =>
    \A r \in Reports :
      IF support /\ r \in DOMAIN counts
      THEN printed[r] = (garbage[r] + delivered[r]) % CounterSpace
      ELSE printed[r] = delivered[r]

(* The usage text: --support prints final counts.  The count of a report is  *)
(* the number of its matches.                                                *)
SupportsAreCounts ==
  code = 0 /\ support =>
    \A r \in DOMAIN counts : printed[r] = delivered[r] % CounterSpace
=============================================================================

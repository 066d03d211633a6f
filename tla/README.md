# hscompile in TLA+

A verification project for the programs of this repository:

* **pcre2mnrl** turns a file of regular expressions into an MNRL network;
* **hscompile** turns an MNRL network into a serialized Hyperscan database with
  a report map in front of it;
* **hsrun** loads such files, scans inputs with them and prints the reports.

```
 rules file --pcre2mnrl--> .mnrl file --hscompile--> map + database --hsrun--> reports
            hs_pcre_mnrl               hs_compile_mnrl   ht.h          read_input.h, ht.h
```

TLC checks the modules on small instances; TLAPS proves the theorems of the
`...Proofs` modules for networks, graphs, files, maps and command lines of every
size, and for every character class. `PROJECT.json` lists the runs, the mutants that
show each property can fail, the map from definitions to source lines, the findings,
the hazards and the theorems.

    tlc -workers 2 -config compile_network.cfg MCCompileMnrl.tla
    tlapm CompileMnrlProofs.tla

## 1. The system's parts

Paths are below `src/`.

| Part | Source | State it keeps | Operations | Uses / is used by |
|---|---|---|---|---|
| PCRE to MNRL | `src/hs_pcre_mnrl.cpp` | the network under construction, shared by all expressions; per expression the graph, the set of start nodes, the start-to-report flag | check arguments; parse, build and convert each expression; report an error | called once by pcre2mnrl; calls Hyperscan's parser and graph builder, the MNRL library, `describeClass` |
| MNRL to Hyperscan | `src/hs_compile_mnrl.cpp` | the NGWrapper graph, the id-to-vertex map, the report counter, the caller's report map | check arguments; load; a loop over nodes; a loop over connections; build; four catch clauses | called once by hscompile; calls the MNRL loader, `parseSymbolSet`, `insert_mapping`, the report manager |
| Report map | `include/ht.h` | hash table id -> (node name, report code) | insert, find, count, serialize, unserialize, delete | written by the compiler and hscompile, read by hsrun |
| hsrun | `src/hsrun.c` | one context per (database, input), supports per database, lists of what has to be freed | load inputs, load databases, clone scratches, scan, print, free; two callbacks | calls `readInputData`, `unserialize_mapping`, Hyperscan; is called back by `hs_scan` |
| Reading files | `include/read_input.h` | file position, buffer | open, measure, allocate, read until full | called by hsrun for inputs and databases |
| hscompile's main | `src/hscompile.c` | results of the call, two buffers, the output file | compile, serialize, open, write | calls the compilation; reads pcre2mnrl's file, writes hsrun's |
| pcre2mnrl's main | `src/pcre2mnrl.cpp` | four parallel vectors, the line counter | split lines, call the conversion, export | calls the conversion; writes hscompile's file |
| Symbol set parser | `src/parse_symbol_set.cpp` | five flags and a last character, per character of the string | parse | called for each node by the compiler |
| Symbol set printer | `src/dump_charclass.cpp` | none | print a class, as `[..]` or `[^..]` | called for each vertex by the conversion |
| uthash | `include/uthash.h` | vendored | | `ht.h` |
| Hyperscan, MNRL, Boost | not in the repository | | | |

There are no threads: the OpenMP pragmas of hsrun are commented out. What makes
the code hard is

* *order that is not the program's*: Boost enumerates vertices and edges as it
  likes, and the conversion overwrites attributes edge by edge;
* *callbacks* between a scan's start and its end, into arrays that were set up
  three loops earlier;
* *failure in the middle*: exceptions out of any library call, five fallible
  calls in two nested loops each with clean-up code of its own, a map that
  belongs to the caller and is half filled;
* *a format known only by convention* to one writer and one reader, with counts,
  offsets and lengths of two different widths;
* *files that change* between being measured and being read, that an earlier run
  left behind, or that were only half written by a program that returned 0;
* *numbers that carry meaning through three programs*: a rule is the number of its
  line, then an id of a node, a report code, an entry of a map, a line of output;
* *numbers with a width*: report ids, support counters, offsets;
* *a notation with two implementations*, a printer and a parser of character
  classes that come from different projects.

What makes each part correct:

* conversion: the network is determined by the graphs, whatever the order; a
  rejected expression leaves no trace and is named; loops end;
* compilation: the database is the automaton of the network, all its nodes and
  connections, or there is none, with an error (what is to happen at the end of the
  data only is lost, section 3); report ids are 0, 1, 2, ... and the map names their
  nodes;
* report map: it comes back as it was written, and what follows it is the
  database;
* hsrun: every pair is scanned once with live objects of its own kind, prints
  what was reported, and each exit frees what it should, once;
* the two compilers' mains: a rule arrives as it is written and under the number of
  its line; a program that fails leaves its output alone;
* the chain: what hsrun loads is a map and a database of one network, or nothing;
* reading: the buffer is the file's beginning, and the call returns;
* character classes: what the printer writes is what the parser reads.

## 2. The modules

| Module | Models | Notes |
|---|---|---|
| `ConversionCall` | arguments, return codes and errors of `hs_pcre_mnrl_multi` | no variables; shared by the next three |
| `ConversionContract` | what pcre2mnrl relies on when it makes that call, in one step | abstract specification |
| `PcreToMnrl` | `hs_pcre_mnrl_multi_int` with `addExpressionMNRL` | implements `ConversionContract` |
| `Pcre2MnrlMain` | pcre2mnrl's main | uses `ConversionContract` for the call |
| `ReportMap` | the map of `ht.h` as operators | no variables; a map is the sequence of its entries in iteration order |
| `Automaton` | the MNRL network and the Hyperscan graph as data | constants and types of the next two |
| `CompileContract` | what `hs_compile_mnrl.h` promises, in one step | abstract specification |
| `CompileMnrl` | `hs_compile_mnrl_int` | composes `Automaton` and `ReportMap`; implements `CompileContract` |
| `HsCompileMain` | hscompile's main | uses `CompileContract` for the call |
| `Toolchain` | the three programs and their two files | composes `Pcre2MnrlMain`, `HsCompileMain` and the loading of hsrun |
| `MappingFormat` | `serialize_mapping` then `unserialize_mapping`, byte by byte | composes `ReportMap` |
| `HsRun` | hsrun's main and both callbacks | |
| `ReadInput` | `readInputData` against a file others write | |
| `CharClass` | `describeClass` as operators on sets and sequences of character codes | no variables |
| `SymbolSet` | `parseSymbolSet`, one character a step | composes `CharClass`: what one prints the other reads |
| `MC...` | constants for TLC | |

The proofs are in modules of their own:

| Module | Theorems about | Extends |
|---|---|---|
| `CompileMnrlProofs` | `CompileMnrl`, its numbering of reports, and that it implements `CompileContract` | `CompileMnrl` |
| `PcreToMnrlProofs` | `PcreToMnrl`, and that it implements `ConversionContract` | `PcreToMnrl` |
| `HsRunProofs` | `HsRun`, `FoldProofs` | `HsRun` |
| `ReadInputProofs` | `ReadInput` | `ReadInput` |
| `FoldProofs` | lemmas only: induction, minima, ranks, what folds compute | `ReportMap` |
| `MappingFormatProofs` | `MappingFormat` | `MappingFormat`, `FoldProofs` |
| `ToolchainProofs` | `Toolchain`, with both mains | `Toolchain`, `FoldProofs` |
| `SymbolSetProofs` | `SymbolSet` on what `CharClass` prints | `SymbolSet`, `FoldProofs` |

### How state and actions correspond to the code

**`PcreToMnrl`.** `pc` names the loop the call is in. `args` are the caller's
pointers and count; `i`, `start_nodes`, `start_to_report`, `ret` and
`comp_error` are the variables of the code; `nodes` and `conns` are the MNRL
network; `graphs` holds the graph of each expression as far as the edge loop has
looked at it. Hyperscan may return any graph: vertices are chosen in
`BuildGraph`, and as nothing but the edge loop looks at edges, each is chosen as
the loop comes to it, in any order. `StartEdge`, `StartToReportEdge`,
`ReportEdge`, `InnerEdge` and `IgnoredEdge` are the branches of that loop's body.
`RejectExpression` is a CompileError with the loop's index, `BadAlloc` and
`Unexpected` the other two catch clauses, `SetupThrows` an exception from the two
constructors that run before the `try`. `upgrade_start` and `report_edge` are
operators because their algebra (they commute) is what one property is about.

**`CompileMnrl`.** `network` is the loaded network as far as the two loops have
looked at it, `graph` the NGWrapper: symbols, edges and report ids by vertex.
`AddNode` is a whole iteration of the first loop (a vertex, its start edge, its
report edge, its number, its entry in the map), `Connect` all connections of one
node in the second. `StartEdges` and `ReportEdges` are the code's: a node that is
enabled `ON_LAST` gets no start edge, and one that reports leads to `ACCEPT`, whatever
its `reportEnable`. `ExitAtNode` is `exit(1)` on a node that is not an hState or
does not parse, `RefuseReport` the report manager, or whatever comes after the
insertion, throwing *after* the entry has been made. A network's nodes are numbered in the order of their ids, in which
`std::map` visits them, so "node `k`" is also its name. The report counter is an
unsigned int: `NextId` is taken modulo `IdSpace`.

**`CompileContract`** has three steps: `Compile` (a whole network becomes an
automaton and a numbering, both defined without reference to a loop), `Fail`
and `Stop`. `AutomatonOf` is what MNRL means by a network: nodes that report at the
end of the data lead to `ACCEPT_EOD`. The code does not do that, so what `Compile`
promises is `CompiledOf`, the automaton of the network `WithoutLast`: every report
happens everywhere, and a node enabled at the end only is not enabled but by others.
The contract names all that is lost, and `LastReportsAreLast` is the property that
fails of it. `CompileMnrl` maps to the contract with the network and the map hidden
until the call ends.

**`ConversionContract`** is the same for the conversion: `Convert`, `Refuse` (bad
arguments), `Reject(k)` (expression `k` does not compile, the `k` before it are
there), `Break(k)` (memory runs out, pieces may stay) and `Stop`. `PcreToMnrl` maps
to it with `whole`, the expressions all of whose nodes and connections are in the
network, hidden until the call ends.

**`Pcre2MnrlMain`.** One iteration over the lines is `NotSurrounded` (exit 5),
`SkipRule` or `TakeRule`. A line is a sequence of characters, positions count from
1; `ExprOf` is `substr` with the length the code gives it, `end_loc - 1`, which is
right only when the line begins with its first slash. `expressions` is the parallel
vectors in one. `Convert` is the call, a step of `Conversion`, the instance of the
contract on main's variables. `ReportError` quotes `expressions[-1]` when the error
is about no expression: it survives that or crashes. A network file is the rules
that are in it whole and the one it may have pieces of. Nothing in main looks at
whether `exportToFile` could write (`ExportFails`).

**`HsCompileMain`.** `pc` walks through main. A file is a sequence of units (the
header with the number of entries, the entries, two parts of the database):
`Write` writes some beginning of what it is given and `Close` keeps some beginning
of the file, as no result is looked at; `lost` records it. `SerializeDatabaseFails`
reads the message of `compile_err`, which is null after a compilation that succeeded.

**`Toolchain`.** hscompile starts when pcre2mnrl has ended, however it ended; hsrun
loads the compiled file at any time, before, during or after. Older files may be at
both paths. `NetworksOf` is what the loader may make of a network file. Which nodes a
rule or a piece of one becomes is its own business and Hyperscan's, so the constant
`Shapes` has the networks to consider: nodes in the order of their names, each made
from some rule, enabled and reporting in any way or not at all, and leading anywhere;
a rule may have no node, no reporter or several. `NetworkOf` gives such a shape the
texts and the numbers of the rules in the file. `Readable` is what hsrun's loading comes to: the
header, as many entries as it says, and behind them a whole database (which
`hs_deserialize_database` is trusted to recognise). The bytes are `MappingFormat`'s.

**`HsRun`.** `argv` are the arguments not looked at, sequences of characters;
`Threads`, `Support` and `File` are the branches of their loop. `-t` takes the next
argument whatever it is; as the last one it takes a null pointer, and crashes.
Memory is a set of live objects, each named for its owner: database `k`, input `m`,
scratch `(k, m)`, and so on. `Exit` is a clean-up block: what it frees, what it
frees twice or though it is not live (`misfreed`), and which of Hyperscan's objects
it gives to plain `free` rather than to `hs_free_database` or `hs_free_scratch`
(`plain_freed`): after a run the databases, after a failure those and the scratches
of the earlier rounds. Exit code 2, of a database file that cannot be read, frees
nothing at all.
`contexts` is the flat array, filled at `i*num_inputs + j` and read by index.
`eventHandler` and `supportEventHandler` run between two `ScanReturns`, any
number of times. `garbage`, `delivered` and `scanned` are history variables for
the properties. The exit through an unassigned `compile_err` may crash.

**`MappingFormat`.** `outstr` is the buffer, then the file. A byte has `Base`
values, so that unsigned int (4 bytes) and size_t (8 bytes) keep their widths and
a small map can be too large for the first. `SerializeEntry` writes at an offset
that wraps, as the code's does, while the size does not.
Memory nothing was written to is `UNWRITTEN`; reading it, or past the end, is
`overrun`.

**`ReadInput`.** `Append1` and `Truncate` are another process between any two
calls. `Read(n)` is one read of any length inside `fread`; `ReadAtEnd` the end of
the file, which is not an error and sticks to the stream. `emptied` is a history
variable.

**`CharClass`, `SymbolSet`.** A character is its code, a text a sequence of
codes, a class a set of codes. `describeClass` works on whole classes: their runs
of consecutive characters, the mnemonics taken out of them, the shorter of the
class and its negation. In `SymbolSet` each action is a branch of the parser's
`switch`; `escaped`, `inverting`, `range_set`, `bracket_sem`, `last_char` and
`range_start` are its variables, with the branches' differences kept: a brace
leaves an escape pending, `\s`, `\d` and `\w` leave `last_char` and an open range
alone. `brace_sem` is never changed by the code and has no variable. The class a
text was written for is part of the input, for the properties to compare with.

## 3. The runs

| Run | Instance | Shows |
|---|---|---|
| `pcre_conversion` | one expression of two vertices and up to five edges beyond the fixed ones, or two of one vertex and two edges each; pattern limit 2 | the result is the same in every order of vertices and edges (`ConversionIsConfluent`, `ConnectionsAreEdges`, `EnableOnlyUpgraded`, `ReportOnlyLoosened`); what one expression does to another and a failure leaves (`RejectionLeavesPrefix`, `DoneExpressionsUntouched`); the call implements `ConversionContract`; `Terminates` |
| `toolchain` | rule files of none to three lines of every shape, a limit of two rules to a call, eight shapes of networks of up to four nodes, older files of one rule | rules arrive as written under their line numbers; messages say what is missing; failures keep the old file; hsrun loads one network or nothing, and prints the right line |
| `toolchain_parts` | the same | **violated**: the expression of a rule is what stands between two slashes of its line |
| `compile_network` | up to three nodes, every attribute (also when they report), at most one connection out of each (cycles of any length), ids of width 4 | the call implements `CompileContract`; ids are dense; the map names the nodes; entries are final |
| `compile_last` | one node | **violated**: a report at the end of the data only is one there |
| `hsrun_files` | three databases and two inputs, and every command line of up to four of five arguments; two reports each, counters of one bit | every file is taken; live objects, what each exit leaves and how it frees, every pair scanned, what is printed |
| `hsrun_supports` | one of each | **violated**: counts of `--support` are the number of matches |
| `mapping_small` | up to three insertions of three ids and three strings, bytes of three values | the map and the database come back; no read leaves the map; the buffer has no gaps |
| `read_file` | files of up to three bytes, a limit of two | prefix, returns unless the file is emptied |
| `read_shrinking` | the same, one byte value | **violated**: the call returns |
| `symbol_sets` | the 256 characters; some 1800 printed classes and 2700 texts by hand | `ParsesToItsClass`, `NothingIsOpen` |
| `symbol_any` | three printed classes | **violated**: every printed class is read as itself |

### Why the bounds are enough

* `PcreToMnrl`: an expression meets another only through the network, the
  counters and the two loop-local variables, so two expressions show
  interference. A node is written by edges into and out of its own vertex only;
  the five edges of the first case of `pcre_conversion` include both start edges and both accept edges
  of a vertex and one more, in every order. Ids leave gaps as pcre2mnrl's do.
* `CompileMnrl`: three nodes give a silent one between two that report, which
  is what numbering is about. `IdSpace` is one more than the nodes, the tightest
  width the assumption allows. The theorems remove the bound.
* `HsRun`: three databases give two earlier ones to clean up after; two inputs
  differ in number from the databases, so a wrong row length shows; one bit and
  two matches make counters wrap. Two reports show a counter's neighbour. Four
  arguments are two options in a row with a file, a `-t` whose number is a file, an
  option or another `-t`, and a name too short for a database.
* `Toolchain`: two rules give one before and one after anything that goes wrong, and
  a third exceeds the limit; lines have no, one, two or three slashes, text before
  them, known and unknown modifiers, and a skipped line comes first or second. The
  older file has one rule, so that a new one may be as long, shorter or longer. Its
  shapes (`MCShapes`) are the empty network, one node that does not report, one that
  does, of either rule, a silent node with one that reports at the end, two reporters
  of one rule, and nodes of two rules in mixed orders.
* `MappingFormat`: an empty, a short and a long string give every alignment of
  the four fields; two long entries do not fit an unsigned int of 81 values, and
  one does; the same id twice exercises replacement.
* `ReadInput`: a file longer than the limit is clipped, one shorter grows, and
  reads of one and of two bytes interleave with both.
* `SymbolSet`: the alphabet is the real one. Classes begin and end at every
  character at which the printer or the parser changes its mind (`Corners`), as
  spans, pairs, with each mnemonic, and negated; the texts by hand put every pair
  of items next to each other, so that a flag left over by one meets the other.

Bounds that the code does not have are named in the modules: `MaxElements`,
`MaxEdges`, `Vertices`, `MaxNodes`, `MaxSinks`, `MaxReports`, `MaxMatches`, `MaxInserts`,
`MaxFile`. `IdSpace`, `CounterSpace`, `Base` and `UINT_MAX` stand for widths.

### Fairness

Only `PcreToMnrl` and `ReadInput` have liveness properties. Both are weakly fair
in `Step`, the disjunction of the program's own steps: a single thread that is
not stopped goes on. Failures, exceptions and other processes are never forced.
Weak fairness of the disjunction is enough: in `PcreToMnrl` every step shrinks
what a loop has left, and in `ReadInput` a read returns at least a byte or the
end of the file. Every specification that a run checks stutters explicitly once it has
ended (`Terminated`), so deadlock is checked everywhere.

### What the violated runs found

* `compile_last`: pcre2mnrl marks the node of a `$` `ENABLE_ON_LAST` as a reporter
  (`hs_pcre_mnrl.cpp:282`, and `ReportOnlyLoosened` is about that mark); hscompile
  never asks for it and connects every reporter to `ACCEPT`, so `/a$/` reports at
  every `a`. Nodes that are *enabled* on the last symbol, which a comment mentions,
  are dropped as well.
* `toolchain_parts`: the comment says there have to be two slashes; the code only
  asks for one, and a line `/` or `/i` is a rule. The same property also fails where
  the first slash does not begin the line, as the length given to `substr` is right
  only when it does: of `a/b/i` the expression is `b/`.
* `hsrun_supports`: support counters are allocated with `malloc` and never
  cleared. `PrintsTheMatches` says what is printed instead: the old contents plus
  the matches, modulo the width.
* `read_shrinking`: `fread` at the end of the file returns 0 without an error,
  and the loop only looks at `ferror`.
* `symbol_any`: `describeChar` does not escape `*`, so the class of a literal star
  is printed as a text that means every character; and the class of every
  character is printed `<any>`, which is read as `<`, `a`, `n`, `y`, `>`. (The
  empty class, `<empty>`, has no PCRE.) `Misprinted` names the three, and
  `ParsesToItsClass` holds of all others.

### What the passing runs take for granted of the code

Some of what the code does is odd, promised nowhere, and therefore an outcome of
the model rather than a violated property:

* pcre2mnrl returns 0 and exports after every error of the conversion
  (`MessageTellsWhatIsMissing` says what), and reads `expressions[-1]` when the error
  is about no expression;
* what `RulesAreKept` says of texts and of missing rules is about lines with two
  slashes or more of which the first begins the line: of the other lines the
  violated run above shows what becomes. The ids it shows to be increasing, of
  all rules, are what `IdsAssumption` of `PcreToMnrl` asks for;
* hscompile crashes when the database cannot be serialized, and returns 0 when the
  disk is full (`WholeOrUnreadable`: hsrun then refuses the file or crashes);
* `hs_compile_mnrl` ends the process with `exit(1)` on a node or a symbol set it does
  not support, though its header says `HS_COMPILER_ERROR` is returned on failure
  (`ExitAtNode`; `Stop` in the contract);
* hsrun crashes on a `-t` at the end; exit code 44 cannot be reached;
* `ExitsLeave` and `FreedOnce` say what hsrun's exits do, and not all of that is
  right. The clean-up after a failed `hs_clone_scratch` (code 7) frees the current
  input twice (`hsrun.c:291` and `298`), and forgets the scratches of the current
  database that are already stored, contrary to the comment at `hsrun.c:317`, and the
  one they are cloned from. When a database file cannot be read (code 2) nothing is
  freed. Databases, and after a failure scratches, go to plain `free`.

## 4. What is proved

Each theorem holds for every value of the constants that meets the assumptions; each
states a property that a run of section 3 also checks on its instance.

**The compilation** (`CompileMnrlProofs`)

| Theorem | Says |
|---|---|
| `TypeCorrect` | `Spec => []TypeOK` |
| `ReportsAreDense` | `Spec => []ReportIdsDense`: ids are 0, 1, 2, ... |
| `ReportsAreNamed` | `Spec => []ReportsNameTheirNodes` |
| `EntriesStay` | `Spec => EntriesAreFinal` |
| `CompilesTheNetwork` | `Spec => ImplementsContract`: the loops implement `CompileContract`, ON_LAST excepted |

None of the first four properties is inductive. That ids are dense does not by
itself say that the *next* id is free: the counter could be anywhere. Nor does "the
map names the nodes" survive an insertion that replaces. `IInv` therefore adds to
`TypeOK`

* `Numbered`: the k-th entry has id k - 1, the counter is the length of the map,
  and the map is no longer than the number of nodes looked at (so the counter
  stays below `IdSpace`); after `RefuseReport` the map has one entry more than
  nodes, hence the exception for a call that has returned;
* `Named`: the entry of node `k` is found *at position* `graph.reports[k] + 1`;
* `Unread`: the network is empty until it is loaded.

`InsertNext` shows that under `Numbered` an insertion appends, `NextIdIsSuccessor`
that the counter does not wrap, `EnterReport` combines the two. One lemma per
action gives `NextInv`.

The refinement needs `CInv`, which adds what the graph is while the loops run
(`Drawn`: its edges are the fixed ones, those of the nodes seen and the rows of
connections seen) and which id a report has (`Reported`: the number of reporting
nodes before its own, the *rank* by which the contract defines it). At `Build` both
loops have seen everything, and `Drawn` and `Reported` are the contract's
`CompiledOf` and `NumberingOf`: the edges the loops drew are those the automaton has
for the network without its ON_LASTs. Every other step is a stutter or `Fail` or `Stop`.

**The conversion** (`PcreToMnrlProofs`)

| Theorem | Says |
|---|---|
| `TypeCorrect` | `Spec => []TypeOK` |
| `ConversionsAreConfluent` | `Spec => []ConversionIsConfluent` |
| `ConnectionsAreTheEdges` | `Spec => []ConnectionsAreEdges` |
| `RejectionsLeavePrefix` | `Spec => []RejectionLeavesPrefix` |
| `EnablesOnlyClimb`, `ReportsOnlyLoosen`, `DoneExpressionsStay` | the three action properties |
| `ConversionImplementsContract` | `Spec => ImplementsConversion` |

Confluence is about finished expressions; the invariant has to be about unfinished
ones: after any part of the edges, a node is what *that set* of edges determines
(`Underway`), in whatever order they came. That a further edge keeps it so is the
algebra of `upgrade_start` and `report_edge`, proved on its own: the enable type is
the greatest of those the start edges ask for, a report everywhere absorbs one at
the end of data. `start_to_report` and `start_nodes` are set by some edges and used
after the last, so `Underway` also says what they stand for in between. `Done` keeps
earlier expressions, as ids are not repeated; `Known` and `Left` say what the three
loops have still to visit. In the refinement a return is the contract's step and all
loops are stutters; `RejectionLeavesPrefix` is what makes `Reject(k)` right.

**hsrun** (`HsRunProofs`)

| Theorem | Says |
|---|---|
| `TypeCorrect` | `Spec => []TypeOK` |
| `ScansAreSafe` | `Spec => []ScanUsesLiveObjects` |
| `ExitsRelease` | `Spec => []ExitsLeave`: what each exit code leaves allocated, in any round |
| `FreesOnce` | `Spec => []FreedOnce`: what is freed twice, and what of Hyperscan's is given to `free` |
| `PairsAreScanned` | `Spec => []EveryPairIsScanned` |
| `MatchesArePrinted` | `Spec => []PrintsTheMatches` |
| `FilesAreTaken` | `Spec => []EveryFileIsTaken` |

The properties speak of moments of which each is three loops after the one that made
it true. `Heap` states *exactly* what is live in each phase of each loop, which turns
what an exit leaves into a comparison of two sets; `Stored` says which contexts are in
the flat array and whose they are, by the arithmetic of `i*num_inputs + j`
(`AtBounds`, `AtInjective` and the other lemmas on rows); `Counters` which counters
exist; `Tallied` relates counters, deliveries and lines at every moment of the scans,
and `ScannedBelow` that the scans done are those below the loop's index.

`EveryFileIsTaken` defines by runs of `-t` which arguments are options and which their
numbers; the loop decides it from left to right. `NumbersFollow` joins the two: an
argument follows an option exactly when it is a number or that option is not one,
because the run of `-t` that ends before it is the only maximal one. `Sorted` then
says at every round that the lists hold the arguments passed that are neither, each
at its rank (`ListedGrows`), and that the next argument is not a number: `getopt`
never stops between an option and what belongs to it.

**Reading** (`ReadInputProofs`): `TypeCorrect` and `BufferCorrect` (`BufferIsPrefix`),
while another process appends and truncates. `ReadFromFile` says of a buffer that is *not yet* full what the property says of one
that is.

**The report map's format** (`MappingFormatProofs`)

| Theorem | Says |
|---|---|
| `TypeCorrect` | `Spec => []TypeOK`, whether the map fits or not |
| `BuffersAreFull` | `Spec => []BufferIsFull` |
| `ReadsStay` | `Spec => []ReadsStayInTheMap`, of a map that fits |
| `RoundTrips` | `Spec => []RoundTrip` |

In four layers. *Numbers*: `Number(Bytes(x, n)) = x` for `x` below the n-th power of
the base (`DigitsAre`), by the uniqueness of quotient and remainder. *Buffers*: what
`Holds` at an offset, and that growing, writing elsewhere and shifting the whole
keeps it. *Offsets*: `Start(map, k)`, the sum of the entries before the `k`-th, is
where it is, and while the map `Fits` no offset wraps. *The two loops*: `Writing`
says that the buffer holds the count and the entries written so far, `Written` what
the file holds, and `Reading` that what has been read is the beginning of the map and
the position is the next entry's. `IInv` asserts all of it only when the map `Fits`;
types hold in any case, which takes a word on bytes read from a form that has written
over its own beginning (`TypeInv`).

**The chain** (`ToolchainProofs`)

| Theorem | Says |
|---|---|
| `RulesKeepTheirLines` | `Spec => []RulesAreKept` |
| `MessagesAreRight` | `Spec => []MessageTellsWhatIsMissing` |
| `FailuresKeepTheFiles` | `Spec => []FailureKeepsTheFile` |
| `LoadsAreWhole` | `Spec => []WholeOrUnreadable` |
| `TheChainRunsItsRules` | `Spec => []ChainRunsTheRules` |
| `ReportsNameTheirLines` | `Spec => []LookupsNameTheRule` |
| `TypeCorrect` | `Spec => []TypeOK` |

`PcreInv` follows pcre2mnrl: `LinesRead` (the vectors hold exactly the rules of the
lines passed, in order, with their numbers), `Call` (before and after the call, what
is whole is a beginning), `Output` (an exported file is what the call left). `Kept`
says until when each output is untouched. `ChainInv` follows the two files:
`Compiling` ties database and map to *one* network of *the* network file; `Writing`
says that the compiled file is, at every moment, the beginning of a map and, the map
cut off or not, the beginning of a database; `OldFile` what may have been there
before, and `Scanning` that what hsrun has loaded belongs together. `WholeOrUnreadable`
then rests on a file being readable only as the whole of some network's form, which
needs that the number of entries can be told from the header; `LookupsNameTheRule` on
the ranks of `FoldProofs`, as the map is filled by a fold over the reporting nodes.
The theorems hold for every choice of `Shapes`, so they rest on nothing about how many
nodes a rule becomes or which of them report. For `TypeOK`, `PcreTypes` keeps the
rules of the network file among those of the rule files, so that what hscompile loads
is a network (`NetworksAreTyped`) and bounds the header it writes; `ChainTypes`
follows the position in the open file.

**Character classes** (`SymbolSetProofs`)

| Theorem | Says |
|---|---|
| `TypeCorrect` | `OnlyPrinted` implies `Spec => []TypeOK`: the index never passes the text's end |
| `PrintedClassesParse` | `OnlyPrinted` implies `Spec => []ParsesToItsClass` |
| `PrintedClassesClose` | `OnlyPrinted` implies `Spec => []NothingIsOpen` |

`OnlyPrinted` says that each text is what `describeClass` prints for the class it
comes with: *any* of the 2^256 classes, where TLC tries some 1800. That is the
parser's input when pcre2mnrl wrote the file. Of arbitrary texts the three are false
(a text may end within an escape), and what a text by hand means is given by the
instance, so those stay with TLC.

The invariant cannot say which part of the class has been read, as the text says
that only at its end (an inverted class is complemented last) and the flags of one
character reach into the next. So the loop is made a function of its state, `After`
(`ParseStepIs`), and `Leads(t, s, f)` says that the text takes the state `s` to `f` by
way of well-typed states only, defined by what is closed under going back one
iteration. A piece of text `Adds` a set when, wherever it stands, from a state with no
range and no escape open it leads to one that differs in the reach alone, by that
set, and in the characters remembered. Each thing the printer writes is such a
piece: a character by itself or escaped or in hexadecimal (`CharIsDescribed`), a range
(`RangeAdds`), a mnemonic (`MnemonicsAreDescribed`), and a concatenation
(`FlattenAdds`, by induction over its length). That the runs of a class are all of it
is `RunsAre`, by ranks of their first characters. `ClassIsDescribed` puts the pieces
together, `BracketsRead` the brackets and the caret around them, and `PrintedReads`
the choice between the class and its complement, with the texts that are not
bracketed: a single character or a single mnemonic (`BareIsMnemonic`), which the
parser takes for one of the forms it knows as a whole only when it is a star. Along the run, `Reading` says no more than that
the rest of the text leads to the end with the right reach.

### The assumptions

`MaxNodesAssumption`, `MaxSinksAssumption`, `CallAssumption`, `BoundsAssumption`
(twice) and `LimitsAssumption` only type the bounds. The others say something:

* `IdSpaceAssumption`: a network has fewer nodes than an unsigned int has values.
  Without it `ReportsAreDense` is false: a counter that wraps makes
  `insert_mapping` replace the first entry.
* `SymbolsAssumption`: the symbol sets that do not parse are symbol sets.
* `InnerAssumption`, and `IdsAssumption` of `PcreToMnrl`: vertices are not the four
  special ones, and no two expressions share an id, which `RulesAreKept` shows of
  pcre2mnrl. `DoneExpressionsUntouched` is false without the second.
* `CommandLinesAssumption`, `RulesAssumption`, `OldRulesAssumption`: arguments and
  lines are sequences of characters, and no file has more lines than the call takes
  expressions.
* `NetworksAssumption` of `Toolchain` ties the constants of its two halves: `Symbols`
  and `Rids` hold the texts and the line numbers of the rules. Only `TypeCorrect` needs
  it. `ShapesAssumption` says what a shape is: a sequence of at most `MaxNodes` nodes
  and where each leads.
* `InputsAssumption`: texts are not empty and classes are sets of characters. The
  hypothesis `OnlyPrinted` of the theorems on symbol sets is explained with them.
* `BaseAssumption`, `NamesAssumption`, `DbAssumption`, and `IdsAssumption` of
  `MappingFormat`: a byte has two values or more, names contain no NUL, ids and the
  number of insertions fit an unsigned int. That the *form* fits one is not assumed:
  it is the hypothesis `Fits` of three properties.

### Induction

An induction theorem whose parameter is a predicate cannot be instantiated by the
provers at hand, so `FoldProofs` states induction of *sets*: a set of numbers that
has 0 and with each its successor has all (`SetInduction`). What a fold computes is
then shown of the function from prefixes to results (`FoldExists`, `StepsExist`),
whose existence is what the induction proves. That is how `Numbering`
(`InsertsInOrder`), the sum of sizes and the value of a digit sequence are reached.

### What is only model-checked

* Liveness (`Terminates`, `ReturnsUnlessEmptied`): out of the prover's reach, as is
  anything about `ENABLED`.
* What `parseSymbolSet` makes of texts written by hand and of broken ones. What such a
  text means is part of the instance, some 2700 texts with the class of each.

## 5. The plan

Done: every module of section 2, and proofs about each component that has state. All
invariants and action properties of the passing runs and both refinements are
theorems. Left: a grammar of the texts one may write by hand, so that
`PrintedClassesParse` extends from printed classes to all of it; `CharIsDescribed`,
`RangeAdds` and `FlattenAdds` are about pieces of any text and serve there too.

## 6. What is not modelled, and why

* Hyperscan, the MNRL library and Boost are not in the repository. They are
  modelled by how the code uses them: calls that may return anything they are
  allowed to, refuse, or throw.
* `uthash.h` is vendored; `ReportMap` uses lookup by key and iteration in
  insertion order, which is what its documentation states.
* The test of `argc` in pcre2mnrl and hscompile, which comes before everything else.
* Two `CompileError`s of `addExpressionMNRL` (`hs_pcre_mnrl.cpp:189-191`, `247-250`):
  both are the default of a `switch` that has a case for each of the four special
  vertices. No graph leads to them.
* Which characters an expression has: `Toolchain`'s nodes stand for the rule they
  were made from. What becomes of the characters is Hyperscan's parser's business and
  then `CharClass`'s and `SymbolSet`'s.
* That an hsrun which has opened the compiled file may see it emptied and written
  again between two reads: `Toolchain` reads in one step, `ReadInput` in many.
* Symbol sets that end in the middle of an escape and hexadecimal escapes without
  two digits: nothing prints them, and the parser reads past the text's end.
  `describeClass` with a limit on the length and for DOT: pcre2mnrl uses neither.
* `print_mapping`, messages, progress output: pure output.
* Failures of `malloc` that the code does not test for (in `ht.h` and at the
  support array): what follows is undefined and nothing is promised about it.
* `eventHandler`'s branch for an id that is not in the map: `HsRun` assumes files
  that hscompile wrote; `ReportsNameTheirNodes`, and `LookupsNameTheRule` for what is
  loaded, say that it is never taken.
* Offsets of matches: `hs_scan` delivers matches in any number and order; what
  the database matches is Hyperscan's business.

---------------------------- MODULE HsRunProofs ------------------------------
(***************************************************************************)
(* Theorems about HsRun, for command lines of any length and any number of *)
(* databases, inputs, reports and matches: its type invariant, that every  *)
(* file on the command line is taken, that every scan works on live        *)
(* objects, what the exits release, that every pair is scanned once, and   *)
(* what a run prints.                                                      *)
(***************************************************************************)
EXTENDS HsRun, FoldProofs

(* Where the context of database k and input m is stored: rows of M inputs. *)
At(k, m, M) == k * M + m

(* Sets of heap objects, of the first n inputs, databases or scratches. *)
InputsBelow(n)        == {Input(k) : k \in 0..(n - 1)}
SupportsBelow(n)      == {Supports(k) : k \in 0..(n - 1)}
ScratchesBelow(k, n)  == {Scratch(k, m) : m \in 0..(n - 1)}
DatabasesBelow(n, M)  == UNION {{Database(k), RMap(k)} \cup ScratchesBelow(k, M) : k \in 0..(n - 1)}

(* What is live between two rounds of the loop over databases, n of them    *)
(* being loaded.                                                            *)
SupportsIf(n) == IF support THEN SupportsBelow(n) ELSE {}
Loaded(n) == InputsBelow(NumInputs) \cup DatabasesBelow(n, NumInputs) \cup SupportsIf(n)

-----------------------------------------------------------------------------
(* The inductive invariant.                                                *)

Arguments ==
  /\ support \in BOOLEAN
  /\ argv \in Seq(Seq(STRING))
  /\ db_fns \in Seq(Seq(STRING)) /\ input_fns \in Seq(Seq(STRING))

(* Before the arguments are accepted nothing has a size yet. *)
Fresh ==
  /\ i = 0 /\ j = 0
  /\ count = <<>> /\ contexts = <<>> /\ counts = <<>> /\ garbage = <<>>

Accepted ==
  /\ NumDbs > 0 /\ NumInputs > 0
  /\ i \in 0..NumContexts /\ j \in 0..NumInputs
  /\ count \in [Dbs -> 0..MaxReports]
  /\ delivered \in [Reports -> 0..MaxMatches]
  /\ scanned \in [Dbs \X Inputs -> Nat]
  /\ printed \in [Reports -> Nat]

(* The loop counters of each phase. *)
Phased ==
  /\ pc \in Phases
  /\ pc \in {"argc", "args"} => Fresh
  /\ pc \notin {"argc", "args", "exited"} => Accepted
  /\ pc = "exited" => Fresh \/ Accepted
  /\ pc # "exited" => code = -1
  /\ code \in {-2, -1, 0, 1, 2, 3, 4, 5, 7, 45}
  /\ code = 0 => Accepted
  /\ pc = "inputs" => i = 0
  /\ pc = "read" => i \in 0..NumDbs
  /\ pc \in {"deserialize", "alloc", "clone"} => i \in Dbs

(* Exactly what is live in each phase, and what exits leave of it: that a   *)
(* scan finds its objects alive follows from what the loading rounds left.  *)
Heap ==
  /\ live \subseteq Objects /\ misfreed \subseteq Objects /\ plain_freed \subseteq Objects
  /\ pc # "exited" => frees = <<{}, {}>>
  /\ pc \in {"argc", "args"} => live = {}
  /\ pc = "inputs" => live = InputsBelow(j)
  /\ pc = "read" => live = Loaded(i)
  /\ pc = "deserialize" => live = Loaded(i) \cup {Serialized(i), RMap(i)}
  /\ pc = "alloc" => live = Loaded(i) \cup {Serialized(i), RMap(i), Database(i)} \cup SupportsOf(i)
  /\ pc = "clone" => live = Loaded(i) \cup {Serialized(i), RMap(i), Database(i), Prototype(i)}
                              \cup SupportsOf(i) \cup ScratchesBelow(i, j)
  /\ pc \in {"scan", "cleanup"} => live = Loaded(NumDbs)
  /\ ExitsLeave /\ FreedOnce

(* Contexts are stored row by row, each where its pair belongs. *)
StoredRows(n) ==
  \A k \in Dbs, m \in Inputs : k < n => At(k, m, NumInputs) \in DOMAIN contexts

Stored ==
  /\ \A x \in DOMAIN contexts : \E k \in Dbs, m \in Inputs :
       x = At(k, m, NumInputs) /\ contexts[x] = Context(k, m)
  /\ pc \in {"read", "deserialize", "alloc", "clone"} => StoredRows(i)
  /\ pc = "clone" => \A m \in Inputs : m < j => At(i, m, NumInputs) \in DOMAIN contexts
  /\ pc \in {"scan", "cleanup"} => StoredRows(NumDbs)

(* Which counters exist: with --support one for each entry of the report    *)
(* maps of the first n databases.                                           *)
CountersOf(n) ==
  \A r \in Reports : r \in DOMAIN counts <=> support /\ r[1] < n /\ r[2] < count[r[1]]

Counters ==
  /\ DOMAIN counts \subseteq Reports /\ DOMAIN garbage = DOMAIN counts
  /\ \A r \in DOMAIN counts : counts[r] \in Counter /\ garbage[r] \in Counter
  /\ pc = "inputs" => CountersOf(0)
  /\ pc \in {"read", "deserialize"} => CountersOf(i)
  /\ pc \in {"alloc", "clone"} => CountersOf(i + 1)
  /\ pc \in {"scan", "cleanup"} => CountersOf(NumDbs)

(* Counters, matches and lines agree at every moment of the scans.          *)
Tallied ==
  /\ \A r \in DOMAIN counts : counts[r] = (garbage[r] + delivered[r]) % CounterSpace
  /\ support => \A r \in Reports \ DOMAIN counts : delivered[r] = 0
  /\ ~support => printed = delivered

Untouched ==
  /\ \A r \in DOMAIN counts : counts[r] = garbage[r]
  /\ \A r \in Reports : delivered[r] = 0 /\ printed[r] = 0
  /\ \A p \in Dbs \X Inputs : scanned[p] = 0

(* The pairs whose index is below i have been scanned, and once.            *)
ScannedBelow ==
  \A k \in Dbs, m \in Inputs :
    scanned[<<k, m>>] = IF At(k, m, NumInputs) < i THEN 1 ELSE 0

Printed ==
  \A r \in Reports :
    IF support /\ r \in DOMAIN counts
    THEN printed[r] = (garbage[r] + delivered[r]) % CounterSpace
    ELSE printed[r] = delivered[r]

Scanned ==
  /\ pc \in {"inputs", "read", "deserialize", "alloc", "clone"} => Untouched
  /\ pc = "scan" => Tallied /\ ScannedBelow
  /\ pc = "cleanup" \/ code = 0 =>
       Printed /\ \A p \in Dbs \X Inputs : scanned[p] = 1

IInv == Arguments /\ Phased /\ Heap /\ Stored /\ Counters /\ Scanned

-----------------------------------------------------------------------------
(* The indices of the contexts.                                            *)

(* Row-major indices are indices of the array of contexts, ...              *)
LEMMA AtBounds ==
  ASSUME NEW N \in Nat, NEW M \in Nat, NEW k \in 0..(N - 1), NEW m \in 0..(M - 1)
  PROVE  At(k, m, M) \in 0..(N * M - 1)
BY DEF At

(* ... two pairs never share one, ...                                       *)
LEMMA AtInjective ==
  ASSUME NEW M \in Nat, NEW k \in Nat, NEW l \in Nat,
         NEW m \in 0..(M - 1), NEW n \in 0..(M - 1), At(k, m, M) = At(l, n, M)
  PROVE  k = l /\ m = n
BY DEF At

(* ... and every index belongs to a pair.                                   *)
LEMMA AtCovers ==
  ASSUME NEW N \in Nat, NEW M \in Nat, M > 0, NEW x \in 0..(N * M - 1)
  PROVE  \E k \in 0..(N - 1), m \in 0..(M - 1) : x = At(k, m, M)
<1>1. /\ x = M * (x \div M) + (x % M)
      /\ x % M \in 0..(M - 1) /\ x \div M \in Nat
  OBVIOUS
<1> DEFINE q == x \div M
           r == x % M
<1> HIDE DEF q, r
<1>2. q \in Nat /\ r \in 0..(M - 1) /\ x = M * q + r
  BY <1>1 DEF q, r
<1>3. q < N
  <2>1. CASE q >= N
    <3>1. M * q >= M * N
      BY <1>2, <2>1
    <3> QED
      BY <1>2, <3>1
  <2> QED
    BY <1>2, <2>1
<1>4. x = At(q, r, M)
  BY <1>2 DEF At
<1> QED
  BY <1>2, <1>3, <1>4

LEMMA RemainderIsUnique ==
  ASSUME NEW C \in Nat \ {0}, NEW q \in Nat, NEW u \in Nat,
         NEW s \in 0..(C - 1), NEW t \in 0..(C - 1), C * q + s = C * u + t
  PROVE  s = t
OBVIOUS

(* A counter of CounterSpace values that is counted up keeps the remainder. *)
LEMMA CountUp ==
  ASSUME NEW C \in Nat \ {0}, NEW a \in Nat
  PROVE  ((a % C) + 1) % C = (a + 1) % C
<1> DEFINE r == a % C
           s == (r + 1) % C
           t == (a + 1) % C
<1>1. a = C * (a \div C) + r /\ r \in Nat /\ a \div C \in Nat
  OBVIOUS
<1>2. r + 1 = C * ((r + 1) \div C) + s /\ s \in 0..(C - 1) /\ (r + 1) \div C \in Nat
  <2> HIDE DEF r
  <2> QED
    BY <1>1
<1>3. a + 1 = C * ((a + 1) \div C) + t /\ t \in 0..(C - 1) /\ (a + 1) \div C \in Nat
  OBVIOUS
<1> HIDE DEF r, s, t
<1>4. PICK q \in Nat, p \in Nat, u \in Nat :
        /\ a = C * q + r /\ r + 1 = C * p + s /\ a + 1 = C * u + t
  BY <1>1, <1>2, <1>3
<1>5. C * (q + p) + s = C * u + t
  BY <1>1, <1>2, <1>3, <1>4
<1>6. s \in 0..(C - 1) /\ t \in 0..(C - 1) /\ q + p \in Nat
  BY <1>2, <1>3
<1>7. s = t
  BY <1>4, <1>5, <1>6, RemainderIsUnique
<1> QED
  BY <1>7 DEF r, s, t

-----------------------------------------------------------------------------
(* The heap.                                                               *)

(* What a context holds. *)
LEMMA ContextHolds ==
  ASSUME NEW k, NEW m
  PROVE  /\ Context(k, m).database = Database(k) /\ Context(k, m).report_map = RMap(k)
         /\ Context(k, m).scratch = Scratch(k, m) /\ Context(k, m).inputData = Input(m)
         /\ Context(k, m).counts = Supports(k)
         /\ Context(k, m).db_off = k /\ Context(k, m).inp_off = m
         /\ RMap(k)[2] = k /\ Supports(k)[2] = k
BY DEF Context, RMap, Supports

(* One more input, counter array or scratch.                                *)
LEMMA BelowNext ==
  ASSUME NEW n \in Nat, NEW k
  PROVE  /\ InputsBelow(n + 1) = InputsBelow(n) \cup {Input(n)}
         /\ SupportsBelow(n + 1) = SupportsBelow(n) \cup {Supports(n)}
         /\ ScratchesBelow(k, n + 1) = ScratchesBelow(k, n) \cup {Scratch(k, n)}
BY DEF InputsBelow, SupportsBelow, ScratchesBelow

LEMMA BelowZero ==
  ASSUME NEW k, NEW M
  PROVE  /\ InputsBelow(0) = {} /\ SupportsBelow(0) = {}
         /\ ScratchesBelow(k, 0) = {} /\ DatabasesBelow(0, M) = {}
BY DEF InputsBelow, SupportsBelow, ScratchesBelow, DatabasesBelow

(* One more database, with its report map and its scratches.                *)
LEMMA DatabasesBelowNext ==
  ASSUME NEW n \in Nat, NEW M
  PROVE  DatabasesBelow(n + 1, M) =
           DatabasesBelow(n, M) \cup {Database(n), RMap(n)} \cup ScratchesBelow(n, M)
<1>1. 0..((n + 1) - 1) = (0..(n - 1)) \cup {n}
  OBVIOUS
<1> QED
  BY <1>1 DEF DatabasesBelow

(* The serialized database and the scratch prototype are nothing else.      *)
LEMMA TemporariesDiffer ==
  ASSUME NEW k, NEW n, NEW l, NEW M,
         NEW o \in {Serialized(k), Prototype(k)}
  PROVE  /\ o \notin InputsBelow(M) \cup DatabasesBelow(n, M) \cup SupportsBelow(n)
         /\ o \notin {RMap(k), Database(k), Supports(k)} \cup ScratchesBelow(k, l)
BY DEF InputsBelow, DatabasesBelow, SupportsBelow, ScratchesBelow,
       Serialized, Prototype, RMap, Database, Supports, Scratch, Input

(* Whatever is counted below the numbers of databases and inputs is one of  *)
(* the objects of this run.                                                 *)
LEMMA AreObjects ==
  /\ \A k \in Inputs : Input(k) \in Objects
  /\ \A k \in Dbs : {Serialized(k), RMap(k), Database(k), Supports(k), Prototype(k)} \subseteq Objects
  /\ \A k \in Dbs, m \in Inputs : Scratch(k, m) \in Objects
<1>1. \A k \in Inputs : Input(k) \in Objects
  BY DEF Objects
<1>2. ASSUME NEW k \in Dbs
      PROVE  {Serialized(k), RMap(k), Database(k), Supports(k), Prototype(k)} \subseteq Objects
  <2> DEFINE F(l) == {Serialized(l), RMap(l), Database(l), Supports(l), Prototype(l)}
  <2>1. F(k) \subseteq UNION {F(l) : l \in Dbs}
    OBVIOUS
  <2>2. UNION {F(l) : l \in Dbs} \subseteq Objects
    BY DEF Objects
  <2> QED
    BY <2>1, <2>2
<1>3. ASSUME NEW k \in Dbs, NEW m \in Inputs
      PROVE  Scratch(k, m) \in Objects
  <2>1. Scratch(k, m) \in {Scratch(l, n) : l \in Dbs, n \in Inputs}
    OBVIOUS
  <2> QED
    BY <2>1 DEF Objects
<1> QED
  BY <1>1, <1>2, <1>3

LEMMA LoadedAreObjects ==
  ASSUME NumDbs \in Nat, NumInputs \in Nat, NEW n \in 0..NumDbs
  PROVE  /\ Loaded(n) \subseteq Objects
         /\ \A k \in 0..NumInputs : InputsBelow(k) \subseteq Objects
         /\ \A k \in Dbs : \A l \in 0..NumInputs : ScratchesBelow(k, l) \subseteq Objects
<1>1. \A k \in 0..NumInputs : InputsBelow(k) \subseteq Objects
  BY AreObjects DEF InputsBelow, Inputs
<1>2. \A k \in Dbs : \A l \in 0..NumInputs : ScratchesBelow(k, l) \subseteq Objects
  BY AreObjects DEF ScratchesBelow, Inputs
<1>3. DatabasesBelow(n, NumInputs) \subseteq Objects
  BY <1>2, AreObjects DEF DatabasesBelow, Dbs
<1>4. SupportsBelow(n) \subseteq Objects
  BY AreObjects DEF SupportsBelow, Dbs
<1> QED
  BY <1>1, <1>2, <1>3, <1>4 DEF Loaded, SupportsIf

(* What the handlers of main free, in these terms. *)
LEMMA FreedSets ==
  /\ AllInputs = InputsBelow(NumInputs)
  /\ \A k : ScratchesOf(k) = ScratchesBelow(k, NumInputs)
  /\ Earlier \cup EarlierScratches = DatabasesBelow(i, NumInputs) \cup SupportsIf(i)
<1>1. AllInputs = InputsBelow(NumInputs)
  BY DEF AllInputs, InputsBelow, Inputs
<1>2. \A k : ScratchesOf(k) = ScratchesBelow(k, NumInputs)
  BY DEF ScratchesOf, ScratchesBelow, Inputs
<1>3. Earlier \cup EarlierScratches = DatabasesBelow(i, NumInputs) \cup SupportsIf(i)
  BY <1>2 DEF Earlier, EarlierScratches, DatabasesBelow, SupportsIf, SupportsBelow, SupportsOf
<1> QED
  BY <1>1, <1>2, <1>3

-----------------------------------------------------------------------------
(* Steps.                                                                  *)

(* Once the arguments are sorted no index set and no object changes.        *)
LEMMA SameShape ==
  ASSUME UNCHANGED command_line
  PROVE  /\ support' = support /\ argv' = argv
         /\ db_fns' = db_fns /\ input_fns' = input_fns
         /\ NumDbs' = NumDbs /\ NumInputs' = NumInputs /\ NumContexts' = NumContexts
         /\ Dbs' = Dbs /\ Inputs' = Inputs /\ Reports' = Reports /\ Objects' = Objects
BY DEF command_line, NumDbs, NumInputs, NumContexts, Dbs, Inputs, Reports, Objects

LEMMA ArgumentsUnchanged ==
  ASSUME Arguments, UNCHANGED command_line
  PROVE  Arguments'
BY SameShape DEF Arguments

LEMMA Sizes ==
  ASSUME Arguments
  PROVE  NumDbs \in Nat /\ NumInputs \in Nat /\ NumContexts \in Nat
BY DEF Arguments, NumDbs, NumInputs, NumContexts

LEMMA InitInv == Init => IInv
<1> SUFFICES ASSUME Init
             PROVE  IInv
  OBVIOUS
<1>1. Arguments
  <2>1. argv \in Seq(Seq(STRING))
    BY CommandLinesAssumption, Zenon DEF Init
  <2>2. db_fns \in Seq(Seq(STRING)) /\ input_fns \in Seq(Seq(STRING))
    BY DEF Init
  <2> QED
    BY <2>1, <2>2 DEF Init, Arguments
<1>2. Phased
  BY DEF Init, Phased, Phases, Fresh
<1>3. Heap
  BY DEF Init, Heap, frees, ExitsLeave, FreedOnce
<1>4. DOMAIN contexts = {} /\ DOMAIN counts = {} /\ DOMAIN garbage = {}
  BY DEF Init
<1>5. Stored
  BY <1>4 DEF Init, Stored
<1>6. Counters
  BY <1>4 DEF Init, Counters
<1>7. Scanned
  BY DEF Init, Scanned
<1> QED
  BY <1>1, <1>2, <1>3, <1>5, <1>6, <1>7 DEF IInv

(* Before the exit nothing has been freed wrongly.                           *)
LEMMA NothingFreed ==
  ASSUME frees' = <<{}, {}>>, code' = -1
  PROVE  misfreed' \subseteq Objects' /\ plain_freed' \subseteq Objects' /\ ExitsLeave' /\ FreedOnce'
BY DEF frees, ExitsLeave, FreedOnce

(* What an exit leaves is in terms that do not change as it happens.        *)
LEMMA SameObjects ==
  ASSUME UNCHANGED <<command_line, i, j>>
  PROVE  /\ AllInputs' = AllInputs /\ Earlier' = Earlier /\ EarlierScratches' = EarlierScratches
         /\ EarlierDatabases' = EarlierDatabases
BY SameShape DEF AllInputs, Earlier, EarlierScratches, EarlierDatabases, SupportsOf, ScratchesOf

(* main returns.  What an exit must free depends on its code.               *)
LEMMA ExitInv ==
  ASSUME IInv, Fresh \/ Accepted, pc # "exited",
         NEW status \in {0, 1, 2, 3, 4, 5, 7, 45}, NEW freed \in SUBSET live,
         NEW again \in SUBSET Objects, NEW plain \in SUBSET Objects,
         Exit(status, freed, again, plain),
         status \in {0, 3, 4, 5} => live \subseteq freed,
         status = 2 => live \ freed = AllInputs \cup Earlier \cup EarlierScratches,
         status = 7 => live \ freed = {Prototype(i)} \cup {Scratch(i, m) : m \in 0..(j - 1)},
         again = IF status = 7 THEN {Input(j)} ELSE {},
         status = 0 => plain = {Database(k) : k \in Dbs} /\ pc = "cleanup"
  PROVE  IInv'
<1>1. /\ UNCHANGED <<command_line, i, j, loading, output>>
      /\ pc' = "exited" /\ code' = status
      /\ live' = live \ freed /\ misfreed' = again /\ plain_freed' = plain
  BY DEF Exit, IInv, Heap, frees
<1>2. Arguments'
  BY <1>1, ArgumentsUnchanged DEF IInv
<1>3. Phased'
  <2>1. Accepted => Accepted'
    BY <1>1, SameShape DEF Accepted, loading, output
  <2>2. Fresh => Fresh'
    BY <1>1 DEF Fresh, loading
  <2> QED
    BY <1>1, <2>1, <2>2 DEF IInv, Phased, Phases
<1>4. Heap'
  <2>1. ExitsLeave' /\ FreedOnce'
    BY <1>1, SameShape, SameObjects DEF ExitsLeave, FreedOnce
  <2> QED
    BY <1>1, <2>1, SameShape DEF IInv, Heap
<1>5. Stored' /\ Counters'
  BY <1>1, SameShape DEF IInv, Stored, Counters, Context, loading
<1>6. Scanned'
  BY <1>1, SameShape DEF IInv, Scanned, Printed, loading, output
<1> QED
  BY <1>2, <1>3, <1>4, <1>5, <1>6 DEF IInv

(* The null pointer after -t and the unassigned error end the program.      *)
LEMMA CrashInv ==
  ASSUME IInv, Fresh \/ Accepted, Crash, pc # "exited"
  PROVE  IInv'
<1>1. /\ UNCHANGED <<command_line, i, j, loading, live, frees, output>>
      /\ pc' = "exited" /\ code' = -2
  BY DEF Crash
<1>2. Arguments'
  BY <1>1, ArgumentsUnchanged DEF IInv
<1>3. Phased'
  <2>1. Accepted => Accepted'
    BY <1>1, SameShape DEF Accepted, loading, output
  <2>2. Fresh => Fresh'
    BY <1>1 DEF Fresh, loading
  <2> QED
    BY <1>1, <2>1, <2>2 DEF IInv, Phased, Phases
<1>4. Heap'
  BY <1>1, SameShape DEF IInv, Heap, frees, ExitsLeave, FreedOnce
<1>5. Stored' /\ Counters' /\ Scanned'
  BY <1>1, SameShape DEF IInv, Stored, Counters, Scanned, Context, loading
<1> QED
  BY <1>2, <1>3, <1>4, <1>5 DEF IInv

-----------------------------------------------------------------------------
(* The arguments.                                                          *)

(* While the arguments are sorted only the lists change.                    *)
LEMMA SortingInv ==
  ASSUME IInv, Arguments', pc \in {"argc", "args"}, pc' = "args",
         UNCHANGED <<i, j, loading, live, frees, code, output>>
  PROVE  IInv'
<1>1. Phased'
  BY DEF IInv, Phased, Phases, Fresh, loading
<1>2. code = -1 /\ frees = <<{}, {}>> /\ live = {}
  BY DEF IInv, Phased, Heap
<1>3. Heap'
  BY <1>2, NothingFreed DEF Heap
<1>4. DOMAIN contexts = {} /\ DOMAIN counts = {} /\ DOMAIN garbage = {}
  BY DEF IInv, Phased, Fresh
<1>5. Stored'
  BY <1>4 DEF Stored, loading
<1>6. Counters'
  BY <1>4 DEF Counters, loading
<1>7. Scanned'
  BY <1>2 DEF Scanned
<1> QED
  BY <1>1, <1>3, <1>5, <1>6, <1>7 DEF IInv

LEMMA CheckArgcInv ==
  ASSUME IInv, CheckArgc
  PROVE  IInv'
<1>1. pc = "argc" /\ Fresh /\ live = {}
  BY DEF CheckArgc, IInv, Phased, Heap
<1>2. CASE Exit(1, {}, {}, {})
  BY <1>1, <1>2, ExitInv
<1>3. CASE ~Exit(1, {}, {}, {})
  <2>1. pc' = "args" /\ UNCHANGED <<command_line, i, j, loading, live, frees, code, output>>
    BY <1>3 DEF CheckArgc
  <2> QED
    BY <1>1, <2>1, ArgumentsUnchanged, SortingInv DEF IInv
<1> QED
  BY <1>2, <1>3

LEMMA ThreadsInv ==
  ASSUME IInv, Threads
  PROVE  IInv'
<1>1. pc = "args" /\ Fresh /\ argv # <<>>
  BY DEF Threads, AtArg, IInv, Phased
<1>2. CASE Crash
  BY <1>1, <1>2, CrashInv
<1>3. CASE ~Crash
  <2>1. /\ Tail(argv) # <<>> /\ argv' = Tail(Tail(argv))
        /\ UNCHANGED <<support, db_fns, input_fns>>
        /\ UNCHANGED <<pc, i, j, loading, live, frees, code, output>>
    BY <1>3 DEF Threads
  <2>2. Tail(argv) \in Seq(Seq(STRING))
    BY <1>1 DEF IInv, Arguments
  <2>3. argv' \in Seq(Seq(STRING))
    BY <2>1, <2>2
  <2>4. Arguments'
    BY <2>1, <2>3 DEF IInv, Arguments
  <2> QED
    BY <1>1, <2>1, <2>4, SortingInv
<1> QED
  BY <1>2, <1>3

LEMMA SupportInv ==
  ASSUME IInv, Support
  PROVE  IInv'
<1>1. argv' \in Seq(Seq(STRING))
  BY DEF Support, AtArg, IInv, Arguments
<1>2. Arguments'
  BY <1>1 DEF Support, IInv, Arguments
<1> QED
  BY <1>2, SortingInv DEF Support, AtArg

LEMMA FileInv ==
  ASSUME IInv, File
  PROVE  IInv'
<1>1. argv' \in Seq(Seq(STRING)) /\ Head(argv) \in Seq(STRING)
  BY DEF File, AtArg, IInv, Arguments
<1>2. db_fns' \in Seq(Seq(STRING)) /\ input_fns' \in Seq(Seq(STRING))
  <2>1. /\ Append(db_fns, Head(argv)) \in Seq(Seq(STRING))
        /\ Append(input_fns, Head(argv)) \in Seq(Seq(STRING))
    BY <1>1 DEF IInv, Arguments
  <2> QED
    BY <2>1 DEF File, IInv, Arguments
<1>3. Arguments'
  BY <1>1, <1>2 DEF File, IInv, Arguments
<1> QED
  BY <1>3, SortingInv DEF File, AtArg

LEMMA ArgsDoneInv ==
  ASSUME IInv, ArgsDone
  PROVE  IInv'
<1>1. pc = "args" /\ Fresh /\ live = {} /\ frees = <<{}, {}>> /\ code = -1
  BY DEF ArgsDone, IInv, Phased, Heap
<1>2. CASE Exit(45, {}, {}, {})
  BY <1>1, <1>2, ExitInv
<1>3. CASE ~Exit(45, {}, {}, {})
  <2>1. /\ NumDbs # 0 /\ NumInputs # 0 /\ pc' = "inputs"
        /\ count' = [k \in Dbs |-> 0]
        /\ delivered' = [r \in Reports |-> 0]
        /\ scanned' = [p \in Dbs \X Inputs |-> 0]
        /\ printed' = [r \in Reports |-> 0]
        /\ UNCHANGED <<command_line, i, j, contexts, counts, garbage, live, frees, code>>
    BY <1>3 DEF ArgsDone
  <2>2. Arguments'
    BY <2>1, ArgumentsUnchanged DEF IInv
  <2>3. Accepted'
    <3>1. NumDbs' > 0 /\ NumInputs' > 0 /\ 0 \in 0..NumContexts' /\ 0 \in 0..NumInputs'
      BY <2>1, SameShape, Sizes DEF IInv
    <3> QED
      BY <1>1, <2>1, <3>1, SameShape, BoundsAssumption DEF Accepted, Fresh
  <2>4. Phased'
    BY <1>1, <2>1, <2>3 DEF Phased, Phases, Fresh
  <2>5. Heap'
    <3>1. frees' = <<{}, {}>> /\ code' = -1 /\ live' = {} /\ pc' = "inputs" /\ j' = 0
      BY <1>1, <2>1 DEF Fresh
    <3> QED
      BY <3>1, BelowZero, NothingFreed DEF Heap
  <2>6. DOMAIN contexts = {} /\ DOMAIN counts = {} /\ DOMAIN garbage = {}
    BY <1>1 DEF Fresh
  <2>7. Stored'
    BY <2>1, <2>6 DEF Stored
  <2>8. Counters'
    <3>1. \A r \in Reports : ~(r[1] < 0)
      BY DEF Reports, Dbs
    <3> QED
      BY <1>1, <2>1, <2>6, <3>1, SameShape DEF Counters, CountersOf
  <2>9. Scanned'
    BY <1>1, <2>1, <2>6, SameShape DEF Scanned, Untouched
  <2> QED
    BY <2>2, <2>4, <2>5, <2>7, <2>8, <2>9 DEF IInv
<1> QED
  BY <1>2, <1>3

-----------------------------------------------------------------------------
(* Loading.                                                                *)

(* While nothing is scanned, what was delivered, scanned and printed stays. *)
LEMMA UntouchedStays ==
  ASSUME Untouched, UNCHANGED <<command_line, counts, garbage, output>>
  PROVE  Untouched'
BY SameShape DEF Untouched, output

LEMMA ReadInputInv ==
  ASSUME IInv, ReadInput
  PROVE  IInv'
<1>1. /\ pc = "inputs" /\ pc' = "inputs" /\ j < NumInputs
      /\ Accepted /\ code = -1 /\ frees = <<{}, {}>> /\ live = InputsBelow(j) /\ j \in Nat
      /\ live' = live \cup {Input(j)} /\ j' = j + 1
      /\ UNCHANGED <<command_line, i, loading, frees, code, output>>
  BY DEF ReadInput, IInv, Phased, Heap, Accepted
<1>2. Arguments'
  BY <1>1, ArgumentsUnchanged DEF IInv
<1>3. Phased'
  <2>1. j' \in 0..NumInputs
    BY <1>1, Sizes DEF IInv
  <2>2. Accepted'
    BY <1>1, <2>1, SameShape DEF Accepted, loading, output
  <2> QED
    BY <1>1, <2>2 DEF IInv, Phased, Phases
<1>4. Heap'
  <2>1. Input(j) \in Objects
    BY <1>1, AreObjects, Sizes DEF IInv, Inputs
  <2>2. live' = InputsBelow(j')
    BY <1>1, BelowNext
  <2> QED
    BY <1>1, <2>1, <2>2, SameShape, NothingFreed DEF IInv, Heap
<1>5. Stored'
  BY <1>1, SameShape DEF IInv, Stored, Context, loading
<1>6. Counters'
  BY <1>1, SameShape DEF IInv, Counters, CountersOf, loading
<1>7. Scanned'
  BY <1>1, UntouchedStays DEF IInv, Scanned, loading
<1> QED
  BY <1>2, <1>3, <1>4, <1>5, <1>6, <1>7 DEF IInv

LEMMA ReadInputFailsInv ==
  ASSUME IInv, ReadInputFails
  PROVE  IInv'
<1>1. /\ pc = "inputs" /\ Accepted /\ j \in 0..NumInputs /\ live = InputsBelow(j)
      /\ Exit(4, InputsBelow(j), {}, {})
  BY DEF ReadInputFails, IInv, Phased, Heap, Accepted, InputsBelow
<1>2. InputsBelow(j) \subseteq Objects
  BY <1>1 DEF IInv, Heap
<1> QED
  BY <1>1, <1>2, ExitInv

LEMMA InputsDoneInv ==
  ASSUME IInv, InputsDone
  PROVE  IInv'
<1>1. /\ pc = "inputs" /\ pc' = "read" /\ j = NumInputs /\ i = 0
      /\ Accepted /\ code = -1 /\ frees = <<{}, {}>> /\ live = InputsBelow(j)
      /\ UNCHANGED <<command_line, i, j, loading, live, frees, code, output>>
  BY DEF InputsDone, IInv, Phased, Heap
<1>2. Arguments'
  BY <1>1, ArgumentsUnchanged DEF IInv
<1>3. Phased'
  <2>1. Accepted'
    BY <1>1, SameShape DEF Accepted, loading, output
  <2>2. i' \in 0..NumDbs'
    BY <1>1, SameShape, Sizes DEF IInv
  <2> QED
    BY <1>1, <2>1, <2>2 DEF IInv, Phased, Phases
<1>4. Heap'
  <2>1. Loaded(0) = InputsBelow(NumInputs)
    BY BelowZero DEF Loaded, SupportsIf
  <2>2. live' = Loaded(i)'
    BY <1>1, <2>1, SameShape DEF Loaded, SupportsIf
  <2> QED
    BY <1>1, <2>2, SameShape, NothingFreed DEF IInv, Heap
<1>5. Stored'
  <2>1. \A k \in Dbs : ~(k < 0)
    BY DEF Dbs
  <2> QED
    BY <1>1, <2>1, SameShape DEF IInv, Stored, StoredRows, Context, loading
<1>6. Counters'
  BY <1>1, SameShape DEF IInv, Counters, CountersOf, loading
<1>7. Scanned'
  BY <1>1, UntouchedStays DEF IInv, Scanned, loading
<1> QED
  BY <1>2, <1>3, <1>4, <1>5, <1>6, <1>7 DEF IInv

LEMMA ReadDbInv ==
  ASSUME IInv, NEW entries \in 0..MaxReports, ReadDb(entries)
  PROVE  IInv'
<1>1. /\ pc = "read" /\ pc' = "deserialize" /\ i \in Dbs
      /\ Accepted /\ code = -1 /\ frees = <<{}, {}>> /\ live = Loaded(i)
      /\ live' = live \cup {Serialized(i), RMap(i)}
      /\ count' = [count EXCEPT ![i] = entries]
      /\ UNCHANGED <<command_line, i, j, contexts, counts, garbage, frees, code, output>>
  BY Sizes DEF ReadDb, IInv, Phased, Heap, Dbs
<1>2. Arguments'
  BY <1>1, ArgumentsUnchanged DEF IInv
<1>3. Phased'
  <2>1. Accepted'
    BY <1>1, SameShape DEF Accepted, output
  <2> QED
    BY <1>1, <2>1, SameShape DEF IInv, Phased, Phases
<1>4. Heap'
  <2>1. {Serialized(i), RMap(i)} \subseteq Objects
    BY <1>1, AreObjects
  <2>2. live' = Loaded(i)' \cup {Serialized(i), RMap(i)}'
    BY <1>1, SameShape DEF Loaded, SupportsIf
  <2> QED
    BY <1>1, <2>1, <2>2, SameShape, NothingFreed DEF IInv, Heap
<1>5. Stored'
  BY <1>1, SameShape DEF IInv, Stored, StoredRows, Context
<1>6. Counters'
  <2>1. \A r \in Reports : r[1] < i => count'[r[1]] = count[r[1]]
    BY <1>1 DEF Accepted, Reports, Dbs
  <2>2. CountersOf(i)'
    BY <1>1, <2>1, SameShape DEF IInv, Counters, CountersOf
  <2> QED
    BY <1>1, <2>2, SameShape DEF IInv, Counters
<1>7. Scanned'
  BY <1>1, UntouchedStays DEF IInv, Scanned
<1> QED
  BY <1>2, <1>3, <1>4, <1>5, <1>6, <1>7 DEF IInv

(* When a database cannot be read everything is left to the end of the      *)
(* process.                                                                 *)
LEMMA ReadDbFailsInv ==
  ASSUME IInv, ReadDbFails
  PROVE  IInv'
<1>1. /\ pc = "read" /\ Accepted /\ live = Loaded(i) /\ Exit(2, {}, {}, {})
  BY DEF ReadDbFails, IInv, Phased, Heap
<1>2. live \ {} = AllInputs \cup Earlier \cup EarlierScratches
  BY <1>1, FreedSets DEF Loaded
<1> QED
  BY <1>1, <1>2, ExitInv

LEMMA DeserializeInv ==
  ASSUME IInv, NEW left \in [0..(MaxReports - 1) -> Counter], Deserialize(left)
  PROVE  IInv'
<1>1. /\ pc = "deserialize" /\ pc' = "alloc" /\ i \in Dbs
      /\ Accepted /\ code = -1 /\ frees = <<{}, {}>>
      /\ live = Loaded(i) \cup {Serialized(i), RMap(i)}
      /\ live' = live \cup {Database(i)} \cup SupportsOf(i)
      /\ UNCHANGED <<command_line, i, j, count, contexts, frees, code, output>>
  BY DEF Deserialize, IInv, Phased, Heap
<1>2. Arguments'
  BY <1>1, ArgumentsUnchanged DEF IInv
<1>3. Phased'
  <2>1. Accepted'
    BY <1>1, SameShape DEF Accepted, output
  <2> QED
    BY <1>1, <2>1, SameShape DEF IInv, Phased, Phases
<1>4. Heap'
  <2>1. {Database(i)} \cup SupportsOf(i) \subseteq Objects
    BY <1>1, AreObjects DEF SupportsOf
  <2>2. live' = Loaded(i)' \cup {Serialized(i), RMap(i), Database(i)}' \cup SupportsOf(i)'
    BY <1>1, SameShape DEF Loaded, SupportsIf, SupportsOf
  <2> QED
    BY <1>1, <2>1, <2>2, SameShape, NothingFreed DEF IInv, Heap
<1>5. Stored'
  BY <1>1, SameShape DEF IInv, Stored, StoredRows, Context
<1>6. ASSUME ~support
      PROVE  Counters' /\ Untouched'
  <2>1. UNCHANGED <<counts, garbage>>
    BY <1>6 DEF Deserialize
  <2>2. CountersOf(i + 1)'
    BY <1>1, <1>6, <2>1, SameShape DEF IInv, Counters, CountersOf
  <2> QED
    BY <1>1, <2>1, <2>2, SameShape, UntouchedStays DEF IInv, Counters, Scanned
<1>7. ASSUME support
      PROVE  Counters' /\ Untouched'
  <2> DEFINE new == {<<i, k>> : k \in 0..(count[i] - 1)}
  <2>1. /\ counts' = [r \in DOMAIN counts \cup new |->
                        IF r \in DOMAIN counts THEN counts[r] ELSE left[r[2]]]
        /\ garbage' = [r \in DOMAIN counts' |-> IF r[1] = i THEN counts'[r] ELSE garbage[r]]
    BY <1>7 DEF Deserialize, SupportArray
  <2>2. count[i] \in 0..MaxReports
    BY <1>1 DEF Accepted
  <2>3. new \subseteq Reports /\ \A r \in new : r[1] = i /\ left[r[2]] \in Counter
    BY <1>1, <2>2, BoundsAssumption DEF Reports
  <2>4. \A r \in Reports : r \in new <=> r[1] = i /\ r[2] < count[i]
    BY <1>1, <2>2, BoundsAssumption DEF Reports
  <2>5. \A r \in DOMAIN counts : r \in Reports /\ r[1] < i
    BY <1>1 DEF IInv, Counters, CountersOf
  <2> HIDE DEF new
  <2>6. DOMAIN counts' = DOMAIN counts \cup new /\ DOMAIN garbage' = DOMAIN counts'
    BY <2>1
  <2>7. /\ \A r \in DOMAIN counts : counts'[r] = counts[r] /\ garbage'[r] = garbage[r]
        /\ \A r \in new : counts'[r] = left[r[2]] /\ garbage'[r] = counts'[r]
    <3>1. i \in Int /\ \A r \in DOMAIN counts : r[1] # i
      BY <1>1, <2>5 DEF Dbs
    <3>2. \A r \in new : r \notin DOMAIN counts
      BY <2>3, <3>1
    <3> QED
      BY <2>1, <2>3, <2>6, <3>1, <3>2
  <2>8. \A r \in DOMAIN counts' : counts'[r] \in Counter /\ garbage'[r] \in Counter
    BY <2>3, <2>6, <2>7 DEF IInv, Counters
  <2>9. CountersOf(i + 1)'
    <3>1. \A r \in Reports : r[1] < i + 1 <=> r[1] < i \/ r[1] = i
      BY <1>1 DEF Reports, Dbs
    <3>2. \A r \in Reports : r \in DOMAIN counts <=> r[1] < i /\ r[2] < count[r[1]]
      BY <1>1, <1>7 DEF IInv, Counters, CountersOf
    <3> QED
      BY <1>1, <1>7, <2>4, <2>6, <3>1, <3>2, SameShape DEF CountersOf
  <2>10. Counter' = Counter
    BY DEF Counter
  <2>11. Counters'
    BY <1>1, <2>3, <2>6, <2>8, <2>9, SameShape DEF IInv, Counters
  <2>12. Untouched'
    BY <1>1, <2>6, <2>7, SameShape DEF IInv, Scanned, Untouched, output
  <2> QED
    BY <2>11, <2>12
<1>8. Scanned'
  BY <1>1, <1>6, <1>7 DEF Scanned
<1> QED
  BY <1>2, <1>3, <1>4, <1>5, <1>6, <1>7, <1>8 DEF IInv

(* What the failures in a round free besides the objects of that round.     *)
LEMMA FreedWhileLoading ==
  ASSUME NumDbs \in Nat, NumInputs \in Nat, i \in Dbs
  PROVE  /\ AllInputs \cup Earlier \cup EarlierScratches = Loaded(i)
         /\ Loaded(i) \subseteq Objects
         /\ EarlierDatabases \cup EarlierScratches \subseteq Objects
         /\ {Serialized(i), RMap(i), Database(i)} \cup SupportsOf(i) \subseteq Objects
<1>1. AllInputs \cup Earlier \cup EarlierScratches = Loaded(i)
  BY FreedSets DEF Loaded
<1>2. Loaded(i) \subseteq Objects
  BY LoadedAreObjects DEF Dbs
<1>3. {Serialized(i), RMap(i), Database(i)} \cup SupportsOf(i) \subseteq Objects
  BY AreObjects DEF SupportsOf
<1>4. EarlierDatabases \subseteq Earlier
  BY DEF EarlierDatabases, Earlier
<1> QED
  BY <1>1, <1>2, <1>3, <1>4

(* The scratches of a database that is being loaded are none of the earlier  *)
(* databases', nor is the one they are cloned from.                          *)
LEMMA ScratchesStay ==
  ASSUME i \in Nat
  PROVE  ({Prototype(i)} \cup ScratchesBelow(i, j))
           \cap (Loaded(i) \cup {Serialized(i), RMap(i), Database(i)} \cup SupportsOf(i)) = {}
<1>1. ASSUME NEW m
      PROVE  /\ Scratch(i, m) \notin InputsBelow(NumInputs) \cup DatabasesBelow(i, NumInputs)
                                       \cup SupportsBelow(i)
             /\ Scratch(i, m) \notin {Serialized(i), RMap(i), Database(i), Supports(i)}
  BY DEF InputsBelow, DatabasesBelow, SupportsBelow, ScratchesBelow,
     Serialized, RMap, Database, Supports, Scratch, Input
<1>2. /\ Prototype(i) \notin InputsBelow(NumInputs) \cup DatabasesBelow(i, NumInputs)
                               \cup SupportsBelow(i)
      /\ Prototype(i) \notin {Serialized(i), RMap(i), Database(i), Supports(i)}
  BY DEF InputsBelow, DatabasesBelow, SupportsBelow, ScratchesBelow,
     Serialized, RMap, Database, Supports, Scratch, Input, Prototype
<1>3. /\ Loaded(i) \subseteq InputsBelow(NumInputs) \cup DatabasesBelow(i, NumInputs) \cup SupportsBelow(i)
      /\ SupportsOf(i) \subseteq {Supports(i)}
  BY DEF Loaded, SupportsIf, SupportsOf
<1>4. \A o \in ScratchesBelow(i, j) : \E m : o = Scratch(i, m)
  BY DEF ScratchesBelow
<1> QED
  BY <1>1, <1>2, <1>3, <1>4

LEMMA DeserializeFailsInv ==
  ASSUME IInv, DeserializeFails
  PROVE  IInv'
<1> DEFINE freed == {Serialized(i), RMap(i)} \cup AllInputs \cup Earlier \cup EarlierScratches
<1>1. /\ pc = "deserialize" /\ i \in Dbs /\ Accepted
      /\ live = Loaded(i) \cup {Serialized(i), RMap(i)}
      /\ Exit(3, freed, {}, EarlierDatabases \cup EarlierScratches) \/ Crash
  BY DEF DeserializeFails, IInv, Phased, Heap
<1>2. freed = live /\ EarlierDatabases \cup EarlierScratches \subseteq Objects
  BY <1>1, FreedWhileLoading, Sizes DEF IInv
<1> HIDE DEF freed
<1> QED
  BY <1>1, <1>2, ExitInv, CrashInv

LEMMA AllocScratchInv ==
  ASSUME IInv, AllocScratch
  PROVE  IInv'
<1>1. /\ pc = "alloc" /\ pc' = "clone" /\ i \in Dbs /\ j' = 0
      /\ Accepted /\ code = -1 /\ frees = <<{}, {}>>
      /\ live = Loaded(i) \cup {Serialized(i), RMap(i), Database(i)} \cup SupportsOf(i)
      /\ live' = live \cup {Prototype(i)}
      /\ UNCHANGED <<command_line, i, loading, frees, code, output>>
  BY DEF AllocScratch, IInv, Phased, Heap
<1>2. Arguments'
  BY <1>1, ArgumentsUnchanged DEF IInv
<1>3. Phased'
  <2>1. j' \in 0..NumInputs
    BY <1>1, Sizes DEF IInv
  <2>2. Accepted'
    BY <1>1, <2>1, SameShape DEF Accepted, loading, output
  <2> QED
    BY <1>1, <2>2, SameShape DEF IInv, Phased, Phases
<1>4. Heap'
  <2>1. Prototype(i) \in Objects
    BY <1>1, AreObjects
  <2>2. ScratchesBelow(i, j)' = {}
    BY <1>1, BelowZero
  <2>3. live' = Loaded(i)' \cup {Serialized(i), RMap(i), Database(i), Prototype(i)}'
                  \cup SupportsOf(i)' \cup ScratchesBelow(i, j)'
    BY <1>1, <2>2, SameShape DEF Loaded, SupportsIf, SupportsOf
  <2> QED
    BY <1>1, <2>1, <2>3, SameShape, NothingFreed DEF IInv, Heap
<1>5. Stored'
  <2>1. \A m \in Inputs : ~(m < 0)
    BY DEF Inputs
  <2> QED
    BY <1>1, <2>1, SameShape DEF IInv, Stored, StoredRows, Context, loading
<1>6. Counters'
  BY <1>1, SameShape DEF IInv, Counters, CountersOf, loading
<1>7. Scanned'
  BY <1>1, UntouchedStays DEF IInv, Scanned, loading
<1> QED
  BY <1>2, <1>3, <1>4, <1>5, <1>6, <1>7 DEF IInv

LEMMA AllocScratchFailsInv ==
  ASSUME IInv, AllocScratchFails
  PROVE  IInv'
<1> DEFINE freed == {Serialized(i), RMap(i), Database(i)} \cup AllInputs \cup SupportsOf(i)
                      \cup Earlier \cup EarlierScratches
<1>1. /\ pc = "alloc" /\ i \in Dbs /\ Accepted
      /\ live = Loaded(i) \cup {Serialized(i), RMap(i), Database(i)} \cup SupportsOf(i)
      /\ Exit(5, freed, {}, EarlierDatabases \cup EarlierScratches)
  BY DEF AllocScratchFails, IInv, Phased, Heap
<1>2. freed = live /\ EarlierDatabases \cup EarlierScratches \subseteq Objects
  BY <1>1, FreedWhileLoading, Sizes DEF IInv
<1> HIDE DEF freed
<1> QED
  BY <1>1, <1>2, ExitInv

LEMMA CloneScratchInv ==
  ASSUME IInv, CloneScratch
  PROVE  IInv'
<1> DEFINE index == At(i, j, NumInputs)
<1>1. /\ pc = "clone" /\ pc' = "clone" /\ i \in Dbs /\ j \in Inputs /\ j' = j + 1
      /\ Accepted /\ code = -1 /\ frees = <<{}, {}>>
      /\ live = Loaded(i) \cup {Serialized(i), RMap(i), Database(i), Prototype(i)}
                  \cup SupportsOf(i) \cup ScratchesBelow(i, j)
      /\ live' = live \cup {Scratch(i, j)}
      /\ contexts' = [x \in DOMAIN contexts \cup {index} |->
                        IF x = index THEN Context(i, j) ELSE contexts[x]]
      /\ UNCHANGED <<command_line, pc, i, count, counts, garbage, frees, code, output>>
  BY Sizes DEF CloneScratch, StoreAt, At, IInv, Phased, Heap, Accepted, Inputs
<1> HIDE DEF index
<1>2. Arguments'
  BY <1>1, ArgumentsUnchanged DEF IInv
<1>3. Phased'
  <2>1. j' \in 0..NumInputs
    BY <1>1, Sizes DEF IInv, Inputs
  <2>2. Accepted'
    BY <1>1, <2>1, SameShape DEF Accepted, output
  <2> QED
    BY <1>1, <2>2, SameShape DEF IInv, Phased, Phases
<1>4. Heap'
  <2>1. Scratch(i, j) \in Objects
    BY <1>1, AreObjects
  <2>2. ScratchesBelow(i, j)' = ScratchesBelow(i, j) \cup {Scratch(i, j)}
    BY <1>1, BelowNext DEF Inputs
  <2>3. live' = Loaded(i)' \cup {Serialized(i), RMap(i), Database(i), Prototype(i)}'
                  \cup SupportsOf(i)' \cup ScratchesBelow(i, j)'
    BY <1>1, <2>2, SameShape DEF Loaded, SupportsIf, SupportsOf
  <2> QED
    BY <1>1, <2>1, <2>3, SameShape, NothingFreed DEF IInv, Heap
<1>5. Stored'
  <2>1. DOMAIN contexts' = DOMAIN contexts \cup {index}
    BY <1>1
  <2>2. ASSUME NEW x \in DOMAIN contexts'
        PROVE  \E k \in Dbs, m \in Inputs :
                 x = At(k, m, NumInputs) /\ contexts'[x] = Context(k, m)
    <3>1. CASE x = index
      BY <1>1, <3>1 DEF index
    <3>2. CASE x # index
      BY <1>1, <2>1, <3>2 DEF IInv, Stored
    <3> QED
      BY <3>1, <3>2
  <2>3. StoredRows(i)'
    BY <1>1, <2>1, SameShape DEF IInv, Stored, StoredRows
  <2>4. ASSUME NEW m \in Inputs, m < j + 1
        PROVE  At(i, m, NumInputs) \in DOMAIN contexts'
    <3>1. m < j \/ m = j
      BY <1>1, <2>4 DEF Inputs
    <3> QED
      BY <1>1, <2>1, <3>1 DEF IInv, Stored, index
  <2>5. /\ pc' = "clone" /\ i' = i /\ j' = j + 1
        /\ NumInputs' = NumInputs /\ Dbs' = Dbs /\ Inputs' = Inputs
    BY <1>1, SameShape
  <2>6. \A x \in DOMAIN contexts' : \E k \in Dbs', m \in Inputs' :
          x = At(k, m, NumInputs') /\ contexts'[x] = Context(k, m)
    BY <2>2, <2>5
  <2>7. \A m \in Inputs' : m < j' => At(i', m, NumInputs') \in DOMAIN contexts'
    BY <2>4, <2>5
  <2> QED
    BY <2>3, <2>5, <2>6, <2>7 DEF Stored, StoredRows
<1>6. Counters'
  BY <1>1, SameShape DEF IInv, Counters, CountersOf
<1>7. Scanned'
  BY <1>1, UntouchedStays DEF IInv, Scanned
<1> QED
  BY <1>2, <1>3, <1>4, <1>5, <1>6, <1>7 DEF IInv

LEMMA CloneScratchFailsInv ==
  ASSUME IInv, CloneScratchFails
  PROVE  IInv'
<1> DEFINE freed == {Serialized(i), RMap(i), Database(i)} \cup AllInputs \cup SupportsOf(i)
                      \cup Earlier \cup EarlierScratches
<1>1. /\ pc = "clone" /\ i \in Dbs /\ j \in Inputs /\ Accepted
      /\ live = Loaded(i) \cup {Serialized(i), RMap(i), Database(i), Prototype(i)}
                  \cup SupportsOf(i) \cup ScratchesBelow(i, j)
      /\ Exit(7, freed, {Input(j)}, EarlierDatabases \cup EarlierScratches) \/ Crash
  BY Sizes DEF CloneScratchFails, IInv, Phased, Heap, Accepted, Inputs
<1>2. /\ freed = Loaded(i) \cup {Serialized(i), RMap(i), Database(i)} \cup SupportsOf(i)
      /\ {Input(j)} \subseteq Objects /\ EarlierDatabases \cup EarlierScratches \subseteq Objects
  BY <1>1, FreedWhileLoading, AreObjects, Sizes DEF IInv
<1> HIDE DEF freed
<1>3. freed \subseteq live /\ live \ freed = {Prototype(i)} \cup ScratchesBelow(i, j)
  <2>1. i \in Nat
    BY <1>1 DEF Dbs
  <2> QED
    BY <1>1, <1>2, <2>1, ScratchesStay
<1>4. live \ freed = {Prototype(i)} \cup {Scratch(i, m) : m \in 0..(j - 1)}
  BY <1>3 DEF ScratchesBelow
<1> QED
  BY <1>1, <1>2, <1>3, <1>4, ExitInv, CrashInv

(* A round frees what only it needed; the rest of it is what the rounds     *)
(* before it have left.                                                     *)
LEMMA DbDoneInv ==
  ASSUME IInv, DbDone
  PROVE  IInv'
<1>1. /\ pc = "clone" /\ pc' = "read" /\ i \in Dbs /\ j = NumInputs /\ i' = i + 1
      /\ Accepted /\ code = -1 /\ frees = <<{}, {}>>
      /\ live = Loaded(i) \cup {Serialized(i), RMap(i), Database(i), Prototype(i)}
                  \cup SupportsOf(i) \cup ScratchesBelow(i, j)
      /\ live' = live \ {Serialized(i), Prototype(i)}
      /\ UNCHANGED <<command_line, j, loading, frees, code, output>>
  BY DEF DbDone, IInv, Phased, Heap
<1>2. Arguments'
  BY <1>1, ArgumentsUnchanged DEF IInv
<1>3. Phased'
  <2>1. i' \in 0..NumDbs
    BY <1>1, Sizes DEF IInv, Dbs
  <2>2. NumDbs <= NumContexts
    BY <1>1, Sizes DEF IInv, Accepted, NumContexts
  <2>3. i' \in 0..NumContexts
    BY <2>1, <2>2, Sizes DEF IInv
  <2>4. Accepted'
    BY <1>1, <2>3, SameShape DEF Accepted, loading, output
  <2> QED
    BY <1>1, <2>1, <2>4, SameShape DEF IInv, Phased, Phases
<1>4. Heap'
  <2>1. Loaded(i) \cup {RMap(i), Database(i)} \cup SupportsOf(i) \cup ScratchesBelow(i, NumInputs)
          = Loaded(i)'
    <3>1. /\ DatabasesBelow(i + 1, NumInputs) =
               DatabasesBelow(i, NumInputs) \cup {Database(i), RMap(i)} \cup ScratchesBelow(i, NumInputs)
          /\ SupportsBelow(i + 1) = SupportsBelow(i) \cup {Supports(i)}
      BY <1>1, DatabasesBelowNext, BelowNext DEF Dbs
    <3>2. Loaded(i)' = InputsBelow(NumInputs) \cup DatabasesBelow(i + 1, NumInputs)
                         \cup (IF support THEN SupportsBelow(i + 1) ELSE {})
      BY <1>1, SameShape DEF Loaded, SupportsIf
    <3> QED
      BY <3>1, <3>2 DEF Loaded, SupportsIf, SupportsOf
  <2>2. \A o \in {Serialized(i), Prototype(i)} :
          o \notin Loaded(i) \cup {RMap(i), Database(i)} \cup SupportsOf(i)
                     \cup ScratchesBelow(i, NumInputs)
    BY TemporariesDiffer DEF Loaded, SupportsIf, SupportsOf
  <2>3. live' = Loaded(i)'
    BY <1>1, <2>1, <2>2
  <2> QED
    BY <1>1, <2>3, SameShape, NothingFreed DEF IInv, Heap
<1>5. Stored'
  <2>1. ASSUME NEW k \in Dbs, NEW m \in Inputs, k < i + 1
        PROVE  At(k, m, NumInputs) \in DOMAIN contexts
    <3>1. (k < i \/ k = i) /\ m < NumInputs
      BY <1>1, <2>1, Sizes DEF Dbs, Inputs, IInv
    <3> QED
      BY <1>1, <3>1 DEF IInv, Stored, StoredRows
  <2> QED
    BY <1>1, <2>1, SameShape DEF IInv, Stored, StoredRows, Context, loading
<1>6. Counters'
  BY <1>1, SameShape DEF IInv, Counters, CountersOf, loading
<1>7. Scanned'
  BY <1>1, UntouchedStays DEF IInv, Scanned, loading
<1> QED
  BY <1>2, <1>3, <1>4, <1>5, <1>6, <1>7 DEF IInv

LEMMA DbsDoneInv ==
  ASSUME IInv, DbsDone
  PROVE  IInv'
<1>1. /\ pc = "read" /\ pc' = "scan" /\ i = NumDbs /\ i' = 0
      /\ Accepted /\ code = -1 /\ frees = <<{}, {}>> /\ live = Loaded(i)
      /\ UNCHANGED <<command_line, j, loading, live, frees, code, output>>
  BY DEF DbsDone, IInv, Phased, Heap
<1>2. Arguments'
  BY <1>1, ArgumentsUnchanged DEF IInv
<1>3. Phased'
  <2>1. Accepted'
    BY <1>1, SameShape, Sizes DEF IInv, Accepted, loading, output
  <2> QED
    BY <1>1, <2>1, SameShape DEF IInv, Phased, Phases
<1>4. Heap'
  BY <1>1, SameShape, NothingFreed DEF IInv, Heap, Loaded, SupportsIf
<1>5. Stored'
  BY <1>1, SameShape DEF IInv, Stored, StoredRows, Context, loading
<1>6. Counters'
  BY <1>1, SameShape DEF IInv, Counters, CountersOf, loading
<1>7. Scanned'
  <2>1. Untouched
    BY <1>1 DEF IInv, Scanned
  <2>2. Tallied'
    <3>1. ASSUME NEW r \in DOMAIN counts
          PROVE  (garbage[r] + delivered[r]) % CounterSpace = counts[r]
      <4>1. counts[r] \in Counter /\ garbage[r] = counts[r] /\ delivered[r] = 0
        BY <2>1 DEF Untouched, IInv, Counters
      <4> QED
        BY <4>1, BoundsAssumption DEF Counter
    <3>2. printed = delivered
      <4>1. \A r \in Reports : printed[r] = delivered[r]
        BY <2>1 DEF Untouched
      <4> QED
        BY <1>1, <4>1 DEF Accepted
    <3> QED
      BY <1>1, <2>1, <3>1, <3>2, SameShape DEF Tallied, Untouched, loading, output
  <2>3. ScannedBelow'
    <3>1. ASSUME NEW k \in Dbs, NEW m \in Inputs
          PROVE  scanned[<<k, m>>] = 0 /\ ~(At(k, m, NumInputs) < 0)
      <4>1. At(k, m, NumInputs) \in 0..(NumDbs * NumInputs - 1)
        BY AtBounds, Sizes DEF IInv, Dbs, Inputs
      <4> QED
        BY <2>1, <4>1, Sizes DEF IInv, Untouched
    <3> QED
      BY <1>1, <3>1, SameShape DEF ScannedBelow, output
  <2> QED
    BY <1>1, <2>2, <2>3 DEF Scanned
<1> QED
  BY <1>2, <1>3, <1>4, <1>5, <1>6, <1>7 DEF IInv

-----------------------------------------------------------------------------
(* Scanning.                                                               *)

(* The context in use is the one of the pair its index belongs to.          *)
LEMMA CurrentContext ==
  ASSUME IInv, Scanning
  PROVE  \E k \in Dbs, m \in Inputs :
           /\ i \in DOMAIN contexts /\ i = At(k, m, NumInputs) /\ ctx = Context(k, m)
<1>1. pc = "scan" /\ Accepted /\ i \in 0..(NumDbs * NumInputs - 1)
  BY Sizes DEF Scanning, IInv, Phased, Accepted, NumContexts
<1>2. PICK k \in Dbs, m \in Inputs : i = At(k, m, NumInputs)
  BY <1>1, AtCovers, Sizes DEF IInv, Accepted, Dbs, Inputs
<1>3. i \in DOMAIN contexts
  BY <1>1, <1>2, Sizes DEF IInv, Stored, StoredRows, Dbs
<1>4. PICK l \in Dbs, n \in Inputs : i = At(l, n, NumInputs) /\ contexts[i] = Context(l, n)
  BY <1>3 DEF IInv, Stored
<1> QED
  BY <1>3, <1>4 DEF ctx

(* What a match of a report says of the report.                             *)
LEMMA MatchedReport ==
  ASSUME IInv, NEW id \in 0..(MaxReports - 1), Delivers(id)
  PROVE  \E k \in Dbs :
           /\ <<k, id>> \in Reports /\ id < count[k] /\ ReportOf(id) = <<k, id>>
           /\ ctx.report_map[2] = k /\ ctx.counts[2] = k
           /\ delivered' = [delivered EXCEPT ![<<k, id>>] = @ + 1]
           /\ delivered[<<k, id>>] < MaxMatches
<1>1. PICK k \in Dbs, m \in Inputs : ctx = Context(k, m)
  BY CurrentContext DEF Delivers
<1>2. ctx.db_off = k /\ ctx.report_map[2] = k /\ ctx.counts[2] = k
  BY <1>1, ContextHolds
<1> QED
  BY <1>2 DEF Delivers, ReportOf, Reports

(* A match moves neither the loop nor the heap.                             *)
LEMMA MatchInv ==
  ASSUME IInv, Scanning, Accepted', Counters', Tallied',
         UNCHANGED <<command_line, pc, i, j, count, contexts, live, frees, code, scanned>>
  PROVE  IInv'
<1>1. pc = "scan" /\ pc' = "scan" /\ code = -1 /\ code' = -1
  BY DEF Scanning, IInv, Phased
<1>2. Arguments'
  BY ArgumentsUnchanged DEF IInv
<1>3. Phased'
  BY <1>1, SameShape DEF IInv, Phased, Phases
<1>4. Heap'
  BY <1>1, SameShape, NothingFreed DEF IInv, Heap, Loaded, SupportsIf
<1>5. Stored'
  BY <1>1, SameShape DEF IInv, Stored, StoredRows, Context
<1>6. Scanned'
  <2>1. ScannedBelow'
    BY <1>1, SameShape DEF IInv, Scanned, ScannedBelow
  <2> QED
    BY <1>1, <2>1 DEF Scanned
<1> QED
  BY <1>2, <1>3, <1>4, <1>5, <1>6 DEF IInv

LEMMA EventHandlerInv ==
  ASSUME IInv, NEW id \in 0..(MaxReports - 1), eventHandler(id)
  PROVE  IInv'
<1>1. PICK k \in Dbs :
        /\ <<k, id>> \in Reports
        /\ delivered' = [delivered EXCEPT ![<<k, id>>] = @ + 1]
        /\ delivered[<<k, id>>] < MaxMatches
        /\ printed' = [printed EXCEPT ![<<k, id>>] = @ + 1]
  BY MatchedReport DEF eventHandler
<1>2. /\ Scanning /\ ~support /\ pc = "scan" /\ Accepted /\ Tallied
      /\ UNCHANGED <<command_line, pc, i, j, loading, live, frees, code, scanned>>
  BY DEF eventHandler, Delivers, Scanning, IInv, Phased, Scanned
<1>3. Accepted'
  <2>1. delivered[<<k, id>>] + 1 \in 0..MaxMatches /\ printed[<<k, id>>] + 1 \in Nat
    BY <1>1, <1>2, BoundsAssumption DEF Accepted
  <2> QED
    BY <1>1, <1>2, <2>1, SameShape DEF Accepted, loading
<1>4. Counters'
  BY <1>2, SameShape DEF IInv, Counters, CountersOf, Scanning, loading
<1>5. Tallied'
  <2>1. DOMAIN counts = {}
    BY <1>2 DEF IInv, Counters, CountersOf
  <2>2. printed' = delivered'
    BY <1>1, <1>2 DEF Tallied
  <2> QED
    BY <1>2, <2>1, <2>2, SameShape DEF Tallied, loading
<1> QED
  BY <1>2, <1>3, <1>4, <1>5, MatchInv DEF loading

LEMMA SupportEventHandlerInv ==
  ASSUME IInv, NEW id \in 0..(MaxReports - 1), supportEventHandler(id)
  PROVE  IInv'
<1>1. PICK k \in Dbs :
        /\ <<k, id>> \in Reports /\ id < count[k]
        /\ delivered' = [delivered EXCEPT ![<<k, id>>] = @ + 1]
        /\ delivered[<<k, id>>] < MaxMatches
        /\ counts' = [counts EXCEPT ![<<k, id>>] = (@ + 1) % CounterSpace]
  BY MatchedReport DEF supportEventHandler
<1>2. /\ Scanning /\ support /\ pc = "scan" /\ Accepted /\ Tallied
      /\ UNCHANGED <<command_line, pc, i, j, count, contexts, garbage, live, frees, code,
                     scanned, printed>>
  BY DEF supportEventHandler, Delivers, Scanning, IInv, Phased, Scanned
<1> DEFINE r0 == <<k, id>>
<1>3. r0 \in DOMAIN counts /\ DOMAIN counts' = DOMAIN counts
  BY <1>1, <1>2, Sizes DEF IInv, Counters, CountersOf, Dbs
<1>4. /\ delivered[r0] \in Nat /\ delivered'[r0] = delivered[r0] + 1
      /\ \A r \in Reports : r # r0 => delivered'[r] = delivered[r]
  BY <1>1, <1>2, BoundsAssumption DEF Accepted
<1>5. /\ counts'[r0] = (counts[r0] + 1) % CounterSpace
      /\ \A r \in DOMAIN counts : r # r0 => counts'[r] = counts[r]
  BY <1>1, <1>3
<1> HIDE DEF r0
<1>6. garbage[r0] \in Nat /\ counts[r0] = (garbage[r0] + delivered[r0]) % CounterSpace
  BY <1>2, <1>3, BoundsAssumption DEF IInv, Counters, Counter, Tallied
<1>7. counts'[r0] = (garbage[r0] + delivered'[r0]) % CounterSpace
  <2> DEFINE a == garbage[r0] + delivered[r0]
  <2>1. a \in Nat /\ garbage[r0] + delivered'[r0] = a + 1
    BY <1>4, <1>6
  <2>2. counts[r0] = a % CounterSpace
    BY <1>6
  <2> HIDE DEF a
  <2>3. ((a % CounterSpace) + 1) % CounterSpace = (a + 1) % CounterSpace
    BY <2>1, CountUp, BoundsAssumption
  <2> QED
    BY <1>5, <2>1, <2>2, <2>3
<1>8. Accepted'
  <2>1. delivered[<<k, id>>] + 1 \in 0..MaxMatches
    BY <1>1, <1>2, BoundsAssumption DEF Accepted
  <2> QED
    BY <1>1, <1>2, <2>1, SameShape DEF Accepted
<1>9. Counters'
  <2>1. counts'[r0] \in Counter
    BY <1>5, <1>6, <1>3, BoundsAssumption DEF IInv, Counters, Counter
  <2>2. Counter' = Counter
    BY DEF Counter
  <2>3. \A r \in DOMAIN counts : counts'[r] \in Counter /\ garbage[r] \in Counter
    BY <1>5, <2>1 DEF IInv, Counters
  <2> QED
    BY <1>2, <1>3, <2>2, <2>3, SameShape DEF IInv, Counters, CountersOf
<1>10. Tallied'
  <2>1. \A r \in DOMAIN counts : counts'[r] = (garbage[r] + delivered'[r]) % CounterSpace
    BY <1>2, <1>4, <1>5, <1>7 DEF IInv, Counters, Tallied
  <2>2. \A r \in Reports \ DOMAIN counts : delivered'[r] = 0
    BY <1>2, <1>3, <1>4 DEF Tallied
  <2> QED
    BY <1>2, <1>3, <2>1, <2>2, SameShape DEF Tallied
<1> QED
  BY <1>2, <1>8, <1>9, <1>10, MatchInv, Zenon

LEMMA ScanReturnsInv ==
  ASSUME IInv, ScanReturns
  PROVE  IInv'
<1>1. PICK k \in Dbs, m \in Inputs :
        /\ i = At(k, m, NumInputs)
        /\ scanned' = [scanned EXCEPT ![<<k, m>>] = @ + 1]
  <2>1. PICK k \in Dbs, m \in Inputs : i = At(k, m, NumInputs) /\ ctx = Context(k, m)
    BY CurrentContext DEF ScanReturns
  <2>2. ctx.db_off = k /\ ctx.inp_off = m
    BY <2>1, ContextHolds
  <2>3. scanned' = [scanned EXCEPT ![<<k, m>>] = @ + 1]
    BY <2>2 DEF ScanReturns
  <2> QED
    BY <2>1, <2>3
<1>2. /\ Scanning /\ pc = "scan" /\ pc' = "scan" /\ Accepted /\ Tallied /\ ScannedBelow
      /\ code = -1 /\ frees = <<{}, {}>> /\ i \in 0..(NumContexts - 1) /\ i' = i + 1
      /\ UNCHANGED <<command_line, pc, j, loading, live, frees, code, delivered, printed>>
  BY Sizes DEF ScanReturns, Scanning, IInv, Phased, Heap, Scanned, Accepted
<1>3. Arguments'
  BY <1>2, ArgumentsUnchanged DEF IInv
<1>4. Phased'
  <2>1. i' \in 0..NumContexts
    BY <1>2, Sizes DEF IInv
  <2>2. scanned' \in [Dbs \X Inputs -> Nat]
    BY <1>1, <1>2 DEF Accepted
  <2>3. Accepted'
    BY <1>2, <2>1, <2>2, SameShape DEF Accepted, loading
  <2> QED
    BY <1>2, <2>3, SameShape DEF IInv, Phased, Phases
<1>5. Heap'
  BY <1>2, SameShape, NothingFreed DEF IInv, Heap, Loaded, SupportsIf
<1>6. Stored'
  BY <1>2, SameShape DEF IInv, Stored, StoredRows, Context, loading
<1>7. Counters'
  BY <1>2, SameShape DEF IInv, Counters, CountersOf, loading
<1>8. Scanned'
  <2>1. ASSUME NEW l \in Dbs, NEW n \in Inputs
        PROVE  scanned'[<<l, n>>] = IF At(l, n, NumInputs) < i + 1 THEN 1 ELSE 0
    <3>1. At(l, n, NumInputs) \in Int /\ i \in Int
      BY <1>2, AtBounds, Sizes DEF IInv, Dbs, Inputs
    <3>2. CASE l = k /\ n = m
      <4>1. scanned[<<k, m>>] = 0
        BY <1>1, <1>2, <3>1 DEF ScannedBelow
      <4> QED
        BY <1>1, <1>2, <3>1, <3>2, <4>1 DEF Accepted
    <3>3. CASE ~(l = k /\ n = m)
      <4>1. At(l, n, NumInputs) # i
        BY <1>1, <3>3, AtInjective, Sizes DEF IInv, Dbs, Inputs
      <4>2. scanned'[<<l, n>>] = scanned[<<l, n>>]
        BY <1>1, <1>2, <3>3 DEF Accepted
      <4> QED
        BY <1>2, <3>1, <4>1, <4>2 DEF ScannedBelow
    <3> QED
      BY <3>2, <3>3
  <2>2. ScannedBelow' /\ Tallied'
    BY <1>2, <2>1, SameShape DEF ScannedBelow, Tallied, loading
  <2> QED
    BY <1>2, <2>2 DEF Scanned
<1> QED
  BY <1>3, <1>4, <1>5, <1>6, <1>7, <1>8 DEF IInv

LEMMA ScansDoneInv ==
  ASSUME IInv, ScansDone
  PROVE  IInv'
<1>1. /\ pc = "scan" /\ pc' = "cleanup" /\ i = NumContexts
      /\ Accepted /\ Tallied /\ ScannedBelow /\ code = -1 /\ frees = <<{}, {}>>
      /\ CountersOf(NumDbs)
      /\ printed' = IF support
                    THEN [r \in Reports |-> IF r[2] < count[r[1]] THEN counts[r] ELSE 0]
                    ELSE printed
      /\ UNCHANGED <<command_line, i, j, loading, live, frees, code, delivered, scanned>>
  BY DEF ScansDone, IInv, Phased, Heap, Scanned, Counters
<1>2. \A r \in Reports : r \in DOMAIN counts <=> support /\ r[2] < count[r[1]]
  BY <1>1, Sizes DEF IInv, CountersOf, Reports, Dbs
<1>3. Arguments'
  BY <1>1, ArgumentsUnchanged DEF IInv
<1>4. Phased'
  <2>1. \A r \in DOMAIN counts : counts[r] \in Nat
    BY BoundsAssumption DEF IInv, Counters, Counter
  <2>2. printed' \in [Reports -> Nat]
    BY <1>1, <1>2, <2>1 DEF Accepted
  <2>3. Accepted'
    BY <1>1, <2>2, SameShape DEF Accepted, loading
  <2> QED
    BY <1>1, <2>3, SameShape DEF IInv, Phased, Phases
<1>5. Heap'
  BY <1>1, SameShape, NothingFreed DEF IInv, Heap, Loaded, SupportsIf
<1>6. Stored'
  BY <1>1, SameShape DEF IInv, Stored, StoredRows, Context, loading
<1>7. Counters'
  BY <1>1, SameShape DEF IInv, Counters, CountersOf, loading
<1>8. Scanned'
  <2>1. ASSUME NEW r \in Reports
        PROVE  IF support /\ r \in DOMAIN counts
               THEN printed'[r] = (garbage[r] + delivered[r]) % CounterSpace
               ELSE printed'[r] = delivered[r]
    <3>1. CASE support /\ r \in DOMAIN counts
      BY <1>1, <1>2, <3>1 DEF Tallied
    <3>2. CASE support /\ r \notin DOMAIN counts
      BY <1>1, <1>2, <3>2 DEF Tallied
    <3>3. CASE ~support
      BY <1>1, <3>3 DEF Tallied
    <3> QED
      BY <3>1, <3>2, <3>3
  <2>2. ASSUME NEW k \in Dbs, NEW m \in Inputs
        PROVE  scanned[<<k, m>>] = 1
    <3>1. At(k, m, NumInputs) \in 0..(NumDbs * NumInputs - 1) /\ i = NumDbs * NumInputs
      BY <1>1, AtBounds, Sizes DEF IInv, Dbs, Inputs, NumContexts
    <3>2. At(k, m, NumInputs) < i
      BY <3>1, Sizes DEF IInv
    <3> QED
      BY <1>1, <3>2 DEF ScannedBelow
  <2>3. Printed'
    BY <1>1, <2>1, SameShape DEF Printed, loading
  <2>4. (\A p \in Dbs \X Inputs : scanned[p] = 1)'
    BY <1>1, <2>2, SameShape
  <2> QED
    BY <1>1, <2>3, <2>4 DEF Scanned
<1> QED
  BY <1>3, <1>4, <1>5, <1>6, <1>7, <1>8 DEF IInv

AllScratches == {Scratch(k, m) : k \in Dbs, m \in Inputs}
StoredScratches == {contexts[x].scratch : x \in 0..(NumContexts - 1)}

(* The contexts together hold every scratch, and nothing else.              *)
LEMMA ScratchesOfContexts ==
  ASSUME IInv, pc \in {"scan", "cleanup"}
  PROVE  StoredScratches = AllScratches
<1>1. NumInputs > 0 /\ StoredRows(NumDbs)
  BY DEF IInv, Phased, Accepted, Stored
<1>2. ASSUME NEW x \in 0..(NumContexts - 1)
      PROVE  contexts[x].scratch \in AllScratches
  <2>1. PICK k \in Dbs, m \in Inputs : x = At(k, m, NumInputs)
    BY <1>1, <1>2, AtCovers, Sizes DEF IInv, Dbs, Inputs, NumContexts
  <2>2. x \in DOMAIN contexts
    BY <1>1, <2>1, Sizes DEF IInv, StoredRows, Dbs
  <2>3. PICK l \in Dbs, n \in Inputs : contexts[x] = Context(l, n)
    BY <2>2 DEF IInv, Stored
  <2> QED
    BY <2>3, ContextHolds DEF AllScratches
<1>3. ASSUME NEW k \in Dbs, NEW m \in Inputs
      PROVE  Scratch(k, m) \in StoredScratches
  <2> DEFINE x == At(k, m, NumInputs)
  <2>1. x \in DOMAIN contexts /\ x \in 0..(NumContexts - 1)
    <3>1. k \in 0..(NumDbs - 1) /\ m \in 0..(NumInputs - 1) /\ k < NumDbs
      BY Sizes DEF IInv, Dbs, Inputs
    <3>2. x \in 0..(NumContexts - 1)
      BY <3>1, AtBounds, Sizes DEF IInv, NumContexts
    <3>3. x \in DOMAIN contexts
      BY <1>1, <3>1 DEF StoredRows
    <3> QED
      BY <3>2, <3>3
  <2>2. PICK l \in Dbs, n \in Inputs : x = At(l, n, NumInputs) /\ contexts[x] = Context(l, n)
    BY <2>1 DEF IInv, Stored
  <2>3. l = k /\ n = m
    BY <2>2, AtInjective, Sizes DEF IInv, Dbs, Inputs
  <2>4. contexts[x].scratch = Scratch(k, m)
    BY <2>2, <2>3, ContextHolds
  <2> HIDE DEF x
  <2> QED
    BY <2>1, <2>4 DEF StoredScratches
<1> QED
  BY <1>2, <1>3 DEF StoredScratches, AllScratches

LEMMA CleanupInv ==
  ASSUME IInv, Cleanup
  PROVE  IInv'
<1> DEFINE rest == UNION {{Database(k), RMap(k)} \cup SupportsOf(k) : k \in Dbs}
<1>1. pc = "cleanup" /\ Accepted /\ live = Loaded(NumDbs) /\ live \subseteq Objects
      /\ Exit(0, StoredScratches \cup AllInputs \cup rest, {}, {Database(k) : k \in Dbs})
  BY DEF Cleanup, IInv, Phased, Heap, StoredScratches
<1>2. StoredScratches = AllScratches
  BY <1>1, ScratchesOfContexts
<1>3. DatabasesBelow(NumDbs, NumInputs) \cup SupportsIf(NumDbs) = AllScratches \cup rest
  BY DEF DatabasesBelow, ScratchesBelow, SupportsIf, SupportsBelow, SupportsOf, Dbs, Inputs,
         AllScratches
<1> HIDE DEF rest
<1>4. live = StoredScratches \cup AllInputs \cup rest
  BY <1>1, <1>2, <1>3, FreedSets DEF Loaded
<1>5. {Database(k) : k \in Dbs} \subseteq Objects
  BY AreObjects
<1> QED
  BY <1>1, <1>4, <1>5, ExitInv

-----------------------------------------------------------------------------
LEMMA NextInv == IInv /\ [Next]_vars => IInv'
<1> SUFFICES ASSUME IInv, [Next]_vars
             PROVE  IInv'
  OBVIOUS
<1>1. CASE CheckArgc \/ Threads \/ Support \/ File \/ ArgsDone
  BY <1>1, CheckArgcInv, ThreadsInv, SupportInv, FileInv, ArgsDoneInv
<1>2. CASE ReadInput \/ ReadInputFails \/ InputsDone
  BY <1>2, ReadInputInv, ReadInputFailsInv, InputsDoneInv
<1>3. CASE (\E entries \in 0..MaxReports : ReadDb(entries)) \/ ReadDbFails
  BY <1>3, ReadDbInv, ReadDbFailsInv
<1>4. CASE (\E left \in [0..(MaxReports - 1) -> Counter] : Deserialize(left)) \/ DeserializeFails
  BY <1>4, DeserializeInv, DeserializeFailsInv
<1>5. CASE AllocScratch \/ AllocScratchFails \/ CloneScratch \/ CloneScratchFails
  BY <1>5, AllocScratchInv, AllocScratchFailsInv, CloneScratchInv, CloneScratchFailsInv
<1>6. CASE DbDone \/ DbsDone
  BY <1>6, DbDoneInv, DbsDoneInv
<1>7. CASE \E id \in 0..(MaxReports - 1) : eventHandler(id) \/ supportEventHandler(id)
  BY <1>7, EventHandlerInv, SupportEventHandlerInv
<1>8. CASE ScanReturns \/ ScansDone \/ Cleanup
  BY <1>8, ScanReturnsInv, ScansDoneInv, CleanupInv
<1>9. CASE UNCHANGED vars
  <2>1. UNCHANGED <<command_line, pc, i, j, loading, live, frees, code, output>>
    BY <1>9 DEF vars
  <2>2. Arguments'
    BY <2>1, ArgumentsUnchanged DEF IInv
  <2>3. Phased'
    BY <2>1, SameShape DEF IInv, Phased, Phases, Fresh, Accepted, loading, output
  <2>4. Heap'
    <3>1. ExitsLeave' /\ FreedOnce'
      BY <2>1, SameObjects, SameShape DEF IInv, Heap, ExitsLeave, FreedOnce, frees
    <3> QED
      BY <2>1, <3>1, SameShape DEF IInv, Heap, Loaded, SupportsIf, SupportsOf, frees
  <2>5. Stored'
    BY <2>1, SameShape DEF IInv, Stored, StoredRows, Context, loading
  <2>6. Counters'
    BY <2>1, SameShape DEF IInv, Counters, CountersOf, loading
  <2>7. Scanned'
    BY <2>1, SameShape DEF IInv, Scanned, Untouched, Tallied, ScannedBelow, Printed, loading, output
  <2> QED
    BY <2>2, <2>3, <2>4, <2>5, <2>6, <2>7 DEF IInv
<1> QED
  BY <1>1, <1>2, <1>3, <1>4, <1>5, <1>6, <1>7, <1>8, <1>9 DEF Next, Terminated

(* IInv holds in every reachable state. *)
LEMMA Invariance == Spec => []IInv
BY InitInv, NextInv, PTL DEF Spec

-----------------------------------------------------------------------------
(* The command line.                                                       *)

(* The arguments before place k end in n times -t, and not in one more.     *)
Run(k, n) ==
  /\ n \in 0..(k - 1)
  /\ \A l \in (k - n)..(k - 1) : command[l] = T
  /\ k - n = 1 \/ command[k - n - 1] # T

LEMMA RunExists ==
  ASSUME NEW k \in Nat \ {0}
  PROVE  \E n \in Nat : Run(k, n)
<1> DEFINE Starts == {m \in 1..k : \A l \in m..(k - 1) : command[l] = T}
<1>1. Starts \in SUBSET Nat /\ k \in Starts
  OBVIOUS
<1>2. PICK m \in Starts : \A y \in Starts : m <= y
  BY <1>1, LeastExists
<1>3. m \in 1..k /\ \A l \in m..(k - 1) : command[l] = T
  BY <1>2
<1>4. ASSUME m # 1, command[m - 1] = T
      PROVE  FALSE
  <2>1. \A l \in (m - 1)..(k - 1) : l = m - 1 \/ l \in m..(k - 1)
    BY <1>3
  <2>2. m - 1 \in Starts
    BY <1>3, <1>4, <2>1
  <2> QED
    BY <1>2, <1>3, <2>2
<1> HIDE DEF Starts
<1>5. k - (k - m) = m /\ k - m \in 0..(k - 1) /\ k - m \in Nat /\ k - (k - m) - 1 = m - 1
  BY <1>3
<1>6. Run(k, k - m)
  BY <1>3, <1>4, <1>5 DEF Run
<1> QED
  BY <1>5, <1>6

LEMMA RunIsUnique ==
  ASSUME NEW k \in Nat \ {0}, NEW n \in Nat, NEW m \in Nat, Run(k, n), Run(k, m)
  PROVE  n = m
<1>1. ASSUME NEW x \in Nat, NEW y \in Nat, Run(k, x), Run(k, y), x < y
      PROVE  FALSE
  <2>1. y \in 0..(k - 1) /\ k - x # 1 /\ k - x - 1 \in (k - y)..(k - 1)
    BY <1>1 DEF Run
  <2> QED
    BY <1>1, <2>1 DEF Run
<1> QED
  BY <1>1

LEMMA ThreadsRun ==
  ASSUME NEW k \in Nat \ {0}, NEW n \in Nat, Run(k, n)
  PROVE  IsThreads(k) <=> n % 2 = 1
<1>1. ASSUME IsThreads(k)
      PROVE  n % 2 = 1
  <2>1. PICK m \in 1..(k - 1) : /\ m % 2 = 1
                                /\ \A l \in (k - m)..(k - 1) : command[l] = T
                                /\ k - m = 1 \/ command[k - m - 1] # T
    BY <1>1 DEF IsThreads
  <2>2. Run(k, m) /\ m \in Nat
    BY <2>1 DEF Run
  <2> QED
    BY <2>1, <2>2, RunIsUnique
<1>2. ASSUME n % 2 = 1
      PROVE  IsThreads(k)
  <2>1. n \in 1..(k - 1)
    BY <1>2 DEF Run
  <2> QED
    BY <1>2, <2>1 DEF IsThreads, Run
<1> QED
  BY <1>1, <1>2

(* A -t that is not the number of one has its own number behind it, and      *)
(* nothing else has.                                                         *)
LEMMA NumbersFollow ==
  /\ ~IsThreads(1)
  /\ \A k \in Nat \ {0} : IsThreads(k + 1) <=> command[k] = T /\ ~IsThreads(k)
<1>1. ~IsThreads(1)
  BY DEF IsThreads
<1>2. ASSUME NEW k \in Nat \ {0}, command[k] # T
      PROVE  ~IsThreads(k + 1)
  <2> SUFFICES ASSUME NEW n \in 1..k, \A l \in (k + 1 - n)..k : command[l] = T
               PROVE  FALSE
    BY DEF IsThreads
  <2>1. k \in (k + 1 - n)..k
    OBVIOUS
  <2> QED
    BY <1>2, <2>1
<1>3. ASSUME NEW k \in Nat \ {0}, command[k] = T
      PROVE  IsThreads(k + 1) <=> ~IsThreads(k)
  <2>1. PICK n \in Nat : Run(k, n)
    BY RunExists
  <2>2. \A l \in (k - n)..k : l = k \/ l \in (k - n)..(k - 1)
    OBVIOUS
  <2>3. k + 1 - (n + 1) = k - n /\ (k + 1) - 1 = k /\ n + 1 \in Nat /\ k + 1 \in Nat \ {0}
    OBVIOUS
  <2>4. Run(k + 1, n + 1)
    BY <1>3, <2>1, <2>2, <2>3 DEF Run
  <2>5. IsThreads(k) <=> n % 2 = 1
    BY <2>1, ThreadsRun
  <2>6. IsThreads(k + 1) <=> (n + 1) % 2 = 1
    BY <2>3, <2>4, ThreadsRun
  <2>7. (n + 1) % 2 = 1 <=> ~(n % 2 = 1)
    BY <2>1
  <2> QED
    BY <2>5, <2>6, <2>7
<1> QED
  BY <1>1, <1>2, <1>3

(* One more place, behind all others, is one more entry of the list.        *)
LEMMA ListedGrows ==
  ASSUME NEW n \in Nat, NEW places \in SUBSET (1..n), NEW S,
         \A k \in 1..(n + 1) : command[k] \in S
  PROVE  /\ Listed(places) \in Seq(S)
         /\ Listed(places \cup {n + 1}) = Append(Listed(places), command[n + 1])
<1> DEFINE more == places \cup {n + 1}
           c == Cardinality(places)
<1>1. /\ c \in Nat
      /\ \A k \in places : Rank(places, k) \in 0..(c - 1)
      /\ \A r \in 0..(c - 1) : \E k \in places : Rank(places, k) = r
  BY RanksAreIds
<1>2. more \in SUBSET (1..(n + 1)) /\ n + 1 \in Nat
  OBVIOUS
<1>3. IsFiniteSet(places) /\ n + 1 \notin places /\ \A k \in places : k \in 1..n /\ k \in 1..(n + 1)
  <2>1. \A k \in places : k \in 1..n
    OBVIOUS
  <2>2. \A k \in 1..n : k # n + 1 /\ k \in 1..(n + 1)
    OBVIOUS
  <2> QED
    BY <2>1, <2>2, PositionsAreFinite
<1>4. Cardinality(more) = c + 1
  BY <1>3, FS_AddElement
<1>5. \A l, k \in more : Rank(more, l) = Rank(more, k) => l = k
  <2>1. \A m \in Nat : \A P \in SUBSET (1..m) :
          \A l, k \in P : Rank(P, l) = Rank(P, k) => l = k
    BY RanksAreIds
  <2> HIDE DEF more
  <2> QED
    BY <1>2, <2>1
<1>6. \A l, k \in places : Rank(places, l) = Rank(places, k) => l = k
  BY RanksAreIds
<1>7. \A k \in places : Rank(more, k) = Rank(places, k)
  <2> SUFFICES ASSUME NEW k \in places
               PROVE  {l \in more : l < k} = {l \in places : l < k}
    BY Zenon DEF Rank
  <2> QED
    OBVIOUS
<1>8. Rank(more, n + 1) = c
  <2>1. \A k \in 1..n : k < n + 1
    OBVIOUS
  <2>2. ~(n + 1 < n + 1)
    OBVIOUS
  <2>3. {l \in more : l < n + 1} = places
    BY <1>3, <2>1, <2>2
  <2> QED
    BY <2>3, Zenon DEF Rank
<1> DEFINE Place(P, r) == CHOOSE k \in P : Rank(P, k) = r
<1>9. ASSUME NEW P \in {places, more}, NEW r, NEW k \in P, Rank(P, k) = r
      PROVE  Place(P, r) = k
  <2>1. Place(P, r) \in P /\ Rank(P, Place(P, r)) = r
    BY <1>9
  <2> HIDE DEF Place
  <2> QED
    BY <1>5, <1>6, <1>9, <2>1
<1>10. \A P : Listed(P) = [x \in 1..Cardinality(P) |-> command[Place(P, x - 1)]]
  BY DEF Listed, Rank
<1> HIDE DEF Place, more, c
<1>11. ASSUME NEW r \in 0..(c - 1)
       PROVE  Place(places, r) \in places /\ Place(more, r) = Place(places, r)
  <2>1. PICK k \in places : Rank(places, k) = r
    BY <1>1
  <2>2. k \in more /\ Rank(more, k) = r
    BY <1>7, <2>1 DEF more
  <2> QED
    BY <1>9, <2>1, <2>2
<1>12. Place(more, c) = n + 1
  BY <1>8, <1>9 DEF more
<1>13. Listed(places) \in [1..c -> S]
  <2>1. \A x \in 1..c : x - 1 \in 0..(c - 1)
    BY <1>1
  <2>2. \A x \in 1..c : command[Place(places, x - 1)] \in S
    BY <1>3, <1>11, <2>1
  <2> QED
    BY <1>10, <2>2 DEF c
<1>14. Listed(places) \in Seq(S) /\ Len(Listed(places)) = c
  BY <1>1, <1>13, SeqIs
<1>15. Append(Listed(places), command[n + 1]) =
         [x \in 1..(c + 1) |-> IF x <= c THEN Listed(places)[x] ELSE command[n + 1]]
  <2>1. command[n + 1] \in S
    OBVIOUS
  <2> QED
    BY <1>1, <1>14, <2>1
<1>16. Listed(more) = [x \in 1..(c + 1) |-> command[Place(more, x - 1)]]
  BY <1>4, <1>10
<1>17. ASSUME NEW x \in 1..(c + 1)
       PROVE  command[Place(more, x - 1)] = IF x <= c THEN Listed(places)[x] ELSE command[n + 1]
  <2>1. CASE x <= c
    <3>1. x \in 1..c /\ x - 1 \in 0..(c - 1)
      BY <1>1, <2>1
    <3>2. Listed(places)[x] = command[Place(places, x - 1)]
      BY <1>10, <3>1 DEF c
    <3> QED
      BY <1>11, <2>1, <3>1, <3>2
  <2>2. CASE ~(x <= c)
    <3>1. x - 1 = c
      BY <1>1, <2>2
    <3> QED
      BY <1>12, <2>2, <3>1
  <2> QED
    BY <2>1, <2>2
<1>18. Listed(more) = Append(Listed(places), command[n + 1])
  BY <1>15, <1>16, <1>17
<1> QED
  BY <1>14, <1>18 DEF more

DbPlaces(n)    == {k \in 1..n : ~Option(k) /\ IsDb(command[k])}
InputPlaces(n) == {k \in 1..n : ~Option(k) /\ ~IsDb(command[k])}

(* The first n arguments have been taken, and no -t among them still waits   *)
(* for its number.                                                           *)
SortedTo(n) ==
  /\ n \in 0..Len(command)
  /\ argv = SubSeq(command, n + 1, Len(command))
  /\ ~IsThreads(n + 1)
  /\ db_fns = Listed(DbPlaces(n)) /\ input_fns = Listed(InputPlaces(n))
  /\ support <=> \E k \in 1..n : command[k] = SUPPORT /\ ~IsThreads(k)

(* That every file is taken is not inductive: it is about the moment when    *)
(* all of them have been.                                                    *)
Sorted ==
  /\ command \in Seq(Seq(STRING))
  /\ \E n \in Nat : SortedTo(n)
  /\ pc \notin {"argc", "args"} => argv = <<>> \/ (pc = "exited" /\ count = <<>>)

LEMMA SortedAtFirst == Init => Sorted
<1> SUFFICES ASSUME Init
             PROVE  Sorted
  OBVIOUS
<1>1. command \in Seq(Seq(STRING)) /\ argv = command /\ Len(command) \in Nat
  BY CommandLinesAssumption, Zenon, LenProperties DEF Init
<1>2. SubSeq(command, 0 + 1, Len(command)) = command
  BY <1>1
<1>3. DbPlaces(0) = {} /\ InputPlaces(0) = {}
  BY DEF DbPlaces, InputPlaces
<1>4. Listed({}) = <<>>
  BY FS_EmptySet DEF Listed
<1>5. 0 \in 0..Len(command) /\ argv = SubSeq(command, 0 + 1, Len(command))
  BY <1>1, <1>2
<1>6. ~IsThreads(0 + 1)
  <2>1. 0 + 1 = 1
    OBVIOUS
  <2> QED
    BY <2>1, NumbersFollow
<1>7. db_fns = Listed(DbPlaces(0)) /\ input_fns = Listed(InputPlaces(0))
  BY <1>3, <1>4, Zenon DEF Init
<1>8. support <=> \E k \in 1..0 : command[k] = SUPPORT /\ ~IsThreads(k)
  BY DEF Init
<1>9. SortedTo(0)
  BY <1>5, <1>6, <1>7, <1>8, Zenon DEF SortedTo
<1> QED
  BY <1>1, <1>9 DEF Sorted, Init

(* What is left of a command line, and what is left behind its head.        *)
LEMMA RestOf ==
  ASSUME NEW S, NEW line \in Seq(S), NEW n \in Nat, n <= Len(line),
         SubSeq(line, n + 1, Len(line)) # <<>>
  PROVE  /\ n + 1 \in 1..Len(line)
         /\ Head(SubSeq(line, n + 1, Len(line))) = line[n + 1]
         /\ Tail(SubSeq(line, n + 1, Len(line))) = SubSeq(line, n + 2, Len(line))
<1> DEFINE all  == SubSeq(line, n + 1, Len(line))
           rest == SubSeq(line, n + 2, Len(line))
<1>1. Len(line) \in Nat
  OBVIOUS
<1>2. n # Len(line)
  BY <1>1
<1>3. n + 1 \in 1..Len(line)
  BY <1>1, <1>2
<1>4. /\ all \in Seq(S) /\ Len(all) = Len(line) - n
      /\ \A k \in 1..Len(all) : all[k] = line[n + k]
  BY <1>1, <1>3
<1>5. /\ rest \in Seq(S) /\ Len(rest) = Len(line) - n - 1
      /\ \A k \in 1..Len(rest) : rest[k] = line[n + 1 + k]
  BY <1>1, <1>3
<1> HIDE DEF all, rest
<1>6. Head(all) = line[n + 1]
  BY <1>3, <1>4
<1>7. /\ Tail(all) \in Seq(S) /\ Len(Tail(all)) = Len(all) - 1
      /\ \A k \in 1..(Len(all) - 1) : Tail(all)[k] = all[k + 1]
  BY <1>3, <1>4
<1>8. \A k \in 1..(Len(all) - 1) : Tail(all)[k] = rest[k]
  BY <1>3, <1>4, <1>5, <1>7
<1>9. Tail(all) = rest
  BY <1>4, <1>5, <1>7, <1>8, SeqEqual
<1> QED
  BY <1>3, <1>6, <1>9 DEF all, rest

(* The argument that is looked at, and the ones behind it.                  *)
LEMMA NextArgument ==
  ASSUME Sorted, argv # <<>>, NEW n \in Nat, SortedTo(n)
  PROVE  /\ n + 1 \in 1..Len(command) /\ Head(argv) = command[n + 1]
         /\ Tail(argv) = SubSeq(command, n + 2, Len(command))
<1>1. command \in Seq(Seq(STRING)) /\ argv = SubSeq(command, n + 1, Len(command))
  BY DEF Sorted, SortedTo
<1>2. n <= Len(command)
  <2>1. Len(command) \in Nat /\ n \in 0..Len(command)
    BY <1>1 DEF SortedTo
  <2> QED
    BY <2>1
<1> QED
  BY <1>1, <1>2, RestOf

LEMMA CommandStays ==
  ASSUME command' = command
  PROVE  /\ \A k : IsThreads(k)' = IsThreads(k)
         /\ \A n : DbPlaces(n)' = DbPlaces(n) /\ InputPlaces(n)' = InputPlaces(n)
         /\ \A P : Listed(P)' = Listed(P)
BY DEF IsThreads, Option, DbPlaces, InputPlaces, Listed

(* One more argument that is no -t.                                         *)
LEMMA TakesOne ==
  ASSUME Sorted, NEW n \in Nat, SortedTo(n), n + 1 \in 1..Len(command), command[n + 1] # T
  PROVE  /\ ~IsThreads(n + 2)
         /\ Listed(DbPlaces(n)) \in Seq(Seq(STRING)) /\ Listed(InputPlaces(n)) \in Seq(Seq(STRING))
         /\ Listed(DbPlaces(n + 1)) =
              IF command[n + 1] # SUPPORT /\ IsDb(command[n + 1])
              THEN Append(Listed(DbPlaces(n)), command[n + 1]) ELSE Listed(DbPlaces(n))
         /\ Listed(InputPlaces(n + 1)) =
              IF command[n + 1] # SUPPORT /\ ~IsDb(command[n + 1])
              THEN Append(Listed(InputPlaces(n)), command[n + 1]) ELSE Listed(InputPlaces(n))
<1>1. n + 1 \in Nat \ {0} /\ n + 2 = (n + 1) + 1
  OBVIOUS
<1>2. ~IsThreads(n + 2)
  BY <1>1, NumbersFollow
<1>3. Option(n + 1) <=> command[n + 1] = SUPPORT
  BY DEF SortedTo, Option
<1>4. \A k \in 1..(n + 1) : k = n + 1 \/ k \in 1..n
  OBVIOUS
<1>5. DbPlaces(n + 1) = IF command[n + 1] # SUPPORT /\ IsDb(command[n + 1])
                        THEN DbPlaces(n) \cup {n + 1} ELSE DbPlaces(n)
  BY <1>3, <1>4 DEF DbPlaces
<1>6. InputPlaces(n + 1) = IF command[n + 1] # SUPPORT /\ ~IsDb(command[n + 1])
                           THEN InputPlaces(n) \cup {n + 1} ELSE InputPlaces(n)
  BY <1>3, <1>4 DEF InputPlaces
<1>7. DbPlaces(n) \in SUBSET (1..n) /\ InputPlaces(n) \in SUBSET (1..n)
  BY DEF DbPlaces, InputPlaces
<1>8. \A k \in 1..(n + 1) : command[k] \in Seq(STRING)
  <2>1. command \in [1..Len(command) -> Seq(STRING)] /\ Len(command) \in Nat
    BY DEF Sorted
  <2> QED
    BY <2>1
<1>9. /\ Listed(DbPlaces(n)) \in Seq(Seq(STRING))
      /\ Listed(DbPlaces(n) \cup {n + 1}) = Append(Listed(DbPlaces(n)), command[n + 1])
  BY <1>7, <1>8, ListedGrows
<1>10. /\ Listed(InputPlaces(n)) \in Seq(Seq(STRING))
       /\ Listed(InputPlaces(n) \cup {n + 1}) = Append(Listed(InputPlaces(n)), command[n + 1])
  BY <1>7, <1>8, ListedGrows
<1> QED
  BY <1>2, <1>5, <1>6, <1>9, <1>10

LEMMA SortedFile ==
  ASSUME Sorted, File
  PROVE  Sorted'
<1>1. PICK n \in Nat : SortedTo(n)
  BY DEF Sorted
<1>2. argv # <<>> /\ Head(argv) \notin {T, SUPPORT} /\ pc = "args"
      /\ pc' = pc /\ command' = command /\ support' = support /\ argv' = Tail(argv)
  BY DEF File, AtArg
<1>3. /\ n + 1 \in 1..Len(command) /\ Head(argv) = command[n + 1]
      /\ Tail(argv) = SubSeq(command, n + 2, Len(command))
  BY <1>1, <1>2, NextArgument
<1>4. /\ ~IsThreads(n + 2)
      /\ Listed(DbPlaces(n + 1)) = IF IsDb(command[n + 1])
                                   THEN Append(Listed(DbPlaces(n)), command[n + 1])
                                   ELSE Listed(DbPlaces(n))
      /\ Listed(InputPlaces(n + 1)) = IF ~IsDb(command[n + 1])
                                      THEN Append(Listed(InputPlaces(n)), command[n + 1])
                                      ELSE Listed(InputPlaces(n))
  BY <1>1, <1>2, <1>3, TakesOne
<1>5. db_fns' = Listed(DbPlaces(n + 1)) /\ input_fns' = Listed(InputPlaces(n + 1))
  <2>1. db_fns = Listed(DbPlaces(n)) /\ input_fns = Listed(InputPlaces(n))
    BY <1>1 DEF SortedTo
  <2>2. CASE IsDb(command[n + 1])
    <3>1. db_fns' = Append(db_fns, command[n + 1]) /\ input_fns' = input_fns
      BY <1>3, <2>2 DEF File
    <3> QED
      BY <1>4, <2>1, <2>2, <3>1
  <2>3. CASE ~IsDb(command[n + 1])
    <3>1. input_fns' = Append(input_fns, command[n + 1]) /\ db_fns' = db_fns
      BY <1>3, <2>3 DEF File
    <3> QED
      BY <1>4, <2>1, <2>3, <3>1
  <2> QED
    BY <2>2, <2>3
<1>6. support <=> \E k \in 1..(n + 1) : command[k] = SUPPORT /\ ~IsThreads(k)
  <2>1. \A k \in 1..(n + 1) : k = n + 1 \/ k \in 1..n
    OBVIOUS
  <2> QED
    BY <1>1, <1>2, <1>3, <2>1 DEF SortedTo
<1>7. n + 1 \in Nat /\ n + 1 \in 0..Len(command) /\ (n + 1) + 1 = n + 2
  BY <1>3
<1>8. SortedTo(n + 1)'
  BY <1>2, <1>3, <1>4, <1>5, <1>6, <1>7, CommandStays DEF SortedTo
<1> QED
  BY <1>2, <1>7, <1>8 DEF Sorted

LEMMA SortedSupport ==
  ASSUME Sorted, Support
  PROVE  Sorted'
<1>1. PICK n \in Nat : SortedTo(n)
  BY DEF Sorted
<1>2. argv # <<>> /\ Head(argv) = SUPPORT /\ pc = "args" /\ pc' = pc /\ command' = command
      /\ db_fns' = db_fns /\ input_fns' = input_fns /\ support' = TRUE /\ argv' = Tail(argv)
  BY DEF Support, AtArg
<1>3. /\ n + 1 \in 1..Len(command) /\ Head(argv) = command[n + 1]
      /\ Tail(argv) = SubSeq(command, n + 2, Len(command))
  BY <1>1, <1>2, NextArgument
<1>4. SUPPORT # T
  BY DEF SUPPORT, T
<1>5. /\ ~IsThreads(n + 2)
      /\ Listed(DbPlaces(n + 1)) = Listed(DbPlaces(n))
      /\ Listed(InputPlaces(n + 1)) = Listed(InputPlaces(n))
  BY <1>1, <1>2, <1>3, <1>4, TakesOne
<1>6. db_fns' = Listed(DbPlaces(n + 1)) /\ input_fns' = Listed(InputPlaces(n + 1))
  BY <1>1, <1>2, <1>5 DEF SortedTo
<1>7. \E k \in 1..(n + 1) : command[k] = SUPPORT /\ ~IsThreads(k)
  BY <1>1, <1>2, <1>3 DEF SortedTo
<1>8. n + 1 \in Nat /\ n + 1 \in 0..Len(command) /\ (n + 1) + 1 = n + 2
  BY <1>3
<1>9. SortedTo(n + 1)'
  BY <1>2, <1>3, <1>5, <1>6, <1>7, <1>8, CommandStays DEF SortedTo
<1> QED
  BY <1>2, <1>8, <1>9 DEF Sorted

LEMMA SortedThreads ==
  ASSUME Sorted, Threads, pc = "args" => count = <<>>
  PROVE  Sorted'
<1>1. PICK n \in Nat : SortedTo(n)
  BY DEF Sorted
<1>2. argv # <<>> /\ Head(argv) = T /\ pc = "args"
  BY DEF Threads, AtArg
<1>3. /\ n + 1 \in 1..Len(command) /\ Head(argv) = command[n + 1]
      /\ Tail(argv) = SubSeq(command, n + 2, Len(command))
  BY <1>1, <1>2, NextArgument
<1>4. CASE Crash
  <2>1. UNCHANGED command_line /\ pc' = "exited" /\ count' = <<>>
    BY <1>2, <1>4 DEF Crash, loading
  <2>2. SortedTo(n)'
    BY <1>1, <2>1, CommandStays DEF SortedTo, command_line
  <2> QED
    BY <2>1, <2>2 DEF Sorted, command_line
<1>5. CASE ~Crash
  <2>1. Tail(argv) # <<>> /\ argv' = Tail(Tail(argv)) /\ pc' = pc /\ command' = command
        /\ db_fns' = db_fns /\ input_fns' = input_fns /\ support' = support
    BY <1>5 DEF Threads
  <2>2. command \in Seq(Seq(STRING)) /\ Len(command) \in Nat
    BY DEF Sorted
  <2>3. /\ n + 1 \in Nat \ {0} /\ n + 2 \in Nat \ {0}
        /\ (n + 1) + 1 = n + 2 /\ (n + 1) + 2 = n + 3 /\ (n + 2) + 1 = n + 3
    OBVIOUS
  <2>4. n + 2 \in 1..Len(command) /\ Tail(Tail(argv)) = SubSeq(command, n + 3, Len(command))
    <3>1. n + 1 <= Len(command) /\ SubSeq(command, (n + 1) + 1, Len(command)) # <<>>
      BY <1>3, <2>1, <2>3
    <3>2. /\ (n + 1) + 1 \in 1..Len(command)
          /\ Tail(SubSeq(command, (n + 1) + 1, Len(command))) = SubSeq(command, (n + 1) + 2, Len(command))
      BY <2>2, <2>3, <3>1, RestOf
    <3> QED
      BY <1>3, <2>3, <3>2
  <2>5. IsThreads(n + 2) /\ ~IsThreads(n + 3)
    BY <1>1, <1>2, <1>3, <2>3, NumbersFollow DEF SortedTo
  <2>6. Option(n + 1) /\ Option(n + 2) /\ command[n + 1] # SUPPORT
    <3>1. SUPPORT # T
      BY DEF T, SUPPORT
    <3> QED
      BY <1>2, <1>3, <2>5, <3>1 DEF Option
  <2>7. \A k \in 1..(n + 2) : k = n + 1 \/ k = n + 2 \/ k \in 1..n
    OBVIOUS
  <2>8. DbPlaces(n + 2) = DbPlaces(n) /\ InputPlaces(n + 2) = InputPlaces(n)
    BY <2>6, <2>7 DEF DbPlaces, InputPlaces
  <2>9. support <=> \E k \in 1..(n + 2) : command[k] = SUPPORT /\ ~IsThreads(k)
    <3>1. support <=> \E k \in 1..n : command[k] = SUPPORT /\ ~IsThreads(k)
      BY <1>1 DEF SortedTo
    <3>2. \A k \in 1..n : k \in 1..(n + 2)
      OBVIOUS
    <3> QED
      BY <2>5, <2>6, <2>7, <3>1, <3>2
  <2>10. SortedTo(n + 2)'
    <3>1. n + 2 \in 0..Len(command) /\ Len(command') = Len(command)
      BY <2>1, <2>2, <2>4
    <3>2. argv' = SubSeq(command', (n + 2) + 1, Len(command'))
      BY <2>1, <2>3, <2>4
    <3>3. ~IsThreads((n + 2) + 1)'
      BY <2>1, <2>3, <2>5, CommandStays
    <3>4. /\ db_fns' = Listed(DbPlaces(n + 2))'
          /\ input_fns' = Listed(InputPlaces(n + 2))'
      <4>1. /\ db_fns = Listed(DbPlaces(n + 2)) /\ input_fns = Listed(InputPlaces(n + 2))
        BY <1>1, <2>8 DEF SortedTo
      <4> QED
        BY <2>1, <4>1, CommandStays
    <3>5. support' <=> \E k \in 1..(n + 2) : command'[k] = SUPPORT /\ ~IsThreads(k)'
      BY <2>1, <2>9, CommandStays
    <3> QED
      BY <3>1, <3>2, <3>3, <3>4, <3>5, <2>1 DEF SortedTo
  <2> QED
    BY <1>2, <2>1, <2>4, <2>10 DEF Sorted
<1> QED
  BY <1>4, <1>5

(* Sorting ends when nothing is left, and no other step touches the lists.  *)
LEMMA SortedNext == IInv /\ Sorted /\ [Next]_vars => Sorted'
<1> SUFFICES ASSUME IInv, Sorted, [Next]_vars
             PROVE  Sorted'
  OBVIOUS
<1>1. pc \in {"argc", "args"} => count = <<>>
  BY DEF IInv, Phased, Fresh
<1>2. ASSUME UNCHANGED command_line,
             pc' \notin {"argc", "args"} => argv = <<>> \/ (pc' = "exited" /\ count' = <<>>)
      PROVE  Sorted'
  <2>1. PICK n \in Nat : SortedTo(n)
    BY DEF Sorted
  <2>2. SortedTo(n)'
    BY <1>2, <2>1, CommandStays DEF SortedTo, command_line
  <2> QED
    BY <1>2, <2>2 DEF Sorted, command_line
<1>3. CASE File \/ Support \/ Threads
  BY <1>1, <1>3, SortedFile, SortedSupport, SortedThreads
<1>4. CASE CheckArgc \/ ArgsDone
  <2>1. UNCHANGED command_line /\ (pc' = "args" \/ argv = <<>> \/ (pc' = "exited" /\ count' = <<>>))
    BY <1>1, <1>4 DEF CheckArgc, ArgsDone, Exit, loading
  <2> QED
    BY <1>2, <2>1
<1>5. CASE UNCHANGED vars
  <2>1. UNCHANGED <<command_line, pc, count>>
    BY <1>5 DEF vars, loading
  <2> QED
    BY <1>2, <2>1 DEF Sorted
<1>6. ASSUME pc \in {"inputs", "read", "deserialize", "alloc", "clone", "scan", "cleanup"},
             UNCHANGED command_line
      PROVE  Sorted'
  BY <1>2, <1>6 DEF Sorted
<1>7. CASE ReadInput \/ ReadInputFails \/ InputsDone
  BY <1>6, <1>7 DEF ReadInput, ReadInputFails, InputsDone, Exit
<1>8. CASE (\E entries \in 0..MaxReports : ReadDb(entries)) \/ ReadDbFails
  BY <1>6, <1>8 DEF ReadDb, ReadDbFails, Exit
<1>9. CASE (\E left \in [0..(MaxReports - 1) -> Counter] : Deserialize(left)) \/ DeserializeFails
  <2>1. CASE \E left \in [0..(MaxReports - 1) -> Counter] : Deserialize(left)
    BY <1>6, <2>1 DEF Deserialize
  <2>2. CASE DeserializeFails
    BY <1>6, <2>2 DEF DeserializeFails, Exit, Crash
  <2> QED
    BY <1>9, <2>1, <2>2
<1>10. CASE AllocScratch \/ AllocScratchFails \/ CloneScratch \/ CloneScratchFails
  BY <1>6, <1>10 DEF AllocScratch, AllocScratchFails, CloneScratch, CloneScratchFails, Exit, Crash
<1>11. CASE DbDone \/ DbsDone
  BY <1>6, <1>11 DEF DbDone, DbsDone
<1>12. CASE \E id \in 0..(MaxReports - 1) : eventHandler(id) \/ supportEventHandler(id)
  BY <1>6, <1>12 DEF eventHandler, supportEventHandler, Delivers, Scanning
<1>13. CASE ScanReturns \/ ScansDone \/ Cleanup
  BY <1>6, <1>13 DEF ScanReturns, ScansDone, Cleanup, Scanning, Exit
<1> QED
  BY <1>3, <1>4, <1>5, <1>7, <1>8, <1>9, <1>10, <1>11, <1>12, <1>13 DEF Next, Terminated

-----------------------------------------------------------------------------
(* The theorems.                                                           *)

(* The variables of main keep their types; contexts are stored inside their *)
(* array, and what is live or freed wrongly is an object of this run.       *)
THEOREM TypeCorrect == Spec => []TypeOK
<1>1. IInv => TypeOK
  <2> SUFFICES ASSUME IInv
               PROVE  TypeOK
    OBVIOUS
  <2>1. NumDbs \in Nat /\ NumInputs \in Nat /\ NumContexts \in Nat
    BY Sizes DEF IInv
  <2>2. pc \in Phases /\ i \in 0..NumContexts /\ j \in 0..NumInputs
    BY <2>1 DEF IInv, Phased, Fresh, Accepted
  <2>3. Loading => Accepted
    BY DEF IInv, Phased, Phases, Loading, Fresh
  <2>4. ASSUME NEW x \in DOMAIN contexts
        PROVE  /\ x \in 0..(NumContexts - 1)
               /\ \E k \in Dbs, m \in Inputs : contexts[x] = Context(k, m)
    <3>1. PICK k \in Dbs, m \in Inputs :
            x = At(k, m, NumInputs) /\ contexts[x] = Context(k, m)
      BY DEF IInv, Stored
    <3> QED
      BY <2>1, <3>1, AtBounds DEF Dbs, Inputs, NumContexts
  <2> QED
    BY <2>2, <2>3, <2>4 DEF IInv, Arguments, Phased, Heap, Counters, Accepted, TypeOK
<1> QED
  BY <1>1, Invariance, PTL

(* Every scan works on memory that is still allocated and counts in the     *)
(* array of its own database, however many rounds have freed and failed     *)
(* between the storing of its context and its use.                          *)
THEOREM ScansAreSafe == Spec => []ScanUsesLiveObjects
<1>1. IInv => ScanUsesLiveObjects
  <2> SUFFICES ASSUME IInv, Scanning
               PROVE  /\ i \in DOMAIN contexts
                      /\ {ctx.database, ctx.report_map, ctx.scratch, ctx.inputData}
                           \cup SupportsOf(ctx.db_off) \subseteq live
                      /\ ctx.counts = Supports(ctx.db_off) /\ ctx.report_map = RMap(ctx.db_off)
                      /\ support => \A k \in 0..(count[ctx.db_off] - 1) :
                                      <<ctx.db_off, k>> \in DOMAIN counts
    BY DEF ScanUsesLiveObjects
  <2>1. pc = "scan" /\ Accepted /\ live = Loaded(NumDbs) /\ CountersOf(NumDbs)
    BY DEF Scanning, IInv, Phased, Heap, Counters
  <2>2. PICK k \in Dbs, m \in Inputs : i \in DOMAIN contexts /\ ctx = Context(k, m)
    BY CurrentContext
  <2>3. /\ ctx.database = Database(k) /\ ctx.report_map = RMap(k) /\ ctx.scratch = Scratch(k, m)
        /\ ctx.inputData = Input(m) /\ ctx.counts = Supports(k) /\ ctx.db_off = k
    BY <2>2, ContextHolds
  <2>4. {Database(k), RMap(k), Scratch(k, m), Input(m)} \cup SupportsOf(k) \subseteq Loaded(NumDbs)
    BY DEF Loaded, DatabasesBelow, ScratchesBelow, InputsBelow, SupportsIf, SupportsBelow,
           SupportsOf, Dbs, Inputs
  <2>5. ASSUME support, NEW l \in 0..(count[k] - 1)
        PROVE  <<k, l>> \in DOMAIN counts
    <3>1. <<k, l>> \in Reports /\ k < NumDbs /\ l < count[k]
      BY <2>1, <2>5, Sizes, BoundsAssumption DEF IInv, Accepted, Reports, Dbs
    <3> QED
      BY <2>1, <2>5, <3>1 DEF CountersOf
  <2> QED
    BY <2>1, <2>2, <2>3, <2>4, <2>5
<1> QED
  BY <1>1, Invariance, PTL

(* What each exit leaves allocated, in whatever round and after however many *)
(* databases it happens: nothing after a run and after the failures that     *)
(* clean up, all of it when a database cannot be read, and the scratches of  *)
(* the round when one cannot be cloned.                                      *)
THEOREM ExitsRelease == Spec => []ExitsLeave
<1>1. IInv => ExitsLeave
  BY DEF IInv, Heap
<1> QED
  BY <1>1, Invariance, PTL

(* Whichever way main returns, the only object it frees twice is the input   *)
(* whose scratch cannot be cloned, and it frees none that is not allocated.  *)
(* A run that succeeds gives all its databases to free, and nothing else     *)
(* that Hyperscan has a function of its own for.                             *)
THEOREM FreesOnce == Spec => []FreedOnce
<1>1. IInv => FreedOnce
  BY DEF IInv, Heap
<1> QED
  BY <1>1, Invariance, PTL

(* Every input is scanned with every database, once: the one-dimensional    *)
(* array of contexts holds each pair at one place.                          *)
THEOREM PairsAreScanned == Spec => []EveryPairIsScanned
<1>1. IInv => EveryPairIsScanned
  BY DEF IInv, Scanned, EveryPairIsScanned
<1> QED
  BY <1>1, Invariance, PTL

(* What is printed for a report is its matches: a line for each, or their   *)
(* number modulo the width of a counter added to what the array held.       *)
THEOREM MatchesArePrinted == Spec => []PrintsTheMatches
<1>1. IInv => PrintsTheMatches
  BY DEF IInv, Scanned, Printed, PrintsTheMatches
<1> QED
  BY <1>1, Invariance, PTL

(* For command lines of any length, with -t in any places and any number of *)
(* times, the lists have every file that is given, once and in its order.   *)
THEOREM FilesAreTaken == Spec => []EveryFileIsTaken
<1>1. Sorted => EveryFileIsTaken
  <2> SUFFICES ASSUME Sorted, Loading
               PROVE  LET files == {k \in DOMAIN command : ~Option(k)}
                      IN /\ db_fns = Listed({k \in files : IsDb(command[k])})
                         /\ input_fns = Listed({k \in files : ~IsDb(command[k])})
                         /\ support <=> \E k \in DOMAIN command :
                                          command[k] = SUPPORT /\ ~IsThreads(k)
    BY DEF EveryFileIsTaken
  <2>1. command \in Seq(Seq(STRING)) /\ argv = <<>>
    BY DEF Sorted, Loading
  <2>2. PICK n \in Nat : SortedTo(n)
    BY DEF Sorted
  <2>3. Len(command) \in Nat /\ n \in 0..Len(command) /\ SubSeq(command, n + 1, Len(command)) = <<>>
    BY <2>1, <2>2 DEF SortedTo
  <2>4. n = Len(command) /\ DOMAIN command = 1..n
    <3>1. ASSUME n < Len(command)
          PROVE  FALSE
      <4>1. Len(SubSeq(command, n + 1, Len(command))) = Len(command) - n
        BY <2>1, <2>3, <3>1
      <4>2. Len(command) - n # 0 /\ Len(<<>>) = 0
        BY <2>3, <3>1
      <4> QED
        BY <2>3, <4>1, <4>2
    <3> QED
      BY <2>1, <2>3, <3>1
  <2>5. /\ DbPlaces(n) = {k \in {l \in DOMAIN command : ~Option(l)} : IsDb(command[k])}
        /\ InputPlaces(n) = {k \in {l \in DOMAIN command : ~Option(l)} : ~IsDb(command[k])}
    BY <2>4 DEF DbPlaces, InputPlaces
  <2> QED
    BY <2>2, <2>4, <2>5 DEF SortedTo
<1>2. Spec => []Sorted
  BY SortedAtFirst, SortedNext, Invariance, PTL DEF Spec
<1> QED
  BY <1>1, <1>2, PTL
=============================================================================

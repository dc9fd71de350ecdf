# CommPart in TLA+

A verification development for CommPart, a clang pass that turns an MPI send of
a buffer written by an OpenMP loop into a *partitioned* send: the loop's chunks
sign off the partitions of the message they have finished, and the last one to
do so marks the partition ready. The pass is in `mpi_communication_partition/`,
the runtime library its output calls is in `lib/`.

## 1. The system

### Components, their state and their operations

| component | code | state | operations |
| --- | --- | --- | --- |
| runtime library | `lib/correctness-checking-partitioned-impl.{c,h}` | `MPIX_Request`: partition count and length, `partitions_ready`, `is_active`, the two overlap arrays, the access pattern, the persistent request underneath; memcheck's no-access map | `MPIX_Psend_init`, `MPIX_Precv_init`, `MPIX_Pready(_range)`, `MPIX_Start`, `MPIX_Wait`, `MPIX_Request_free`, `signoff_partitions_after_loop_iter` |
| partition layout | `partition_sending_op` in the same file | none: arithmetic on the loop and the message | how many partitions, how long, how many sign-offs each |
| partition size search | `find_valid_partition_size_bytes` | candidate, sign, offset, count | one turn of a do-while |
| emitted program | `insert_partitioning` and below in `insert_changes.cpp` | program order of the emitted calls | init, start, fork, sign-off per chunk, wait, free |
| request hoisting | `move_init_and_free_call` | positions of instructions in nested loops | move init up, free down |
| send analysis | `sending_partitioning.cpp` | the IR | find the last writer of a buffer, decide on partitioning |
| instruction order | `helper.h` | a candidate and whether all comparisons found an order | first/last of two instructions and of a list |
| overlap analysis | `mpi_analysis.cpp` | the IR's dominator trees | completion point, overlapping operations |
| analysis cache | `analysis_results.cpp` | one result per kind of analysis, with the function it is for | look-up or recompute |
| pass driver | `mpi_communication_partition_pass.cpp` | list of sends | handle one after the other |
| microtask model, value reconstruction, MPI tables | `Microtask.cpp`, `insert_changes.cpp` 205-610, `mpi_functions.cpp`, `implementation_specific.cpp` | none beyond the IR | pattern matching, look-ups |
| hand-written client, report filter | `lib/check_impl.c`, `lib/check_valgrind_output.py`, `lib/run_valgrind_check.sh` | two ranks; memcheck's report | use the library right and wrong; count the errors |
| demo codes | `demo-codes/stencil-alike.c`, `2d-stencil.c` | a chain or square of ranks | compute, exchange with neighbours |

### How they interact

The driver hands each send to the send analysis; this asks the overlap analysis
for operations to ignore, finds the fork call that wrote the buffer last and,
if all stores in it follow one affine pattern, calls `insert_partitioning`. That
duplicates the region with one more parameter, for the request, replaces fork
call and send, and moves init and free out of loops. What the next send finds
is the rewritten module, and analyses that may be of another function. The
emitted program then runs without the pass: the main thread calls the runtime
library, and so does, after each of its chunks, every thread of the team. All
of them share one `MPIX_Request`; `local_overlap[i]` and `partitions_ready` are
updated with OpenMP atomics and read without.

### What is hard

* **interleaving**: the sign-offs of one partition by several threads;
* **ordering**: ready not before the last store, sent not before all are ready;
* **numeric edges**: the expected number of sign-offs is computed backwards
  from partitions to chunks, the sign-offs forwards from chunks to partitions,
  both with truncating division; boundaries; the search passing zero;
* **stale state**: what a round leaves in the request for the next one;
* **liveness**: a partition that never becomes ready, a wait for an operation
  nobody started, a search without a bound;
* **protocol sequence**: init, start, wait, free around branches and loops, in
  the program before and after hoisting;
* **order in a flow graph**: the pass compares instructions in pairs, by
  dominance, and concludes what is executed last, where an operation is
  complete, and how far up a value may move;
* **stale analyses**: one result for each kind of analysis, while asking for
  one of them recomputes all of them for another function;
* **deadlock**: a send that starts in its wait, where ranks rely on it to be
  on its way;
* **compiled-out checks**: `NDEBUG` is defined in the header (line 31), so the
  library's assertions do nothing. They are stated as properties here.

`PROJECT.json` lists every hazard at its line, with the properties that would
catch it.

## 2. The modules

| module | what it models |
| --- | --- |
| `PartitionLayout` | C's truncating arithmetic; the access pattern, partition size, count and length, the expected sign-offs (`LocalOverlapCount`) and the partitions a chunk signs off (`SignedOff`), as operators on one call of `partition_sending_op` (a *geometry*). Also the ground truth the C code never sees: which chunks store into which partition (`Writers`). `SoundLayout` says that the two agree, `WellAligned` what a program can look at to know that they do, `FitsInt` that the size of the message does not wrap. |
| `SendingLayout` | one call of `partition_sending_op` for any loop, and what is true of its layout. |
| `PartitionSizeSearch` | `find_valid_partition_size_bytes`, one action per statement, with its division by zero. |
| `MpixRequest` | the fields of `MPIX_Request` that change, one action per `MPIX_*` call. `MPIX_Wait` is split where MPI's progress can be seen: implicit `MPIX_Pready`, start and reset, return. |
| `PartitionedLoop` | the emitted program: main thread, team, and MPI's progress, composed from the two modules above. |
| `PartitionedSend` | the abstract specification: a partition is marked ready only when complete, the message leaves only when all are ready, nothing of one activation is left for the next. |
| `PartitionedLoopInv` | the inductive invariant of `PartitionedLoop`. |
| `FlowGraph` | functions as graphs of instructions, and what LLVM says of them: reachability, the two dominator trees, natural loops (external). `Bracket` says of two instructions that they are executed once for each other. |
| `InstructionOrder` | `get_first_instruction`, `get_last_instruction` of two instructions and of a list, as operators. |
| `InstructionScan` | the two loops of these functions, one action per turn. |
| `LatestModification` | the search for the last modification of a buffer, `get_latest_modification_of_pointer` and below, as operators on a flow graph and the uses of a buffer through two pointers. |
| `OverlapAnalysis` | `mpi_analysis.cpp`: the waits of a request, the completion point of an operation, and the operations that overlap with it. |
| `SendReplacement` | the function that `handle_send_call` leaves behind, executed: fork call with init and start, send replaced by wait and free; with the MPI requests of the other calls in it. |
| `RequestHoisting` | `move_init_and_free_call`: how far up the arguments of init may move, which loops free leaves, and the function that is left behind, executed. |
| `AnalysisCache` | `RequiredAnalysisResults`, and what the pass manager does to earlier results. |
| `PassDriver` | `runOnModule`, `handle_fork_call` and `insert_partitioning` on a module with several sends and regions, with every question they ask of `AnalysisCache`. |
| `PointToPoint` | MPI's matching of sends and receives, buffered or not (external). |
| `RankPrograms` | ranks with teams of threads that run programs of MPI and MPIX calls under memcheck, and the script that judges memcheck's reports. |
| `DemoPrograms` | `check_impl.c`, `stencil-alike.c` and `2d-stencil.c` as such programs, and what the pass makes of a program when it replaces some of its sends. |
| `PartitionLayout_proofs` | truncating division, chunk counting, and that well-aligned loops have sound layouts. |
| `PartitionSizeSearch_proofs` | theorems about the search, and about the layouts that follow from it. |
| `PartitionedLoop_proofs` | theorems about the emitted program, the refinement of `PartitionedSend` among them. |
| `InstructionScan_proofs` | lemmas about flow graphs (paths, dominators, natural loops, brackets) and about the search for the last modification, and theorems about the order of instructions. |
| `SendReplacement_proofs`, `RequestHoisting_proofs` | theorems about the functions that the pass leaves behind. |
| `PassDriver_proofs` | induction on sets of numbers, and theorems about the loop over the sends. |
| `RankPrograms_proofs` | theorems about the report filter, the marks of partitions and the order of messages. |
| `MC*` | instances for TLC. |

### State and actions against the code

`PartitionedLoop` names its variables after the fields of `MPIX_Request`.
`noaccess` is memcheck's no-access map, by partition. `mpc` is the main
thread's next call, `tpc[t]` the next step of thread `t` in a chunk: the body,
the computation of the range (`signoff`), the atomic capture (`capture`), the
comparison with `MPIX_Pready` in it (`compare`). The capture and the comparison
are two steps, because other threads may run between them. `written` and
`signed` are history variables: chunks whose stores are done, chunks counted in
`local_overlap[i]`.

Addresses are relative to the buffer. The loops have the shape that clang's
normalised OpenMP loops and the demo codes have: iterations from 0, one store
each, to `off`, `off + stride`, ... . The pass partitions only loops all of
whose stores compare equal (`handle_fork_call`, lines 631-667), which is why
`curr_min = curr_max` in every geometry that is checked; the operators do not
assume it.

A `MPIX_Pready` is one step: its taint and its increment touch disjoint data,
and nobody reads `partitions_ready` before the join. A chunk's stores are one
step too, at the last of them; the sign-off comes after it.

`LatestModification` extends `OverlapAnalysis`, which extends
`InstructionOrder` and `FlowGraph`; `SendReplacement` and `RequestHoisting`
extend it; `PassDriver` extends `AnalysisCache`; `RankPrograms` extends
`PointToPoint`; its MC module instantiates `DemoPrograms`.

In the modules of the pass the program itself is data: `call.graph` and `func`
are the functions the pass is given. A node of a graph stands for an
instruction; what lies between the nodes does not use the buffer. Dominance is
defined by closed sets of nodes, not by paths: `Dominates(g, a, b)` holds when
some set that contains the entry, and the successors of all its members but
`a`, lacks `b`. That needs no recursion and is what the proofs work with.
A natural loop has its header, and the nodes the header dominates from which
an edge back is reached without passing it. `Encloses(g, a, b)` holds when `a`
dominates `b`, and `b` post-dominates `a` in one iteration of the loops around
`a`, where their edges back leave the function (`Iteration`); loops between the
two run as often as they like. `Bracket` adds that the same loops are around
both.
`InstructionScan` shows that the operator `ExtremeOf`, which the search is
modelled with, is what the loops compute. `SendReplacement` starts with every
function and what the pass finds in it, and then executes the function:
`modified` is the ground truth the pass tries to know. A function with
non-blocking calls is only looked at when it uses MPI as it should: no buffer
is touched while an operation runs on it, every wait waits for what was
started, nothing runs at the end (`UsesMpiProperly` in the MC module). Then
`mpi_request` is the ground truth about which operation each request belongs
to, and `unset` the requests that are no longer set by anything once the send
is gone.

`RequestHoisting` executes the old and the new function at once: `old` holds
what the instructions that init's arguments are computed from (its *leaves*)
yield where they were, `new` what they yield where they have been moved, and
`initialised` what init read when it was called last. Values are only told
apart. The depth that `move_init_and_free_call` asks for is that of
`getParent() - 1`, the address in front of a basic block; no loop has a block
at that address, so LoopInfo answers 0. `moved_up_loop_depth` says so.

In `PassDriver` a module is data as well; what the rewriting adds to it is
state: for each region the function that is forked now, with the requests it
signs off, and the fork call with the requests it passes (`forked`). `results`
is the cache. LLVM's legacy pass manager, asked by a module pass for an
analysis of a function, runs all required analyses on that function. Members
of passes (trees, loops) then show that function, whoever holds a pointer to
them; scalar evolution is a new object and the old one is freed. Where an
answer may be about another function, or comes from freed memory, the step
may go on in either way (`FindModification`, `ReadFreedMemory`).

`RankPrograms` has the blocking calls in two steps, post and wait, so that a
rank can be blocked; `MPIX_Wait` is the call up to its `MPI_Wait`, and the
`MPI_Wait`. `noaccess` is memcheck's map, `report` what memcheck prints, and
`lent` and `raced` are history: the partitions MPI may use, and whether a
thread has stored to one.

Seeded faults, the definitions with an underscore and a word after the name of
the definition they stand next to (`LastToSign_Rereads`), are what a plausible
mistake in the code would be. No specification uses them: `PROJECT.json` says
which property each one breaks.

## 3. The runs

| run | instance | what it shows |
| --- | --- | --- |
| `size_search` | 30 counts, 3 extents, 65 requests (5850 inputs) | the search ends; it divides by zero or returns a size that divides the message, as the closed form says |
| `layout` | 9360 loops | partitions cover the message; on well-aligned loops every partition expects exactly the sign-offs it gets, and all its writers sign it |
| `loop` | 3 threads, 2 rounds, 7 layouts, a peer and `MPI_PROC_NULL` | the emitted program implements `PartitionedSend`; ready means complete; the wait finds all ready; each round starts clean; no assertion of the library is broken; what threads count, capture and mark ready agrees (`TeamInv`); under fairness every partition becomes ready before the join, and the message of each round leaves |
| `chunk_of_one` | 2 threads, 1 round, one layout | the wait does *not* find all partitions ready |
| `instruction_scan` | 195 graphs of five instructions, all lists of the inner three | proven orders are execution orders; a candidate that could always be compared is extreme; the loops compute `ExtremeOf` |
| `send_replacement` | functions of six instructions with branches, one and two loops, continue, early return and a second pointer; functions of seven with `MPI_Isend` or `MPI_Send`, receives, waits, `MPI_Waitall`, `MPI_Finalize` in eight graphs and four styles; eleven functions that lack one of the conditions of a property | uses that can be ordered are searched to the end; what is ignored because it overlaps is not complete; the completion point is the wait that completes the send; a region on every path to its send is the last to modify it, around loops too; if region and wait run once for each other all waits are served |
| `request_reuse` | one request for a receive and the send behind it | the wait of the receive is taken for that of the send |
| `request_hoisting` | 20302 functions: no loop, behind a branch, in a branch, in a loop in a branch, do-while, while, continue, break, also out of a branch, two and three loops; one or two leaves; up to three stores, in use lists of either order; `MPI_Init` called here, maybe in a branch, or elsewhere | where moves are in front and stores have one order, a request is initialised with the arguments each start would have had; init and free that leave the same loops are balanced |
| `hoisted_free` | one argument that changes in the loop | init stays in the loop and free leaves it |
| `pass_driver` | 31440 modules of one to three sends and one or two regions | sends do not depend on those handled before; each request is signed off once; the range covers the stores; trees are current and scalar evolution alive, but for the exceptions the properties name |
| `rank_programs` | `check_impl.c` with 2 and 4 threads; the stencils on 1 to 3 ranks with none, some or all sends replaced, hoisted or not, 1 or 2 iterations; two messages for one rank, of which the later or both start in their wait; two rounds with a receiver that reads what it marks | the texts are ordered, as the theorems ask (`ProgramsAreOrdered`); every program ends; messages arrive in order with the data of their iteration; partitions are marked between init and wait only; the filter fails exactly the racing runs; where only the earlier of two messages for one rank starts in its wait, the text does not send in order (`FirstIsOvertaken`) |
| `delayed_start` | two ranks, `MPI_Isend`, `MPI_Recv`, `MPI_Wait` | with the sends replaced both ranks wait for ever |

**Bounds, and why they are enough.** The layouts of the run `loop` are one of
each kind: one signer per partition, two and three signers, a partition shared
by chunks of different threads, a chunk that signs several partitions, one
partition only, a search that fails, a search that divides by zero. Two rounds
show what one round leaves for the next; the theorems are for any number. Three
threads let a third one interfere between two sign-offs of the same partition.
The search has 5 members as its critical value and 10 iterations as its bound:
counts to 30 and requests to 64 bytes lie on both sides of both. `IntSpan`,
the number of values of an `int`, is set far above every size, so that nothing
wraps: the theorems do not assume it, they assume sound layouts. `MaxRounds`
bounds `round`. Five instructions in a graph give lists of three, the smallest
with an unordered pair and a third element on either side of it; six in
`send_replacement` leave three besides the send, enough for a region, another
modification and a branch, continue or exit between them. The proofs about
`InstructionScan` have no bound on either. Seven instructions with
non-blocking calls leave five places for region, send, its wait, and another
operation with its own. In `RequestHoisting` three loops are one more than the
number at which the loop that climbs to the parent stops climbing
(`loop_to_move`), and three stores (`MaxStores`) are enough for one in front
of, one behind and one in each branch of a leaf. Three sends in `PassDriver`
let the third one find what two earlier ones left. Three ranks make the
middle one of a chain wait on both sides, two iterations let messages of
different iterations meet. In `RankPrograms` a message of a demo code is one
partition; what threads do inside it is the subject of `PartitionedLoop`. In the search, the candidate (an `int`) is assumed to hold its
value: a chunk covers fewer than 2^31 members.

**Fairness.** `FairSpec` gives weak fairness to the main thread, to each thread
of the team (OpenMP threads of a running team are scheduled by the operating
system) and to MPI's progress (an operation that was started completes: the
peer is external). The sequential search takes its next step. The run `loop`
checks safety and liveness under `FairSpec`; the theorems are about `Spec`.
`RankPrograms` is fair to each rank, to the team of each rank and to the
delivery of a message whose send and receive have both started. There is no
fairness for buffering: a program that only ends if MPI buffers does not end.

**Deadlock** is checked in every run but `delayed_start`, whose ranks stop by
waiting for each other, which its property says: the specifications stutter
explicitly where the program has stopped.

## 4. What is proved

With TLAPS, for every value of the constants. `PROJECT.json` lists the
theorems; the assumptions are named in the modules that declare the constants,
and TLC evaluates them in every run.

**The search and the layout** (`SearchAssumption`, `GeometriesAssumption`,
`IntSpanAssumption`).

* `SearchTypeOK`, `SearchIsClosedForm`: `find_valid_partition_size_bytes`
  returns what `FindValidPartitionSizeBytes` says, or divides by zero when it
  says so. The invariant counts the turns: a candidate is `X_start` plus or
  minus an offset that is tied to `loop_count`; 1 divides every message, so
  that the downward candidates end the search before they reach 0, unless they
  start at 5 or less. `SizesDivide`, `SearchIsBounded`: what it returns divides
  the message, and it tries at most two candidates for each member.
* `MessageIsCovered`: partitions make up the message without a rest.
  `LayoutsAreSound`: on a well-aligned loop the expected number of sign-offs
  is the number of those that come. Both conditions of a sign-off, which the
  library computes from addresses, are said in iterations (`InIterations`); the
  chunks that meet them are consecutive, so that their number is a difference
  (`ChunkInterval`), the one that `local_overlap_count` computes. Only messages
  whose size an `int` holds are looked at (`FitsInt`).

**The emitted program** (`LoopAssumption`). `LoopInvariant` and its corollaries
`LoopTypeOK`, `ReadyIsComplete`, `WaitFindsAllReady`, `PartitionsReadyOnce`,
`RoundsStartClean`, `RequestUsedLegally`, `TeamInvariant`; and the refinement,
`LoopImplementsSend`, step by step: each of the library's calls is a step of
`PartitionedSend` or a stutter. All from `SoundGeometries`: every layout is
sound or traps. That is a condition on the loop, not on the protocol.
`AlignedLoopsAreSent` replaces it by what can be read off a loop
(`AlignedGeometries`), with `LayoutsAreSound`'s lemma in between; where it
fails `chunk_of_one` shows what happens.

The argument: thread `t` owns the chunks congruent to `t` modulo the number of
threads, so whether chunk `c` has been counted for partition `i` is a function
of its owner's position (`Counted`). Hence `signed[i]` is known exactly
(`SignedBy`), `local_overlap[i]` is its cardinality (`Counters`), and the
values captured by threads that have not yet compared are distinct numbers from
1 to that cardinality (`Captures`). So when all signers have counted, one
thread and one only holds the expected count, and the partition becomes ready
exactly when that thread compares (`ReadyIff`). The properties alone are not
inductive: without `Captures` two threads could both hold the last value,
without `SignedBy` a chunk could be counted twice or never. TLC checks the part
of `LoopInv` about the team, `TeamInv`, in the run `loop`.

**The order of instructions** (`OrderAssumption`: graphs and lists of any size).

* `OrderTypes`, `ProvenOrderIsExecutionOrder`, `ScanKeepsExtreme`: in a
  function without loops domination and post-domination both imply execution
  order, because a closed set that separates two nodes also separates what
  follows them; a candidate that replaces another keeps what was shown for the
  old one, because what is executed before the new one would be executed
  before the old one too. So the single sweep is right although the proven
  order is not transitive.
* `ScanIsExtremeOf`: the two loops compute `ExtremeOf`, with which the other
  modules of the pass are written.

**The functions the pass leaves behind** (`FunctionsAssumption` of either
module: finite, reducible graphs, any number of nested loops and branches. That
of `SendReplacement` adds what is so in LLVM's data: calls and uses are
instructions of the function, and all of them are listed; a pointer is computed
before it is used and from the buffer (`PointersAreComputed`); MPI requests are
only used by calls that start an operation or wait for one, which use those
their constant arguments name (`RequestsAreNamed`). And it asks the program to
use MPI as it should: a wait has a call in front of it that sets its request
(`SetBeforeWait`), and nothing runs at `MPI_Finalize`, no receive into the
buffer when that is used (`RequestsAreAwaited`). That of `RequestHoisting` adds
that a leaf dominates the region, as what is computed from it does, that the use
list holds all uses of the location, and that region and send are a bracket in
the same loops before anything moves).

* `OneToOneIsEnough`: where region and completion point are a bracket and one
  wait completes the send, start, wait and free follow each other on every
  path, and no wait that is left waits for a request that nobody has set.
* `OrderedIsEnough`: the search for the last modification only stops at
  `assert(false)` when it looks at uses (`Searched`) it cannot order. What is
  searched next are the uses before the one at hand, or none is left; so the
  list is never empty by accident, and the last of a list that can be ordered
  is one of its elements (`ExtremeIsElement`, `LatestOfPointerIsFound`).
* `KnownWaitsAreEnough`: in a function without loops, what is ignored because it
  overlaps with the send still runs there. Its completion point is the first
  of its waits, from which all of them are reached (`FirstReachesAll`); a
  request that nothing runs on any more has been waited for (`ServedInv`), so
  that the first wait would be before the send, and the pass would not take the
  two for overlapping.
* `ConditionsAreEnough`: a region on every path to its send is the last to
  modify the buffer, on every path and around any loops. See below.
* `FollowedRequestIsEnough`: in a function without loops, the wait that completes
  the send is the one the pass takes for its completion point. A wait that is
  reached while the request still belongs to the send has a path from the send
  that passes no other wait for it (`SinceInv`), so it is the first on the one
  path all waits are on. The pass finds it, because the constants name what is
  waited for (`RequestIsFollowed`), and what it finds besides are calls of
  `MPI_Finalize`; of a list that can be ordered, its sweep returns the first.
* `SameLoopsAreEnough`: init on every path to the region, free on every path on
  from init, and init in the loops around the one that free leaves, are enough
  for each start and wait to be enclosed.
* `MovesInFrontAreEnough`: where init and the loads it reads moved in front of
  where they were, what a request was initialised with, maybe many iterations
  ago, is what its arguments would have been right before each start.

`ConditionsAreEnough` is about all that lies *between* the region and the send:
nodes that every path reaches through the region, and from which the send is
reached without it (`Between`). `BetweenInv` says that while the function is
there, the buffer was modified by the region last, and no receive into it runs.
It is inductive because there is no other modification in between: one that is
searched would be behind the region in the order the pass finds, so that the
region would not be its answer (that takes one order, `OneOrder`, and a search
through both pointers, `BothPointersAreSearched`); one that is not searched,
because it comes later in the loop, is behind the send (`LaterIsBehind`), or is
in a loop around both, where `is_location_loop_invariant` sees it. What is
ignored still runs when the send is called (`IgnoredAreKnown`), and no receive
into the buffer does (`AwaitedInv`, from `RequestsAreAwaited`: what is received
into the buffer is waited for before the buffer is used). So nothing started in
front of the region arrives behind it, either.

`MovesInFrontAreEnough` compares two executions, one of which reads early. Its
invariant, `ArgumentsInv`, ties them together wherever the function is
*between* two points, in the same sense: between the place a load moved to and
the load, the memory still holds what the moved load has read; between a leaf
and the region the old and the new result agree; between init and the region
init has read what is in `new` now. Each part holds when its bracket is
entered, because the moved load, the leaf or init has just run there, and a
step that does not enter stays inside (`LeadsBetween`): on the way no store is
met (`NothingStoredBetween`), nor the place a load moved to, which every path
to the leaf and to init has passed. That no store lies there is the search once
more: the place is the answer (`ModificationPointFinds`), and a store in
between would be a later one, or one later in the loop, of which
`is_location_loop_invariant` would have said that the location changes. The
lemmas about the search (`LatestOfEquation`, `SearchAsksAll`, `SearchFinds`)
are those `ConditionsAreEnough` uses.

The invariant for brackets says where in one the function is. *Outside* of the
bracket of `a` and `b` no path leads to `b` but through `a`; *inside*, `b` is
on every path on in this iteration, and no path leads to `a` but through `b`.
Edges from outside to inside start at `a`, those from inside to outside at `b`.
Two steps are about loops. Entering at `a`: a cycle through `a` before `b`
would have a latch of a loop around `a` (`CycleHasLatch`: of the nodes of the
cycles one has no predecessor among them but over edges back, and so is a
header), and taking its edge back is to leave the iteration without `b`.
Leaving at `b`: if `b` were reached again without `a`, the cycle would be that
of a loop which contains `b` and not `a` (`CycleIsLoop`), and the same loops
are around both.

For hoisting there are two brackets. That of init and free has to be shown to
be one, although only init's loops are compared, with those around the loop
that free leaves (`LoopsAroundCalls`): a loop with init in it is not left
before free, and one that free is in is around the whole loop it comes behind.
Then free must not come between region and send: it is outside of a loop that
contains both (`LoopToMove`: the loop that is left contains the region, whether
that is the innermost or the parent), and a path that leaves a loop and comes
back passes the header, and so the region again (`StaysInLoop`). And from the
region free is reached without another init, because a loop is connected
without what is outside of it (`LoopIsConnected`).

**The pass driver** (`ModulesAssumption`: modules with any number of sends and
regions).

* `RequestsAreSignedOff`, `SendsAreIndependent`, `RangesCover`: the sends are
  handled in a sequence that enumerates them, each once (`SendersEnumerate`);
  the requests a region passes enumerate the sends partitioned there
  (`SignoffInv`); a decision is what it would be for the send alone, or an
  answer was stale (`DecisionInv`).
* `TreesStayCurrent`: with all sends and their regions in one function, after
  each group of questions the analyses are those of a known function
  (`TreesInv`), so that the next group finds what it asks for.
* `EvolutionStaysAlive`: the function scalar evolution was asked of last is
  not a region as it is now, unless that was looked at in vain
  (`LastAskedInv`); so it is computed anew when the addresses of a region are
  compared, and stays alive until the caller's trees are asked for, which is
  behind the last expression that is read (`ReadsExpressionsFirst`, `ScevInv`).

**Ranks and their programs** (`ProgramsAssumption`: any programs, ranks,
threads; `MPI_PROC_NULL` is not 0).

* `ReportsAreExact`: as long as partitions are marked between init and wait only
  (`MarksUntilWait`), the script fails exactly the runs in which a thread stored to a
  partition that was lent. Taint and loan of a partition are set together, and
  lifted one call apart: the taint in `MPIX_Wait`, the loan in the `MPI_Wait`
  behind it. No thread runs between the two (`RankInv`), so that an access is
  seen exactly when it is wrong, and the block memcheck names is the buffer of
  the request that lent it.
* `MarksFollowTheText`, `OrderedTextsAreJudged`: the first is that condition, the
  second the judgement without it, for programs whose text has an init in front
  of each mark and an `MPIX_Wait` behind it (`MarksAreOrdered`). `MarkInv` ties
  the execution to the text: a marked partition was marked by a call of the text
  with no `MPIX_Wait` since, and a request is what its last init made of it.
* `MessagesFollowTheText`: if the text of each rank sends on each channel what
  the other side's receives, and waits for all it starts (`SendsAreOrdered`),
  the messages of a channel arrive in the order of the text, each with the data
  of the regions in front of its call, whatever is buffered and also where
  `MPIX_Wait` is what starts the send. A rank's list of operations is *numbered*
  (`Numbered`): each comes from a call of the text, in the text's order, and
  those of one channel are the ones behind the first `n`, where `n` is how many
  have arrived on it (`Done`). So the first of a channel, which MPI matches, is
  the one that is expected next. Both hypotheses are about texts and not
  executions; the run `rank_programs` evaluates them of the programs in `src/`
  and of what the pass makes of them.

What a recursive definition computes is proved by induction on sets of numbers
(`SetInduction`, `AllNaturals`, from the well-foundedness of `<`), as operators
cannot be arguments of the theorems the prover is given. A least element takes
its place where a finite set of nodes is searched (`FirstNode`,
`InnermostLoop`).

**Model-checked only**: liveness (`SearchStops`, `PartitionsBecomeReady`,
`EachRoundIsSent`, `RanksFinish`), which is out of the prover's reach. Every safety
property of a passing run is stated by a theorem.

## 5. Findings

Each of these is a run that TLC ends with a counterexample; `PROJECT.json`
quotes the lines.

1. `chunk_of_one`: the bound passed to the sign-off is inclusive, the callee's
   comment says exclusive. With `schedule(static, 1)` no partition ever becomes
   ready. Because of `NDEBUG` nobody notices: `MPIX_Wait` sends the message as
   a whole, and what is lost is the overlap.
2. `hoisted_free`: the free call leaves a loop in which the init call stays.
3. `delayed_start`: replacing `MPI_Isend` by a send that starts in its wait
   makes a correct program deadlock. The demo codes of the repository, whose
   sends are blocking, or whose receives are posted first, end
   (`rank_programs`). The delayed start can also change the order of
   two messages for one rank, when only the earlier one's send is replaced; no
   program of the repository sends two in one iteration.
4. `request_reuse`: the completion point of a send whose request was used
   before is the wait of the earlier operation.

Conditions under which the passing runs hold, found while writing them; each
is a definition, and without it TLC finds a counterexample:

* `OneToOne` in `SendReplacement`: `handle_send_call` does not ask whether
  region and completion point are executed equally often. A region in one
  branch leaves an `MPIX_Wait` for a request that was never set on the other;
  a send in a loop behind the region waits, in its second iteration, for one
  that was freed.
* `SameLoopsAreBalanced` asks for init to be on every path to the region and in
  just the loops around the one that free leaves (`SameLoops`), and for free to
  be on every path on from init and no loop's header: a loop in the form LLVM
  brings it into is not left for the header of another one, where free would
  run in each iteration. `is_instruction_before` is content with
  either tree: when the region is on every path on from some instruction, init
  may be placed behind it although it stands in a branch, and the other path
  starts a request that was not initialised. Around `if (x) { region; send }`
  init leaves the branch and free does not, so that the request is lost where
  the branch is not taken.
* `RegionOnEveryPathIsLatest`: each of its conditions has a function in
  `Excluded` or `ExcludedReceives` that is compiled wrong without it: in a loop
  that is not rotated two orders of the same pair are proven (`OneOrder`); in
  a loop behind the region the last of three stores in branches may have
  no order with the others; a store in a branch that may leave the loop counts
  as later than the send in the same loop (`LaterIsBehind`); a modification
  through the second pointer is not looked for when the first one has one, and
  that pointer is computed elsewhere (`BothPointersAreSearched`); a receive that is ignored
  although it is complete (`IgnoredAreKnown`).
* `CompletionPointIsFirstWait`: an `MPI_Finalize` on some of the paths only
  cannot be ordered with a wait on others, and leaves the send without a
  completion point (`Ordered(WaitsFound)`); an index of a request, or the count
  of an `MPI_Waitall`, that is no constant, or an `MPI_Waitall` for one scalar
  request, is not followed (`RequestIsFollowed`).
* `WaitsAreKnown`: a receive whose wait is on a path that leaves the function
  is taken for one that overlaps with the send although it is complete, and
  `get_first_instruction` may name a wait in one of two branches.
* `MarksUntilWait`: `stencil-alike.c` waits for the requests of one parity at a
  time; a program that starts a request which still runs breaks the assertion
  of `MPIX_Start` (line 126), which `NDEBUG` removes.
* `Ordered` uses: the second loop of `get_last_instruction` gives up exactly
  when another element is proven to lie before the candidate, which is what it
  is there to establish. A buffer written in both branches of an `if` and used
  behind it stops the pass at `assert(false)` (`sending_partitioning.cpp` 379).
  The uses are those the send can be reached from; in a loop they are all uses
  (`Searched`), because an empty list means all uses to the search (line 266),
  and `is_location_loop_invariant` passes one when the loop has no other use.
  Then a location that is only written outside of the loop does not count as
  invariant either.
* `ArgumentsAreCurrent`: for each of its conditions `MCRequestHoisting` has
  functions that are compiled wrong without it. `is_instruction_before` is
  content with either tree, so that a load, or init, may be moved behind a
  store or an `MPI_Init` that stands in a branch (`MovesAreInFront`). The header
  of a loop that is not rotated is proven before and behind the body, and the
  order of the use list decides which of two stores is the last (`OneOrder`). A
  store in a branch that may leave the loop counts as later than the load in
  the same loop (`LaterIsBehind`). Invariance in the loop is not asked for a
  location that is not written before it, as a global need not be
  (`WrittenBefore`).
* `TreesAreCurrent`: after a region was given up because of a call, or when
  sends are in several functions, loops and trees may be those of another
  function.
* `ScevsAreAlive`: when a region is looked at twice in vain, or the trees
  of the caller are asked for while expressions of an address are still to be
  read, scalar evolution has been freed while its expressions are still used.
  The caller's trees are asked for to find the value of a firstprivate variable
  (`insert_changes.cpp` 327) and, for an instruction with two or more operands
  that are instructions, to find the last of them (l. 294).
* `SoundGeometries`: a chunk that ends before the buffer counts for partition
  0, because the division truncates towards zero, and the partition becomes
  ready too early; the expected count is one too high where iterations do not
  begin on partition boundaries (a TODO in the code asks); no chunk reaches
  some partition.
* The search for a partition size throws a divisor it has found away and sends
  the message whole (`SizeAfterSearch`; the message printed there says the
  opposite). When a chunk covers at most five members and their number does
  not divide the message, it divides by zero (`DivideByZero`).
* In `AccessRange` the comparison of two addresses returns unless they are
  equal, and would set `min` where it means `max`: harmless to
  `RangeCoversStores`, since all stores then have the same address.

## 6. Not modelled, and the plan

Not modelled, with the reason:

* the reconstruction of values outside of the region (`insert_changes.cpp`
  205-610): a recursion over LLVM expressions, right or wrong against LLVM's
  scalar evolution. Only the analyses it asks for are in `PassDriver`;
* the pattern matching of `Microtask.cpp` beyond the existence of a loop, and
  of `add_partition_signoff_call`. A region with two worksharing loops takes
  part in neither module: which of them is found depends on LLVM's order of
  the calls;
* the look-up tables of `mpi_functions.cpp` and `implementation_specific.cpp`
  and the IR dump pass, which keep no state;
* `MPIX_Pready_range`, a loop over `MPIX_Pready` that nothing calls;
* pointers to the buffer that are stored in memory (the tainted values of
  `search_for_pointer_modification`), and accesses of the pass to IR it has
  just erased (`insert_changes.cpp` 908);
* the data of a message that is sent from a partition of the demo codes: a
  message carries the number of the region that computed it.

What could come next: two loops in a region, and pointers stored in memory.

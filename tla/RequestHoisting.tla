-------------------------- MODULE RequestHoisting --------------------------
(***************************************************************************)
(* move_init_and_free_call: the calls that initialise and free the request *)
(* of a partitioned send leave the loops around them, and the function     *)
(* that is left behind (insert_changes.cpp of the pass).                   *)
(*                                                                         *)
(* A function f has a fork call with init and start in front of it, and a  *)
(* send call where wait and free are.  f.args lists the arguments of init: *)
(* an argument is the list of the instructions it is computed from, by     *)
(* casts and binary operations, without constants and parameters; f.leaf   *)
(* says of each of them whether it is a load of the location that f.kind   *)
(* and f.users are about, a call or a PHI node.                            *)
(***************************************************************************)
EXTENDS LatestModification

CONSTANT Functions         \* families of functions

VARIABLES func,
          moved,           \* where instructions are now: behind which one
          init_after, free_after, \* the same for the two calls
          pos,             \* the instruction that is executed next
          memory,          \* the value of the location
          old, new,        \* the results of the leaves where they were, and
                           \* where they are now
          request,         \* "none", "inactive" or "active"
          initialised,     \* the arguments it was initialised with
          lost             \* a request was initialised and not freed

vars == <<func, moved, init_after, free_after, pos, memory, old, new, request,
          initialised, lost>>

Undefined == -1

\* Constants, which TLC evaluates once.
FactsOf == [g \in UNION {{f.graph : f \in Functions[i]} : i \in DOMAIN Functions} |-> Facts(g)]

EnclosedBy ==
  [g \in DOMAIN FactsOf |-> [a \in Nodes(g) |-> {b \in Nodes(g) : Encloses(g, a, b)}]]

\* What can be executed before a in the same iteration of the loops around it.
IterationBefore ==
  [g \in DOMAIN FactsOf |->
    [a \in Nodes(g) |-> {b \in Nodes(g) : Reaches(Iteration(g, a), b, a)}]]

Leaves(f) == DOMAIN f.leaf

(* Functions as clang compiles them, with a region and a send that run     *)
(* once for each other before init and free are moved.                     *)
ASSUME FunctionsAssumption ==
  /\ \A g \in DOMAIN FactsOf :
       /\ g.entry \in Nodes(g) /\ g.exit \in Nodes(g)
       /\ g.succ \in [Nodes(g) -> SUBSET Nodes(g)]
       /\ IsFiniteSet(Nodes(g)) /\ Nodes(g) \subseteq Nat \ {nullptr}
       /\ Proper(g) /\ Reducible(g)
  /\ \A i \in DOMAIN Functions : \A f \in Functions[i] :
       /\ {f.fork, f.send} \subseteq Nodes(f.graph) \ {f.graph.exit}
       /\ f.send \in EnclosedBy[f.graph][f.fork]
       /\ LoopsAround(FactsOf[f.graph].loops, f.fork) = LoopsAround(FactsOf[f.graph].loops, f.send)
       /\ \A n \in Leaves(f) :
            /\ n \in Nodes(f.graph) /\ f.fork \in FactsOf[f.graph].trees.domtree[n]
            /\ f.leaf[n] = "load" => n \in DOMAIN f.kind["ptr"] /\ f.kind["ptr"][n] = "load"
       /\ DOMAIN f.kind["ptr"] \subseteq Nodes(f.graph)
       /\ \A n \in DOMAIN f.kind["ptr"] : f.kind["ptr"][n] \in {"store", "fork", "load"}
       /\ f.users["ptr"] \in Seq(DOMAIN f.kind["ptr"])
       /\ \A n \in DOMAIN f.kind["ptr"] : \E j \in DOMAIN f.users["ptr"] : f.users["ptr"][j] = n

-----------------------------------------------------------------------------
(* How far up.  A point is the instruction something is placed behind.     *)

\* Abort when no order can be proven; otherwise the later one of two points.
LaterPoint(k, a, b) ==
  IF Abort \in {a, b} THEN Abort
  ELSE CASE get_first_of_two(k.trees, a, b) = a -> b
         [] get_first_of_two(k.trees, a, b) = nullptr -> Abort
         [] OTHER -> a

\* For a PHI node the last one of its block, which is the same node.
move_to_maximum_upwards_point(f, k, n, ignore) ==
  IF f.leaf[n] = "load"
  THEN get_latest_modification_of_pointer(f, k, "ptr", n, ignore)
  ELSE n

\* The latest of where the leaves of the arguments may move, and of MPI_Init
\* when it is called here.
maximum_upwards_point(f, k, upwards) ==
  LET OfArgument(leaves) ==
        LET p[i \in 0 .. Len(leaves)] ==
              IF i = 0 THEN f.graph.entry
              ELSE IF i = 1 THEN upwards[leaves[1]]
              ELSE LaterPoint(k, p[i - 1], upwards[leaves[i]])
        IN  p[Len(leaves)]
      ofArguments[i \in 0 .. Len(f.args)] ==
        IF i = 0 THEN f.graph.entry ELSE LaterPoint(k, ofArguments[i - 1], OfArgument(f.args[i]))
  IN  IF f.mpi_init = nullptr THEN ofArguments[Len(f.args)]
      ELSE LaterPoint(k, ofArguments[Len(f.args)], f.mpi_init)

-----------------------------------------------------------------------------
(* The free call.                                                          *)

LoopDepth(loops, n) == Cardinality(LoopsAround(loops, n))

ParentLoop(loops, h) == LoopFor([l \in DOMAIN loops \ {h} |-> loops[l]], h)

ExitEdges(g, body) == {e \in body \X (Nodes(g) \ body) : e[2] \in g.succ[e[1]]}

\* The depth of the block before that of maximum_upwards_point is asked for, by
\* arithmetic on its address: there is no such block, and its depth is 0.
moved_up_loop_depth(k, init_block) == LoopDepth(k.loops, init_block) - 0

\* The loop variable is not updated: never further than the parent.
loop_to_move(k, init_block) ==
  LET loop == LoopFor(k.loops, init_block)
  IN  IF moved_up_loop_depth(k, init_block) = 1 THEN loop ELSE ParentLoop(k.loops, loop)

\* Seeded fault: only the innermost loop is left.
FreeAfter_Innermost(f, k) ==
  IF LoopFor(k.loops, f.fork) = nullptr THEN f.send
  ELSE LET exits == ExitEdges(f.graph, k.loops[LoopFor(k.loops, f.fork)])
       IN  IF Cardinality(exits) # 1 THEN Abort ELSE (CHOOSE e \in exits : TRUE)[2]

\* Behind the wait, or the first instruction of the loop's only exit block.
FreeAfter(f, k) ==
  IF LoopFor(k.loops, f.fork) = nullptr THEN f.send
  ELSE LET exits == ExitEdges(f.graph, k.loops[loop_to_move(k, f.fork)])
       IN  IF Cardinality(exits) # 1 THEN Abort ELSE (CHOOSE e \in exits : TRUE)[2]

\* insert_partitioning asserts that init comes before start.
InitIsFirst(f, k, point) == get_first_of_two(k.trees, point, f.fork) = point

InitAfter(f, k, point, free) ==
  IF point # Abort /\ free # Abort /\ InitIsFirst(f, k, point) THEN point ELSE Abort

-----------------------------------------------------------------------------
(* The function that is left behind.  Values are told apart only.          *)

Values == 0 .. 8

Fresh == CHOOSE v \in Values : /\ v # memory
                               /\ \A n \in Leaves(func) : v \notin {old[n], new[n], initialised[n]}

Init ==
  /\ \E i \in DOMAIN Functions : func \in Functions[i]
  /\ LET k == FactsOf[func.graph]
     IN  /\ moved = [n \in Leaves(func) |-> move_to_maximum_upwards_point(func, k, n, {func.fork})]
         /\ free_after = FreeAfter(func, k)
         /\ init_after = InitAfter(func, k, maximum_upwards_point(func, k, moved), free_after)
  /\ pos = func.graph.entry
  /\ memory = 0 /\ request = "none" /\ lost = FALSE
  /\ old = [n \in Leaves(func) |-> Undefined]
  /\ new = [n \in Leaves(func) |-> Undefined]
  /\ initialised = [n \in Leaves(func) |-> Undefined]

Stores(n) == n \in DOMAIN func.kind["ptr"] /\ func.kind["ptr"][n] \in {"store", "fork"}

\* The results after instruction pos: a load reads, another one gets a new value.
Results(results, at) ==
  [n \in Leaves(func) |->
    IF at[n] # pos THEN results[n] ELSE IF func.leaf[n] = "load" THEN memory' ELSE Fresh]

\* Init, behind pos, with the loads that are there; free in front of pos is earlier.
InitCall ==
  /\ init_after = pos
  /\ request' = "inactive" /\ initialised' = new'
  /\ lost' = (lost \/ (request # "none" /\ free_after # pos))

ForkCall ==
  /\ pos = func.fork
  /\ request' = "active" /\ UNCHANGED <<initialised, lost>>

WaitCall ==
  /\ pos = func.send
  /\ request' = IF free_after = pos THEN "none" ELSE "inactive"
  /\ UNCHANGED <<initialised, lost>>

FreeCall ==
  /\ pos = free_after /\ pos \notin {func.send, init_after}
  /\ request' = "none" /\ UNCHANGED <<initialised, lost>>

OtherInstruction ==
  /\ pos \notin {func.fork, func.send, init_after, free_after}
  /\ UNCHANGED <<request, initialised, lost>>

Next ==
  /\ init_after # Abort
  /\ memory' = IF Stores(pos) THEN Fresh ELSE memory
  /\ old' = Results(old, [n \in Leaves(func) |-> n])
  /\ new' = Results(new, moved)
  /\ InitCall \/ ForkCall \/ WaitCall \/ FreeCall \/ OtherInstruction
  /\ pos' \in func.graph.succ[pos]
  /\ UNCHANGED <<func, moved, init_after, free_after>>

Returned == (pos = func.graph.exit \/ init_after = Abort) /\ UNCHANGED vars

Spec == Init /\ [][Next \/ Returned]_vars

-----------------------------------------------------------------------------
(* Each request that is initialised is freed, and none before that: the    *)
(* free call follows the init call out of loops ("will move free call      *)
(* accordingly").                                                          *)
CallsAreBalanced ==
  /\ ~lost
  /\ pos = func.fork => request = "inactive"
  /\ pos = func.send => request = "active"
  /\ pos = free_after /\ pos # func.send => request = "inactive"
  /\ pos = func.graph.exit => request \in {"none"} \/ free_after = pos

\* The loops around the one that free leaves.
OuterLoops(k) ==
  IF LoopFor(k.loops, func.fork) = nullptr THEN {}
  ELSE LET h == loop_to_move(k, func.fork) IN LoopsAround(k.loops, h) \ {h}

\* Init leaves the same loops, and free does not enter another one.
SameLoops(k) ==
  LoopsAround(k.loops, init_after) = OuterLoops(k) /\ free_after \notin DOMAIN k.loops

(* Where init leaves the loops free leaves, they are balanced on every     *)
(* path, also when the loops are not entered, or left in the middle: if    *)
(* init is on all paths to the region and to free, and free on all paths   *)
(* on from init.  The code only asks for some order of init and region,    *)
(* and so puts init into a branch, or before one with the region.          *)
SameLoopsAreBalanced ==
  LET k == FactsOf[func.graph]
  IN  /\ init_after \in Nodes(func.graph) /\ func.fork \in k.trees.domtree[init_after]
      /\ free_after \in EnclosedBy[func.graph][init_after]
      /\ SameLoops(k)
      => CallsAreBalanced

\* What the search in front of n may find: the stores n can be reached from,
\* and all of them when n is in a loop.
StoresSearched(n) ==
  LET k == FactsOf[func.graph]
  IN  {m \in DOMAIN func.kind["ptr"] \ {func.fork} :
         Stores(m) /\ (n \in k.reach[m] \/ LoopFor(k.loops, n) # nullptr)}

\* The pass finds an order of any two, whichever of them comes first in a use list.
OneOrder(S) ==
  LET first(a, b) == get_first_of_two(FactsOf[func.graph].trees, a, b)
  IN  \A a, b \in S : a # b => first(a, b) # nullptr /\ first(a, b) = first(b, a)

StoresLater(n) == {m \in StoresSearched(n) : LaterInLoop(FactsOf[func.graph], m, n)}

\* What the pass takes for later in the loop is not executed before n in the
\* same iteration.
LaterIsBehind(n) == StoresLater(n) \cap IterationBefore[func.graph][n] = {}

\* Whether a loop changes the location is only asked when it was written before,
\* as a local variable is and a global one need not be.
WrittenBefore(n) ==
  StoresLater(n) # {} => \E m \in StoresSearched(n) \ StoresLater(n) : n \in FactsOf[func.graph].reach[m]

\* Loads move to where each path to them passes, and in front of init, and init
\* to where each path to the region passes.
MovesAreInFront ==
  LET InFront(a, b) == a \in Nodes(func.graph) /\ b \in FactsOf[func.graph].trees.domtree[a]
  IN  /\ InFront(init_after, func.fork)
      /\ \A n \in Leaves(func) :
           /\ moved[n] = n \/ InFront(moved[n], n)
           /\ moved[n] = init_after \/ InFront(moved[n], init_after)

(* What a request was initialised with, maybe many iterations ago, are the *)
(* values the arguments would have had right before each start, unless the *)
(* region itself changes them: no store comes between where a load was     *)
(* moved and where it was.  The pass only asks for some order of the two   *)
(* where each path has to pass, and misses stores in loops that are not    *)
(* rotated, or around another loop: each of the conditions is one under    *)
(* which a function is compiled wrong that does not meet it.               *)
ArgumentsAreCurrent ==
  /\ pos = func.fork /\ ~Stores(func.fork) /\ MovesAreInFront
  /\ \A n \in Leaves(func) : func.leaf[n] = "load" =>
       OneOrder(StoresSearched(n)) /\ LaterIsBehind(n) /\ WrittenBefore(n)
  => initialised = old
=============================================================================

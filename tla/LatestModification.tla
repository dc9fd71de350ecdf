------------------------- MODULE LatestModification -------------------------
(***************************************************************************)
(* Where a location was modified last before an instruction                *)
(* (sending_partitioning.cpp of the pass).                                 *)
(*                                                                         *)
(* A function f has a flow graph, f.graph, and uses a location through two *)
(* pointers: "ptr", defined outside of all loops, and "gep", which the     *)
(* instruction of kind "gep" computes from it.  f.users[p] lists the       *)
(* instructions that use pointer p in the order of LLVM's use list, which  *)
(* is any order, and f.kind[p] says what they do with it.  Not modelled:   *)
(* pointers to the location that are stored in memory themselves.          *)
(***************************************************************************)
EXTENDS OverlapAnalysis

Pointers == {"ptr", "gep"}

\* What LLVM knows about a function with graph g.
Facts(g) ==
  [trees |-> Analysis(g), loops |-> LoopInfo(g),
   reach |-> [a \in Nodes(g) |-> {b \in Nodes(g) : Reaches(g, a, b)}]]

\* The instruction that computes a pointer is where the other one is used.
DefinedAt(f, p) ==
  IF p = "ptr" THEN f.graph.entry
  ELSE CHOOSE n \in Nodes(f.graph) : n \in DOMAIN f.kind["ptr"] /\ f.kind["ptr"][n] = "gep"

-----------------------------------------------------------------------------
\* Calls, by what is called: a send, partition_sending_op and a function
\* that neither captures the pointer nor writes memory do not modify.
should_function_call_be_considered_modification(kind) ==
  kind \in {"fork", "recv", "unknown_call"}

\* An instruction of a loop that comes after the last one of interest.
LaterInLoop(k, n, search_before) ==
  /\ LoopFor(k.loops, search_before) # nullptr
  /\ LoopFor(k.loops, search_before) = LoopFor(k.loops, n)
  /\ get_first_of_two(k.trees, n, search_before) = search_before

get_ptr_usages(f, k, p, search_before, exclude) ==
  Only(f.users[p], {n \in DOMAIN f.kind[p] \ exclude :
    search_before # nullptr =>
      search_before \in k.reach[n] /\ ~LaterInLoop(k, n, search_before)})

\* Seeded fault: an instruction that modifies nothing is not removed.
LatestOf_KeepsLoads(k, list, modification) ==
  LET found == [i \in DOMAIN list |-> modification[list[i]]]
  IN  IF \E i \in DOMAIN list : found[i] = nullptr THEN Abort
      ELSE get_last_instruction(k.trees, found)

(* The main loop: take the last instruction of the list, ask what it       *)
(* modifies, go on with the rest.  modification[n] is a node, nullptr or   *)
(* Abort; the loop aborts when there is no last instruction.               *)
LatestOf(k, list, modification) ==
  LET last == [l \in Seq(Int) |-> get_last_instruction(k.trees, l)]
      rest[i \in 0 .. Len(list)] ==
        IF i = 0 THEN list ELSE Only(rest[i - 1], Int \ {last[rest[i - 1]]})
      found == [i \in 1 .. Len(list) |->
        IF rest[i - 1] = <<>> THEN nullptr
        ELSE IF last[rest[i - 1]] = nullptr THEN Abort ELSE modification[last[rest[i - 1]]]]
  IN  IF \E i \in DOMAIN list : found[i] = Abort THEN Abort
      ELSE last[Only(found, Int \ {nullptr})]

\* An instruction that does not lead to another pointer.
ModificationByUse(kind, n) ==
  CASE kind = "store" -> n
    [] kind = "load"  -> nullptr
    [] OTHER -> IF should_function_call_be_considered_modification(kind) THEN n ELSE nullptr

search_for_gep_modification(f, k, search_before, exclude) ==
  LatestOf(k, get_ptr_usages(f, k, "gep", search_before, exclude),
           [n \in DOMAIN f.kind["gep"] |-> ModificationByUse(f.kind["gep"][n], n)])

search_for_pointer_modification(f, k, p, to_analyze, search_before, exclude) ==
  LET list == IF to_analyze = <<>>
              THEN get_ptr_usages(f, k, p, search_before, exclude)
              ELSE to_analyze
  IN  LatestOf(k, list, [n \in DOMAIN f.kind[p] |->
        IF f.kind[p][n] = "gep"
        THEN search_for_gep_modification(f, k, search_before, exclude)
        ELSE ModificationByUse(f.kind[p][n], n)])

\* Seeded fault: the uses in the loop are not looked for.
ChangesInLoop_Never(f, k, p, loop, exclude) == nullptr

(* What keeps the location from being invariant in the loop, nullptr when  *)
(* nothing does.  Without uses in the loop all uses are searched.          *)
ChangesInLoop(f, k, p, loop, exclude) ==
  IF p = "gep" /\ DefinedAt(f, p) \in k.loops[loop] THEN DefinedAt(f, p)
  ELSE search_for_pointer_modification(f, k, p,
         Only(f.users[p], k.loops[loop] \ exclude), nullptr, exclude)

\* The instruction in front of n in its block; n itself stands for one that
\* does not use the location.
PrevNode(f, n) ==
  LET before == {m \in Nodes(f.graph) : f.graph.succ[m] = {n}}
      into   == {m \in Nodes(f.graph) : n \in f.graph.succ[m]}
  IN  IF before # {} /\ Cardinality(into) = 1 THEN CHOOSE m \in before : TRUE ELSE n

\* The modification of p itself, without the pointers it is computed from.
LatestOfPointer(f, k, p, search_before, exclude) ==
  LET modification_point ==
        search_for_pointer_modification(f, k, p,
          get_ptr_usages(f, k, p, search_before, exclude), search_before, exclude)
      loop == LoopFor(k.loops, search_before)
      changes == ChangesInLoop(f, k, p, loop, exclude)
  IN  IF modification_point \in {nullptr, Abort} \/ loop = nullptr THEN modification_point
      ELSE IF changes = Abort THEN Abort
      ELSE IF changes # nullptr /\ modification_point \notin k.loops[loop]
      THEN PrevNode(f, search_before)
      ELSE modification_point

(* The modification of p, else that of the pointer it is computed from; a  *)
(* location that is not modified before is up to date from the start of    *)
(* the function on.                                                        *)
get_latest_modification_of_pointer(f, k, p, search_before, exclude) ==
  LET latest == LatestOfPointer(f, k, p, search_before, exclude)
      base   == IF p = "gep" THEN LatestOfPointer(f, k, "ptr", search_before, exclude)
                ELSE nullptr
  IN  Only(<<latest, base, f.graph.entry>>, Int \ {nullptr})[1]
=============================================================================

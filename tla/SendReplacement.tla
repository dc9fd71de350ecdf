-------------------------- MODULE SendReplacement --------------------------
(***************************************************************************)
(* handle_send_call, and the function it leaves behind: when the buffer of *)
(* a send was modified last by a parallel region, the region's fork call   *)
(* is replaced by init, start and fork of a partitioned send, and the send *)
(* by its wait and free (sending_partitioning.cpp, insert_partitioning in  *)
(* insert_changes.cpp before it moves init and free).                      *)
(*                                                                         *)
(* The regions looked at can be partitioned, and the functions use MPI as  *)
(* they should.                                                            *)
(***************************************************************************)
EXTENDS LatestModification

CONSTANT Functions         \* families of functions with a send of a buffer, f.send

VARIABLES func,            \* the function and what LLVM knows about it
          ignore,          \* calls that overlap with the send, or {Abort}
          completion_point, \* where the send is complete, as the pass sees it
          latest_modification, \* before the send, as the pass sees it
          pos,             \* the instruction that is executed next
          request,         \* "null", or "active" from start to wait
          unset,           \* MPI requests that no call has set, in the function
                           \* that is left behind
          mpi_request,     \* the call that runs on each MPI request in the old
                           \* function, nullptr or Uninitialised
          modified         \* the instruction that modified the buffer last

vars == <<func, ignore, completion_point, latest_modification, pos, request, unset,
          mpi_request, modified>>

Uninitialised == -2

KindOf(f, n) ==
  IF n = f.send THEN "send"
  ELSE IF n \in DOMAIN f.kind["ptr"] THEN f.kind["ptr"][n]
  ELSE IF n \in DOMAIN f.kind["gep"] THEN f.kind["gep"][n]
  ELSE "none"

\* What writes to the buffer, whatever the pass thinks of it.
Modifies(f, n) ==
  KindOf(f, n) \in {"store", "fork", "recv", "unknown_call"}

\* A constant, which TLC evaluates once.
FactsOf == [g \in UNION {{f.graph : f \in Functions[i]} : i \in DOMAIN Functions} |-> Facts(g)]

\* handle_send_call: the fork call that is replaced, nullptr if none.
replaced ==
  IF latest_modification \in Nodes(func.graph) /\ KindOf(func, latest_modification) = "fork"
  THEN latest_modification ELSE nullptr

Init ==
  /\ \E i \in DOMAIN Functions : func \in Functions[i]
  /\ LET k == FactsOf[func.graph]
     IN  /\ ignore = find_overlapping_operations(func, k, func.send)
         /\ completion_point = get_local_completion_point(func, k, func.send)
         /\ latest_modification =
              IF ignore = {Abort} THEN Abort
              ELSE get_latest_modification_of_pointer(
                     func, k, func.buffer, func.send, ignore \cup {func.send})
  /\ pos = func.graph.entry
  /\ request = "null" /\ modified = nullptr
  /\ mpi_request = [l \in UNION {func.uses[n] : n \in Nodes(func.graph)} |-> Uninitialised]
  /\ unset = DOMAIN mpi_request

\* partition_sending_op, MPIX_Start and the fork call.
ForkCall ==
  /\ pos = replaced
  /\ request' = "active"

\* Seeded fault: the request is not freed.
WaitCall_NoFree ==
  /\ pos = completion_point /\ replaced # nullptr
  /\ request' = "inactive"

\* MPIX_Wait and MPIX_Request_free, in front of the completion point.
WaitCall ==
  /\ pos = completion_point /\ replaced # nullptr
  /\ request' = "null"

OtherInstruction ==
  /\ pos # replaced /\ (pos = completion_point => replaced = nullptr)
  /\ UNCHANGED request

-----------------------------------------------------------------------------
(* What the instructions of the old function do: the calls that start an   *)
(* operation set their requests, the waits complete what runs on theirs.   *)

IsCall(f, n, names) == n \in DOMAIN f.call /\ f.call[n].name \in names

Starts(f, n) == IsCall(f, n, _nonblocking_functions)
Waits(f, n)  == IsCall(f, n, {"MPI_Wait", "MPI_Waitall"})

Sets(f, l) == {n \in Nodes(f.graph) : Starts(f, n) /\ l \in f.uses[n]}

\* Every path to a wait passes a call that sets what it waits for.
SetBeforeWait(f) ==
  \A w \in {n \in DOMAIN f.call : Waits(f, n)} : \A l \in f.uses[w] :
    \E S \in SUBSET Nodes(f.graph) :
      f.graph.entry \in S /\ Closed(f.graph, S, Sets(f, l)) /\ w \notin S

WaitsOn(f, l) == {w \in DOMAIN f.call : Waits(f, w) /\ l \in f.uses[w]}

\* What call n starts is waited for before a node that is not in N is executed.
IsAwaited(f, n, N) ==
  f.uses[n] # {} /\ \A l \in f.uses[n] :
    \E S \in SUBSET N : f.graph.succ[n] \subseteq S /\ Closed(f.graph, S, WaitsOn(f, l))

\* Nothing runs at MPI_Finalize, no receive into the buffer when that is used.
RequestsAreAwaited(f) ==
  LET finalizes == {n \in Nodes(f.graph) : IsCall(f, n, {"MPI_Finalize"})}
      users     == {n \in Nodes(f.graph) : KindOf(f, n) # "none"}
  IN  \A n \in {m \in DOMAIN f.call : Starts(f, m)} :
        IsAwaited(f, n, Nodes(f.graph) \ IF Modifies(f, n) THEN finalizes \cup users ELSE finalizes)

Location(r) == <<r.variable, IF r.index = scalar THEN 0 ELSE r.index>>

\* A call uses the MPI requests that its arguments name, when they are constants.
RequestsAreNamed(f) ==
  \A n \in DOMAIN f.call :
    LET c == f.call[n]
        r == c.request
    IN  /\ Starts(f, n) \/ c.name = "MPI_Wait" =>
             /\ r = [variable |-> r.variable, index |-> r.index] /\ r.index \in Int
             /\ r.index # unknown => f.uses[n] = {Location(r)}
        /\ c.name = "MPI_Waitall" /\ c.count # unknown =>
             /\ c.begin \in Nat /\ c.count \in Nat
             /\ f.uses[n] = {<<c.array, i>> : i \in c.begin .. c.begin + c.count - 1}

\* A pointer is computed before it is used, and does not point elsewhere.
PointersAreComputed(f) ==
  /\ f.graph.entry \notin DOMAIN f.kind["ptr"] \cup DOMAIN f.kind["gep"]
  /\ \A n \in DOMAIN f.kind["gep"] :
       /\ f.kind["gep"][n] # "gep"
       /\ n \in DOMAIN f.kind["ptr"] => f.kind["ptr"][n] = f.kind["gep"][n]
       /\ LET gep == DefinedAt(f, "gep")
          IN  /\ gep \in DOMAIN f.kind["ptr"] /\ f.kind["ptr"][gep] = "gep"
              /\ gep \notin DOMAIN f.call
              /\ n \in FactsOf[f.graph].trees.domtree[gep]

(* Functions as clang compiles them, which use MPI as they should.         *)
ASSUME FunctionsAssumption ==
  /\ \A g \in DOMAIN FactsOf :
       /\ g.entry \in Nodes(g) /\ g.exit \in Nodes(g)
       /\ g.succ \in [Nodes(g) -> SUBSET Nodes(g)]
       /\ IsFiniteSet(Nodes(g)) /\ Nodes(g) \subseteq Nat \ {nullptr}
       /\ Proper(g) /\ Reducible(g)
  /\ \A i \in DOMAIN Functions : \A f \in Functions[i] :
       /\ f.send \in DOMAIN f.call /\ DOMAIN f.call \subseteq Nodes(f.graph) \ {f.graph.exit}
       /\ f.calls \in Seq(DOMAIN f.call)
       /\ \A n \in DOMAIN f.call : \E j \in DOMAIN f.calls : f.calls[j] = n
       /\ \A n \in Nodes(f.graph) : f.uses[n] # {} => Starts(f, n) \/ Waits(f, n)
       /\ f.buffer \in Pointers
       /\ \A p \in Pointers : /\ DOMAIN f.kind[p] \subseteq Nodes(f.graph)
                              /\ f.users[p] \in Seq(DOMAIN f.kind[p])
                              /\ \A n \in DOMAIN f.kind[p] : \E j \in DOMAIN f.users[p] : f.users[p][j] = n
       /\ \A n \in DOMAIN f.call : KindOf(f, n) # "fork"
       /\ SetBeforeWait(f) /\ RequestsAreAwaited(f) /\ RequestsAreNamed(f) /\ PointersAreComputed(f)

RequestsAfter(f, n, requests) ==
  [l \in DOMAIN requests |->
    IF l \notin f.uses[n] THEN requests[l] ELSE IF Starts(f, n) THEN n ELSE nullptr]

\* What a wait completes has arrived.
Arrived == {n \in {mpi_request[l] : l \in func.uses[pos]} : n > 0 /\ Modifies(func, n)}

Execute ==
  /\ mpi_request' = RequestsAfter(func, pos, mpi_request)
  /\ modified' = IF Modifies(func, pos) THEN pos
                 ELSE IF Waits(func, pos) /\ Arrived # {} THEN CHOOSE m \in Arrived : TRUE
                 ELSE modified

\* The send is gone, with the MPI_Wait that completed it.
Gone(n) ==
  /\ replaced # nullptr
  /\ n = func.send \/ (n = completion_point /\ IsCall(func, n, {"MPI_Wait"}))

Next ==
  /\ ForkCall \/ WaitCall \/ OtherInstruction
  /\ Execute
  /\ unset' = IF Starts(func, pos) /\ ~Gone(pos) THEN unset \ func.uses[pos] ELSE unset
  /\ pos' \in func.graph.succ[pos]
  /\ UNCHANGED <<func, ignore, completion_point, latest_modification>>

Returned == pos = func.graph.exit /\ UNCHANGED vars

Spec == Init /\ [][Next \/ Returned]_vars

-----------------------------------------------------------------------------
(* What the pass would have to know to be sure: the region runs before     *)
(* each send, and once for each time the send is complete.                 *)
OnEveryPath == func.send \in FactsOf[func.graph].trees.domtree[replaced]

\* Constants, too.
BracketsOf ==
  [g \in DOMAIN FactsOf |->
    [a \in Nodes(g) |-> {b \in Nodes(g) : Bracket(g, FactsOf[g].loops, a, b)}]]

\* The nodes of the innermost loop around each node.
InnermostOf ==
  [g \in DOMAIN FactsOf |->
    [a \in Nodes(g) |-> LET loops == FactsOf[g].loops
                        IN  IF LoopFor(loops, a) = nullptr THEN {} ELSE loops[LoopFor(loops, a)]]]

OneToOne == completion_point \in BracketsOf[func.graph][replaced]

OnlyUserOf(locations, names, n) ==
  \A m \in DOMAIN func.call :
    func.call[m].name \in names /\ func.uses[m] \cap locations # {} => m = n

\* One MPI_Wait waits for the send, if that is needed, and the pass finds it.
OneWait ==
  LET waits == {"MPI_Wait", "MPI_Waitall"}
  IN  IF Starts(func, func.send)
      THEN IsCall(func, completion_point, {"MPI_Wait"})
           /\ OnlyUserOf(func.uses[func.send], waits, completion_point)
      ELSE completion_point = func.send

(* The replaced function starts a request that is not running, waits for   *)
(* one that was started, and leaves none behind; the MPI requests that the *)
(* waits it still has wait for have been set.                              *)
WaitsAreServed ==
  replaced # nullptr =>
    /\ pos = replaced => request = "null"
    /\ pos = completion_point => request = "active"
    /\ pos = func.graph.exit => request = "null"
    /\ Waits(func, pos) /\ ~Gone(pos) => func.uses[pos] \cap unset = {}

(* When region and completion point run once for each other, and the send  *)
(* has one MPI_Wait, all waits are served on every path, through loops,    *)
(* continues and early exits too.                                          *)
OneToOneWaitsAreServed == replaced # nullptr /\ OneToOne /\ OneWait => WaitsAreServed

WaitsFor(n) == {w \in DOMAIN func.call : Waits(func, w) /\ func.uses[w] \cap func.uses[n] # {}}

\* Any two of the instructions can be ordered.
Ordered(S) ==
  \A a, b \in S : get_first_of_two(FactsOf[func.graph].trees, a, b) # nullptr

\* Of any two of the instructions, one is on every path to the other one.
OnePath(S) ==
  LET domtree == FactsOf[func.graph].trees.domtree
  IN  \A a, b \in S : a = b \/ b \in domtree[a] \/ a \in domtree[b]

\* Where the pass finds that n may be complete.
WaitsFound(n) ==
  LET found == get_corresponding_wait(func, FactsOf[func.graph], n)
  IN  {found[i] : i \in DOMAIN found}

\* The pass finds all waits for n, and can order where n may be complete with
\* the send, too.
WaitsAreKnown(n) ==
  WaitsFor(n) \subseteq WaitsFound(n) /\ Ordered(WaitsFound(n) \cup {func.send})

\* The pass can follow the request of the send to all that waits for it.
RequestIsFollowed ==
  LET index(n) == func.call[n].request.index
      own      == index(func.send)
  IN  /\ own # unknown
      /\ \A w \in WaitsFor(func.send) :
           IF IsCall(func, w, {"MPI_Wait"})
           THEN index(w) # unknown /\ (index(w) = scalar <=> own = scalar)
           ELSE func.call[w].count # unknown /\ own # scalar

\* What the search for the last modification looks at, through both pointers:
\* the uses the send can be reached from, and all uses when it is in a loop in
\* which there is no other use.
Searched ==
  LET k == FactsOf[func.graph]
  IN  {n \in (UNION {DOMAIN func.kind[p] : p \in Pointers}) \ (ignore \cup {func.send}) :
         func.send \in k.reach[n] \/ LoopFor(k.loops, func.send) # nullptr}

Modifications == {n \in Searched : Modifies(func, n)}

\* Any two can be ordered, and the pass finds the same order whichever of the
\* two comes first in a use list.
OneOrder(S) ==
  LET first(a, b) == get_first_of_two(FactsOf[func.graph].trees, a, b)
  IN  \A a, b \in S : a # b => first(a, b) # nullptr /\ first(a, b) = first(b, a)

\* What the pass leaves out because it comes later in the loop is not executed
\* before the send in the same iteration.
LaterIsBehind ==
  \A n \in Searched :
    KindOf(func, n) # "load" /\ LaterInLoop(FactsOf[func.graph], n, func.send)
      => ~Reaches(Iteration(func.graph, func.send), n, func.send)

\* The search follows a pointer to the one computed from it only where that
\* is computed, and the other way round only when it finds nothing.
BothPointersAreSearched ==
  IF func.buffer = "gep" THEN \E p \in Pointers : Modifications \cap DOMAIN func.kind[p] = {}
  ELSE LET loop == InnermostOf[func.graph][func.send]
       IN  \A n \in Modifications \cap DOMAIN func.kind["gep"] :
             n \in loop => DefinedAt(func, "gep") \in loop

\* Where what is ignored is complete can be ordered, and there are no loops.
IgnoredAreKnown ==
  \A n \in ignore \ {func.send, Abort} : Modifies(func, n) =>
    /\ IF Starts(func, n) THEN WaitsAreKnown(n) ELSE Ordered({n, func.send})
    /\ Acyclic(func.graph)

(* When the region is on every path to the send, what is sent was written  *)
(* by it: no other modification, in the same loop, around it or behind the *)
(* send, comes between the two, and none of those that are ignored because *)
(* they overlap, although handle_send_call only compares pairs of calls.   *)
(* That takes all of the conditions: each of them is what a function is    *)
(* compiled wrong for that does not meet it.                               *)
RegionOnEveryPathIsLatest ==
  /\ pos = func.send /\ replaced # nullptr /\ OnEveryPath
  /\ OneOrder(Modifications) /\ LaterIsBehind /\ BothPointersAreSearched /\ IgnoredAreKnown
  => modified = replaced

(* In a function without loops, a call that is ignored because it overlaps *)
(* is not complete when the send is called: it cannot be what has filled   *)
(* the buffer.  Only if its waits can be ordered with each other and the   *)
(* send: a wait that some paths leave the function behind is not before    *)
(* the send, for the pass.                                                 *)
IgnoredIsNotComplete ==
  pos = func.send /\ Acyclic(func.graph) =>
    \A n \in ignore \ {func.send, Abort} :
      Starts(func, n) /\ WaitsAreKnown(n) => \A l \in func.uses[n] : mpi_request[l] # nullptr

(* In a function without loops, when the waits for the send all come       *)
(* behind it, and behind each other on every path, the call that completes *)
(* the send is the one the pass takes for it: MPI_Wait or an MPI_Waitall   *)
(* with the request among those it waits for.  That takes constants that   *)
(* name the requests, and an MPI_Finalize on some of the paths only can    *)
(* make the pass give up: then it has no completion point.                 *)
CompletionPointIsFirstWait ==
  /\ pos \in WaitsFor(func.send)
  /\ Starts(func, func.send) /\ Acyclic(func.graph) /\ OnePath(WaitsFor(func.send))
  /\ WaitsFor(func.send) \subseteq FactsOf[func.graph].trees.domtree[func.send]
  /\ RequestIsFollowed /\ Ordered(WaitsFound(func.send))
  /\ \E l \in func.uses[func.send] : mpi_request[l] = func.send
  => pos = completion_point

(* The search for the last modification does not stop half-way when the    *)
(* uses it looks at can be ordered ("SHOULD NOT REACH THIS").              *)
OrderedUsesAreSearched ==
  latest_modification = Abort /\ ignore # {Abort} => ~Ordered(Searched)
=============================================================================

----------------------- MODULE SendReplacement_proofs -----------------------
(***************************************************************************)
(* For functions of any size, with any loops and branches: where region    *)
(* and completion point are a bracket, init, start, wait and free of the   *)
(* partitioned send follow each other on every path, and no wait that is   *)
(* left waits for a request that only the replaced send has set; the       *)
(* search for the last modification does not stop half-way when the uses   *)
(* are ordered, and where its conditions hold it finds the region that     *)
(* wrote what is sent; where the pass can follow the request of the send,  *)
(* its completion point is the first wait behind the send.                 *)
(***************************************************************************)
EXTENDS SendReplacement, InstructionScan_proofs

InFamily == \E i \in DOMAIN Functions : func \in Functions[i]

TypeInv == InFamily /\ pos \in Nodes(func.graph)

\* The hypotheses of OneToOneWaitsAreServed, which no step changes.
Bracketed == replaced # nullptr /\ OneToOne /\ OneWait

(* The partitioned request runs inside of the bracket, and only there.     *)
RequestInv ==
  Bracketed =>
    \/ request = "null" /\ Outside(func.graph, replaced, completion_point, pos)
    \/ request = "active" /\ Inside(func.graph, replaced, completion_point, pos)

\* From pos, w is only reached over a call that sets l.
Guarded(l, w) ==
  \E S \in SUBSET Nodes(func.graph) : pos \in S /\ Closed(func.graph, S, Sets(func, l)) /\ w \notin S

(* Before a request that has not been set is waited for, it will be.       *)
UnsetInv ==
  Bracketed =>
    \A w \in DOMAIN func.call : Waits(func, w) /\ ~Gone(w) =>
      \A l \in func.uses[w] \cap unset : Guarded(l, w)

IInv == TypeInv /\ RequestInv /\ UnsetInv

-----------------------------------------------------------------------------
\* The graph of a function, and what FactsOf says of it.
LEMMA FunctionFacts ==
  ASSUME InFamily
  PROVE  /\ func.graph \in DOMAIN FactsOf
         /\ Flow(func.graph) /\ IsFiniteSet(Nodes(func.graph)) /\ Reducible(func.graph)
         /\ func.graph.entry \in Nodes(func.graph)
         /\ FactsOf[func.graph].loops = LoopInfo(func.graph)
         /\ func.send \in DOMAIN func.call
         /\ DOMAIN func.call \subseteq Nodes(func.graph) \ {func.graph.exit}
         /\ SetBeforeWait(func)
         /\ func.calls \in Seq(DOMAIN func.call)
         /\ \A n \in Nodes(func.graph) : func.uses[n] # {} => Starts(func, n) \/ Waits(func, n)
         /\ FactsOf[func.graph].trees = Analysis(func.graph)
<1>1. PICK i \in DOMAIN Functions : func \in Functions[i]
  BY DEF InFamily
<1>2. func.graph \in DOMAIN FactsOf
  BY <1>1 DEF FactsOf
<1>3. /\ FactsOf[func.graph].loops = LoopInfo(func.graph)
      /\ FactsOf[func.graph].trees = Analysis(func.graph)
  BY <1>2 DEF FactsOf, Facts
<1>4. QED
  BY <1>1, <1>2, <1>3, FunctionsAssumption DEF Flow

(* Where the two calls are a bracket.                                      *)
LEMMA BracketFacts ==
  ASSUME InFamily, Bracketed
  PROVE  /\ replaced \in Nodes(func.graph) /\ completion_point \in Nodes(func.graph)
         /\ completion_point # func.graph.exit /\ replaced # completion_point
         /\ Bracket(func.graph, LoopInfo(func.graph), replaced, completion_point)
<1>1. replaced \in Nodes(func.graph)
  BY DEF Bracketed, replaced
<1>2. /\ completion_point \in Nodes(func.graph)
      /\ Bracket(func.graph, FactsOf[func.graph].loops, replaced, completion_point)
  BY <1>1, FunctionFacts DEF Bracketed, OneToOne, BracketsOf
<1>3. completion_point \in DOMAIN func.call
  BY FunctionFacts DEF Bracketed, OneWait, IsCall
<1>4. QED
  BY <1>1, <1>2, <1>3, FunctionFacts, EntryIsOutside DEF Bracket

(* A request that a wait which is left waits for is not that of the send:  *)
(* what sets it is left, too.                                              *)
LEMMA SetsAreKept ==
  ASSUME InFamily, Bracketed,
         NEW w \in DOMAIN func.call, Waits(func, w), ~Gone(w), NEW l \in func.uses[w],
         NEW n, Starts(func, n), l \in func.uses[n]
  PROVE  ~Gone(n)
<1> SUFFICES ASSUME Gone(n) PROVE FALSE
  OBVIOUS
<1>1. n = func.send
  BY DEF Gone, Starts, IsCall, _nonblocking_functions
<1>2. /\ IsCall(func, completion_point, {"MPI_Wait"})
      /\ OnlyUserOf(func.uses[func.send], {"MPI_Wait", "MPI_Waitall"}, completion_point)
  BY <1>1 DEF Bracketed, OneWait
<1>3. w = completion_point
  BY <1>1, <1>2 DEF OnlyUserOf, Waits, IsCall
<1>4. QED
  BY <1>2, <1>3 DEF Gone, Bracketed

-----------------------------------------------------------------------------
(* The invariant.                                                          *)

LEMMA InitInv == Init => IInv
<1> SUFFICES ASSUME Init PROVE IInv
  OBVIOUS
<1>1. TypeInv
  <2>1. InFamily
    BY DEF Init, InFamily
  <2>2. QED
    BY <2>1, FunctionFacts DEF Init, TypeInv
<1>2. RequestInv
  BY <1>1, BracketFacts, EntryIsOutside DEF Init, TypeInv, RequestInv, Bracket
<1>3. UnsetInv
  BY <1>1, FunctionFacts DEF Init, TypeInv, UnsetInv, SetBeforeWait, Guarded
<1>4. QED
  BY <1>1, <1>2, <1>3 DEF IInv

\* What a step leaves alone.
Fixed == UNCHANGED <<func, ignore, completion_point, latest_modification>>

LEMMA FixedFacts ==
  ASSUME Fixed
  PROVE  /\ InFamily' = InFamily /\ Bracketed' = Bracketed
         /\ replaced' = replaced /\ completion_point' = completion_point /\ func' = func
         /\ \A n : Gone(n)' = Gone(n)
<1>1. replaced' = replaced
  BY DEF Fixed, replaced
<1>2. QED
  BY <1>1, Zenon DEF Fixed, InFamily, Bracketed, OneToOne, OneWait, OnlyUserOf, Gone

LEMMA NextTypeInv ==
  ASSUME TypeInv, Next
  PROVE  TypeInv'
<1>1. Fixed
  BY DEF Next, Fixed
<1>2. pos' \in Nodes(func.graph)
  BY FunctionFacts DEF Next, TypeInv, Flow
<1>3. QED
  BY <1>1, <1>2, FixedFacts DEF TypeInv

LEMMA NextRequestInv ==
  ASSUME TypeInv, RequestInv, Next
  PROVE  RequestInv'
<1>1. Fixed
  BY DEF Next, Fixed
<1> SUFFICES ASSUME Bracketed
             PROVE  \/ request' = "null" /\ Outside(func.graph, replaced, completion_point, pos')
                    \/ request' = "active" /\ Inside(func.graph, replaced, completion_point, pos')
  BY <1>1, FixedFacts DEF RequestInv
<1> DEFINE g == func.graph
<1>2. /\ Flow(g) /\ IsFiniteSet(Nodes(g)) /\ Reducible(g)
      /\ pos \in Nodes(g) /\ pos' \in g.succ[pos]
  BY FunctionFacts DEF TypeInv, Next
<1>3. /\ replaced \in Nodes(g) /\ completion_point \in Nodes(g) /\ replaced # completion_point
      /\ Bracket(g, LoopInfo(g), replaced, completion_point) /\ replaced # nullptr
  BY BracketFacts DEF TypeInv, Bracketed
<1> HIDE DEF g
<1>4. CASE request = "null" /\ Outside(g, replaced, completion_point, pos)
  <2>1. pos # completion_point
    BY <1>2, <1>4, StaysOutside
  <2>2. CASE pos = replaced
    <3>1. request' = "active"
      BY <2>1, <2>2 DEF Next, ForkCall, WaitCall, OtherInstruction
    <3>2. Inside(g, replaced, completion_point, pos')
      BY <1>2, <1>3, <2>2, StartLeadsInside DEF Bracket
    <3>3. QED
      BY <3>1, <3>2 DEF g
  <2>3. CASE pos # replaced
    <3>1. request' = "null"
      BY <1>4, <2>1, <2>3 DEF Next, ForkCall, WaitCall, OtherInstruction
    <3>2. Outside(g, replaced, completion_point, pos')
      BY <1>2, <1>4, <2>3, StaysOutside
    <3>3. QED
      BY <3>1, <3>2 DEF g
  <2>4. QED
    BY <2>2, <2>3
<1>5. CASE request = "active" /\ Inside(g, replaced, completion_point, pos)
  <2>1. pos # replaced
    BY <1>2, <1>3, <1>5, StaysInside
  <2>2. CASE pos = completion_point
    <3>1. request' = "null"
      BY <1>3, <2>1, <2>2 DEF Next, ForkCall, WaitCall, OtherInstruction
    <3>2. Outside(g, replaced, completion_point, pos')
      BY <1>2, <1>3, <2>2, EndLeadsOutside
    <3>3. QED
      BY <3>1, <3>2 DEF g
  <2>3. CASE pos # completion_point
    <3>1. request' = "active"
      BY <1>5, <2>1, <2>3 DEF Next, ForkCall, WaitCall, OtherInstruction
    <3>2. Inside(g, replaced, completion_point, pos')
      BY <1>2, <1>3, <1>5, <2>3, StaysInside
    <3>3. QED
      BY <3>1, <3>2 DEF g
  <2>4. QED
    BY <2>2, <2>3
<1>6. QED
  BY <1>4, <1>5 DEF RequestInv, g

LEMMA NextUnsetInv ==
  ASSUME TypeInv, UnsetInv, Next
  PROVE  UnsetInv'
<1>1. Fixed
  BY DEF Next, Fixed
<1>2. SUFFICES ASSUME Bracketed,
                      NEW w \in DOMAIN func.call, Waits(func, w), ~Gone(w),
                      NEW l \in func.uses[w], l \in unset'
               PROVE  Guarded(l, w)'
  BY <1>1, FixedFacts DEF UnsetInv, Fixed
<1>3. l \in unset
  BY <1>2 DEF Next
<1>4. PICK S \in SUBSET Nodes(func.graph) :
        pos \in S /\ Closed(func.graph, S, Sets(func, l)) /\ w \notin S
  BY <1>2, <1>3 DEF UnsetInv, Guarded
<1>5. pos \notin Sets(func, l)
  BY <1>2, SetsAreKept DEF Sets, Next, TypeInv
<1>6. pos' \in S
  BY <1>4, <1>5 DEF Closed, Next
<1>7. QED
  BY <1>1, <1>4, <1>6, FixedFacts DEF Guarded
-----------------------------------------------------------------------------
LEMMA Invariance == Spec => []IInv
<1>1. IInv /\ [Next \/ Returned]_vars => IInv'
  <2> SUFFICES ASSUME IInv, [Next \/ Returned]_vars PROVE IInv'
    OBVIOUS
  <2>1. CASE Next
    BY <2>1, NextTypeInv, NextRequestInv, NextUnsetInv DEF IInv
  <2>2. CASE UNCHANGED vars
    <3>1. Fixed /\ UNCHANGED <<pos, request, unset>>
      BY <2>2 DEF vars, Fixed
    <3>2. QED
      BY <3>1, FixedFacts DEF IInv, TypeInv, RequestInv, UnsetInv, Guarded
  <2>3. QED
    BY <2>1, <2>2 DEF Returned
<1>2. QED
  BY <1>1, InitInv, PTL DEF Spec

(* handle_send_call leaves a function in which all waits are served        *)
(* wherever the region it replaces and the completion point it finds run   *)
(* once for each other.                                                    *)
THEOREM OneToOneIsEnough == Spec => []OneToOneWaitsAreServed
<1>1. IInv => OneToOneWaitsAreServed
  <2> SUFFICES ASSUME IInv, Bracketed
               PROVE  /\ pos = replaced => request = "null"
                      /\ pos = completion_point => request = "active"
                      /\ pos = func.graph.exit => request = "null"
                      /\ Waits(func, pos) /\ ~Gone(pos) => func.uses[pos] \cap unset = {}
    BY DEF OneToOneWaitsAreServed, WaitsAreServed, Bracketed
  <2>1. InFamily /\ pos \in Nodes(func.graph) /\ Flow(func.graph) /\ Reducible(func.graph)
    BY FunctionFacts DEF IInv, TypeInv
  <2>2. replaced \in Nodes(func.graph) /\ completion_point # func.graph.exit
    BY <2>1, BracketFacts
  <2>3. \/ /\ request = "null" /\ pos # completion_point
        \/ /\ request = "active" /\ pos # replaced /\ pos # func.graph.exit
    BY <2>1, <2>2, StaysOutside, StaysInside DEF IInv, RequestInv
  <2>4. ASSUME Waits(func, pos), ~Gone(pos), NEW l \in func.uses[pos], l \in unset
        PROVE  FALSE
    <3>1. pos \in DOMAIN func.call
      BY <2>4 DEF Waits, IsCall
    <3>2. Guarded(l, pos)
      BY <2>4, <3>1 DEF IInv, UnsetInv
    <3>3. QED
      BY <3>2 DEF Guarded
  <2>5. QED
    BY <2>3, <2>4
<1>2. QED
  BY <1>1, Invariance, PTL
-----------------------------------------------------------------------------
(* The search for the last modification.                                   *)

\* What a search answers when it does not stop half-way.
Answers == Int \ {Abort}

(* The main loop gets to its end when all instructions in the list are     *)
(* ordered, and the searches they lead to get to theirs.                   *)
LEMMA OrderedListIsSearched ==
  ASSUME NEW k, NEW S \in SUBSET (Int \ {nullptr}), NEW list \in Seq(S),
         \A a, b \in S : get_first_of_two(k.trees, a, b) # nullptr,
         NEW modification, \A n \in S : modification[n] \in Answers
  PROVE  LatestOf(k, list, modification) \in Answers
<1> DEFINE n == Len(list)
<1>1. n \in Nat /\ nullptr \in Answers /\ Answers \subseteq Int /\ Abort \notin Answers
  BY DEF Answers, nullptr, Abort
<1>2. PICK rest, found : IsSearch(k, S, list, modification, rest, found)
  BY <1>1, LatestOfEquation
<1>3. /\ \A i \in 0 .. n : rest[i] \in Seq(S)
      /\ found \in Seq(Int) /\ Len(found) = n
      /\ \A i \in 1 .. n :
           LET last == ExtremeOf(k.trees, "last", rest[i - 1])
           IN  found[i] = IF rest[i - 1] = <<>> THEN nullptr
                          ELSE IF last = nullptr THEN Abort ELSE modification[last]
      /\ LatestOf(k, list, modification) =
           IF \E i \in 1 .. n : found[i] = Abort THEN Abort
           ELSE ExtremeOf(k.trees, "last", Only(found, Int \ {nullptr}))
  BY <1>2 DEF IsSearch
<1>4. ASSUME NEW i \in 1 .. n PROVE found[i] \in Answers
  <2>1. i - 1 \in 0 .. n
    BY <1>1
  <2>2. rest[i - 1] \in Seq(S)
    BY <1>3, <2>1
  <2>3. rest[i - 1] # <<>> => ExtremeOf(k.trees, "last", rest[i - 1]) \in S
    BY <2>2, ExtremeIsElement
  <2>4. QED
    BY <1>1, <1>3, <2>3
<1>5. found \in Seq(Answers)
  <2>1. found = [i \in 1 .. n |-> found[i]]
    BY <1>3
  <2>2. found \in [1 .. n -> Answers]
    BY <1>4, <2>1
  <2>3. QED
    BY <1>1, <2>2
<1>6. Only(found, Int \ {nullptr}) \in Seq(Answers)
  <2>1. Only(found, Int \ {nullptr}) \in Seq(Answers \cap (Int \ {nullptr}))
    BY <1>5, OnlyFacts
  <2>2. QED
    BY <2>1
<1>7. ExtremeOf(k.trees, "last", Only(found, Int \ {nullptr})) \in Answers \cup {nullptr}
  BY <1>6, ExtremeIsElement
<1>8. QED
  BY <1>1, <1>3, <1>4, <1>7

\* The searches for this send: their arguments.
Known == FactsOf[func.graph]
Excluded == ignore \cup {func.send}

UsesOf(p) == DOMAIN func.kind[p] \cap Searched

\* From the send on, or all uses when the send is in a loop.
SearchedFrom(search_before) ==
  \/ search_before = func.send
  \/ search_before = nullptr /\ LoopFor(Known.loops, func.send) # nullptr

LEMMA UsesFacts ==
  ASSUME InFamily
  PROVE  /\ Nodes(func.graph) \subseteq Int \ {nullptr, Abort}
         /\ func.send \in Nodes(func.graph) /\ func.buffer \in Pointers
         /\ Searched \subseteq Nodes(func.graph)
         /\ \A p \in Pointers : func.users[p] \in Seq(DOMAIN func.kind[p])
<1>1. PICK i \in DOMAIN Functions : func \in Functions[i]
  BY DEF InFamily
<1>2. Nodes(func.graph) \subseteq Nat \ {nullptr}
  BY FunctionFacts, FunctionsAssumption
<1>3. /\ func.send \in Nodes(func.graph) /\ func.buffer \in Pointers
      /\ \A p \in Pointers : /\ DOMAIN func.kind[p] \subseteq Nodes(func.graph)
                             /\ func.users[p] \in Seq(DOMAIN func.kind[p])
  BY <1>1, FunctionsAssumption
<1>4. Searched \subseteq Nodes(func.graph)
  BY <1>3 DEF Searched
<1>5. Nodes(func.graph) \subseteq Int \ {nullptr, Abort}
  BY <1>2 DEF nullptr, Abort
<1>6. QED
  BY <1>3, <1>4, <1>5

(* What is left of the list of users has been looked at.                   *)
LEMMA UsersAreSearched ==
  ASSUME InFamily, NEW p \in Pointers, NEW S,
         S \cap DOMAIN func.kind[p] \subseteq UsesOf(p)
  PROVE  Only(func.users[p], S) \in Seq(UsesOf(p))
<1>1. Only(func.users[p], S) \in Seq(DOMAIN func.kind[p] \cap S)
  BY UsesFacts, OnlyFacts
<1>2. DOMAIN func.kind[p] \cap S \subseteq UsesOf(p)
  OBVIOUS
<1>3. QED
  BY <1>1, <1>2

LEMMA UsagesAreSearched ==
  ASSUME InFamily, NEW p \in Pointers, NEW search_before, SearchedFrom(search_before)
  PROVE  get_ptr_usages(func, Known, p, search_before, Excluded) \in Seq(UsesOf(p))
<1> DEFINE S == {n \in DOMAIN func.kind[p] \ Excluded :
                   search_before # nullptr =>
                     search_before \in Known.reach[n] /\ ~LaterInLoop(Known, n, search_before)}
<1>1. ASSUME NEW n \in S PROVE n \in UsesOf(p)
  <2>1. n \in (UNION {DOMAIN func.kind[q] : q \in Pointers}) \ (ignore \cup {func.send})
    BY DEF Excluded
  <2>2. func.send \in Known.reach[n] \/ LoopFor(Known.loops, func.send) # nullptr
    BY UsesFacts DEF SearchedFrom
  <2>3. QED
    BY <2>1, <2>2 DEF UsesOf, Searched, Known
<1>2. get_ptr_usages(func, Known, p, search_before, Excluded) = Only(func.users[p], S)
  BY DEF get_ptr_usages
<1> HIDE DEF S
<1>3. QED
  BY <1>1, <1>2, UsersAreSearched

\* The order that the searches need.
LEMMA UsesAreOrdered ==
  ASSUME InFamily, Ordered(Searched), NEW p \in Pointers
  PROVE  /\ UsesOf(p) \in SUBSET (Int \ {nullptr})
         /\ \A a, b \in UsesOf(p) : get_first_of_two(Known.trees, a, b) # nullptr
         /\ \A n \in UsesOf(p) : n \in DOMAIN func.kind[p] /\ n \in Answers
<1>1. UsesOf(p) \subseteq Int \ {nullptr, Abort}
  BY UsesFacts DEF UsesOf
<1>2. \A a, b \in UsesOf(p) : get_first_of_two(Known.trees, a, b) # nullptr
  BY DEF Ordered, Known, UsesOf
<1>3. QED
  BY <1>1, <1>2 DEF UsesOf, Answers

LEMMA UseIsAnswer ==
  ASSUME NEW kind, NEW n \in Answers
  PROVE  ModificationByUse(kind, n) \in Answers
BY DEF ModificationByUse, Answers, nullptr, Abort

LEMMA GepIsSearched ==
  ASSUME InFamily, Ordered(Searched), NEW search_before, SearchedFrom(search_before)
  PROVE  search_for_gep_modification(func, Known, search_before, Excluded) \in Answers
<1> DEFINE list == get_ptr_usages(func, Known, "gep", search_before, Excluded)
           modification == [n \in DOMAIN func.kind["gep"] |->
                             ModificationByUse(func.kind["gep"][n], n)]
<1>1. "gep" \in Pointers
  BY DEF Pointers
<1>2. list \in Seq(UsesOf("gep"))
  BY <1>1, UsagesAreSearched
<1>3. \A n \in UsesOf("gep") : modification[n] \in Answers
  BY <1>1, UsesAreOrdered, UseIsAnswer
<1>4. search_for_gep_modification(func, Known, search_before, Excluded)
        = LatestOf(Known, list, modification)
  BY DEF search_for_gep_modification
<1> HIDE DEF list, modification
<1>5. QED
  BY <1>1, <1>2, <1>3, <1>4, UsesAreOrdered, OrderedListIsSearched

LEMMA PointerIsSearched ==
  ASSUME InFamily, Ordered(Searched), NEW p \in Pointers,
         NEW to_analyze \in Seq(UsesOf(p)), NEW search_before, SearchedFrom(search_before)
  PROVE  search_for_pointer_modification(func, Known, p, to_analyze, search_before, Excluded)
           \in Answers
<1> DEFINE list == IF to_analyze = <<>>
                   THEN get_ptr_usages(func, Known, p, search_before, Excluded)
                   ELSE to_analyze
           modification == [n \in DOMAIN func.kind[p] |->
             IF func.kind[p][n] = "gep"
             THEN search_for_gep_modification(func, Known, search_before, Excluded)
             ELSE ModificationByUse(func.kind[p][n], n)]
<1>1. list \in Seq(UsesOf(p))
  BY UsagesAreSearched
<1>2. ASSUME NEW n \in UsesOf(p) PROVE modification[n] \in Answers
  <2>1. n \in DOMAIN func.kind[p] /\ n \in Answers
    BY UsesAreOrdered
  <2>2. QED
    BY <2>1, GepIsSearched, UseIsAnswer
<1>3. search_for_pointer_modification(func, Known, p, to_analyze, search_before, Excluded)
        = LatestOf(Known, list, modification)
  BY DEF search_for_pointer_modification
<1> HIDE DEF list, modification
<1>4. QED
  BY <1>1, <1>2, <1>3, UsesAreOrdered, OrderedListIsSearched

(* The same with the search in the loop around the send, and in front of it.*)
LEMMA LatestOfPointerIsFound ==
  ASSUME InFamily, Ordered(Searched), NEW p \in Pointers
  PROVE  LatestOfPointer(func, Known, p, func.send, Excluded) \in Answers
<1> DEFINE modification_point ==
             search_for_pointer_modification(func, Known, p,
               get_ptr_usages(func, Known, p, func.send, Excluded), func.send, Excluded)
           loop == LoopFor(Known.loops, func.send)
           changes == ChangesInLoop(func, Known, p, loop, Excluded)
<1>1. modification_point \in Answers
  BY UsagesAreSearched, PointerIsSearched DEF SearchedFrom
<1>2. ASSUME loop # nullptr PROVE changes # Abort
  <2>1. CASE p = "gep" /\ DefinedAt(func, p) \in Known.loops[loop]
    <3>1. \A h \in DOMAIN LoopInfo(func.graph) : LoopInfo(func.graph)[h] \subseteq Nodes(func.graph)
      BY DEF LoopInfo, LoopBody
    <3>2. loop \in DOMAIN LoopInfo(func.graph)
      BY <1>2, FunctionFacts, InnermostLoopOf DEF Known
    <3>3. DefinedAt(func, p) \in Nodes(func.graph)
      BY <2>1, <3>1, <3>2, FunctionFacts DEF Known
    <3>4. QED
      BY <2>1, <3>3, UsesFacts DEF ChangesInLoop
  <2>2. CASE ~(p = "gep" /\ DefinedAt(func, p) \in Known.loops[loop])
    <3> DEFINE list == Only(func.users[p], Known.loops[loop] \ Excluded)
    <3>1. (Known.loops[loop] \ Excluded) \cap DOMAIN func.kind[p] \subseteq UsesOf(p)
      BY <1>2 DEF UsesOf, Searched, Excluded, Known
    <3>2. list \in Seq(UsesOf(p))
      BY <3>1, UsersAreSearched
    <3>3. changes = search_for_pointer_modification(func, Known, p, list, nullptr, Excluded)
      BY <2>2 DEF ChangesInLoop
    <3> HIDE DEF list
    <3>4. QED
      BY <1>2, <3>2, <3>3, PointerIsSearched DEF SearchedFrom, Answers
  <2>3. QED
    BY <2>1, <2>2
<1>3. PrevNode(func, func.send) \in Answers
  <2>1. PrevNode(func, func.send) \in Nodes(func.graph)
    BY UsesFacts DEF PrevNode
  <2>2. QED
    BY <2>1, UsesFacts DEF Answers
<1>4. \/ LatestOfPointer(func, Known, p, func.send, Excluded) = modification_point
      \/ LatestOfPointer(func, Known, p, func.send, Excluded) = PrevNode(func, func.send)
      \/ loop # nullptr /\ changes = Abort
  BY DEF LatestOfPointer
<1>5. QED
  BY <1>1, <1>2, <1>3, <1>4

LEMMA LatestIsFound ==
  ASSUME InFamily, Ordered(Searched)
  PROVE  get_latest_modification_of_pointer(func, Known, func.buffer, func.send, Excluded) # Abort
<1> DEFINE latest == LatestOfPointer(func, Known, func.buffer, func.send, Excluded)
           base   == IF func.buffer = "gep"
                     THEN LatestOfPointer(func, Known, "ptr", func.send, Excluded) ELSE nullptr
           list == <<latest, base, func.graph.entry>>
<1>1. latest \in Answers
  BY UsesFacts, LatestOfPointerIsFound
<1>2. base \in Answers
  BY LatestOfPointerIsFound DEF Pointers, Answers, nullptr, Abort
<1>3. func.graph.entry \in Answers /\ func.graph.entry \in Int \ {nullptr}
  BY FunctionFacts, UsesFacts DEF Answers
<1>4. get_latest_modification_of_pointer(func, Known, func.buffer, func.send, Excluded)
        = Only(list, Int \ {nullptr})[1]
  BY DEF get_latest_modification_of_pointer
<1> HIDE DEF latest, base
<1>5. list \in Seq(Answers) /\ 3 \in 1 .. Len(list) /\ list[3] \in Int \ {nullptr}
  BY <1>1, <1>2, <1>3
<1> HIDE DEF list
<1>6. /\ Only(list, Int \ {nullptr}) \in Seq(Answers \cap (Int \ {nullptr}))
      /\ Only(list, Int \ {nullptr}) # <<>>
  BY <1>5, OnlyFacts
<1>7. Only(list, Int \ {nullptr})[1] \in Answers
  BY <1>6
<1>8. QED
  BY <1>4, <1>7 DEF Answers

(* The search for the last modification never stops half-way at            *)
(* assert(false), whatever loops and branches the function has, as long as *)
(* the uses that it looks at are ordered in pairs.                         *)
THEOREM OrderedIsEnough == Spec => []OrderedUsesAreSearched
<1>1. Init => OrderedUsesAreSearched
  <2> SUFFICES ASSUME Init, ignore # {Abort}, Ordered(Searched)
               PROVE  latest_modification # Abort
    BY DEF OrderedUsesAreSearched
  <2>1. InFamily
    BY DEF Init, InFamily
  <2>2. latest_modification =
          get_latest_modification_of_pointer(func, Known, func.buffer, func.send, Excluded)
    BY DEF Init, Known, Excluded
  <2>3. QED
    BY <2>1, <2>2, LatestIsFound
<1>2. OrderedUsesAreSearched /\ [Next \/ Returned]_vars => OrderedUsesAreSearched'
  <2> SUFFICES ASSUME OrderedUsesAreSearched, [Next \/ Returned]_vars
               PROVE  OrderedUsesAreSearched'
    OBVIOUS
  <2>1. UNCHANGED <<func, ignore, latest_modification>>
    BY DEF Next, Returned, vars
  <2>2. QED
    BY <2>1 DEF OrderedUsesAreSearched, Searched, Ordered
<1>3. QED
  BY <1>1, <1>2, PTL DEF Spec

-----------------------------------------------------------------------------
(* What overlaps with the send.                                            *)

\* The pass takes for ignored what it finds to overlap.
IgnoreInv ==
  InFamily /\ ignore = find_overlapping_operations(func, Known, func.send)

(* A request that nothing runs on any more has been waited for.            *)
ServedInv ==
  /\ DOMAIN mpi_request = UNION {func.uses[n] : n \in Nodes(func.graph)}
  /\ \A l \in DOMAIN mpi_request : mpi_request[l] = nullptr =>
       \E w \in DOMAIN func.call :
         Waits(func, w) /\ l \in func.uses[w] /\ Follows(func.graph, w, pos)

OverlapInv == TypeInv /\ IgnoreInv /\ ServedInv

LEMMA InitOverlapInv == Init => OverlapInv
<1> SUFFICES ASSUME Init PROVE OverlapInv
  OBVIOUS
<1>1. TypeInv
  BY InitInv DEF IInv
<1>2. IgnoreInv
  BY <1>1 DEF Init, TypeInv, IgnoreInv, Known
<1>3. ServedInv
  BY DEF Init, ServedInv, Uninitialised, nullptr
<1>4. QED
  BY <1>1, <1>2, <1>3 DEF OverlapInv

LEMMA NextOverlapInv == OverlapInv /\ [Next \/ Returned]_vars => OverlapInv'
<1> SUFFICES ASSUME OverlapInv, [Next \/ Returned]_vars PROVE OverlapInv'
  OBVIOUS
<1>1. CASE UNCHANGED vars
  BY <1>1 DEF vars, OverlapInv, TypeInv, InFamily, IgnoreInv, Known, ServedInv
<1>2. CASE Next
  <2>1. TypeInv' /\ func' = func /\ ignore' = ignore
    BY <1>2, NextTypeInv DEF OverlapInv, Next
  <2>2. IgnoreInv'
    BY <2>1 DEF OverlapInv, IgnoreInv, InFamily, Known
  <2>3. /\ mpi_request' = RequestsAfter(func, pos, mpi_request)
        /\ pos \in Nodes(func.graph) /\ pos' \in func.graph.succ[pos] /\ InFamily
    BY <1>2 DEF Next, Execute, OverlapInv, TypeInv
  <2>4. Flow(func.graph) /\ pos' \in Nodes(func.graph) /\ pos # nullptr
    BY <2>3, FunctionFacts DEF Flow
  <2>5. Follows(func.graph, pos, pos')
    BY <2>3, ReachesSelf DEF Follows
  <2>6. ASSUME NEW l \in DOMAIN mpi_request', mpi_request'[l] = nullptr
        PROVE  \E w \in DOMAIN func.call :
                 Waits(func, w) /\ l \in func.uses[w] /\ Follows(func.graph, w, pos')
    <3>1. /\ l \in DOMAIN mpi_request
          /\ mpi_request'[l] = IF l \notin func.uses[pos] THEN mpi_request[l]
                               ELSE IF Starts(func, pos) THEN pos ELSE nullptr
      BY <2>3, <2>6 DEF RequestsAfter
    <3>2. CASE l \in func.uses[pos]
      <4>1. ~Starts(func, pos)
        BY <2>4, <2>6, <3>1, <3>2
      <4>2. Waits(func, pos)
        BY <2>3, <3>2, <4>1, FunctionFacts
      <4>3. pos \in DOMAIN func.call
        BY <4>2 DEF Waits, IsCall
      <4>4. QED
        BY <2>5, <3>2, <4>2, <4>3
    <3>3. CASE l \notin func.uses[pos]
      <4>1. PICK w \in DOMAIN func.call :
              Waits(func, w) /\ l \in func.uses[w] /\ Follows(func.graph, w, pos)
        BY <2>6, <3>1, <3>3 DEF OverlapInv, ServedInv
      <4>2. w \in Nodes(func.graph)
        BY <2>3, FunctionFacts
      <4>3. Follows(func.graph, w, pos')
        BY <2>3, <2>4, <2>5, <4>1, <4>2, FollowsReaches, FollowsBeforeReaches DEF Flow
      <4>4. QED
        BY <4>1, <4>3
    <3>4. QED
      BY <3>2, <3>3
  <2>7. ServedInv'
    <3>1. DOMAIN mpi_request' = DOMAIN mpi_request
      BY <2>3 DEF RequestsAfter
    <3>2. QED
      BY <2>1, <2>6, <3>1 DEF OverlapInv, ServedInv
  <2>8. QED
    BY <2>1, <2>2, <2>7 DEF OverlapInv
<1>3. QED
  BY <1>1, <1>2 DEF Returned

(* The waits that the pass finds for a call.                               *)
LEMMA WaitsAreNodes ==
  ASSUME InFamily, NEW n \in Nodes(func.graph)
  PROVE  get_corresponding_wait(func, Known, n) \in Seq(Nodes(func.graph))
<1>1. \A S : Only(func.calls, S) \in Seq(Nodes(func.graph))
  <2> SUFFICES ASSUME NEW S PROVE Only(func.calls, S) \in Seq(Nodes(func.graph))
    OBVIOUS
  <2>1. Only(func.calls, S) \in Seq(DOMAIN func.call \cap S)
    BY FunctionFacts, OnlyFacts
  <2>2. DOMAIN func.call \cap S \subseteq Nodes(func.graph)
    BY FunctionFacts
  <2>3. QED
    BY <2>1, <2>2
<1>2. \A S : Only(CallsOf(func, {"MPI_Finalize"}), S) \in Seq(Nodes(func.graph))
  <2> SUFFICES ASSUME NEW S
               PROVE  Only(CallsOf(func, {"MPI_Finalize"}), S) \in Seq(Nodes(func.graph))
    OBVIOUS
  <2>1. CallsOf(func, {"MPI_Finalize"}) \in Seq(Nodes(func.graph))
    BY <1>1 DEF CallsOf
  <2>2. Only(CallsOf(func, {"MPI_Finalize"}), S) \in Seq(Nodes(func.graph) \cap S)
    BY <2>1, OnlyFacts
  <2>3. QED
    BY <2>2
<1>3. \E scope \in Seq(Nodes(func.graph)) : \E last \in Seq(Nodes(func.graph)) :
        get_corresponding_wait(func, Known, n) = scope \o last
  <2> DEFINE own == func.call[n].request
             waits == Only(func.calls, {w \in DOMAIN func.call : /\ func.call[w].name = "MPI_Wait"
                                                                /\ func.call[w].request = own})
             scope == CASE own.index = scalar -> waits
                        [] own.index = unknown -> <<>>
                        [] OTHER -> get_matching_waitall(func, own)
             last == Only(CallsOf(func, {"MPI_Finalize"}), Known.reach[n])
  <2>1. get_corresponding_wait(func, Known, n) = (IF scope = <<>> THEN <<n>> ELSE scope) \o last
    BY DEF get_corresponding_wait
  <2>2. waits \in Seq(Nodes(func.graph)) /\ last \in Seq(Nodes(func.graph))
    BY <1>1, <1>2
  <2>3. get_matching_waitall(func, own) \in Seq(Nodes(func.graph))
    BY <1>1 DEF get_matching_waitall
  <2> HIDE DEF waits, last, own
  <2>4. scope \in Seq(Nodes(func.graph))
    <3>1. scope \in {waits, <<>>, get_matching_waitall(func, own)}
      BY DEF scalar, unknown
    <3>2. <<>> \in Seq(Nodes(func.graph))
      OBVIOUS
    <3> HIDE DEF scope
    <3>3. QED
      BY <2>2, <2>3, <3>1, <3>2
  <2> HIDE DEF scope
  <2>5. <<n>> \in Seq(Nodes(func.graph))
    OBVIOUS
  <2>6. (IF scope = <<>> THEN <<n>> ELSE scope) \in Seq(Nodes(func.graph))
    BY <2>4, <2>5
  <2>7. QED
    BY <2>1, <2>2, <2>6
<1>4. QED
  BY <1>3

\* What is ignored is a call.
LEMMA IgnoredAreCalls ==
  ASSUME IgnoreInv
  PROVE  ignore \subseteq DOMAIN func.call \cup {Abort}
<1>1. CallsOf(func, _send_recv_functions) \in Seq(DOMAIN func.call)
  <2> DEFINE S == {n \in DOMAIN func.call : func.call[n].name \in _send_recv_functions}
  <2>1. func.calls \in Seq(DOMAIN func.call)
    BY FunctionFacts DEF IgnoreInv
  <2>2. CallsOf(func, _send_recv_functions) = Only(func.calls, S)
    BY DEF CallsOf
  <2> HIDE DEF S
  <2>3. Only(func.calls, S) \in Seq(DOMAIN func.call \cap S)
    BY <2>1, OnlyFacts
  <2>4. QED
    BY <2>2, <2>3
<1>2. \A i \in DOMAIN CallsOf(func, _send_recv_functions) :
        CallsOf(func, _send_recv_functions)[i] \in DOMAIN func.call
  BY <1>1
<1>3. QED
  BY <1>2 DEF IgnoreInv, find_overlapping_operations

(* What is ignored is complete somewhere, and not before the send as far   *)
(* as the pass can tell.                                                   *)
LEMMA IgnoredOverlaps ==
  ASSUME IgnoreInv, NEW n \in ignore \ {Abort}
  PROVE  /\ n \in DOMAIN func.call
         /\ get_local_completion_point(func, Known, n) # Abort
         /\ get_first_of_two(Known.trees, get_local_completion_point(func, Known, n), func.send)
              # get_local_completion_point(func, Known, n)
<1>1. n \in DOMAIN func.call
  BY IgnoredAreCalls
<1> DEFINE calls == CallsOf(func, _send_recv_functions)
           complete == [m \in {calls[i] : i \in DOMAIN calls} |->
                          get_local_completion_point(func, Known, m)]
<1>2. ignore = IF \E m \in DOMAIN complete : complete[m] \in {nullptr, Abort} THEN {Abort}
               ELSE {m \in DOMAIN complete :
                       Overlap(Known, func.send, complete[func.send], m, complete[m])}
  BY DEF IgnoreInv, find_overlapping_operations
<1>3. \A m \in DOMAIN complete : complete[m] = get_local_completion_point(func, Known, m)
  OBVIOUS
<1> HIDE DEF complete
<1>4. /\ n \in DOMAIN complete /\ complete[n] # Abort
      /\ Overlap(Known, func.send, complete[func.send], n, complete[n])
  BY <1>2
<1>5. QED
  BY <1>1, <1>3, <1>4 DEF Overlap

(* Where a non-blocking call is complete for the pass is before all that   *)
(* may complete it, if that can be ordered.                                *)
LEMMA CompletionIsFirst ==
  ASSUME InFamily, NEW n, Starts(func, n), Ordered(WaitsFound(n)), NEW w \in WaitsFound(n)
  PROVE  /\ WaitsFound(n) \subseteq Nodes(func.graph)
         /\ get_local_completion_point(func, Known, n) \in WaitsFound(n)
         /\ Reaches(func.graph, get_local_completion_point(func, Known, n), w)
<1> DEFINE g == func.graph
           found == get_corresponding_wait(func, Known, n)
           waits == {found[i] : i \in DOMAIN found}
           e == ExtremeOf(Analysis(g), "first", found)
<1>1. n \in DOMAIN func.call /\ func.call[n].name \in _nonblocking_functions
  BY DEF Starts, IsCall
<1>2. Flow(g) /\ n \in Nodes(g) /\ Known.trees = Analysis(g)
  BY <1>1, FunctionFacts DEF Known
<1>3. found \in Seq(waits) /\ waits \in SUBSET Nodes(g)
  <2>1. found \in Seq(Nodes(g))
    BY <1>2, WaitsAreNodes
  <2> HIDE DEF found
  <2>2. DOMAIN found = 1 .. Len(found) /\ Len(found) \in Nat
    BY <2>1
  <2>3. QED
    BY <2>1, <2>2
<1>4. waits = WaitsFound(n)
  BY DEF WaitsFound, Known
<1>5. PICK i \in 1 .. Len(found) : w = found[i]
  BY <1>3, <1>4
<1>6. \A a, b \in waits : get_first_of_two(Analysis(g), a, b) # nullptr
  BY <1>2, <1>4 DEF Ordered, Known
<1>7. e \in waits /\ Reaches(g, e, w)
  <2> HIDE DEF found, waits
  <2>1. QED
    BY <1>2, <1>3, <1>5, <1>6, FirstReachesAll
<1>8. get_local_completion_point(func, Known, n) = e
  <2>1. func.call[n].name \notin {"MPI_Send", "MPI_Recv"}
    BY <1>1 DEF _nonblocking_functions
  <2>2. get_local_completion_point(func, Known, n) = get_first_instruction(Known.trees, found)
    BY <1>1, <2>1 DEF get_local_completion_point
  <2> HIDE DEF found
  <2>3. QED
    BY <1>2, <2>2 DEF get_first_instruction
<1>9. QED
  BY <1>3, <1>4, <1>7, <1>8

(* In a function without loops, where the waits of an ignored call are     *)
(* known and ordered, none of them comes before the send: where the pass   *)
(* takes the call to be complete is before each of them.                   *)
LEMMA KnownWaitIsNotBefore ==
  ASSUME IgnoreInv, Acyclic(func.graph),
         NEW n \in ignore \ {func.send, Abort}, Starts(func, n), WaitsAreKnown(n),
         NEW w \in WaitsFor(n), Follows(func.graph, w, func.send)
  PROVE  FALSE
<1> DEFINE g == func.graph
           e == get_local_completion_point(func, Known, n)
<1>1. /\ InFamily /\ Flow(g) /\ func.send \in Nodes(g) /\ Known.trees = Analysis(g)
      /\ w \in Nodes(g)
  <2>1. w \in DOMAIN func.call
    BY DEF WaitsFor
  <2>2. QED
    BY <2>1, FunctionFacts DEF IgnoreInv, Known
<1>2. /\ w \in WaitsFound(n) /\ Ordered(WaitsFound(n))
      /\ \A a \in WaitsFound(n) : get_first_of_two(Analysis(g), a, func.send) # nullptr
  BY <1>1 DEF WaitsAreKnown, Ordered, Known
<1>3. e \in WaitsFound(n) /\ e \in Nodes(g) /\ Reaches(g, e, w)
  BY <1>1, <1>2, CompletionIsFirst
<1>4. Follows(g, e, func.send)
  BY <1>1, <1>3, FollowsAfterReaches DEF Flow
<1>5. get_first_of_two(Analysis(g), e, func.send) # e
  BY <1>1, IgnoredOverlaps
<1>6. Reaches(g, func.send, e)
  BY <1>1, <1>2, <1>3, <1>5, FirstReaches
<1>7. QED
  BY <1>1, <1>3, <1>4, <1>6, AcyclicOrder

(* So a call whose waits are known is not ignored once one of them has been *)
(* executed.                                                               *)
LEMMA IgnoredRuns ==
  ASSUME OverlapInv, Acyclic(func.graph), pos = func.send,
         NEW n \in ignore \ {func.send, Abort}, Starts(func, n), WaitsAreKnown(n),
         NEW l \in func.uses[n], l \in DOMAIN mpi_request
  PROVE  mpi_request[l] # nullptr
<1> SUFFICES ASSUME mpi_request[l] = nullptr PROVE FALSE
  OBVIOUS
<1>1. PICK w \in DOMAIN func.call :
        Waits(func, w) /\ l \in func.uses[w] /\ Follows(func.graph, w, func.send)
  BY DEF OverlapInv, ServedInv
<1>2. w \in WaitsFor(n)
  BY <1>1 DEF WaitsFor
<1>3. QED
  BY <1>1, <1>2, KnownWaitIsNotBefore DEF OverlapInv

(* In a function without loops, what is ignored because it overlaps with   *)
(* the send still runs when the send is called, if all its waits are found *)
(* and ordered: it cannot be what has filled the buffer.                   *)
THEOREM KnownWaitsAreEnough == Spec => []IgnoredIsNotComplete
<1>1. OverlapInv => IgnoredIsNotComplete
  <2> SUFFICES ASSUME OverlapInv, Acyclic(func.graph), pos = func.send,
                      NEW n \in ignore \ {func.send, Abort}, Starts(func, n), WaitsAreKnown(n),
                      NEW l \in func.uses[n]
               PROVE  mpi_request[l] # nullptr
    BY DEF IgnoredIsNotComplete
  <2>1. n \in Nodes(func.graph)
    BY FunctionFacts DEF OverlapInv, TypeInv, Starts, IsCall
  <2>2. l \in DOMAIN mpi_request
    BY <2>1 DEF OverlapInv, ServedInv
  <2>3. QED
    BY <2>2, IgnoredRuns
<1>2. QED
  BY <1>1, InitOverlapInv, NextOverlapInv, PTL DEF Spec

-----------------------------------------------------------------------------
(* What the search for the last modification finds.                        *)

\* What the search of the pass knows of the buffer: its uses by kind.
Usable(n, search_before) ==
  search_before # nullptr =>
    search_before \in Known.reach[n] /\ ~LaterInLoop(Known, n, search_before)

\* r is a modification that does not come before n.
IsLater(r, n) == r \in Modifications /\ IsBefore(func.graph, n, r)

\* The uses of the pointers.
LEMMA PointerFacts ==
  ASSUME InFamily
  PROVE  /\ \A p \in Pointers :
              /\ DOMAIN func.kind[p] \subseteq Nodes(func.graph)
              /\ \A n \in DOMAIN func.kind[p] : InList(func.users[p], n)
         /\ \A n \in DOMAIN func.call : KindOf(func, n) # "fork"
         /\ RequestsAreAwaited(func) /\ RequestsAreNamed(func) /\ PointersAreComputed(func)
         /\ \A n \in DOMAIN func.call : InList(func.calls, n)
<1>1. PICK i \in DOMAIN Functions : func \in Functions[i]
  BY DEF InFamily
<1>2. ASSUME NEW p \in Pointers, NEW n \in DOMAIN func.kind[p] PROVE InList(func.users[p], n)
  <2>1. /\ func.users[p] \in Seq(DOMAIN func.kind[p])
        /\ \E j \in DOMAIN func.users[p] : func.users[p][j] = n
    BY <1>1, <1>2, FunctionsAssumption
  <2>2. DOMAIN func.users[p] = 1 .. Len(func.users[p])
    BY <2>1
  <2>3. QED
    BY <2>1, <2>2 DEF InList
<1>3. ASSUME NEW n \in DOMAIN func.call PROVE InList(func.calls, n)
  <2>1. /\ func.calls \in Seq(DOMAIN func.call)
        /\ \E j \in DOMAIN func.calls : func.calls[j] = n
    BY <1>1, <1>3, FunctionsAssumption
  <2>2. DOMAIN func.calls = 1 .. Len(func.calls)
    BY <2>1
  <2>3. QED
    BY <2>1, <2>2 DEF InList
<1>4. QED
  BY <1>1, <1>2, <1>3, FunctionsAssumption

(* What a call starts is waited for in time.                               *)
LEMMA AwaitedFacts ==
  ASSUME InFamily, NEW n, Starts(func, n)
  PROVE  /\ n \in DOMAIN func.call /\ func.uses[n] # {}
         /\ \A l \in func.uses[n] : \E S \in SUBSET Nodes(func.graph) :
              /\ func.graph.succ[n] \subseteq S /\ Closed(func.graph, S, WaitsOn(func, l))
              /\ \A m \in S : /\ ~IsCall(func, m, {"MPI_Finalize"})
                              /\ Modifies(func, n) => KindOf(func, m) = "none"
<1> DEFINE finalizes == {m \in Nodes(func.graph) : IsCall(func, m, {"MPI_Finalize"})}
           users == {m \in Nodes(func.graph) : KindOf(func, m) # "none"}
           N == Nodes(func.graph) \ IF Modifies(func, n) THEN finalizes \cup users ELSE finalizes
<1>1. n \in DOMAIN func.call
  BY DEF Starts, IsCall
<1>2. IsAwaited(func, n, N)
  BY <1>1, PointerFacts DEF RequestsAreAwaited
<1>3. ASSUME NEW l \in func.uses[n]
      PROVE  \E S \in SUBSET N :
               func.graph.succ[n] \subseteq S /\ Closed(func.graph, S, WaitsOn(func, l))
  BY <1>2 DEF IsAwaited
<1>4. QED
  BY <1>1, <1>2, <1>3 DEF IsAwaited

(* Kinds of uses, through either pointer.                                  *)
LEMMA KindsAgree ==
  ASSUME InFamily, NEW p \in Pointers, NEW n \in DOMAIN func.kind[p], n # func.send,
         func.kind[p][n] # "gep"
  PROVE  KindOf(func, n) = func.kind[p][n]
BY PointerFacts DEF Pointers, KindOf, PointersAreComputed

\* What modifies the buffer is a use of one of its pointers.
LEMMA ModifiesIsUse ==
  ASSUME InFamily, NEW n, Modifies(func, n)
  PROVE  /\ n # func.send /\ n \in Nodes(func.graph)
         /\ \E p \in Pointers : n \in DOMAIN func.kind[p]
         /\ \A p \in Pointers : n \in DOMAIN func.kind[p] => func.kind[p][n] # "gep"
<1>1. n # func.send /\ \E p \in Pointers : n \in DOMAIN func.kind[p]
  BY DEF Modifies, KindOf, Pointers
<1>2. \A p \in Pointers : n \in DOMAIN func.kind[p] => func.kind[p][n] # "gep"
  BY <1>1, PointerFacts DEF Modifies, KindOf, Pointers, PointersAreComputed
<1>3. QED
  BY <1>1, <1>2, PointerFacts

\* What the search takes for a modification modifies the buffer.
LEMMA UseModifies ==
  ASSUME InFamily, NEW p \in Pointers, NEW n \in UsesOf(p), func.kind[p][n] # "gep"
  PROVE  /\ Modifies(func, n) => n \in Modifications
         /\ ModificationByUse(func.kind[p][n], n) = IF Modifies(func, n) THEN n ELSE nullptr
<1>1. n \in DOMAIN func.kind[p] /\ n \in Searched /\ n # func.send
  BY DEF UsesOf, Searched
<1>2. KindOf(func, n) = func.kind[p][n]
  BY <1>1, KindsAgree
<1>3. QED
  BY <1>1, <1>2 DEF Modifies, Modifications, ModificationByUse,
                     should_function_call_be_considered_modification

(* The modifications are nodes in one order.                               *)
LEMMA ModificationFacts ==
  ASSUME InFamily, OneOrder(Modifications)
  PROVE  /\ Flow(func.graph) /\ Known.trees = Analysis(func.graph)
         /\ Modifications \in SUBSET (Nodes(func.graph) \cap Int)
         /\ nullptr \notin Modifications /\ Abort \notin Modifications
         /\ \A V \in SUBSET Modifications : InOneOrder(func.graph, V)
<1>1. /\ Flow(func.graph) /\ Known.trees = Analysis(func.graph)
      /\ FactsOf[func.graph].trees = Analysis(func.graph)
  BY FunctionFacts DEF Known
<1>2. InOneOrder(func.graph, Modifications)
  BY <1>1 DEF OneOrder, InOneOrder
<1>3. Modifications \subseteq Nodes(func.graph) /\ Nodes(func.graph) \subseteq Int \ {nullptr, Abort}
  BY UsesFacts DEF Modifications
<1>4. \A V \in SUBSET Modifications : InOneOrder(func.graph, V)
  BY <1>2 DEF InOneOrder
<1>5. QED
  BY <1>1, <1>3, <1>4

(* Nothing that can be used is missing in the lists.                       *)
LEMMA UsableIsListed ==
  ASSUME InFamily, NEW p \in Pointers, NEW search_before, NEW n \in UsesOf(p),
         Usable(n, search_before)
  PROVE  InList(get_ptr_usages(func, Known, p, search_before, Excluded), n)
<1> DEFINE S == {x \in DOMAIN func.kind[p] \ Excluded :
                   search_before # nullptr =>
                     search_before \in Known.reach[x] /\ ~LaterInLoop(Known, x, search_before)}
<1>1. n \in S /\ n \in DOMAIN func.kind[p]
  BY DEF UsesOf, Searched, Excluded, Usable
<1>2. PICK j \in 1 .. Len(func.users[p]) : func.users[p][j] = n
  BY <1>1, PointerFacts DEF InList
<1>3. func.users[p] \in Seq(DOMAIN func.kind[p])
  BY UsesFacts
<1>4. get_ptr_usages(func, Known, p, search_before, Excluded) = Only(func.users[p], S)
  BY DEF get_ptr_usages
<1> HIDE DEF S
<1>5. \E q \in 1 .. Len(Only(func.users[p], S)) : Only(func.users[p], S)[q] = func.users[p][j]
  BY <1>1, <1>2, <1>3, OnlyKeeps
<1>6. QED
  BY <1>2, <1>4, <1>5 DEF InList

\* The list of the uses in a loop has each of them.
LEMMA UseInLoopIsListed ==
  ASSUME InFamily, NEW p \in Pointers, NEW S, NEW n \in DOMAIN func.kind[p] \cap S
  PROVE  InList(Only(func.users[p], S), n) /\ Only(func.users[p], S) # <<>>
<1>1. PICK j \in 1 .. Len(func.users[p]) : func.users[p][j] = n
  BY PointerFacts DEF InList
<1>2. func.users[p] \in Seq(DOMAIN func.kind[p])
  BY UsesFacts
<1>3. \E q \in 1 .. Len(Only(func.users[p], S)) : Only(func.users[p], S)[q] = func.users[p][j]
  BY <1>1, <1>2, OnlyKeeps
<1>4. Only(func.users[p], S) # <<>>
  BY <1>1, <1>2, OnlyFacts
<1>5. QED
  BY <1>1, <1>3, <1>4 DEF InList

\* The search among the uses of the second pointer answers a modification that
\* no other one, of those it can use, comes behind.
LEMMA GepSearchFinds ==
  ASSUME InFamily, OneOrder(Modifications), NEW search_before, SearchedFrom(search_before)
  PROVE  LET r == search_for_gep_modification(func, Known, search_before, Excluded)
         IN  /\ r \in (Modifications \cap DOMAIN func.kind["gep"]) \cup {nullptr, Abort}
             /\ r # Abort =>
                  \A n \in UsesOf("gep") :
                    Modifies(func, n) /\ Usable(n, search_before) => IsLater(r, n)
<1> DEFINE g == func.graph
           V == Modifications \cap DOMAIN func.kind["gep"]
           list == get_ptr_usages(func, Known, "gep", search_before, Excluded)
           modification == [n \in DOMAIN func.kind["gep"] |->
                             ModificationByUse(func.kind["gep"][n], n)]
           r == search_for_gep_modification(func, Known, search_before, Excluded)
<1>1. "gep" \in Pointers /\ DOMAIN func.kind["gep"] \subseteq Nodes(g)
  BY PointerFacts DEF Pointers
<1>2. list \in Seq(UsesOf("gep"))
  BY <1>1, UsagesAreSearched
<1>3. ASSUME NEW n \in UsesOf("gep")
      PROVE  /\ modification[n] = IF Modifies(func, n) THEN n ELSE nullptr
             /\ Modifies(func, n) => n \in V
  <2>1. n \in DOMAIN func.kind["gep"]
    BY DEF UsesOf
  <2>2. func.kind["gep"][n] # "gep"
    BY <2>1, PointerFacts DEF PointersAreComputed
  <2>3. QED
    BY <1>1, <2>1, <2>2, UseModifies
<1>4. \A n \in UsesOf("gep") : modification[n] \in V \cup {nullptr, Abort}
  BY <1>3
<1>5. r = LatestOf(Known, list, modification)
  BY DEF search_for_gep_modification
<1>6. UsesOf("gep") \in SUBSET (Int \ {nullptr})
  BY UsesFacts DEF UsesOf
<1>7. /\ Flow(g) /\ Known.trees = Analysis(g)
      /\ V \in SUBSET (Nodes(g) \cap Int) /\ nullptr \notin V /\ Abort \notin V /\ InOneOrder(g, V)
  <2>1. V \in SUBSET Modifications
    OBVIOUS
  <2>2. QED
    BY <2>1, ModificationFacts
<1> HIDE DEF list, modification, V, g
<1>8. Finds(g, V, list, modification, LatestOf(Known, list, modification))
  BY <1>2, <1>4, <1>6, <1>7, SearchFinds
<1>9. r \in V \cup {nullptr, Abort}
  BY <1>5, <1>8 DEF Finds
<1>10. ASSUME r # Abort, NEW n \in UsesOf("gep"), Modifies(func, n), Usable(n, search_before)
       PROVE  IsLater(r, n)
  <2>1. PICK j \in 1 .. Len(list) : list[j] = n
    BY <1>1, <1>10, UsableIsListed DEF InList, list
  <2>2. modification[list[j]] = n /\ n \in V
    BY <1>3, <1>10, <2>1
  <2>3. r \in V /\ IsBefore(g, n, r)
    BY <1>5, <1>8, <1>10, <2>1, <2>2 DEF Finds
  <2>4. QED
    BY <2>3 DEF IsLater, V, g
<1>11. QED
  BY <1>9, <1>10 DEF V

(* The list that a search goes through.                                    *)
ListOf(p, to_analyze, search_before) ==
  IF to_analyze = <<>> THEN get_ptr_usages(func, Known, p, search_before, Excluded) ELSE to_analyze

\* r comes after all that is modified through pointer p by what is listed.
FindsListed(r, p, list, search_before) ==
  \A n \in UsesOf(p) : InList(list, n) =>
    /\ Modifies(func, n) => IsLater(r, n)
    /\ func.kind[p][n] = "gep" =>
         \A m \in UsesOf("gep") : Modifies(func, m) /\ Usable(m, search_before) => IsLater(r, m)

\* The search among the uses of either pointer does, too, and covers the second
\* pointer where it is computed by one of the uses.
LEMMA PointerSearchFinds ==
  ASSUME InFamily, OneOrder(Modifications), NEW p \in Pointers,
         NEW to_analyze \in Seq(UsesOf(p)), NEW search_before, SearchedFrom(search_before)
  PROVE  LET r == search_for_pointer_modification(func, Known, p, to_analyze, search_before, Excluded)
         IN  /\ r \in Modifications \cup {nullptr, Abort}
             /\ p = "gep" => r \in DOMAIN func.kind["gep"] \cup {nullptr, Abort}
             /\ r # Abort => FindsListed(r, p, ListOf(p, to_analyze, search_before), search_before)
<1> DEFINE g == func.graph
           V == IF p = "gep" THEN Modifications \cap DOMAIN func.kind["gep"] ELSE Modifications
           list == ListOf(p, to_analyze, search_before)
           sub == search_for_gep_modification(func, Known, search_before, Excluded)
           modification == [n \in DOMAIN func.kind[p] |->
             IF func.kind[p][n] = "gep" THEN sub ELSE ModificationByUse(func.kind[p][n], n)]
           r == search_for_pointer_modification(func, Known, p, to_analyze, search_before, Excluded)
<1>1. list \in Seq(UsesOf(p))
  BY UsagesAreSearched DEF ListOf
<1>2. ASSUME NEW n \in UsesOf(p)
      PROVE  /\ n \in DOMAIN func.kind[p]
             /\ modification[n] = IF func.kind[p][n] = "gep" THEN sub
                                  ELSE IF Modifies(func, n) THEN n ELSE nullptr
             /\ Modifies(func, n) => n \in V /\ func.kind[p][n] # "gep"
             /\ p = "gep" => func.kind[p][n] # "gep"
  <2>1. n \in DOMAIN func.kind[p]
    BY DEF UsesOf
  <2>2. p = "gep" => func.kind[p][n] # "gep"
    BY <2>1, PointerFacts DEF PointersAreComputed
  <2>3. Modifies(func, n) => func.kind[p][n] # "gep"
    BY <2>1, ModifiesIsUse
  <2>4. func.kind[p][n] # "gep" =>
          /\ Modifies(func, n) => n \in Modifications
          /\ ModificationByUse(func.kind[p][n], n) = IF Modifies(func, n) THEN n ELSE nullptr
    BY UseModifies
  <2> HIDE DEF sub
  <2>5. QED
    BY <2>1, <2>2, <2>3, <2>4
<1>3. /\ sub \in Modifications \cup {nullptr, Abort}
      /\ sub # Abort =>
           \A m \in UsesOf("gep") : Modifies(func, m) /\ Usable(m, search_before) => IsLater(sub, m)
  BY GepSearchFinds
<1>4. r = LatestOf(Known, list, modification)
  BY DEF search_for_pointer_modification, ListOf
<1> HIDE DEF list, modification, sub, r
<1>5. \A n \in UsesOf(p) : modification[n] \in V \cup {nullptr, Abort}
  BY <1>2, <1>3
<1>6. UsesOf(p) \in SUBSET (Int \ {nullptr})
  BY UsesFacts DEF UsesOf
<1>7. /\ Flow(g) /\ Known.trees = Analysis(g)
      /\ V \in SUBSET (Nodes(g) \cap Int) /\ nullptr \notin V /\ Abort \notin V /\ InOneOrder(g, V)
      /\ InOneOrder(g, Modifications) /\ V \subseteq Modifications
      /\ Modifications \in SUBSET Nodes(g) /\ nullptr \notin Modifications
  <2>1. V \in SUBSET Modifications
    OBVIOUS
  <2>2. QED
    BY <2>1, ModificationFacts
<1>8. V \subseteq Modifications /\ (p = "gep" => V \subseteq DOMAIN func.kind["gep"])
  OBVIOUS
<1> HIDE DEF V, g
<1>9. Finds(g, V, list, modification, LatestOf(Known, list, modification))
  BY <1>1, <1>5, <1>6, <1>7, SearchFinds
<1>10. r \in V \cup {nullptr, Abort}
  BY <1>4, <1>9 DEF Finds
<1>11. ASSUME r # Abort, NEW n \in UsesOf(p), NEW j \in 1 .. Len(list), list[j] = n
       PROVE  /\ Modifies(func, n) => IsLater(r, n)
              /\ func.kind[p][n] = "gep" =>
                   \A m \in UsesOf("gep") : Modifies(func, m) /\ Usable(m, search_before) => IsLater(r, m)
  <2>1. /\ modification[n] # Abort
        /\ modification[n] \in V => r \in V /\ IsBefore(g, modification[n], r)
    BY <1>4, <1>9, <1>11 DEF Finds
  <2>2. ASSUME Modifies(func, n) PROVE IsLater(r, n)
    BY <1>2, <1>8, <2>1, <2>2 DEF IsLater, g
  <2>3. ASSUME func.kind[p][n] = "gep", NEW m \in UsesOf("gep"),
               Modifies(func, m), Usable(m, search_before)
        PROVE  IsLater(r, m)
    <3>1. modification[n] = sub /\ V = Modifications
      BY <1>2, <2>3 DEF V
    <3>2. IsLater(sub, m)
      BY <1>3, <2>1, <2>3, <3>1
    <3>3. sub \in Modifications /\ IsBefore(g, m, sub)
      BY <3>2 DEF IsLater, g
    <3>4. r \in Modifications /\ IsBefore(g, sub, r)
      BY <2>1, <3>1, <3>3
    <3>5. m \in Modifications
      BY <2>3 DEF UsesOf, Modifications
    <3>6. IsBefore(g, m, r)
      BY <1>7, <3>3, <3>4, <3>5, OneOrderIsTransitive
    <3>7. QED
      BY <3>4, <3>6 DEF IsLater, g
  <2>4. QED
    BY <2>2, <2>3
<1>12. r # Abort => FindsListed(r, p, list, search_before)
  BY <1>11 DEF FindsListed, InList
<1>13. QED
  BY <1>8, <1>10, <1>12 DEF list, r

Loop == LoopFor(Known.loops, func.send)

ModificationPoint(p) ==
  search_for_pointer_modification(func, Known, p,
    get_ptr_usages(func, Known, p, func.send, Excluded), func.send, Excluded)

(* What the search in front of the send answers when it does not abort.    *)
LEMMA LatestOfPointerCases ==
  ASSUME InFamily, NEW p \in Pointers
  PROVE  LET r == LatestOfPointer(func, Known, p, func.send, Excluded)
         IN  /\ r = nullptr => ModificationPoint(p) = nullptr
             /\ r \notin {nullptr, Abort} =>
                  \/ r = PrevNode(func, func.send)
                  \/ /\ r = ModificationPoint(p)
                     /\ \/ Loop = nullptr \/ r \in Known.loops[Loop]
                        \/ ChangesInLoop(func, Known, p, Loop, Excluded) = nullptr
<1>1. PrevNode(func, func.send) # nullptr
  <2>1. PrevNode(func, func.send) \in Nodes(func.graph)
    BY UsesFacts DEF PrevNode
  <2>2. QED
    BY <2>1, UsesFacts
<1>2. nullptr # Abort
  BY DEF nullptr, Abort
<1>3. LatestOfPointer(func, Known, p, func.send, Excluded) =
        IF ModificationPoint(p) \in {nullptr, Abort} \/ Loop = nullptr THEN ModificationPoint(p)
        ELSE IF ChangesInLoop(func, Known, p, Loop, Excluded) = Abort THEN Abort
        ELSE IF /\ ChangesInLoop(func, Known, p, Loop, Excluded) # nullptr
                /\ ModificationPoint(p) \notin Known.loops[Loop]
        THEN PrevNode(func, func.send)
        ELSE ModificationPoint(p)
  BY DEF LatestOfPointer, ModificationPoint, Loop
<1>4. QED
  BY <1>1, <1>2, <1>3

(* The search comes after every modification that can be used.             *)
LEMMA ModificationPointFinds ==
  ASSUME InFamily, OneOrder(Modifications), NEW p \in Pointers, ModificationPoint(p) # Abort
  PROVE  /\ ModificationPoint(p) \in Modifications \cup {nullptr}
         /\ p = "gep" => ModificationPoint(p) \in DOMAIN func.kind["gep"] \cup {nullptr}
         /\ \A n \in UsesOf(p) : Usable(n, func.send) =>
              /\ Modifies(func, n) => IsLater(ModificationPoint(p), n)
              /\ func.kind[p][n] = "gep" =>
                   \A m \in UsesOf("gep") : Modifies(func, m) /\ Usable(m, func.send)
                                              => IsLater(ModificationPoint(p), m)
<1> DEFINE list == get_ptr_usages(func, Known, p, func.send, Excluded)
<1>1. SearchedFrom(func.send)
  BY DEF SearchedFrom
<1>2. list \in Seq(UsesOf(p))
  BY <1>1, UsagesAreSearched
<1>3. ListOf(p, list, func.send) = list
  BY DEF ListOf
<1>4. ModificationPoint(p) = search_for_pointer_modification(func, Known, p, list, func.send, Excluded)
  BY DEF ModificationPoint
<1>5. \A n \in UsesOf(p) : Usable(n, func.send) => InList(list, n)
  BY UsableIsListed
<1> HIDE DEF list
<1>6. /\ ModificationPoint(p) \in Modifications \cup {nullptr}
      /\ p = "gep" => ModificationPoint(p) \in DOMAIN func.kind["gep"] \cup {nullptr}
      /\ FindsListed(ModificationPoint(p), p, list, func.send)
  BY <1>1, <1>2, <1>3, <1>4, PointerSearchFinds
<1>7. QED
  BY <1>5, <1>6 DEF FindsListed

(* The loop around the send changes nothing: then no use in it modifies,   *)
(* and no use of a pointer that is computed in it.                         *)
LEMMA NothingChanges ==
  ASSUME InFamily, OneOrder(Modifications), NEW p \in Pointers, Loop # nullptr,
         ChangesInLoop(func, Known, p, Loop, Excluded) = nullptr,
         NEW n \in UsesOf(p), n \in Known.loops[Loop]
  PROVE  /\ ~Modifies(func, n)
         /\ func.kind[p][n] = "gep" => \A m \in UsesOf("gep") : ~Modifies(func, m)
         /\ p = "gep" => DefinedAt(func, p) \notin Known.loops[Loop]
<1> DEFINE list == Only(func.users[p], Known.loops[Loop] \ Excluded)
<1>1. /\ SearchedFrom(nullptr) /\ nullptr # Abort /\ nullptr \notin Nodes(func.graph)
      /\ nullptr \notin Modifications
  BY UsesFacts, ModificationFacts DEF SearchedFrom, Loop, nullptr, Abort
<1>2. ~(p = "gep" /\ DefinedAt(func, p) \in Known.loops[Loop])
  <2> SUFFICES ASSUME p = "gep", DefinedAt(func, p) \in Known.loops[Loop] PROVE FALSE
    OBVIOUS
  <2>1. DefinedAt(func, p) = nullptr
    BY DEF ChangesInLoop
  <2>2. Loop \in DOMAIN LoopInfo(func.graph) /\ Known.loops = LoopInfo(func.graph)
    BY FunctionFacts, InnermostLoopOf DEF Known, Loop
  <2>3. Known.loops[Loop] \subseteq Nodes(func.graph)
    BY <2>2 DEF LoopInfo, LoopBody
  <2>4. QED
    BY <1>1, <2>1, <2>3
<1>3. (Known.loops[Loop] \ Excluded) \cap DOMAIN func.kind[p] \subseteq UsesOf(p)
  BY DEF UsesOf, Searched, Excluded, Known, Loop
<1>4. list \in Seq(UsesOf(p))
  BY <1>3, UsersAreSearched
<1>5. InList(list, n) /\ list # <<>>
  <2>1. n \in DOMAIN func.kind[p] \cap (Known.loops[Loop] \ Excluded)
    BY DEF UsesOf, Searched, Excluded
  <2>2. QED
    BY <2>1, UseInLoopIsListed
<1>6. search_for_pointer_modification(func, Known, p, list, nullptr, Excluded) = nullptr
  BY <1>2 DEF ChangesInLoop
<1> HIDE DEF list
<1>7. FindsListed(nullptr, p, list, nullptr)
  BY <1>1, <1>4, <1>5, <1>6, PointerSearchFinds DEF ListOf
<1>8. /\ Modifies(func, n) => IsLater(nullptr, n)
      /\ func.kind[p][n] = "gep" =>
           \A m \in UsesOf("gep") : Modifies(func, m) => IsLater(nullptr, m)
  BY <1>5, <1>7 DEF FindsListed, Usable
<1>9. \A m : ~IsLater(nullptr, m)
  BY <1>1 DEF IsLater
<1>10. QED
  BY <1>2, <1>8, <1>9

\* The pass takes for the last modification what its search answers.
SearchInv ==
  /\ IgnoreInv
  /\ latest_modification =
       IF ignore = {Abort} THEN Abort
       ELSE get_latest_modification_of_pointer(func, Known, func.buffer, func.send, Excluded)

\* The conditions of RegionOnEveryPathIsLatest, which no step changes.
Sure ==
  /\ replaced # nullptr /\ OnEveryPath
  /\ OneOrder(Modifications) /\ LaterIsBehind /\ BothPointersAreSearched /\ IgnoredAreKnown

\* Every path to n passes the region, and one leads on to the send that does not.
Between(n) ==
  /\ n \in Nodes(func.graph)
  /\ Dominates(func.graph, replaced, n)
  /\ ReachesAvoiding(func.graph, n, func.send, replaced)

(* The region.                                                             *)
LEMMA RegionFacts ==
  ASSUME SearchInv, Sure
  PROVE  /\ replaced = latest_modification /\ replaced \in Nodes(func.graph)
         /\ replaced \in Modifications /\ replaced \notin {func.send, func.graph.entry, nullptr, Abort}
         /\ Modifies(func, replaced) /\ replaced \notin DOMAIN func.call
         /\ KindOf(func, replaced) = "fork"
         /\ Dominates(func.graph, replaced, func.send)
         /\ Reaches(func.graph, replaced, func.send)
         /\ Known.loops = LoopInfo(func.graph)
         /\ func.send \in Nodes(func.graph) /\ Flow(func.graph)
         /\ \A n \in Nodes(func.graph) :
              func.send \in Known.reach[n] <=> Reaches(func.graph, n, func.send)
<1>1. InFamily
  BY DEF SearchInv, IgnoreInv
<1>2. /\ replaced = latest_modification /\ replaced \in Nodes(func.graph)
      /\ KindOf(func, replaced) = "fork"
  BY DEF Sure, replaced
<1>3. replaced # func.send /\ Modifies(func, replaced) /\ replaced \notin DOMAIN func.call
  BY <1>1, <1>2, PointerFacts DEF KindOf, Modifies
<1>4. replaced # func.graph.entry
  BY <1>1, <1>2, <1>3, PointerFacts DEF KindOf, PointersAreComputed
<1>5. func.send \in Nodes(func.graph) /\ replaced \notin {nullptr, Abort}
  BY <1>1, <1>2, UsesFacts
<1>6. Flow(func.graph) /\ Known.loops = LoopInfo(func.graph)
  BY <1>1, FunctionFacts DEF Known
<1>7. \A n \in Nodes(func.graph) :
        func.send \in Known.reach[n] <=> Reaches(func.graph, n, func.send)
  BY <1>1, <1>5, FunctionFacts DEF Known, FactsOf, Facts
<1>8. Dominates(func.graph, replaced, func.send)
  BY <1>1, <1>2, FunctionFacts DEF Sure, OnEveryPath, Analysis
<1>9. Reaches(func.graph, replaced, func.send)
  BY <1>2, <1>5, <1>6, <1>8, DominatorReaches DEF Flow, Proper
<1>10. replaced \in Modifications
  <2>1. replaced \notin ignore
    BY <1>3, <1>5, IgnoredAreCalls DEF SearchInv
  <2>2. \E p \in Pointers : replaced \in DOMAIN func.kind[p]
    BY <1>1, <1>3, ModifiesIsUse
  <2>3. func.send \in FactsOf[func.graph].reach[replaced]
    BY <1>2, <1>7, <1>9 DEF Known
  <2>4. QED
    BY <1>3, <2>1, <2>2, <2>3 DEF Modifications, Searched
<1>11. QED
  BY <1>2, <1>3, <1>4, <1>5, <1>6, <1>7, <1>8, <1>9, <1>10

(* Through which pointer the region was found.                             *)
LEMMA RegionIsFound ==
  ASSUME SearchInv, Sure
  PROVE  \E p \in Pointers :
           /\ replaced = LatestOfPointer(func, Known, p, func.send, Excluded)
           /\ \/ p = func.buffer
              \/ /\ func.buffer = "gep" /\ p = "ptr"
                 /\ LatestOfPointer(func, Known, "gep", func.send, Excluded) = nullptr
<1> DEFINE latest == LatestOfPointer(func, Known, func.buffer, func.send, Excluded)
           base   == IF func.buffer = "gep"
                     THEN LatestOfPointer(func, Known, "ptr", func.send, Excluded) ELSE nullptr
<1>1. InFamily /\ OneOrder(Modifications) /\ func.buffer \in Pointers
  BY UsesFacts DEF SearchInv, IgnoreInv, Sure
<1>2. ASSUME NEW p \in Pointers
      PROVE  LatestOfPointer(func, Known, p, func.send, Excluded) \in Int
  <2>1. PrevNode(func, func.send) \in Int
    <3>1. PrevNode(func, func.send) \in Nodes(func.graph)
      BY <1>1, UsesFacts DEF PrevNode
    <3>2. QED
      BY <1>1, <3>1, UsesFacts
  <2>2. ModificationPoint(p) \in Int
    BY <1>1, ModificationPointFinds, ModificationFacts DEF nullptr, Abort
  <2>3. QED
    BY <1>1, <2>1, <2>2, LatestOfPointerCases DEF nullptr, Abort
<1>3. latest \in Int /\ base \in Int
  BY <1>1, <1>2 DEF Pointers, nullptr
<1>4. func.graph.entry \in Int \ {nullptr}
  BY <1>1, FunctionFacts, UsesFacts
<1>5. latest_modification = Only(<<latest, base, func.graph.entry>>, Int \ {nullptr})[1]
  BY RegionFacts DEF SearchInv, get_latest_modification_of_pointer
<1>6. replaced = latest_modification /\ replaced \notin {func.graph.entry, nullptr}
  BY RegionFacts
<1> HIDE DEF latest, base
<1>7. replaced = latest \/ (latest = nullptr /\ replaced = base)
  BY <1>3, <1>4, <1>5, <1>6, FirstOfThree
<1>8. QED
  BY <1>1, <1>6, <1>7 DEF latest, base, Pointers

\* The hypotheses of the lemmas about what is between the region and the send.
LEMMA SureFacts ==
  ASSUME SearchInv, Sure
  PROVE  /\ InFamily /\ OneOrder(Modifications)
         /\ Flow(func.graph) /\ IsFiniteSet(Nodes(func.graph)) /\ Reducible(func.graph)
         /\ func.send \in Nodes(func.graph) /\ Known.trees = Analysis(func.graph)
         /\ Known.loops = LoopInfo(func.graph)
         /\ Modifications \subseteq Nodes(func.graph)
         /\ nullptr \notin Nodes(func.graph)
<1>1. InFamily /\ OneOrder(Modifications)
  BY DEF SearchInv, IgnoreInv, Sure
<1>2. QED
  BY <1>1, FunctionFacts, UsesFacts, ModificationFacts DEF Known

(* A use between the region and the send leads to it, and is not the one   *)
(* in front of it; if it comes later in the loop, the region is outside.   *)
LEMMA BetweenFacts ==
  ASSUME SearchInv, Sure, NEW n, Between(n), n # func.send,
         NEW p \in Pointers, n \in DOMAIN func.kind[p], n \notin ignore, KindOf(func, n) # "load"
  PROVE  /\ n \in UsesOf(p)
         /\ replaced # PrevNode(func, func.send)
         /\ \/ Usable(n, func.send)
            \/ Loop # nullptr /\ n \in Known.loops[Loop] /\ replaced \notin Known.loops[Loop]
<1> DEFINE g == func.graph
           s == func.send
<1>1. /\ n \in Nodes(g) /\ Dominates(g, replaced, n) /\ ReachesAvoiding(g, n, s, replaced)
      /\ replaced \in Nodes(g) /\ replaced # s /\ Dominates(g, replaced, s)
      /\ s \in Nodes(g) /\ Flow(g)
  BY RegionFacts DEF Between
<1>2. Reaches(g, n, s)
  BY <1>1 DEF ReachesAvoiding, Reaches, Closed
<1>3. s \in Known.reach[n]
  BY <1>1, <1>2, RegionFacts
<1>4. n \in UsesOf(p)
  BY <1>3 DEF UsesOf, Searched, Known
<1>5. replaced # PrevNode(func, s)
  <2> SUFFICES ASSUME replaced = PrevNode(func, s) PROVE FALSE
    OBVIOUS
  <2> DEFINE before == {m \in Nodes(g) : g.succ[m] = {s}}
             into == {m \in Nodes(g) : s \in g.succ[m]}
  <2>1. before # {} /\ Cardinality(into) = 1 /\ replaced \in before
    BY <1>1 DEF PrevNode
  <2>2. into \subseteq {replaced}
    <3>1. replaced \in into
      BY <2>1
    <3>2. IsFiniteSet(into)
      BY SureFacts, FS_Subset
    <3>3. PICK m : into = {m}
      BY <2>1, <3>2, FS_Singleton
    <3>4. QED
      BY <3>1, <3>3
  <2>3. \E m \in Nodes(g) : m # replaced /\ s \in g.succ[m]
    BY <1>1, LastEdge DEF Flow
  <2>4. QED
    BY <2>2, <2>3
<1>6. ASSUME ~Usable(n, s)
      PROVE  Loop # nullptr /\ n \in Known.loops[Loop] /\ replaced \notin Known.loops[Loop]
  <2>1. LaterInLoop(Known, n, s)
    BY <1>3, <1>6 DEF Usable
  <2>2. Loop # nullptr /\ Loop = LoopFor(Known.loops, n)
    BY <2>1 DEF LaterInLoop, Loop
  <2>3. n \in Known.loops[Loop]
    <3>1. LoopsAround(Known.loops, n) # {} /\ Loop \in LoopsAround(Known.loops, n)
      <4>1. Loop \in DOMAIN LoopInfo(g) /\ Known.loops = LoopInfo(g)
        BY <2>2, SureFacts, InnermostLoopOf
      <4>2. LoopsAround(Known.loops, n) # {}
        BY <2>2 DEF LoopFor
      <4>3. PICK h \in DOMAIN LoopInfo(g) : n \in LoopBody(g, h)
        BY <4>1, <4>2 DEF LoopsAround, LoopInfo
      <4>4. LoopInfo(g) = Loops(g, DOMAIN LoopInfo(g)) /\ DOMAIN LoopInfo(g) \in SUBSET Nodes(g)
        BY DEF LoopInfo, Loops
      <4>5. Loop \in DOMAIN LoopInfo(g) /\ n \in LoopBody(g, Loop)
        BY <2>2, <4>1, <4>3, <4>4, InnermostLoop, SureFacts
      <4>6. QED
        BY <4>1, <4>5 DEF LoopsAround, LoopInfo
    <3>2. QED
      BY <3>1 DEF LoopsAround
  <2>4. ~Reaches(Iteration(g, s), n, s)
    BY <1>4, <2>1 DEF Sure, LaterIsBehind, UsesOf, Known
  <2>5. replaced \notin LoopInfo(g)[LoopFor(LoopInfo(g), s)]
    BY <1>1, <2>4, SureFacts, LaterIsAround
  <2>6. QED
    BY <2>2, <2>3, <2>5, SureFacts DEF Loop
<1>7. QED
  BY <1>4, <1>5, <1>6

(* The region comes before a modification behind it.                       *)
LEMMA RegionIsBefore ==
  ASSUME SearchInv, Sure, NEW n \in Modifications, Between(n)
  PROVE  ~IsLater(replaced, n)
<1>1. replaced \in Modifications /\ replaced \in Nodes(func.graph) /\ n \in Nodes(func.graph)
  BY RegionFacts DEF Between
<1>2. replaced # n /\ Dominates(func.graph, replaced, n)
  BY DEF Between, Dominates
<1>3. IsBefore(func.graph, replaced, n)
  BY <1>1, <1>2, BeforeInTrees
<1>4. ~IsBefore(func.graph, n, replaced)
  <2>1. Modifications \in SUBSET Nodes(func.graph) /\ InOneOrder(func.graph, Modifications)
        /\ nullptr \notin Modifications
    BY SureFacts, ModificationFacts
  <2>2. QED
    BY <1>1, <1>2, <1>3, <2>1, BeforeInOneOrder
<1>5. QED
  BY <1>4 DEF IsLater

\* What the search through p has answered when it has found the region.
LEMMA RegionIsAnswer ==
  ASSUME SearchInv, Sure, NEW p \in Pointers,
         replaced = LatestOfPointer(func, Known, p, func.send, Excluded),
         replaced # PrevNode(func, func.send)
  PROVE  /\ replaced = ModificationPoint(p)
         /\ p = "gep" => replaced \in DOMAIN func.kind["gep"]
         /\ \A n \in UsesOf(p) : Usable(n, func.send) =>
              /\ Modifies(func, n) => IsLater(replaced, n)
              /\ func.kind[p][n] = "gep" =>
                   \A m \in UsesOf("gep") : Modifies(func, m) /\ Usable(m, func.send)
                                              => IsLater(replaced, m)
         /\ Loop # nullptr /\ replaced \notin Known.loops[Loop] =>
              \A n \in UsesOf(p) : n \in Known.loops[Loop] =>
                /\ ~Modifies(func, n)
                /\ func.kind[p][n] = "gep" => \A m \in UsesOf("gep") : ~Modifies(func, m)
<1>1. replaced \notin {nullptr, Abort}
  BY RegionFacts
<1>2. /\ replaced = ModificationPoint(p)
      /\ \/ Loop = nullptr \/ replaced \in Known.loops[Loop]
         \/ ChangesInLoop(func, Known, p, Loop, Excluded) = nullptr
  BY <1>1, SureFacts, LatestOfPointerCases
<1>3. /\ p = "gep" => replaced \in DOMAIN func.kind["gep"]
      /\ \A n \in UsesOf(p) : Usable(n, func.send) =>
           /\ Modifies(func, n) => IsLater(replaced, n)
           /\ func.kind[p][n] = "gep" =>
                \A m \in UsesOf("gep") : Modifies(func, m) /\ Usable(m, func.send)
                                           => IsLater(replaced, m)
  BY <1>1, <1>2, SureFacts, ModificationPointFinds
<1>4. ASSUME Loop # nullptr, replaced \notin Known.loops[Loop],
             NEW n \in UsesOf(p), n \in Known.loops[Loop]
      PROVE  /\ ~Modifies(func, n)
             /\ func.kind[p][n] = "gep" => \A m \in UsesOf("gep") : ~Modifies(func, m)
  BY <1>2, <1>4, SureFacts, NothingChanges
<1>5. QED
  BY <1>2, <1>3, <1>4

(* A modification through the pointer that led to the region.              *)
LEMMA NotThroughSamePointer ==
  ASSUME SearchInv, Sure, NEW p \in Pointers,
         replaced = LatestOfPointer(func, Known, p, func.send, Excluded),
         NEW n \in Modifications, Between(n), n \in DOMAIN func.kind[p]
  PROVE  FALSE
<1>1. n \notin ignore /\ n # func.send /\ Modifies(func, n)
  BY DEF Modifications, Searched
<1>2. KindOf(func, n) # "load"
  BY <1>1 DEF Modifies
<1>3. /\ n \in UsesOf(p)
      /\ replaced # PrevNode(func, func.send)
      /\ \/ Usable(n, func.send)
         \/ Loop # nullptr /\ n \in Known.loops[Loop] /\ replaced \notin Known.loops[Loop]
  BY <1>1, <1>2, BetweenFacts
<1>4. ~IsLater(replaced, n)
  BY RegionIsBefore
<1>5. QED
  BY <1>1, <1>3, <1>4, RegionIsAnswer

\* The instruction that computes the second pointer.
Gep == DefinedAt(func, "gep")

\* Where the second pointer is computed.
LEMMA GepFacts ==
  ASSUME SearchInv, NEW n \in DOMAIN func.kind["gep"]
  PROVE  /\ Gep \in DOMAIN func.kind["ptr"] /\ func.kind["ptr"][Gep] = "gep"
         /\ Gep \in Nodes(func.graph) /\ Gep \notin ignore /\ Gep # func.send
         /\ KindOf(func, Gep) = "gep" /\ Dominates(func.graph, Gep, n)
<1>1. InFamily
  BY DEF SearchInv, IgnoreInv
<1>2. /\ Gep \in DOMAIN func.kind["ptr"] /\ func.kind["ptr"][Gep] = "gep"
      /\ Gep \notin DOMAIN func.call /\ n \in FactsOf[func.graph].trees.domtree[Gep]
  BY <1>1, PointerFacts DEF PointersAreComputed, Gep
<1>3. Gep \in Nodes(func.graph)
  BY <1>1, <1>2, PointerFacts DEF Pointers
<1>4. Gep # func.send /\ Gep # Abort
  BY <1>1, <1>2, <1>3, FunctionFacts, UsesFacts
<1>5. Gep \notin ignore
  BY <1>2, <1>4, IgnoredAreCalls DEF SearchInv
<1>6. KindOf(func, Gep) = "gep"
  BY <1>2, <1>4 DEF KindOf
<1>7. Dominates(func.graph, Gep, n)
  BY <1>1, <1>2, <1>3, FunctionFacts DEF Analysis
<1>8. QED
  BY <1>2, <1>3, <1>4, <1>5, <1>6, <1>7

(* A modification through the pointer that is computed from the buffer,    *)
(* which is where the instruction that computes it is used.                *)
LEMMA NotThroughGep ==
  ASSUME SearchInv, Sure, func.buffer = "ptr",
         replaced = LatestOfPointer(func, Known, "ptr", func.send, Excluded),
         NEW n \in Modifications, Between(n), n \in DOMAIN func.kind["gep"]
  PROVE  FALSE
<1> DEFINE g == func.graph
           s == func.send
<1>1. n \notin ignore /\ n # s /\ Modifies(func, n) /\ "ptr" \in Pointers /\ "gep" \in Pointers
  BY DEF Modifications, Searched, Pointers
<1>2. KindOf(func, n) # "load"
  BY <1>1 DEF Modifies
<1>3. /\ n \in UsesOf("gep")
      /\ replaced # PrevNode(func, s)
      /\ \/ Usable(n, s)
         \/ Loop # nullptr /\ n \in Known.loops[Loop] /\ replaced \notin Known.loops[Loop]
  BY <1>1, <1>2, BetweenFacts
<1>4. /\ n \in Nodes(g) /\ Dominates(g, replaced, n) /\ ReachesAvoiding(g, n, s, replaced)
      /\ replaced \in Nodes(g) /\ s \in Nodes(g) /\ Dominates(g, replaced, s) /\ Flow(g)
  BY RegionFacts DEF Between
<1>5. /\ Gep \in DOMAIN func.kind["ptr"] /\ func.kind["ptr"][Gep] = "gep"
      /\ Gep \in Nodes(g) /\ Gep \notin ignore /\ Gep # s
      /\ KindOf(func, Gep) = "gep" /\ Dominates(g, Gep, n)
  BY GepFacts
<1>6. Gep \in UsesOf("ptr") /\ s \in Known.reach[Gep]
  <2>1. Reaches(g, Gep, n)
    BY <1>4, <1>5, DominatorReaches DEF Flow, Proper
  <2>2. Reaches(g, n, s)
    BY <1>4 DEF ReachesAvoiding, Reaches, Closed
  <2>3. s \in FactsOf[g].reach[Gep]
    BY <1>5, <2>1, <2>2, ReachesTransitive, RegionFacts DEF Known
  <2>4. QED
    BY <1>1, <1>5, <2>3 DEF UsesOf, Searched, Known
<1>7. /\ Usable(Gep, s) => \A m \in UsesOf("gep") : Modifies(func, m) /\ Usable(m, s)
                                                    => IsLater(replaced, m)
      /\ Loop # nullptr /\ replaced \notin Known.loops[Loop] /\ Gep \in Known.loops[Loop] =>
           \A m \in UsesOf("gep") : ~Modifies(func, m)
  BY <1>1, <1>3, <1>5, <1>6, RegionIsAnswer
<1>8. ASSUME Loop # nullptr, n \in Known.loops[Loop], replaced \notin Known.loops[Loop]
      PROVE  FALSE
  <2>1. InnermostOf[g][s] = Known.loops[Loop]
    <3>1. g \in DOMAIN FactsOf
      BY SureFacts, FunctionFacts
    <3>2. QED
      BY <1>4, <1>8, <3>1 DEF InnermostOf, Known, Loop
  <2>2. Gep \in Known.loops[Loop]
    BY <1>8, <2>1 DEF Sure, BothPointersAreSearched, Gep
  <2>3. QED
    BY <1>1, <1>3, <1>7, <1>8, <2>2
<1>9. ASSUME Usable(n, s) PROVE FALSE
  <2>1. ~Usable(Gep, s)
    BY <1>1, <1>3, <1>7, <1>9, RegionIsBefore
  <2>2. get_first_of_two(Known.trees, Gep, s) = s
    BY <1>6, <2>1 DEF Usable, LaterInLoop
  <2>3. ~Dominates(g, Gep, s)
    <3>1. ~IsBefore(g, Gep, s)
      BY <1>5, <2>2, SureFacts DEF IsBefore
    <3>2. QED
      BY <1>4, <1>5, <3>1, BeforeInTrees
  <2>4. Gep # replaced
    BY <1>5, RegionFacts
  <2>5. ~Dominates(g, Gep, replaced)
    BY <1>4, <1>5, <2>3, DominatesIsTransitive
  <2>6. Dominates(g, replaced, Gep)
    BY <1>4, <1>5, <2>4, <2>5, DominatorsAreOrdered
  <2>7. ReachesAvoiding(g, Gep, s, replaced)
    <3>1. ReachesAvoiding(g, Gep, n, replaced)
      BY <1>4, <1>5, <2>6, DominatedAvoids
    <3>2. QED
      BY <1>4, <3>1, AvoidsTransitive
  <2>8. Between(Gep)
    BY <1>5, <2>6, <2>7 DEF Between
  <2>9. Loop # nullptr /\ Gep \in Known.loops[Loop] /\ replaced \notin Known.loops[Loop]
    BY <1>1, <1>5, <2>1, <2>8, BetweenFacts
  <2>10. QED
    BY <1>1, <1>3, <1>7, <2>9
<1>10. QED
  BY <1>3, <1>8, <1>9

(* No modification that the search has looked for comes between.           *)
LEMMA NothingSearchedBetween ==
  ASSUME SearchInv, Sure, NEW n \in Modifications, Between(n)
  PROVE  FALSE
<1>1. PICK p \in Pointers :
        /\ replaced = LatestOfPointer(func, Known, p, func.send, Excluded)
        /\ \/ p = func.buffer
           \/ /\ func.buffer = "gep" /\ p = "ptr"
              /\ LatestOfPointer(func, Known, "gep", func.send, Excluded) = nullptr
  BY RegionIsFound
<1>2. n \notin DOMAIN func.kind[p]
  BY <1>1, NotThroughSamePointer
<1>3. Modifies(func, n) /\ Modifies(func, replaced) /\ replaced \in Modifications /\ InFamily
  BY RegionFacts, SureFacts DEF Modifications
<1>4. PICK q \in Pointers : n \in DOMAIN func.kind[q]
  BY <1>3, ModifiesIsUse
<1>5. CASE p = "ptr" /\ func.buffer = "ptr"
  BY <1>1, <1>2, <1>4, <1>5, NotThroughGep DEF Pointers
<1>6. CASE p = "gep" /\ func.buffer = "gep"
  <2>1. replaced # PrevNode(func, func.send)
    <3>1. n \notin ignore /\ n # func.send /\ KindOf(func, n) # "load"
      BY <1>3 DEF Modifications, Searched, Modifies, KindOf
    <3>2. QED
      BY <1>4, <3>1, BetweenFacts
  <2>2. replaced \in DOMAIN func.kind["gep"]
    BY <1>1, <1>6, <2>1, RegionIsAnswer
  <2>3. n \in DOMAIN func.kind["ptr"]
    BY <1>2, <1>4, <1>6 DEF Pointers
  <2>4. QED
    BY <1>3, <1>6, <2>2, <2>3 DEF Sure, BothPointersAreSearched, Pointers
<1>7. CASE func.buffer = "gep" /\ p = "ptr"
  <2>1. LatestOfPointer(func, Known, "gep", func.send, Excluded) = nullptr
    BY <1>1, <1>7
  <2>2. n \in DOMAIN func.kind["gep"] /\ "gep" \in Pointers
    BY <1>2, <1>4, <1>7 DEF Pointers
  <2>3. replaced \notin DOMAIN func.kind["ptr"]
    BY <1>3, <1>7, <2>2 DEF Sure, BothPointersAreSearched, Pointers
  <2>4. replaced \in UsesOf("gep")
    <3>1. \E r \in Pointers : replaced \in DOMAIN func.kind[r]
      BY <1>3, ModifiesIsUse
    <3>2. replaced \in DOMAIN func.kind["gep"]
      BY <2>3, <3>1 DEF Pointers
    <3>3. QED
      BY <1>3, <3>2 DEF UsesOf, Modifications
  <2>5. Usable(replaced, func.send)
    <3>1. IsBefore(func.graph, replaced, func.send)
      BY RegionFacts, BeforeInTrees
    <3>2. get_first_of_two(Known.trees, replaced, func.send) # func.send
      BY <3>1, RegionFacts, SureFacts DEF IsBefore
    <3>3. QED
      BY <3>2, RegionFacts DEF Usable, LaterInLoop
  <2>6. ModificationPoint("gep") = nullptr
    BY <1>3, <2>1, <2>2, LatestOfPointerCases
  <2>7. IsLater(nullptr, replaced)
    <3>1. nullptr # Abort
      BY DEF nullptr, Abort
    <3>2. QED
      BY <1>3, <2>2, <2>4, <2>5, <2>6, <3>1, ModificationPointFinds, SureFacts
  <2>8. QED
    BY <2>7, SureFacts DEF IsLater
<1>8. QED
  BY <1>1, <1>5, <1>6, <1>7, SureFacts, UsesFacts DEF Pointers

(* What starts before MPI_Finalize, or is received before the buffer is    *)
(* used, has been waited for in between.                                   *)
LEMMA WaitComesBefore ==
  ASSUME InFamily, NEW n \in Nodes(func.graph), Starts(func, n),
         NEW s \in Nodes(func.graph), Follows(func.graph, n, s),
         IsCall(func, s, {"MPI_Finalize"}) \/ (Modifies(func, n) /\ KindOf(func, s) # "none")
  PROVE  \E w \in WaitsFor(n) : w \in Nodes(func.graph) /\ Follows(func.graph, w, s)
<1> DEFINE g == func.graph
<1>1. PICK l \in func.uses[n] : TRUE
  BY AwaitedFacts
<1>2. PICK S \in SUBSET Nodes(g) :
        /\ g.succ[n] \subseteq S /\ Closed(g, S, WaitsOn(func, l))
        /\ \A m \in S : /\ ~IsCall(func, m, {"MPI_Finalize"})
                        /\ Modifies(func, n) => KindOf(func, m) = "none"
  BY AwaitedFacts
<1>3. s \notin S
  <2>1. CASE IsCall(func, s, {"MPI_Finalize"})
    BY <1>2, <2>1
  <2>2. CASE Modifies(func, n) /\ KindOf(func, s) # "none"
    BY <1>2, <2>2
  <2>3. QED
    BY <2>1, <2>2
<1>4. PICK m \in g.succ[n] : Reaches(g, m, s)
  BY DEF Follows
<1> DEFINE U == {y \in Nodes(g) : y \in S \/ ~Reaches(g, y, s)}
<1>5. m \in U /\ s \notin U
  BY <1>2, <1>3, <1>4, ReachesSelf
<1>6. ~Closed(g, U, {})
  BY <1>4, <1>5 DEF Reaches
<1>7. PICK y \in U : ~(g.succ[y] \subseteq U)
  BY <1>6 DEF Closed
<1>8. PICK z \in g.succ[y] : z \notin U
  BY <1>7
<1>9. z \in Nodes(g) /\ z \notin S /\ Reaches(g, z, s)
  BY <1>7, <1>8, FunctionFacts DEF Flow
<1>10. Follows(g, y, s) /\ Reaches(g, y, s)
  BY <1>7, <1>8, <1>9, ReachesOverEdge DEF Follows
<1>11. y \in WaitsOn(func, l)
  BY <1>2, <1>7, <1>8, <1>9, <1>10 DEF Closed
<1>12. QED
  BY <1>7, <1>10, <1>11 DEF WaitsFor, WaitsOn

(* A call that is ignored because it overlaps does not come between.       *)
LEMMA IgnoredIsNotBetween ==
  ASSUME SearchInv, Sure, NEW n \in ignore, Between(n), Modifies(func, n)
  PROVE  FALSE
<1> DEFINE g == func.graph
<1>1. /\ InFamily /\ Flow(g) /\ func.send \in Nodes(g) /\ Known.trees = Analysis(g)
      /\ n \in Nodes(g) /\ IgnoreInv
  BY SureFacts DEF Between, SearchInv
<1>2. n # func.send /\ n # Abort
  BY <1>1, ModifiesIsUse, UsesFacts
<1>3. Reaches(g, n, func.send)
  BY DEF Between, ReachesAvoiding, Reaches, Closed
<1>4. Follows(g, n, func.send)
  BY <1>1, <1>2, <1>3, ReachesFollows DEF Flow
<1>5. /\ IF Starts(func, n) THEN WaitsAreKnown(n) ELSE Ordered({n, func.send})
      /\ Acyclic(g)
  BY <1>2 DEF Sure, IgnoredAreKnown
<1>6. ~Starts(func, n)
  <2> SUFFICES ASSUME Starts(func, n) PROVE FALSE
    OBVIOUS
  <2>1. PICK w \in WaitsFor(n) : Follows(g, w, func.send)
    <3>1. KindOf(func, func.send) # "none"
      BY DEF KindOf
    <3>2. QED
      BY <1>1, <1>4, <3>1, WaitComesBefore
  <2>2. QED
    BY <1>1, <1>2, <1>5, <2>1, KnownWaitIsNotBefore
<1>7. /\ get_local_completion_point(func, Known, n) = n
      /\ get_first_of_two(Known.trees, n, func.send) # n
  <2>1. n \in DOMAIN func.call /\ get_local_completion_point(func, Known, n) # Abort
    BY <1>1, <1>2, IgnoredOverlaps
  <2>2. func.call[n].name \notin _nonblocking_functions
    BY <1>6, <2>1 DEF Starts, IsCall
  <2>3. get_local_completion_point(func, Known, n) = n
    BY <2>1, <2>2 DEF get_local_completion_point
  <2>4. QED
    BY <1>1, <1>2, <2>3, IgnoredOverlaps
<1>8. get_first_of_two(Known.trees, n, func.send) # nullptr
  BY <1>5, <1>6 DEF Ordered, Known
<1>9. Reaches(g, func.send, n)
  BY <1>1, <1>7, <1>8, FirstReaches
<1>10. QED
  BY <1>1, <1>4, <1>5, <1>9, AcyclicOrder

(* Between the region and the send nothing else modifies the buffer.       *)
LEMMA NothingBetween ==
  ASSUME SearchInv, Sure, NEW n, Between(n)
  PROVE  ~Modifies(func, n)
<1> SUFFICES ASSUME Modifies(func, n) PROVE FALSE
  OBVIOUS
<1>1. InFamily /\ n \in Nodes(func.graph)
  BY SureFacts DEF Between
<1>2. n \notin ignore
  BY IgnoredIsNotBetween
<1>3. n # func.send /\ \E p \in Pointers : n \in DOMAIN func.kind[p]
  BY <1>1, ModifiesIsUse
<1>4. Reaches(func.graph, n, func.send)
  BY DEF Between, ReachesAvoiding, Reaches, Closed
<1>5. func.send \in Known.reach[n]
  BY <1>1, <1>4, RegionFacts
<1>6. n \in Modifications
  BY <1>2, <1>3, <1>5 DEF Modifications, Searched, Known
<1>7. QED
  BY <1>6, NothingSearchedBetween

\* What is received, or was until now, with request l will be waited for.
Awaited(l) ==
  \E S \in SUBSET {n \in Nodes(func.graph) : KindOf(func, n) = "none"} :
    pos \in S /\ Closed(func.graph, S, WaitsOn(func, l))

\* On request l runs a call that receives into the buffer.
Receives(l) == mpi_request[l] > 0 /\ Modifies(func, mpi_request[l])

AwaitedInv == \A l \in DOMAIN mpi_request : Receives(l) => Awaited(l)

(* From the region on, no other modification has come or is under way.     *)
BetweenInv ==
  Sure /\ Between(pos) =>
    modified = replaced /\ \A l \in DOMAIN mpi_request : ~Receives(l)

LatestInv == OverlapInv /\ SearchInv /\ AwaitedInv /\ BetweenInv

LEMMA InitLatestInv == Init => LatestInv
<1> SUFFICES ASSUME Init PROVE LatestInv
  OBVIOUS
<1>1. OverlapInv /\ IgnoreInv
  BY InitOverlapInv DEF OverlapInv
<1>2. SearchInv
  BY <1>1 DEF SearchInv, Init, Known, Excluded
<1>3. AwaitedInv
  BY DEF Init, AwaitedInv, Receives, Uninitialised
<1>4. BetweenInv
  BY DEF Init, BetweenInv, Between, Dominates
<1>5. QED
  BY <1>1, <1>2, <1>3, <1>4 DEF LatestInv

\* No step changes what the invariant says of the function.
LEMMA FixedSearch ==
  ASSUME Fixed
  PROVE  SearchInv' = SearchInv /\ Sure' = Sure /\ \A n : Between(n)' = Between(n)
<1>1. /\ func' = func /\ ignore' = ignore /\ latest_modification' = latest_modification
      /\ replaced' = replaced /\ InFamily' = InFamily
  BY FixedFacts DEF Fixed
<1>2. Known' = Known /\ Excluded' = Excluded
  BY <1>1 DEF Known, Excluded
<1>3. SearchInv' = SearchInv
  BY <1>1, <1>2 DEF SearchInv, IgnoreInv
<1>4. Searched' = Searched
  BY <1>1 DEF Searched
<1>5. Modifications' = Modifications
  BY <1>1, <1>4 DEF Modifications
<1>6. \A S : OneOrder(S)' = OneOrder(S) /\ Ordered(S)' = Ordered(S)
  BY <1>1 DEF OneOrder, Ordered
<1>7. OneOrder(Modifications)' = OneOrder(Modifications)
  BY <1>1, <1>5 DEF OneOrder
<1>8. LaterIsBehind' = LaterIsBehind
  BY <1>1, <1>4 DEF LaterIsBehind
<1>9. BothPointersAreSearched' = BothPointersAreSearched
  BY <1>1, <1>5 DEF BothPointersAreSearched
<1>10. \A n : WaitsAreKnown(n)' = WaitsAreKnown(n)
  BY <1>1 DEF WaitsAreKnown, WaitsFound, WaitsFor, Ordered
<1>11. IgnoredAreKnown' = IgnoredAreKnown
  BY <1>1, <1>10 DEF IgnoredAreKnown, Ordered
<1>12. OnEveryPath' = OnEveryPath
  BY <1>1 DEF OnEveryPath
<1>13. \A n : Between(n)' = Between(n)
  BY <1>1 DEF Between
<1>14. QED
  BY <1>1, <1>3, <1>7, <1>8, <1>9, <1>11, <1>12, <1>13 DEF Sure

\* A call that runs stays in front of its wait.
LEMMA NextAwaitedInv ==
  ASSUME TypeInv, AwaitedInv, Next
  PROVE  AwaitedInv'
<1>1. func' = func /\ pos' \in func.graph.succ[pos] /\ pos \in Nodes(func.graph) /\ InFamily
  BY DEF Next, TypeInv
<1>2. mpi_request' = RequestsAfter(func, pos, mpi_request)
  BY DEF Next, Execute
<1> SUFFICES ASSUME NEW l \in DOMAIN mpi_request', Receives(l)' PROVE Awaited(l)'
  BY DEF AwaitedInv
<1>3. /\ l \in DOMAIN mpi_request
      /\ mpi_request'[l] = IF l \notin func.uses[pos] THEN mpi_request[l]
                           ELSE IF Starts(func, pos) THEN pos ELSE nullptr
  BY <1>2 DEF RequestsAfter
<1>4. mpi_request'[l] > 0 /\ Modifies(func, mpi_request'[l])
  BY <1>1 DEF Receives
<1>5. CASE l \notin func.uses[pos]
  <2>1. Awaited(l)
    BY <1>3, <1>4, <1>5 DEF AwaitedInv, Receives
  <2>2. PICK S \in SUBSET {n \in Nodes(func.graph) : KindOf(func, n) = "none"} :
          pos \in S /\ Closed(func.graph, S, WaitsOn(func, l))
    BY <2>1 DEF Awaited
  <2>3. pos' \in S
    BY <1>1, <1>5, <2>2 DEF Closed, WaitsOn
  <2>4. QED
    BY <1>1, <2>2, <2>3 DEF Awaited
<1>6. CASE l \in func.uses[pos]
  <2>1. Starts(func, pos) /\ Modifies(func, pos)
    BY <1>3, <1>4, <1>6 DEF nullptr
  <2>2. PICK S \in SUBSET Nodes(func.graph) :
          /\ func.graph.succ[pos] \subseteq S /\ Closed(func.graph, S, WaitsOn(func, l))
          /\ \A m \in S : Modifies(func, pos) => KindOf(func, m) = "none"
    BY <1>1, <1>6, <2>1, AwaitedFacts
  <2>3. S \in SUBSET {n \in Nodes(func.graph) : KindOf(func, n) = "none"}
    BY <2>1, <2>2
  <2>4. QED
    BY <1>1, <2>2, <2>3 DEF Awaited
<1>7. QED
  BY <1>5, <1>6

\* A step from the region leads behind it with nothing under way; any other one
\* between region and send starts and completes nothing that modifies the
\* buffer.
LEMMA NextBetweenInv ==
  ASSUME LatestInv, Next
  PROVE  BetweenInv'
<1> DEFINE g == func.graph
<1>1. /\ func' = func /\ pos' \in g.succ[pos] /\ pos \in Nodes(g)
      /\ replaced' = replaced /\ Sure' = Sure /\ Between(pos)' = Between(pos')
  <2>1. Fixed
    BY DEF Next, Fixed
  <2>2. Sure' = Sure /\ func' = func /\ replaced' = replaced
    BY <2>1, FixedFacts, FixedSearch
  <2>3. Between(pos)' = Between(pos')
    BY <2>2 DEF Between
  <2>4. QED
    BY <2>2, <2>3 DEF Next, LatestInv, OverlapInv, TypeInv
<1>2. SUFFICES ASSUME Sure, Between(pos')
               PROVE  /\ modified' = replaced
                      /\ \A l \in DOMAIN mpi_request' :
                           ~(mpi_request'[l] > 0 /\ Modifies(func, mpi_request'[l]))
  BY <1>1 DEF BetweenInv, Receives
<1>3. /\ \A l \in DOMAIN mpi_request' :
           /\ l \in DOMAIN mpi_request
           /\ mpi_request'[l] = IF l \notin func.uses[pos] THEN mpi_request[l]
                                ELSE IF Starts(func, pos) THEN pos ELSE nullptr
      /\ modified' = IF Modifies(func, pos) THEN pos
                     ELSE IF Waits(func, pos) /\ Arrived # {} THEN CHOOSE m \in Arrived : TRUE
                     ELSE modified
  BY DEF Next, Execute, RequestsAfter
<1>4. SearchInv /\ InFamily
  BY DEF LatestInv, OverlapInv, TypeInv
<1>5. CASE pos = replaced
  <2>1. Modifies(func, pos) /\ pos \notin DOMAIN func.call /\ KindOf(func, pos) = "fork"
    BY <1>2, <1>4, <1>5, RegionFacts
  <2>2. func.uses[pos] = {}
    BY <1>1, <1>4, <2>1, FunctionFacts DEF Starts, Waits, IsCall
  <2>3. \A l : ~Awaited(l)
    BY <2>1 DEF Awaited
  <2>4. \A l \in DOMAIN mpi_request : ~Receives(l)
    BY <2>3 DEF LatestInv, AwaitedInv
  <2>5. QED
    BY <1>3, <1>5, <2>1, <2>2, <2>4 DEF Receives
<1>6. CASE pos # replaced
  <2>1. Dominates(g, replaced, pos)
    <3> SUFFICES ASSUME ReachesAvoiding(g, g.entry, pos, replaced) PROVE FALSE
      BY <1>6, DominatesAvoids
    <3>1. ReachesAvoiding(g, g.entry, pos', replaced)
      BY <1>1, <1>6 DEF ReachesAvoiding, Closed
    <3>2. QED
      BY <1>2, <3>1, DominatesAvoids DEF Between
  <2>2. ReachesAvoiding(g, pos, func.send, replaced)
    BY <1>1, <1>2, <1>6, AvoidsOverEdge DEF Between
  <2>3. Between(pos)
    BY <1>1, <2>1, <2>2 DEF Between
  <2>4. modified = replaced /\ \A l \in DOMAIN mpi_request : ~Receives(l)
    BY <1>2, <2>3 DEF LatestInv, BetweenInv
  <2>5. ~Modifies(func, pos)
    BY <1>2, <1>4, <2>3, NothingBetween
  <2>6. Waits(func, pos) => Arrived = {}
    <3>1. func.uses[pos] \subseteq DOMAIN mpi_request
      BY <1>1 DEF LatestInv, OverlapInv, ServedInv
    <3>2. QED
      BY <2>4, <3>1 DEF Arrived, Receives
  <2>7. modified' = replaced
    BY <1>3, <2>4, <2>5, <2>6
  <2>8. QED
    BY <1>3, <2>4, <2>5, <2>7 DEF Receives, nullptr
<1>7. QED
  BY <1>5, <1>6

LEMMA NextLatestInv == LatestInv /\ [Next \/ Returned]_vars => LatestInv'
<1> SUFFICES ASSUME LatestInv, [Next \/ Returned]_vars PROVE LatestInv'
  OBVIOUS
<1>1. CASE Next
  <2>1. OverlapInv' /\ AwaitedInv' /\ BetweenInv'
    BY <1>1, NextOverlapInv, NextAwaitedInv, NextBetweenInv DEF LatestInv, OverlapInv
  <2>2. Fixed
    BY <1>1 DEF Next, Fixed
  <2>3. QED
    BY <2>1, <2>2, FixedSearch DEF LatestInv
<1>2. CASE UNCHANGED vars
  <2>1. Fixed /\ UNCHANGED <<pos, mpi_request, modified>>
    BY <1>2 DEF vars, Fixed
  <2>2. InFamily' = InFamily /\ func' = func /\ replaced' = replaced
    BY <2>1, FixedFacts
  <2>3. AwaitedInv'
    BY <2>1, <2>2 DEF LatestInv, AwaitedInv, Awaited, Receives
  <2>4. Sure' = Sure /\ Between(pos)' = Between(pos) /\ SearchInv' = SearchInv
    <3>1. Between(pos)' = Between(pos)
      BY <2>1, <2>2 DEF Between
    <3>2. QED
      BY <2>1, <3>1, FixedSearch
  <2>5. OverlapInv'
    BY NextOverlapInv DEF LatestInv
  <2>6. QED
    BY <2>1, <2>2, <2>3, <2>4, <2>5 DEF LatestInv, BetweenInv, Receives
<1>3. QED
  BY <1>1, <1>2 DEF Returned

(* Where its conditions hold, the search for the last modification and the *)
(* comparison of pairs of calls are enough: on every path, around any      *)
(* loops, what the send sends was written by the region that is replaced.  *)
THEOREM ConditionsAreEnough == Spec => []RegionOnEveryPathIsLatest
<1>1. LatestInv => RegionOnEveryPathIsLatest
  <2> SUFFICES ASSUME LatestInv, pos = func.send, Sure PROVE modified = replaced
    BY DEF RegionOnEveryPathIsLatest, Sure
  <2>1. Between(func.send)
    BY RegionFacts, AvoidsSelf DEF LatestInv, Between
  <2>2. QED
    BY <2>1 DEF LatestInv, BetweenInv
<1>2. QED
  BY <1>1, InitLatestInv, NextLatestInv, PTL DEF Spec

-----------------------------------------------------------------------------
(* Which MPI_Wait and MPI_Waitall the pass takes for waits for the send.   *)
LEMMA RequestIsMatched ==
  ASSUME InFamily, Starts(func, func.send), RequestIsFollowed, NEW w \in DOMAIN func.call,
         Waits(func, w)
  PROVE  LET own == func.call[func.send].request
             c   == func.call[w]
         IN  /\ own.index # unknown /\ func.uses[func.send] = {Location(own)}
             /\ c.name = "MPI_Wait" /\ c.request = own => w \in WaitsFor(func.send)
             /\ own.index # scalar /\ c.name = "MPI_Waitall" /\ c.array = own.variable
                /\ is_waitall_matching(c.begin, own.index, c.count)
                  => w \in WaitsFor(func.send)
             /\ w \in WaitsFor(func.send) =>
                  \/ c.name = "MPI_Wait" /\ c.request = own
                  \/ /\ own.index # scalar /\ c.name = "MPI_Waitall" /\ c.array = own.variable
                     /\ is_waitall_matching(c.begin, own.index, c.count)
<1> DEFINE own == func.call[func.send].request
           c   == func.call[w]
<1>1. /\ RequestsAreNamed(func) /\ func.send \in DOMAIN func.call
  BY PointerFacts, FunctionFacts
<1>2. /\ own = [variable |-> own.variable, index |-> own.index] /\ own.index \in Int
      /\ own.index # unknown /\ func.uses[func.send] = {Location(own)}
  BY <1>1 DEF RequestsAreNamed, RequestIsFollowed
<1>3. c.name = "MPI_Wait" =>
        /\ c.request = [variable |-> c.request.variable, index |-> c.request.index]
        /\ c.request.index # unknown => func.uses[w] = {Location(c.request)}
  BY <1>1 DEF RequestsAreNamed
<1>4. c.name = "MPI_Waitall" /\ c.count # unknown =>
        /\ c.begin \in Nat /\ c.count \in Nat
        /\ func.uses[w] = {<<c.array, i>> : i \in c.begin .. c.begin + c.count - 1}
  BY <1>1 DEF RequestsAreNamed
<1>5. c.name \in {"MPI_Wait", "MPI_Waitall"}
  BY DEF Waits, IsCall
<1>6. w \in WaitsFor(func.send) <=> func.uses[w] \cap func.uses[func.send] # {}
  BY DEF WaitsFor
<1>7. ASSUME c.name = "MPI_Waitall", c.count # unknown, own.index # scalar
      PROVE  w \in WaitsFor(func.send) <=>
               c.array = own.variable /\ is_waitall_matching(c.begin, own.index, c.count)
  <2>1. func.uses[func.send] = {<<own.variable, own.index>>}
    BY <1>2, <1>7 DEF Location
  <2>2. w \in WaitsFor(func.send) <=>
          \E i \in c.begin .. c.begin + c.count - 1 : <<c.array, i>> = <<own.variable, own.index>>
    BY <1>4, <1>6, <1>7, <2>1
  <2>3. w \in WaitsFor(func.send) <=>
          c.array = own.variable /\ own.index \in c.begin .. c.begin + c.count - 1
    BY <2>2
  <2>4. own.index \in c.begin .. c.begin + c.count - 1
          <=> c.begin + c.count > own.index /\ own.index >= c.begin
    BY <1>2, <1>4, <1>7
  <2>5. QED
    BY <1>7, <2>3, <2>4 DEF is_waitall_matching
<1>8. ASSUME c.name = "MPI_Wait", w \in WaitsFor(func.send) PROVE c.request = own
  <2>1. c.request.index # unknown /\ (c.request.index = scalar <=> own.index = scalar)
    BY <1>8 DEF RequestIsFollowed, IsCall
  <2>2. Location(c.request) = Location(own)
    BY <1>2, <1>3, <1>6, <1>8, <2>1
  <2>3. c.request.variable = own.variable /\ c.request.index = own.index
    BY <2>1, <2>2 DEF Location
  <2>4. QED
    BY <1>2, <1>3, <1>8, <2>3
<1>9. ASSUME c.name = "MPI_Waitall", w \in WaitsFor(func.send)
      PROVE  c.count # unknown /\ own.index # scalar
  BY <1>9 DEF RequestIsFollowed, IsCall
<1>10. ASSUME c.name = "MPI_Wait", c.request = own PROVE w \in WaitsFor(func.send)
  BY <1>2, <1>3, <1>6, <1>10
<1>11. is_waitall_matching(c.begin, own.index, c.count) => c.count # unknown
  BY DEF is_waitall_matching
<1>12. QED
  BY <1>2, <1>5, <1>7, <1>8, <1>9, <1>10, <1>11

(* What the pass finds, when it can follow the request: all that wait for  *)
(* the send, and calls of MPI_Finalize.                                    *)
LEMMA FoundAreWaits ==
  ASSUME InFamily, Starts(func, func.send), RequestIsFollowed, WaitsFor(func.send) # {}
  PROVE  /\ WaitsFor(func.send) \subseteq WaitsFound(func.send)
         /\ \A e \in WaitsFound(func.send) \ WaitsFor(func.send) :
              IsCall(func, e, {"MPI_Finalize"}) /\ Reaches(func.graph, func.send, e)
<1> DEFINE own  == func.call[func.send].request
           ofScalar == {w \in DOMAIN func.call : /\ func.call[w].name = "MPI_Wait"
                                                 /\ func.call[w].request = own}
           ofArray  == {n \in DOMAIN func.call :
             \/ func.call[n].name = "MPI_Wait" /\ func.call[n].request = own
             \/ /\ func.call[n].name = "MPI_Waitall" /\ func.call[n].array = own.variable
                /\ is_waitall_matching(func.call[n].begin, own.index, func.call[n].count)}
           S == IF own.index = scalar THEN ofScalar ELSE ofArray
           scope == Only(func.calls, S)
           finalizes == CallsOf(func, {"MPI_Finalize"})
           last == Only(finalizes, Known.reach[func.send])
           found == get_corresponding_wait(func, Known, func.send)
<1>1. S = WaitsFor(func.send) /\ own.index # unknown
  <2>1. \A w \in S : w \in DOMAIN func.call /\ Waits(func, w)
    BY DEF Waits, IsCall
  <2>2. \A w \in WaitsFor(func.send) : w \in DOMAIN func.call /\ Waits(func, w)
    BY DEF WaitsFor
  <2>3. own.index # unknown
    BY DEF RequestIsFollowed
  <2>4. S \subseteq WaitsFor(func.send)
    BY <2>1, RequestIsMatched
  <2>5. WaitsFor(func.send) \subseteq S
    BY <2>2, RequestIsMatched
  <2>6. QED
    BY <2>3, <2>4, <2>5
<1>2. found = (IF scope = <<>> THEN <<func.send>> ELSE scope) \o last
  <2>1. scope = CASE own.index = scalar -> Only(func.calls, ofScalar)
                  [] own.index = unknown -> <<>>
                  [] OTHER -> get_matching_waitall(func, own)
    BY <1>1 DEF get_matching_waitall, scalar, unknown
  <2>2. QED
    BY <2>1 DEF get_corresponding_wait
<1> HIDE DEF S
<1>3. /\ scope \in Seq(WaitsFor(func.send))
      /\ \A w \in WaitsFor(func.send) : InList(scope, w)
  <2>1. func.calls \in Seq(DOMAIN func.call) /\ \A n \in DOMAIN func.call : InList(func.calls, n)
    BY FunctionFacts, PointerFacts
  <2>2. scope \in Seq(DOMAIN func.call \cap S)
    BY <2>1, OnlyFacts
  <2>3. DOMAIN func.call \cap S = WaitsFor(func.send)
    BY <1>1 DEF WaitsFor
  <2>4. ASSUME NEW w \in WaitsFor(func.send) PROVE InList(scope, w)
    <3>1. PICK k \in 1 .. Len(func.calls) : func.calls[k] = w
      BY <2>1, <2>3 DEF InList
    <3>2. \E j \in 1 .. Len(scope) : scope[j] = func.calls[k]
      BY <1>1, <2>1, <3>1, OnlyKeeps
    <3>3. QED
      BY <3>1, <3>2 DEF InList
  <2>5. QED
    BY <2>2, <2>3, <2>4
<1>4. /\ last \in Seq({e \in Nodes(func.graph) :
                         IsCall(func, e, {"MPI_Finalize"}) /\ Reaches(func.graph, func.send, e)})
  <2> DEFINE F == {n \in DOMAIN func.call : func.call[n].name \in {"MPI_Finalize"}}
             R == Known.reach[func.send]
  <2>1. finalizes \in Seq(DOMAIN func.call \cap F)
    BY FunctionFacts, OnlyFacts DEF CallsOf
  <2> HIDE DEF finalizes
  <2>2. last \in Seq((DOMAIN func.call \cap F) \cap R)
    BY <2>1, OnlyFacts
  <2>3. \A n \in R : n \in Nodes(func.graph) /\ Reaches(func.graph, func.send, n)
    BY FunctionFacts, UsesFacts DEF Known, FactsOf, Facts
  <2>4. (DOMAIN func.call \cap F) \cap R \subseteq
          {e \in Nodes(func.graph) :
             IsCall(func, e, {"MPI_Finalize"}) /\ Reaches(func.graph, func.send, e)}
    BY <2>3 DEF IsCall
  <2> HIDE DEF F, R, last
  <2>5. QED
    BY <2>2, <2>4
<1> HIDE DEF scope, last, found
<1>5. scope # <<>>
  <2>1. PICK w \in WaitsFor(func.send) : TRUE
    OBVIOUS
  <2>2. InList(scope, w)
    BY <1>3
  <2>3. QED
    BY <2>2 DEF InList
<1>6. found = scope \o last
  BY <1>2, <1>5
<1>7. WaitsFound(func.send) = {found[i] : i \in 1 .. Len(scope) + Len(last)}
  <2>1. WaitsFound(func.send) = {found[i] : i \in DOMAIN found}
    BY DEF WaitsFound, Known, found
  <2>2. DOMAIN found = 1 .. Len(scope) + Len(last)
    BY <1>3, <1>4, <1>6
  <2>3. QED
    BY <2>1, <2>2
<1>8. ASSUME NEW w \in WaitsFor(func.send) PROVE w \in WaitsFound(func.send)
  <2>1. PICK j \in 1 .. Len(scope) : scope[j] = w
    BY <1>3 DEF InList
  <2>2. j \in 1 .. Len(scope) + Len(last) /\ found[j] = w
    BY <1>3, <1>4, <1>6, <2>1
  <2>3. QED
    BY <1>7, <2>2
<1>9. ASSUME NEW e \in WaitsFound(func.send), e \notin WaitsFor(func.send)
      PROVE  IsCall(func, e, {"MPI_Finalize"}) /\ Reaches(func.graph, func.send, e)
  <2>1. PICK i \in 1 .. Len(scope) + Len(last) : e = found[i]
    BY <1>7
  <2>2. i > Len(scope)
    BY <1>3, <1>4, <1>6, <1>9, <2>1
  <2>3. i - Len(scope) \in 1 .. Len(last) /\ e = last[i - Len(scope)]
    BY <1>3, <1>4, <1>6, <2>1, <2>2
  <2>4. QED
    BY <1>4, <2>3
<1>10. QED
  BY <1>8, <1>9

-----------------------------------------------------------------------------
(* Where the send runs, there is a path from it that passes no wait for it.*)
SinceInv ==
  \A l \in DOMAIN mpi_request : mpi_request[l] = func.send =>
    \A w \in WaitsOn(func, l) : \E n \in func.graph.succ[func.send] :
      ReachesAvoiding(func.graph, n, pos, w)

CompletionInv ==
  /\ OverlapInv /\ SinceInv
  /\ completion_point = get_local_completion_point(func, Known, func.send)

LEMMA InitCompletionInv == Init => CompletionInv
<1> SUFFICES ASSUME Init PROVE CompletionInv
  OBVIOUS
<1>1. OverlapInv /\ func.send \in Nodes(func.graph)
  BY InitOverlapInv, UsesFacts DEF OverlapInv, TypeInv
<1>2. SinceInv
  <2>1. func.send # Uninitialised
    BY <1>1, FunctionFacts, FunctionsAssumption DEF OverlapInv, TypeInv, Uninitialised
  <2>2. QED
    BY <2>1 DEF Init, SinceInv
<1>3. QED
  BY <1>1, <1>2 DEF Init, CompletionInv, Known

\* A step away from the send passes what it executes, unless that waits for it.
LEMMA NextCompletionInv == CompletionInv /\ [Next \/ Returned]_vars => CompletionInv'
<1> SUFFICES ASSUME CompletionInv, [Next \/ Returned]_vars PROVE CompletionInv'
  OBVIOUS
<1>1. OverlapInv'
  BY NextOverlapInv DEF CompletionInv
<1>2. func' = func /\ completion_point' = completion_point
  BY DEF Next, Returned, vars
<1>3. SinceInv'
  <2>1. CASE Next
    <3>1. /\ mpi_request' = RequestsAfter(func, pos, mpi_request)
          /\ pos \in Nodes(func.graph) /\ pos' \in func.graph.succ[pos] /\ func.send # nullptr
      BY <2>1, UsesFacts DEF Next, Execute, CompletionInv, OverlapInv, TypeInv
    <3> SUFFICES ASSUME NEW l \in DOMAIN mpi_request', mpi_request'[l] = func.send,
                        NEW w \in WaitsOn(func, l)
                 PROVE  \E n \in func.graph.succ[func.send] :
                          ReachesAvoiding(func.graph, n, pos', w)
      BY <1>2 DEF SinceInv
    <3>2. /\ l \in DOMAIN mpi_request
          /\ mpi_request'[l] = IF l \notin func.uses[pos] THEN mpi_request[l]
                               ELSE IF Starts(func, pos) THEN pos ELSE nullptr
      BY <3>1 DEF RequestsAfter
    <3>3. CASE l \in func.uses[pos]
      <4>1. pos = func.send
        BY <3>1, <3>2, <3>3
      <4>2. QED
        BY <3>1, <4>1, AvoidsSelf
    <3>4. CASE l \notin func.uses[pos]
      <4>1. PICK n \in func.graph.succ[func.send] : ReachesAvoiding(func.graph, n, pos, w)
        BY <3>2, <3>4 DEF CompletionInv, SinceInv
      <4>2. pos # w
        BY <3>4 DEF WaitsOn
      <4>3. ReachesAvoiding(func.graph, pos, pos', w)
        BY <3>1, <4>2, AvoidsSelf, AvoidsOverEdge
      <4>4. QED
        BY <4>1, <4>3, AvoidsTransitive
    <3>5. QED
      BY <3>3, <3>4
  <2>2. CASE UNCHANGED vars
    BY <2>2 DEF vars, CompletionInv, SinceInv
  <2>3. QED
    BY <2>1, <2>2 DEF Returned
<1>4. QED
  BY <1>1, <1>2, <1>3 DEF CompletionInv, Known

(* The pass takes the first wait behind the send for where it is complete, *)
(* when it can follow the request and order what it finds.                 *)
THEOREM FollowedRequestIsEnough == Spec => []CompletionPointIsFirstWait
<1>1. CompletionInv => CompletionPointIsFirstWait
  <2> DEFINE g == func.graph
             s == func.send
             e == completion_point
  <2> SUFFICES ASSUME CompletionInv, pos \in WaitsFor(s), Starts(func, s), Acyclic(g),
                      OnePath(WaitsFor(s)), WaitsFor(s) \subseteq FactsOf[g].trees.domtree[s],
                      RequestIsFollowed, Ordered(WaitsFound(s)),
                      NEW l \in func.uses[s], mpi_request[l] = s,
                      e # pos
               PROVE  FALSE
    BY DEF CompletionPointIsFirstWait
  <2>1. InFamily /\ Flow(g) /\ s \in Nodes(g) /\ pos \in Nodes(g) /\ g.entry \in Nodes(g)
    BY FunctionFacts, UsesFacts DEF CompletionInv, OverlapInv, TypeInv
  <2>2. \A a \in Nodes(g) : \A b : b \in FactsOf[g].trees.domtree[a] => Dominates(g, a, b)
    BY <2>1, FunctionFacts DEF Analysis
  <2>3. /\ WaitsFor(s) \subseteq WaitsFound(s)
        /\ \A n \in WaitsFound(s) \ WaitsFor(s) :
             IsCall(func, n, {"MPI_Finalize"}) /\ Reaches(g, s, n)
    BY <2>1, FoundAreWaits
  <2>4. /\ e \in WaitsFound(s) /\ e \in Nodes(g) /\ \A w \in WaitsFound(s) : Reaches(g, e, w)
    BY <2>1, <2>3, CompletionIsFirst DEF CompletionInv
  <2>5. e \in WaitsFor(s)
    <3> SUFFICES ASSUME IsCall(func, e, {"MPI_Finalize"}), Reaches(g, s, e) PROVE FALSE
      BY <2>3, <2>4
    <3>1. e # s
      BY DEF IsCall, Starts, _nonblocking_functions
    <3>2. Follows(g, s, e)
      BY <2>1, <2>4, <3>1, ReachesFollows DEF Flow
    <3>3. PICK w \in WaitsFor(s) : w \in Nodes(g) /\ Follows(g, w, e)
      <4>1. IsCall(func, e, {"MPI_Finalize"}) \/ (Modifies(func, s) /\ KindOf(func, e) # "none")
        OBVIOUS
      <4>2. e \in Nodes(g) /\ s \in Nodes(g)
        BY <2>1, <2>4
      <4>3. QED
        BY <2>1, <3>2, <4>1, <4>2, WaitComesBefore
    <3>4. Reaches(g, e, w)
      BY <2>3, <2>4, <3>3
    <3>5. QED
      BY <2>1, <2>4, <3>3, <3>4, AcyclicOrder
  <2>6. Reaches(g, e, pos)
    BY <2>3, <2>4
  <2>7. ~Dominates(g, pos, e)
    <3> SUFFICES ASSUME Dominates(g, pos, e) PROVE FALSE
      OBVIOUS
    <3>1. Reaches(g, pos, e)
      BY <2>1, <2>4, DominatorReaches DEF Flow, Proper
    <3>2. Follows(g, pos, e)
      BY <2>1, <2>4, <3>1, ReachesFollows DEF Flow
    <3>3. QED
      BY <2>1, <2>4, <2>6, <3>2, AcyclicOrder
  <2>8. Dominates(g, e, pos)
    BY <2>1, <2>2, <2>4, <2>5, <2>7 DEF OnePath
  <2>9. l \in DOMAIN mpi_request
    BY <2>1 DEF CompletionInv, OverlapInv, ServedInv
  <2>10. e \in WaitsOn(func, l)
    <3>1. e \in DOMAIN func.call /\ Waits(func, e) /\ func.uses[e] \cap func.uses[s] # {}
      BY <2>5 DEF WaitsFor
    <3>2. func.uses[s] = {Location(func.call[s].request)}
      BY <2>1, <3>1, RequestIsMatched
    <3>3. QED
      BY <3>1, <3>2 DEF WaitsOn
  <2>11. PICK n \in g.succ[s] : ReachesAvoiding(g, n, pos, e)
    BY <2>9, <2>10 DEF CompletionInv, SinceInv
  <2>12. Dominates(g, s, e)
    BY <2>1, <2>2, <2>5
  <2>13. s # e /\ ReachesAvoiding(g, g.entry, s, e)
    BY <2>1, <2>4, <2>12, DominatesAvoids, DominatesIsAntisymmetric
  <2>14. ReachesAvoiding(g, g.entry, pos, e)
    <3>1. ReachesAvoiding(g, s, pos, e)
      BY <2>1, <2>11, <2>13, AvoidsOverEdge
    <3>2. QED
      BY <2>13, <3>1, AvoidsTransitive
  <2>15. QED
    BY <2>8, <2>14, DominatesAvoids
<1>2. QED
  BY <1>1, InitCompletionInv, NextCompletionInv, PTL DEF Spec
=============================================================================

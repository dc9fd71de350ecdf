----------------------- MODULE RequestHoisting_proofs -----------------------
(***************************************************************************)
(* For functions of any size: where init and free have left the same loops *)
(* each request that is initialised is started, waited for and freed, on   *)
(* every path through the function that is left behind; and where loads    *)
(* and init move in front of where they were, on every path, each start    *)
(* uses the arguments it would have had in front of it.                    *)
(***************************************************************************)
EXTENDS RequestHoisting, InstructionScan_proofs

-----------------------------------------------------------------------------
(* Natural loops.                                                          *)

(* From one node of a loop to another one without leaving it.              *)
LEMMA LoopIsConnected ==
  ASSUME NEW g, Flow(g), NEW h \in Nodes(g), NEW x, x \in LoopBody(g, h),
         NEW y, y \in LoopBody(g, h), NEW a \in Nodes(g), a \notin LoopBody(g, h)
  PROVE  ReachesAvoiding(g, x, y, a)
<1>0. h # a /\ x \in Nodes(g) /\ y \in Nodes(g)
  BY InBody
<1>1. ASSUME NEW l \in Nodes(g), l # h, l \in Latches(g, h), Dominates(g, h, l),
             ReachesAvoiding(g, a, l, h)
      PROVE  FALSE
  <2>1. Dominates(g, h, a)
    BY <1>0, <1>1, DominatesAvoids, AvoidsTransitive
  <2>2. QED
    BY <1>1, <2>1 DEF LoopBody
<1>2. ReachesAvoiding(g, h, y, a)
  <2>1. CASE y = h
    BY <2>1, AvoidsSelf
  <2>2. CASE y # h
    <3>1. PICK l \in Nodes(g) : /\ l # h /\ l \in Latches(g, h)
                                /\ Dominates(g, h, l) /\ ReachesAvoiding(g, y, l, h)
      BY <2>2, InBody
    <3>2. Reaches(g, h, y)
      BY <1>0, <2>2, InBody, DominatorReaches DEF Flow, Proper
    <3> SUFFICES ASSUME NEW S \in SUBSET Nodes(g), h \in S, Closed(g, S, {a}), y \notin S
                 PROVE  FALSE
      BY DEF ReachesAvoiding
    <3>3. ReachesAvoiding(g, a, y, h)
      <4> SUFFICES ASSUME NEW T \in SUBSET Nodes(g), a \in T, Closed(g, T, {h}), y \notin T
                   PROVE  FALSE
        BY DEF ReachesAvoiding
      <4>1. Closed(g, S \cup T, {})
        BY <1>0 DEF Closed
      <4>2. QED
        BY <3>2, <4>1 DEF Reaches
    <3>4. QED
      BY <1>1, <3>1, <3>3, AvoidsTransitive
  <2>3. QED
    BY <2>1, <2>2
<1>3. ReachesAvoiding(g, x, h, a)
  <2>1. CASE x = h
    BY <2>1, AvoidsSelf
  <2>2. CASE x # h
    <3>1. PICK l \in Nodes(g) : /\ l # h /\ l \in Latches(g, h) /\ h \in g.succ[l]
                                /\ Dominates(g, h, l) /\ ReachesAvoiding(g, x, l, h)
      BY <2>2, InBody
    <3>2. l # a
      BY <1>1, <3>1, AvoidsSelf
    <3> SUFFICES ASSUME NEW S \in SUBSET Nodes(g), x \in S, Closed(g, S, {a}), h \notin S
                 PROVE  FALSE
      BY DEF ReachesAvoiding
    <3>3. l \notin S
      BY <3>1, <3>2 DEF Closed
    <3>4. ReachesAvoiding(g, a, l, h)
      <4> SUFFICES ASSUME NEW T \in SUBSET Nodes(g), a \in T, Closed(g, T, {h}), l \notin T
                   PROVE  FALSE
        BY DEF ReachesAvoiding
      <4>1. Closed(g, S \cup T, {h})
        BY <1>0 DEF Closed
      <4>2. QED
        BY <3>1, <3>3, <4>1 DEF ReachesAvoiding
    <3>5. QED
      BY <1>1, <3>1, <3>4
  <2>3. QED
    BY <2>1, <2>2
<1>4. QED
  BY <1>2, <1>3, AvoidsTransitive

(* A loop is entered through its header.                                   *)
LEMMA LoopEntry ==
  ASSUME NEW g, Flow(g), NEW h \in Nodes(g), NEW n \in Nodes(g), n \notin LoopBody(g, h),
         NEW m \in g.succ[n], m \in LoopBody(g, h)
  PROVE  m = h
<1> SUFFICES ASSUME m # h PROVE FALSE
  OBVIOUS
<1>1. n # h /\ Dominates(g, h, m)
  BY InBody
<1>2. PICK l \in Nodes(g) : l # h /\ l \in Latches(g, h) /\ ReachesAvoiding(g, m, l, h)
  BY InBody
<1>3. ReachesAvoiding(g, n, m, h) /\ ReachesAvoiding(g, n, l, h)
  BY <1>1, <1>2, AvoidsSelf, AvoidsOverEdge
<1>4. Dominates(g, h, n)
  BY <1>1, <1>3, DominatesAvoids, AvoidsTransitive
<1>5. QED
  BY <1>2, <1>3, <1>4 DEF LoopBody

(* What encloses something in a loop with both ends does not leave it      *)
(* between them: back in, it would pass the header, and so the first end.  *)
LEMMA StaysInLoop ==
  ASSUME NEW g, Flow(g), NEW h \in Nodes(g),
         NEW a, a \in LoopBody(g, h), NEW b, b \in LoopBody(g, h), Encloses(g, a, b),
         NEW n \in Nodes(g), n \notin LoopBody(g, h)
  PROVE  ~Inside(g, a, b, n)
<1> SUFFICES ASSUME Inside(g, a, b, n) PROVE FALSE
  OBVIOUS
<1>1. a \in Nodes(g) /\ b \in Nodes(g) /\ Dominates(g, a, b) /\ (a # h => Dominates(g, h, a))
  BY InBody DEF Encloses
<1>2. ReachesAvoiding(g, n, h, b)
  <2> SUFFICES ASSUME NEW U \in SUBSET Nodes(g), n \in U, Closed(g, U, {b}), h \notin U
               PROVE  FALSE
    BY DEF ReachesAvoiding
  <2> DEFINE W == {m \in U \ LoopBody(g, h) : PostDominates(Iteration(g, a), b, m)}
  <2>1. Closed(g, W, {})
    <3> SUFFICES ASSUME NEW m \in W, NEW o \in g.succ[m] PROVE o \in W
      BY DEF Closed
    <3>1. o \in U /\ PostDominates(Iteration(g, a), b, o)
      BY UntilEnd DEF Closed
    <3>2. o \notin LoopBody(g, h)
      BY <3>1, LoopEntry
    <3>3. QED
      BY <3>1, <3>2
  <2>2. g.exit \in W
    <3>1. W \in SUBSET Nodes(g) /\ n \in W /\ Reaches(g, n, g.exit)
      BY DEF Flow, Proper, Inside
    <3> HIDE DEF W
    <3>2. QED
      BY <2>1, <3>1 DEF Reaches
  <2>3. QED
    BY <2>2 DEF PostDominates, Iteration, WithEdges
<1>3. ReachesAvoiding(g, h, a, b)
  <2>1. CASE a = h
    BY <2>1, AvoidsSelf
  <2>2. CASE a # h
    <3>1. h # b /\ ReachesAvoiding(g, g.entry, a, b)
      <4>1. a # b /\ ~Dominates(g, b, a) /\ Dominates(g, h, a)
        BY <1>1, <2>2, DominatesIsAntisymmetric DEF Dominates
      <4>2. QED
        BY <4>1, DominatesAvoids
    <3> SUFFICES ASSUME NEW S \in SUBSET Nodes(g), h \in S, Closed(g, S, {b}), a \notin S
                 PROVE  FALSE
      BY DEF ReachesAvoiding
    <3>2. PICK T \in SUBSET Nodes(g) : g.entry \in T /\ Closed(g, T, {h}) /\ a \notin T
      BY <1>1, <2>2 DEF Dominates
    <3>3. Closed(g, S \cup T, {b})
      BY <3>2 DEF Closed
    <3>4. QED
      BY <3>1, <3>2, <3>3 DEF ReachesAvoiding
  <2>3. QED
    BY <2>1, <2>2
<1>4. QED
  BY <1>2, <1>3, AvoidsTransitive DEF Inside
-----------------------------------------------------------------------------
(* Where the calls are.                                                    *)

InFamily == \E i \in DOMAIN Functions : func \in Functions[i]

TypeInv ==
  /\ InFamily /\ pos \in Nodes(func.graph)
  /\ free_after = FreeAfter(func, FactsOf[func.graph])

\* The hypotheses of SameLoopsAreBalanced, which no step changes.
Bracketed ==
  LET k == FactsOf[func.graph]
  IN  /\ init_after \in Nodes(func.graph) /\ func.fork \in k.trees.domtree[init_after]
      /\ free_after \in EnclosedBy[func.graph][init_after]
      /\ SameLoops(k)

(* The request is initialised inside of the bracket of init and free, and  *)
(* runs inside of that of region and send.                                 *)
RequestInv ==
  Bracketed =>
    /\ ~lost
    /\ \/ /\ request = "none"
          /\ Outside(func.graph, init_after, free_after, pos)
          /\ Outside(func.graph, func.fork, func.send, pos)
       \/ /\ request = "inactive"
          /\ Inside(func.graph, init_after, free_after, pos)
          /\ Outside(func.graph, func.fork, func.send, pos)
       \/ /\ request = "active"
          /\ Inside(func.graph, init_after, free_after, pos)
          /\ Inside(func.graph, func.fork, func.send, pos)

IInv == TypeInv /\ RequestInv

\* The graph of a function, and what FactsOf says of it.
LEMMA FunctionFacts ==
  ASSUME InFamily
  PROVE  /\ Flow(func.graph) /\ IsFiniteSet(Nodes(func.graph)) /\ Reducible(func.graph)
         /\ func.graph.entry \in Nodes(func.graph) /\ Nodes(func.graph) \cap {nullptr, Abort} = {}
         /\ FactsOf[func.graph].loops = LoopInfo(func.graph)
         /\ FactsOf[func.graph].trees = Analysis(func.graph)
         /\ \A a \in Nodes(func.graph) : \A b \in EnclosedBy[func.graph][a] :
              b \in Nodes(func.graph) /\ Encloses(func.graph, a, b)
         /\ {func.fork, func.send} \subseteq Nodes(func.graph) \ {func.graph.exit}
         /\ Bracket(func.graph, LoopInfo(func.graph), func.fork, func.send)
<1>1. PICK i \in DOMAIN Functions : func \in Functions[i]
  BY DEF InFamily
<1>2. func.graph \in DOMAIN FactsOf
  BY <1>1 DEF FactsOf
<1>3. /\ FactsOf[func.graph].loops = LoopInfo(func.graph)
      /\ FactsOf[func.graph].trees = Analysis(func.graph)
  BY <1>2 DEF FactsOf, Facts
<1>4. \A a \in Nodes(func.graph) : \A b \in EnclosedBy[func.graph][a] :
        b \in Nodes(func.graph) /\ Encloses(func.graph, a, b)
  BY <1>2 DEF EnclosedBy
<1>5. /\ {func.fork, func.send} \subseteq Nodes(func.graph) \ {func.graph.exit}
      /\ func.send \in EnclosedBy[func.graph][func.fork]
      /\ LoopsAround(LoopInfo(func.graph), func.fork) = LoopsAround(LoopInfo(func.graph), func.send)
  BY <1>1, <1>3, FunctionsAssumption
<1>6. Bracket(func.graph, LoopInfo(func.graph), func.fork, func.send)
  BY <1>4, <1>5 DEF Bracket
<1>7. Nodes(func.graph) \cap {nullptr, Abort} = {}
  <2>1. Nodes(func.graph) \subseteq Nat \ {nullptr}
    BY <1>2, FunctionsAssumption
  <2>2. QED
    BY <2>1 DEF nullptr, Abort
<1>8. QED
  BY <1>1, <1>2, <1>3, <1>4, <1>5, <1>6, <1>7, FunctionsAssumption DEF Flow

(* move_init_and_free_call leaves a loop with the region in it.            *)
LEMMA LoopToMove ==
  ASSUME NEW g, Flow(g), IsFiniteSet(Nodes(g)), NEW k, k.loops = LoopInfo(g),
         NEW n \in Nodes(g), LoopFor(k.loops, n) # nullptr
  PROVE  /\ loop_to_move(k, n) \in Nodes(g) /\ loop_to_move(k, n) \in DOMAIN LoopInfo(g)
         /\ k.loops[loop_to_move(k, n)] = LoopBody(g, loop_to_move(k, n))
         /\ n \in LoopBody(g, loop_to_move(k, n))
<1> DEFINE L == {h \in Nodes(g) : Latches(g, h) # {}}
           around == {h \in L : n \in LoopBody(g, h)}
           i == LoopFor(k.loops, n)
           o == ParentLoop(k.loops, i)
<1>1. k.loops = Loops(g, L) /\ DOMAIN k.loops = L /\ \A h \in L : k.loops[h] = LoopBody(g, h)
  BY DEF LoopInfo, Loops
<1>2. around = {h \in DOMAIN k.loops : n \in k.loops[h]}
  BY <1>1
<1>3. around # {}
  <2> HIDE DEF around
  <2>1. QED
    BY <1>2 DEF LoopFor, LoopsAround
<1>4. /\ i \in L /\ n \in LoopBody(g, i)
      /\ \A h \in L : n \in LoopBody(g, h) => LoopBody(g, i) \subseteq LoopBody(g, h)
  <2>1. PICK h \in L : n \in LoopBody(g, h)
    BY <1>3
  <2>2. L \in SUBSET Nodes(g)
    OBVIOUS
  <2> HIDE DEF L
  <2>3. QED
    BY <1>1, <2>1, <2>2, InnermostLoop
<1>5. CASE moved_up_loop_depth(k, n) = 1
  BY <1>1, <1>4, <1>5 DEF loop_to_move, LoopInfo
<1>6. CASE moved_up_loop_depth(k, n) # 1
  <2>1. Cardinality(around) # 1
    <3>1. IsFiniteSet(around)
      BY FS_Subset
    <3> HIDE DEF around
    <3>2. QED
      BY <1>2, <1>6, <3>1, FS_CardinalityType DEF moved_up_loop_depth, LoopDepth, LoopsAround
  <2>2. PICK h \in around : h # i
    <3>1. i \in around
      BY <1>4
    <3> HIDE DEF around, i
    <3>2. around = {i} => Cardinality(around) = 1
      BY FS_Singleton
    <3>3. QED
      BY <2>1, <3>1, <3>2
  <2>3. h \in L \ {i} /\ i \in LoopBody(g, h)
    BY <1>4, <2>2, InBody
  <2>4. [l \in DOMAIN k.loops \ {i} |-> k.loops[l]] = Loops(g, L \ {i})
    BY <1>1 DEF Loops
  <2>5. o \in L \ {i} /\ i \in LoopBody(g, o)
    <3>1. o = LoopFor(Loops(g, L \ {i}), i) /\ L \ {i} \in SUBSET Nodes(g)
      BY <2>4 DEF ParentLoop
    <3> HIDE DEF L, o, i
    <3>2. QED
      BY <2>3, <3>1, InnermostLoop
  <2>6. LoopBody(g, i) \subseteq LoopBody(g, o)
    <3>1. Dominates(g, o, i) /\ i \in LoopBody(g, i)
      BY <1>4, <2>5, InBody
    <3>2. QED
      BY <1>4, <2>5, <3>1, InnerBody
  <2>7. loop_to_move(k, n) = o
    BY <1>6 DEF loop_to_move
  <2>8. QED
    BY <1>1, <1>4, <2>5, <2>6, <2>7 DEF LoopInfo
<1>7. QED
  BY <1>5, <1>6

(* Behind the send when no loop is around the region, or else behind an    *)
(* edge out of a loop with the region in it; OuterLoops are those around   *)
(* that loop.                                                              *)
LEMMA FreePlace ==
  ASSUME TypeInv, Bracketed
  PROVE  LET g == func.graph
             loops == LoopInfo(g)
             outer == OuterLoops(FactsOf[g])
         IN  \/ free_after = func.send /\ LoopsAround(loops, func.fork) = {} /\ outer = {}
             \/ \E h \in Nodes(g), n \in Nodes(g) :
                  /\ h \in DOMAIN loops /\ outer = LoopsAround(loops, h) \ {h}
                  /\ func.fork \in LoopBody(g, h) /\ n \in LoopBody(g, h)
                  /\ free_after \in g.succ[n] /\ free_after \notin LoopBody(g, h)
<1> DEFINE g == func.graph
           k == FactsOf[g]
           h == loop_to_move(k, func.fork)
           exits == ExitEdges(g, k.loops[h])
<1>1. InFamily /\ free_after = FreeAfter(func, k)
  BY DEF TypeInv
<1>2. /\ free_after \in Nodes(g) /\ func.fork \in Nodes(g) /\ Nodes(g) \cap {nullptr, Abort} = {}
      /\ k.loops = LoopInfo(g) /\ Flow(g) /\ IsFiniteSet(Nodes(g))
  BY <1>1, FunctionFacts DEF Bracketed
<1>3. CASE LoopFor(k.loops, func.fork) = nullptr
  <2>1. ASSUME NEW l \in LoopsAround(LoopInfo(g), func.fork) PROVE FALSE
    <3> DEFINE L == {m \in Nodes(g) : Latches(g, m) # {}}
    <3>1. LoopInfo(g) = Loops(g, L) /\ l \in L /\ func.fork \in LoopBody(g, l)
      BY <2>1 DEF LoopsAround, LoopInfo, Loops
    <3>2. L \in SUBSET Nodes(g)
      OBVIOUS
    <3> HIDE DEF L
    <3>3. LoopFor(LoopInfo(g), func.fork) \in L
      BY <1>2, <3>1, <3>2, InnermostLoop
    <3>4. QED
      BY <1>2, <1>3, <3>2, <3>3
  <2>2. free_after = func.send /\ OuterLoops(k) = {}
    BY <1>1, <1>3 DEF FreeAfter, OuterLoops
  <2>3. QED
    BY <2>1, <2>2
<1>4. CASE LoopFor(k.loops, func.fork) # nullptr
  <2>1. /\ h \in Nodes(g) /\ h \in DOMAIN LoopInfo(g) /\ func.fork \in LoopBody(g, h)
        /\ k.loops[h] = LoopBody(g, h)
    BY <1>2, <1>4, LoopToMove
  <2>2. /\ Cardinality(exits) = 1
        /\ free_after = (CHOOSE e \in exits : TRUE)[2]
    BY <1>1, <1>2, <1>4 DEF FreeAfter
  <2>3. PICK e \in exits : free_after = e[2]
    <3>1. exits # {}
      BY <2>2, FS_EmptySet
    <3> HIDE DEF exits
    <3>2. QED
      BY <2>2, <3>1
  <2>4. /\ e[1] \in LoopBody(g, h) /\ free_after \notin LoopBody(g, h)
        /\ free_after \in g.succ[e[1]]
    BY <2>1, <2>3 DEF ExitEdges
  <2>5. e[1] \in Nodes(g)
    BY <2>1, <2>4, InBody
  <2>6. OuterLoops(k) = LoopsAround(LoopInfo(g), h) \ {h}
    BY <1>2, <1>4 DEF OuterLoops
  <2>7. QED
    BY <2>1, <2>4, <2>5, <2>6
<1>5. QED
  BY <1>3, <1>4

(* Init is in a loop exactly if free is: a loop with init in it is not     *)
(* left before free, and one that free is in is around the whole loop that *)
(* it comes behind, and so one of those that init has not left.            *)
LEMMA LoopsAroundCalls ==
  ASSUME TypeInv, Bracketed
  PROVE  LoopsAround(LoopInfo(func.graph), init_after) = LoopsAround(LoopInfo(func.graph), free_after)
<1> DEFINE g == func.graph
           I == init_after
           F == free_after
           loops == LoopInfo(g)
           outer == OuterLoops(FactsOf[g])
<1>1. /\ Flow(g) /\ I \in Nodes(g) /\ F \in Nodes(g) /\ PostDominates(Iteration(g, I), F, I)
      /\ LoopsAround(loops, func.fork) = LoopsAround(loops, func.send)
  BY FunctionFacts DEF TypeInv, Bracketed, Encloses, Bracket
<1>2. LoopsAround(loops, I) = outer /\ F \notin DOMAIN loops
  BY FunctionFacts DEF TypeInv, Bracketed, SameLoops
<1>3. \A k \in DOMAIN loops : k \in Nodes(g) /\ loops[k] = LoopBody(g, k) /\ Latches(g, k) # {}
  BY DEF LoopInfo
<1> HIDE DEF g, I, F, loops, outer
<1>4. ASSUME NEW k \in DOMAIN loops, I \in LoopBody(g, k), F \notin LoopBody(g, k) PROVE FALSE
  <2>1. PICK l \in Nodes(g) : k \in g.succ[l] /\ IsBackEdge(g, l, k) /\ l \in LoopBody(g, k)
    <3>1. PICK l \in Latches(g, k) : TRUE
      BY <1>3
    <3>2. l \in Nodes(g) /\ k \in g.succ[l] /\ IsBackEdge(g, l, k)
      BY DEF Latches
    <3>3. l \in LoopBody(g, k)
      BY <3>2, AvoidsSelf DEF LoopBody, IsBackEdge
    <3>4. QED
      BY <3>2, <3>3
  <2>2. ReachesAvoiding(g, I, l, F)
    BY <1>1, <1>3, <1>4, <2>1, LoopIsConnected
  <2>3. PostDominates(Iteration(g, I), F, l)
    BY <1>1, <2>2, UntilEndAvoids
  <2>4. QED
    BY <1>1, <1>4, <2>1, <2>3, UntilEnd
<1>5. ASSUME NEW k \in DOMAIN loops, F \in LoopBody(g, k) PROVE k \in LoopsAround(loops, I)
  <2>1. CASE F = func.send /\ LoopsAround(loops, func.fork) = {}
    BY <1>1, <1>3, <1>5, <2>1 DEF LoopsAround
  <2>2. CASE \E h \in Nodes(g), n \in Nodes(g) :
               /\ h \in DOMAIN loops /\ outer = LoopsAround(loops, h) \ {h}
               /\ n \in LoopBody(g, h) /\ F \in g.succ[n] /\ F \notin LoopBody(g, h)
    <3>1. PICK h \in Nodes(g), n \in Nodes(g) :
            /\ h \in DOMAIN loops /\ outer = LoopsAround(loops, h) \ {h}
            /\ n \in LoopBody(g, h) /\ F \in g.succ[n] /\ F \notin LoopBody(g, h)
      BY <2>2
    <3>2. n \in LoopBody(g, k)
      BY <1>1, <1>2, <1>3, <1>5, <3>1, LoopEntry
    <3>3. LoopBody(g, h) \subseteq LoopBody(g, k)
      BY <1>1, <1>3, <1>5, <3>1, <3>2, LoopsAreNested
    <3>4. h \in LoopBody(g, k) /\ h # k
      BY <1>5, <3>1, <3>3, InBody
    <3>5. QED
      BY <1>2, <1>3, <3>1, <3>4 DEF LoopsAround
  <2>3. QED
    BY <2>1, <2>2, FreePlace DEF g, F, loops, outer
<1>6. LoopsAround(loops, I) = LoopsAround(loops, F)
  BY <1>3, <1>4, <1>5 DEF LoopsAround
<1>7. QED
  BY <1>6 DEF g, I, F, loops

(* Free comes behind the region, never between region and send, and is     *)
(* reached from the region without another init.                           *)
LEMMA BracketFacts ==
  ASSUME TypeInv, Bracketed
  PROVE  LET g == func.graph
             I == init_after
             F == free_after
             P == func.fork
             S == func.send
         IN  /\ I \in Nodes(g) /\ F \in Nodes(g) /\ I \notin {F, P, S} /\ F # P /\ P # S
             /\ Bracket(g, LoopInfo(g), I, F) /\ Bracket(g, LoopInfo(g), P, S)
             /\ ~Outside(g, I, F, P)
             /\ F # S => ~Inside(g, P, S, F)
<1> DEFINE g == func.graph
           I == init_after
           F == free_after
           P == func.fork
           S == func.send
<1>1. /\ Flow(g) /\ g.entry \in Nodes(g)
      /\ I \in Nodes(g) /\ F \in Nodes(g) /\ P \in Nodes(g) /\ S \in Nodes(g)
      /\ Encloses(g, I, F) /\ Bracket(g, LoopInfo(g), P, S)
  BY FunctionFacts DEF TypeInv, Bracketed
<1>2. Dominates(g, I, P)
  BY <1>1, FunctionFacts DEF TypeInv, Bracketed, Analysis
<1>3. /\ I # F /\ P # S /\ I # P /\ Dominates(g, P, S) /\ Dominates(g, I, F)
      /\ Bracket(g, LoopInfo(g), I, F)
  BY <1>1, <1>2, LoopsAroundCalls DEF Bracket, Encloses, Dominates
<1>4. I # S
  BY <1>1, <1>2, <1>3, DominatesIsAntisymmetric
<1>5. CASE F = S
  BY <1>1, <1>2, <1>3, <1>4, <1>5, DominatedAvoids DEF Outside
<1>6. CASE F # S
  <2>1. PICK h \in Nodes(g), n \in Nodes(g) :
          /\ h \in DOMAIN LoopInfo(g) /\ P \in LoopBody(g, h) /\ n \in LoopBody(g, h)
          /\ F \in g.succ[n] /\ F \notin LoopBody(g, h)
    BY <1>6, FreePlace
  <2>2. LoopInfo(g)[h] = LoopBody(g, h)
    BY <2>1 DEF LoopInfo
  <2>3. I \notin LoopBody(g, h) /\ S \in LoopBody(g, h)
    BY <1>1, <1>3, <2>1, <2>2 DEF Bracket, LoopsAround
  <2>4. ReachesAvoiding(g, P, n, I) /\ ReachesAvoiding(g, n, F, I)
    BY <1>1, <2>1, <2>3, LoopIsConnected, AvoidsSelf, AvoidsOverEdge
  <2>5. ~Outside(g, I, F, P)
    BY <2>4, AvoidsTransitive DEF Outside
  <2>6. ~Inside(g, P, S, F)
    BY <1>1, <2>1, <2>3, StaysInLoop DEF Bracket
  <2>7. QED
    BY <1>1, <1>3, <1>4, <2>1, <2>5, <2>6
<1>7. QED
  BY <1>5, <1>6

-----------------------------------------------------------------------------
(* The invariant.                                                          *)

LEMMA InitInv == Init => IInv
<1> SUFFICES ASSUME Init PROVE IInv
  OBVIOUS
<1>1. TypeInv
  <2>1. InFamily
    BY DEF Init, InFamily
  <2>2. QED
    BY <2>1, FunctionFacts DEF Init, TypeInv
<1>2. RequestInv
  BY <1>1, BracketFacts, EntryIsOutside DEF Init, RequestInv, Bracket
<1>3. QED
  BY <1>1, <1>2 DEF IInv

LEMMA NextTypeInv ==
  ASSUME TypeInv, Next
  PROVE  TypeInv'
<1>1. pos' \in Nodes(func.graph) /\ UNCHANGED <<func, free_after>>
  BY FunctionFacts DEF Next, TypeInv, Flow
<1>2. QED
  BY <1>1 DEF TypeInv, InFamily

LEMMA NextRequestInv ==
  ASSUME TypeInv, RequestInv, Next
  PROVE  RequestInv'
<1> DEFINE g == func.graph
           I == init_after
           F == free_after
           P == func.fork
           S == func.send
<1>1. UNCHANGED <<func, init_after, free_after>> /\ Bracketed' = Bracketed
  <2>1. UNCHANGED <<func, init_after, free_after>>
    BY DEF Next
  <2>2. QED
    BY <2>1 DEF Bracketed, SameLoops, OuterLoops
<1> SUFFICES ASSUME Bracketed
             PROVE  /\ ~lost'
                    /\ \/ request' = "none" /\ Outside(g, I, F, pos') /\ Outside(g, P, S, pos')
                       \/ request' = "inactive" /\ Inside(g, I, F, pos') /\ Outside(g, P, S, pos')
                       \/ request' = "active" /\ Inside(g, I, F, pos') /\ Inside(g, P, S, pos')
  BY <1>1 DEF RequestInv
<1>2. /\ Flow(g) /\ IsFiniteSet(Nodes(g)) /\ Reducible(g)
      /\ pos \in Nodes(g) /\ pos' \in g.succ[pos] /\ P \in Nodes(g) /\ S \in Nodes(g)
  BY FunctionFacts DEF TypeInv, Next
<1>3. /\ I \in Nodes(g) /\ F \in Nodes(g) /\ I \notin {F, P, S} /\ F # P /\ P # S
      /\ Bracket(g, LoopInfo(g), I, F) /\ Bracket(g, LoopInfo(g), P, S)
      /\ ~Outside(g, I, F, P)
      /\ F # S => ~Inside(g, P, S, F)
  BY BracketFacts
<1>4. /\ pos = I => request' = "inactive" /\ lost' = (lost \/ request # "none")
      /\ pos = P => request' = "active" /\ lost' = lost
      /\ pos = S => request' = (IF F = S THEN "none" ELSE "inactive") /\ lost' = lost
      /\ pos = F /\ F # S => request' = "none" /\ lost' = lost
      /\ pos \notin {I, P, S, F} => request' = request /\ lost' = lost
  BY <1>3 DEF Next, InitCall, ForkCall, WaitCall, FreeCall, OtherInstruction
<1>5. ~lost
  BY DEF RequestInv
<1> HIDE DEF g, I, F, P, S
<1>6. CASE request = "none" /\ Outside(g, I, F, pos) /\ Outside(g, P, S, pos)
  <2>1. pos \notin {P, F, S}
    BY <1>2, <1>3, <1>6, StaysOutside
  <2>2. Outside(g, P, S, pos')
    BY <1>2, <1>6, <2>1, StaysOutside
  <2>3. CASE pos = I
    <3>1. Inside(g, I, F, pos')
      BY <1>2, <1>3, <2>3, StartLeadsInside DEF Bracket
    <3>2. QED
      BY <1>4, <1>5, <1>6, <2>2, <2>3, <3>1
  <2>4. CASE pos # I
    <3>1. Outside(g, I, F, pos')
      BY <1>2, <1>6, <2>4, StaysOutside
    <3>2. QED
      BY <1>4, <1>5, <1>6, <2>1, <2>2, <2>4, <3>1
  <2>5. QED
    BY <2>3, <2>4
<1>7. CASE request = "inactive" /\ Inside(g, I, F, pos) /\ Outside(g, P, S, pos)
  <2>1. pos \notin {I, S}
    BY <1>2, <1>3, <1>7, StaysInside, StaysOutside
  <2>2. CASE pos = P
    <3>1. Inside(g, I, F, pos')
      BY <1>2, <1>3, <1>7, <2>2, StaysInside
    <3>2. Inside(g, P, S, pos')
      BY <1>2, <1>3, <2>2, StartLeadsInside DEF Bracket
    <3>3. QED
      BY <1>4, <1>5, <2>2, <3>1, <3>2
  <2>3. CASE pos = F
    <3>1. Outside(g, I, F, pos')
      BY <1>2, <1>3, <2>3, EndLeadsOutside
    <3>2. Outside(g, P, S, pos')
      BY <1>2, <1>3, <1>7, <2>3, StaysOutside
    <3>3. QED
      BY <1>4, <1>5, <2>1, <2>3, <3>1, <3>2
  <2>4. CASE pos \notin {P, F}
    <3>1. Inside(g, I, F, pos')
      BY <1>2, <1>3, <1>7, <2>4, StaysInside
    <3>2. Outside(g, P, S, pos')
      BY <1>2, <1>7, <2>4, StaysOutside
    <3>3. QED
      BY <1>4, <1>5, <1>7, <2>1, <2>4, <3>1, <3>2
  <2>5. QED
    BY <2>2, <2>3, <2>4
<1>8. CASE request = "active" /\ Inside(g, I, F, pos) /\ Inside(g, P, S, pos)
  <2>1. pos \notin {I, P} /\ (pos = F => F = S)
    BY <1>2, <1>3, <1>8, StaysInside
  <2>2. CASE pos = S
    <3>1. Outside(g, P, S, pos')
      BY <1>2, <1>3, <2>2, EndLeadsOutside
    <3>2. CASE F = S
      <4>1. Outside(g, I, F, pos')
        BY <1>2, <1>3, <2>2, <3>2, EndLeadsOutside
      <4>2. QED
        BY <1>4, <1>5, <2>2, <3>1, <3>2, <4>1
    <3>3. CASE F # S
      <4>1. Inside(g, I, F, pos')
        BY <1>2, <1>3, <1>8, <2>2, <3>3, StaysInside
      <4>2. QED
        BY <1>4, <1>5, <2>2, <3>1, <3>3, <4>1
    <3>4. QED
      BY <3>2, <3>3
  <2>3. CASE pos # S
    <3>1. Inside(g, I, F, pos') /\ Inside(g, P, S, pos')
      BY <1>2, <1>3, <1>8, <2>1, <2>3, StaysInside
    <3>2. QED
      BY <1>4, <1>5, <1>8, <2>1, <2>3, <3>1
  <2>4. QED
    BY <2>2, <2>3
<1>9. QED
  BY <1>6, <1>7, <1>8 DEF RequestInv, g, I, F, P, S

LEMMA Invariance == Spec => []IInv
<1>1. IInv /\ [Next \/ Returned]_vars => IInv'
  <2> SUFFICES ASSUME IInv, [Next \/ Returned]_vars PROVE IInv'
    OBVIOUS
  <2>1. CASE Next
    BY <2>1, NextTypeInv, NextRequestInv DEF IInv
  <2>2. CASE UNCHANGED vars
    <3>1. UNCHANGED <<func, init_after, free_after, pos, request, lost>>
      BY <2>2 DEF vars
    <3>2. QED
      BY <3>1 DEF IInv, TypeInv, InFamily, RequestInv, Bracketed, SameLoops, OuterLoops
  <2>3. QED
    BY <2>1, <2>2 DEF Returned
<1>2. QED
  BY <1>1, InitInv, PTL DEF Spec

(* move_init_and_free_call keeps init, start, wait and free of each        *)
(* request in this order, on every path and in every iteration, wherever   *)
(* init and free have left the same loops: also when the loops are not     *)
(* entered, or left in the middle.                                         *)
THEOREM SameLoopsAreEnough == Spec => []SameLoopsAreBalanced
<1>1. IInv => SameLoopsAreBalanced
  <2> SUFFICES ASSUME IInv, Bracketed PROVE CallsAreBalanced
    BY DEF SameLoopsAreBalanced, Bracketed
  <2> DEFINE g == func.graph
             I == init_after
             F == free_after
             P == func.fork
             S == func.send
  <2>1. TypeInv /\ RequestInv
    BY DEF IInv
  <2>2. /\ Flow(g) /\ Reducible(g) /\ pos \in Nodes(g)
        /\ P \in Nodes(g) /\ S # g.exit
    BY <2>1, FunctionFacts DEF TypeInv
  <2>3. /\ I \in Nodes(g) /\ ~Outside(g, I, F, P)
        /\ F # S => ~Inside(g, P, S, F)
    BY <2>1, BracketFacts
  <2>4. /\ request = "none" => pos \notin {P, S, F}
        /\ request = "inactive" => pos # S /\ (pos = g.exit => F = g.exit)
        /\ request = "active" => pos \notin {P, g.exit} /\ (pos = F => F = S)
        /\ request \in {"none", "inactive", "active"} /\ ~lost
    <3>1. /\ ~lost
          /\ \/ request = "none" /\ Outside(g, I, F, pos) /\ Outside(g, P, S, pos)
             \/ request = "inactive" /\ Inside(g, I, F, pos) /\ Outside(g, P, S, pos)
             \/ request = "active" /\ Inside(g, I, F, pos) /\ Inside(g, P, S, pos)
      BY <2>1 DEF RequestInv
    <3> HIDE DEF g, I, F, P, S
    <3>2. QED
      BY <2>2, <2>3, <3>1, StaysOutside, StaysInside
  <2>5. QED
    BY <2>4 DEF CallsAreBalanced
<1>2. QED
  BY <1>1, Invariance, PTL

-----------------------------------------------------------------------------
(* The search in front of a leaf.                                          *)

Known == FactsOf[func.graph]

\* The uses it looks at.
Uses(n) ==
  {m \in DOMAIN func.kind["ptr"] \ {func.fork} :
     n \in Known.reach[m] \/ LoopFor(Known.loops, n) # nullptr}

\* From the leaf on, or all uses when it is in a loop.
SearchedFrom(n, search_before) ==
  \/ search_before = n
  \/ search_before = nullptr /\ LoopFor(Known.loops, n) # nullptr

LEMMA AccessFacts ==
  ASSUME InFamily
  PROVE  /\ Nodes(func.graph) \subseteq Int \ {nullptr, Abort}
         /\ DOMAIN func.kind["ptr"] \subseteq Nodes(func.graph)
         /\ \A m \in DOMAIN func.kind["ptr"] :
              func.kind["ptr"][m] \in {"store", "fork", "load"} /\ InList(func.users["ptr"], m)
         /\ func.users["ptr"] \in Seq(DOMAIN func.kind["ptr"])
         /\ \A n \in Leaves(func) :
              /\ n \in Nodes(func.graph) /\ Dominates(func.graph, n, func.fork)
              /\ func.leaf[n] = "load" => ~Stores(n)
         /\ \A a, b \in Nodes(func.graph) :
              /\ b \in Known.reach[a] <=> Reaches(func.graph, a, b)
              /\ b \in Known.trees.domtree[a] <=> Dominates(func.graph, a, b)
              /\ b \in IterationBefore[func.graph][a] <=> Reaches(Iteration(func.graph, a), b, a)
<1>1. PICK i \in DOMAIN Functions : func \in Functions[i]
  BY DEF InFamily
<1>2. func.graph \in DOMAIN FactsOf
  BY <1>1 DEF FactsOf
<1>3. Nodes(func.graph) \subseteq Nat \ {nullptr}
  BY <1>2, FunctionsAssumption
<1>4. Nodes(func.graph) \subseteq Int \ {nullptr, Abort}
  BY <1>3 DEF nullptr, Abort
<1>5. /\ DOMAIN func.kind["ptr"] \subseteq Nodes(func.graph)
      /\ \A n \in DOMAIN func.kind["ptr"] : func.kind["ptr"][n] \in {"store", "fork", "load"}
      /\ func.users["ptr"] \in Seq(DOMAIN func.kind["ptr"])
      /\ \A n \in DOMAIN func.kind["ptr"] : \E j \in DOMAIN func.users["ptr"] : func.users["ptr"][j] = n
  BY <1>1, FunctionsAssumption
<1>6. \A m \in DOMAIN func.kind["ptr"] : InList(func.users["ptr"], m)
  <2>1. DOMAIN func.users["ptr"] = 1 .. Len(func.users["ptr"])
    BY <1>5
  <2>2. QED
    BY <1>5, <2>1 DEF InList
<1>7. \A a, b \in Nodes(func.graph) :
        /\ b \in Known.reach[a] <=> Reaches(func.graph, a, b)
        /\ b \in Known.trees.domtree[a] <=> Dominates(func.graph, a, b)
        /\ b \in IterationBefore[func.graph][a] <=> Reaches(Iteration(func.graph, a), b, a)
  BY <1>2 DEF Known, FactsOf, Facts, Analysis, IterationBefore
<1>8. ASSUME NEW n \in Leaves(func)
      PROVE  /\ n \in Nodes(func.graph) /\ func.fork \in Known.trees.domtree[n]
             /\ func.leaf[n] = "load" => ~Stores(n)
  BY <1>1, FunctionsAssumption DEF Known, Stores
<1>9. func.fork \in Nodes(func.graph)
  BY FunctionFacts
<1>10. QED
  BY <1>4, <1>5, <1>6, <1>7, <1>8, <1>9

LEMMA UsesFacts ==
  ASSUME InFamily, NEW n
  PROVE  /\ Uses(n) \in SUBSET (Int \ {nullptr}) /\ Uses(n) \subseteq DOMAIN func.kind["ptr"]
         /\ StoresSearched(n) = {m \in Uses(n) : Stores(m)}
<1>1. Uses(n) \subseteq DOMAIN func.kind["ptr"]
  BY DEF Uses
<1>2. QED
  BY <1>1, AccessFacts DEF Uses, StoresSearched, Known

LEMMA StoresFacts ==
  ASSUME InFamily, NEW n, OneOrder(StoresSearched(n))
  PROVE  /\ Flow(func.graph) /\ Known.trees = Analysis(func.graph)
         /\ StoresSearched(n) \in SUBSET (Nodes(func.graph) \cap Int)
         /\ nullptr \notin StoresSearched(n) /\ Abort \notin StoresSearched(n)
         /\ InOneOrder(func.graph, StoresSearched(n))
<1>1. /\ Flow(func.graph) /\ Known.trees = Analysis(func.graph)
      /\ FactsOf[func.graph].trees = Analysis(func.graph)
  BY FunctionFacts DEF Known
<1>2. InOneOrder(func.graph, StoresSearched(n))
  BY <1>1 DEF OneOrder, InOneOrder
<1>3. /\ StoresSearched(n) \subseteq DOMAIN func.kind["ptr"]
      /\ DOMAIN func.kind["ptr"] \subseteq Nodes(func.graph)
      /\ Nodes(func.graph) \subseteq Int \ {nullptr, Abort}
  BY AccessFacts DEF StoresSearched
<1>4. QED
  BY <1>1, <1>2, <1>3

\* What a search looks at.
ListOf(to_analyze, search_before) ==
  IF to_analyze = <<>> THEN get_ptr_usages(func, Known, "ptr", search_before, {func.fork})
  ELSE to_analyze

LEMMA UsagesAreUses ==
  ASSUME InFamily, NEW n, n # nullptr, NEW search_before, SearchedFrom(n, search_before)
  PROVE  /\ get_ptr_usages(func, Known, "ptr", search_before, {func.fork}) \in Seq(Uses(n))
         /\ \A m \in Uses(n) :
              search_before = n /\ n \in Known.reach[m] /\ ~LaterInLoop(Known, m, n)
                => InList(get_ptr_usages(func, Known, "ptr", search_before, {func.fork}), m)
<1> DEFINE S == {m \in DOMAIN func.kind["ptr"] \ {func.fork} :
                   search_before # nullptr =>
                     search_before \in Known.reach[m] /\ ~LaterInLoop(Known, m, search_before)}
           users == func.users["ptr"]
<1>1. get_ptr_usages(func, Known, "ptr", search_before, {func.fork}) = Only(users, S)
  BY DEF get_ptr_usages
<1>2. users \in Seq(DOMAIN func.kind["ptr"]) /\ \A m \in DOMAIN func.kind["ptr"] : InList(users, m)
  BY AccessFacts
<1>3. S \subseteq Uses(n)
  BY DEF Uses, SearchedFrom
<1>4. \A m \in Uses(n) : search_before = n /\ n \in Known.reach[m] /\ ~LaterInLoop(Known, m, n)
                           => m \in S /\ m \in DOMAIN func.kind["ptr"]
  BY DEF Uses
<1> HIDE DEF S, users
<1>5. Only(users, S) \in Seq(Uses(n))
  <2>1. Only(users, S) \in Seq(DOMAIN func.kind["ptr"] \cap S)
    BY <1>2, OnlyFacts
  <2>2. DOMAIN func.kind["ptr"] \cap S \subseteq Uses(n)
    BY <1>3
  <2>3. QED
    BY <2>1, <2>2
<1>6. \A m \in S : m \in DOMAIN func.kind["ptr"] => InList(Only(users, S), m)
  BY <1>2, OnlyLists
<1>7. QED
  BY <1>1, <1>4, <1>5, <1>6

\* The answer of a search comes behind all stores in its list.
FindsStores(r, n, list) ==
  /\ r \in StoresSearched(n) \cup {nullptr, Abort}
  /\ r # Abort =>
       \A m \in StoresSearched(n) : InList(list, m) =>
         r \in StoresSearched(n) /\ IsBefore(func.graph, m, r)

LEMMA SearchAnswers ==
  ASSUME InFamily, NEW n, n # nullptr, OneOrder(StoresSearched(n)),
         NEW to_analyze \in Seq(Uses(n)), NEW search_before, SearchedFrom(n, search_before)
  PROVE  FindsStores(
           search_for_pointer_modification(func, Known, "ptr", to_analyze, search_before, {func.fork}),
           n, ListOf(to_analyze, search_before))
<1> DEFINE g == func.graph
           V == StoresSearched(n)
           list == ListOf(to_analyze, search_before)
           sub == search_for_gep_modification(func, Known, search_before, {func.fork})
           modification == [m \in DOMAIN func.kind["ptr"] |->
             IF func.kind["ptr"][m] = "gep" THEN sub
             ELSE ModificationByUse(func.kind["ptr"][m], m)]
           r == search_for_pointer_modification(
                  func, Known, "ptr", to_analyze, search_before, {func.fork})
<1>1. list \in Seq(Uses(n))
  BY UsagesAreUses DEF ListOf
<1>2. ASSUME NEW m \in Uses(n)
      PROVE  modification[m] = IF m \in V THEN m ELSE nullptr
  <2>1. m \in DOMAIN func.kind["ptr"] /\ func.kind["ptr"][m] \in {"store", "fork", "load"}
        /\ (m \in V <=> Stores(m))
    BY UsesFacts, AccessFacts
  <2>2. modification[m] = ModificationByUse(func.kind["ptr"][m], m)
    BY <2>1
  <2>3. ModificationByUse(func.kind["ptr"][m], m) = IF Stores(m) THEN m ELSE nullptr
    BY <2>1 DEF ModificationByUse, should_function_call_be_considered_modification, Stores
  <2> HIDE DEF modification, V
  <2>4. QED
    BY <2>1, <2>2, <2>3
<1>3. r = LatestOf(Known, list, modification)
  BY DEF search_for_pointer_modification, ListOf
<1> HIDE DEF list, modification, sub, r
<1>4. /\ Flow(g) /\ Known.trees = Analysis(g)
      /\ V \in SUBSET (Nodes(g) \cap Int) /\ nullptr \notin V /\ Abort \notin V /\ InOneOrder(g, V)
      /\ Uses(n) \in SUBSET (Int \ {nullptr}) /\ V \subseteq Uses(n)
  BY StoresFacts, UsesFacts
<1>5. \A m \in Uses(n) : modification[m] \in V \cup {nullptr, Abort}
  BY <1>2
<1> HIDE DEF V, g
<1>6. Finds(g, V, list, modification, LatestOf(Known, list, modification))
  BY <1>1, <1>4, <1>5, SearchFinds
<1>7. r \in V \cup {nullptr, Abort}
  BY <1>3, <1>6 DEF Finds
<1>8. ASSUME r # Abort, NEW m \in V, NEW j \in 1 .. Len(list), list[j] = m
      PROVE  r \in V /\ IsBefore(g, m, r)
  <2>1. modification[m] = m
    BY <1>2, <1>4
  <2>2. QED
    BY <1>3, <1>6, <1>8, <2>1 DEF Finds
<1>9. QED
  BY <1>7, <1>8 DEF FindsStores, InList, list, r, V, g

\* The latest modification before a leaf, from the uses of the pointer.
Loop(n) == LoopFor(Known.loops, n)

ModificationPoint(n) ==
  search_for_pointer_modification(func, Known, "ptr",
    get_ptr_usages(func, Known, "ptr", n, {func.fork}), n, {func.fork})

Latest(n) == LatestOfPointer(func, Known, "ptr", n, {func.fork})

LEMMA LatestCases ==
  ASSUME InFamily, NEW n \in Nodes(func.graph)
  PROVE  /\ Latest(n) = nullptr => ModificationPoint(n) = nullptr
         /\ Latest(n) \notin {nullptr, Abort} =>
              \/ Latest(n) = PrevNode(func, n)
              \/ /\ Latest(n) = ModificationPoint(n)
                 /\ \/ Loop(n) = nullptr \/ Latest(n) \in Known.loops[Loop(n)]
                    \/ ChangesInLoop(func, Known, "ptr", Loop(n), {func.fork}) = nullptr
<1>1. PrevNode(func, n) # nullptr
  <2>1. PrevNode(func, n) \in Nodes(func.graph)
    BY DEF PrevNode
  <2>2. QED
    BY <2>1, AccessFacts
<1>2. nullptr # Abort
  BY DEF nullptr, Abort
<1>3. Latest(n) =
        IF ModificationPoint(n) \in {nullptr, Abort} \/ Loop(n) = nullptr THEN ModificationPoint(n)
        ELSE IF ChangesInLoop(func, Known, "ptr", Loop(n), {func.fork}) = Abort THEN Abort
        ELSE IF /\ ChangesInLoop(func, Known, "ptr", Loop(n), {func.fork}) # nullptr
                /\ ModificationPoint(n) \notin Known.loops[Loop(n)]
        THEN PrevNode(func, n)
        ELSE ModificationPoint(n)
  BY DEF Latest, LatestOfPointer, ModificationPoint, Loop
<1>4. QED
  BY <1>1, <1>2, <1>3

(* It comes after every store that is not later in the loop.               *)
LEMMA ModificationPointFinds ==
  ASSUME InFamily, NEW n \in Nodes(func.graph), OneOrder(StoresSearched(n))
  PROVE  /\ ModificationPoint(n) \in StoresSearched(n) \cup {nullptr, Abort}
         /\ ModificationPoint(n) # Abort =>
              \A m \in StoresSearched(n) : n \in Known.reach[m] /\ ~LaterInLoop(Known, m, n) =>
                /\ ModificationPoint(n) \in StoresSearched(n)
                /\ IsBefore(func.graph, m, ModificationPoint(n))
<1> DEFINE list == get_ptr_usages(func, Known, "ptr", n, {func.fork})
<1>1. SearchedFrom(n, n) /\ n # nullptr
  BY AccessFacts DEF SearchedFrom
<1>2. /\ list \in Seq(Uses(n))
      /\ \A m \in Uses(n) : n \in Known.reach[m] /\ ~LaterInLoop(Known, m, n) => InList(list, m)
  BY <1>1, UsagesAreUses
<1>3. ListOf(list, n) = list
  BY DEF ListOf
<1> HIDE DEF list
<1>4. FindsStores(search_for_pointer_modification(func, Known, "ptr", list, n, {func.fork}), n, list)
  BY <1>1, <1>2, <1>3, SearchAnswers
<1>5. FindsStores(ModificationPoint(n), n, list)
  BY <1>4 DEF ModificationPoint, list
<1>6. StoresSearched(n) \subseteq Uses(n)
  BY UsesFacts
<1>7. QED
  BY <1>2, <1>5, <1>6 DEF FindsStores

(* A loop that changes nothing has no store.                               *)
LEMMA NothingChanges ==
  ASSUME InFamily, NEW n \in Nodes(func.graph), OneOrder(StoresSearched(n)), Loop(n) # nullptr,
         ChangesInLoop(func, Known, "ptr", Loop(n), {func.fork}) = nullptr
  PROVE  \A m \in StoresSearched(n) : m \notin Known.loops[Loop(n)]
<1> DEFINE S == Known.loops[Loop(n)] \ {func.fork}
           list == Only(func.users["ptr"], S)
<1> SUFFICES ASSUME NEW m \in StoresSearched(n), m \in Known.loops[Loop(n)] PROVE FALSE
  OBVIOUS
<1>1. /\ SearchedFrom(n, nullptr) /\ n # nullptr /\ nullptr # Abort
      /\ nullptr \notin StoresSearched(n)
  BY AccessFacts, StoresFacts DEF SearchedFrom, Loop, nullptr, Abort
<1>2. /\ func.users["ptr"] \in Seq(DOMAIN func.kind["ptr"])
      /\ InList(func.users["ptr"], m) /\ m \in S
  BY AccessFacts DEF StoresSearched
<1>3. DOMAIN func.kind["ptr"] \cap S \subseteq Uses(n)
  BY DEF Uses, Loop
<1> HIDE DEF S
<1>4. InList(list, m) /\ list # <<>> /\ list \in Seq(Uses(n))
  <2>1. list \in Seq(DOMAIN func.kind["ptr"] \cap S)
    BY <1>2, OnlyFacts
  <2>2. list \in Seq(Uses(n))
    BY <1>3, <2>1
  <2>3. QED
    BY <1>2, <2>2, OnlyLists
<1>5. search_for_pointer_modification(func, Known, "ptr", list, nullptr, {func.fork}) = nullptr
  BY DEF ChangesInLoop, S
<1> HIDE DEF list
<1>6. FindsStores(nullptr, n, ListOf(list, nullptr))
  BY <1>1, <1>4, <1>5, SearchAnswers
<1>7. QED
  BY <1>1, <1>4, <1>6 DEF FindsStores, ListOf

(* A store behind the instruction in front of n that is not in front of n  *)
(* is somewhere else.                                                      *)
LEMMA NotPrevNode ==
  ASSUME InFamily, NEW n \in Nodes(func.graph), NEW l \in Nodes(func.graph), l # n,
         NEW m \in Nodes(func.graph), m # n, ReachesAvoiding(func.graph, m, n, l)
  PROVE  l # PrevNode(func, n)
<1> DEFINE g == func.graph
           before == {x \in Nodes(g) : g.succ[x] = {n}}
           into == {x \in Nodes(g) : n \in g.succ[x]}
<1> SUFFICES ASSUME l = PrevNode(func, n) PROVE FALSE
  OBVIOUS
<1>1. before # {} /\ Cardinality(into) = 1 /\ l \in before
  BY DEF PrevNode
<1>2. into \subseteq {l}
  <2>1. l \in into
    BY <1>1
  <2>2. IsFiniteSet(into)
    BY FunctionFacts, FS_Subset
  <2>3. PICK x : into = {x}
    BY <1>1, <2>2, FS_Singleton
  <2>4. QED
    BY <2>1, <2>3
<1>3. \E x \in Nodes(g) : x # l /\ n \in g.succ[x]
  BY FunctionFacts, LastEdge DEF Flow
<1>4. QED
  BY <1>2, <1>3

\* Where the search in front of a leaf has one answer.
SearchIsSure(n) == OneOrder(StoresSearched(n)) /\ LaterIsBehind(n) /\ WrittenBefore(n)

(* When where a load moves to is on every path to where it was, no store   *)
(* but that of the region comes between the two.                           *)
LEMMA NothingStoredBetween ==
  ASSUME InFamily, NEW n \in Leaves(func), func.leaf[n] = "load", SearchIsSure(n),
         NEW l \in Nodes(func.graph), Dominates(func.graph, l, n),
         l = get_latest_modification_of_pointer(func, Known, "ptr", n, {func.fork}),
         NEW m, Stores(m), m # func.fork,
         Dominates(func.graph, l, m), ReachesAvoiding(func.graph, m, n, l)
  PROVE  FALSE
<1> DEFINE g == func.graph
           V == StoresSearched(n)
           p == ModificationPoint(n)
<1>1. /\ n \in Nodes(g) /\ m \in Nodes(g) /\ m # n /\ l # n /\ Flow(g) /\ IsFiniteSet(Nodes(g))
      /\ g.entry \in Nodes(g) /\ OneOrder(V) /\ Known.loops = LoopInfo(g)
      /\ Nodes(g) \subseteq Int \ {nullptr, Abort}
  <2>1. n \in Nodes(g) /\ m \in Nodes(g) /\ Nodes(g) \subseteq Int \ {nullptr, Abort}
    BY AccessFacts DEF Stores
  <2>2. m # n
    BY AccessFacts
  <2>3. QED
    BY <2>1, <2>2, FunctionFacts DEF SearchIsSure, Known, Dominates
<1>2. n \in Known.reach[m] /\ m \in V
  <2>1. Reaches(g, m, n)
    BY <1>1 DEF ReachesAvoiding, Reaches, Closed
  <2>2. n \in Known.reach[m]
    BY <1>1, <2>1, AccessFacts
  <2>3. QED
    BY <2>2 DEF StoresSearched, Stores, Known
<1>3. LaterInLoop(Known, m, n) =>
        /\ Loop(n) # nullptr /\ m \in Known.loops[Loop(n)] /\ l \notin Known.loops[Loop(n)]
        /\ \E s \in V : n \in Known.reach[s] /\ ~LaterInLoop(Known, s, n)
  <2> SUFFICES ASSUME LaterInLoop(Known, m, n)
               PROVE  /\ Loop(n) # nullptr /\ m \in Known.loops[Loop(n)]
                      /\ l \notin Known.loops[Loop(n)]
                      /\ \E s \in V : n \in Known.reach[s] /\ ~LaterInLoop(Known, s, n)
    OBVIOUS
  <2>1. Loop(n) # nullptr /\ Loop(n) = LoopFor(Known.loops, m)
    BY DEF LaterInLoop, Loop
  <2>2. m \in Known.loops[Loop(n)]
    BY <1>1, <2>1, InnermostLoopOf
  <2>3. m \in StoresLater(n)
    BY <1>2 DEF StoresLater, Known
  <2>4. ~Reaches(Iteration(g, n), m, n)
    BY <1>1, <2>3, AccessFacts DEF SearchIsSure, LaterIsBehind
  <2>5. l \notin LoopInfo(g)[LoopFor(LoopInfo(g), n)]
    BY <1>1, <2>4, LaterIsAround
  <2>6. \E s \in V : n \in Known.reach[s] /\ ~LaterInLoop(Known, s, n)
    BY <2>3 DEF SearchIsSure, WrittenBefore, StoresLater, Known
  <2>7. QED
    BY <1>1, <2>1, <2>2, <2>5, <2>6 DEF Loop
<1>4. l = Only(<<Latest(n), nullptr, g.entry>>, Int \ {nullptr})[1]
  BY DEF get_latest_modification_of_pointer, Latest
<1>5. p \in V \cup {nullptr, Abort} /\ V \subseteq Int /\ nullptr \notin V /\ nullptr # Abort
  BY <1>1, ModificationPointFinds, StoresFacts DEF nullptr, Abort
<1>6. Latest(n) \in Int
  <2>1. PrevNode(func, n) \in Int
    <3>1. PrevNode(func, n) \in Nodes(g)
      BY <1>1 DEF PrevNode
    <3>2. QED
      BY <1>1, <3>1
  <2>2. QED
    BY <1>1, <1>5, <2>1, LatestCases DEF nullptr, Abort
<1> HIDE DEF p, V, g
<1>7. l = IF Latest(n) # nullptr THEN Latest(n) ELSE g.entry
  BY <1>1, <1>4, <1>6, FirstOfThree DEF nullptr
<1>8. CASE Latest(n) = nullptr
  <2>1. p = nullptr
    BY <1>1, <1>8, LatestCases DEF p, g
  <2>2. \E s \in V : n \in Known.reach[s] /\ ~LaterInLoop(Known, s, n)
    BY <1>2, <1>3
  <2>3. QED
    BY <1>1, <1>5, <2>1, <2>2, ModificationPointFinds DEF p, V, g
<1>9. CASE Latest(n) = PrevNode(func, n)
  BY <1>1, <1>7, <1>8, <1>9, NotPrevNode DEF g
<1>10. CASE /\ Latest(n) = p
            /\ Loop(n) = nullptr \/ l \in Known.loops[Loop(n)]
                 \/ ChangesInLoop(func, Known, "ptr", Loop(n), {func.fork}) = nullptr
  <2>1. CASE Latest(n) = nullptr
    BY <1>8, <2>1
  <2>2. CASE Latest(n) # nullptr
    <3>1. l = p /\ l \in V /\ p # Abort
      BY <1>1, <1>5, <1>7, <1>10, <2>2 DEF g
    <3>2. ~LaterInLoop(Known, m, n)
      <4>1. LaterInLoop(Known, m, n) => ChangesInLoop(func, Known, "ptr", Loop(n), {func.fork}) = nullptr
        BY <1>3, <1>10
      <4>2. QED
        BY <1>1, <1>2, <1>3, <4>1, NothingChanges DEF V, g
    <3>3. IsBefore(g, m, l)
      BY <1>1, <1>2, <3>1, <3>2, ModificationPointFinds DEF p, V, g
    <3>4. l # m /\ IsBefore(g, l, m)
      BY <1>1, BeforeInTrees DEF Dominates, g
    <3>5. V \in SUBSET Nodes(g) /\ nullptr \notin V /\ InOneOrder(g, V)
      BY <1>1, StoresFacts DEF V, g
    <3>6. QED
      BY <1>2, <3>1, <3>3, <3>4, <3>5, BeforeInOneOrder
  <2>3. QED
    BY <2>1, <2>2
<1>11. QED
  BY <1>1, <1>7, <1>8, <1>9, <1>10, LatestCases DEF p, g

-----------------------------------------------------------------------------
(* The values.                                                             *)

\* x is behind a, and b can be executed before a is again.
Between(a, b, x) == Dominates(func.graph, a, x) /\ ReachesAvoiding(func.graph, x, b, a)

IsResults(r) == r = [n \in Leaves(func) |-> r[n]]

\* Where the instructions are, and what they have read, for each leaf.
MovedInv ==
  /\ moved = [n \in Leaves(func) |-> move_to_maximum_upwards_point(func, Known, n, {func.fork})]
  /\ IsResults(old) /\ IsResults(new) /\ IsResults(initialised)

\* The hypotheses of ArgumentsAreCurrent, which no step changes.
Sure ==
  /\ ~Stores(func.fork) /\ MovesAreInFront
  /\ \A n \in Leaves(func) : func.leaf[n] = "load" => SearchIsSure(n)

(* Until a load comes where it was, what was read where it is now is the   *)
(* value of the location; from there until the region both have read the   *)
(* same, and from init on the request has it.                              *)
ArgumentsInv ==
  Sure => \A n \in Leaves(func) :
    /\ moved[n] = n => old[n] = new[n]
    /\ moved[n] # n /\ Between(moved[n], n, pos) => memory = new[n]
    /\ Between(n, func.fork, pos) => old[n] = new[n]
    /\ Between(init_after, func.fork, pos) => initialised[n] = new[n]

CurrentInv == TypeInv /\ MovedInv /\ ArgumentsInv

\* What Sure says of each leaf.
LEMMA SureFacts ==
  ASSUME TypeInv, MovedInv, Sure
  PROVE  /\ init_after \in Nodes(func.graph) /\ Dominates(func.graph, init_after, func.fork)
         /\ \A n \in Leaves(func) :
              /\ n \in Nodes(func.graph) /\ Dominates(func.graph, n, func.fork)
              /\ moved[n] \in Nodes(func.graph)
              /\ moved[n] = init_after \/ Dominates(func.graph, moved[n], init_after)
              /\ moved[n] # n =>
                   /\ func.leaf[n] = "load" /\ ~Stores(n) /\ Dominates(func.graph, moved[n], n)
                   /\ \A m : Stores(m) => ~Between(moved[n], n, m)
<1>1. InFamily /\ func.fork \in Nodes(func.graph)
  BY FunctionFacts DEF TypeInv
<1>2. init_after \in Nodes(func.graph) /\ Dominates(func.graph, init_after, func.fork)
  BY <1>1, AccessFacts DEF Sure, MovesAreInFront, Known
<1>3. ASSUME NEW n \in Leaves(func)
      PROVE  /\ n \in Nodes(func.graph) /\ Dominates(func.graph, n, func.fork)
             /\ moved[n] \in Nodes(func.graph)
             /\ moved[n] = init_after \/ Dominates(func.graph, moved[n], init_after)
             /\ moved[n] = n \/ Dominates(func.graph, moved[n], n)
  <2>1. n \in Nodes(func.graph) /\ Dominates(func.graph, n, func.fork)
    BY <1>1, AccessFacts
  <2>2. /\ moved[n] = n \/ (moved[n] \in Nodes(func.graph) /\ n \in Known.trees.domtree[moved[n]])
        /\ \/ moved[n] = init_after
           \/ moved[n] \in Nodes(func.graph) /\ init_after \in Known.trees.domtree[moved[n]]
    BY DEF Sure, MovesAreInFront, Known
  <2>3. QED
    BY <1>1, <1>2, <2>1, <2>2, AccessFacts
<1>4. ASSUME NEW n \in Leaves(func), moved[n] # n
      PROVE  /\ func.leaf[n] = "load" /\ ~Stores(n)
             /\ moved[n] = get_latest_modification_of_pointer(func, Known, "ptr", n, {func.fork})
  <2>1. moved[n] = move_to_maximum_upwards_point(func, Known, n, {func.fork})
    BY DEF MovedInv
  <2>2. func.leaf[n] = "load"
    BY <1>4, <2>1 DEF move_to_maximum_upwards_point
  <2>3. QED
    BY <1>1, <2>1, <2>2, AccessFacts DEF move_to_maximum_upwards_point
<1>5. ASSUME NEW n \in Leaves(func), moved[n] # n, NEW m, Stores(m)
      PROVE  ~Between(moved[n], n, m)
  <2>1. m # func.fork /\ SearchIsSure(n)
    BY <1>4, <1>5 DEF Sure
  <2>2. QED
    BY <1>1, <1>3, <1>4, <1>5, <2>1, NothingStoredBetween DEF Between
<1>6. ASSUME NEW n \in Leaves(func), moved[n] # n
      PROVE  /\ func.leaf[n] = "load" /\ ~Stores(n) /\ Dominates(func.graph, moved[n], n)
             /\ \A m : Stores(m) => ~Between(moved[n], n, m)
  BY <1>3, <1>4, <1>5, <1>6
<1>7. QED
  BY <1>2, <1>3, <1>6

\* Where each instruction stands.
LEMMA BetweenSelf ==
  ASSUME NEW a, NEW b, Dominates(func.graph, a, b)
  PROVE  Between(a, b, b)
BY AvoidsSelf DEF Between

\* Only a leads between a and b.
LEMMA LeadsBetween ==
  ASSUME TypeInv, NEW a, NEW b, NEW y \in func.graph.succ[pos], Between(a, b, y)
  PROVE  pos = a \/ Between(a, b, pos)
<1> DEFINE g == func.graph
<1>1. pos \in Nodes(g) /\ Flow(g)
  BY FunctionFacts DEF TypeInv
<1> SUFFICES ASSUME pos # a PROVE Between(a, b, pos)
  OBVIOUS
<1>2. ReachesAvoiding(g, pos, b, a)
  BY <1>1, AvoidsOverEdge DEF Between
<1>3. Dominates(g, a, pos)
  BY <1>1 DEF Between, Dominates, Closed
<1>4. QED
  BY <1>2, <1>3 DEF Between

LEMMA InitCurrentInv == Init => CurrentInv
<1> SUFFICES ASSUME Init PROVE CurrentInv
  OBVIOUS
<1>1. TypeInv
  BY InitInv DEF IInv
<1>2. MovedInv
  BY DEF Init, MovedInv, IsResults, Known
<1>3. \A a : ~Dominates(func.graph, a, pos)
  BY DEF Init, Dominates
<1>4. ArgumentsInv
  BY <1>3 DEF Init, ArgumentsInv, Between
<1>5. QED
  BY <1>1, <1>2, <1>4 DEF CurrentInv

\* What a step does to the values of a leaf.
LEMMA StepOfValues ==
  ASSUME TypeInv, Next, NEW n \in Leaves(func)
  PROVE  /\ old'[n] = IF n # pos THEN old[n]
                      ELSE IF func.leaf[n] = "load" THEN memory' ELSE Fresh
         /\ new'[n] = IF moved[n] # pos THEN new[n]
                      ELSE IF func.leaf[n] = "load" THEN memory' ELSE Fresh
         /\ ~Stores(pos) => memory' = memory
BY DEF Next, Results

LEMMA NextFixed ==
  ASSUME Next
  PROVE  /\ UNCHANGED <<func, moved, init_after, free_after>>
         /\ Leaves(func)' = Leaves(func) /\ (Sure <=> Sure')
         /\ \A a, b, x : Between(a, b, x)' = Between(a, b, x)
<1>1. UNCHANGED <<func, moved, init_after, free_after>>
  BY DEF Next
<1>2. \A m : Stores(m)' = Stores(m)
  BY <1>1 DEF Stores
<1>3. \A n : SearchIsSure(n)' = SearchIsSure(n)
  BY <1>1, <1>2 DEF SearchIsSure, OneOrder, LaterIsBehind, WrittenBefore, StoresLater, StoresSearched
<1>4. MovesAreInFront' = MovesAreInFront
  BY <1>1 DEF MovesAreInFront, Leaves
<1>5. QED
  BY <1>1, <1>2, <1>3, <1>4 DEF Sure, Leaves, Between

LEMMA InitialisedStep ==
  ASSUME TypeInv, MovedInv, Sure, Next
  PROVE  initialised' = IF pos = init_after THEN new' ELSE initialised
<1> DEFINE g == func.graph
<1>1. /\ init_after \in Nodes(g) /\ Dominates(g, init_after, func.fork)
      /\ Dominates(g, func.fork, func.send)
      /\ func.fork \in Nodes(g) /\ func.send \in Nodes(g) /\ Flow(g)
  BY SureFacts, FunctionFacts DEF TypeInv, Bracket, Encloses
<1>2. init_after \notin {func.fork, func.send}
  BY <1>1, DominatesIsAntisymmetric DEF Dominates
<1>3. QED
  BY <1>2 DEF Next, InitCall, ForkCall, WaitCall, FreeCall, OtherInstruction

LEMMA NextMovedInv ==
  ASSUME TypeInv, MovedInv, Next
  PROVE  MovedInv'
<1>1. UNCHANGED <<func, moved>>
  BY DEF Next
<1>2. IsResults(old') /\ IsResults(new')
  BY DEF Next, Results, IsResults
<1>3. IsResults(initialised')
  BY <1>2 DEF Next, InitCall, ForkCall, WaitCall, FreeCall, OtherInstruction, MovedInv
<1>4. IsResults(old)' /\ IsResults(new)' /\ IsResults(initialised)'
  BY <1>1, <1>2, <1>3 DEF IsResults, Leaves
<1>5. QED
  BY <1>1, <1>4 DEF MovedInv, Leaves, Known

LEMMA NextArgumentsInv ==
  ASSUME TypeInv, MovedInv, ArgumentsInv, Next
  PROVE  ArgumentsInv'
<1> DEFINE g == func.graph
           P == func.fork
           I == init_after
<1> SUFFICES ASSUME Sure, NEW n \in Leaves(func)
             PROVE  /\ moved[n] = n => old'[n] = new'[n]
                    /\ moved[n] # n /\ Between(moved[n], n, pos') => memory' = new'[n]
                    /\ Between(n, P, pos') => old'[n] = new'[n]
                    /\ Between(I, P, pos') => initialised'[n] = new'[n]
  BY NextFixed DEF ArgumentsInv
<1>1. /\ moved[n] = n => old[n] = new[n]
      /\ moved[n] # n /\ Between(moved[n], n, pos) => memory = new[n]
      /\ Between(n, P, pos) => old[n] = new[n]
      /\ Between(I, P, pos) => initialised[n] = new[n]
  BY DEF ArgumentsInv
<1>2. /\ I \in Nodes(g) /\ n \in Nodes(g) /\ moved[n] \in Nodes(g)
      /\ moved[n] = I \/ Dominates(g, moved[n], I)
      /\ moved[n] # n =>
           /\ func.leaf[n] = "load" /\ ~Stores(n) /\ Dominates(g, moved[n], n)
           /\ Stores(pos) => ~Between(moved[n], n, pos)
  BY SureFacts
<1>3. Flow(g) /\ pos \in Nodes(g) /\ pos' \in g.succ[pos]
  BY FunctionFacts DEF TypeInv, Next
<1>4. moved[n] = n => old'[n] = new'[n]
  BY <1>1, StepOfValues
<1>5. ASSUME moved[n] # n, Between(moved[n], n, pos') PROVE memory' = new'[n]
  <2>1. CASE pos = moved[n]
    BY <1>2, <1>5, <2>1, StepOfValues
  <2>2. CASE pos # moved[n]
    <3>1. Between(moved[n], n, pos)
      BY <1>3, <1>5, <2>2, LeadsBetween
    <3>2. memory' = memory /\ new'[n] = new[n]
      BY <1>2, <1>5, <2>2, <3>1, StepOfValues
    <3>3. QED
      BY <1>1, <1>5, <3>1, <3>2
  <2>3. QED
    BY <2>1, <2>2
<1>6. ASSUME moved[n] # n, Between(n, P, pos') PROVE old'[n] = new'[n]
  <2>1. CASE pos = n
    <3>1. memory = new[n]
      BY <1>1, <1>2, <1>6, <2>1, BetweenSelf
    <3>2. QED
      BY <1>2, <1>6, <2>1, <3>1, StepOfValues
  <2>2. CASE pos # n
    <3>1. Between(n, P, pos)
      BY <1>3, <1>6, <2>2, LeadsBetween
    <3>2. pos # moved[n]
      BY <1>2, <1>3, <1>6, <3>1, DominatesIsAntisymmetric DEF Between
    <3>3. QED
      BY <1>1, <2>2, <3>1, <3>2, StepOfValues
  <2>3. QED
    BY <2>1, <2>2
<1>7. ASSUME Between(I, P, pos') PROVE initialised'[n] = new'[n]
  <2>1. CASE pos = I
    BY <2>1, InitialisedStep
  <2>2. CASE pos # I
    <3>1. Between(I, P, pos)
      BY <1>3, <1>7, <2>2, LeadsBetween
    <3>2. pos # moved[n]
      BY <1>2, <1>3, <2>2, <3>1, DominatesIsAntisymmetric DEF Between
    <3>3. initialised' = initialised /\ new'[n] = new[n]
      BY <2>2, <3>2, InitialisedStep, StepOfValues
    <3>4. QED
      BY <1>1, <3>1, <3>3
  <2>3. QED
    BY <2>1, <2>2
<1>8. QED
  BY <1>4, <1>5, <1>6, <1>7

(* In any function in which each load moves to where every path to it      *)
(* passes, init behind it on every path to the region, and the search for  *)
(* the last modification has one answer, each start finds in the request   *)
(* what its arguments are, however many loops init has left and wherever   *)
(* the location is written.                                                *)
THEOREM MovesInFrontAreEnough == Spec => []ArgumentsAreCurrent
<1>1. CurrentInv /\ [Next \/ Returned]_vars => CurrentInv'
  <2> SUFFICES ASSUME CurrentInv, [Next \/ Returned]_vars PROVE CurrentInv'
    OBVIOUS
  <2>1. CASE Next
    BY <2>1, NextTypeInv, NextMovedInv, NextArgumentsInv DEF CurrentInv
  <2>2. CASE UNCHANGED vars
    <3>1. TypeInv'
      BY <2>2 DEF CurrentInv, TypeInv, InFamily, vars
    <3>2. MovedInv'
      BY <2>2 DEF CurrentInv, MovedInv, IsResults, Leaves, Known, vars
    <3>3. UNCHANGED <<func, moved, init_after, pos, memory, old, new, initialised>>
      BY <2>2 DEF vars
    <3>4. \A m : Stores(m)' = Stores(m)
      BY <3>3 DEF Stores
    <3>5. Sure' = Sure
      BY <3>3, <3>4 DEF Sure, SearchIsSure, OneOrder, LaterIsBehind, WrittenBefore, StoresLater,
                        StoresSearched, MovesAreInFront, Leaves
    <3>6. ArgumentsInv'
      BY <3>3, <3>5 DEF CurrentInv, ArgumentsInv, Between, Leaves
    <3>7. QED
      BY <3>1, <3>2, <3>6 DEF CurrentInv
  <2>3. QED
    BY <2>1, <2>2 DEF Returned
<1>2. CurrentInv => ArgumentsAreCurrent
  <2> SUFFICES ASSUME CurrentInv, pos = func.fork, Sure PROVE initialised = old
    BY DEF ArgumentsAreCurrent, Sure, SearchIsSure
  <2>1. TypeInv /\ MovedInv /\ ArgumentsInv
    BY DEF CurrentInv
  <2>2. ASSUME NEW n \in Leaves(func) PROVE initialised[n] = old[n]
    <3>1. Between(n, func.fork, pos) /\ Between(init_after, func.fork, pos)
      BY <2>1, SureFacts, BetweenSelf
    <3>2. QED
      BY <2>1, <3>1 DEF ArgumentsInv
  <2>3. initialised = [n \in Leaves(func) |-> initialised[n]] /\ old = [n \in Leaves(func) |-> old[n]]
    BY <2>1 DEF MovedInv, IsResults
  <2>4. QED
    BY <2>2, <2>3
<1>3. QED
  BY <1>1, <1>2, InitCurrentInv, PTL DEF Spec
=============================================================================

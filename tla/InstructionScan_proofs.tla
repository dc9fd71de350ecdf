----------------------- MODULE InstructionScan_proofs -----------------------
(***************************************************************************)
(* Paths, dominators and natural loops of flow graphs of any size, and     *)
(* what Bracket says of the executions of a function.  Then, for every     *)
(* function without loops: what get_first_instruction(A, B) proves is true *)
(* of the executions, and so the scan of a list keeps the extreme          *)
(* instruction as long as every comparison finds an order.                 *)
(***************************************************************************)
EXTENDS InstructionScan, LatestModification, FiniteSetTheorems, WellFoundedInduction, TLAPS

-----------------------------------------------------------------------------
(* Paths in a graph.                                                       *)

LEMMA ReachesSelf ==
  ASSUME NEW g, NEW a
  PROVE  Reaches(g, a, a)
BY DEF Reaches

LEMMA ReachesTransitive ==
  ASSUME NEW g, NEW a, NEW b, NEW c, Reaches(g, a, b), Reaches(g, b, c)
  PROVE  Reaches(g, a, c)
BY DEF Reaches

LEMMA ReachesOverEdge ==
  ASSUME NEW g, NEW a \in Nodes(g), NEW n \in g.succ[a], NEW b, Reaches(g, n, b)
  PROVE  Reaches(g, a, b)
BY DEF Reaches, Closed

\* A path between two different nodes has an edge.
LEMMA ReachesFollows ==
  ASSUME NEW g, g.succ \in [Nodes(g) -> SUBSET Nodes(g)],
         NEW a \in Nodes(g), NEW b \in Nodes(g), a # b, Reaches(g, a, b)
  PROVE  Follows(g, a, b)
<1> SUFFICES ASSUME ~Follows(g, a, b) PROVE FALSE
  OBVIOUS
<1> DEFINE U == {x \in Nodes(g) : ~Reaches(g, x, b)}
<1>1. Closed(g, U \cup {a}, {})
  <2> SUFFICES ASSUME NEW n \in U \cup {a}, NEW y \in g.succ[n]
               PROVE  ~Reaches(g, y, b) /\ y \in Nodes(g)
    BY DEF Closed
  <2>1. y \in Nodes(g)
    OBVIOUS
  <2>2. CASE n = a
    BY <2>1, <2>2 DEF Follows
  <2>3. CASE n \in U
    BY <2>1, <2>3, ReachesOverEdge
  <2> QED BY <2>2, <2>3
<1>2. b \in U \cup {a}
  BY <1>1 DEF Reaches
<1> QED BY <1>2, ReachesSelf

LEMMA FollowsReaches ==
  ASSUME NEW g, NEW a \in Nodes(g), NEW b, Follows(g, a, b)
  PROVE  Reaches(g, a, b)
BY ReachesOverEdge DEF Follows

LEMMA FollowsAfterReaches ==
  ASSUME NEW g, g.succ \in [Nodes(g) -> SUBSET Nodes(g)],
         NEW a \in Nodes(g), NEW b \in Nodes(g), NEW c \in Nodes(g),
         Reaches(g, a, b), Follows(g, b, c)
  PROVE  Follows(g, a, c)
<1>1. CASE a = b
  BY <1>1
<1>2. CASE a # b
  <2>1. PICK n \in g.succ[a] : Reaches(g, n, b)
    BY <1>2, ReachesFollows DEF Follows
  <2>2. Reaches(g, n, c)
    BY <2>1, FollowsReaches, ReachesTransitive
  <2> QED BY <2>2 DEF Follows
<1> QED BY <1>1, <1>2

LEMMA FollowsBeforeReaches ==
  ASSUME NEW g, g.succ \in [Nodes(g) -> SUBSET Nodes(g)],
         NEW a \in Nodes(g), NEW b, NEW c,
         Follows(g, a, b), Reaches(g, b, c)
  PROVE  Follows(g, a, c)
BY ReachesTransitive DEF Follows

-----------------------------------------------------------------------------
(* What the two trees say about paths.                                     *)

LEMMA DominatorReaches ==
  ASSUME NEW g, NEW a \in Nodes(g), NEW b \in Nodes(g),
         Reaches(g, g.entry, b), Dominates(g, a, b)
  PROVE  Reaches(g, a, b)
<1>1. PICK T \in SUBSET Nodes(g) :
        g.entry \in T /\ Closed(g, T, {a}) /\ b \notin T
  BY DEF Dominates
<1> SUFFICES ASSUME NEW S \in SUBSET Nodes(g), a \in S, Closed(g, S, {})
             PROVE  b \in S
  BY DEF Reaches
<1>2. Closed(g, T \cup S, {})
  BY <1>1 DEF Closed
<1>3. b \in T \cup S
  BY <1>1, <1>2 DEF Reaches
<1> QED BY <1>1, <1>3

LEMMA PostDominatorIsReached ==
  ASSUME NEW g, NEW a \in Nodes(g), NEW b \in Nodes(g),
         Reaches(g, b, g.exit), PostDominates(g, a, b)
  PROVE  Reaches(g, b, a)
<1>1. CASE a = b
  BY <1>1, ReachesSelf
<1>2. CASE a # b
  <2>1. PICK T \in SUBSET Nodes(g) :
          b \in T /\ Closed(g, T, {a}) /\ g.exit \notin T
    BY <1>2 DEF PostDominates
  <2> SUFFICES ASSUME NEW S \in SUBSET Nodes(g), b \in S, Closed(g, S, {}), a \notin S
               PROVE  FALSE
    BY DEF Reaches
  <2>2. Closed(g, S \cap T, {})
    BY <2>1 DEF Closed
  <2>3. g.exit \in S \cap T
    BY <2>1, <2>2 DEF Reaches
  <2> QED BY <2>1, <2>3
<1> QED BY <1>1, <1>2

-----------------------------------------------------------------------------
(* Graphs as LLVM has them.                                                *)

Flow(g) == /\ g.succ \in [Nodes(g) -> SUBSET Nodes(g)] /\ Proper(g)
           /\ nullptr \notin Nodes(g)

(* A set of natural numbers has a least one.                               *)
LEMMA LeastElement ==
  ASSUME NEW N \in SUBSET Nat, N # {}
  PROVE  \E n \in N : \A m \in N : n <= m
<1>1. PICK n \in N : \A m \in N : ~(<<m, n>> \in OpToRel(<, Nat))
  BY NatLessThanWellFounded, WFMin, Zenon
<1>2. \A m \in N : ~(m < n)
  BY <1>1, Zenon DEF OpToRel
<1>3. QED
  BY <1>2

(* A finite graph without cycles: some node of a set K has no predecessor  *)
(* in it.                                                                  *)
LEMMA FirstNode ==
  ASSUME NEW g, g.succ \in [Nodes(g) -> SUBSET Nodes(g)], IsFiniteSet(Nodes(g)), Acyclic(g),
         NEW K \in SUBSET Nodes(g), K # {}
  PROVE  \E t \in K : \A p \in K : t \notin g.succ[p]
<1> DEFINE Reaching(t) == {x \in Nodes(g) : Follows(g, x, t)}
           Depth(t) == Cardinality(Reaching(t))
           N == {Depth(t) : t \in K}
<1>1. \A t \in K : IsFiniteSet(Reaching(t)) /\ Depth(t) \in Nat
  BY FS_Subset, FS_CardinalityType
<1>2. PICK c \in N : \A m \in N : c <= m
  <2>1. N \in SUBSET Nat /\ N # {}
    BY <1>1
  <2> HIDE DEF N
  <2>2. QED
    BY <2>1, LeastElement
<1>3. PICK t \in K : c = Depth(t)
  OBVIOUS
<1>4. ASSUME NEW p \in K, t \in g.succ[p] PROVE FALSE
  <2>1. Follows(g, p, t)
    BY <1>4, ReachesSelf DEF Follows
  <2>2. Reaching(p) \subseteq Reaching(t)
    BY <2>1, FollowsReaches, FollowsBeforeReaches
  <2>3. p \in Reaching(t) /\ p \notin Reaching(p)
    BY <2>1 DEF Acyclic
  <2>4. Depth(p) < Depth(t)
    <3>1. Cardinality(Reaching(p)) <= Cardinality(Reaching(t))
          /\ (Cardinality(Reaching(p)) = Cardinality(Reaching(t)) => Reaching(p) = Reaching(t))
      BY <1>1, <2>2, FS_Subset
    <3>2. Depth(p) # Depth(t)
      BY <2>3, <3>1
    <3> HIDE DEF Reaching
    <3>3. QED
      BY <1>1, <3>1, <3>2
  <2>5. c <= Depth(p)
    BY <1>2
  <2>6. Depth(p) \in Nat /\ Depth(t) \in Nat /\ c = Depth(t)
    BY <1>1, <1>3
  <2> HIDE DEF Depth, N
  <2>7. QED
    BY <2>4, <2>5, <2>6
<1>5. QED
  BY <1>4

-----------------------------------------------------------------------------
(* Paths that avoid a node, and cycles.                                    *)

LEMMA AvoidsTransitive ==
  ASSUME NEW g, NEW cut, NEW a, NEW b, NEW c,
         ReachesAvoiding(g, a, b, cut), ReachesAvoiding(g, b, c, cut)
  PROVE  ReachesAvoiding(g, a, c, cut)
BY DEF ReachesAvoiding

LEMMA AvoidsOverEdge ==
  ASSUME NEW g, NEW cut, NEW a \in Nodes(g), a # cut, NEW n \in g.succ[a], NEW b,
         ReachesAvoiding(g, n, b, cut)
  PROVE  ReachesAvoiding(g, a, b, cut)
BY DEF ReachesAvoiding, Closed

LEMMA AvoidsSelf ==
  ASSUME NEW g, NEW cut, NEW a
  PROVE  ReachesAvoiding(g, a, a, cut)
BY DEF ReachesAvoiding

LEMMA DominatesAvoids ==
  ASSUME NEW g, NEW a, NEW b
  PROVE  Dominates(g, a, b) <=> a # b /\ ~ReachesAvoiding(g, g.entry, b, a)
BY DEF Dominates, ReachesAvoiding

\* A path to another node has a last edge.
LEMMA LastEdge ==
  ASSUME NEW g, g.succ \in [Nodes(g) -> SUBSET Nodes(g)],
         NEW cut, NEW a \in Nodes(g), NEW b \in Nodes(g), a # b, ReachesAvoiding(g, a, b, cut)
  PROVE  \E p \in Nodes(g) : p # cut /\ b \in g.succ[p] /\ ReachesAvoiding(g, a, p, cut)
<1> SUFFICES ASSUME \A p \in Nodes(g) : p # cut /\ ReachesAvoiding(g, a, p, cut) => b \notin g.succ[p]
             PROVE  FALSE
  OBVIOUS
<1> DEFINE S == {y \in Nodes(g) : ReachesAvoiding(g, a, y, cut)} \ {b}
<1>1. a \in S
  BY AvoidsSelf
<1>2. ASSUME NEW y \in S \ {cut}, NEW z \in g.succ[y] PROVE z \in S
  <2>1. ReachesAvoiding(g, y, z, cut)
    BY AvoidsSelf, AvoidsOverEdge
  <2>2. ReachesAvoiding(g, a, z, cut)
    BY <2>1, AvoidsTransitive
  <2>3. z \in Nodes(g) /\ z # b
    OBVIOUS
  <2>4. QED
    BY <2>2, <2>3
<1>3. S \in SUBSET Nodes(g) /\ Closed(g, S, {cut})
  BY <1>2 DEF Closed
<1>4. b \in S
  <2> HIDE DEF S
  <2>1. QED
    BY <1>1, <1>3 DEF ReachesAvoiding
<1>5. QED
  BY <1>4

\* The nodes of the cycles through n that avoid cut.
Cycles(g, n, cut) ==
  {m \in Nodes(g) : /\ m # cut
                    /\ ReachesAvoiding(g, n, m, cut) /\ ReachesAvoiding(g, m, n, cut)}

\* A path from b to t that avoids a arrives at t from a node of a cycle, and
\* not before that.
LEMMA Arrival ==
  ASSUME NEW g, Flow(g), NEW a \in Nodes(g), NEW b \in Nodes(g), a # b,
         NEW t \in Cycles(g, b, a), t # b
  PROVE  \E p \in Cycles(g, b, a) : p # t /\ t \in g.succ[p] /\ ReachesAvoiding(g, b, p, t)
<1> SUFFICES ASSUME \A p \in Cycles(g, b, a) :
                      p # t /\ t \in g.succ[p] => ~ReachesAvoiding(g, b, p, t)
             PROVE  FALSE
  OBVIOUS
<1> DEFINE Avoids(y) == \A T \in SUBSET Nodes(g) : b \in T /\ Closed(g, T, {a, t}) => y \in T
           S == {y \in Nodes(g) : Avoids(y)} \ {t}
<1>1. ASSUME NEW y \in S
      PROVE  ReachesAvoiding(g, b, y, a) /\ ReachesAvoiding(g, b, y, t)
  <2>1. ASSUME NEW T \in SUBSET Nodes(g), b \in T, Closed(g, T, {a}) \/ Closed(g, T, {t})
        PROVE  y \in T
    <3>1. Closed(g, T, {a, t})
      BY <2>1 DEF Closed
    <3>2. Avoids(y)
      OBVIOUS
    <3>3. QED
      BY <2>1, <3>1, <3>2
  <2>2. QED
    BY <2>1 DEF ReachesAvoiding
<1>2. b \in S
  OBVIOUS
<1>3. ASSUME NEW y \in S \ {a}, NEW z \in g.succ[y] PROVE z \in S
  <2>1. z \in Nodes(g)
    BY DEF Flow
  <2>2. Avoids(z)
    <3>1. SUFFICES ASSUME NEW T \in SUBSET Nodes(g), b \in T, Closed(g, T, {a, t})
                   PROVE  z \in T
      OBVIOUS
    <3>2. y \in T
      BY <3>1
    <3>3. QED
      BY <3>1, <3>2 DEF Closed
  <2>3. z # t
    <3> SUFFICES ASSUME z = t PROVE FALSE
      OBVIOUS
    <3>1. ReachesAvoiding(g, y, b, a)
      BY AvoidsOverEdge DEF Cycles
    <3>2. y \in Cycles(g, b, a)
      BY <1>1, <3>1 DEF Cycles
    <3> HIDE DEF Avoids
    <3>3. QED
      BY <1>1, <3>2
  <2>4. QED
    BY <2>1, <2>2, <2>3
<1> HIDE DEF Avoids
<1>4. S \in SUBSET Nodes(g) /\ Closed(g, S, {a})
  BY <1>3 DEF Closed
<1>5. ReachesAvoiding(g, b, t, a)
  BY DEF Cycles
<1>6. t \in S
  <2> HIDE DEF S
  <2>1. QED
    BY <1>2, <1>4, <1>5 DEF ReachesAvoiding
<1>7. QED
  BY <1>6

(* In a reducible graph each cycle has an edge back to the header of a     *)
(* loop around it.                                                         *)
LEMMA CycleHasLatch ==
  ASSUME NEW g, Flow(g), IsFiniteSet(Nodes(g)), Reducible(g),
         NEW a \in Nodes(g), NEW b \in Nodes(g), a # b,
         NEW n \in g.succ[b], ReachesAvoiding(g, n, b, a)
  PROVE  \E h \in Cycles(g, b, a) : \E l \in Cycles(g, b, a) :
           /\ h \in DOMAIN LoopInfo(g) /\ LoopInfo(g)[h] = LoopBody(g, h)
           /\ b \in LoopBody(g, h) /\ l \in Latches(g, h)
<1> DEFINE K == Cycles(g, b, a)
           F == Forward(g)
<1>1. a # b /\ n \in Nodes(g)
  BY DEF Flow
<1>2. b \in K
  BY <1>1, AvoidsSelf DEF Cycles
<1>3. ASSUME NEW t \in K PROVE \E p \in K : t \in g.succ[p]
  <2>1. CASE t # b
    BY <1>1, <2>1, Arrival
  <2>2. CASE t = b /\ n = b
    BY <1>2, <2>2
  <2>3. CASE t = b /\ n # b
    <3>1. PICK p \in Nodes(g) : p # a /\ b \in g.succ[p] /\ ReachesAvoiding(g, n, p, a)
      BY <1>1, <2>3, LastEdge DEF Flow
    <3>2. ReachesAvoiding(g, b, p, a)
      BY <1>1, <3>1, AvoidsOverEdge
    <3>3. ReachesAvoiding(g, p, b, a)
      BY <3>1, AvoidsSelf, AvoidsOverEdge
    <3>4. QED
      BY <2>3, <3>1, <3>2, <3>3 DEF Cycles
  <2>4. QED
    BY <2>1, <2>2, <2>3
<1>4. PICK t \in K : \A p \in K : t \notin F.succ[p]
  <2>1. /\ Nodes(F) = Nodes(g) /\ Acyclic(F)
        /\ F.succ \in [Nodes(F) -> SUBSET Nodes(F)]
    BY DEF Forward, WithEdges, Nodes, Reducible, Flow
  <2>2. K \in SUBSET Nodes(F) /\ K # {}
    BY <1>2, <2>1 DEF Cycles
  <2> HIDE DEF K, F
  <2>3. QED
    BY <2>1, <2>2, FirstNode
<1>5. ASSUME NEW p \in K, t \in g.succ[p] PROVE p \in Latches(g, t)
  <2>1. p \in Nodes(g) /\ F.succ[p] = {h \in g.succ[p] : ~IsBackEdge(g, p, h)}
    BY DEF Cycles, Forward, WithEdges
  <2>2. QED
    BY <1>4, <1>5, <2>1 DEF Latches
<1>6. t \in Nodes(g) /\ t \in DOMAIN LoopInfo(g) /\ LoopInfo(g)[t] = LoopBody(g, t)
  BY <1>3, <1>5 DEF Cycles, LoopInfo
<1>7. b \in LoopBody(g, t)
  <2>1. CASE t = b
    BY <2>1 DEF LoopBody
  <2>2. CASE t # b
    <3>1. PICK l \in K : l # t /\ t \in g.succ[l] /\ ReachesAvoiding(g, b, l, t)
      BY <1>1, <2>2, Arrival
    <3>2. l \in Latches(g, t) /\ Dominates(g, t, l)
      BY <1>5, <3>1 DEF Latches, IsBackEdge
    <3>3. ~ReachesAvoiding(g, g.entry, b, t)
      BY <3>1, <3>2, DominatesAvoids, AvoidsTransitive
    <3>4. Dominates(g, t, b)
      BY <2>2, <3>3, DominatesAvoids
    <3>5. QED
      BY <3>1, <3>2, <3>4 DEF LoopBody
  <2>3. QED
    BY <2>1, <2>2
<1>8. PICK l \in K : t \in g.succ[l]
  BY <1>3
<1>9. QED
  BY <1>5, <1>6, <1>7, <1>8

(* If it avoids a dominator of b, that is not in the loop.                 *)
LEMMA CycleIsLoop ==
  ASSUME NEW g, Flow(g), IsFiniteSet(Nodes(g)), Reducible(g),
         NEW a \in Nodes(g), NEW b \in Nodes(g), Dominates(g, a, b),
         NEW n \in g.succ[b], ReachesAvoiding(g, n, b, a)
  PROVE  \E h \in DOMAIN LoopInfo(g) : b \in LoopInfo(g)[h] /\ a \notin LoopInfo(g)[h]
<1>1. PICK t \in Cycles(g, b, a) :
        t \in DOMAIN LoopInfo(g) /\ LoopInfo(g)[t] = LoopBody(g, t) /\ b \in LoopBody(g, t)
  BY CycleHasLatch DEF Dominates
<1>2. a # t
  BY DEF Cycles
<1>3. ASSUME Dominates(g, t, a) PROVE FALSE
  <2>1. PICK S \in SUBSET Nodes(g) : g.entry \in S /\ Closed(g, S, {t}) /\ a \notin S
    BY <1>3 DEF Dominates
  <2>2. PICK T \in SUBSET Nodes(g) : g.entry \in T /\ Closed(g, T, {a}) /\ b \notin T
    BY DEF Dominates
  <2>3. t \notin T
    BY <2>2 DEF Cycles, ReachesAvoiding
  <2>4. Closed(g, S \cap T, {}) /\ g.entry \in S \cap T
    BY <2>1, <2>2, <2>3 DEF Closed
  <2>5. a \in S \cap T
    BY <2>4 DEF Flow, Proper, Reaches
  <2>6. QED
    BY <2>1, <2>5
<1>4. QED
  BY <1>1, <1>2, <1>3 DEF LoopBody
-----------------------------------------------------------------------------
(* Dominators.                                                             *)

LEMMA DominatesIsAntisymmetric ==
  ASSUME NEW g, Flow(g), NEW a \in Nodes(g), NEW b \in Nodes(g),
         Dominates(g, a, b), Dominates(g, b, a)
  PROVE  FALSE
<1>1. PICK S \in SUBSET Nodes(g) : g.entry \in S /\ Closed(g, S, {a}) /\ b \notin S
  BY DEF Dominates
<1>2. PICK T \in SUBSET Nodes(g) : g.entry \in T /\ Closed(g, T, {b}) /\ a \notin T
  BY DEF Dominates
<1>3. Closed(g, S \cap T, {}) /\ g.entry \in S \cap T
  BY <1>1, <1>2 DEF Closed
<1>4. a \in S \cap T
  BY <1>3 DEF Flow, Proper, Reaches
<1>5. QED
  BY <1>2, <1>4

LEMMA DominatesIsTransitive ==
  ASSUME NEW g, Flow(g), NEW a \in Nodes(g), NEW b \in Nodes(g), NEW c \in Nodes(g),
         Dominates(g, a, b), Dominates(g, b, c)
  PROVE  Dominates(g, a, c)
<1>1. PICK S \in SUBSET Nodes(g) : g.entry \in S /\ Closed(g, S, {a}) /\ b \notin S
  BY DEF Dominates
<1>2. PICK T \in SUBSET Nodes(g) : g.entry \in T /\ Closed(g, T, {b}) /\ c \notin T
  BY DEF Dominates
<1>3. Closed(g, S \cap T, {a}) /\ g.entry \in S \cap T /\ c \notin S \cap T
  BY <1>1, <1>2 DEF Closed
<1>4. a # c
  BY DominatesIsAntisymmetric
<1>5. QED
  BY <1>3, <1>4 DEF Dominates

\* Of two dominators of a node one dominates the other.
LEMMA DominatorsAreOrdered ==
  ASSUME NEW g, Flow(g), NEW a \in Nodes(g), NEW b \in Nodes(g), NEW c \in Nodes(g),
         a # b, Dominates(g, a, c), Dominates(g, b, c)
  PROVE  Dominates(g, a, b) \/ Dominates(g, b, a)
<1> SUFFICES ASSUME ~Dominates(g, a, b), ~Dominates(g, b, a) PROVE FALSE
  OBVIOUS
<1>1. PICK S \in SUBSET Nodes(g) : g.entry \in S /\ Closed(g, S, {a}) /\ c \notin S
  BY DEF Dominates
<1>2. PICK T \in SUBSET Nodes(g) : g.entry \in T /\ Closed(g, T, {b}) /\ c \notin T
  BY DEF Dominates
<1>3. b \in S /\ a \in T
  BY <1>1, <1>2 DEF Dominates
<1>4. Closed(g, S \cup T, {}) /\ g.entry \in S \cup T
  BY <1>1, <1>2, <1>3 DEF Closed
<1>5. c \in S \cup T
  BY <1>4 DEF Flow, Proper, Reaches
<1>6. QED
  BY <1>1, <1>2, <1>5

\* From a node to what it dominates no dominator of its own is passed.
LEMMA DominatedAvoids ==
  ASSUME NEW g, Flow(g), NEW a \in Nodes(g), NEW b \in Nodes(g), NEW c \in Nodes(g),
         Dominates(g, a, b), Dominates(g, b, c)
  PROVE  ReachesAvoiding(g, b, c, a)
<1> SUFFICES ASSUME NEW S \in SUBSET Nodes(g), b \in S, Closed(g, S, {a}), c \notin S
             PROVE  FALSE
  BY DEF ReachesAvoiding
<1>1. PICK T \in SUBSET Nodes(g) : g.entry \in T /\ Closed(g, T, {b}) /\ c \notin T
  BY DEF Dominates
<1>2. a \in T
  BY <1>1, DominatesIsAntisymmetric DEF Dominates
<1>3. a # b
  BY DEF Dominates
<1>4. Closed(g, S \cup T, {}) /\ g.entry \in S \cup T
  BY <1>1, <1>2, <1>3 DEF Closed
<1>5. c \in S \cup T
  BY <1>4 DEF Flow, Proper, Reaches
<1>6. QED
  BY <1>1, <1>5

\* Nor on a path to it that avoids the node.
LEMMA AvoidsDominator ==
  ASSUME NEW g, Flow(g), NEW a \in Nodes(g), NEW b \in Nodes(g), NEW c \in Nodes(g),
         NEW n \in Nodes(g), Dominates(g, a, b), Dominates(g, b, c), ReachesAvoiding(g, n, c, b)
  PROVE  ReachesAvoiding(g, n, c, a)
<1> SUFFICES ASSUME NEW S \in SUBSET Nodes(g), n \in S, Closed(g, S, {a}), c \notin S
             PROVE  FALSE
  BY DEF ReachesAvoiding
<1>1. a # b /\ ReachesAvoiding(g, g.entry, a, b) /\ ~ReachesAvoiding(g, g.entry, c, b)
  BY DominatesAvoids, DominatesIsAntisymmetric
<1>2. ~ReachesAvoiding(g, a, c, b)
  BY <1>1, AvoidsTransitive
<1>3. PICK T \in SUBSET Nodes(g) : a \in T /\ Closed(g, T, {b}) /\ c \notin T
  BY <1>2 DEF ReachesAvoiding
<1>4. Closed(g, S \cup T, {b}) /\ n \in S \cup T
  BY <1>1, <1>3 DEF Closed
<1>5. c \in S \cup T
  BY <1>4 DEF ReachesAvoiding
<1>6. QED
  BY <1>3, <1>5

-----------------------------------------------------------------------------
(* Natural loops.                                                          *)

\* What the body of a loop is, but for its header.
LEMMA InBody ==
  ASSUME NEW g, NEW h \in Nodes(g), NEW n
  PROVE  /\ h \in LoopBody(g, h)
         /\ n \in LoopBody(g, h) /\ n # h =>
              /\ n \in Nodes(g) /\ Dominates(g, h, n)
              /\ \E l \in Nodes(g) : /\ l # h /\ l \in Latches(g, h)
                                     /\ h \in g.succ[l] /\ Dominates(g, h, l)
                                     /\ ReachesAvoiding(g, n, l, h)
BY DEF LoopBody, Latches, IsBackEdge

LEMMA InnerBody ==
  ASSUME NEW g, Flow(g), NEW h \in Nodes(g), NEW k \in Nodes(g), Dominates(g, h, k),
         NEW n, n \in LoopBody(g, h), n \in LoopBody(g, k)
  PROVE  LoopBody(g, k) \subseteq LoopBody(g, h)
<1>1. h # k /\ ~Dominates(g, k, h)
  BY DominatesIsAntisymmetric DEF Dominates
<1>2. n # h
  BY <1>1, InBody
<1>3. PICK l \in Nodes(g) : /\ l # h /\ l \in Latches(g, h) /\ Dominates(g, h, l)
                            /\ ReachesAvoiding(g, n, l, h)
  BY <1>2, InBody
<1>4. ReachesAvoiding(g, k, n, h)
  BY InBody, AvoidsSelf, DominatedAvoids
<1>5. ReachesAvoiding(g, k, l, h)
  BY <1>3, <1>4, AvoidsTransitive
<1>6. k \in LoopBody(g, h)
  BY <1>3, <1>5 DEF LoopBody
<1>7. ASSUME NEW m \in LoopBody(g, k), m # k PROVE m \in LoopBody(g, h)
  <2>1. m \in Nodes(g) /\ Dominates(g, k, m) /\ Dominates(g, h, m)
    BY <1>7, InBody, DominatesIsTransitive
  <2>2. PICK o \in Nodes(g) : /\ o # k /\ k \in g.succ[o] /\ Dominates(g, k, o)
                              /\ ReachesAvoiding(g, m, o, k)
    BY <1>7, InBody
  <2>3. ReachesAvoiding(g, m, o, h)
    BY <2>1, <2>2, AvoidsDominator
  <2>4. ReachesAvoiding(g, o, k, h)
    BY <1>1, <2>2, AvoidsSelf, AvoidsOverEdge
  <2>5. ReachesAvoiding(g, m, l, h)
    BY <1>5, <2>3, <2>4, AvoidsTransitive
  <2>6. QED
    BY <1>3, <2>1, <2>5 DEF LoopBody
<1>8. QED
  BY <1>6, <1>7

(* Two loops around one node: one is in the other one.                     *)
LEMMA LoopsAreNested ==
  ASSUME NEW g, Flow(g), NEW h \in Nodes(g), NEW k \in Nodes(g),
         NEW n, n \in LoopBody(g, h), n \in LoopBody(g, k)
  PROVE  LoopBody(g, h) \subseteq LoopBody(g, k) \/ LoopBody(g, k) \subseteq LoopBody(g, h)
<1>1. h = k \/ Dominates(g, h, k) \/ Dominates(g, k, h)
  BY InBody, DominatorsAreOrdered
<1>2. QED
  BY <1>1, InnerBody

\* The loops of g with headers in L.
Loops(g, L) == [h \in L |-> LoopBody(g, h)]

LEMMA InnermostLoop ==
  ASSUME NEW g, Flow(g), IsFiniteSet(Nodes(g)), NEW L \in SUBSET Nodes(g), NEW n,
         NEW h \in L, n \in LoopBody(g, h)
  PROVE  LET i == LoopFor(Loops(g, L), n)
         IN  /\ i \in L /\ n \in LoopBody(g, i)
             /\ \A k \in L : n \in LoopBody(g, k) => LoopBody(g, i) \subseteq LoopBody(g, k)
<1> DEFINE around == {k \in L : n \in LoopBody(g, k)}
           size(k) == Cardinality(LoopBody(g, k))
           N == {size(k) : k \in around}
<1>1. \A k \in L : IsFiniteSet(LoopBody(g, k)) /\ size(k) \in Nat
  <2>1. \A k \in L : LoopBody(g, k) \subseteq Nodes(g)
    BY DEF LoopBody
  <2>2. QED
    BY <2>1, FS_Subset, FS_CardinalityType
<1>2. PICK s \in N : \A m \in N : s <= m
  <2>1. N \in SUBSET Nat /\ N # {}
    BY <1>1
  <2> HIDE DEF N
  <2>2. QED
    BY <2>1, LeastElement
<1>3. PICK j \in around : s = size(j)
  OBVIOUS
<1>4. ASSUME NEW k \in around PROVE LoopBody(g, j) \subseteq LoopBody(g, k)
  <2>1. LoopBody(g, j) \subseteq LoopBody(g, k) \/ LoopBody(g, k) \subseteq LoopBody(g, j)
    BY LoopsAreNested
  <2>2. CASE LoopBody(g, k) \subseteq LoopBody(g, j)
    <3>1. size(k) <= size(j) /\ (size(k) = size(j) => LoopBody(g, k) = LoopBody(g, j))
      BY <1>1, <2>2, FS_Subset
    <3>2. size(j) <= size(k)
      BY <1>2, <1>3
    <3>3. size(j) \in Nat /\ size(k) \in Nat
      BY <1>1
    <3> HIDE DEF size
    <3>4. QED
      BY <3>1, <3>2, <3>3
  <2>3. QED
    BY <2>1, <2>2
<1>5. around = {k \in DOMAIN Loops(g, L) : n \in Loops(g, L)[k]} /\ around # {}
  BY DEF Loops
<1>6. LoopFor(Loops(g, L), n) =
        CHOOSE i \in around : \A k \in around : Loops(g, L)[i] \subseteq Loops(g, L)[k]
  <2> HIDE DEF around
  <2>1. QED
    BY <1>5, Zenon DEF LoopFor, LoopsAround
<1>7. \A k \in around : Loops(g, L)[k] = LoopBody(g, k)
  BY DEF Loops
<1>8. j \in around /\ \A k \in around : Loops(g, L)[j] \subseteq Loops(g, L)[k]
  BY <1>4, <1>7
<1>9. LET i == LoopFor(Loops(g, L), n)
      IN  i \in around /\ \A k \in around : Loops(g, L)[i] \subseteq Loops(g, L)[k]
  <2> HIDE DEF around
  <2>1. QED
    BY <1>6, <1>8
<1>10. QED
  BY <1>7, <1>9

(* The innermost loop around a node is a loop with the node in it.         *)
LEMMA InnermostLoopOf ==
  ASSUME NEW g, Flow(g), IsFiniteSet(Nodes(g)), NEW n, LoopFor(LoopInfo(g), n) # nullptr
  PROVE  /\ LoopFor(LoopInfo(g), n) \in DOMAIN LoopInfo(g)
         /\ n \in LoopInfo(g)[LoopFor(LoopInfo(g), n)]
<1> DEFINE L == {h \in Nodes(g) : Latches(g, h) # {}}
<1>1. LoopInfo(g) = Loops(g, L)
  BY DEF LoopInfo, Loops
<1>2. PICK h \in DOMAIN LoopInfo(g) : n \in LoopInfo(g)[h]
  BY DEF LoopFor, LoopsAround
<1>3. h \in L /\ n \in LoopBody(g, h) /\ L \in SUBSET Nodes(g)
  BY <1>2 DEF LoopInfo
<1> HIDE DEF L
<1>4. LoopFor(Loops(g, L), n) \in L /\ n \in LoopBody(g, LoopFor(Loops(g, L), n))
  BY <1>3, InnermostLoop
<1>5. QED
  BY <1>1, <1>4 DEF Loops
-----------------------------------------------------------------------------
(* Brackets.  Outside of a bracket b is not reached before a, inside of it *)
(* a and the exit are not reached before b.                                *)

Outside(g, a, b, n) == ~ReachesAvoiding(g, n, b, a)

Inside(g, a, b, n) ==
  PostDominates(Iteration(g, a), b, n) /\ ~ReachesAvoiding(g, n, a, b)

(* A function starts outside of a bracket.                                 *)
LEMMA EntryIsOutside ==
  ASSUME NEW g, NEW a, NEW b, Encloses(g, a, b)
  PROVE  a # b /\ Outside(g, a, b, g.entry)
BY DominatesAvoids DEF Encloses, Outside

(* Outside of it only a leads in.                                          *)
LEMMA StaysOutside ==
  ASSUME NEW g, NEW a, NEW b, NEW m \in Nodes(g), Outside(g, a, b, m)
  PROVE  m # b /\ (m # a => \A n \in g.succ[m] : Outside(g, a, b, n))
BY AvoidsSelf, AvoidsOverEdge DEF Outside

(* From a to b no edge back of a loop around a is taken: that would be to  *)
(* leave before b.                                                         *)
LEMMA UntilEnd ==
  ASSUME NEW g, Flow(g), NEW a, NEW b, NEW m \in Nodes(g), m # b,
         PostDominates(Iteration(g, a), b, m), NEW n \in g.succ[m]
  PROVE  /\ PostDominates(Iteration(g, a), b, n)
         /\ ~(IsBackEdge(g, m, n) /\ a \in LoopBody(g, n))
<1> DEFINE G == Iteration(g, a)
<1>1. /\ Nodes(G) = Nodes(g) /\ G.exit = g.exit
      /\ G.succ[m] = {IF IsBackEdge(g, m, h) /\ a \in LoopBody(g, h) THEN g.exit ELSE h : h \in g.succ[m]}
  BY DEF Iteration, WithEdges, Nodes
<1>2. PICK S \in SUBSET Nodes(g) : m \in S /\ Closed(G, S, {b}) /\ g.exit \notin S
  BY <1>1 DEF PostDominates
<1>3. G.succ[m] \subseteq S
  BY <1>2 DEF Closed
<1>4. ~(IsBackEdge(g, m, n) /\ a \in LoopBody(g, n)) /\ n \in S
  BY <1>1, <1>2, <1>3
<1>5. PostDominates(G, b, n)
  BY <1>1, <1>2, <1>4 DEF PostDominates
<1>6. QED
  BY <1>4, <1>5

LEMMA UntilEndAvoids ==
  ASSUME NEW g, Flow(g), NEW a, NEW b, NEW m \in Nodes(g),
         PostDominates(Iteration(g, a), b, m), NEW n, ReachesAvoiding(g, m, n, b)
  PROVE  PostDominates(Iteration(g, a), b, n)
<1> DEFINE W == {x \in Nodes(g) : PostDominates(Iteration(g, a), b, x)}
<1>1. W \in SUBSET Nodes(g) /\ m \in W /\ Closed(g, W, {b})
  BY UntilEnd DEF Closed, Flow
<1>2. n \in W
  <2> HIDE DEF W
  <2>1. QED
    BY <1>1 DEF ReachesAvoiding
<1>3. QED
  BY <1>2

(* So a leads inside, and from there not to itself again before b: a cycle *)
(* through a has the edge back of a loop around a.                         *)
LEMMA StartLeadsInside ==
  ASSUME NEW g, Flow(g), IsFiniteSet(Nodes(g)), Reducible(g),
         NEW a \in Nodes(g), NEW b \in Nodes(g), Encloses(g, a, b), NEW n \in g.succ[a]
  PROVE  Inside(g, a, b, n)
<1>1. a # b /\ PostDominates(Iteration(g, a), b, n)
  BY UntilEnd DEF Encloses, Dominates
<1>2. ASSUME ReachesAvoiding(g, n, a, b) PROVE FALSE
  <2>1. PICK h \in Cycles(g, a, b), l \in Cycles(g, a, b) : a \in LoopBody(g, h) /\ l \in Latches(g, h)
    BY <1>1, <1>2, CycleHasLatch
  <2>2. l \in Nodes(g) /\ l # b /\ ReachesAvoiding(g, a, l, b)
    BY DEF Cycles
  <2>3. PostDominates(Iteration(g, a), b, l)
    BY <2>2, UntilEndAvoids DEF Encloses
  <2>4. h \in g.succ[l] /\ IsBackEdge(g, l, h)
    BY <2>1 DEF Latches
  <2>5. QED
    BY <2>1, <2>2, <2>3, <2>4, UntilEnd
<1>3. QED
  BY <1>1, <1>2 DEF Inside

LEMMA StaysInside ==
  ASSUME NEW g, Flow(g), NEW a, NEW b, NEW m \in Nodes(g), Inside(g, a, b, m)
  PROVE  /\ m # a /\ (m = g.exit => b = g.exit)
         /\ m # b => \A n \in g.succ[m] : Inside(g, a, b, n)
<1>1. m # a
  BY AvoidsSelf DEF Inside
<1>2. m = g.exit => b = g.exit
  BY DEF Inside, PostDominates, Iteration, WithEdges
<1>3. ASSUME m # b, NEW n \in g.succ[m] PROVE Inside(g, a, b, n)
  BY <1>3, UntilEnd, AvoidsOverEdge DEF Inside
<1>4. QED
  BY <1>1, <1>2, <1>3

(* And b leads outside: from there it is not reached again before a.       *)
LEMMA EndLeadsOutside ==
  ASSUME NEW g, Flow(g), IsFiniteSet(Nodes(g)), Reducible(g),
         NEW a \in Nodes(g), NEW b \in Nodes(g), Bracket(g, LoopInfo(g), a, b),
         NEW n \in g.succ[b]
  PROVE  Outside(g, a, b, n)
BY CycleIsLoop DEF Bracket, Encloses, LoopsAround, Outside

(* The node that leads from x to s but not in the same iteration: from the *)
(* header of a loop around s that a dominator of s is outside of.          *)
LEMMA LaterIsAround ==
  ASSUME NEW g, Flow(g), IsFiniteSet(Nodes(g)), NEW r \in Nodes(g), NEW s \in Nodes(g),
         Dominates(g, r, s), NEW x \in Nodes(g), ReachesAvoiding(g, x, s, r),
         ~Reaches(Iteration(g, s), x, s)
  PROVE  /\ LoopFor(LoopInfo(g), s) \in DOMAIN LoopInfo(g)
         /\ r \notin LoopInfo(g)[LoopFor(LoopInfo(g), s)]
<1> DEFINE once == Iteration(g, s)
           U == {y \in Nodes(g) : Reaches(once, x, y)}
           V == {y \in Nodes(g) : ~ReachesAvoiding(g, y, s, r)}
<1>1. /\ g.succ \in [Nodes(g) -> SUBSET Nodes(g)] /\ Nodes(once) = Nodes(g)
      /\ \A n \in Nodes(g) : once.succ[n] =
           {IF IsBackEdge(g, n, h) /\ s \in LoopBody(g, h) THEN g.exit ELSE h : h \in g.succ[n]}
  BY DEF Flow, Iteration, WithEdges, Nodes
<1>2. x \in U \cup V /\ s \notin U \cup V
  BY ReachesSelf, AvoidsSelf
<1>3. PICK p \in (U \cup V) \ {r} : \E h \in g.succ[p] : h \notin U \cup V
  BY <1>2 DEF ReachesAvoiding, Closed
<1>4. PICK h \in g.succ[p] : h \notin U \cup V
  BY <1>3
<1>5. p \in Nodes(g) /\ h \in Nodes(g) /\ ReachesAvoiding(g, h, s, r)
  BY <1>1, <1>4
<1>6. p \in U
  BY <1>3, <1>4, <1>5, AvoidsOverEdge
<1>7. IsBackEdge(g, p, h) /\ s \in LoopBody(g, h)
  <2> SUFFICES ASSUME h \in once.succ[p] PROVE FALSE
    BY <1>1, <1>4, <1>5
  <2>1. Reaches(once, p, h)
    BY <1>1, <1>5, ReachesOverEdge, ReachesSelf
  <2>2. Reaches(once, x, h)
    BY <1>6, <2>1, ReachesTransitive
  <2>3. QED
    BY <1>4, <1>5, <2>2
<1>8. h # r
  <2>1. ~ReachesAvoiding(g, r, s, r)
    <3>1. {r} \in SUBSET Nodes(g) /\ Closed(g, {r}, {r}) /\ s \notin {r}
      BY DEF Closed, Dominates
    <3>2. QED
      BY <3>1 DEF ReachesAvoiding
  <2>2. QED
    BY <1>5, <2>1
<1>9. Dominates(g, r, h)
  <2>1. ~ReachesAvoiding(g, g.entry, s, r)
    BY DominatesAvoids
  <2>2. QED
    BY <1>5, <1>8, <2>1, AvoidsTransitive, DominatesAvoids
<1>10. r \notin LoopBody(g, h)
  BY <1>5, <1>8, <1>9, InBody, DominatesIsAntisymmetric
<1>11. h \in DOMAIN LoopInfo(g)
  BY <1>4, <1>5, <1>7 DEF LoopInfo, Latches
<1>12. LoopInfo(g) = Loops(g, DOMAIN LoopInfo(g)) /\ DOMAIN LoopInfo(g) \in SUBSET Nodes(g)
  BY DEF LoopInfo, Loops
<1>13. LET i == LoopFor(LoopInfo(g), s)
       IN  i \in DOMAIN LoopInfo(g) /\ LoopBody(g, i) \subseteq LoopBody(g, h)
  BY <1>7, <1>11, <1>12, InnermostLoop
<1>14. QED
  BY <1>10, <1>13 DEF LoopInfo
-----------------------------------------------------------------------------
(* The order of two instructions.                                          *)

LEMMA FirstReaches ==
  ASSUME NEW g, Flow(g), NEW a \in Nodes(g), NEW b \in Nodes(g)
  PROVE  /\ get_first_of_two(Analysis(g), a, b) \in {a, b, nullptr}
         /\ get_first_of_two(Analysis(g), a, b) = a => Reaches(g, a, b)
         /\ get_first_of_two(Analysis(g), a, b) = b => Reaches(g, b, a)
<1> DEFINE an == Analysis(g)
<1>1. a \in an.pdomtree[b] <=> PostDominates(g, b, a)
  BY DEF Analysis
<1>2. b \in an.pdomtree[a] <=> PostDominates(g, a, b)
  BY DEF Analysis
<1>3. b \in an.domtree[a] <=> Dominates(g, a, b)
  BY DEF Analysis
<1>4. a \in an.domtree[b] <=> Dominates(g, b, a)
  BY DEF Analysis
<1>5. PostDominates(g, b, a) \/ Dominates(g, a, b) => Reaches(g, a, b)
  BY DominatorReaches, PostDominatorIsReached DEF Flow, Proper
<1>6. PostDominates(g, a, b) \/ Dominates(g, b, a) => Reaches(g, b, a)
  BY DominatorReaches, PostDominatorIsReached DEF Flow, Proper
<1> QED
  BY <1>1, <1>2, <1>3, <1>4, <1>5, <1>6 DEF get_first_of_two, Flow

\* Without loops, one of two different nodes at most is reached from the other.
LEMMA AcyclicOrder ==
  ASSUME NEW g, Flow(g), Acyclic(g), NEW a \in Nodes(g), NEW b \in Nodes(g),
         Reaches(g, a, b)
  PROVE  ~Follows(g, b, a)
<1> SUFFICES ASSUME Follows(g, b, a) PROVE FALSE
  OBVIOUS
<1>1. Follows(g, a, a)
  BY FollowsAfterReaches DEF Flow
<1> QED BY <1>1 DEF Acyclic
-----------------------------------------------------------------------------
(* The scan.                                                               *)

LEMMA CallIsFlow ==
  ASSUME OrderTypeOK
  PROVE  /\ Flow(call.graph) /\ analysis = Analysis(call.graph)
         /\ inst_list \in Seq(Nodes(call.graph)) /\ direction \in {"first", "last"}
BY OrderAssumption DEF OrderTypeOK, Flow, AnalysisOf, inst_list, direction

\* A list that is not empty has a candidate until the scan gives it up.
HasCandidate ==
  at # "return" => inst_list # <<>> /\ current_instruction \in Nodes(call.graph)

ScanTypes == OrderTypeOK /\ HasCandidate

LEMMA InitTypes == ScanInit => ScanTypes
<1> SUFFICES ASSUME ScanInit PROVE ScanTypes
  OBVIOUS
<1>1. inst_list \in Seq(Nodes(call.graph))
  BY OrderAssumption DEF ScanInit, inst_list
<1>2. inst_list # <<>> => inst_list[1] \in Nodes(call.graph) /\ Len(inst_list) \in Nat \ {0}
  BY <1>1
<1> QED
  BY <1>1, <1>2 DEF ScanInit, ScanTypes, OrderTypeOK, HasCandidate

LEMMA NextTypes == ScanTypes /\ [ScanNext]_scanVars => ScanTypes'
<1> SUFFICES ASSUME ScanTypes, [ScanNext]_scanVars PROVE ScanTypes'
  OBVIOUS
<1> USE DEF ScanTypes, OrderTypeOK, HasCandidate
<1>1. inst_list \in Seq(Nodes(call.graph)) /\ Len(inst_list) \in Nat
  BY CallIsFlow
<1>2. CASE Scan
  <2>1. inst_list[it] \in Nodes(call.graph)
    BY <1>1, <1>2 DEF Scan
  <2> QED BY <1>1, <1>2, <2>1 DEF Scan, inst_list
<1>3. CASE ScanEnds
  BY <1>1, <1>3 DEF ScanEnds, inst_list
<1>4. CASE Recheck
  BY <1>1, <1>4 DEF Recheck, inst_list
<1>5. CASE RecheckEnds
  BY <1>1, <1>5 DEF RecheckEnds, inst_list
<1>6. CASE UNCHANGED scanVars
  BY <1>6 DEF scanVars, inst_list
<1> QED
  BY <1>2, <1>3, <1>4, <1>5, <1>6 DEF ScanNext, ScanReturned

(* The scan's state is of the types the C++ code declares, and the         *)
(* candidate is an instruction of the list's function until it is given up *)
(* (get_first_instruction, get_last_instruction).                          *)
THEOREM OrderTypes == ScanSpec => []OrderTypeOK
<1>1. ScanTypes => OrderTypeOK
  BY DEF ScanTypes
<1> QED
  BY <1>1, InitTypes, NextTypes, PTL DEF ScanSpec

-----------------------------------------------------------------------------
(* What the comparisons prove is true of the executions.                   *)

LEMMA ProvenOrder ==
  ASSUME OrderTypeOK PROVE ProvenOrderHolds
<1> DEFINE g == call.graph
<1> SUFFICES ASSUME Acyclic(g), NEW a \in Nodes(g), NEW b \in Nodes(g),
                    get_first_of_two(analysis, a, b) = a, a # b
             PROVE  ~Before(b, a) /\ get_first_of_two(analysis, b, a) = a
  BY DEF ProvenOrderHolds
<1>1. Flow(g) /\ analysis = Analysis(g)
  BY CallIsFlow
<1>2. Reaches(g, a, b)
  BY <1>1, FirstReaches
<1>3. ~Before(b, a)
  BY <1>1, <1>2, AcyclicOrder DEF Before
<1>4. ~Reaches(g, b, a)
  BY <1>1, <1>3, ReachesFollows DEF Before, Flow
<1>5. get_first_of_two(analysis, b, a) # b
  BY <1>1, <1>4, FirstReaches
<1>6. get_first_of_two(analysis, b, a) # nullptr
  BY <1>1 DEF get_first_of_two, Flow
<1> QED
  BY <1>1, <1>3, <1>5, <1>6, FirstReaches

(* In a function without loops the order of two instructions that          *)
(* get_first_instruction(A, B) proves is the order of every execution, and *)
(* it does not depend on which one is asked about first.                   *)
THEOREM ProvenOrderIsExecutionOrder == ScanSpec => []ProvenOrderHolds
BY OrderTypes, ProvenOrder, PTL

-----------------------------------------------------------------------------
(* The candidate is extreme among the elements that have been compared.    *)

\* x may not stand on the far side of the candidate.
Within(c, x) == IF direction = "first" THEN ~Before(x, c) ELSE ~Before(c, x)

Scanned == {k \in DOMAIN inst_list : k < it \/ at = "return"}

CandidateInv ==
  Acyclic(call.graph) /\ is_viable =>
    /\ at # "recheck"
    /\ \A k \in Scanned : Within(current_instruction, inst_list[k])

LEMMA ScanKeepsCandidate ==
  ASSUME ScanTypes, CandidateInv, Scan PROVE CandidateInv'
<1> DEFINE g == call.graph
           c == current_instruction
           x == inst_list[it]
           d == current_instruction'
<1> SUFFICES ASSUME Acyclic(g), is_viable'
             PROVE  \A k \in DOMAIN inst_list : k <= it => Within(d, inst_list[k])
  BY DEF CandidateInv, Scanned, Scan, Within, Before, ScanTypes, OrderTypeOK,
         inst_list, direction
<1>1. /\ Flow(g) /\ analysis = Analysis(g)
      /\ inst_list \in Seq(Nodes(g)) /\ direction \in {"first", "last"}
  BY CallIsFlow DEF ScanTypes
<1>2. c \in Nodes(g) /\ x \in Nodes(g)
  BY <1>1 DEF ScanTypes, HasCandidate, Scan, OrderTypeOK
<1>3. is_viable /\ get_first_of_two(analysis, c, x) # nullptr
  BY DEF Scan
<1>4. \A k \in DOMAIN inst_list : k < it => Within(c, inst_list[k])
  BY <1>3 DEF CandidateInv, Scanned
<1>5. /\ Reaches(g, c, x) \/ Reaches(g, x, c)
      /\ d \in {c, x}
      /\ direction = "first" => Reaches(g, d, c) /\ Reaches(g, d, x)
      /\ direction = "last" => Reaches(g, c, d) /\ Reaches(g, x, d)
  BY <1>1, <1>2, <1>3, FirstReaches, ReachesSelf DEF Scan, Replaces
<1>6. d \in Nodes(g)
  BY <1>2, <1>5
<1>7. Within(d, x)
  BY <1>1, <1>2, <1>5, <1>6, AcyclicOrder DEF Within, Before
<1>8. ASSUME NEW k \in DOMAIN inst_list, Within(c, inst_list[k])
      PROVE  Within(d, inst_list[k])
  <2>1. inst_list[k] \in Nodes(g)
    BY <1>1
  <2>2. CASE direction = "first"
    <3> SUFFICES ASSUME Before(inst_list[k], d) PROVE Before(inst_list[k], c)
      BY <1>8, <2>2 DEF Within
    <3> QED
      BY <1>1, <1>2, <1>5, <1>6, <2>1, <2>2, FollowsBeforeReaches DEF Before, Flow
  <2>3. CASE direction = "last"
    <3> SUFFICES ASSUME Before(d, inst_list[k]) PROVE Before(c, inst_list[k])
      BY <1>1, <1>8, <2>3 DEF Within
    <3> QED
      BY <1>1, <1>2, <1>5, <1>6, <2>1, <2>3, FollowsAfterReaches DEF Before, Flow
  <2> QED BY <1>1, <2>2, <2>3
<1> SUFFICES ASSUME NEW k \in DOMAIN inst_list, k <= it
             PROVE  Within(d, inst_list[k])
  OBVIOUS
<1>9. k < it \/ k = it
  BY <1>1 DEF ScanTypes, OrderTypeOK
<1> QED
  BY <1>4, <1>7, <1>8, <1>9

LEMMA NextKeepsCandidate ==
  ScanTypes /\ CandidateInv /\ [ScanNext]_scanVars => CandidateInv'
<1> SUFFICES ASSUME ScanTypes, CandidateInv, [ScanNext]_scanVars PROVE CandidateInv'
  OBVIOUS
<1> USE DEF CandidateInv, Scanned, Within, Before, inst_list, direction
<1>1. CASE Scan
  BY <1>1, ScanKeepsCandidate
<1>2. CASE ScanEnds
  BY <1>2 DEF ScanEnds, ScanTypes, OrderTypeOK
<1>3. CASE Recheck
  BY <1>3 DEF Recheck
<1>4. CASE RecheckEnds
  BY <1>4 DEF RecheckEnds
<1>5. CASE UNCHANGED scanVars
  BY <1>5 DEF scanVars
<1> QED
  BY <1>1, <1>2, <1>3, <1>4, <1>5 DEF ScanNext, ScanReturned

LEMMA InitCandidate == ScanInit => CandidateInv
<1> SUFFICES ASSUME ScanInit, Acyclic(call.graph),
                    NEW k \in DOMAIN inst_list, k < 2 \/ at = "return"
             PROVE  at # "recheck" /\ Within(current_instruction, inst_list[k])
  BY DEF ScanInit, CandidateInv, Scanned
<1>1. ScanTypes
  BY InitTypes
<1>2. inst_list \in Seq(Nodes(call.graph)) /\ Flow(call.graph)
  BY <1>1, CallIsFlow DEF ScanTypes
<1>3. at = "scan" /\ k = 1 /\ current_instruction = inst_list[1]
  BY <1>2 DEF ScanInit
<1>4. inst_list[1] \in Nodes(call.graph)
  BY <1>2, <1>3
<1> QED
  BY <1>3, <1>4 DEF Within, Before, Acyclic

(* In a function without loops the scan never keeps a candidate that an    *)
(* element it has seen precedes (follows, for the last instruction), as    *)
(* long as every comparison found an order; then it returns an instruction *)
(* that is first (last) in every execution.                                *)
THEOREM ScanKeepsExtreme == ScanSpec => []ViableCandidateIsExtreme
<1>1. CandidateInv => ViableCandidateIsExtreme
  BY DEF CandidateInv, ViableCandidateIsExtreme, Scanned, Within
<1> QED
  BY <1>1, InitTypes, NextTypes, InitCandidate, NextKeepsCandidate, PTL DEF ScanSpec

-----------------------------------------------------------------------------
(* What the loops compute.                                                 *)

(* Induction on a set of numbers.                                          *)
LEMMA AllNaturals ==
  ASSUME NEW T \in SUBSET Nat, 0 \in T, \A n \in T : n + 1 \in T
  PROVE  T = Nat
<1> SUFFICES ASSUME Nat \ T # {} PROVE FALSE
  OBVIOUS
<1>1. PICK n \in Nat \ T : \A m \in Nat \ T : n <= m
  BY LeastElement
<1>2. n # 0 /\ n - 1 \in T
  BY <1>1
<1>3. (n - 1) + 1 \in T
  BY <1>2
<1>4. QED
  BY <1>1, <1>3

LEMMA UpTo ==
  ASSUME NEW n \in Nat, NEW S, 0 \in S, \A i \in 0 .. n - 1 : i \in S => i + 1 \in S
  PROVE  \A i \in 0 .. n : i \in S
<1> DEFINE T == {i \in Nat : i <= n => i \in S}
<1>1. T \in SUBSET Nat /\ 0 \in T /\ \A i \in T : i + 1 \in T
  OBVIOUS
<1>2. T = Nat
  <2> HIDE DEF T
  <2>1. QED
    BY <1>1, AllNaturals
<1>3. QED
  BY <1>2

(* A function on 0 .. n that starts with init and takes the next value     *)
(* from turn exists.                                                       *)
StepsExist(n, T, init, turn) ==
  \E f \in [0 .. n -> T] :
    f[0] = init /\ \A i \in 1 .. n : f[i] = turn[<<i, f[i - 1]>>]

LEMMA StepByStep ==
  ASSUME NEW n \in Nat, NEW T, NEW init \in T, NEW turn \in [(1 .. n) \X T -> T]
  PROVE  StepsExist(n, T, init, turn)
<1> DEFINE D(k, f) == /\ f \in [0 .. k -> T]
                      /\ f[0] = init
                      /\ \A i \in 1 .. k : f[i] = turn[<<i, f[i - 1]>>]
           S == {k \in Nat : \E f : D(k, f)}
<1>1. 0 \in S
  <2>1. D(0, [i \in 0 .. 0 |-> init])
    OBVIOUS
  <2>2. QED
    BY <2>1
<1>2. ASSUME NEW k \in 0 .. n - 1, k \in S PROVE k + 1 \in S
  <2>1. PICK f : D(k, f)
    BY <1>2
  <2> DEFINE next == turn[<<k + 1, f[k]>>]
             h == [i \in 0 .. k + 1 |-> IF i = k + 1 THEN next ELSE f[i]]
  <2>2. next \in T
    <3>1. k + 1 \in 1 .. n /\ f[k] \in T
      BY <2>1
    <3>2. QED
      BY <3>1
  <2> HIDE DEF next
  <2>3. h \in [0 .. k + 1 -> T] /\ h[0] = init
    BY <2>1, <2>2
  <2>4. ASSUME NEW i \in 1 .. k + 1 PROVE h[i] = turn[<<i, h[i - 1]>>]
    <3>1. CASE i = k + 1
      <4>1. h[i] = next /\ h[i - 1] = f[k]
        BY <3>1
      <4>2. QED
        BY <3>1, <4>1 DEF next
    <3>2. CASE i # k + 1
      <4>1. i \in 1 .. k /\ h[i] = f[i] /\ h[i - 1] = f[i - 1]
        BY <3>2
      <4>2. QED
        BY <2>1, <4>1
    <3>3. QED
      BY <3>1, <3>2
  <2> HIDE DEF h
  <2>5. D(k + 1, h)
    BY <2>3, <2>4
  <2> HIDE DEF D
  <2>6. k + 1 \in Nat
    OBVIOUS
  <2>7. QED
    BY <2>5, <2>6
<1>3. \A k \in 0 .. n : k \in S
  <2> HIDE DEF S
  <2>1. QED
    BY <1>1, <1>2, UpTo
<1>4. PICK f : D(n, f)
  BY <1>3
<1>5. QED
  BY <1>4 DEF StepsExist

(* The recursive definition of the candidates has a solution.              *)
LEMMA CandidatesEquation ==
  ASSUME NEW an, NEW dir, NEW S, NEW list \in Seq(S)
  PROVE  LET c == Candidates(an, dir, list)
         IN  /\ list # <<>> => c[1] = list[1]
             /\ \A k \in 2 .. Len(list) :
                  c[k] = IF Replaces(an, dir, c[k - 1], list[k]) THEN list[k] ELSE c[k - 1]
<1> DEFINE Step(k, x) == IF Replaces(an, dir, x, list[k]) THEN list[k] ELSE x
           D(n, f) == f = [k \in 1 .. n |-> IF k = 1 THEN list[1] ELSE Step(k, f[k - 1])]
           T == {n \in Nat : \E f : D(n, f)}
<1>1. 0 \in T
  <2>1. D(0, [k \in 1 .. 0 |-> 0])
    OBVIOUS
  <2>2. QED
    BY <2>1
<1>2. ASSUME NEW n \in T PROVE n + 1 \in T
  <2>1. PICK f : D(n, f)
    OBVIOUS
  <2> DEFINE next == IF n + 1 = 1 THEN list[1] ELSE Step(n + 1, f[n])
             h == [k \in 1 .. n + 1 |-> IF k = n + 1 THEN next ELSE f[k]]
  <2> HIDE DEF Step, next
  <2>2. ASSUME NEW k \in 1 .. n + 1
        PROVE  h[k] = IF k = 1 THEN list[1] ELSE Step(k, h[k - 1])
    <3>1. CASE k = n + 1
      <4>1. k # 1 => h[k - 1] = f[n]
        BY <3>1
      <4>2. QED
        BY <3>1, <4>1 DEF next
    <3>2. CASE k # n + 1
      <4>1. k \in 1 .. n /\ h[k] = f[k] /\ (k # 1 => h[k - 1] = f[k - 1])
        BY <3>2
      <4>2. f[k] = IF k = 1 THEN list[1] ELSE Step(k, f[k - 1])
        BY <2>1, <4>1
      <4>3. QED
        BY <4>1, <4>2
    <3>3. QED
      BY <3>1, <3>2
  <2>3. D(n + 1, h)
    BY <2>2
  <2> HIDE DEF D, h
  <2>4. QED
    BY <2>3
<1>3. T = Nat
  <2>1. T \in SUBSET Nat
    OBVIOUS
  <2> HIDE DEF T
  <2>2. QED
    BY <1>1, <1>2, <2>1, AllNaturals
<1>4. \E f : D(Len(list), f)
  BY <1>3
<1>5. D(Len(list), Candidates(an, dir, list))
  <2> HIDE DEF T
  <2>1. Candidates(an, dir, list) = CHOOSE f : D(Len(list), f)
    BY DEF Candidates
  <2> HIDE DEF D
  <2>2. QED
    BY <1>4, <2>1
<1>6. QED
  BY <1>5

(* The extreme of a list is one of its elements, if there is one; there is *)
(* one when every two elements are ordered.                                *)
LEMMA ExtremeIsElement ==
  ASSUME NEW an, NEW dir, NEW S, NEW list \in Seq(S)
  PROVE  /\ ExtremeOf(an, dir, list) \in S \cup {nullptr}
         /\ list # <<>> /\ (\A a, b \in S : get_first_of_two(an, a, b) # nullptr)
              => ExtremeOf(an, dir, list) \in S
<1> DEFINE c == Candidates(an, dir, list)
           K == {i \in Nat : i + 1 <= Len(list) => c[i + 1] \in S}
<1>1. CASE list = <<>>
  BY <1>1 DEF ExtremeOf
<1>2. CASE list # <<>>
  <2>1. Len(list) \in Nat /\ Len(list) > 0 /\ \A i \in 1 .. Len(list) : list[i] \in S
    BY <1>2
  <2>2. /\ c[1] = list[1]
        /\ \A k \in 2 .. Len(list) :
             c[k] = IF Replaces(an, dir, c[k - 1], list[k]) THEN list[k] ELSE c[k - 1]
    BY <1>2, CandidatesEquation
  <2> HIDE DEF c
  <2>3. 0 \in K
    BY <2>1, <2>2
  <2>4. ASSUME NEW i \in K PROVE i + 1 \in K
    <3> SUFFICES ASSUME i + 2 <= Len(list) PROVE c[i + 2] \in S
      OBVIOUS
    <3>1. c[i + 1] \in S /\ i + 2 \in 2 .. Len(list) /\ (i + 2) - 1 = i + 1
      BY <2>1
    <3>2. list[i + 2] \in S
      BY <2>1, <3>1
    <3>3. c[i + 2] = list[i + 2] \/ c[i + 2] = c[i + 1]
      BY <2>2, <3>1
    <3>4. QED
      BY <3>1, <3>2, <3>3
  <2>5. K = Nat
    <3>1. K \in SUBSET Nat
      OBVIOUS
    <3> HIDE DEF K
    <3>2. QED
      BY <2>3, <2>4, <3>1, AllNaturals
  <2>6. ASSUME NEW k \in 1 .. Len(list) PROVE c[k] \in S
    <3>1. k - 1 \in Nat /\ (k - 1) + 1 = k
      BY <2>1
    <3>2. k - 1 \in K
      BY <2>5, <3>1
    <3>3. QED
      BY <2>1, <3>1, <3>2
  <2> HIDE DEF K
  <2>7. Len(list) \in 1 .. Len(list)
    BY <2>1
  <2>8. ExtremeOf(an, dir, list) \in {nullptr, c[Len(list)]}
    BY DEF ExtremeOf, c
  <2>9. ASSUME \A a, b \in S : get_first_of_two(an, a, b) # nullptr
        PROVE  ExtremeOf(an, dir, list) = c[Len(list)]
    <3>1. \A k \in 2 .. Len(list) : get_first_of_two(an, c[k - 1], list[k]) # nullptr
      <4>1. ASSUME NEW k \in 2 .. Len(list) PROVE c[k - 1] \in S /\ list[k] \in S
        <5>1. k - 1 \in 1 .. Len(list) /\ k \in 1 .. Len(list)
          BY <2>1
        <5>2. QED
          BY <2>1, <2>6, <5>1
      <4>2. QED
        BY <2>9, <4>1
    <3>2. QED
      BY <1>2, <3>1 DEF ExtremeOf, c
  <2>10. QED
    BY <2>6, <2>7, <2>8, <2>9
<1>3. QED
  BY <1>1, <1>2

(* All elements can be reached from the first one when every two elements  *)
(* are ordered, in whatever order they are in the list.                    *)
LEMMA FirstReachesAll ==
  ASSUME NEW g, Flow(g), NEW S \in SUBSET Nodes(g), NEW list \in Seq(S),
         \A a, b \in S : get_first_of_two(Analysis(g), a, b) # nullptr,
         NEW i \in 1 .. Len(list)
  PROVE  /\ ExtremeOf(Analysis(g), "first", list) \in S
         /\ Reaches(g, ExtremeOf(Analysis(g), "first", list), list[i])
<1> DEFINE an == Analysis(g)
           n == Len(list)
           c == Candidates(an, "first", list)
           Good(k) == c[k] \in S /\ \A j \in 1 .. k : Reaches(g, c[k], list[j])
           K == {k \in 0 .. n - 1 : Good(k + 1)}
<1>1. n \in Nat /\ n > 0 /\ list # <<>> /\ \A k \in 1 .. n : list[k] \in S
  OBVIOUS
<1>2. /\ c[1] = list[1]
      /\ \A k \in 2 .. n :
           c[k] = IF Replaces(an, "first", c[k - 1], list[k]) THEN list[k] ELSE c[k - 1]
  BY <1>1, CandidatesEquation
<1> HIDE DEF an, c, n
<1>3. Good(1)
  <2>1. list[1] \in S
    BY <1>1
  <2>2. QED
    BY <1>2, <2>1, ReachesSelf
<1>4. ASSUME NEW k \in 1 .. n - 1, Good(k) PROVE Good(k + 1)
  <2>1. k + 1 \in 2 .. n /\ k + 1 \in 1 .. n /\ (k + 1) - 1 = k
    BY <1>1
  <2> DEFINE x == list[k + 1]
             d == c[k + 1]
  <2>2. x \in S /\ c[k] \in S /\ x \in Nodes(g) /\ c[k] \in Nodes(g)
    BY <1>1, <1>4, <2>1
  <2>3. d = IF Replaces(an, "first", c[k], x) THEN x ELSE c[k]
    BY <1>2, <2>1
  <2> HIDE DEF d, x
  <2>4. /\ get_first_of_two(an, c[k], x) \in {c[k], x}
        /\ get_first_of_two(an, c[k], x) = c[k] => Reaches(g, c[k], x)
        /\ get_first_of_two(an, c[k], x) = x => Reaches(g, x, c[k])
    BY <2>2, FirstReaches DEF an
  <2>5. get_first_of_two(an, c[k], x) # nullptr
    BY <2>2 DEF an
  <2>6. d \in S /\ Reaches(g, d, c[k]) /\ Reaches(g, d, x)
    BY <2>2, <2>3, <2>4, <2>5, ReachesSelf DEF Replaces
  <2>7. ASSUME NEW j \in 1 .. k + 1 PROVE Reaches(g, d, list[j])
    <3>1. CASE j = k + 1
      BY <2>6, <3>1 DEF x
    <3>2. CASE j # k + 1
      <4>1. j \in 1 .. k
        BY <3>2
      <4>2. Reaches(g, c[k], list[j])
        BY <1>4, <4>1
      <4>3. QED
        BY <2>6, <4>2, ReachesTransitive
    <3>3. QED
      BY <3>1, <3>2
  <2>8. QED
    BY <2>6, <2>7 DEF d
<1>5. ASSUME NEW k \in 1 .. n PROVE Good(k)
  <2> HIDE DEF Good
  <2>1. 0 \in K
    BY <1>1, <1>3
  <2>2. ASSUME NEW m \in 0 .. (n - 1) - 1, m \in K PROVE m + 1 \in K
    <3>1. m + 1 \in 1 .. n - 1 /\ m + 1 \in 0 .. n - 1 /\ Good(m + 1)
      BY <1>1, <2>2
    <3>2. Good((m + 1) + 1)
      BY <1>4, <3>1
    <3>3. QED
      BY <3>1, <3>2
  <2> HIDE DEF K
  <2>3. n - 1 \in Nat /\ k - 1 \in 0 .. n - 1 /\ (k - 1) + 1 = k
    BY <1>1
  <2>4. k - 1 \in K
    BY <2>1, <2>2, <2>3, UpTo
  <2>5. QED
    BY <2>3, <2>4 DEF K
<1>6. ExtremeOf(an, "first", list) = c[n]
  <2>1. ASSUME NEW k \in 2 .. n PROVE get_first_of_two(an, c[k - 1], list[k]) # nullptr
    <3>1. k \in 1 .. n /\ k - 1 \in 1 .. n
      BY <1>1
    <3>2. list[k] \in S /\ c[k - 1] \in S
      BY <1>1, <1>5, <3>1
    <3>3. QED
      BY <3>2 DEF an
  <2>2. QED
    BY <1>1, <2>1 DEF ExtremeOf, c, n
<1>7. Good(n)
  BY <1>1, <1>5
<1>8. QED
  BY <1>6, <1>7 DEF an, n

(* Post-dominance composes like dominance.                                 *)
LEMMA PostDominatesIsTransitive ==
  ASSUME NEW g, NEW a, NEW b, NEW c, PostDominates(g, b, a), PostDominates(g, c, b)
  PROVE  PostDominates(g, c, a)
<1>1. CASE a = b \/ b = c
  BY <1>1
<1>2. CASE a # b /\ b # c
  <2>1. PICK S \in SUBSET Nodes(g) : a \in S /\ Closed(g, S, {b}) /\ g.exit \notin S
    BY <1>2 DEF PostDominates
  <2>2. PICK T \in SUBSET Nodes(g) : b \in T /\ Closed(g, T, {c}) /\ g.exit \notin T
    BY <1>2 DEF PostDominates
  <2>3. Closed(g, S \cup T, {c})
    BY <1>2, <2>1, <2>2 DEF Closed
  <2>4. QED
    BY <2>1, <2>2, <2>3 DEF PostDominates
<1>3. QED
  BY <1>1, <1>2

-----------------------------------------------------------------------------
(* The last one of instructions that are in one order.                     *)

\* a comes first, for get_first_instruction(a, b).
IsBefore(g, a, b) == get_first_of_two(Analysis(g), a, b) = a

\* Any two can be ordered, whichever of them is asked about first.
InOneOrder(g, V) ==
  \A a, b \in V : a # b =>
    /\ get_first_of_two(Analysis(g), a, b) # nullptr
    /\ get_first_of_two(Analysis(g), a, b) = get_first_of_two(Analysis(g), b, a)

\* What the answer says of the trees.
LEMMA BeforeInTrees ==
  ASSUME NEW g, NEW a \in Nodes(g), NEW b \in Nodes(g)
  PROVE  /\ Dominates(g, a, b) \/ PostDominates(g, b, a) => IsBefore(g, a, b)
         /\ IsBefore(g, a, a)
         /\ get_first_of_two(Analysis(g), a, b) \in {a, b, nullptr}
<1>1. /\ b \in Analysis(g).domtree[a] <=> Dominates(g, a, b)
      /\ a \in Analysis(g).pdomtree[b] <=> PostDominates(g, b, a)
      /\ a \in Analysis(g).pdomtree[a]
  BY DEF Analysis, PostDominates
<1>2. QED
  BY <1>1 DEF IsBefore, get_first_of_two

\* In one order, the answer that one of two comes first is what the trees say.
LEMMA BeforeInOneOrder ==
  ASSUME NEW g, NEW V \in SUBSET Nodes(g), nullptr \notin V, InOneOrder(g, V),
         NEW a \in V, NEW b \in V, a # b
  PROVE  /\ IsBefore(g, a, b) <=> ~IsBefore(g, b, a)
         /\ IsBefore(g, a, b) => Dominates(g, a, b) \/ PostDominates(g, b, a)
         /\ get_first_of_two(Analysis(g), a, b) \in {a, b}
<1>1. /\ \A x, y \in Nodes(g) : /\ y \in Analysis(g).domtree[x] <=> Dominates(g, x, y)
                                /\ x \in Analysis(g).pdomtree[y] <=> PostDominates(g, y, x)
  BY DEF Analysis
<1>2. a \in Nodes(g) /\ b \in Nodes(g)
  OBVIOUS
<1>3. /\ get_first_of_two(Analysis(g), a, b) # nullptr
      /\ get_first_of_two(Analysis(g), a, b) = get_first_of_two(Analysis(g), b, a)
  BY DEF InOneOrder
<1>4. QED
  BY <1>1, <1>2, <1>3 DEF IsBefore, get_first_of_two

(* Answers that do not depend on which of the two is asked about first are *)
(* transitive: of three that go in a circle, two that follow each other    *)
(* come from the same tree.                                                *)
LEMMA OneOrderIsTransitive ==
  ASSUME NEW g, Flow(g), NEW V \in SUBSET Nodes(g), nullptr \notin V, InOneOrder(g, V),
         NEW a \in V, NEW b \in V, NEW c \in V, IsBefore(g, a, b), IsBefore(g, b, c)
  PROVE  IsBefore(g, a, c)
<1>1. CASE a = b \/ b = c
  BY <1>1
<1>2. CASE a = c
  BY <1>2, BeforeInTrees
<1>3. CASE a # b /\ b # c /\ a # c
  <2> SUFFICES ASSUME ~IsBefore(g, a, c) PROVE FALSE
    OBVIOUS
  <2>1. IsBefore(g, c, a)
    BY <1>3, BeforeInOneOrder
  <2>2. /\ Dominates(g, a, b) \/ PostDominates(g, b, a)
        /\ Dominates(g, b, c) \/ PostDominates(g, c, b)
        /\ Dominates(g, c, a) \/ PostDominates(g, a, c)
    BY <1>3, <2>1, BeforeInOneOrder
  <2>3. ASSUME NEW x \in V, NEW y \in V, NEW z \in V, x # z, IsBefore(g, z, x)
        PROVE  /\ ~(Dominates(g, x, y) /\ Dominates(g, y, z))
               /\ ~(PostDominates(g, y, x) /\ PostDominates(g, z, y))
    <3>1. ~IsBefore(g, x, z)
      BY <2>3, BeforeInOneOrder
    <3>2. ~Dominates(g, x, z) /\ ~PostDominates(g, z, x)
      BY <3>1, BeforeInTrees
    <3>3. QED
      BY <3>2, DominatesIsTransitive, PostDominatesIsTransitive
  <2>4. QED
    BY <1>3, <2>1, <2>2, <2>3
<1>4. QED
  BY <1>1, <1>2, <1>3

(* All elements of a list come before its last one.                        *)
LEMMA AllAreBeforeLast ==
  ASSUME NEW g, Flow(g), NEW V \in SUBSET Nodes(g), nullptr \notin V, InOneOrder(g, V),
         NEW list \in Seq(V), NEW i \in 1 .. Len(list)
  PROVE  /\ ExtremeOf(Analysis(g), "last", list) \in V
         /\ IsBefore(g, list[i], ExtremeOf(Analysis(g), "last", list))
<1> DEFINE an == Analysis(g)
           n == Len(list)
           c == Candidates(an, "last", list)
           Good(k) == c[k] \in V /\ \A j \in 1 .. k : IsBefore(g, list[j], c[k])
           K == {k \in 0 .. n - 1 : Good(k + 1)}
<1>1. n \in Nat /\ n > 0 /\ list # <<>> /\ \A k \in 1 .. n : list[k] \in V
  OBVIOUS
<1>2. /\ c[1] = list[1]
      /\ \A k \in 2 .. n :
           c[k] = IF Replaces(an, "last", c[k - 1], list[k]) THEN list[k] ELSE c[k - 1]
  BY <1>1, CandidatesEquation
<1> HIDE DEF an, c, n
<1>3. Good(1)
  <2>1. list[1] \in V
    BY <1>1
  <2>2. QED
    BY <1>2, <2>1, BeforeInTrees
<1>4. ASSUME NEW k \in 1 .. n - 1, Good(k) PROVE Good(k + 1)
  <2>1. k + 1 \in 2 .. n /\ k + 1 \in 1 .. n /\ (k + 1) - 1 = k
    BY <1>1
  <2> DEFINE x == list[k + 1]
             d == c[k + 1]
  <2>2. x \in V /\ c[k] \in V
    BY <1>1, <1>4, <2>1
  <2>3. d = IF Replaces(an, "last", c[k], x) THEN x ELSE c[k]
    BY <1>2, <2>1
  <2> HIDE DEF d, x
  <2>4. d \in V /\ IsBefore(g, c[k], d) /\ IsBefore(g, x, d)
    <3>1. CASE IsBefore(g, c[k], x)
      <4>1. d = x
        BY <2>2, <2>3, <3>1 DEF Replaces, IsBefore, an
      <4>2. QED
        BY <2>2, <3>1, <4>1, BeforeInTrees
    <3>2. CASE ~IsBefore(g, c[k], x)
      <4>1. d = c[k]
        BY <2>3, <3>2 DEF Replaces, IsBefore, an
      <4>2. c[k] # x
        BY <2>2, <3>2, BeforeInTrees
      <4>3. QED
        BY <2>2, <3>2, <4>1, <4>2, BeforeInTrees, BeforeInOneOrder
    <3>3. QED
      BY <3>1, <3>2
  <2>5. ASSUME NEW j \in 1 .. k + 1 PROVE IsBefore(g, list[j], d)
    <3>1. CASE j = k + 1
      BY <2>4, <3>1 DEF x
    <3>2. CASE j # k + 1
      <4>1. j \in 1 .. k /\ j \in 1 .. n
        BY <1>1, <3>2
      <4>2. IsBefore(g, list[j], c[k]) /\ list[j] \in V
        BY <1>1, <1>4, <4>1
      <4>3. QED
        BY <2>2, <2>4, <4>2, OneOrderIsTransitive
    <3>3. QED
      BY <3>1, <3>2
  <2>6. QED
    BY <2>4, <2>5 DEF d
<1>5. ASSUME NEW k \in 1 .. n PROVE Good(k)
  <2> HIDE DEF Good
  <2>1. 0 \in K
    BY <1>1, <1>3
  <2>2. ASSUME NEW m \in 0 .. (n - 1) - 1, m \in K PROVE m + 1 \in K
    <3>1. m + 1 \in 1 .. n - 1 /\ m + 1 \in 0 .. n - 1 /\ Good(m + 1)
      BY <1>1, <2>2
    <3>2. Good((m + 1) + 1)
      BY <1>4, <3>1
    <3>3. QED
      BY <3>1, <3>2
  <2> HIDE DEF K
  <2>3. n - 1 \in Nat /\ k - 1 \in 0 .. n - 1 /\ (k - 1) + 1 = k
    BY <1>1
  <2>4. k - 1 \in K
    BY <2>1, <2>2, <2>3, UpTo
  <2>5. QED
    BY <2>3, <2>4 DEF K
<1>6. ExtremeOf(an, "last", list) = c[n]
  <2>1. ASSUME NEW k \in 2 .. n PROVE get_first_of_two(an, c[k - 1], list[k]) # nullptr
    <3>1. k \in 1 .. n /\ k - 1 \in 1 .. n
      BY <1>1
    <3>2. list[k] \in V /\ c[k - 1] \in V
      BY <1>1, <1>5, <3>1
    <3>3. CASE c[k - 1] = list[k]
      BY <3>2, <3>3, BeforeInTrees DEF IsBefore, an
    <3>4. CASE c[k - 1] # list[k]
      BY <3>2, <3>4 DEF InOneOrder, an
    <3>5. QED
      BY <3>3, <3>4
  <2>2. QED
    BY <1>1, <2>1 DEF ExtremeOf, c, n
<1>7. Good(n)
  BY <1>1, <1>5
<1>8. QED
  BY <1>6, <1>7 DEF an, n

-----------------------------------------------------------------------------
(* What Only does.                                                         *)

(* The recursive definition of Only has a solution.                        *)
LEMMA OnlyEquation ==
  ASSUME NEW X, NEW list \in Seq(X), NEW S
  PROVE  \E f : /\ Only(list, S) = f[Len(list)] /\ f[0] = <<>>
               /\ \A i \in 1 .. Len(list) :
                    f[i] = IF list[i] \in S THEN Append(f[i - 1], list[i]) ELSE f[i - 1]
<1> DEFINE n == Len(list)
           T == Seq(X)
           turn == [p \in (1 .. n) \X T |->
                     IF list[p[1]] \in S THEN Append(p[2], list[p[1]]) ELSE p[2]]
           D(f) == f = [i \in 0 .. n |->
                         IF i = 0 THEN <<>>
                         ELSE IF list[i] \in S THEN Append(f[i - 1], list[i]) ELSE f[i - 1]]
<1>1. n \in Nat /\ \A i \in 1 .. n : list[i] \in X
  OBVIOUS
<1> HIDE DEF n
<1>2. \E f \in [0 .. n -> T] : D(f)
  <2>1. turn \in [(1 .. n) \X T -> T] /\ <<>> \in T
    <3>1. ASSUME NEW p \in (1 .. n) \X T
          PROVE  (IF list[p[1]] \in S THEN Append(p[2], list[p[1]]) ELSE p[2]) \in T
      <4>1. p[1] \in 1 .. n /\ p[2] \in T /\ list[p[1]] \in X
        BY <1>1
      <4>2. QED
        BY <4>1
    <3>2. QED
      BY <3>1
  <2> HIDE DEF turn
  <2>2. PICK f \in [0 .. n -> T] :
          f[0] = <<>> /\ \A i \in 1 .. n : f[i] = turn[<<i, f[i - 1]>>]
    <3> HIDE DEF T
    <3>1. StepsExist(n, T, <<>>, turn)
      BY <1>1, <2>1, StepByStep
    <3>2. QED
      BY <3>1 DEF StepsExist
  <2>3. ASSUME NEW i \in 1 .. n
        PROVE  f[i] = IF list[i] \in S THEN Append(f[i - 1], list[i]) ELSE f[i - 1]
    <3> HIDE DEF T
    <3>1. i - 1 \in 0 .. n
      BY <1>1
    <3>2. <<i, f[i - 1]>> \in (1 .. n) \X T
      BY <2>2, <3>1
    <3>3. QED
      BY <2>2, <3>2 DEF turn
  <2>4. D(f)
    <3> HIDE DEF T
    <3>1. ASSUME NEW i \in 0 .. n
          PROVE  f[i] = IF i = 0 THEN <<>>
                        ELSE IF list[i] \in S THEN Append(f[i - 1], list[i]) ELSE f[i - 1]
      <4>1. CASE i = 0
        BY <2>2, <4>1
      <4>2. CASE i # 0
        <5>1. i \in 1 .. n
          BY <1>1, <4>2
        <5>2. QED
          BY <2>3, <4>2, <5>1, Zenon
      <4>3. QED
        BY <4>1, <4>2
    <3>2. f = [i \in 0 .. n |-> f[i]]
      BY <2>2
    <3>3. QED
      BY <3>1, <3>2, Zenon
  <2>5. QED
    BY <2>4
<1>3. PICK f : D(f) /\ Only(list, S) = f[n]
  <2>1. Only(list, S) = (CHOOSE f : D(f))[n]
    BY DEF Only, n
  <2> HIDE DEF D
  <2>2. QED
    BY <1>2, <2>1
<1>4. f[0] = <<>>
  BY <1>1, <1>3
<1>5. ASSUME NEW i \in 1 .. n
      PROVE  f[i] = IF list[i] \in S THEN Append(f[i - 1], list[i]) ELSE f[i - 1]
  <2>1. i \in 0 .. n /\ i # 0
    BY <1>1
  <2>2. f[i] = IF i = 0 THEN <<>>
               ELSE IF list[i] \in S THEN Append(f[i - 1], list[i]) ELSE f[i - 1]
    BY <1>3, <2>1, Zenon
  <2>3. QED
    BY <2>1, <2>2
<1>6. QED
  BY <1>3, <1>4, <1>5 DEF n

(* What Only leaves in a list is in S, and it leaves all that is.          *)
LEMMA OnlyFacts ==
  ASSUME NEW X, NEW list \in Seq(X), NEW S
  PROVE  /\ Only(list, S) \in Seq(X \cap S)
         /\ (\E k \in 1 .. Len(list) : list[k] \in S) => Only(list, S) # <<>>
<1> DEFINE n == Len(list)
           T == Seq(X \cap S)
<1>1. n \in Nat /\ \A i \in 1 .. n : list[i] \in X
  OBVIOUS
<1>2. PICK f : /\ Only(list, S) = f[n] /\ f[0] = <<>>
               /\ \A i \in 1 .. n :
                    f[i] = IF list[i] \in S THEN Append(f[i - 1], list[i]) ELSE f[i - 1]
  BY OnlyEquation
<1> HIDE DEF n
<1>3. f[0] = <<>>
  BY <1>2
<1>4. ASSUME NEW i \in 1 .. n
      PROVE  f[i] = IF list[i] \in S THEN Append(f[i - 1], list[i]) ELSE f[i - 1]
  BY <1>2
<1> DEFINE K == {i \in 0 .. n : /\ f[i] \in T
                                /\ (\E k \in 1 .. i : list[k] \in S) => f[i] # <<>>}
<1>5. 0 \in K
  <2>1. <<>> \in Seq(X \cap S) /\ 0 \in 0 .. n /\ ~\E k \in 1 .. 0 : list[k] \in S
    BY <1>1
  <2>2. QED
    BY <1>3, <2>1
<1>6. ASSUME NEW i \in 0 .. n - 1, i \in K PROVE i + 1 \in K
  <2>1. i + 1 \in 1 .. n /\ (i + 1) - 1 = i /\ list[i + 1] \in X
    BY <1>1
  <2>2. f[i + 1] = IF list[i + 1] \in S THEN Append(f[i], list[i + 1]) ELSE f[i]
    BY <1>4, <2>1
  <2>3. f[i + 1] \in Seq(X \cap S)
    <3>1. f[i] \in Seq(X \cap S)
      BY <1>6
    <3>2. CASE list[i + 1] \in S
      <4>1. list[i + 1] \in X \cap S /\ f[i + 1] = Append(f[i], list[i + 1])
        BY <2>1, <2>2, <3>2
      <4>2. QED
        BY <3>1, <4>1
    <3>3. CASE list[i + 1] \notin S
      BY <2>2, <3>1, <3>3
    <3>4. QED
      BY <3>2, <3>3
  <2>4. ASSUME NEW k \in 1 .. i + 1, list[k] \in S PROVE f[i + 1] # <<>>
    <3>1. CASE list[i + 1] \in S
      <4>1. f[i] \in Seq(X \cap S) /\ f[i + 1] = Append(f[i], list[i + 1])
        BY <1>6, <2>2, <3>1
      <4>2. Len(f[i + 1]) = Len(f[i]) + 1 /\ Len(f[i]) \in Nat
        BY <2>1, <3>1, <4>1
      <4>3. QED
        BY <4>2
    <3>2. CASE list[i + 1] \notin S
      <4>1. k \in 1 .. i
        BY <2>4, <3>2
      <4>2. f[i] # <<>>
        BY <1>6, <2>4, <4>1
      <4>3. QED
        BY <2>2, <3>2, <4>2
    <3>3. QED
      BY <3>1, <3>2
  <2>5. QED
    BY <2>1, <2>3, <2>4
<1>7. n \in K
  <2> HIDE DEF K
  <2>1. \A i \in 0 .. n : i \in K
    BY <1>1, <1>5, <1>6, UpTo
  <2>2. QED
    BY <1>1, <2>1
<1>8. QED
  BY <1>2, <1>7 DEF n

(* Only keeps each element that is in S, and makes the list shorter when   *)
(* one is not.                                                             *)
LEMMA OnlyKeeps ==
  ASSUME NEW X, NEW list \in Seq(X), NEW S
  PROVE  /\ Len(Only(list, S)) <= Len(list)
         /\ \A k \in 1 .. Len(list) : list[k] \in S =>
              \E j \in 1 .. Len(Only(list, S)) : Only(list, S)[j] = list[k]
         /\ (\E k \in 1 .. Len(list) : list[k] \notin S) => Len(Only(list, S)) < Len(list)
<1> DEFINE n == Len(list)
           T == Seq(X)
<1>1. n \in Nat /\ \A i \in 1 .. n : list[i] \in X
  OBVIOUS
<1>2. PICK f : /\ Only(list, S) = f[n] /\ f[0] = <<>>
               /\ \A i \in 1 .. n :
                    f[i] = IF list[i] \in S THEN Append(f[i - 1], list[i]) ELSE f[i - 1]
  BY OnlyEquation
<1> HIDE DEF n
<1> DEFINE Good(i) ==
             /\ f[i] \in T /\ Len(f[i]) <= i
             /\ \A k \in 1 .. i : list[k] \in S => \E j \in 1 .. Len(f[i]) : f[i][j] = list[k]
             /\ (\E k \in 1 .. i : list[k] \notin S) => Len(f[i]) < i
           K == {i \in 0 .. n : Good(i)}
<1>6. 0 \in K
  <2>1. f[0] \in Seq(X) /\ Len(f[0]) = 0
    BY <1>2
  <2>2. 0 \in 0 .. n /\ 1 .. 0 = {}
    BY <1>1
  <2>3. QED
    BY <2>1, <2>2
<1>7. ASSUME NEW i \in 0 .. n - 1, Good(i) PROVE Good(i + 1)
  <2>1. i + 1 \in 1 .. n /\ (i + 1) - 1 = i /\ list[i + 1] \in X
    BY <1>1
  <2>2. f[i + 1] = IF list[i + 1] \in S THEN Append(f[i], list[i + 1]) ELSE f[i]
    BY <1>2, <2>1
  <2>3. f[i] \in Seq(X) /\ Len(f[i]) \in Nat
    BY <1>7
  <2> DEFINE x == list[i + 1]
             s == f[i]
  <2>4. CASE x \in S
    <3>1. /\ f[i + 1] = Append(s, x) /\ Len(f[i + 1]) = Len(s) + 1
          /\ f[i + 1] \in Seq(X)
          /\ f[i + 1][Len(s) + 1] = x
          /\ \A j \in 1 .. Len(s) : f[i + 1][j] = s[j]
      BY <2>1, <2>2, <2>3, <2>4
    <3>2. ASSUME NEW k \in 1 .. i + 1, list[k] \in S
          PROVE  \E j \in 1 .. Len(f[i + 1]) : f[i + 1][j] = list[k]
      <4>1. CASE k = i + 1
        <5>1. Len(s) + 1 \in 1 .. Len(f[i + 1])
          BY <2>3, <3>1
        <5>2. QED
          BY <3>1, <4>1, <5>1
      <4>2. CASE k # i + 1
        <5>1. k \in 1 .. i
          BY <4>2
        <5>2. PICK j \in 1 .. Len(s) : s[j] = list[k]
          BY <1>7, <3>2, <5>1
        <5>3. j \in 1 .. Len(f[i + 1]) /\ f[i + 1][j] = list[k]
          BY <2>3, <3>1, <5>2
        <5>4. QED
          BY <5>3
      <4>3. QED
        BY <4>1, <4>2
    <3>3. ASSUME NEW k \in 1 .. i + 1, list[k] \notin S
          PROVE  Len(s) < i
      <4>1. k \in 1 .. i
        BY <2>4, <3>3
      <4>2. QED
        BY <1>7, <3>3, <4>1
    <3>4. Len(s) <= i /\ i \in Nat
      BY <1>7
    <3>5. QED
      BY <2>3, <3>1, <3>2, <3>3, <3>4
  <2>5. CASE x \notin S
    <3>1. f[i + 1] = s
      BY <2>2, <2>5
    <3>2. ASSUME NEW k \in 1 .. i + 1, list[k] \in S
          PROVE  \E j \in 1 .. Len(s) : s[j] = list[k]
      <4>1. k \in 1 .. i
        BY <2>5, <3>2
      <4>2. QED
        BY <1>7, <3>2, <4>1
    <3>3. Len(s) <= i /\ i \in Nat
      BY <1>7
    <3>4. QED
      BY <2>3, <3>1, <3>2, <3>3
  <2>6. QED
    BY <2>4, <2>5
<1>8. Good(n)
  <2> HIDE DEF Good
  <2>1. ASSUME NEW i \in 0 .. n - 1, i \in K PROVE i + 1 \in K
    <3>1. i + 1 \in 0 .. n
      BY <1>1
    <3>2. QED
      BY <1>7, <2>1, <3>1
  <2> HIDE DEF K
  <2>2. \A i \in 0 .. n : i \in K
    BY <1>1, <1>6, <2>1, UpTo
  <2>3. n \in K
    BY <1>1, <2>2
  <2>4. QED
    BY <2>3 DEF K
<1>9. QED
  BY <1>2, <1>8 DEF n

-----------------------------------------------------------------------------
(* The search for the last modification.                                   *)

InList(list, n) == \E j \in 1 .. Len(list) : list[j] = n

\* Only leaves what is in S.
LEMMA OnlyLists ==
  ASSUME NEW X, NEW list \in Seq(X), NEW S, NEW n \in S, InList(list, n)
  PROVE  InList(Only(list, S), n) /\ Only(list, S) # <<>>
<1>1. PICK j \in 1 .. Len(list) : list[j] = n
  BY DEF InList
<1>2. \E q \in 1 .. Len(Only(list, S)) : Only(list, S)[q] = list[j]
  BY <1>1, OnlyKeeps
<1>3. Only(list, S) # <<>>
  BY <1>1, OnlyFacts
<1>4. QED
  BY <1>1, <1>2, <1>3 DEF InList

(* The main loop of the search, turn by turn: what is left of the list     *)
(* before each turn, and what each turn finds.                             *)
IsSearch(k, S, list, modification, rest, found) ==
  /\ rest[0] = list /\ \A i \in 0 .. Len(list) : rest[i] \in Seq(S)
  /\ found \in Seq(Int) /\ Len(found) = Len(list)
  /\ \A i \in 1 .. Len(list) :
       LET last == ExtremeOf(k.trees, "last", rest[i - 1])
       IN  /\ last \in S \cup {nullptr}
           /\ rest[i] = Only(rest[i - 1], Int \ {last})
           /\ found[i] = IF rest[i - 1] = <<>> THEN nullptr
                         ELSE IF last = nullptr THEN Abort ELSE modification[last]
  /\ LatestOf(k, list, modification) =
       IF \E i \in 1 .. Len(list) : found[i] = Abort THEN Abort
       ELSE ExtremeOf(k.trees, "last", Only(found, Int \ {nullptr}))

\* The recursive definition of LatestOf has a solution.
LEMMA LatestOfEquation ==
  ASSUME NEW k, NEW S \in SUBSET (Int \ {nullptr}), NEW list \in Seq(S),
         NEW modification, \A x \in S : modification[x] \in Int
  PROVE  \E rest, found : IsSearch(k, S, list, modification, rest, found)
<1> DEFINE n == Len(list)
           last == [l \in Seq(Int) |-> get_last_instruction(k.trees, l)]
           D(f) == f = [i \in 0 .. n |->
                         IF i = 0 THEN list ELSE Only(f[i - 1], Int \ {last[f[i - 1]]})]
           turn == [p \in (1 .. n) \X Seq(S) |-> Only(p[2], Int \ {last[p[2]]})]
           rest == CHOOSE f : D(f)
           found == [i \in 1 .. n |->
                      IF rest[i - 1] = <<>> THEN nullptr
                      ELSE IF last[rest[i - 1]] = nullptr THEN Abort
                      ELSE modification[last[rest[i - 1]]]]
<1>1. n \in Nat /\ DOMAIN list = 1 .. n
  OBVIOUS
<1>2. LatestOf(k, list, modification) =
        IF \E i \in DOMAIN list : found[i] = Abort THEN Abort
        ELSE last[Only(found, Int \ {nullptr})]
  BY DEF LatestOf
<1>3. ASSUME NEW l \in Seq(Int) PROVE last[l] = ExtremeOf(k.trees, "last", l)
  BY DEF get_last_instruction
<1>4. ASSUME NEW l \in Seq(S)
      PROVE  /\ l \in Seq(Int) /\ last[l] = ExtremeOf(k.trees, "last", l)
             /\ last[l] \in S \cup {nullptr}
  <2>1. l \in Seq(Int)
    <3>1. S \subseteq Int
      OBVIOUS
    <3>2. \A i \in 1 .. Len(l) : l[i] \in S
      OBVIOUS
    <3>3. \A i \in 1 .. Len(l) : l[i] \in Int
      BY <3>1, <3>2, Zenon
    <3>4. QED
      BY <3>3
  <2> HIDE DEF last
  <2>2. QED
    BY <1>3, <2>1, ExtremeIsElement
<1> HIDE DEF last, n
<1>5. \E f : D(f)
  <2>1. turn \in [(1 .. n) \X Seq(S) -> Seq(S)]
    <3>1. ASSUME NEW p \in (1 .. n) \X Seq(S)
          PROVE  Only(p[2], Int \ {last[p[2]]}) \in Seq(S)
      <4>1. p[2] \in Seq(S)
        OBVIOUS
      <4>2. Only(p[2], Int \ {last[p[2]]}) \in Seq(S \cap (Int \ {last[p[2]]}))
        BY <4>1, OnlyFacts
      <4>3. QED
        BY <4>2
    <3>2. QED
      BY <3>1
  <2> HIDE DEF turn
  <2>2. StepsExist(n, Seq(S), list, turn)
    BY <1>1, <2>1, StepByStep
  <2>3. PICK f \in [0 .. n -> Seq(S)] :
          f[0] = list /\ \A i \in 1 .. n : f[i] = turn[<<i, f[i - 1]>>]
    BY <2>2 DEF StepsExist
  <2>4. ASSUME NEW i \in 0 .. n
        PROVE  f[i] = IF i = 0 THEN list ELSE Only(f[i - 1], Int \ {last[f[i - 1]]})
    <3>1. CASE i = 0
      BY <2>3, <3>1
    <3>2. CASE i # 0
      <4>1. i \in 1 .. n /\ i - 1 \in 0 .. n
        BY <1>1, <3>2
      <4>2. <<i, f[i - 1]>> \in (1 .. n) \X Seq(S) /\ f[i] = turn[<<i, f[i - 1]>>]
        BY <2>3, <4>1
      <4>3. QED
        BY <3>2, <4>2 DEF turn
    <3>3. QED
      BY <3>1, <3>2
  <2>5. f = [i \in 0 .. n |-> f[i]]
    BY <2>3
  <2>6. D(f)
    BY <2>4, <2>5, Zenon
  <2>7. QED
    BY <2>6
<1>6. D(rest)
  <2> HIDE DEF D
  <2>1. QED
    BY <1>5
<1> HIDE DEF rest
<1>7. ASSUME NEW i \in 1 .. n
      PROVE  /\ i - 1 \in 0 .. n
             /\ rest[i] = Only(rest[i - 1], Int \ {last[rest[i - 1]]})
  <2>1. i \in 0 .. n /\ i # 0 /\ i - 1 \in 0 .. n
    BY <1>1
  <2>2. rest[i] = IF i = 0 THEN list ELSE Only(rest[i - 1], Int \ {last[rest[i - 1]]})
    BY <1>6, <2>1, Zenon
  <2>3. QED
    BY <2>1, <2>2
<1>8. \A i \in 0 .. n : rest[i] \in Seq(S)
  <2> DEFINE K == {i \in 0 .. n : rest[i] \in Seq(S)}
  <2>1. 0 \in K
    BY <1>1, <1>6
  <2>2. ASSUME NEW i \in 0 .. n - 1, i \in K PROVE i + 1 \in K
    <3>1. i + 1 \in 1 .. n /\ (i + 1) - 1 = i /\ rest[i] \in Seq(S)
      BY <1>1, <2>2
    <3>2. rest[i + 1] = Only(rest[i], Int \ {last[rest[i]]})
      BY <1>7, <3>1
    <3>3. rest[i + 1] \in Seq(S \cap (Int \ {last[rest[i]]}))
      BY <3>1, <3>2, OnlyFacts
    <3>4. rest[i + 1] \in Seq(S)
      BY <3>3
    <3>5. QED
      BY <3>1, <3>4
  <2> HIDE DEF K
  <2>3. \A i \in 0 .. n : i \in K
    BY <1>1, <2>1, <2>2, UpTo
  <2>4. QED
    BY <2>3 DEF K
<1>9. ASSUME NEW i \in 1 .. n
      PROVE  LET e == ExtremeOf(k.trees, "last", rest[i - 1])
             IN  /\ e \in S \cup {nullptr} /\ rest[i] = Only(rest[i - 1], Int \ {e})
                 /\ found[i] = IF rest[i - 1] = <<>> THEN nullptr
                               ELSE IF e = nullptr THEN Abort ELSE modification[e]
                 /\ found[i] \in Int
  <2>1. rest[i - 1] \in Seq(S)
    BY <1>7, <1>8
  <2>2. last[rest[i - 1]] = ExtremeOf(k.trees, "last", rest[i - 1]) /\ last[rest[i - 1]] \in S \cup {nullptr}
    BY <1>4, <2>1
  <2>3. found[i] = IF rest[i - 1] = <<>> THEN nullptr
                   ELSE IF last[rest[i - 1]] = nullptr THEN Abort
                   ELSE modification[last[rest[i - 1]]]
    OBVIOUS
  <2> HIDE DEF found
  <2>4. found[i] \in Int
    <3>1. nullptr \in Int /\ Abort \in Int
      BY DEF nullptr, Abort
    <3>2. QED
      BY <2>2, <2>3, <3>1
  <2>5. QED
    BY <1>7, <2>2, <2>3, <2>4
<1>10. found \in Seq(Int) /\ Len(found) = n
  <2>1. found = [i \in 1 .. n |-> found[i]]
    OBVIOUS
  <2> HIDE DEF found
  <2>2. \A i \in 1 .. n : found[i] \in Int
    BY <1>9
  <2>3. found \in [1 .. n -> Int]
    BY <2>1, <2>2
  <2>4. QED
    BY <1>1, <2>3
<1> HIDE DEF found
<1>11. Only(found, Int \ {nullptr}) \in Seq(Int)
  <2>1. Only(found, Int \ {nullptr}) \in Seq(Int \cap (Int \ {nullptr}))
    BY <1>10, OnlyFacts
  <2>2. QED
    BY <2>1
<1>12. LatestOf(k, list, modification) =
         IF \E i \in 1 .. n : found[i] = Abort THEN Abort
         ELSE ExtremeOf(k.trees, "last", Only(found, Int \ {nullptr}))
  BY <1>1, <1>2, <1>3, <1>11
<1>13. rest[0] = list
  BY <1>1, <1>6
<1>14. IsSearch(k, S, list, modification, rest, found)
  BY <1>8, <1>9, <1>10, <1>12, <1>13 DEF IsSearch, n
<1>15. QED
  BY <1>14

GetsToEnd(found) == \A i \in 1 .. Len(found) : found[i] # Abort

AsksAll(list, modification, found) ==
  \A j \in 1 .. Len(list) : \E m \in 1 .. Len(list) : found[m] = modification[list[j]]

(* A search that gets to its end has asked every instruction in its list:  *)
(* each turn makes the list shorter, and only by what it asks.             *)
LEMMA SearchAsksAll ==
  ASSUME NEW k, NEW S \in SUBSET (Int \ {nullptr}), NEW list \in Seq(S), NEW modification,
         NEW rest, NEW found, IsSearch(k, S, list, modification, rest, found),
         GetsToEnd(found)
  PROVE  AsksAll(list, modification, found)
<1> SUFFICES ASSUME NEW j \in 1 .. Len(list)
             PROVE  \E m \in 1 .. Len(list) : found[m] = modification[list[j]]
  BY DEF AsksAll
<1> DEFINE n == Len(list)
           last(i) == ExtremeOf(k.trees, "last", rest[i])
           Left(i) == \E q \in 1 .. Len(rest[i]) : rest[i][q] = list[j]
           Good(i) == /\ Len(rest[i]) <= n - i
                      /\ Left(i) \/ \E m \in 1 .. i : found[m] = modification[list[j]]
           K == {i \in 0 .. n : Good(i)}
<1>1. n \in Nat /\ rest[0] = list
  BY DEF IsSearch
<1>2. ASSUME NEW i \in 0 .. n
      PROVE  rest[i] \in Seq(S) /\ Len(rest[i]) \in Nat /\ \A q \in 1 .. Len(rest[i]) : rest[i][q] \in S
  BY DEF IsSearch
<1>3. ASSUME NEW i \in 0 .. n - 1
      PROVE  /\ i + 1 \in 1 .. n /\ i \in 0 .. n
             /\ rest[i + 1] = Only(rest[i], Int \ {last(i)})
             /\ found[i + 1] = IF rest[i] = <<>> THEN nullptr
                               ELSE IF last(i) = nullptr THEN Abort ELSE modification[last(i)]
             /\ found[i + 1] # Abort
  <2>1. i + 1 \in 1 .. n /\ i \in 0 .. n /\ (i + 1) - 1 = i
    BY <1>1
  <2>2. n = Len(found)
    BY DEF IsSearch
  <2>3. LET l == ExtremeOf(k.trees, "last", rest[(i + 1) - 1])
        IN  /\ rest[i + 1] = Only(rest[(i + 1) - 1], Int \ {l})
            /\ found[i + 1] = IF rest[(i + 1) - 1] = <<>> THEN nullptr
                              ELSE IF l = nullptr THEN Abort ELSE modification[l]
    BY <2>1 DEF IsSearch
  <2>4. found[i + 1] # Abort
    BY <2>1, <2>2 DEF GetsToEnd
  <2>5. QED
    BY <2>1, <2>3, <2>4
<1>4. ASSUME NEW i \in 0 .. n - 1, rest[i] # <<>>
      PROVE  /\ found[i + 1] = modification[last(i)]
             /\ \E q \in 1 .. Len(rest[i]) : rest[i][q] = last(i)
  <2> DEFINE R == {rest[i][q] : q \in 1 .. Len(rest[i])}
  <2>1. rest[i] \in Seq(R)
    <3>1. rest[i] = [q \in 1 .. Len(rest[i]) |-> rest[i][q]]
      <4>1. rest[i] \in Seq(S)
        BY <1>2, <1>3
      <4>2. QED
        BY <4>1
    <3>2. rest[i] \in [1 .. Len(rest[i]) -> R]
      BY <3>1
    <3>3. Len(rest[i]) \in Nat
      BY <1>2, <1>3
    <3> HIDE DEF R
    <3>4. QED
      BY <3>2, <3>3
  <2>2. last(i) # nullptr
    BY <1>3, <1>4
  <2>3. last(i) \in R \cup {nullptr}
    <3> HIDE DEF R
    <3>1. QED
      BY <2>1, ExtremeIsElement
  <2>4. QED
    BY <1>3, <1>4, <2>2, <2>3
<1> HIDE DEF last, n
<1>5. 0 \in K
  BY <1>1, <1>2 DEF n
<1>6. ASSUME NEW i \in 0 .. n - 1, Good(i) PROVE Good(i + 1)
  <2>1. /\ i \in 0 .. n /\ i + 1 \in 1 .. n /\ i + 1 \in 0 .. n
        /\ Len(rest[i]) \in Nat /\ Len(rest[i + 1]) \in Nat
    BY <1>1, <1>2, <1>3
  <2>2. /\ Len(rest[i + 1]) <= Len(rest[i])
        /\ \A q \in 1 .. Len(rest[i]) : rest[i][q] \in Int \ {last(i)} =>
             \E p \in 1 .. Len(rest[i + 1]) : rest[i + 1][p] = rest[i][q]
        /\ (\E q \in 1 .. Len(rest[i]) : rest[i][q] \notin Int \ {last(i)}) =>
             Len(rest[i + 1]) < Len(rest[i])
    <3>1. rest[i] \in Seq(S)
      BY <1>2, <2>1
    <3>2. /\ Len(Only(rest[i], Int \ {last(i)})) <= Len(rest[i])
          /\ \A q \in 1 .. Len(rest[i]) : rest[i][q] \in Int \ {last(i)} =>
               \E p \in 1 .. Len(Only(rest[i], Int \ {last(i)})) :
                 Only(rest[i], Int \ {last(i)})[p] = rest[i][q]
          /\ (\E q \in 1 .. Len(rest[i]) : rest[i][q] \notin Int \ {last(i)}) =>
               Len(Only(rest[i], Int \ {last(i)})) < Len(rest[i])
      BY <3>1, OnlyKeeps, Zenon
    <3>3. QED
      BY <1>3, <3>2
  <2>3. CASE rest[i] = <<>>
    <3>1. Len(rest[i]) = 0 /\ ~Left(i)
      BY <2>3
    <3>2. Len(rest[i + 1]) <= n - (i + 1)
      BY <1>1, <2>1, <2>2, <3>1
    <3>3. QED
      BY <1>6, <2>1, <3>1, <3>2
  <2>4. CASE rest[i] # <<>>
    <3>1. /\ found[i + 1] = modification[last(i)]
          /\ \E q \in 1 .. Len(rest[i]) : rest[i][q] = last(i)
      BY <1>4, <2>4
    <3>2. Len(rest[i + 1]) <= n - (i + 1)
      BY <1>1, <1>6, <2>1, <2>2, <3>1
    <3>3. Left(i + 1) \/ \E m \in 1 .. i + 1 : found[m] = modification[list[j]]
      <4>1. CASE Left(i)
        <5>1. PICK q \in 1 .. Len(rest[i]) : rest[i][q] = list[j]
          BY <4>1
        <5>2. CASE rest[i][q] = last(i)
          <6>1. i + 1 \in 1 .. i + 1
            BY <2>1
          <6>2. QED
            BY <3>1, <5>1, <5>2, <6>1
        <5>3. CASE rest[i][q] # last(i)
          <6>1. rest[i][q] \in Int \ {last(i)}
            BY <1>2, <2>1, <5>3
          <6>2. QED
            BY <2>2, <5>1, <6>1
        <5>4. QED
          BY <5>2, <5>3
      <4>2. CASE \E m \in 1 .. i : found[m] = modification[list[j]]
        BY <2>1, <4>2
      <4>3. QED
        BY <1>6, <4>1, <4>2
    <3>4. QED
      BY <3>2, <3>3
  <2>5. QED
    BY <2>3, <2>4
<1>7. n \in K
  <2>1. ASSUME NEW i \in 0 .. n - 1, i \in K PROVE i + 1 \in K
    <3> HIDE DEF Good
    <3>1. i + 1 \in 0 .. n
      BY <1>1
    <3>2. QED
      BY <1>6, <2>1, <3>1
  <2> HIDE DEF K
  <2>2. \A i \in 0 .. n : i \in K
    BY <1>1, <1>5, <2>1, UpTo
  <2>3. QED
    BY <1>1, <2>2
<1>8. ~Left(n)
  BY <1>1, <1>2, <1>7
<1>9. QED
  BY <1>7, <1>8 DEF n

\* r comes after everything in V that the instructions in the list modify.
Finds(g, V, list, modification, r) ==
  /\ r \in V \cup {nullptr, Abort}
  /\ r # Abort =>
       \A j \in 1 .. Len(list) :
         /\ modification[list[j]] # Abort
         /\ modification[list[j]] \in V => r \in V /\ IsBefore(g, modification[list[j]], r)

(* What a search that gets to its end answers comes after all that it has  *)
(* found, if that is in one order.                                         *)
LEMMA SearchFinds ==
  ASSUME NEW g, Flow(g), NEW k, k.trees = Analysis(g),
         NEW V \in SUBSET (Nodes(g) \cap Int), nullptr \notin V, Abort \notin V, InOneOrder(g, V),
         NEW S \in SUBSET (Int \ {nullptr}), NEW list \in Seq(S),
         NEW modification, \A x \in S : modification[x] \in V \cup {nullptr, Abort}
  PROVE  Finds(g, V, list, modification, LatestOf(k, list, modification))
<1> DEFINE n == Len(list)
           r == LatestOf(k, list, modification)
<1>1. /\ n \in Nat /\ nullptr \in Int /\ Abort \in Int /\ nullptr # Abort
      /\ V \cup {nullptr, Abort} \subseteq Int
  BY DEF nullptr, Abort
<1>2. PICK rest, found : IsSearch(k, S, list, modification, rest, found)
  BY <1>1, LatestOfEquation
<1>3. /\ \A i \in 0 .. n : rest[i] \in Seq(S)
      /\ found \in Seq(Int) /\ Len(found) = n
      /\ \A i \in 1 .. n :
           LET last == ExtremeOf(k.trees, "last", rest[i - 1])
           IN  /\ last \in S \cup {nullptr}
               /\ found[i] = IF rest[i - 1] = <<>> THEN nullptr
                             ELSE IF last = nullptr THEN Abort ELSE modification[last]
      /\ r = IF \E i \in 1 .. n : found[i] = Abort THEN Abort
             ELSE ExtremeOf(k.trees, "last", Only(found, Int \ {nullptr}))
  BY <1>2 DEF IsSearch
<1>4. ASSUME NEW i \in 1 .. n PROVE found[i] \in V \cup {nullptr, Abort}
  BY <1>3
<1> HIDE DEF r, n
<1>5. CASE \E i \in 1 .. n : found[i] = Abort
  BY <1>3, <1>5 DEF r, Finds
<1>6. CASE \A i \in 1 .. n : found[i] # Abort
  <2> DEFINE all == Only(found, Int \ {nullptr})
  <2>1. found \in Seq(V \cup {nullptr})
    <3>1. found = [i \in 1 .. n |-> found[i]]
      BY <1>3
    <3>2. found \in [1 .. n -> V \cup {nullptr}]
      BY <1>4, <1>6, <3>1
    <3>3. QED
      BY <1>1, <3>2 DEF n
  <2>2. all \in Seq(V)
    <3>1. all \in Seq((V \cup {nullptr}) \cap (Int \ {nullptr}))
      BY <2>1, OnlyFacts
    <3>2. (V \cup {nullptr}) \cap (Int \ {nullptr}) = V
      OBVIOUS
    <3> HIDE DEF all
    <3>3. QED
      BY <3>1, <3>2
  <2>3. r = ExtremeOf(Analysis(g), "last", all)
    BY <1>3, <1>6
  <2>4. r \in V \cup {nullptr}
    <3> HIDE DEF all
    <3>1. QED
      BY <2>2, <2>3, ExtremeIsElement
  <2>5. ASSUME NEW j \in 1 .. n
        PROVE  /\ modification[list[j]] # Abort
               /\ modification[list[j]] \in V => r \in V /\ IsBefore(g, modification[list[j]], r)
    <3>1. PICK m \in 1 .. n : found[m] = modification[list[j]]
      <4>1. IsSearch(k, S, list, modification, rest, found) /\ GetsToEnd(found)
        BY <1>2, <1>3, <1>6 DEF GetsToEnd, n
      <4>2. AsksAll(list, modification, found)
        BY <4>1, SearchAsksAll
      <4>3. QED
        BY <4>2 DEF AsksAll, n
    <3>2. ASSUME found[m] \in V PROVE r \in V /\ IsBefore(g, found[m], r)
      <4>1. m \in 1 .. Len(found) /\ found[m] \in Int \ {nullptr}
        BY <1>3, <3>2
      <4>2. \A i \in 1 .. Len(found) : found[i] \in Int \ {nullptr} =>
              \E q \in 1 .. Len(Only(found, Int \ {nullptr})) :
                Only(found, Int \ {nullptr})[q] = found[i]
        <5>1. found \in Seq(Int)
          BY <1>3
        <5>2. QED
          BY <5>1, OnlyKeeps, Zenon
      <4>3. PICK q \in 1 .. Len(all) : all[q] = found[m]
        BY <4>1, <4>2
      <4> HIDE DEF all
      <4>4. QED
        BY <2>2, <2>3, <4>3, AllAreBeforeLast
    <3>3. QED
      BY <1>6, <3>1, <3>2
  <2>6. QED
    BY <1>1, <2>4, <2>5 DEF r, n, Finds
<1>7. QED
  BY <1>5, <1>6

\* The first of three candidates that is one.
LEMMA FirstOfThree ==
  ASSUME NEW a \in Int, NEW b \in Int, NEW c \in Int \ {nullptr}
  PROVE  Only(<<a, b, c>>, Int \ {nullptr})[1] =
           IF a # nullptr THEN a ELSE IF b # nullptr THEN b ELSE c
<1> DEFINE list == <<a, b, c>>
           S == Int \ {nullptr}
<1>1. list \in Seq(Int) /\ Len(list) = 3 /\ list[1] = a /\ list[2] = b /\ list[3] = c
  OBVIOUS
<1> HIDE DEF list
<1>2. PICK f : /\ Only(list, S) = f[Len(list)] /\ f[0] = <<>>
               /\ \A i \in 1 .. Len(list) :
                    f[i] = IF list[i] \in S THEN Append(f[i - 1], list[i]) ELSE f[i - 1]
  BY <1>1, OnlyEquation
<1>3. /\ f[1] = IF a \in S THEN Append(f[0], a) ELSE f[0]
      /\ f[2] = IF b \in S THEN Append(f[1], b) ELSE f[1]
      /\ f[3] = IF c \in S THEN Append(f[2], c) ELSE f[2]
  <2>1. 1 \in 1 .. Len(list) /\ 2 \in 1 .. Len(list) /\ 3 \in 1 .. Len(list)
    BY <1>1
  <2>2. 1 - 1 = 0 /\ 2 - 1 = 1 /\ 3 - 1 = 2
    OBVIOUS
  <2> HIDE DEF S
  <2>3. QED
    BY <1>1, <1>2, <2>1, <2>2
<1>4. ASSUME NEW s \in Seq(Int), NEW x \in Int
      PROVE  /\ Append(s, x) \in Seq(Int) /\ Append(s, x) # <<>>
             /\ Append(s, x)[1] = IF s = <<>> THEN x ELSE s[1]
  <2>1. Append(s, x) \in Seq(Int) /\ Len(Append(s, x)) = Len(s) + 1 /\ Len(s) \in Nat
    OBVIOUS
  <2>2. CASE s = <<>>
    BY <2>1, <2>2
  <2>3. CASE s # <<>>
    <3>1. 1 \in 1 .. Len(s)
      BY <2>1, <2>3
    <3>2. QED
      BY <2>1, <2>3, <3>1
  <2>4. QED
    BY <2>2, <2>3
<1>5. f[0] = <<>> /\ f[0] \in Seq(Int)
  BY <1>2
<1>6. /\ f[1] \in Seq(Int) /\ (f[1] # <<>> <=> a \in S)
      /\ a \in S => f[1][1] = a
  <2> HIDE DEF S
  <2>1. QED
    BY <1>3, <1>4, <1>5
<1>7. /\ f[2] \in Seq(Int) /\ (f[2] # <<>> <=> a \in S \/ b \in S)
      /\ a \in S => f[2][1] = a
      /\ a \notin S /\ b \in S => f[2][1] = b
  <2> HIDE DEF S
  <2>1. QED
    BY <1>3, <1>4, <1>6
<1>8. /\ a \in S => f[3][1] = a
      /\ a \notin S /\ b \in S => f[3][1] = b
      /\ a \notin S /\ b \notin S => f[3][1] = c
  <2>1. c \in S
    OBVIOUS
  <2> HIDE DEF S
  <2>2. QED
    BY <1>3, <1>4, <1>7, <2>1
<1>9. (a \in S <=> a # nullptr) /\ (b \in S <=> b # nullptr)
  OBVIOUS
<1>10. Only(list, S)[1] = IF a # nullptr THEN a ELSE IF b # nullptr THEN b ELSE c
  <2> HIDE DEF S
  <2>1. QED
    BY <1>1, <1>2, <1>8, <1>9
<1>11. QED
  BY <1>10 DEF list

-----------------------------------------------------------------------------
(* The loops of the scan.                                                  *)

(* The first k elements have been compared with their candidates, and the  *)
(* second loop has let the first k elements pass.                          *)
Compared(k) ==
  \A j \in 2 .. k :
    get_first_of_two(analysis, Candidates(analysis, direction, inst_list)[j - 1], inst_list[j])
      # nullptr

Passed(k) ==
  \A j \in 1 .. k : ~FailsRecheck(analysis, direction, current_instruction, inst_list[j])

LoopsInv ==
  LET c == Candidates(analysis, direction, inst_list)
  IN  /\ inst_list = <<>> => at = "return" /\ current_instruction = nullptr
      /\ at = "scan" => /\ it \in 2 .. Len(inst_list) + 1
                        /\ current_instruction = c[it - 1]
                        /\ is_viable <=> Compared(it - 1)
      /\ at = "recheck" => /\ it \in 1 .. Len(inst_list) + 1
                           /\ current_instruction = c[Len(inst_list)]
                           /\ ~Compared(Len(inst_list))
                           /\ Passed(it - 1)
      /\ ScanMeetsExtremeOf

\* The case distinction of ExtremeOf.
LEMMA ExtremeOfCases ==
  ASSUME inst_list # <<>>
  PROVE  LET found == Candidates(analysis, direction, inst_list)[Len(inst_list)]
         IN  ExtremeOf(analysis, direction, inst_list) =
               IF ~Compared(Len(inst_list))
                  /\ \E k \in DOMAIN inst_list :
                       FailsRecheck(analysis, direction, found, inst_list[k])
               THEN nullptr ELSE found
BY DEF ExtremeOf, Compared

LEMMA InitLoops == ScanInit => LoopsInv
<1> SUFFICES ASSUME ScanInit PROVE LoopsInv
  OBVIOUS
<1>1. inst_list \in Seq(Nodes(call.graph)) /\ Len(inst_list) \in Nat
  BY InitTypes, CallIsFlow DEF ScanTypes
<1>2. CASE inst_list = <<>>
  BY <1>2 DEF ScanInit, LoopsInv, ScanMeetsExtremeOf, ExtremeOf
<1>3. CASE inst_list # <<>>
  <2>1. Candidates(analysis, direction, inst_list)[1] = inst_list[1]
    BY <1>1, <1>3, CandidatesEquation
  <2>2. at = "scan" /\ it = 2 /\ is_viable = TRUE /\ current_instruction = inst_list[1]
    BY <1>3 DEF ScanInit
  <2>3. Len(inst_list) # 0
    BY <1>1, <1>3
  <2>4. QED
    BY <1>1, <1>3, <2>1, <2>2, <2>3 DEF LoopsInv, Compared, ScanMeetsExtremeOf
<1>4. QED
  BY <1>2, <1>3

LEMMA NextLoops == ScanTypes /\ LoopsInv /\ [ScanNext]_scanVars => LoopsInv'
<1> SUFFICES ASSUME ScanTypes, LoopsInv, [ScanNext]_scanVars PROVE LoopsInv'
  OBVIOUS
<1> DEFINE c == Candidates(analysis, direction, inst_list)
           n == Len(inst_list)
<1>1. inst_list \in Seq(Nodes(call.graph)) /\ n \in Nat /\ is_viable \in BOOLEAN
  BY CallIsFlow DEF ScanTypes, OrderTypeOK
<1>2. CASE Scan
  <2>1. /\ at = "scan" /\ at' = at /\ it \in 2 .. n /\ it' = it + 1
        /\ inst_list # <<>>
        /\ UNCHANGED <<analysis, inst_list, direction>>
    BY <1>1, <1>2 DEF Scan, LoopsInv, inst_list, direction
  <2>2. current_instruction = c[it - 1] /\ (is_viable <=> Compared(it - 1))
    BY <2>1 DEF LoopsInv
  <2>3. current_instruction' = c[it]
    BY <1>1, <1>2, <2>1, <2>2, CandidatesEquation DEF Scan
  <2>4. is_viable' <=> Compared(it)
    <3>1. is_viable' <=> /\ Compared(it - 1)
                         /\ get_first_of_two(analysis, c[it - 1], inst_list[it]) # nullptr
      BY <1>2, <2>2 DEF Scan
    <3>2. \A j : j \in 2 .. it <=> j \in 2 .. it - 1 \/ j = it
      BY <2>1
    <3>3. QED
      BY <3>1, <3>2 DEF Compared
  <2>5. it' - 1 = it /\ it' \in 2 .. n + 1
    BY <1>1, <2>1
  <2>6. Compared(it - 1)' <=> Compared(it)
    BY <2>1, <2>5 DEF Compared
  <2>7. current_instruction' = Candidates(analysis, direction, inst_list)'[it' - 1]
    BY <2>1, <2>3, <2>5
  <2>8. QED
    BY <2>1, <2>4, <2>5, <2>6, <2>7 DEF LoopsInv, ScanMeetsExtremeOf
<1>3. CASE ScanEnds
  <2>1. /\ at = "scan" /\ it' = 1 /\ at' = IF is_viable THEN "return" ELSE "recheck"
        /\ inst_list # <<>>
        /\ UNCHANGED <<analysis, inst_list, direction, current_instruction>>
    BY <1>3 DEF ScanEnds, LoopsInv, inst_list, direction
  <2>2. it - 1 = n
    BY <1>1, <1>3, <2>1 DEF ScanEnds, LoopsInv
  <2>3. current_instruction = c[n] /\ (is_viable <=> Compared(n))
    BY <2>1, <2>2 DEF LoopsInv
  <2>4. at' = "return" => ScanMeetsExtremeOf'
    <3>1. is_viable => ExtremeOf(analysis, direction, inst_list) = c[n]
      BY <2>1, <2>3, ExtremeOfCases
    <3>2. QED
      BY <2>1, <2>3, <3>1 DEF ScanMeetsExtremeOf
  <2>5. at' = "recheck" => ~Compared(n)
    BY <2>1, <2>3
  <2>6. it' \in 1 .. n + 1 /\ 1 .. it' - 1 = {}
    BY <1>1, <2>1
  <2>7. Passed(it - 1)'
    BY <2>6 DEF Passed
  <2>8. QED
    BY <2>1, <2>3, <2>4, <2>5, <2>6, <2>7 DEF LoopsInv, ScanMeetsExtremeOf, Compared
<1>4. CASE Recheck
  <2>1. /\ at = "recheck" /\ it \in 1 .. n
        /\ inst_list # <<>>
        /\ UNCHANGED <<analysis, inst_list, direction>>
    BY <1>1, <1>4 DEF Recheck, LoopsInv, inst_list, direction
  <2>2. current_instruction = c[n] /\ ~Compared(n) /\ Passed(it - 1)
    BY <2>1 DEF LoopsInv
  <2>3. CASE FailsRecheck(analysis, direction, current_instruction, inst_list[it])
    <3>1. at' = "return" /\ current_instruction' = nullptr
      BY <1>4, <2>3 DEF Recheck
    <3>2. it \in DOMAIN inst_list
      BY <1>1, <2>1
    <3>3. ExtremeOf(analysis, direction, inst_list) = nullptr
      BY <2>1, <2>2, <2>3, <3>2, ExtremeOfCases
    <3>4. QED
      BY <2>1, <3>1, <3>3 DEF LoopsInv, ScanMeetsExtremeOf
  <2>4. CASE ~FailsRecheck(analysis, direction, current_instruction, inst_list[it])
    <3>1. at' = "recheck" /\ it' = it + 1 /\ current_instruction' = current_instruction
      BY <1>4, <2>1, <2>4 DEF Recheck
    <3>2. \A j : j \in 1 .. it <=> j \in 1 .. it - 1 \/ j = it
      BY <2>1
    <3>3. Passed(it)
      BY <2>2, <2>4, <3>2 DEF Passed
    <3>4. it' - 1 = it /\ it' \in 1 .. n + 1
      BY <1>1, <2>1, <3>1
    <3>5. QED
      BY <2>1, <2>2, <3>1, <3>3, <3>4 DEF LoopsInv, ScanMeetsExtremeOf, Passed, Compared
  <2>5. QED
    BY <2>3, <2>4
<1>5. CASE RecheckEnds
  <2>1. /\ at = "recheck" /\ at' = "return" /\ it = n + 1
        /\ inst_list # <<>>
        /\ UNCHANGED <<analysis, inst_list, direction, current_instruction>>
    BY <1>1, <1>5 DEF RecheckEnds, LoopsInv, inst_list, direction
  <2>2. current_instruction = c[n] /\ Passed(n)
    <3>1. it - 1 = n
      BY <1>1, <2>1
    <3>2. QED
      BY <2>1, <3>1 DEF LoopsInv
  <2>3. \A k \in DOMAIN inst_list : k \in 1 .. n
    BY <1>1
  <2>4. ExtremeOf(analysis, direction, inst_list) = c[n]
    BY <2>1, <2>2, <2>3, ExtremeOfCases DEF Passed
  <2>5. QED
    BY <2>1, <2>2, <2>4 DEF LoopsInv, ScanMeetsExtremeOf
<1>6. CASE UNCHANGED scanVars
  BY <1>6 DEF LoopsInv, scanVars, inst_list, direction, Compared, Passed, ScanMeetsExtremeOf
<1>7. QED
  BY <1>2, <1>3, <1>4, <1>5, <1>6 DEF ScanNext, ScanReturned

(* The two loops of get_first_instruction and get_last_instruction return  *)
(* what their callers are modelled with, for every graph and every list.   *)
THEOREM ScanIsExtremeOf == ScanSpec => []ScanMeetsExtremeOf
<1>1. LoopsInv => ScanMeetsExtremeOf
  BY DEF LoopsInv
<1>2. QED
  BY <1>1, InitTypes, NextTypes, InitLoops, NextLoops, PTL DEF ScanSpec
=============================================================================

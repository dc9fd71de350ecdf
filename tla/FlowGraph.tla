----------------------------- MODULE FlowGraph -----------------------------
(***************************************************************************)
(* Flow graphs of functions, and what LLVM's analyses say about them.  A   *)
(* graph g has one instruction per node: g.entry, g.exit and the           *)
(* successors g.succ of each node.  Two PHI nodes of one block, which are  *)
(* unordered, are one node.                                                *)
(***************************************************************************)
EXTENDS Integers, Sequences, FiniteSets

nullptr == 0

-----------------------------------------------------------------------------
(* Paths and the dominator trees.  A set of nodes that is closed under the *)
(* edges but those out of node a, and that holds the start and not b,      *)
(* shows that every path from the start to b passes a.                     *)

Nodes(g) == DOMAIN g.succ

Closed(g, S, cut) == \A n \in S \ cut : g.succ[n] \subseteq S

Reaches(g, a, b) == \A S \in SUBSET Nodes(g) : a \in S /\ Closed(g, S, {}) => b \in S

\* From a to b by one edge at least.
Follows(g, a, b) == \E n \in g.succ[a] : Reaches(g, n, b)

Dominates(g, a, b) ==
  /\ a # b
  /\ \E S \in SUBSET Nodes(g) : g.entry \in S /\ Closed(g, S, {a}) /\ b \notin S

PostDominates(g, a, b) ==
  \/ a = b
  \/ \E S \in SUBSET Nodes(g) : b \in S /\ Closed(g, S, {a}) /\ g.exit \notin S

\* The two trees of a function: for each node the nodes it (post)dominates.
Analysis(g) ==
  [domtree  |-> [a \in Nodes(g) |-> {b \in Nodes(g) : Dominates(g, a, b)}],
   pdomtree |-> [a \in Nodes(g) |-> {b \in Nodes(g) : PostDominates(g, a, b)}]]

\* Every instruction can be executed, and the function can return from it.
Proper(g) == \A n \in Nodes(g) : Reaches(g, g.entry, n) /\ Reaches(g, n, g.exit)

Acyclic(g) == \A n \in Nodes(g) : ~Follows(g, n, n)

-----------------------------------------------------------------------------
(* Natural loops, named by their headers.                                  *)

ReachesAvoiding(g, a, b, cut) ==
  \A S \in SUBSET Nodes(g) : a \in S /\ Closed(g, S, {cut}) => b \in S

\* An edge back to the header of a loop.
IsBackEdge(g, n, h) == h = n \/ Dominates(g, h, n)

Latches(g, h) == {n \in Nodes(g) : h \in g.succ[n] /\ IsBackEdge(g, n, h)}

LoopBody(g, h) ==
  {h} \cup {n \in Nodes(g) : /\ Dominates(g, h, n)
                             /\ \E l \in Latches(g, h) \ {h} : ReachesAvoiding(g, n, l, h)}

\* The loops of a function, each with the nodes it contains.
LoopInfo(g) == [h \in {n \in Nodes(g) : Latches(g, n) # {}} |-> LoopBody(g, h)]

LoopsAround(loops, n) == {h \in DOMAIN loops : n \in loops[h]}

\* The innermost loop around n, nullptr when there is none.
LoopFor(loops, n) ==
  LET around == LoopsAround(loops, n)
  IN  IF around = {} THEN nullptr
      ELSE CHOOSE h \in around : \A k \in around : loops[h] \subseteq loops[k]

-----------------------------------------------------------------------------
(* One execution of the bodies of loops.                                   *)

WithEdges(g, succ) == [entry |-> g.entry, exit |-> g.exit, succ |-> succ]

Forward(g) ==
  WithEdges(g, [n \in Nodes(g) |-> {h \in g.succ[n] : ~IsBackEdge(g, n, h)}])

\* Without the edges back to their headers no loop is left.
Reducible(g) == Acyclic(Forward(g))

\* One iteration of the loops around a: their edges back leave the function.
Iteration(g, a) ==
  WithEdges(g, [n \in Nodes(g) |->
    {IF IsBackEdge(g, n, h) /\ a \in LoopBody(g, h) THEN g.exit ELSE h : h \in g.succ[n]}])

(* a is on every path to b, and b on every path on from a in the same      *)
(* iteration of the loops around a.                                        *)
Encloses(g, a, b) == Dominates(g, a, b) /\ PostDominates(Iteration(g, a), b, a)

(* Each time a is executed b is executed once behind it, and each time b   *)
(* is, once a before it.                                                   *)
Bracket(g, loops, a, b) ==
  Encloses(g, a, b) /\ LoopsAround(loops, a) = LoopsAround(loops, b)
=============================================================================

------------------------- MODULE MCInstructionScan -------------------------
(* Flow graphs of five instructions with two-way branches: all that have   *)
(* only forward edges, and those with one loop on top.  Their lists are    *)
(* the three instructions between entry and exit, in every order.          *)
EXTENDS InstructionScan, TLC

Branches(S) == {T \in SUBSET S : Cardinality(T) \in {1, 2}}

Graphs ==
  {[entry |-> 1, exit |-> 5, succ |-> <<s1, s2, s3, s4, {}>>] :
     s1 \in Branches(2 .. 5), s2 \in Branches(3 .. 5), s3 \in Branches(4 .. 5),
     s4 \in {{5}, {2, 5}, {3, 5}}}

MCGraphs == {g \in Graphs : Proper(g)}

MCInputs ==
  {[graph |-> g, direction |-> d, inst_list |-> l] :
     g \in MCGraphs, d \in {"first", "last"},
     l \in {<<p[2], p[3], p[4]>> : p \in Permutations(2 .. 4)}}
=============================================================================

------------------------- MODULE MCRequestHoisting -------------------------
(* A partitioned send in a branch and behind one, and in one, two and      *)
(* three loops, one of them in a branch, with one or two loads, calls or   *)
(* PHI nodes that its arguments are computed from, and stores at any of    *)
(* the other instructions.                                                 *)
EXTENDS RequestHoisting, TLC, SequencesExt

\* g: the graph; fork and send.
At(g, fork) == [graph |-> g, fork |-> fork, send |-> fork + 1]
Graph(succ) == [entry |-> 1, exit |-> Len(succ), succ |-> succ]

NoLoop == At(Graph(<<{2}, {3}, {4}, {5}, {6}, {}>>), 4)
Branch == At(Graph(<<{2}, {3, 4}, {4}, {5}, {6}, {7}, {}>>), 5)
InBranch == At(Graph(<<{2}, {3, 6}, {4}, {5}, {6}, {7}, {}>>), 4)
LoopInBranch == At(Graph(<<{2}, {3, 8}, {4}, {5}, {6}, {4, 7}, {8}, {9}, {}>>), 5)
DoWhile == At(Graph(<<{2}, {3}, {4}, {5}, {6}, {7}, {3, 8}, {9}, {}>>), 5)
While == At(Graph(<<{2}, {3, 7}, {4}, {5}, {6}, {2}, {8}, {}>>), 5)
Continue == At(Graph(<<{2}, {3}, {4, 6}, {5}, {6}, {2, 7}, {8}, {}>>), 4)
Break == At(Graph(<<{2}, {3}, {4, 7}, {5}, {6}, {2, 7}, {8}, {}>>), 4)
BreakInBranch == At(Graph(<<{2}, {3, 4}, {4, 7}, {5}, {6}, {2}, {8}, {}>>), 5)
TwoLoops == At(Graph(<<{2}, {3}, {4}, {5}, {6}, {3, 7}, {2, 8}, {9}, {}>>), 5)
TwoWhile == At(Graph(<<{2}, {3, 8}, {4, 7}, {5}, {6}, {3}, {2}, {9}, {}>>), 5)
ThreeLoops == At(Graph(<<{2}, {3}, {4}, {5}, {6}, {4, 7}, {3, 8}, {2, 9}, {10}, {}>>), 5)

Upwards == <<1, 2, 3, 4, 5, 6, 7, 8, 9>>

\* uses: an order of the instructions.
Build(place, leaf, args, stores, mpi_init, uses) ==
  LET kind == [n \in stores |-> IF n = place.fork THEN "fork" ELSE "store"]
              @@ [n \in {m \in DOMAIN leaf : leaf[m] = "load"} |-> "load"]
  IN  place @@ [leaf  |-> leaf, args |-> args, mpi_init |-> mpi_init,
                kind  |-> [ptr |-> kind, gep |-> <<>>],
                users |-> [ptr |-> SelectSeq(uses, LAMBDA n : n \in DOMAIN kind),
                           gep |-> <<>>],
                buffer |-> "ptr"]

\* The instructions an argument can be computed from.
Before(place) == {n \in 2 .. place.fork - 1 : Dominates(place.graph, n, place.fork)}

\* Leaves and arguments: one load, or a load and another leaf, in one or in
\* two arguments.
Arguments(place) ==
  {<<(n :> "load"), <<<<n>>>>>> : n \in Before(place)}
  \cup UNION {{<<(n :> "load") @@ (m :> kind), args>> :
                kind \in {"load", "call", "phi"}, args \in {<<<<n>>, <<m>>>>, <<<<m, n>>>>}} :
              n \in Before(place), m \in Before(place)}

MaxStores == 3

\* MPI_Init is one of the first instructions, not in a loop, or in another function.
FunctionsAt(place, a) ==
  {Build(place, a[1], a[2], stores, i, uses) :
     stores \in {s \in SUBSET ((1 .. Len(place.graph.succ) - 1) \ (DOMAIN a[1] \cup {place.send})) :
                  Cardinality(s) <= MaxStores},
     i \in {nullptr} \cup {n \in {2, 3} \ DOMAIN a[1] : ~Follows(place.graph, n, n)},
     uses \in {Upwards, Reverse(Upwards)}}

Places == {NoLoop, Branch, InBranch, LoopInBranch, DoWhile, While, Continue, Break, BreakInBranch, TwoLoops, TwoWhile, ThreeLoops}

\* One family for each place and each list of arguments without repetition.
MCFunctions ==
  [x \in UNION {{<<place, a>> : a \in {b \in Arguments(place) : \A arg \in ToSet(b[2]) : IsInjective(arg)}} :
                place \in Places} |-> FunctionsAt(x[1], x[2])]

\* One argument that changes in the loop.
MCArgumentInLoop == <<FunctionsAt(DoWhile, <<(3 :> "load"), <<<<3>>>>>>)>>
=============================================================================

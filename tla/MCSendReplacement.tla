------------------------- MODULE MCSendReplacement -------------------------
(* Functions of six instructions, the fourth of which is an MPI_Send: with *)
(* branches, one or two loops, continues and early returns.  One of the    *)
(* others is a fork call, the rest use the buffer or do not.  And          *)
(* functions of seven with an MPI_Isend or an MPI_Send, receives, waits    *)
(* and MPI_Finalize.                                                       *)
EXTENDS SendReplacement, TLC, SequencesExt

Graphs(S1, S2, S3, S4, S5) ==
  {g \in {[entry |-> 1, exit |-> 6, succ |-> <<s1, s2, s3, s4, s5, {}>>] :
            s1 \in S1, s2 \in S2, s3 \in S3, s4 \in S4, s5 \in S5}
   : Proper(g) /\ Reducible(g)}

Users(k) == {n \in DOMAIN k : k[n] # "none"}

\* The uses in through are those of the second pointer.
Function(g, k, through, b, order) ==
  LET uses == [n \in Users(k) |-> k[n]] @@ (4 :> "send")
      gep  == through \cup IF b = "gep" THEN {4} ELSE {}
      List(S) == SelectSeq(order, LAMBDA n : n \in S)
      kind == [ptr |-> [n \in DOMAIN uses \ gep |-> uses[n]], gep |-> [n \in gep |-> uses[n]]]
      calls == {n \in DOMAIN uses : uses[n] \in {"send", "recv"}}
  IN  [graph |-> g, send |-> 4, buffer |-> b, kind |-> kind,
       call  |-> [n \in calls |-> [name |-> IF uses[n] = "send" THEN "MPI_Send" ELSE "MPI_Recv"]],
       calls |-> List(calls), uses |-> [n \in Nodes(g) |-> {}],
       users |-> [p \in Pointers |-> List(DOMAIN kind[p])]]

\* Instruction 2 may compute a second pointer, through which the others then
\* use the buffer.
Kinds == {k \in [{2, 3, 5} -> {"none", "store", "load", "recv", "fork", "gep"}] :
            /\ Cardinality({n \in {2, 3, 5} : k[n] = "fork"}) = 1
            /\ "gep" \notin {k[3], k[5]} /\ k[2] # "recv"}

\* A pointer is computed before it is used.
WellFormed(f) == \A n \in DOMAIN f.kind["gep"] : Dominates(f.graph, 2, n)

FunctionsOver(graphs) ==
  {f \in {Function(g, k, IF k[2] = "gep" THEN Users(k) \ {2} ELSE {}, b, order) : g \in graphs, k \in Kinds, b \in Pointers,
            order \in {<<2, 3, 4, 5>>, <<5, 4, 3, 2>>}}
   : (f.buffer = "gep" => f.kind["ptr"] # <<>> /\ 2 \in DOMAIN f.kind["ptr"] /\ f.kind["ptr"][2] = "gep")
     /\ WellFormed(f)}

\* The last graph has the send alone in a loop, and branches behind it.
Blocking ==
  FunctionsOver(Graphs({{2}, {2, 3}}, {{3}, {4}, {3, 5}}, {{4}, {4, 5}},
                       {{5}, {2, 5}, {5, 6}}, {{6}, {2, 6}, {3, 6}, {2}})
                \cup Graphs({{2}}, {{4}}, {{6}}, {{3, 4, 5}}, {{6}}))

\* One function for each condition of RegionOnEveryPathIsLatest, compiled wrong
\* because it does not meet that one.
Excluded ==
  LET \* for (;;) { fork; if (done) break; store; send; }
      bothOrders == <<<<{2}, {3, 5}, {4}, {2}, {6}, {}>>,
                      <<"none", "fork", "store">>, {}, "ptr", <<2, 3, 4>>>>
      \* fork; for (;;) { send; if (c) store; store; if (d) store; if (e) break; }
      noOrder == <<<<{2}, {4}, {5}, {3, 5}, {6, 7}, {4, 7}, {}>>,
                   <<"none", "fork", "store", "none", "store", "store">>, {}, "ptr", <<4, 2, 3, 5, 6>>>>
      \* for (;;) { fork; if (c) { store; if (d) break; } send; }
      leftOut == <<<<{2}, {3, 4}, {4, 6}, {5}, {2}, {}>>,
                   <<"none", "fork", "store">>, {}, "ptr", <<2, 3, 4>>>>
      \* The same, with a second pointer for the store.
      leftOutGep == <<<<{2}, {3, 4}, {5, 6}, {2}, {4, 6}, {}>>,
                      <<"none", "fork", "gep", "none", "store">>, {5}, "ptr", <<2, 3, 4, 5>>>>
      \* A fork through the second pointer, a store through the first one.
      otherPointer == <<<<{2}, {3}, {5}, {6}, {4}, {}>>,
                        <<"none", "gep", "fork", "none", "store">>, {3}, "gep", <<2, 3, 4, 5>>>>
      \* gep; fork; for (;;) { send; store; load; if (c) break; }
      outsideOfLoop == <<<<{2}, {3}, {4}, {5}, {6}, {4, 7}, {}>>,
                         <<"none", "gep", "fork", "none", "store", "load">>, {5}, "ptr", <<2, 3, 4, 5, 6>>>>
  IN  {Function([entry |-> 1, exit |-> Len(f[1]), succ |-> f[1]], f[2], f[3], f[4], f[5])
       : f \in {bothOrders, noOrder, leftOut, leftOutGep, otherPointer, outsideOfLoop}}

-----------------------------------------------------------------------------
(* Non-blocking: what the instructions 2 to 6 do.                          *)

Request(variable, index) == [variable |-> variable, index |-> index]

\* An unknown index may be 0.
Locations(q) == {IF q.index = unknown THEN <<q.variable, 0>> ELSE Location(q)}

Isend(q)  == [kind |-> "send", call |-> [name |-> "MPI_Isend", request |-> q], uses |-> Locations(q)]
Irecv(kind, q) ==
  [kind |-> kind, call |-> [name |-> "MPI_Irecv", request |-> q], uses |-> Locations(q)]
Wait(q)   == [kind |-> "none", call |-> [name |-> "MPI_Wait", request |-> q], uses |-> Locations(q)]
Waitall(count)  ==
  [kind |-> "none", call |-> [name |-> "MPI_Waitall", array |-> "a", begin |-> 0, count |-> count],
   uses |-> {<<"a", i>> : i \in 0 .. IF count = unknown THEN 1 ELSE count - 1}]
Plain(kind, name) == [kind |-> kind, call |-> [name |-> name], uses |-> {}]

Fork == Plain("fork", "__kmpc_fork_call")
Other == {Plain("none", "none"), Plain("recv", "MPI_Recv")}

one == Request("s", scalar)
a0 == Request("a", 0)
a1 == Request("a", 1)

\* The send, and the instructions beside it and the fork call.
Styles ==
  <<<<Isend(one), Other \cup {Irecv("recv", one), Irecv("recv", a1), Wait(one), Wait(a1), Plain("none", "MPI_Finalize")}>>,
   <<Isend(a0), Other \cup {Irecv("recv", a1), Irecv("none", a1),
                     Wait(a0), Wait(a1), Waitall(2), Waitall(1), Waitall(unknown)}>>,
   <<Isend(Request("a", unknown)), Other \cup {Wait(a0), Waitall(2), Plain("none", "MPI_Finalize")}>>,
   <<Plain("send", "MPI_Send"), Other \cup {Irecv("recv", a1), Wait(a1), Waitall(unknown)}>>>>

\* No receive runs when the buffer is used, nothing when it is modified; only
\* a request that nothing runs on is set, and only one that was is waited for;
\* nothing runs at MPI_Finalize and at the end.
MayExecute(f, n, requests) ==
  LET running  == {m \in {requests[l] : l \in DOMAIN requests} : m > 0}
      onBuffer == {m \in running : KindOf(f, m) # "none"}
  IN  /\ KindOf(f, n) # "none" => \A m \in onBuffer : ~Modifies(f, m) /\ ~Modifies(f, n)
      /\ \A l \in f.uses[n] : IF Starts(f, n) THEN requests[l] \in {nullptr, Uninitialised}
                                            ELSE requests[l] # Uninitialised
      /\ n = f.graph.exit \/ IsCall(f, n, {"MPI_Finalize"}) => running = {}

\* On all paths of up to 16 instructions.
UsesMpiProperly(f) ==
  LET locations == UNION {f.uses[n] : n \in Nodes(f.graph)}
      after[k \in 0 .. 16] ==
        IF k = 0 THEN {<<f.graph.entry, [l \in locations |-> Uninitialised]>>}
        ELSE UNION {{<<n, RequestsAfter(f, at[1], at[2])>> : n \in f.graph.succ[at[1]]} : at \in after[k - 1]}
  IN  \A k \in 0 .. 16 : \A at \in after[k] : MayExecute(f, at[1], at[2])

NonBlocking(g, at, sendAt, order) ==
  LET calls == SelectSeq(order, LAMBDA n : at[n].call.name \notin {"none", "__kmpc_fork_call"})
      users == SelectSeq(order, LAMBDA n : at[n].kind # "none")
  IN  [graph |-> g, send |-> sendAt, buffer |-> "ptr",
       kind  |-> [ptr |-> [n \in ToSet(users) |-> at[n].kind], gep |-> <<>>],
       users |-> [ptr |-> users, gep |-> <<>>],
       call  |-> [n \in ToSet(calls) |-> at[n].call], calls |-> calls,
       uses  |-> [n \in Nodes(g) |-> IF n \in DOMAIN at THEN at[n].uses ELSE {}]]

NonBlockingOver(graphs, style, forkAt, sendAt) ==
  LET rest == (2 .. 6) \ {forkAt, sendAt}
      Build(g, other) ==
        NonBlocking(g, other @@ (forkAt :> Fork) @@ (sendAt :> style[1]), sendAt, <<2, 3, 4, 5, 6>>)
      \* Something waits for the send, and for each receive.
      Waited(other) ==
        \A l \in style[1].uses \cup UNION {other[n].uses : n \in {m \in rest : other[m].call.name = "MPI_Irecv"}} :
          \E n \in rest : other[n].call.name \in {"MPI_Wait", "MPI_Waitall"} /\ l \in other[n].uses
  IN  {f \in {Build(g, other) : g \in graphs, other \in {o \in [rest -> style[2]] : Waited(o)}}
       : UsesMpiProperly(f)}

Seven(s2, s3, s4, s5, s6) ==
  [entry |-> 1, exit |-> 7, succ |-> <<{2}, s2, s3, s4, s5, s6, {}>>]

SevenGraphs ==
  {Seven({3}, {4}, {5}, {6}, {7}), Seven({3}, {4}, {5}, {6}, {2, 7}),
   Seven({3}, {4}, {5}, {2, 6}, {7}), Seven({3}, {4}, {5, 6}, {7}, {7}),
   Seven({3, 4}, {5}, {5}, {6}, {7}), Seven({3}, {4, 5}, {5}, {6}, {2, 7}),
   Seven({3}, {4, 5}, {5}, {6}, {7}), Seven({3}, {4, 5}, {6, 7}, {6}, {7})}

Places == <<<<2, 3>>, <<2, 4>>, <<2, 5>>, <<2, 6>>, <<3, 4>>, <<3, 5>>, <<3, 6>>, <<4, 5>>>>

\* As above, for the receives that are ignored.
ExcludedReceives ==
  LET elsewhere == Irecv("none", a0)
      \* fork; if (c) { MPI_Recv; if (d) goto wait; } MPI_Isend; wait: MPI_Wait;
      notOrdered ==
        <<<<{2}, {3}, {4}, {5, 6}, {6, 7}, {7}, {8}, {}>>,
          <<elsewhere, [Waitall(unknown) EXCEPT !.uses = {<<"a", 0>>}], Fork, Plain("recv", "MPI_Recv"),
            Isend(a0), Wait(a0)>>, <<2, 3, 4, 5, 6, 7>>>>
      \* for (;;) { fork; if (c) MPI_Irecv; else other; MPI_Wait; if (d) break;
      \*            MPI_Send; other; MPI_Wait; }
      inLoop ==
        <<<<{2}, {3, 4}, {5}, {5}, {6, 9}, {7}, {8}, {2}, {}>>,
          <<Fork, Irecv("recv", a0), elsewhere, Wait(a0), Plain("send", "MPI_Send"), elsewhere, Wait(a0)>>,
          <<8, 7, 6, 5, 4, 3, 2>>>>
  IN  {NonBlocking([entry |-> 1, exit |-> Len(f[1]), succ |-> f[1]],
                   [n \in 2 .. Len(f[2]) + 1 |-> f[2][n - 1]], 6, f[3])
       : f \in {notOrdered, inLoop}}

\* For the conditions of CompletionPointIsFirstWait, what the pass does not find.
ExcludedWaits ==
  LET Finalize == Plain("none", "MPI_Finalize")
      \* if (a) { MPI_Isend; MPI_Wait; if (b) { MPI_Finalize; return; } }
      \* MPI_Finalize;
      someEnds  == <<<<{2, 5}, {3}, {4, 5}, {6}, {6}, {}>>,
                     <<Isend(one), Wait(one), Finalize, Finalize>>>>
      anyWait   == <<<<{2}, {3}, {4}, {}>>, <<Isend(a0), Wait(Request("a", unknown))>>>>
      waitall   == [Waitall(1) EXCEPT !.call.array = "s", !.uses = {<<"s", 0>>}]
      onlyOne   == <<<<{2}, {3}, {4}, {}>>, <<Isend(one), waitall>>>>
  IN  {NonBlocking([entry |-> 1, exit |-> Len(f[1]), succ |-> f[1]],
                   [n \in 2 .. Len(f[2]) + 1 |-> f[2][n - 1]], 2,
                   [i \in DOMAIN f[2] |-> i + 1])
       : f \in {someEnds, anyWait, onlyOne}}

MCFunctions ==
  [i \in 0 .. 33 |->
    IF i = 0 THEN Blocking
    ELSE IF i = 33 THEN Excluded \cup ExcludedReceives \cup ExcludedWaits
    ELSE NonBlockingOver(SevenGraphs, Styles[1 + ((i - 1) \div 8)],
                         Places[1 + (i % 8)][1], Places[1 + (i % 8)][2])]

(* One request for a receive and the send behind it.                       *)
MCReuse ==
  <<NonBlockingOver({Seven({3}, {4}, {5}, {6}, {7})},
      <<Isend(one), {Irecv("none", one), Wait(one)}>>, 4, 5)>>
=============================================================================

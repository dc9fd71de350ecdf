---------------------------- MODULE MCPassDriver ----------------------------
(* Two sends, in one or two functions, of buffers that one or two regions  *)
(* fill, and three sends of what one region fills.                         *)
EXTENDS PassDriver

Store(base, offset) == [after_loop |-> FALSE, base |-> base, offset |-> offset]

main == <<0, 0>>
foo  == <<0, 1>>

Plain == [function |-> main, readonly |-> FALSE, parallel_for |-> TRUE, calls |-> <<>>,
           stores |-> <<Store("a", 0)>>, affine |-> TRUE, asked |-> <<"SCEV">>]

Stores ==
  {<<>>, <<[after_loop |-> TRUE, base |-> "a", offset |-> 0]>>}
  \cup {<<Store("a", 0)>> \o rest :
          rest \in {<<>>} \cup {<<Store(b, o)>> : b \in {"a", "b"}, o \in -1 .. 1}
                   \cup {<<Store("a", o), Store("a", p)>> : o \in -1 .. 1, p \in -1 .. 1}}

\* Expressions of known values; one of a value that is looked for in the
\* caller, the last that is read, or not.
Built == {<<"SCEV">>, <<"SCEV", "PDT", "DT">>, <<"SCEV", "PDT", "DT", "SCEV">>}

Calls == {<<>>, <<"other">>, <<"aliasing">>, <<"other", "aliasing">>}

Regions ==
  {[Plain EXCEPT !.readonly = TRUE], [Plain EXCEPT !.parallel_for = FALSE]}
  \cup {[Plain EXCEPT !.calls = calls, !.stores = stores, !.affine = affine,
                       !.asked = asked] :
          calls \in Calls, stores \in Stores, affine \in BOOLEAN, asked \in Built}

\* Fewer, one for each decision.
DifferentRegions ==
  {q \in Regions : /\ Len(q.stores) <= 2 /\ Len(q.calls) <= 1 /\ Len(q.asked) # 3
                   /\ \A i \in DOMAIN q.stores : q.stores[i].offset = 0}

\* Nothing, the calls that overlap, or the uses of the buffer are compared.
Asked == {<<>>, <<"PDT", "DT">>, <<"LI", "DT">>, <<"LI", "DT", "PDT", "LI">>}

Sends(function, regions) ==
  {[name |-> name, function |-> function, region |-> q, asked |-> asked] :
     name \in {"MPI_Send", "MPI_Isend"}, q \in regions, asked \in Asked}

\* A region was found by looking at the uses of the buffer.
WellFormed(sends) ==
  \A i \in DOMAIN sends : sends[i].region # nullptr => "LI" \in {sends[i].asked[k] : k \in DOMAIN sends[i].asked}

OneRegion ==
  {[sends |-> sends, regions |-> <<q>>] :
     sends \in {t \in {<<a>> : a \in Sends(main, {0, 1})}
                 \cup {<<a, [b EXCEPT !.name = "MPI_Send"]>> : a \in Sends(main, {1}), b \in Sends(main, {0, 1})} :
                WellFormed(t)},
     q \in Regions}

TwoRegions ==
  {[sends |-> sends, regions |-> <<p, q>>] :
     sends \in {t \in {<<a, b>> : a \in Sends(main, {1}), b \in Sends(main, {2})} :
                /\ WellFormed(t) /\ Len(t[1].asked) = 4 /\ t[2].name = "MPI_Send"},
     p \in DifferentRegions, q \in DifferentRegions}

TwoFunctions ==
  {[sends |-> sends, regions |-> <<q>>] :
     sends \in {t \in {<<a, b, c>> : a \in Sends(main, {1}), b \in Sends(foo, {0}), c \in Sends(main, {0, 1})} :
                WellFormed(t) /\ t[1].name = "MPI_Isend"},
     q \in {Plain}}

ThreeSends ==
  {[sends |-> <<a, b, a>>, regions |-> <<q>>] :
     a \in {t \in Sends(main, {1}) : Len(t.asked) = 4},
     b \in [name : {"MPI_Isend", "MPI_Sendrecv"}, function : {main}, region : {1}, asked : {<<"LI", "DT">>}],
     q \in DifferentRegions}

MCModules == <<OneRegion, TwoRegions, TwoFunctions, ThreeSends>>
=============================================================================

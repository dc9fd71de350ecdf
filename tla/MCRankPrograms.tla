--------------------------- MODULE MCRankPrograms ---------------------------
(* The programs of src/, on one to three ranks, as they are and with some  *)
(* of their sends replaced.                                                *)
EXTENDS RankPrograms, TLC

Demo == INSTANCE DemoPrograms

MCRanks == 0 .. 2
MCProcNull == -1

MCRequests == {"r", "correct", "false_positives", "error",
               "even_pre", "even_nxt", "odd_pre", "odd_nxt",
               "north", "south", "east", "west", "first", "second"}

\* check_impl.c with the call that is commented out in it, too.
CorrectOnly ==
  [code  |-> [r \in Ranks |-> CASE r = 0 -> Demo!correct_usage(2, 2)
                                [] r = 1 -> Demo!Receiver(1) [] OTHER -> <<>>],
   sends |-> [r \in Ranks |-> IF r = 0 THEN <<[to |-> 1, msg |-> <<"correct", 1>>]>> ELSE <<>>]]

ReplacedIn(program, choices, hoisted, n) ==
  [i \in DOMAIN choices |-> Demo!Transformed(program, choices[i], hoisted, n)]

\* With two ranks only these two sites are reached.
SomeOfTwo == <<<<>>, <<"even_nxt">>, <<"odd_pre">>, <<"even_nxt", "odd_pre">>>>

SomeOfThree == <<<<"even_pre">>, <<"odd_pre", "even_nxt">>, <<"odd_nxt", "odd_pre", "even_nxt">>,
                 Demo!StencilSites>>

(* Two messages of rank 0 for rank 1 in one iteration.  Where only the      *)
(* first is replaced, its delayed start is overtaken by the second: that    *)
(* text does not meet TextsSendInOrder.                                    *)
TwoMessages ==
  [sites |-> <<"first", "second">>,
   dest  |-> [r \in Ranks |-> [q \in {"first", "second"} |-> 1]],
   iteration |-> [r \in Ranks |->
     CASE r = 0 -> Demo!Region \o Demo!MPI_Isend(1, "first") \o Demo!MPI_Isend(1, "second")
                   \o Demo!MPI_Waitall({"first"}) \o Demo!MPI_Waitall({"second"})
       [] r = 1 -> Demo!MPI_Recv(0) \o Demo!MPI_Recv(0)
       [] OTHER -> <<>>]]

(* Two rounds of one request, and a receiver one thread of which reads the *)
(* partition before or after another one marks it.                         *)
TwoRounds ==
  [code  |-> [r \in Ranks |->
     CASE r = 0 -> <<[op |-> "psend_init", req |-> "correct", peer |-> 1, partitions |-> 2, msg |-> "correct"]>>
                   \o Demo!Repeat(Demo!Start("correct")
                        \o Demo!Team(2, 2, [i \in 0 .. 1 |-> Demo!Step("store", "correct", i)
                                                             \o Demo!Step("pready", "correct", i)])
                        \o Demo!WaitAndReturn("correct"), 2)
                   \o Demo!Free("correct")
       [] r = 1 -> <<[op |-> "precv_init", req |-> "r", peer |-> 0, partitions |-> 1]>>
                   \o Demo!Repeat(Demo!Start("r")
                        \o <<[op |-> "fork", threads |-> <<Demo!Step("pready", "r", 0), Demo!Step("load", "r", 0)>>]>>
                        \o Demo!WaitAndReturn("r"), 2)
                   \o Demo!Free("r")
       [] OTHER -> <<>>],
   sends |-> [r \in Ranks |->
     IF r = 0 THEN [k \in 1 .. 2 |-> [to |-> 1, msg |-> <<"correct", k>>]] ELSE <<>>]]

MCScenarios ==
  <<CorrectOnly, TwoRounds, Demo!check_impl(2, 2), Demo!check_impl(2, 4)>>
  \o ReplacedIn(Demo!StencilAlike(2), SomeOfTwo, TRUE, 2)
  \o ReplacedIn(Demo!StencilAlike(2), SomeOfTwo, FALSE, 2)
  \o ReplacedIn(Demo!StencilAlike(3), SomeOfThree, TRUE, 2)
  \o ReplacedIn(Demo!StencilAlike(3), SomeOfThree, FALSE, 1)
  \o ReplacedIn(TwoMessages, <<<<"second">>, <<"first", "second">>>>, FALSE, 2)
  \o ReplacedIn(Demo!Stencil2d(1), <<<<"west">>, Demo!Directions>>, FALSE, 1)

(* Two ranks that exchange a message with MPI_Isend, MPI_Recv and MPI_Wait. *)
IsendExchange ==
  [sites |-> <<"correct">>,
   dest  |-> [r \in Ranks |-> [q \in {"correct"} |-> 1 - r]],
   iteration |-> [r \in Ranks |->
     IF r > 1 THEN <<>>
     ELSE Demo!Region \o Demo!MPI_Isend(1 - r, "correct") \o Demo!MPI_Recv(1 - r)
          \o Demo!MPI_Waitall({"correct"})]]

MCIsendExchange == <<Demo!Transformed(IsendExchange, <<"correct">>, FALSE, 2)>>

\* The order of two messages is lost where only the first starts later.
ASSUME FirstIsOvertaken ==
  ~SendsAreOrdered(Demo!Transformed(TwoMessages, <<"first">>, FALSE, 1))

\* The programs meet what MarksFollowTheText and MessagesFollowTheText are about.
ASSUME ProgramsAreOrdered == TextsMarkInOrder /\ TextsSendInOrder
=============================================================================

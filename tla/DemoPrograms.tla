---------------------------- MODULE DemoPrograms ----------------------------
(***************************************************************************)
(* The programs in demo-codes/ and the runtime's own test, check_impl.c,   *)
(* as sequences of calls for RankPrograms, and what the pass makes of such *)
(* a program when it replaces some of its sends.                           *)
(*                                                                         *)
(* A program has the calls of one iteration for each rank, and its send    *)
(* calls (sites) with their destinations.  "region" marks the parallel     *)
(* region that computes what all sites send.  A site names its request     *)
(* and its message.                                                        *)
(***************************************************************************)
EXTENDS Integers, Sequences, FiniteSets, SequencesExt

CONSTANTS Ranks, MPI_PROC_NULL

Region == <<[op |-> "region"]>>

PostCall(kind, peer, tag, req) ==
  <<[op |-> "post", kind |-> kind, peer |-> peer, tag |-> tag, req |-> req, msg |-> req]>>

MPI_Isend(peer, site) == PostCall("send", peer, "TAG", site)
MPI_Irecv(peer, req)  == PostCall("recv", peer, "TAG", req)
MPI_Waitall(reqs)     == <<[op |-> "wait", reqs |-> reqs]>>
MPI_Send(peer, site)  == MPI_Isend(peer, site) \o MPI_Waitall({site})
MPI_Recv(peer)        == MPI_Irecv(peer, "recv") \o MPI_Waitall({"recv"})

\* The root collects from all others.
MPI_Reduce(r, size) ==
  IF r # 0
  THEN PostCall("send", 0, "reduce", "reduce") \o MPI_Waitall({"reduce"})
  ELSE FlattenSeq([s \in 1 .. size - 1 |->
         PostCall("recv", s, "reduce", "reduce") \o MPI_Waitall({"reduce"})])

-----------------------------------------------------------------------------
(* stencil-alike.c: a chain of ranks, the even ones send first.            *)

StencilSites == <<"even_pre", "even_nxt", "odd_pre", "odd_nxt">>

\* Seeded fault: the odd ranks send first, too.
StencilIteration_AllSendFirst(size, r) ==
  LET pre == r - 1
      nxt == IF r = size - 1 THEN -1 ELSE r + 1
  IN  Region
      \o (IF pre = -1 THEN <<>> ELSE MPI_Send(pre, IF r % 2 = 0 THEN "even_pre" ELSE "odd_pre") \o MPI_Recv(pre))
      \o (IF nxt = -1 THEN <<>> ELSE MPI_Send(nxt, IF r % 2 = 0 THEN "even_nxt" ELSE "odd_nxt") \o MPI_Recv(nxt))
      \o MPI_Reduce(r, size)

\* The exchange with one neighbour, -1 when there is none.
StencilExchange(r, peer, even, odd) ==
  IF peer = -1 THEN <<>>
  ELSE IF r % 2 = 0 THEN MPI_Send(peer, even) \o MPI_Recv(peer)
  ELSE MPI_Recv(peer) \o MPI_Send(peer, odd)

StencilIteration(size, r) ==
  LET pre == r - 1
      nxt == IF r = size - 1 THEN -1 ELSE r + 1
  IN  Region \o StencilExchange(r, pre, "even_pre", "odd_pre")
             \o StencilExchange(r, nxt, "even_nxt", "odd_nxt")
             \o MPI_Reduce(r, size)

StencilAlike(size) ==
  [sites |-> StencilSites,
   dest  |-> [r \in Ranks |-> [q \in ToSet(StencilSites) |->
               IF q \in {"even_pre", "odd_pre"} THEN r - 1
               ELSE IF r = size - 1 THEN -1 ELSE r + 1]],
   iteration |-> [r \in Ranks |-> IF r < size THEN StencilIteration(size, r) ELSE <<>>]]

-----------------------------------------------------------------------------
(* 2d-stencil.c: a square of ranks, non-blocking, one MPI_Waitall.         *)

Directions == <<"north", "south", "east", "west">>

Neighbour(root_numtasks, r, d) ==
  LET n == CASE d = "north" -> r - root_numtasks
             [] d = "south" -> r + root_numtasks
             [] d = "west"  -> r - 1
             [] d = "east"  -> r + 1
  IN  IF n < 0 \/ n >= root_numtasks * root_numtasks THEN MPI_PROC_NULL ELSE n

RecvFrom == [north |-> "from_north", south |-> "from_south",
             east |-> "from_east", west |-> "from_west"]

Stencil2dIteration(root_numtasks, r) ==
  LET All(calls) == FlattenSeq([i \in 1 .. 4 |-> calls[Directions[i]]])
  IN  Region
      \o All([d \in ToSet(Directions) |-> MPI_Irecv(Neighbour(root_numtasks, r, d), RecvFrom[d])])
      \o All([d \in ToSet(Directions) |-> MPI_Isend(Neighbour(root_numtasks, r, d), d)])
      \o MPI_Waitall(ToSet(Directions) \cup {RecvFrom[d] : d \in ToSet(Directions)})

Stencil2d(root_numtasks) ==
  [sites |-> Directions,
   dest  |-> [r \in Ranks |-> [d \in ToSet(Directions) |-> Neighbour(root_numtasks, r, d)]],
   iteration |-> [r \in Ranks |-> IF r < root_numtasks * root_numtasks
                                  THEN Stencil2dIteration(root_numtasks, r) ELSE <<>>]]
-----------------------------------------------------------------------------
(* What the pass makes of a program: for each replaced site init and start *)
(* in front of the region, MPIX_Wait and free instead of the send's wait,  *)
(* and no send.  An MPI_Waitall stays.  Init and free may have been moved  *)
(* out of the loop (hoisted).  The message is one partition, which nobody  *)
(* but MPIX_Wait marks ready.                                              *)

Init(q, peer)     == <<[op |-> "psend_init", req |-> q, peer |-> peer, partitions |-> 1, msg |-> q]>>
Start(q)          == <<[op |-> "start", req |-> q]>>
WaitAndReturn(q)  == <<[op |-> "mpix_wait", req |-> q]>> \o MPI_Waitall({q})
Free(q)           == <<[op |-> "free", req |-> q]>>

\* Concatenates calls[q] for the sites in qs, in the order they are handled.
ForSites(qs, calls) == FlattenSeq([i \in DOMAIN qs |-> calls[qs[i]]])

TransformedCall(c, replaced, dest, hoisted) ==
  LET InitAndStart == [q \in DOMAIN dest |-> (IF hoisted THEN <<>> ELSE Init(q, dest[q])) \o Start(q)]
      WaitAndFree  == [q \in DOMAIN dest |-> WaitAndReturn(q) \o (IF hoisted THEN <<>> ELSE Free(q))]
      wanted(reqs) == SelectSeq(replaced, LAMBDA q : q \in reqs)
  IN  CASE c.op = "region" -> ForSites(replaced, InitAndStart) \o <<c>>
        [] c.op = "post" /\ c.req \in ToSet(replaced) -> <<>>
        [] c.op = "wait" -> ForSites(wanted(c.reqs), WaitAndFree)
                            \o (IF wanted(c.reqs) # <<>> /\ Cardinality(c.reqs) = 1 THEN <<>> ELSE <<c>>)
        [] OTHER -> <<c>>

TransformedIteration(program, r, replaced, hoisted) ==
  LET code == program.iteration[r]
  IN  FlattenSeq([i \in DOMAIN code |->
        TransformedCall(code[i], replaced, program.dest[r], hoisted)])

Repeat(code, n) == FlattenSeq([i \in 1 .. n |-> code])

\* The program on rank r, with n iterations.
TransformedCode(program, r, replaced, hoisted, n) ==
  LET dest == program.dest[r]
      code == Repeat(TransformedIteration(program, r, replaced, hoisted), n)
  IN  IF ~hoisted \/ code = <<>> THEN code
      ELSE ForSites(replaced, [q \in DOMAIN dest |-> Init(q, dest[q])])
           \o code \o ForSites(replaced, [q \in DOMAIN dest |-> Free(q)])

\* What a rank sends in one iteration without partitioning.
Sends(code) ==
  SelectSeq(code, LAMBDA c : c.op = "post" /\ c.kind = "send" /\ c.tag = "TAG" /\ c.peer # MPI_PROC_NULL)

SendsOf(code, n) ==
  FlattenSeq([k \in 1 .. n |-> [i \in DOMAIN Sends(code) |->
    [to |-> Sends(code)[i].peer, msg |-> <<Sends(code)[i].msg, k>>]]])

Transformed(program, replaced, hoisted, n) ==
  [code  |-> [r \in Ranks |-> TransformedCode(program, r, replaced, hoisted, n)],
   sends |-> [r \in Ranks |-> SendsOf(program.iteration[r], n)]]

-----------------------------------------------------------------------------
(* check_impl.c.  PARTITIONS iterations are divided among the threads in   *)
(* contiguous blocks (external); iteration[i] is what one of them does.    *)

Team(threads, n, iteration) ==
  LET block == (n + threads - 1) \div threads
  IN  <<[op |-> "fork", threads |-> [t \in 1 .. threads |->
        FlattenSeq([k \in 1 .. block |->
          LET i == (t - 1) * block + k - 1 IN IF i < n THEN iteration[i] ELSE <<>>])]]>>

Step(op, q, p) == <<[op |-> op, req |-> q, partition |-> p]>>

\* A send to rank 1 around a parallel region.
PartitionedSendOf(q, PARTITIONS, region) ==
  <<[op |-> "psend_init", req |-> q, peer |-> 1, partitions |-> PARTITIONS, msg |-> q]>>
  \o Start(q) \o region \o WaitAndReturn(q) \o Free(q)

correct_usage(PARTITIONS, threads) ==
  PartitionedSendOf("correct", PARTITIONS, Team(threads, PARTITIONS,
    [i \in 0 .. PARTITIONS - 1 |-> Step("store", "correct", i) \o Step("pready", "correct", i)]))

correct_usage_with_false_positives(PARTITIONS, threads) ==
  PartitionedSendOf("false_positives", PARTITIONS, Team(threads, PARTITIONS,
    [i \in 0 .. PARTITIONS - 1 |->
       Step("store", "false_positives", i) \o Step("pready", "false_positives", i)
       \o Step("load", "false_positives", i)]))

\* The second half of the iterations stores the second half of each partition.
error_usage(PARTITIONS, threads) ==
  PartitionedSendOf("error", PARTITIONS, Team(threads, 2 * PARTITIONS,
    [i \in 0 .. 2 * PARTITIONS - 1 |->
       IF i < PARTITIONS THEN Step("store", "error", i) \o Step("pready", "error", i)
       ELSE Step("store", "error", i - PARTITIONS)]))

\* Rank 1 receives the messages one after the other, as one partition.
Receiver(n) ==
  <<[op |-> "precv_init", req |-> "r", peer |-> 0, partitions |-> 1]>>
  \o Repeat(Start("r") \o Step("pready", "r", 0) \o WaitAndReturn("r"), n) \o Free("r")

check_impl(PARTITIONS, threads) ==
  LET sent == <<"false_positives", "error">>
  IN  [code  |-> [r \in Ranks |->
         CASE r = 0 -> correct_usage_with_false_positives(PARTITIONS, threads) \o error_usage(PARTITIONS, threads)
           [] r = 1 -> Receiver(2)
           [] OTHER -> <<>>],
       sends |-> [r \in Ranks |->
         IF r = 0 THEN [i \in 1 .. 2 |-> [to |-> 1, msg |-> <<sent[i], i>>]] ELSE <<>>]]
=============================================================================

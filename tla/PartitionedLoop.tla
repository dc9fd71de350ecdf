-------------------------- MODULE PartitionedLoop --------------------------
(***************************************************************************)
(* The program the pass emits around one parallel loop: the main thread    *)
(* creates the request with partition_sending_op, and then, in each round, *)
(* starts it, forks the team, joins it and waits; the threads run their    *)
(* chunks of schedule(static, chunk_size) and after each one call          *)
(* signoff_partitions_after_loop_iter (insert_partitioning in              *)
(* insert_changes.cpp, the runtime library in lib/).                       *)
(*                                                                         *)
(* The request may be freed after any round and created again, which is    *)
(* the program shape before move_init_and_free_call, or be kept for all    *)
(* rounds, which is the shape after it.                                    *)
(***************************************************************************)
EXTENDS PartitionLayout, MpixRequest

CONSTANTS NumThreads,      \* threads of the OpenMP team
          Geometries,      \* the calls of partition_sending_op looked at
          Peers,           \* destinations other than MPI_PROC_NULL
          MaxRounds        \* bound: how often the sending code is run

ASSUME LoopAssumption ==
  /\ NumThreads \in Nat \ {0}
  /\ MaxRounds \in Nat \ {0}
  /\ Geometries \subseteq GeometryType
  /\ MPI_PROC_NULL \notin Peers

Threads == 0 .. NumThreads - 1
Dests   == Peers \cup {MPI_PROC_NULL}

VARIABLES geo,             \* the geometry of this run
          mpc, round,      \* main thread: its next call, rounds started
          tpc,             \* thread: its next step in a chunk
          chunk,           \* thread: its current chunk
          part, max_part,  \* thread: partitions still to sign off
          new_val,         \* thread: the value it captured
          written,         \* history: chunks whose stores are all done
          signed           \* history: chunks counted in local_overlap[i]

teamVars == <<tpc, chunk, part, max_part, new_val, written, signed>>
mainVars == <<geo, mpc, round>>
vars     == <<mpixVars, mainVars, teamVars>>

Init ==
  /\ MpixInit
  /\ geo \in Geometries
  /\ mpc = "init" /\ round = 0
  /\ tpc = [t \in Threads |-> "done"]
  /\ chunk = [t \in Threads |-> t]
  /\ part = [t \in Threads |-> 0] /\ max_part = [t \in Threads |-> 0]
  /\ new_val = [t \in Threads |-> 0]
  /\ written = {} /\ signed = NULL

Goto(l) == mpc' = l /\ UNCHANGED <<geo, round>>

-----------------------------------------------------------------------------
(* The main thread: partition_sending_op.                                  *)

PartitioningTraps ==
  /\ mpc = "init" /\ Traps(geo)
  /\ Goto("trapped")
  /\ UNCHANGED <<mpixVars, teamVars>>

OverlapCounts == [i \in Partitions(geo) |-> LocalOverlapCount(geo, i)]

Psend_init(d, overlap_count) ==
  MPIX_Psend_init(PartitionCount(geo), PartitionLength(geo), d,
                  AccessPattern(geo), overlap_count)

SendWhole ==
  /\ mpc = "init" /\ ~Partitionable(geo)
  /\ \E d \in Dests : Psend_init(d, NULL)
  /\ Goto("start")
  /\ UNCHANGED teamVars

SendPartitioned ==
  /\ mpc = "init" /\ Partitionable(geo) /\ ~Traps(geo)
  /\ \E d \in Dests : Psend_init(d, OverlapCounts)
  /\ Goto("start")
  /\ UNCHANGED teamVars

-----------------------------------------------------------------------------
(* The main thread: one round.                                             *)

Start ==
  /\ mpc = "start"
  /\ MPIX_Start
  /\ mpc' = "fork" /\ round' = round + 1 /\ UNCHANGED geo
  /\ written' = {}
  /\ signed' = [i \in Partitions(geo) |-> {}]
  /\ UNCHANGED <<tpc, chunk, part, max_part, new_val>>

\* Seeded fault: the sign-off call stands before the body of the loop.
Dispatch_SignoffFirst(c) == IF c \in Chunks(geo) THEN "signoff" ELSE "done"

\* A thread runs the chunks t, t + NumThreads, ... of the static schedule.
Dispatch(c) == IF c \in Chunks(geo) THEN "body" ELSE "done"

Fork ==
  /\ mpc = "fork"
  /\ chunk' = [t \in Threads |-> t]
  /\ tpc' = [t \in Threads |-> Dispatch(t)]
  /\ Goto("join")
  /\ UNCHANGED <<mpixVars, part, max_part, new_val, written, signed>>

Join ==
  /\ mpc = "join"
  /\ \A t \in Threads : tpc[t] = "done"
  /\ Goto("wait")
  /\ UNCHANGED <<mpixVars, teamVars>>

WaitPready ==
  /\ mpc = "wait"
  /\ IF NeedsImplicitReady
     THEN MPIX_Pready(0) /\ UNCHANGED local_overlap
     ELSE UNCHANGED mpixVars
  /\ Goto("send")
  /\ UNCHANGED teamVars

WaitSend ==
  /\ mpc = "send"
  /\ MPIX_WaitSend
  /\ Goto("mpi_wait")
  /\ UNCHANGED teamVars

WaitReturn ==
  /\ mpc = "mpi_wait"
  /\ MPIX_WaitReturn
  /\ Goto("next")
  /\ UNCHANGED teamVars

RequestFree ==
  /\ mpc = "next"
  /\ MPIX_Request_free
  /\ Goto("freed")
  /\ UNCHANGED teamVars

\* The surrounding loop runs the code again: with the request it has, or
\* with a new one when the last one was freed.
NextRound ==
  /\ mpc \in {"next", "freed"} /\ round < MaxRounds
  /\ Goto(IF mpc = "next" THEN "start" ELSE "init")
  /\ UNCHANGED <<mpixVars, teamVars>>

Main == \/ PartitioningTraps \/ SendWhole \/ SendPartitioned
        \/ Start \/ Fork \/ Join \/ WaitPready \/ WaitSend \/ WaitReturn
        \/ RequestFree \/ NextRound

Progress == MPI_Progress /\ UNCHANGED <<mainVars, teamVars>>

-----------------------------------------------------------------------------
(* The threads.                                                            *)

\* The stores of the chunk; its last one is done when this step is.
RunChunk(t) ==
  /\ tpc[t] = "body"
  /\ written' = written \cup {chunk[t]}
  /\ tpc' = [tpc EXCEPT ![t] = "signoff"]
  /\ UNCHANGED <<mpixVars, mainVars, chunk, part, max_part, new_val, signed>>

NextChunk(t) ==
  /\ chunk' = [chunk EXCEPT ![t] = @ + NumThreads]
  /\ tpc' = [tpc EXCEPT ![t] = Dispatch(chunk[t] + NumThreads)]

SignoffFirst(c) ==
  FirstPartition(access, partition_length_bytes, ChunkLb(geo, c))

\* Seeded fault: the iteration before the last one of the chunk.
SignoffLast_OneLess(c) ==
  LastPartition(access, partition_length_bytes, partition_count, ChunkUb(geo, c) - 1)

\* The last iteration the pass hands to the runtime: .omp.ub, inclusive.
SignoffLast(c) ==
  LastPartition(access, partition_length_bytes, partition_count, ChunkUb(geo, c))

\* signoff_partitions_after_loop_iter: the range of partitions.
SignoffPartitions(t) ==
  /\ tpc[t] = "signoff"
  /\ IF partition_count > 1 /\ SignoffFirst(chunk[t]) <= SignoffLast(chunk[t])
     THEN /\ part' = [part EXCEPT ![t] = SignoffFirst(chunk[t])]
          /\ max_part' = [max_part EXCEPT ![t] = SignoffLast(chunk[t])]
          /\ tpc' = [tpc EXCEPT ![t] = "capture"]
          /\ UNCHANGED chunk
     ELSE NextChunk(t) /\ UNCHANGED <<part, max_part>>
  /\ UNCHANGED <<mpixVars, mainVars, new_val, written, signed>>

\* Seeded fault: the old value is captured, x++ for ++x.
CaptureOverlap_OldValue(t) ==
  /\ tpc[t] = "capture"
  /\ local_overlap' = [local_overlap EXCEPT ![part[t]] = @ + 1]
  /\ new_val' = [new_val EXCEPT ![t] = local_overlap[part[t]]]
  /\ signed' = [signed EXCEPT ![part[t]] = @ \cup {chunk[t]}]
  /\ tpc' = [tpc EXCEPT ![t] = "compare"]
  /\ UNCHANGED <<mainVars, shapeVars, partitions_ready, is_active, noaccess,
                 request, chunk, part, max_part, written>>

\* #pragma omp atomic capture
CaptureOverlap(t) ==
  /\ tpc[t] = "capture"
  /\ local_overlap' = [local_overlap EXCEPT ![part[t]] = @ + 1]
  /\ new_val' = [new_val EXCEPT ![t] = local_overlap[part[t]] + 1]
  /\ signed' = [signed EXCEPT ![part[t]] = @ \cup {chunk[t]}]
  /\ tpc' = [tpc EXCEPT ![t] = "compare"]
  /\ UNCHANGED <<mainVars, shapeVars, partitions_ready, is_active, noaccess,
                 request, chunk, part, max_part, written>>

\* Seeded fault: the counter is read again, outside the atomic.
LastToSign_Rereads(t) == local_overlap[part[t]] = local_overlap_count[part[t]]

LastToSign(t) == new_val[t] = local_overlap_count[part[t]]

\* Ready if this was the last sign-off; then the next partition.
CompareOverlap(t) ==
  /\ tpc[t] = "compare"
  /\ IF LastToSign(t)
     THEN MPIX_Pready(part[t]) /\ UNCHANGED local_overlap
     ELSE UNCHANGED mpixVars
  /\ IF part[t] < max_part[t]
     THEN /\ part' = [part EXCEPT ![t] = @ + 1]
          /\ tpc' = [tpc EXCEPT ![t] = "capture"]
          /\ UNCHANGED chunk
     ELSE NextChunk(t) /\ UNCHANGED part
  /\ UNCHANGED <<mainVars, max_part, new_val, written, signed>>

Thread(t) == RunChunk(t) \/ SignoffPartitions(t) \/ CaptureOverlap(t)
               \/ CompareOverlap(t)

-----------------------------------------------------------------------------
Stopped == mpc = "trapped" \/ (mpc = "freed" /\ round = MaxRounds)

Next == \/ Main
        \/ Progress
        \/ \E t \in Threads : Thread(t)
        \/ Stopped /\ UNCHANGED vars

Spec == Init /\ [][Next]_vars

\* Every thread of the team and the main thread keep running, and MPI
\* completes an operation that was started.
FairSpec == /\ Spec
            /\ WF_vars(Main) /\ WF_vars(Progress)
            /\ \A t \in Threads : WF_vars(Thread(t))

-----------------------------------------------------------------------------
TypeOK ==
  /\ geo \in Geometries
  /\ mpc \in {"init", "start", "fork", "join", "wait", "send", "mpi_wait",
              "next", "freed", "trapped"}
  /\ round \in 0 .. MaxRounds
  /\ partition_count \in Nat /\ partitions_ready \in Nat
  /\ is_active \in {0, 1} /\ dest \in Dests
  /\ request \in {"null", "inactive", "active", "complete"}
  /\ noaccess \subseteq Partitions(geo)
  /\ local_overlap_count \in {NULL, OverlapCounts}
  /\ local_overlap \in [DOMAIN local_overlap_count -> Nat]
  /\ tpc \in [Threads -> {"body", "signoff", "capture", "compare", "done"}]
  /\ chunk \in [Threads -> Nat] /\ part \in [Threads -> Nat]
  /\ max_part \in [Threads -> Int] /\ new_val \in [Threads -> Nat]
  /\ written \subseteq Chunks(geo)

(* A partition handed to MPI is complete: every chunk that stores into it  *)
(* has run, so no thread modifies memory MPIX_Pready has made off limits   *)
(* ("taint partition as modification is forbidden").                       *)
ReadyPartitionsAreComplete ==
  \A i \in noaccess : Writers(geo, i) \subseteq written

(* MPIX_Wait finds every partition ready, which it asserts: no sign-off is *)
(* lost, whatever the interleaving of the team, and none is missing.       *)
AllReadyAtWait == mpc = "send" => partition_count = partitions_ready

(* No partition is marked ready twice in a round: partitions_ready counts  *)
(* partitions and not calls of MPIX_Pready.                                *)
ReadyOnce == partitions_ready = Cardinality(noaccess)

(* MPIX_Start finds a request as good as new, in the second round too:     *)
(* inactive, nothing ready, nothing forbidden, every overlap counter zero. *)
StartsClean ==
  mpc = "start" => /\ AssertStart
                   /\ noaccess = {}
                   /\ \A i \in DOMAIN local_overlap : local_overlap[i] = 0

(* The threads call MPIX_Pready only on an active request, and the request *)
(* is freed only when it is not: neither its own operation nor the one     *)
(* underneath is running.                                                  *)
CallsAreLegal ==
  /\ \A t \in Threads : tpc[t] = "compare" => AssertPready
  /\ mpc \in {"wait", "send"} => AssertPready
  /\ mpc \in {"next", "freed"} => AssertFree /\ request \notin {"active", "complete"}

(* Every partition becomes ready in every round, without waiting for the   *)
(* main thread: the overlap the runtime is there for.                      *)
PartitionsBecomeReady ==
  (mpc = "join" /\ partition_count > 1)
    ~> (mpc = "join" /\ Cardinality(noaccess) = partition_count)

(* MPIX_Wait is what starts the communication, and would return as well if *)
(* it had not: in every round in which the team is forked, the message is  *)
(* sent and its operation completes before the round is over, or else the  *)
(* round ends without one, which is to MPI_PROC_NULL.                      *)
EachRoundIsSent ==
  \A n \in 1 .. MaxRounds :
    (mpc = "fork" /\ round = n)
      ~> (round = n /\ IF dest = MPI_PROC_NULL THEN mpc = "next" ELSE request = "complete")

-----------------------------------------------------------------------------
(* The program implements a partitioned send: the operation is being sent  *)
(* from MPI_Start to the return of MPIX_Wait, and a partition is complete  *)
(* once all the chunks that store into it have run.                        *)
SendPhase ==
  IF request = "null" THEN "none"
  ELSE IF is_active = 1 THEN "active"
  ELSE IF mpc = "mpi_wait" THEN "sending"
  ELSE "inactive"

\* A constant, which TLC evaluates once.
WritersOf == [g \in Geometries |-> [i \in Partitions(g) |-> Writers(g, i)]]

SendPartitions == IF request = "null" THEN {} ELSE DOMAIN WritersOf[geo]
SendComplete ==
  IF is_active = 1
  THEN {i \in DOMAIN WritersOf[geo] : WritersOf[geo][i] \subseteq written}
  ELSE {}

Send == INSTANCE PartitionedSend WITH
  PartitionCounts <- {PartitionCount(g) : g \in Geometries},
  phase <- SendPhase, partitions <- SendPartitions,
  complete <- SendComplete, ready <- noaccess

(* Every behaviour of the loop, the runtime and its request is one of the  *)
(* abstract partitioned send.                                              *)
ImplementsPartitionedSend == Send!Spec
=============================================================================

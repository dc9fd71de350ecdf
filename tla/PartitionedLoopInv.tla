------------------------- MODULE PartitionedLoopInv -------------------------
(***************************************************************************)
(* The inductive invariant of PartitionedLoop: why counting sign-offs with *)
(* an atomic capture marks every partition ready exactly once, and not     *)
(* before its last writer.  Checked by TLC, proved in                      *)
(* PartitionedLoop_proofs.                                                 *)
(***************************************************************************)
EXTENDS PartitionedLoop

SoundGeometries == \A g \in Geometries : Traps(g) \/ SoundLayout(g)

\* Thread t owns the chunks t, t + NumThreads, ... of the static schedule.
Own(t, c) == c % NumThreads = t

InTeam == mpc \in {"join", "wait", "send"}
Many   == partition_count > 1

\* Chunk c of thread t has been counted for partition i.
Counted(t, c, i) ==
  \/ c < chunk[t]
  \/ c = chunk[t] /\ tpc[t] = "capture" /\ i < part[t]
  \/ c = chunk[t] /\ tpc[t] = "compare" /\ i <= part[t]

-----------------------------------------------------------------------------
(* The main thread's part.                                                 *)

Shape ==
  mpc \notin {"init", "trapped"} =>
    /\ SoundLayout(geo)
    /\ partition_count = PartitionCount(geo)
    /\ partition_length_bytes = PartitionLength(geo)
    /\ access = AccessPattern(geo)
    /\ local_overlap_count = IF Partitionable(geo) THEN OverlapCounts ELSE NULL

Phases ==
  /\ is_active = IF mpc \in {"fork", "join", "wait", "send"} THEN 1 ELSE 0
  /\ mpc \in {"start", "fork", "join", "wait", "send", "next"} => request = "inactive"
  /\ mpc \in {"init", "freed", "trapped"} => request = "null"
  /\ mpc = "mpi_wait" => request # "null"
  /\ mpc \in {"init", "start"} => round < MaxRounds

Idle == mpc # "join" => \A t \in Threads : tpc[t] = "done"

Clean ==
  ~InTeam => /\ noaccess = {} /\ partitions_ready = 0
             /\ \A i \in DOMAIN local_overlap : local_overlap[i] = 0

Begun == mpc = "fork" => written = {} /\ signed = [i \in Partitions(geo) |-> {}]

AfterJoin ==
  mpc \in {"wait", "send"} =>
    /\ Chunks(geo) \subseteq written
    /\ noaccess = IF Many \/ mpc = "send" THEN Partitions(geo) ELSE {}

-----------------------------------------------------------------------------
(* The team's part.                                                        *)

Schedule ==
  InTeam => \A t \in Threads :
    /\ Own(t, chunk[t])
    /\ tpc[t] = "done" <=> chunk[t] \notin Chunks(geo)

Stored ==
  InTeam => \A t \in Threads :
    /\ tpc[t] \in {"signoff", "capture", "compare"} => chunk[t] \in written
    /\ \A c \in Chunks(geo) : Own(t, c) /\ c < chunk[t] => c \in written

Cursor ==
  \A t \in Threads : tpc[t] \in {"capture", "compare"} =>
    /\ Many
    /\ max_part[t] = SignoffLast(chunk[t])
    /\ SignoffFirst(chunk[t]) <= part[t] /\ part[t] <= max_part[t]

SignedBy ==
  InTeam =>
    /\ signed \in [Partitions(geo) -> SUBSET written]
    /\ \A i \in Partitions(geo) :
         /\ signed[i] \subseteq Signers(geo, i)
         /\ Many => \A t \in Threads, c \in Signers(geo, i) :
                      Own(t, c) => (c \in signed[i] <=> Counted(t, c, i))

Counters ==
  InTeam /\ Many =>
    \A i \in Partitions(geo) : local_overlap[i] = Cardinality(signed[i])

Captures ==
  \A t \in Threads : tpc[t] = "compare" =>
    /\ 1 <= new_val[t] /\ new_val[t] <= Cardinality(signed[part[t]])
    /\ \A u \in Threads \ {t} :
         tpc[u] = "compare" /\ part[u] = part[t] => new_val[u] # new_val[t]

ReadyIff ==
  InTeam =>
    /\ ~Many /\ mpc # "send" => noaccess = {}
    /\ Many => \A i \in Partitions(geo) :
         i \in noaccess <=>
           /\ Cardinality(signed[i]) = local_overlap_count[i]
           /\ \A t \in Threads : tpc[t] = "compare" /\ part[t] = i => ~LastToSign(t)

(* Every reachable state of the program satisfies the invariant that makes *)
(* sign-off correct: the overlap counters count the chunks that signed,    *)
(* the captured values of one partition are all different, and a partition *)
(* is ready iff all its signers have signed and none of them is still      *)
(* about to say so (signoff_partitions_after_loop_iter).                   *)
LoopInv ==
  /\ TypeOK /\ Shape /\ Phases /\ Idle /\ Clean /\ Begun /\ AfterJoin
  /\ Schedule /\ Stored /\ Cursor /\ SignedBy /\ Counters /\ Captures
  /\ ReadyIff /\ ReadyOnce

(* The part of it that is about the team: what the threads count, capture  *)
(* and mark ready between fork and wait, in every interleaving of their    *)
(* sign-offs.                                                              *)
TeamInv == Schedule /\ Stored /\ Cursor /\ SignedBy /\ Counters /\ Captures /\ ReadyIff
=============================================================================

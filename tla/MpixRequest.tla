---------------------------- MODULE MpixRequest ----------------------------
(***************************************************************************)
(* The runtime library's partitioned request: the fields of MPIX_Request   *)
(* that change, and one action per MPIX_* call on it                       *)
(* (lib/correctness-checking-partitioned-impl.c and .h).  The library is   *)
(* compiled with NDEBUG, so its assertions do nothing: they are stated as  *)
(* predicates here and checked as properties by the programs that use the  *)
(* request.                                                                *)
(*                                                                         *)
(* request is the persistent MPI operation underneath, as the library uses *)
(* it: "null", "inactive" after MPI_Send_init, "active" between MPI_Start  *)
(* and its local completion, "complete" until MPI_Wait returns.            *)
(* noaccess is the set of partitions valgrind reports accesses to.         *)
(***************************************************************************)
EXTENDS Integers, FiniteSets

CONSTANT MPI_PROC_NULL

VARIABLES partition_count, partition_length_bytes, access,
          partitions_ready, is_active, dest, local_overlap, local_overlap_count,
          noaccess, request

\* What MPIX_Psend_init and its caller set once and nobody changes.
shapeVars == <<partition_count, partition_length_bytes, access, dest,
               local_overlap_count>>
mpixVars  == <<shapeVars, partitions_ready, is_active, local_overlap,
               noaccess, request>>

NULL == [i \in {} |-> 0]          \* a pointer that was never set

\* The struct before any call: uninitialised memory that nothing reads.
MpixInit ==
  /\ partition_count = 0 /\ partition_length_bytes = 0
  /\ access = [A_min |-> 0, B_min |-> 0, A_max |-> 0, B_max |-> 0]
  /\ partitions_ready = 0 /\ is_active = 0
  /\ dest = MPI_PROC_NULL
  /\ local_overlap = NULL /\ local_overlap_count = NULL
  /\ noaccess = {}
  /\ request = "null"

-----------------------------------------------------------------------------
(* MPIX_Psend_init for partition_sending_op, which sets the access pattern *)
(* and, unless they stay NULL after the memset, the two overlap arrays.    *)
MPIX_Psend_init(partitions, length, d, pattern, overlap_count) ==
  /\ partition_count' = partitions
  /\ partition_length_bytes' = length
  /\ access' = pattern
  /\ partitions_ready' = 0
  /\ is_active' = 0
  /\ dest' = d
  /\ local_overlap' = [i \in DOMAIN overlap_count |-> 0]
  /\ local_overlap_count' = overlap_count
  /\ request' = "inactive"
  /\ UNCHANGED noaccess

\* Seeded fault: partitions numbered from 1.
MPIX_Pready_FromOne(i) ==
  /\ noaccess' = noaccess \cup {i + 1}
  /\ partitions_ready' = partitions_ready + 1
  /\ UNCHANGED <<shapeVars, is_active, request>>

MPIX_Pready(i) ==
  /\ noaccess' = noaccess \cup {i}
  /\ partitions_ready' = partitions_ready + 1
  /\ UNCHANGED <<shapeVars, is_active, request>>

MPIX_Start ==
  /\ is_active' = 1
  /\ UNCHANGED <<shapeVars, partitions_ready, local_overlap, noaccess, request>>

\* Seeded fault: the test on partitions_ready inverted.
NeedsImplicitReady_Inverted == partition_count = 1 /\ partitions_ready = 1

\* MPIX_Wait on one partition nobody marked: an ordinary persistent send.
NeedsImplicitReady == partition_count = 1 /\ partitions_ready # 1

\* Seeded fault: the overlap counters keep their values.
MPIX_WaitSend_NoReset ==
  /\ noaccess' = {}
  /\ request' = IF dest # MPI_PROC_NULL THEN "active" ELSE request
  /\ is_active' = 0
  /\ partitions_ready' = 0
  /\ UNCHANGED <<shapeVars, local_overlap>>

\* Seeded fault: the test on dest inverted.
MPIX_WaitSend_Inverted ==
  /\ noaccess' = {}
  /\ request' = IF dest = MPI_PROC_NULL THEN "active" ELSE request
  /\ is_active' = 0
  /\ partitions_ready' = 0
  /\ local_overlap' = [i \in DOMAIN local_overlap |-> 0]
  /\ UNCHANGED shapeVars

\* MPIX_Wait up to its last statement: the communication starts only now.
MPIX_WaitSend ==
  /\ noaccess' = {}
  /\ request' = IF dest # MPI_PROC_NULL THEN "active" ELSE request
  /\ is_active' = 0
  /\ partitions_ready' = 0
  /\ local_overlap' = [i \in DOMAIN local_overlap |-> 0]
  /\ UNCHANGED shapeVars

\* External: the MPI library completes the started operation.
MPI_Progress ==
  /\ request = "active"
  /\ request' = "complete"
  /\ UNCHANGED <<shapeVars, partitions_ready, is_active, local_overlap, noaccess>>

\* Seeded fault: MPIX_Wait returns without MPI_Wait.
MPIX_WaitReturn_NoWait ==
  /\ request' = IF request = "complete" THEN "inactive" ELSE request
  /\ UNCHANGED <<shapeVars, partitions_ready, is_active, local_overlap, noaccess>>

\* The end of MPIX_Wait: MPI_Wait, which returns at once from a request that
\* was not started, and is left out for MPI_PROC_NULL.
MPIX_WaitReturn ==
  /\ dest # MPI_PROC_NULL => request # "active"
  /\ request' = "inactive"
  /\ UNCHANGED <<shapeVars, partitions_ready, is_active, local_overlap, noaccess>>

\* The arrays are freed, their pointers are left as they are.
MPIX_Request_free ==
  /\ request' = "null"
  /\ UNCHANGED <<shapeVars, partitions_ready, is_active, local_overlap, noaccess>>

-----------------------------------------------------------------------------
(* The library's assertions, each before the statement it guards.          *)
AssertStart == is_active = 0 /\ partitions_ready = 0
AssertPready == is_active = 1
AssertWait == is_active = 1 /\ partition_count = partitions_ready
AssertFree == is_active = 0
=============================================================================

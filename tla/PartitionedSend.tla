-------------------------- MODULE PartitionedSend --------------------------
(***************************************************************************)
(* What a partitioned send promises, whatever loop produces its data: a    *)
(* partition is marked ready only when its data is complete, the message   *)
(* leaves only when every partition is ready, and nothing of one           *)
(* activation is left over for the next one.  Written from the calls in    *)
(* lib/correctness-checking-partitioned-impl.h; PartitionedLoop implements *)
(* it.                                                                     *)
(***************************************************************************)
EXTENDS Integers, FiniteSets

CONSTANT PartitionCounts     \* numbers of partitions a send may have

VARIABLES phase,             \* "none", "inactive", "active" or "sending"
          partitions,        \* partitions of the operation
          complete,          \* partitions whose data has been produced
          ready              \* partitions handed to MPI

sendVars == <<phase, partitions, complete, ready>>

Init ==
  /\ phase = "none"
  /\ partitions = {} /\ complete = {} /\ ready = {}

Create ==
  /\ phase = "none" /\ phase' = "inactive"
  /\ \E n \in PartitionCounts : partitions' = 0 .. n - 1
  /\ complete' = {} /\ ready' = {}

\* Some partitions may be complete at once: nobody writes them in this round.
Activate ==
  /\ phase = "inactive" /\ phase' = "active"
  /\ complete' \in SUBSET partitions
  /\ UNCHANGED <<partitions, ready>>

Produce ==
  /\ phase = "active"
  /\ complete' \in {S \in SUBSET partitions : complete \subseteq S}
  /\ UNCHANGED <<phase, partitions, ready>>

MarkReady ==
  /\ phase = "active"
  /\ \E i \in complete \ ready : ready' = ready \cup {i}
  /\ UNCHANGED <<phase, partitions, complete>>

Send ==
  /\ phase = "active" /\ ready = partitions
  /\ phase' = "sending"
  /\ complete' = {} /\ ready' = {}
  /\ UNCHANGED partitions

Finish ==
  /\ phase = "sending" /\ phase' = "inactive"
  /\ UNCHANGED <<partitions, complete, ready>>

Free ==
  /\ phase = "inactive" /\ phase' = "none"
  /\ partitions' = {}
  /\ UNCHANGED <<complete, ready>>

Next == Create \/ Activate \/ Produce \/ MarkReady \/ Send \/ Finish \/ Free

Spec == Init /\ [][Next]_sendVars
=============================================================================

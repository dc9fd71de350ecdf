-------------------------- MODULE PartitionLayout --------------------------
(***************************************************************************)
(* How partition_sending_op cuts a message into partitions, how many       *)
(* chunks of the OpenMP loop it expects to sign each partition off, and    *)
(* which partitions a chunk really signs off at run time                   *)
(* (lib/correctness-checking-partitioned-impl.c).                          *)
(*                                                                         *)
(* A geometry g is one call of partition_sending_op:                       *)
(*   count, extent          the message: count datatype members of extent  *)
(*                          bytes, starting at address 0 (buf_start)       *)
(*   curr_min, next_min     lowest address the first chunk / the next      *)
(*   curr_max, next_max     chunk stores to, and the highest one           *)
(*   chunk_size, loop_min, loop_max   the loop, bounds inclusive           *)
(*   width                  bytes one store writes (ground truth, the C    *)
(*                          code never sees it)                            *)
(* All addresses are relative to buf, so buf_start does not appear.        *)
(***************************************************************************)
EXTENDS Integers, FiniteSets

CONSTANT IntSpan            \* 2^32: the number of values of int and unsigned

ASSUME IntSpanAssumption == IntSpan \in Nat /\ IntSpan >= 2

\* The arguments the emitted call can pass: no zero-sized member or chunk.
GeometryType ==
  [count : Nat \ {0}, extent : Nat \ {0}, width : Nat \ {0},
   curr_min : Int, next_min : Int, curr_max : Int, next_max : Int,
   chunk_size : Nat \ {0}, loop_min : Int, loop_max : Int]

Trap == 0                   \* "returned" by a search that divides by zero

MAXIMUM_ITERATIONS == 10

-----------------------------------------------------------------------------
(* C arithmetic: / and % truncate towards zero, conversions wrap.          *)

Quot(a, b) ==
  IF (a >= 0) = (b > 0)
  THEN IF b > 0 THEN a \div b ELSE (-a) \div (-b)
  ELSE IF b > 0 THEN -((-a) \div b) ELSE -(a \div (-b))

Rem(a, b) == a - b * Quot(a, b)

AsUnsigned(x) == x % IntSpan

AsInt(x) ==
  IF x % IntSpan < IntSpan \div 2 THEN x % IntSpan ELSE (x % IntSpan) - IntSpan

AtLeast(x, low)  == IF x < low THEN low ELSE x
AtMost(x, high)  == IF x > high THEN high ELSE x

-----------------------------------------------------------------------------
(* The access pattern A*x+B and the size of the message.                   *)

A_min(g) == Quot(g.next_min - g.curr_min, g.chunk_size)
A_max(g) == Quot(g.next_max - g.curr_max, g.chunk_size)

AccessPattern(g) ==
  [A_min |-> A_min(g), B_min |-> g.curr_min,
   A_max |-> A_max(g), B_max |-> g.curr_max]

SendingSize(g) == g.extent * g.count

\* Bound: the partition length, an int, holds the size of the message.
FitsInt(g) == SendingSize(g) < IntSpan \div 2

AccessSize(g) ==
  (A_max(g) * (g.loop_min + g.chunk_size) + g.curr_max)
    - (A_min(g) * g.loop_min + g.curr_min)

Partitionable(g) == AccessSize(g) < SendingSize(g)

-----------------------------------------------------------------------------
(* find_valid_partition_size_bytes: the size of a partition.  The search   *)
(* loop is the state machine of module PartitionSizeSearch; what it        *)
(* returns is stated here, and PartitionSizeSearch shows that it is so.    *)
(* Bound: a chunk covers fewer than 2^31 members, so that the candidate,   *)
(* an int, holds its size.                                                 *)

RequestedMembers(extent, requested) ==
  Quot(requested, extent) + (IF Rem(requested, extent) # 0 THEN 1 ELSE 0)

\* Seeded fault: the search gives up with the request itself.
SearchOutcome_TakesRequest(count, extent, members) ==
  IF members <= MAXIMUM_ITERATIONS \div 2 THEN Trap ELSE members * extent

SearchOutcome(count, extent, members) ==
  IF members <= MAXIMUM_ITERATIONS \div 2 THEN Trap ELSE count * extent

FindValidPartitionSizeBytes(count, extent, requested) ==
  LET members == RequestedMembers(extent, requested)
  IN  IF requested > count * extent THEN count * extent
      ELSE IF members # 0 /\ Rem(count, members) = 0 THEN members * extent
      ELSE SearchOutcome(count, extent, members)

PartitionSize(g) ==
  IF Partitionable(g)
  THEN FindValidPartitionSizeBytes(g.count, g.extent, AsUnsigned(AccessSize(g)))
  ELSE SendingSize(g)

PartitionMembers(g) == AsUnsigned(Quot(PartitionSize(g), g.extent))

\* The search divides by zero (and so would the division by its result).
Traps(g) == Partitionable(g) /\ PartitionMembers(g) = 0

PartitionCount(g) ==
  IF Traps(g) THEN 0
  ELSE IF Partitionable(g) THEN g.count \div PartitionMembers(g)
  ELSE 1

PartitionLength(g)  ==
  AsInt(g.extent * (IF Partitionable(g) THEN PartitionMembers(g) ELSE g.count))

Partitions(g) == 0 .. PartitionCount(g) - 1

-----------------------------------------------------------------------------
(* How many chunks partition_sending_op expects to sign partition i off.   *)

\* Seeded fault: partition_max is the first byte of the next partition.
LocalOverlapCount_Exclusive(g, i) ==
  LET partition_min == PartitionLength(g) * i
      partition_max == partition_min + PartitionLength(g)
      min_loop_iter == AtLeast(Quot(partition_min - g.curr_min, A_min(g)), g.loop_min)
      max_loop_iter == AtMost(Quot(partition_max - g.curr_max, A_max(g)), g.loop_max)
  IN  Quot(max_loop_iter - g.loop_min, g.chunk_size)
        - Quot(min_loop_iter - g.loop_min, g.chunk_size) + 1

LocalOverlapCount(g, i) ==
  LET partition_min == PartitionLength(g) * i
      partition_max == partition_min + PartitionLength(g) - 1
      min_loop_iter == AtLeast(Quot(partition_min - g.curr_min, A_min(g)), g.loop_min)
      max_loop_iter == AtMost(Quot(partition_max - g.curr_max, A_max(g)), g.loop_max)
  IN  Quot(max_loop_iter - g.loop_min, g.chunk_size)
        - Quot(min_loop_iter - g.loop_min, g.chunk_size) + 1

-----------------------------------------------------------------------------
(* The chunks of schedule(static, chunk_size), and the partitions a chunk  *)
(* signs off when signoff_partitions_after_loop_iter gets its first and    *)
(* its last iteration.                                                     *)

NumChunks(g) ==
  IF g.loop_max < g.loop_min THEN 0
  ELSE (g.loop_max - g.loop_min) \div g.chunk_size + 1

Chunks(g) == 0 .. NumChunks(g) - 1

ChunkLb(g, c) == g.loop_min + c * g.chunk_size
ChunkUb(g, c) == AtMost(ChunkLb(g, c) + g.chunk_size - 1, g.loop_max)

\* signoff_partitions_after_loop_iter sees the fields of the request only.
FirstPartition(access, length, min_iter) ==
  AtLeast(Quot(access.A_min * min_iter + access.B_min, length), 0)

LastPartition(access, length, partitions, max_iter) ==
  LET offset   == access.A_max * max_iter + access.B_max
      boundary == IF Rem(offset, length) = 0 THEN 1 ELSE 0
  IN  AtMost(Quot(offset, length) - boundary, partitions - 1)

SignedOff(g, c) ==
  FirstPartition(AccessPattern(g), PartitionLength(g), ChunkLb(g, c))
    .. LastPartition(AccessPattern(g), PartitionLength(g), PartitionCount(g), ChunkUb(g, c))

Signers(g, i) == {c \in Chunks(g) : i \in SignedOff(g, c)}

-----------------------------------------------------------------------------
(* Ground truth about the user's loop: iteration x stores to the bytes     *)
(* A_min*x+B_min .. A_max*x+B_max+width-1.                                 *)

StoresInto(g, x, i) ==
  /\ A_min(g) * x + g.curr_min < PartitionLength(g) * (i + 1)
  /\ A_max(g) * x + g.curr_max + g.width > PartitionLength(g) * i

Writers(g, i) ==
  {c \in Chunks(g) : \E x \in ChunkLb(g, c) .. ChunkUb(g, c) : StoresInto(g, x, i)}

-----------------------------------------------------------------------------
(* A layout is sound when every partition waits for exactly the chunks     *)
(* that sign it off, at least one does, and every chunk that writes into   *)
(* the partition is one of them.                                           *)

SoundLayout(g) ==
  /\ ~Traps(g)
  /\ PartitionCount(g) \in Nat \ {0}
  /\ PartitionLength(g) \in Nat \ {0}
  /\ PartitionCount(g) > 1 =>
       \A i \in Partitions(g) :
         /\ Signers(g, i) # {}
         /\ LocalOverlapCount(g, i) = Cardinality(Signers(g, i))
         /\ Writers(g, i) \subseteq Signers(g, i)

(* The loop shape of the demo codes: one store per iteration, to addresses *)
(* off, off + stride, ...                                                  *)
StridedLoop(count, extent, width, stride, off, chunk_size, loop_max) ==
  [count |-> count, extent |-> extent, width |-> width,
   curr_min |-> off, next_min |-> off + stride * chunk_size,
   curr_max |-> off, next_max |-> off + stride * chunk_size,
   chunk_size |-> chunk_size, loop_min |-> 0, loop_max |-> loop_max]

(* What the program can look at to know that its loop has such a layout.   *)

WellAligned(g) ==
  LET A    == A_min(g)
      B    == g.curr_min
      P    == PartitionLength(g)
      Last(c) == A * ChunkUb(g, c) + B
  IN  /\ ~Traps(g)
      /\ A > 0 /\ A_max(g) = A /\ g.curr_max = B /\ g.loop_min = 0
      /\ g.width <= A
      /\ PartitionCount(g) > 1 =>
           /\ P > 0 /\ P % A = 0 /\ B % A = 0
           \* the loop stores into the first and into the last partition
           /\ B < P
           /\ A * g.loop_max + B >= P * (PartitionCount(g) - 1)
           \* no chunk ends with an access to the first byte of a partition,
           \* and none lies completely before the message
           /\ \A c \in Chunks(g) :
                /\ Last(c) \in 0 .. SendingSize(g) - 1 => Last(c) % P # 0
                /\ Last(c) >= 0
=============================================================================

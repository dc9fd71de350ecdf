----------------------- MODULE PartitionedLoop_proofs -----------------------
(***************************************************************************)
(* The sign-off protocol is correct for every number of threads, every     *)
(* number of rounds and every set of sound layouts.                        *)
(***************************************************************************)
EXTENDS PartitionedLoopInv, PartitionLayout_proofs, FiniteSetTheorems, TLAPS

-----------------------------------------------------------------------------
(* The static schedule: thread t owns the chunks t, t+NumThreads, ...      *)

(* A product grows by at least a factor when the other factor grows.       *)
LEMMA ProductStep ==
  ASSUME NEW n \in Nat, NEW a \in Nat, NEW b \in Nat, a < b
  PROVE  a * n + n <= b * n
<1> DEFINE k == b - a - 1
<1>1. k \in Nat /\ b = a + 1 + k
  OBVIOUS
<1>2. b * n = a * n + n + k * n
  BY <1>1
<1>3. k * n \in Nat /\ a * n \in Nat
  BY <1>1
<1>4. QED
  BY <1>2, <1>3

(* Chunk c is the thread's q-th one.                                       *)
LEMMA OwnIsMultiple ==
  ASSUME NEW t \in Threads, NEW c \in Nat
  PROVE  Own(t, c) <=> \E q \in Nat : c = q * NumThreads + t
<1>1. NumThreads \in Nat \ {0} /\ t \in Nat /\ t < NumThreads
  BY LoopAssumption DEF Threads
<1> DEFINE r == c % NumThreads
           p == c \div NumThreads
<1>2. r \in 0 .. NumThreads - 1 /\ p \in Nat
  BY <1>1, SMT
<1>3. c = p * NumThreads + r
  BY <1>1, SMT
<1>4. ASSUME Own(t, c) PROVE \E q \in Nat : c = q * NumThreads + t
  BY <1>2, <1>3, <1>4 DEF Own
<1>5. ASSUME NEW q \in Nat, c = q * NumThreads + t PROVE Own(t, c)
  <2> HIDE DEF r, p
  <2>1. q * NumThreads \in Nat /\ p * NumThreads \in Nat /\ r \in Nat /\ r < NumThreads
    BY <1>1, <1>2
  <2>2. ~(q < p)
    <3> SUFFICES ASSUME q < p PROVE FALSE
      OBVIOUS
    <3>1. q * NumThreads + NumThreads <= p * NumThreads
      BY <1>1, <1>2, ProductStep
    <3>2. QED
      BY <1>1, <1>3, <1>5, <2>1, <3>1
  <2>3. ~(p < q)
    <3> SUFFICES ASSUME p < q PROVE FALSE
      OBVIOUS
    <3>1. p * NumThreads + NumThreads <= q * NumThreads
      BY <1>1, <1>2, ProductStep
    <3>2. QED
      BY <1>1, <1>3, <1>5, <2>1, <3>1
  <2>4. p = q
    BY <1>2, <2>2, <2>3
  <2>5. r = t
    BY <1>1, <1>3, <1>5, <2>1, <2>4
  <2>6. QED
    BY <2>5 DEF Own, r
<1>6. QED
  BY <1>4, <1>5

(* Fork deals out the first chunks, NextChunk the following ones.          *)
LEMMA OwnFirst == ASSUME NEW t \in Threads PROVE Own(t, t)
<1>1. t = 0 * NumThreads + t /\ t \in Nat
  BY LoopAssumption DEF Threads
<1>2. QED
  BY <1>1, OwnIsMultiple

LEMMA OwnNext ==
  ASSUME NEW t \in Threads, NEW c \in Nat, Own(t, c)
  PROVE  Own(t, c + NumThreads)
<1>1. PICK q \in Nat : c = q * NumThreads + t
  BY OwnIsMultiple
<1>2. c + NumThreads = (q + 1) * NumThreads + t /\ c + NumThreads \in Nat
  BY <1>1, LoopAssumption DEF Threads
<1>3. QED
  BY <1>2, OwnIsMultiple

(* No chunk of a thread lies between its current one and its next one.     *)
LEMMA OwnGap ==
  ASSUME NEW t \in Threads, NEW c \in Nat, NEW d \in Nat,
         Own(t, c), Own(t, d), d < c + NumThreads
  PROVE  d <= c
<1>1. PICK q \in Nat : c = q * NumThreads + t
  BY OwnIsMultiple
<1>2. PICK r \in Nat : d = r * NumThreads + t
  BY OwnIsMultiple
<1>3. NumThreads \in Nat /\ t \in Nat /\ q * NumThreads \in Nat /\ r * NumThreads \in Nat
  BY LoopAssumption DEF Threads
<1>4. CASE q < r
  <2>1. q * NumThreads + NumThreads <= r * NumThreads
    BY <1>3, <1>4, ProductStep
  <2>2. QED
    BY <1>1, <1>2, <1>3, <2>1
<1>5. CASE q = r
  BY <1>1, <1>2, <1>5
<1>6. CASE r < q
  <2>1. r * NumThreads + NumThreads <= q * NumThreads
    BY <1>3, <1>6, ProductStep
  <2>2. QED
    BY <1>1, <1>2, <1>3, <2>1
<1>7. QED
  BY <1>4, <1>5, <1>6

(* A chunk belongs to exactly one thread.                                  *)
LEMMA OwnUnique ==
  ASSUME NEW c \in Nat
  PROVE  /\ \E t \in Threads : Own(t, c)
         /\ \A t, u \in Threads : Own(t, c) /\ Own(u, c) => t = u
<1>1. c % NumThreads \in 0 .. NumThreads - 1
  BY LoopAssumption, SMT
<1>2. QED
  BY <1>1 DEF Own, Threads

-----------------------------------------------------------------------------
(* Facts about the layout.                                                 *)

LEMMA ChunksFinite ==
  ASSUME NEW g \in GeometryType
  PROVE  /\ NumChunks(g) \in Nat
         /\ \A c \in Chunks(g) : c \in Nat /\ c < NumChunks(g)
         /\ \A c \in Nat : c \notin Chunks(g) => c >= NumChunks(g)
         /\ IsFiniteSet(Chunks(g))
<1>1. NumChunks(g) \in Nat
  <2>1. g.loop_max \in Int /\ g.loop_min \in Int /\ g.chunk_size \in Nat \ {0}
    BY DEF GeometryType
  <2>2. CASE g.loop_max < g.loop_min
    BY <2>2 DEF NumChunks
  <2>3. CASE ~(g.loop_max < g.loop_min)
    <3> DEFINE d == g.loop_max - g.loop_min
    <3>1. d \in Nat
      BY <2>1, <2>3
    <3>2. d \div g.chunk_size \in Nat
      BY <2>1, <3>1, SMT
    <3>3. QED
      BY <2>3, <3>2 DEF NumChunks
  <2>4. QED
    BY <2>2, <2>3
<1>2. QED
  BY <1>1, FS_Interval DEF Chunks

LEMMA SignersFinite ==
  ASSUME NEW g \in GeometryType, NEW i
  PROVE  /\ Signers(g, i) \subseteq Chunks(g)
         /\ IsFiniteSet(Signers(g, i))
         /\ Cardinality(Signers(g, i)) \in Nat
<1>1. Signers(g, i) \subseteq Chunks(g)
  BY DEF Signers
<1>2. QED
  BY <1>1, ChunksFinite, FS_Subset, FS_CardinalityType

LEMMA PartitionsFinite ==
  ASSUME NEW g \in GeometryType, SoundLayout(g)
  PROVE  /\ IsFiniteSet(Partitions(g))
         /\ Cardinality(Partitions(g)) = PartitionCount(g)
         /\ \A i \in Partitions(g) : i \in Nat /\ i < PartitionCount(g)
<1>1. PartitionCount(g) \in Nat \ {0}
  BY DEF SoundLayout
<1>2. 0 \in Int /\ PartitionCount(g) - 1 \in Int
  BY <1>1
<1>3. /\ IsFiniteSet(0 .. PartitionCount(g) - 1)
      /\ Cardinality(0 .. PartitionCount(g) - 1)
           = IF 0 > PartitionCount(g) - 1 THEN 0 ELSE (PartitionCount(g) - 1) - 0 + 1
  BY <1>2, FS_Interval
<1>4. QED
  BY <1>1, <1>3 DEF Partitions

(* The range signoff_partitions_after_loop_iter computes stays inside the  *)
(* message, and contains exactly the partitions its chunk is a signer of.  *)
LEMMA QuotInt ==
  ASSUME NEW a \in Int, NEW b \in Nat \ {0}
  PROVE  Quot(a, b) \in Int
BY SMT DEF Quot

LEMMA SignoffRange ==
  ASSUME NEW g \in GeometryType, SoundLayout(g), NEW c \in Chunks(g),
         NEW low, low = FirstPartition(AccessPattern(g), PartitionLength(g), ChunkLb(g, c)),
         NEW high, high = LastPartition(AccessPattern(g), PartitionLength(g),
                                        PartitionCount(g), ChunkUb(g, c))
  PROVE  /\ low \in Nat /\ high \in Int /\ high < PartitionCount(g)
         /\ \A i \in Int : low <= i /\ i <= high =>
              i \in Partitions(g) /\ c \in Signers(g, i)
         /\ \A i : c \in Signers(g, i) => i \in Int /\ low <= i /\ i <= high
<1>1. /\ g.curr_min \in Int /\ g.next_min \in Int /\ g.curr_max \in Int /\ g.next_max \in Int
      /\ g.loop_min \in Int /\ g.loop_max \in Int /\ g.chunk_size \in Nat \ {0}
  BY DEF GeometryType
<1>2. PartitionLength(g) \in Nat \ {0} /\ PartitionCount(g) \in Nat \ {0} /\ c \in Nat
  BY ChunksFinite DEF SoundLayout
<1>3. ChunkLb(g, c) \in Int /\ ChunkUb(g, c) \in Int
  <2>1. c * g.chunk_size \in Int
    BY <1>1, <1>2
  <2>2. QED
    BY <1>1, <2>1 DEF ChunkLb, ChunkUb, AtMost
<1>4. A_min(g) \in Int /\ A_max(g) \in Int
  BY <1>1, QuotInt DEF A_min, A_max
<1> DEFINE offset == A_max(g) * ChunkUb(g, c) + g.curr_max
<1>5. A_min(g) * ChunkLb(g, c) + g.curr_min \in Int /\ offset \in Int
  BY <1>1, <1>3, <1>4
<1>6. low \in Nat
  <2>1. low = AtLeast(Quot(A_min(g) * ChunkLb(g, c) + g.curr_min, PartitionLength(g)), 0)
    BY DEF FirstPartition, AccessPattern
  <2>2. Quot(A_min(g) * ChunkLb(g, c) + g.curr_min, PartitionLength(g)) \in Int
    BY <1>2, <1>5, QuotInt
  <2>3. QED
    BY <2>1, <2>2 DEF AtLeast
<1>7. high \in Int /\ high < PartitionCount(g)
  <2>1. Quot(offset, PartitionLength(g)) \in Int
    BY <1>2, <1>5, QuotInt
  <2>2. high = AtMost(Quot(offset, PartitionLength(g))
                        - (IF Rem(offset, PartitionLength(g)) = 0 THEN 1 ELSE 0),
                      PartitionCount(g) - 1)
    BY DEF LastPartition, AccessPattern
  <2>3. QED
    BY <1>2, <2>1, <2>2 DEF AtMost
<1>8. SignedOff(g, c) = low .. high
  BY DEF SignedOff
<1>9. \A i \in Int : low <= i /\ i <= high => i \in Partitions(g) /\ c \in Signers(g, i)
  BY <1>2, <1>6, <1>7, <1>8 DEF Partitions, Signers
<1>10. \A i : c \in Signers(g, i) => i \in Int /\ low <= i /\ i <= high
  BY <1>6, <1>7, <1>8 DEF Signers
<1>11. QED
  BY <1>6, <1>7, <1>9, <1>10

-----------------------------------------------------------------------------
(* Facts every step of a thread uses.                                      *)

(* What the invariant says of the constants and of a thread.               *)
LEMMA Typed ==
  ASSUME LoopInv
  PROVE  /\ NumThreads \in Nat \ {0} /\ geo \in GeometryType
         /\ \A t \in Threads : /\ t \in Nat /\ chunk[t] \in Nat /\ part[t] \in Nat
                               /\ max_part[t] \in Int /\ new_val[t] \in Nat
BY LoopAssumption DEF LoopInv, TypeOK, Threads

(* A thread that is not done runs between fork and join.                   *)
LEMMA Running ==
  ASSUME LoopInv, NEW t \in Threads, tpc[t] # "done"
  PROVE  /\ mpc = "join" /\ InTeam /\ SoundLayout(geo)
         /\ chunk[t] \in Chunks(geo) /\ Own(t, chunk[t])
         /\ partition_count = PartitionCount(geo)
         /\ Many => /\ DOMAIN local_overlap = Partitions(geo)
                    /\ local_overlap \in [Partitions(geo) -> Nat]
                    /\ \A i \in Partitions(geo) :
                         local_overlap_count[i] = Cardinality(Signers(geo, i))
<1>1. mpc = "join" /\ InTeam
  BY DEF LoopInv, Idle, InTeam
<1>2. SoundLayout(geo) /\ chunk[t] \in Chunks(geo) /\ Own(t, chunk[t])
  BY <1>1 DEF LoopInv, Shape, Schedule
<1>3. /\ partition_count = PartitionCount(geo)
      /\ local_overlap_count = IF Partitionable(geo) THEN OverlapCounts ELSE NULL
  BY <1>1 DEF LoopInv, Shape
<1>4. ASSUME Many
      PROVE  /\ DOMAIN local_overlap = Partitions(geo)
             /\ local_overlap \in [Partitions(geo) -> Nat]
             /\ \A i \in Partitions(geo) :
                  local_overlap_count[i] = Cardinality(Signers(geo, i))
  <2>1. Partitionable(geo)
    BY <1>3, <1>4 DEF Many, PartitionCount, Traps
  <2>2. local_overlap_count = [i \in Partitions(geo) |-> LocalOverlapCount(geo, i)]
    BY <1>3, <2>1 DEF OverlapCounts
  <2>3. local_overlap \in [Partitions(geo) -> Nat]
    BY <2>2 DEF LoopInv, TypeOK
  <2>4. \A i \in Partitions(geo) :
          LocalOverlapCount(geo, i) = Cardinality(Signers(geo, i))
    BY <1>2, <1>3, <1>4 DEF SoundLayout, Many
  <2>5. QED
    BY <2>2, <2>3, <2>4
<1>5. QED
  BY <1>1, <1>2, <1>3, <1>4

(* The partition a thread signs off is one its chunk is a signer of.       *)
LEMMA CursorInRange ==
  ASSUME LoopInv, NEW t \in Threads, tpc[t] \in {"capture", "compare"}
  PROVE  /\ Many /\ part[t] \in Partitions(geo)
         /\ chunk[t] \in Signers(geo, part[t])
         /\ part[t] <= max_part[t] /\ max_part[t] < PartitionCount(geo)
         /\ \A i : chunk[t] \in Signers(geo, i) => i \in Int /\ i <= max_part[t]
<1>1. /\ mpc = "join" /\ SoundLayout(geo) /\ chunk[t] \in Chunks(geo)
      /\ geo \in GeometryType /\ part[t] \in Nat
  BY Running, Typed
<1>2. /\ partition_count = PartitionCount(geo)
      /\ partition_length_bytes = PartitionLength(geo)
      /\ access = AccessPattern(geo)
  BY <1>1 DEF LoopInv, Shape
<1>3. /\ Many /\ max_part[t] = SignoffLast(chunk[t])
      /\ SignoffFirst(chunk[t]) <= part[t] /\ part[t] <= max_part[t]
  BY DEF LoopInv, Cursor
<1>4. /\ SignoffFirst(chunk[t]) = FirstPartition(AccessPattern(geo), PartitionLength(geo),
                                                 ChunkLb(geo, chunk[t]))
      /\ SignoffLast(chunk[t]) = LastPartition(AccessPattern(geo), PartitionLength(geo),
                                     PartitionCount(geo), ChunkUb(geo, chunk[t]))
  BY <1>2 DEF SignoffFirst, SignoffLast
<1>5. QED
  BY <1>1, <1>3, <1>4, SignoffRange

-----------------------------------------------------------------------------
(* One lemma per action of a thread.                                       *)

(* The stores of a chunk disturb no counter.                               *)
LEMMA RunChunkStep ==
  ASSUME LoopInv, NEW t \in Threads, RunChunk(t)
  PROVE  LoopInv'
<1>1. /\ mpc = "join" /\ InTeam /\ chunk[t] \in Chunks(geo)
  BY Running DEF RunChunk
<1>2. /\ tpc[t] = "body" /\ tpc' = [tpc EXCEPT ![t] = "signoff"]
      /\ written' = written \cup {chunk[t]}
      /\ UNCHANGED <<mpixVars, mainVars, chunk, part, max_part, new_val, signed>>
  BY DEF RunChunk
<1>3. /\ UNCHANGED <<partition_count, partition_length_bytes, access, dest,
                    local_overlap_count, partitions_ready, is_active, local_overlap,
                    noaccess, request, geo, mpc, round, chunk, part, max_part,
                    new_val, signed>>
  BY <1>2 DEF mpixVars, shapeVars, mainVars
<1>4. \A u \in Threads : tpc'[u] = IF u = t THEN "signoff" ELSE tpc[u]
  BY <1>2 DEF LoopInv, TypeOK
<1>5. TypeOK'
  BY <1>1, <1>2, <1>3 DEF LoopInv, TypeOK, OverlapCounts
<1>6. Shape'
  BY <1>3 DEF LoopInv, Shape, OverlapCounts
<1>7. Phases' /\ Idle' /\ Clean' /\ Begun' /\ AfterJoin' /\ ReadyOnce'
  BY <1>1, <1>3 DEF LoopInv, Phases, Idle, Clean, Begun, AfterJoin, ReadyOnce, InTeam
<1>8. Schedule'
  BY <1>1, <1>2, <1>3, <1>4 DEF LoopInv, Schedule, InTeam
<1>9. Stored'
  BY <1>1, <1>2, <1>3, <1>4 DEF LoopInv, Stored, InTeam
<1>10. Cursor'
  BY <1>2, <1>3, <1>4 DEF LoopInv, Cursor, Many, SignoffFirst, SignoffLast
<1>11. \A u \in Threads : \A c, i : Counted(u, c, i)' <=> Counted(u, c, i)
  BY <1>2, <1>3, <1>4 DEF Counted
<1>12. SignedBy'
  <2>1. signed' \in [Partitions(geo') -> SUBSET written']
    BY <1>1, <1>2, <1>3 DEF LoopInv, SignedBy
  <2>2. QED
    BY <1>1, <1>3, <1>11, <2>1 DEF LoopInv, SignedBy, InTeam, Many
<1>13. Counters' /\ Captures'
  BY <1>1, <1>2, <1>3, <1>4 DEF LoopInv, Counters, Captures, InTeam, Many
<1>14. ReadyIff'
  BY <1>1, <1>2, <1>3, <1>4 DEF LoopInv, ReadyIff, InTeam, Many, LastToSign
<1>15. QED
  BY <1>5, <1>6, <1>7, <1>8, <1>9, <1>10, <1>12, <1>13, <1>14 DEF LoopInv

(* Leaving a chunk that has signed everything it is a signer of: the next  *)
(* chunk of the thread is the first it has not counted.                    *)
LEMMA Advance ==
  ASSUME LoopInv, NEW t \in Threads, tpc[t] \in {"signoff", "compare"}, NextChunk(t),
         UNCHANGED <<geo, mpc, written, signed, partition_count, part>>,
         Many => \A i \in Partitions(geo) :
                   chunk[t] \in Signers(geo, i) => chunk[t] \in signed[i]
  PROVE  /\ chunk' \in [Threads -> Nat]
         /\ tpc' \in [Threads -> {"body", "signoff", "capture", "compare", "done"}]
         /\ tpc'[t] \in {"body", "done"}
         /\ \A u \in Threads \ {t} : tpc'[u] = tpc[u] /\ chunk'[u] = chunk[u]
         /\ Schedule' /\ Stored' /\ SignedBy'
<1> DEFINE next == chunk[t] + NumThreads
<1>1. /\ mpc = "join" /\ InTeam /\ chunk[t] \in Chunks(geo) /\ Own(t, chunk[t])
      /\ chunk[t] \in Nat /\ NumThreads \in Nat \ {0} /\ geo \in GeometryType
  BY Running, Typed
<1>2. /\ chunk' = [chunk EXCEPT ![t] = next]
      /\ tpc' = [tpc EXCEPT ![t] = Dispatch(next)]
  BY DEF NextChunk
<1>3. next \in Nat /\ Own(t, next)
  BY <1>1, OwnNext
<1>4. \A u \in Threads : /\ chunk'[u] = IF u = t THEN next ELSE chunk[u]
                         /\ tpc'[u] = IF u = t THEN Dispatch(next) ELSE tpc[u]
  BY <1>2 DEF LoopInv, TypeOK
<1>5. Dispatch(next) = IF next \in Chunks(geo) THEN "body" ELSE "done"
  BY DEF Dispatch
<1>6. /\ chunk' \in [Threads -> Nat]
      /\ tpc' \in [Threads -> {"body", "signoff", "capture", "compare", "done"}]
  BY <1>2, <1>3, <1>5 DEF LoopInv, TypeOK
<1>7. \A c \in Chunks(geo) : c \in Nat
  BY <1>1, ChunksFinite
<1>8. \A c \in Chunks(geo) : Own(t, c) => (c < next <=> c < chunk[t] \/ c = chunk[t])
  BY <1>1, <1>3, <1>7, OwnGap
<1>9. Schedule'
  BY <1>1, <1>3, <1>4, <1>5 DEF LoopInv, Schedule, InTeam, Own
<1>10. Stored'
  <2>1. chunk[t] \in written
    BY <1>1 DEF LoopInv, Stored
  <2>2. QED
    BY <1>1, <1>4, <1>5, <1>8, <2>1 DEF LoopInv, Stored, InTeam, Own
<1>11. SignedBy'
  <2>1. ASSUME Many, NEW i \in Partitions(geo), NEW u \in Threads,
               NEW c \in Signers(geo, i), Own(u, c)
        PROVE  c \in signed[i] <=> Counted(u, c, i)'
    <3>1. c \in Chunks(geo) /\ c \in Nat
      BY <1>7 DEF Signers
    <3>2. c \in signed[i] <=> Counted(u, c, i)
      BY <1>1, <2>1 DEF LoopInv, SignedBy
    <3>3. CASE u # t
      BY <1>4, <3>2, <3>3 DEF Counted
    <3>4. CASE u = t
      <4>1. Counted(t, c, i)' <=> c < next
        BY <1>3, <1>4, <1>5, <3>1 DEF Counted
      <4>2. c < next <=> c < chunk[t] \/ c = chunk[t]
        BY <1>8, <2>1, <3>1, <3>4
      <4>3. c = chunk[t] => c \in signed[i]
        BY <2>1
      <4>4. c < chunk[t] => c \in signed[i]
        BY <3>2, <3>4 DEF Counted
      <4>5. c \in signed[i] => c < chunk[t] \/ c = chunk[t]
        BY <3>2, <3>4 DEF Counted
      <4>6. QED
        BY <3>4, <4>1, <4>2, <4>3, <4>4, <4>5
    <3>5. QED
      BY <3>3, <3>4
  <2>2. QED
    BY <1>1, <2>1 DEF LoopInv, SignedBy, InTeam, Many, Own
<1>12. QED
  BY <1>4, <1>5, <1>6, <1>9, <1>10, <1>11

(* Computing the range: an empty one ends the chunk.                       *)
LEMMA SignoffPartitionsStep ==
  ASSUME LoopInv, NEW t \in Threads, SignoffPartitions(t)
  PROVE  LoopInv'
<1> DEFINE low == SignoffFirst(chunk[t])
           high == SignoffLast(chunk[t])
<1>1. /\ tpc[t] = "signoff"
      /\ UNCHANGED <<mpixVars, mainVars, new_val, written, signed>>
  BY DEF SignoffPartitions
<1>2. /\ mpc = "join" /\ InTeam /\ chunk[t] \in Chunks(geo) /\ SoundLayout(geo)
      /\ geo \in GeometryType
  BY <1>1, Running, Typed
<1>3. /\ UNCHANGED <<partition_count, partition_length_bytes, access, dest,
                    local_overlap_count, partitions_ready, is_active, local_overlap,
                    noaccess, request, geo, mpc, round, new_val, signed, written>>
  BY <1>1 DEF mpixVars, shapeVars, mainVars
<1>4. /\ low \in Nat /\ high \in Int
      /\ \A i : chunk[t] \in Signers(geo, i) => i \in Int /\ low <= i /\ i <= high
  <2>1. /\ partition_count = PartitionCount(geo)
        /\ partition_length_bytes = PartitionLength(geo)
        /\ access = AccessPattern(geo)
    BY <1>2 DEF LoopInv, Shape
  <2>2. /\ low = FirstPartition(AccessPattern(geo), PartitionLength(geo),
                                ChunkLb(geo, chunk[t]))
        /\ high = LastPartition(AccessPattern(geo), PartitionLength(geo),
                                PartitionCount(geo), ChunkUb(geo, chunk[t]))
    BY <2>1 DEF SignoffFirst, SignoffLast
  <2>3. QED
    BY <1>2, <2>2, SignoffRange
<1>5. Shape'
  BY <1>3 DEF LoopInv, Shape, OverlapCounts
<1>6. Phases' /\ Idle' /\ Clean' /\ Begun' /\ AfterJoin' /\ ReadyOnce'
  BY <1>2, <1>3 DEF LoopInv, Phases, Idle, Clean, Begun, AfterJoin, ReadyOnce, InTeam
<1>7. CASE Many /\ low <= high
  <2>1. /\ part' = [part EXCEPT ![t] = low]
        /\ max_part' = [max_part EXCEPT ![t] = high]
        /\ tpc' = [tpc EXCEPT ![t] = "capture"]
        /\ UNCHANGED chunk
    BY <1>7 DEF SignoffPartitions, Many
  <2>2. \A u \in Threads : /\ tpc'[u] = IF u = t THEN "capture" ELSE tpc[u]
                           /\ part'[u] = IF u = t THEN low ELSE part[u]
                           /\ max_part'[u] = IF u = t THEN high ELSE max_part[u]
    BY <2>1 DEF LoopInv, TypeOK
  <2>3. TypeOK'
    BY <1>3, <1>4, <2>1 DEF LoopInv, TypeOK, OverlapCounts
  <2>4. Schedule' /\ Stored'
    BY <1>1, <1>2, <1>3, <2>1, <2>2 DEF LoopInv, Schedule, Stored, InTeam, Own
  <2>5. Cursor'
    BY <1>3, <1>4, <1>7, <2>1, <2>2
       DEF LoopInv, Cursor, Many, SignoffFirst, SignoffLast
  <2>6. SignedBy'
    <3>1. ASSUME NEW i \in Partitions(geo), NEW u \in Threads, NEW c \in Signers(geo, i)
          PROVE  Counted(u, c, i)' <=> Counted(u, c, i)
      BY <1>1, <1>4, <2>1, <2>2 DEF Counted
    <3>2. QED
      BY <1>2, <1>3, <3>1 DEF LoopInv, SignedBy, InTeam, Many
  <2>7. Counters' /\ Captures'
    BY <1>1, <1>2, <1>3, <2>2 DEF LoopInv, Counters, Captures, InTeam, Many
  <2>8. ReadyIff'
    BY <1>1, <1>2, <1>3, <2>2 DEF LoopInv, ReadyIff, InTeam, Many, LastToSign
  <2>9. QED
    BY <1>5, <1>6, <2>3, <2>4, <2>5, <2>6, <2>7, <2>8 DEF LoopInv
<1>8. CASE ~(Many /\ low <= high)
  <2>1. NextChunk(t) /\ UNCHANGED <<part, max_part>>
    BY <1>8 DEF SignoffPartitions, Many
  <2>2. Many => \A i \in Partitions(geo) :
          chunk[t] \in Signers(geo, i) => chunk[t] \in signed[i]
    BY <1>4, <1>8
  <2>3. /\ chunk' \in [Threads -> Nat]
        /\ tpc' \in [Threads -> {"body", "signoff", "capture", "compare", "done"}]
        /\ tpc'[t] \in {"body", "done"}
        /\ \A u \in Threads \ {t} : tpc'[u] = tpc[u] /\ chunk'[u] = chunk[u]
        /\ Schedule' /\ Stored' /\ SignedBy'
    BY <1>1, <1>3, <2>1, <2>2, Advance
  <2>4. TypeOK'
    BY <1>3, <2>1, <2>3 DEF LoopInv, TypeOK, OverlapCounts
  <2>5. Cursor'
    BY <1>3, <2>1, <2>3 DEF LoopInv, Cursor, Many, SignoffFirst, SignoffLast
  <2>6. Counters' /\ Captures'
    BY <1>2, <1>3, <2>1, <2>3 DEF LoopInv, Counters, Captures, InTeam, Many
  <2>7. ReadyIff'
    BY <1>1, <1>2, <1>3, <2>1, <2>3 DEF LoopInv, ReadyIff, InTeam, Many, LastToSign
  <2>8. QED
    BY <1>5, <1>6, <2>3, <2>4, <2>5, <2>6, <2>7 DEF LoopInv
<1>9. QED
  BY <1>7, <1>8

(* The atomic capture: the value captured is the number of chunks that     *)
(* have signed the partition off, this one included.                       *)
LEMMA CaptureOverlapStep ==
  ASSUME LoopInv, NEW t \in Threads, CaptureOverlap(t)
  PROVE  LoopInv'
<1> DEFINE i0 == part[t]
           c0 == chunk[t]
<1>1. /\ tpc[t] = "capture" /\ tpc' = [tpc EXCEPT ![t] = "compare"]
      /\ local_overlap' = [local_overlap EXCEPT ![i0] = @ + 1]
      /\ new_val' = [new_val EXCEPT ![t] = local_overlap[i0] + 1]
      /\ signed' = [signed EXCEPT ![i0] = @ \cup {c0}]
      /\ UNCHANGED <<mainVars, shapeVars, partitions_ready, is_active, noaccess,
                     request, chunk, part, max_part, written>>
  BY DEF CaptureOverlap
<1>2. UNCHANGED <<geo, mpc, round, partition_count, partition_length_bytes, access,
                  dest, local_overlap_count, partitions_ready, is_active, noaccess,
                  request, chunk, part, max_part, written>>
  BY <1>1 DEF mainVars, shapeVars
<1>3. /\ mpc = "join" /\ InTeam /\ c0 \in Chunks(geo) /\ Own(t, c0) /\ c0 \in Nat
      /\ geo \in GeometryType /\ SoundLayout(geo)
  BY <1>1, Running, Typed
<1>4. Many /\ i0 \in Partitions(geo) /\ c0 \in Signers(geo, i0) /\ i0 \in Nat
  BY <1>1, CursorInRange, Typed
<1>5. /\ local_overlap \in [Partitions(geo) -> Nat]
      /\ \A i \in Partitions(geo) : local_overlap_count[i] = Cardinality(Signers(geo, i))
  BY <1>1, <1>4, Running
<1>6. /\ signed \in [Partitions(geo) -> SUBSET written]
      /\ \A i \in Partitions(geo) : signed[i] \subseteq Signers(geo, i)
      /\ \A i \in Partitions(geo) : \A u \in Threads, c \in Signers(geo, i) :
           Own(u, c) => (c \in signed[i] <=> Counted(u, c, i))
  BY <1>3, <1>4 DEF LoopInv, SignedBy
<1>7. c0 \notin signed[i0]
  BY <1>1, <1>3, <1>4, <1>6 DEF Counted
<1>8. /\ \A i \in Partitions(geo) : IsFiniteSet(signed[i]) /\ Cardinality(signed[i]) \in Nat
      /\ Cardinality(signed[i0] \cup {c0}) = Cardinality(signed[i0]) + 1
  <2>1. \A i \in Partitions(geo) : IsFiniteSet(signed[i]) /\ Cardinality(signed[i]) \in Nat
    BY <1>3, <1>6, SignersFinite, FS_Subset, FS_CardinalityType
  <2>2. QED
    BY <1>4, <1>7, <2>1, FS_AddElement
<1>9. Cardinality(signed[i0]) < local_overlap_count[i0]
  <2>1. IsFiniteSet(Signers(geo, i0)) /\ Cardinality(Signers(geo, i0)) \in Nat
    BY <1>3, SignersFinite
  <2>2. signed[i0] \cup {c0} \subseteq Signers(geo, i0)
    BY <1>4, <1>6
  <2>3. Cardinality(signed[i0] \cup {c0}) <= Cardinality(Signers(geo, i0))
    BY <2>1, <2>2, FS_Subset
  <2>4. QED
    BY <1>4, <1>5, <1>8, <2>1, <2>3
<1>10. /\ \A u \in Threads : /\ tpc'[u] = IF u = t THEN "compare" ELSE tpc[u]
                             /\ new_val'[u] = IF u = t THEN local_overlap[i0] + 1
                                                      ELSE new_val[u]
       /\ signed'[i0] = signed[i0] \cup {c0}
       /\ local_overlap'[i0] = local_overlap[i0] + 1
       /\ \A i \in Partitions(geo) \ {i0} :
            signed'[i] = signed[i] /\ local_overlap'[i] = local_overlap[i]
  BY <1>1, <1>4, <1>5, <1>6 DEF LoopInv, TypeOK
<1>11. local_overlap[i0] = Cardinality(signed[i0])
  BY <1>3, <1>4 DEF LoopInv, Counters
<1>12. Shape'
  BY <1>2 DEF LoopInv, Shape, OverlapCounts
<1>13. Phases' /\ Idle' /\ Clean' /\ Begun' /\ AfterJoin' /\ ReadyOnce'
  BY <1>2, <1>3 DEF LoopInv, Phases, Idle, Clean, Begun, AfterJoin, ReadyOnce, InTeam
<1>14. TypeOK'
  BY <1>1, <1>2, <1>4, <1>5 DEF LoopInv, TypeOK, OverlapCounts
<1>15. Schedule' /\ Stored'
  BY <1>1, <1>2, <1>3, <1>10 DEF LoopInv, Schedule, Stored, InTeam, Own
<1>16. Cursor'
  BY <1>1, <1>2, <1>10 DEF LoopInv, Cursor, Many, SignoffFirst, SignoffLast
<1>17. SignedBy'
  <2>1. signed' \in [Partitions(geo) -> SUBSET written]
    <3>1. c0 \in written
      BY <1>1, <1>3 DEF LoopInv, Stored
    <3>2. QED
      BY <1>1, <1>6, <3>1
  <2>2. ASSUME NEW i \in Partitions(geo)
        PROVE  signed'[i] \subseteq Signers(geo, i)
    <3>1. signed[i] \subseteq Signers(geo, i)
      BY <1>6
    <3>2. CASE i = i0
      BY <1>4, <1>10, <3>1, <3>2
    <3>3. CASE i # i0
      BY <1>10, <3>1, <3>3
    <3>4. QED
      BY <3>2, <3>3
  <2>3. ASSUME NEW i \in Partitions(geo), NEW u \in Threads, NEW c \in Signers(geo, i),
               Own(u, c)
        PROVE  c \in signed'[i] <=> Counted(u, c, i)'
    <3>1. c \in signed[i] <=> Counted(u, c, i)
      BY <1>6, <2>3
    <3>2. i \in Nat /\ c \in Nat
      BY <1>3, PartitionsFinite, ChunksFinite DEF Signers
    <3>3. CASE u # t
      <4>1. c # c0
        BY <1>3, <2>3, <3>2, <3>3, OwnUnique
      <4>2. c \in signed'[i] <=> c \in signed[i]
        BY <1>10, <4>1
      <4>3. QED
        BY <1>2, <1>10, <3>1, <3>3, <4>2 DEF Counted
    <3>4. CASE u = t /\ c # c0
      <4>1. c \in signed'[i] <=> c \in signed[i]
        BY <1>10, <3>4
      <4>2. Counted(u, c, i) <=> c < chunk[u]
        BY <3>4 DEF Counted
      <4>3. Counted(u, c, i)' <=> c < chunk[u]
        BY <1>2, <3>4 DEF Counted
      <4>4. QED
        BY <3>1, <4>1, <4>2, <4>3
    <3>5. CASE u = t /\ c = c0
      <4>1. Counted(u, c, i)' <=> i <= i0
        BY <1>2, <1>3, <1>10, <3>5 DEF Counted
      <4>2. Counted(u, c, i) <=> i < i0
        BY <1>1, <1>3, <3>5 DEF Counted
      <4>3. c \in signed'[i] <=> c \in signed[i] \/ i = i0
        BY <1>10, <3>5
      <4>4. QED
        BY <1>4, <3>1, <3>2, <3>5, <4>1, <4>2, <4>3
    <3>6. QED
      BY <3>3, <3>4, <3>5
  <2>4. QED
    BY <1>2, <1>3, <2>1, <2>2, <2>3 DEF SignedBy, InTeam, Many, Own
<1>18. Counters'
  BY <1>2, <1>3, <1>4, <1>8, <1>10 DEF LoopInv, Counters, InTeam, Many
<1>19. Captures'
  <2>1. ASSUME NEW u \in Threads, tpc[u] = "compare"
        PROVE  part[u] \in Partitions(geo)
    BY <2>1, CursorInRange
  <2>2. new_val'[t] = Cardinality(signed'[i0]) /\ Cardinality(signed'[i0]) = Cardinality(signed[i0]) + 1
    BY <1>4, <1>8, <1>10, <1>11
  <2>3. ASSUME NEW u \in Threads, u # t, tpc[u] = "compare"
        PROVE  /\ 1 <= new_val[u] /\ new_val[u] <= Cardinality(signed[part[u]])
               /\ Cardinality(signed[part[u]]) <= Cardinality(signed'[part[u]])
               /\ part[u] = i0 => new_val[u] # new_val'[t]
    <3>1. 1 <= new_val[u] /\ new_val[u] <= Cardinality(signed[part[u]]) /\ new_val[u] \in Nat
      BY <2>3, Typed DEF LoopInv, Captures
    <3>2. part[u] \in Partitions(geo)
      BY <2>1, <2>3
    <3>3. Cardinality(signed[part[u]]) <= Cardinality(signed'[part[u]])
      <4>1. CASE part[u] = i0
        BY <1>4, <1>8, <2>2, <4>1
      <4>2. CASE part[u] # i0
        BY <1>8, <1>10, <3>2, <4>2
      <4>3. QED
        BY <4>1, <4>2
    <3>4. QED
      BY <1>4, <1>8, <2>2, <3>1, <3>3
  <2>4. ASSUME NEW u \in Threads, tpc'[u] = "compare"
        PROVE  1 <= new_val'[u] /\ new_val'[u] <= Cardinality(signed'[part[u]])
    <3>1. CASE u = t
      BY <1>4, <1>8, <2>2, <3>1
    <3>2. CASE u # t
      <4>1. tpc[u] = "compare" /\ new_val'[u] = new_val[u] /\ new_val[u] \in Nat
        BY <1>10, <2>4, <3>2, Typed
      <4>2. /\ Cardinality(signed[part[u]]) \in Nat
            /\ Cardinality(signed'[part[u]]) \in Nat
        <5>1. part[u] \in Partitions(geo)
          BY <2>1, <4>1
        <5>2. CASE part[u] = i0
          BY <1>4, <1>8, <2>2, <5>2
        <5>3. CASE part[u] # i0
          BY <1>8, <1>10, <5>1, <5>3
        <5>4. QED
          BY <5>2, <5>3
      <4>3. QED
        BY <2>3, <3>2, <4>1, <4>2
    <3>3. QED
      BY <3>1, <3>2
  <2>5. ASSUME NEW u \in Threads, NEW v \in Threads, u # v, tpc'[u] = "compare",
               tpc'[v] = "compare", part[u] = part[v]
        PROVE  new_val'[v] # new_val'[u]
    <3>1. CASE u # t /\ v # t
      BY <1>10, <2>5, <3>1 DEF LoopInv, Captures
    <3>2. CASE u = t
      BY <1>10, <2>3, <2>5, <3>2
    <3>3. CASE v = t
      BY <1>10, <2>3, <2>5, <3>3
    <3>4. QED
      BY <3>1, <3>2, <3>3
  <2>6. QED
    BY <1>2, <2>4, <2>5 DEF Captures
<1>20. ReadyIff'
  <2>1. ASSUME NEW i \in Partitions(geo)
        PROVE  i \in noaccess <=>
                 /\ Cardinality(signed'[i]) = local_overlap_count[i]
                 /\ \A u \in Threads : tpc'[u] = "compare" /\ part[u] = i
                                        => new_val'[u] # local_overlap_count[part[u]]
    <3>1. i \in noaccess <=>
            /\ Cardinality(signed[i]) = local_overlap_count[i]
            /\ \A u \in Threads : tpc[u] = "compare" /\ part[u] = i => ~LastToSign(u)
      BY <1>3, <1>4 DEF LoopInv, ReadyIff
    <3>2. CASE i = i0
      <4>1. i0 \notin noaccess
        BY <1>4, <1>5, <1>8, <1>9, <3>1, <3>2
      <4>2. new_val'[t] = Cardinality(signed'[i0])
        BY <1>4, <1>8, <1>10, <1>11
      <4>3. QED
        BY <1>10, <3>2, <4>1, <4>2
    <3>3. CASE i # i0
      BY <1>1, <1>10, <3>1, <3>3 DEF LastToSign
    <3>4. QED
      BY <3>2, <3>3
  <2>2. QED
    BY <1>2, <1>3, <1>4, <2>1 DEF ReadyIff, InTeam, Many, LastToSign
<1>21. QED
  BY <1>12, <1>13, <1>14, <1>15, <1>16, <1>17, <1>18, <1>19, <1>20 DEF LoopInv

(* The comparison: exactly one of the captures of a partition is the last, *)
(* and that one marks it ready.                                            *)
LEMMA CompareOverlapStep ==
  ASSUME LoopInv, NEW t \in Threads, CompareOverlap(t)
  PROVE  LoopInv'
<1> DEFINE i0 == part[t]
           c0 == chunk[t]
<1>1. tpc[t] = "compare" /\ UNCHANGED <<mainVars, max_part, new_val, written, signed>>
  BY DEF CompareOverlap
<1>2. IF LastToSign(t)
      THEN noaccess' = noaccess \cup {i0} /\ partitions_ready' = partitions_ready + 1
      ELSE noaccess' = noaccess /\ partitions_ready' = partitions_ready
  BY DEF CompareOverlap, MPIX_Pready, mpixVars
<1>3. UNCHANGED <<geo, mpc, round, partition_count, partition_length_bytes, access, dest,
                  local_overlap_count, local_overlap, is_active, request,
                  max_part, new_val, written, signed>>
  BY <1>1 DEF CompareOverlap, MPIX_Pready, mpixVars, shapeVars, mainVars
<1>4. /\ mpc = "join" /\ InTeam /\ c0 \in Chunks(geo) /\ Own(t, c0) /\ c0 \in Nat
      /\ geo \in GeometryType /\ SoundLayout(geo)
  BY <1>1, Running, Typed
<1>5. /\ Many /\ i0 \in Partitions(geo) /\ c0 \in Signers(geo, i0) /\ i0 \in Nat
      /\ i0 <= max_part[t] /\ max_part[t] \in Int
      /\ \A i : c0 \in Signers(geo, i) => i \in Int /\ i <= max_part[t]
  BY <1>1, CursorInRange, Typed
<1>6. \A i \in Partitions(geo) : local_overlap_count[i] = Cardinality(Signers(geo, i))
  BY <1>1, <1>5, Running
<1>7. /\ signed \in [Partitions(geo) -> SUBSET written]
      /\ \A i \in Partitions(geo) : signed[i] \subseteq Signers(geo, i)
      /\ \A i \in Partitions(geo) : \A u \in Threads, c \in Signers(geo, i) :
           Own(u, c) => (c \in signed[i] <=> Counted(u, c, i))
  BY <1>4, <1>5 DEF LoopInv, SignedBy
<1>8. \A i \in Partitions(geo) :
        i \in noaccess <=>
          /\ Cardinality(signed[i]) = local_overlap_count[i]
          /\ \A u \in Threads : tpc[u] = "compare" /\ part[u] = i => ~LastToSign(u)
  BY <1>4, <1>5 DEF LoopInv, ReadyIff
<1>9. LastToSign(t) => i0 \notin noaccess
  BY <1>1, <1>5, <1>8
<1>10. LastToSign(t) => Cardinality(signed[i0]) = local_overlap_count[i0]
  <2> SUFFICES ASSUME LastToSign(t)
               PROVE  Cardinality(signed[i0]) = local_overlap_count[i0]
    OBVIOUS
  <2>1. local_overlap_count[i0] <= Cardinality(signed[i0])
    BY <1>1 DEF LoopInv, Captures, LastToSign
  <2>2. /\ Cardinality(signed[i0]) <= Cardinality(Signers(geo, i0))
        /\ Cardinality(signed[i0]) \in Nat
    BY <1>4, <1>5, <1>7, SignersFinite, FS_Subset, FS_CardinalityType
  <2>3. QED
    BY <1>5, <1>6, <2>1, <2>2, SignersFinite, <1>4
<1>11. noaccess' \subseteq Partitions(geo) /\ partitions_ready' \in Nat
  BY <1>2, <1>5 DEF LoopInv, TypeOK
<1>12. ReadyOnce'
  <2>1. /\ IsFiniteSet(noaccess) /\ partitions_ready = Cardinality(noaccess)
        /\ Cardinality(noaccess) \in Nat
    BY <1>4, PartitionsFinite, FS_Subset, FS_CardinalityType DEF LoopInv, TypeOK, ReadyOnce
  <2>2. LastToSign(t) => Cardinality(noaccess \cup {i0}) = Cardinality(noaccess) + 1
    BY <1>9, <2>1, FS_AddElement
  <2>3. QED
    BY <1>2, <2>1, <2>2 DEF ReadyOnce
<1>13. Shape'
  BY <1>3 DEF LoopInv, Shape, OverlapCounts
<1>14. Phases' /\ Idle' /\ Clean' /\ Begun' /\ AfterJoin'
  BY <1>3, <1>4 DEF LoopInv, Phases, Idle, Clean, Begun, AfterJoin, InTeam
<1>15. Counters'
  BY <1>3 DEF LoopInv, Counters, InTeam, Many
\* What remains once it is known how the thread goes on.
<1>16. ASSUME /\ tpc' \in [Threads -> {"body", "signoff", "capture", "compare", "done"}]
              /\ chunk' \in [Threads -> Nat] /\ part' \in [Threads -> Nat]
              /\ tpc'[t] # "compare"
              /\ \A u \in Threads \ {t} : tpc'[u] = tpc[u] /\ part'[u] = part[u]
       PROVE  TypeOK' /\ Captures' /\ ReadyIff'
  <2>1. TypeOK'
    BY <1>3, <1>11, <1>16 DEF LoopInv, TypeOK, OverlapCounts
  <2>2. Captures'
    BY <1>3, <1>16 DEF LoopInv, Captures
  <2>3. ASSUME NEW i \in Partitions(geo)
        PROVE  i \in noaccess' <=>
                 /\ Cardinality(signed[i]) = local_overlap_count[i]
                 /\ \A u \in Threads : tpc'[u] = "compare" /\ part'[u] = i
                                       => new_val[u] # local_overlap_count[i]
    <3>1. CASE i = i0 /\ LastToSign(t)
      <4>1. \A u \in Threads \ {t} : tpc[u] = "compare" /\ part[u] = i0
                                     => new_val[u] # new_val[t]
        BY <1>1 DEF LoopInv, Captures
      <4>2. \A u \in Threads : tpc'[u] = "compare" /\ part'[u] = i0
                               => new_val[u] # local_overlap_count[i0]
        BY <1>16, <3>1, <4>1 DEF LastToSign
      <4>3. QED
        BY <1>2, <1>10, <3>1, <4>2
    <3>2. CASE i # i0 \/ ~LastToSign(t)
      <4>1. i \in noaccess' <=> i \in noaccess
        BY <1>2, <3>2
      <4>2. \A u \in Threads :
              tpc'[u] = "compare" /\ part'[u] = i
                <=> u # t /\ tpc[u] = "compare" /\ part[u] = i
        BY <1>16
      <4>3. tpc[t] = "compare" /\ part[t] = i => ~LastToSign(t)
        BY <3>2
      <4>4. QED
        BY <1>8, <4>1, <4>2, <4>3 DEF LastToSign
    <3>3. QED
      BY <3>1, <3>2
  <2>4. ReadyIff'
    BY <1>3, <1>4, <1>5, <2>3 DEF ReadyIff, InTeam, Many, LastToSign
  <2>5. QED
    BY <2>1, <2>2, <2>4
<1>17. CASE part[t] < max_part[t]
  <2>1. /\ part' = [part EXCEPT ![t] = @ + 1] /\ tpc' = [tpc EXCEPT ![t] = "capture"]
        /\ UNCHANGED chunk
    BY <1>17 DEF CompareOverlap
  <2>2. \A u \in Threads : /\ tpc'[u] = IF u = t THEN "capture" ELSE tpc[u]
                           /\ part'[u] = IF u = t THEN i0 + 1 ELSE part[u]
    BY <2>1 DEF LoopInv, TypeOK
  <2>3. TypeOK' /\ Captures' /\ ReadyIff'
    <3>1. /\ tpc' \in [Threads -> {"body", "signoff", "capture", "compare", "done"}]
          /\ chunk' \in [Threads -> Nat] /\ part' \in [Threads -> Nat]
      BY <1>5, <2>1 DEF LoopInv, TypeOK
    <3>2. QED
      BY <1>16, <2>2, <3>1
  <2>4. Schedule' /\ Stored'
    BY <1>1, <1>3, <1>4, <2>1, <2>2 DEF LoopInv, Schedule, Stored, InTeam, Own
  <2>5. Cursor'
    <3>1. SignoffFirst(c0) <= i0 + 1 /\ i0 + 1 <= max_part[t] /\ max_part[t] = SignoffLast(c0)
      <4>1. /\ SignoffFirst(c0) <= i0 /\ max_part[t] = SignoffLast(c0)
        BY <1>1 DEF LoopInv, Cursor
      <4>2. SignoffFirst(c0) \in Nat
        BY <1>4, SignoffRange DEF LoopInv, Shape, SignoffFirst
      <4>3. QED
        BY <1>5, <1>17, <4>1, <4>2
    <3>2. QED
      BY <1>3, <1>5, <2>1, <2>2, <3>1
         DEF LoopInv, Cursor, Many, SignoffFirst, SignoffLast
  <2>6. SignedBy'
    <3>1. ASSUME NEW i \in Partitions(geo), NEW u \in Threads, NEW c \in Signers(geo, i)
          PROVE  Counted(u, c, i)' <=> Counted(u, c, i)
      <4>1. i \in Nat
        BY <1>4, PartitionsFinite
      <4>2. QED
        BY <1>1, <1>5, <2>1, <2>2, <4>1 DEF Counted
    <3>2. QED
      BY <1>3, <1>4, <3>1 DEF LoopInv, SignedBy, InTeam, Many
  <2>7. QED
    BY <1>12, <1>13, <1>14, <1>15, <2>3, <2>4, <2>5, <2>6 DEF LoopInv
<1>18. CASE ~(part[t] < max_part[t])
  <2>1. NextChunk(t) /\ UNCHANGED part
    BY <1>18 DEF CompareOverlap
  <2>2. \A i \in Partitions(geo) : c0 \in Signers(geo, i) => c0 \in signed[i]
    <3>1. max_part[t] = i0
      BY <1>5, <1>18
    <3>2. ASSUME NEW i \in Partitions(geo), c0 \in Signers(geo, i) PROVE Counted(t, c0, i)
      BY <1>1, <1>5, <3>1, <3>2 DEF Counted
    <3>3. QED
      BY <1>4, <1>7, <3>2
  <2>3. /\ chunk' \in [Threads -> Nat]
        /\ tpc' \in [Threads -> {"body", "signoff", "capture", "compare", "done"}]
        /\ tpc'[t] \in {"body", "done"}
        /\ \A u \in Threads \ {t} : tpc'[u] = tpc[u] /\ chunk'[u] = chunk[u]
        /\ Schedule' /\ Stored' /\ SignedBy'
    BY <1>1, <1>3, <2>1, <2>2, Advance
  <2>4. TypeOK' /\ Captures' /\ ReadyIff'
    <3>1. part' \in [Threads -> Nat]
      BY <2>1 DEF LoopInv, TypeOK
    <3>2. QED
      BY <1>16, <2>1, <2>3, <3>1
  <2>5. Cursor'
    BY <1>3, <2>1, <2>3 DEF LoopInv, Cursor, Many, SignoffFirst, SignoffLast
  <2>6. QED
    BY <1>12, <1>13, <1>14, <1>15, <2>3, <2>4, <2>5 DEF LoopInv
<1>19. QED
  BY <1>17, <1>18

-----------------------------------------------------------------------------
(* The main thread's steps.  Outside the team most of the invariant is     *)
(* about nothing.                                                          *)

(* The layout of the request is the one of the geometry.                   *)
LEMMA SendStep ==
  ASSUME LoopInv, SoundGeometries, SendWhole \/ SendPartitioned
  PROVE  LoopInv'
<1> DEFINE overlap_count == IF Partitionable(geo) THEN OverlapCounts ELSE NULL
<1>1. PICK d \in Dests : Psend_init(d, overlap_count)
  BY DEF SendWhole, SendPartitioned
<1>2. mpc = "init" /\ mpc' = "start" /\ UNCHANGED <<geo, round>> /\ UNCHANGED teamVars
  BY DEF SendWhole, SendPartitioned, Goto
<1>3. SoundLayout(geo) /\ PartitionCount(geo) \in Nat
  <2>1. ~Traps(geo)
    BY DEF SendWhole, SendPartitioned, Traps
  <2>2. QED
    BY <2>1 DEF LoopInv, TypeOK, SoundGeometries, SoundLayout
<1>4. /\ partition_count' = PartitionCount(geo)
      /\ partition_length_bytes' = PartitionLength(geo)
      /\ access' = AccessPattern(geo) /\ dest' = d
      /\ partitions_ready' = 0 /\ is_active' = 0 /\ request' = "inactive"
      /\ local_overlap_count' = overlap_count
      /\ local_overlap' = [i \in DOMAIN overlap_count |-> 0]
      /\ UNCHANGED noaccess
  BY <1>1 DEF Psend_init, MPIX_Psend_init
<1>5. noaccess = {} /\ \A t \in Threads : tpc[t] = "done"
  BY <1>2 DEF LoopInv, Clean, Idle, InTeam
<1>6. UNCHANGED <<tpc, chunk, part, max_part, new_val, written, signed>>
  BY <1>2 DEF teamVars
<1>7. TypeOK'
  <2>1. local_overlap' \in [DOMAIN local_overlap_count' -> Nat]
    BY <1>4
  <2>2. local_overlap_count' \in {NULL, OverlapCounts'}
    BY <1>1, <1>2, <1>4 DEF OverlapCounts
  <2>3. QED
    BY <1>2, <1>3, <1>4, <1>5, <1>6, <2>1, <2>2 DEF LoopInv, TypeOK
<1>8. Shape'
  BY <1>1, <1>2, <1>3, <1>4 DEF Shape, OverlapCounts
<1>9. Phases' /\ Idle' /\ Clean' /\ Begun' /\ AfterJoin'
  BY <1>2, <1>4, <1>5, <1>6 DEF LoopInv, Phases, Idle, Clean, Begun, AfterJoin, InTeam
<1>10. Schedule' /\ Stored' /\ SignedBy' /\ Counters' /\ ReadyIff'
  BY <1>2 DEF Schedule, Stored, SignedBy, Counters, ReadyIff, InTeam
<1>11. Cursor' /\ Captures'
  BY <1>5, <1>6 DEF Cursor, Captures
<1>12. ReadyOnce'
  BY <1>4, <1>5, FS_EmptySet DEF ReadyOnce
<1>13. QED
  BY <1>7, <1>8, <1>9, <1>10, <1>11, <1>12 DEF LoopInv

(* A round begins with nothing written and nothing signed.                 *)
LEMMA StartStep ==
  ASSUME LoopInv, Start
  PROVE  LoopInv'
<1>1. /\ mpc = "start" /\ mpc' = "fork" /\ round' = round + 1
      /\ is_active' = 1 /\ written' = {}
      /\ signed' = [i \in Partitions(geo) |-> {}]
      /\ UNCHANGED <<geo, partition_count, partition_length_bytes, access, dest,
                     local_overlap_count, partitions_ready, local_overlap, noaccess,
                     request, tpc, chunk, part, max_part, new_val>>
  BY DEF Start, MPIX_Start, shapeVars
<1>2. \A t \in Threads : tpc[t] = "done"
  BY <1>1 DEF LoopInv, Idle
<1>3. TypeOK'
  <2>1. round' \in 0 .. MaxRounds
    BY <1>1, LoopAssumption DEF LoopInv, TypeOK, Phases
  <2>2. QED
    BY <1>1, <2>1 DEF LoopInv, TypeOK, OverlapCounts
<1>4. Shape'
  BY <1>1 DEF LoopInv, Shape, OverlapCounts
<1>5. Phases' /\ Idle' /\ Clean' /\ Begun' /\ AfterJoin' /\ ReadyOnce'
  BY <1>1, <1>2 DEF LoopInv, Phases, Idle, Clean, Begun, AfterJoin, ReadyOnce, InTeam
<1>6. Schedule' /\ Stored' /\ SignedBy' /\ Counters' /\ ReadyIff'
  BY <1>1 DEF Schedule, Stored, SignedBy, Counters, ReadyIff, InTeam
<1>7. Cursor' /\ Captures'
  BY <1>1, <1>2 DEF Cursor, Captures
<1>8. QED
  BY <1>3, <1>4, <1>5, <1>6, <1>7 DEF LoopInv

(* Every thread begins with its first chunk and has counted nothing.       *)
LEMMA ForkStep ==
  ASSUME LoopInv, Fork
  PROVE  LoopInv'
<1>1. /\ mpc = "fork" /\ mpc' = "join" /\ UNCHANGED <<geo, round>>
      /\ chunk' = [t \in Threads |-> t]
      /\ tpc' = [t \in Threads |-> Dispatch(t)]
      /\ UNCHANGED <<mpixVars, part, max_part, new_val, written, signed>>
  BY DEF Fork, Goto
<1>2. UNCHANGED <<partition_count, partition_length_bytes, access, dest,
                  local_overlap_count, partitions_ready, is_active, local_overlap,
                  noaccess, request>>
  BY <1>1 DEF mpixVars, shapeVars
<1>3. /\ written = {} /\ signed = [i \in Partitions(geo) |-> {}]
      /\ noaccess = {} /\ partitions_ready = 0
      /\ \A i \in DOMAIN local_overlap : local_overlap[i] = 0
      /\ SoundLayout(geo) /\ geo \in GeometryType
      /\ partition_count = PartitionCount(geo)
      /\ local_overlap_count = IF Partitionable(geo) THEN OverlapCounts ELSE NULL
  BY <1>1, Typed DEF LoopInv, Begun, Clean, Shape, InTeam
<1>4. \A t \in Threads : /\ tpc'[t] \in {"body", "done"} /\ chunk'[t] = t /\ t \in Nat
                         /\ tpc'[t] = "done" <=> t \notin Chunks(geo)
                         /\ Own(t, t)
  BY <1>1, OwnFirst DEF Dispatch, Threads
<1>5. \A c \in Chunks(geo) : c \in Nat
  BY <1>3, ChunksFinite
<1>6. \A t \in Threads : \A c \in Chunks(geo) : Own(t, c) => ~(c < t)
  <2> SUFFICES ASSUME NEW t \in Threads, NEW c \in Chunks(geo), Own(t, c), c < t
               PROVE  FALSE
    OBVIOUS
  <2>1. c \in Nat /\ c < NumThreads /\ NumThreads \in Nat \ {0} /\ t \in Nat
    BY <1>5, LoopAssumption DEF Threads
  <2>2. c \in Threads
    BY <2>1 DEF Threads
  <2>3. c = t
    BY <2>1, <2>2, OwnFirst, OwnUnique
  <2>4. QED
    BY <2>1, <2>3
<1>7. TypeOK'
  BY <1>1, <1>2, <1>4 DEF LoopInv, TypeOK, OverlapCounts
<1>8. Shape'
  BY <1>1, <1>2 DEF LoopInv, Shape, OverlapCounts
<1>9. Phases' /\ Idle' /\ Clean' /\ Begun' /\ AfterJoin' /\ ReadyOnce'
  BY <1>1, <1>2 DEF LoopInv, Phases, Idle, Clean, Begun, AfterJoin, ReadyOnce, InTeam
<1>10. Schedule'
  BY <1>1, <1>4 DEF Schedule, Own
<1>11. Stored'
  BY <1>1, <1>4, <1>6 DEF Stored, Own
<1>12. Cursor' /\ Captures'
  BY <1>4 DEF Cursor, Captures
<1>13. SignedBy'
  <2>1. ASSUME NEW i \in Partitions(geo), NEW t \in Threads, NEW c \in Signers(geo, i),
               Own(t, c)
        PROVE  c \in signed[i] <=> Counted(t, c, i)'
    <3>1. c \in Chunks(geo)
      BY DEF Signers
    <3>2. ~Counted(t, c, i)'
      BY <1>4, <1>6, <2>1, <3>1 DEF Counted
    <3>3. QED
      BY <1>3, <3>2
  <2>2. QED
    BY <1>1, <1>2, <1>3, <2>1 DEF SignedBy, Many, Own
<1>14. ASSUME Many
       PROVE  \A i \in Partitions(geo) :
                /\ local_overlap[i] = 0 /\ Cardinality(signed[i]) = 0
                /\ local_overlap_count[i] # 0
  <2>1. Partitionable(geo)
    BY <1>3, <1>14 DEF Many, PartitionCount, Traps
  <2>2. local_overlap_count = [i \in Partitions(geo) |-> LocalOverlapCount(geo, i)]
    BY <1>3, <2>1 DEF OverlapCounts
  <2>3. DOMAIN local_overlap = Partitions(geo)
    BY <2>2 DEF LoopInv, TypeOK
  <2>4. ASSUME NEW i \in Partitions(geo) PROVE local_overlap_count[i] # 0
    <3>1. /\ Signers(geo, i) # {} /\ IsFiniteSet(Signers(geo, i))
          /\ local_overlap_count[i] = Cardinality(Signers(geo, i))
      BY <1>3, <1>14, <2>2, SignersFinite DEF SoundLayout, Many
    <3>2. QED
      BY <3>1, FS_EmptySet
  <2>5. QED
    BY <1>3, <2>3, <2>4, FS_EmptySet
<1>15. Counters'
  BY <1>1, <1>2, <1>14 DEF Counters, Many
<1>16. ReadyIff'
  BY <1>1, <1>2, <1>3, <1>14 DEF ReadyIff, Many
<1>17. QED
  BY <1>7, <1>8, <1>9, <1>10, <1>11, <1>12, <1>13, <1>15, <1>16 DEF LoopInv

(* At the join every signer of every partition has signed it.              *)
LEMMA JoinStep ==
  ASSUME LoopInv, Join
  PROVE  LoopInv'
<1>1. /\ mpc = "join" /\ mpc' = "wait" /\ UNCHANGED <<geo, round>>
      /\ \A t \in Threads : tpc[t] = "done"
      /\ UNCHANGED <<mpixVars, teamVars>>
  BY DEF Join, Goto
<1>2. UNCHANGED <<partition_count, partition_length_bytes, access, dest,
                  local_overlap_count, partitions_ready, is_active, local_overlap,
                  noaccess, request, tpc, chunk, part, max_part, new_val, written,
                  signed>>
  BY <1>1 DEF mpixVars, shapeVars, teamVars
<1>3. InTeam /\ InTeam' /\ geo \in GeometryType /\ SoundLayout(geo)
  BY <1>1, Typed DEF InTeam, LoopInv, Shape
<1>4. ASSUME NEW c \in Chunks(geo)
      PROVE  /\ c \in written
             /\ \A i \in Partitions(geo) : Many /\ c \in Signers(geo, i) => c \in signed[i]
  <2>1. c \in Nat /\ c < NumChunks(geo) /\ NumChunks(geo) \in Nat
    BY <1>3, ChunksFinite
  <2>2. PICK t \in Threads : Own(t, c)
    BY <2>1, OwnUnique
  <2>3. chunk[t] \in Nat /\ chunk[t] \notin Chunks(geo)
    BY <1>1, <1>3, Typed DEF LoopInv, Schedule
  <2>4. c < chunk[t]
    BY <1>3, <2>1, <2>3, ChunksFinite
  <2>5. c \in written
    BY <1>3, <2>2, <2>4 DEF LoopInv, Stored
  <2>6. \A i : Counted(t, c, i)
    BY <2>4 DEF Counted
  <2>7. QED
    BY <1>3, <2>2, <2>5, <2>6 DEF LoopInv, SignedBy
<1>5. Many => noaccess = Partitions(geo)
  <2> SUFFICES ASSUME Many, NEW i \in Partitions(geo)
               PROVE  i \in noaccess
    BY DEF LoopInv, TypeOK
  <2>1. signed[i] = Signers(geo, i)
    BY <1>3, <1>4 DEF LoopInv, SignedBy, Signers
  <2>2. local_overlap_count[i] = Cardinality(Signers(geo, i))
    <3>1. /\ partition_count = PartitionCount(geo)
          /\ local_overlap_count = IF Partitionable(geo) THEN OverlapCounts ELSE NULL
      BY <1>1 DEF LoopInv, Shape
    <3>2. Partitionable(geo)
      BY <3>1 DEF Many, PartitionCount, Traps
    <3>3. QED
      BY <1>3, <3>1, <3>2 DEF SoundLayout, Many, OverlapCounts
  <2>3. QED
    BY <1>1, <1>3, <2>1, <2>2 DEF LoopInv, ReadyIff
<1>6. TypeOK' /\ Shape'
  BY <1>1, <1>2 DEF LoopInv, TypeOK, Shape, OverlapCounts
<1>7. Phases' /\ Idle' /\ Clean' /\ Begun' /\ ReadyOnce'
  BY <1>1, <1>2 DEF LoopInv, Phases, Idle, Clean, Begun, ReadyOnce, InTeam
<1>8. AfterJoin'
  BY <1>1, <1>2, <1>3, <1>4, <1>5 DEF LoopInv, AfterJoin, ReadyIff, Many
<1>9. Schedule' /\ Stored'
  BY <1>1, <1>2, <1>3 DEF LoopInv, Schedule, Stored, Own
<1>10. Cursor' /\ Captures'
  BY <1>1, <1>2 DEF Cursor, Captures
<1>11. SignedBy'
  BY <1>1, <1>2, <1>3 DEF LoopInv, SignedBy, Many, Own, Counted
<1>12. Counters' /\ ReadyIff'
  BY <1>1, <1>2, <1>3 DEF LoopInv, Counters, ReadyIff, Many, LastToSign
<1>13. QED
  BY <1>6, <1>7, <1>8, <1>9, <1>10, <1>11, <1>12 DEF LoopInv

(* One partition nobody marked is marked by MPIX_Wait itself.              *)
LEMMA WaitPreadyStep ==
  ASSUME LoopInv, WaitPready
  PROVE  LoopInv'
<1>1. /\ mpc = "wait" /\ mpc' = "send" /\ UNCHANGED <<geo, round>> /\ UNCHANGED teamVars
      /\ IF NeedsImplicitReady
         THEN MPIX_Pready(0) /\ UNCHANGED local_overlap
         ELSE UNCHANGED mpixVars
  BY DEF WaitPready, Goto
<1>2. UNCHANGED <<partition_count, partition_length_bytes, access, dest,
                  local_overlap_count, is_active, local_overlap, request,
                  tpc, chunk, part, max_part, new_val, written, signed>>
  BY <1>1 DEF MPIX_Pready, mpixVars, shapeVars, teamVars
<1>3. /\ SoundLayout(geo) /\ partition_count = PartitionCount(geo)
      /\ PartitionCount(geo) \in Nat \ {0}
      /\ \A t \in Threads : tpc[t] = "done"
      /\ Chunks(geo) \subseteq written
      /\ noaccess = IF Many THEN Partitions(geo) ELSE {}
      /\ partitions_ready = Cardinality(noaccess)
  BY <1>1 DEF LoopInv, Shape, Idle, AfterJoin, SoundLayout, ReadyOnce
<1>4. noaccess' = Partitions(geo) /\ partitions_ready' = Cardinality(noaccess')
  <2>1. CASE Many
    BY <1>1, <1>3, <2>1 DEF NeedsImplicitReady, Many, mpixVars
  <2>2. CASE ~Many
    <3>1. partition_count = 1 /\ Partitions(geo) = {0}
      BY <1>3, <2>2 DEF Many, Partitions
    <3>2. noaccess = {} /\ partitions_ready = 0
      BY <1>3, <2>2, FS_EmptySet
    <3>3. noaccess' = {0} /\ partitions_ready' = 1
      BY <1>1, <3>1, <3>2 DEF NeedsImplicitReady, MPIX_Pready
    <3>4. Cardinality({0}) = 1
      BY FS_Singleton
    <3>5. QED
      BY <3>1, <3>3, <3>4
  <2>3. QED
    BY <2>1, <2>2
<1>5. partitions_ready' \in Nat
  BY <1>3, <1>4, PartitionsFinite, Typed
<1>6. TypeOK' /\ Shape'
  BY <1>1, <1>2, <1>4, <1>5 DEF LoopInv, TypeOK, Shape, OverlapCounts
<1>7. Phases' /\ Idle' /\ Clean' /\ Begun' /\ ReadyOnce' /\ AfterJoin'
  BY <1>1, <1>2, <1>3, <1>4
     DEF LoopInv, Phases, Idle, Clean, Begun, ReadyOnce, AfterJoin, InTeam
<1>8. Schedule' /\ Stored'
  BY <1>1, <1>2 DEF LoopInv, Schedule, Stored, Own, InTeam
<1>9. Cursor' /\ Captures'
  BY <1>2, <1>3 DEF Cursor, Captures
<1>10. SignedBy'
  BY <1>1, <1>2 DEF LoopInv, SignedBy, Many, Own, Counted, InTeam
<1>11. Counters'
  BY <1>1, <1>2 DEF LoopInv, Counters, Many, InTeam
<1>12. ReadyIff'
  <2>1. Many => noaccess' = noaccess
    BY <1>3, <1>4
  <2>2. QED
    BY <1>1, <1>2, <2>1 DEF LoopInv, ReadyIff, Many, LastToSign, InTeam
<1>13. QED
  BY <1>6, <1>7, <1>8, <1>9, <1>10, <1>11, <1>12 DEF LoopInv

(* The reset in MPIX_Wait leaves nothing of the round behind.              *)
LEMMA WaitSendStep ==
  ASSUME LoopInv, WaitSend
  PROVE  LoopInv'
<1>1. /\ mpc = "send" /\ mpc' = "mpi_wait" /\ UNCHANGED <<geo, round>> /\ UNCHANGED teamVars
      /\ noaccess' = {} /\ partitions_ready' = 0 /\ is_active' = 0
      /\ request' = IF dest # MPI_PROC_NULL THEN "active" ELSE request
      /\ local_overlap' = [i \in DOMAIN local_overlap |-> 0]
      /\ UNCHANGED shapeVars
  BY DEF WaitSend, MPIX_WaitSend, Goto
<1>2. UNCHANGED <<partition_count, partition_length_bytes, access, dest,
                  local_overlap_count, tpc, chunk, part, max_part, new_val,
                  written, signed>>
  BY <1>1 DEF shapeVars, teamVars
<1>3. \A t \in Threads : tpc[t] = "done"
  BY <1>1 DEF LoopInv, Idle
<1>4. TypeOK' /\ Shape'
  BY <1>1, <1>2 DEF LoopInv, TypeOK, Shape, OverlapCounts
<1>5. Phases' /\ Idle' /\ Clean' /\ Begun' /\ AfterJoin'
  BY <1>1, <1>2, <1>3 DEF LoopInv, Phases, Idle, Clean, Begun, AfterJoin, InTeam
<1>6. Schedule' /\ Stored' /\ SignedBy' /\ Counters' /\ ReadyIff'
  BY <1>1 DEF Schedule, Stored, SignedBy, Counters, ReadyIff, InTeam
<1>7. Cursor' /\ Captures'
  BY <1>2, <1>3 DEF Cursor, Captures
<1>8. ReadyOnce'
  BY <1>1, FS_EmptySet DEF ReadyOnce
<1>9. QED
  BY <1>4, <1>5, <1>6, <1>7, <1>8 DEF LoopInv

(* The other steps of the main thread touch the request only, outside the  *)
(* team, or nothing but the program counter.                               *)
LEMMA OtherMainStep ==
  ASSUME LoopInv, PartitioningTraps \/ WaitReturn \/ RequestFree \/ NextRound
  PROVE  LoopInv'
<1>1. /\ ~InTeam /\ ~InTeam' /\ mpc' # "fork" /\ UNCHANGED <<geo, round>>
      /\ UNCHANGED teamVars
      /\ UNCHANGED <<shapeVars, partitions_ready, is_active, local_overlap, noaccess>>
  BY DEF PartitioningTraps, WaitReturn, RequestFree, NextRound, Goto, InTeam, mpixVars,
     MPIX_WaitReturn, MPIX_Request_free
<1>2. UNCHANGED <<partition_count, partition_length_bytes, access, dest,
                  local_overlap_count, partitions_ready, is_active, local_overlap,
                  noaccess, tpc, chunk, part, max_part, new_val, written, signed>>
  BY <1>1 DEF shapeVars, teamVars
<1>3. \/ mpc = "init" /\ mpc' = "trapped" /\ UNCHANGED request
      \/ mpc = "mpi_wait" /\ mpc' = "next" /\ request' = "inactive"
      \/ mpc = "next" /\ mpc' = "freed" /\ request' = "null"
      \/ mpc = "next" /\ mpc' = "start" /\ UNCHANGED request /\ round < MaxRounds
      \/ mpc = "freed" /\ mpc' = "init" /\ UNCHANGED request /\ round < MaxRounds
  BY DEF PartitioningTraps, WaitReturn, RequestFree, NextRound, Goto, mpixVars,
     MPIX_WaitReturn, MPIX_Request_free
<1>4. \A t \in Threads : tpc[t] = "done"
  BY <1>3 DEF LoopInv, Idle
<1>5. TypeOK'
  BY <1>1, <1>2, <1>3 DEF LoopInv, TypeOK, OverlapCounts
<1>6. Shape'
  BY <1>1, <1>2, <1>3 DEF LoopInv, Shape, OverlapCounts
<1>7. Phases'
  BY <1>1, <1>2, <1>3 DEF LoopInv, Phases
<1>8. Idle' /\ Clean' /\ Begun' /\ AfterJoin' /\ ReadyOnce'
  BY <1>1, <1>2, <1>4 DEF LoopInv, Idle, Clean, Begun, AfterJoin, ReadyOnce, InTeam
<1>9. Schedule' /\ Stored' /\ SignedBy' /\ Counters' /\ ReadyIff'
  BY <1>1 DEF Schedule, Stored, SignedBy, Counters, ReadyIff
<1>10. Cursor' /\ Captures'
  BY <1>2, <1>4 DEF Cursor, Captures
<1>11. QED
  BY <1>5, <1>6, <1>7, <1>8, <1>9, <1>10 DEF LoopInv

(* MPI completing the operation changes the operation only.                *)
LEMMA ProgressStep ==
  ASSUME LoopInv, Progress \/ UNCHANGED vars
  PROVE  LoopInv'
<1>1. UNCHANGED <<geo, mpc, round, partition_count, partition_length_bytes, access, dest,
                  local_overlap_count, partitions_ready, is_active, local_overlap,
                  noaccess, tpc, chunk, part, max_part, new_val, written, signed>>
  BY DEF Progress, MPI_Progress, mpixVars, shapeVars, mainVars, teamVars, vars
<1>2. request' = request \/ (request = "active" /\ request' = "complete")
  BY DEF Progress, MPI_Progress, mpixVars, vars
<1>3. TypeOK' /\ Shape' /\ Phases'
  BY <1>1, <1>2 DEF LoopInv, TypeOK, Shape, Phases, OverlapCounts
<1>4. Idle' /\ Clean' /\ Begun' /\ AfterJoin' /\ ReadyOnce'
  BY <1>1 DEF LoopInv, Idle, Clean, Begun, AfterJoin, ReadyOnce, InTeam, Many
<1>5. Schedule' /\ Stored' /\ Cursor' /\ Captures'
  BY <1>1 DEF LoopInv, Schedule, Stored, Cursor, Captures, InTeam, Many, Own,
     SignoffFirst, SignoffLast
<1>6. SignedBy' /\ Counters'
  BY <1>1 DEF LoopInv, SignedBy, Counters, InTeam, Many, Own, Counted
<1>7. ReadyIff'
  BY <1>1 DEF LoopInv, ReadyIff, InTeam, Many, LastToSign
<1>8. QED
  BY <1>3, <1>4, <1>5, <1>6, <1>7 DEF LoopInv

-----------------------------------------------------------------------------
LEMMA LoopInit == Init => LoopInv
<1> SUFFICES ASSUME Init PROVE LoopInv
  OBVIOUS
<1>1. /\ mpc = "init" /\ round = 0 /\ noaccess = {} /\ partitions_ready = 0
      /\ local_overlap = NULL /\ local_overlap_count = NULL
      /\ \A t \in Threads : tpc[t] = "done"
  BY DEF Init, MpixInit
<1>2. TypeOK
  <2>1. chunk \in [Threads -> Nat]
    BY LoopAssumption DEF Init, Threads
  <2>2. local_overlap \in [DOMAIN local_overlap_count -> Nat]
    BY <1>1 DEF NULL
  <2>3. QED
    BY <1>1, <2>1, <2>2, LoopAssumption DEF Init, MpixInit, TypeOK, Dests
<1>3. Shape /\ Phases /\ Idle /\ Clean /\ Begun /\ AfterJoin
  BY <1>1, LoopAssumption
     DEF Init, MpixInit, Shape, Phases, Idle, Clean, Begun, AfterJoin, InTeam, NULL
<1>4. Schedule /\ Stored /\ SignedBy /\ Counters /\ ReadyIff
  BY <1>1 DEF Schedule, Stored, SignedBy, Counters, ReadyIff, InTeam
<1>5. Cursor /\ Captures
  BY <1>1 DEF Cursor, Captures
<1>6. ReadyOnce
  BY <1>1, FS_EmptySet DEF ReadyOnce
<1>7. QED
  BY <1>2, <1>3, <1>4, <1>5, <1>6 DEF LoopInv

LEMMA LoopStep == SoundGeometries /\ LoopInv /\ [Next]_vars => LoopInv'
<1> SUFFICES ASSUME SoundGeometries, LoopInv, [Next]_vars
             PROVE  LoopInv'
  OBVIOUS
<1>1. CASE Main
  BY <1>1, SendStep, StartStep, ForkStep, JoinStep, WaitPreadyStep, WaitSendStep,
     OtherMainStep DEF Main
<1>2. CASE Progress
  BY <1>2, ProgressStep
<1>3. ASSUME NEW t \in Threads, Thread(t)
      PROVE  LoopInv'
  BY <1>3, RunChunkStep, SignoffPartitionsStep, CaptureOverlapStep, CompareOverlapStep
     DEF Thread
<1>4. CASE UNCHANGED vars
  BY <1>4, ProgressStep
<1>5. QED
  BY <1>1, <1>2, <1>3, <1>4 DEF Next

-----------------------------------------------------------------------------
(* What the invariant implies.                                             *)

(* A ready partition was signed off by all its signers, its writers among  *)
(* them, and a chunk signs off after its stores.                           *)
LEMMA ReadyIsCompleteInv == LoopInv => ReadyPartitionsAreComplete
<1> SUFFICES ASSUME LoopInv, NEW i \in noaccess PROVE Writers(geo, i) \subseteq written
  BY DEF ReadyPartitionsAreComplete
<1>1. i \in Partitions(geo) /\ geo \in GeometryType
  BY Typed DEF LoopInv, TypeOK
<1>2. InTeam
  BY DEF LoopInv, Clean
<1>3. Writers(geo, i) \subseteq Chunks(geo)
  BY DEF Writers
<1>4. CASE mpc \in {"wait", "send"}
  BY <1>3, <1>4 DEF LoopInv, AfterJoin
<1>5. CASE mpc = "join"
  <2>1. Many /\ Cardinality(signed[i]) = local_overlap_count[i]
    BY <1>1, <1>2, <1>5 DEF LoopInv, ReadyIff
  <2>2. /\ SoundLayout(geo) /\ partition_count = PartitionCount(geo)
        /\ local_overlap_count = IF Partitionable(geo) THEN OverlapCounts ELSE NULL
    BY <1>5 DEF LoopInv, Shape
  <2>3. Partitionable(geo)
    BY <2>1, <2>2 DEF Many, PartitionCount, Traps
  <2>4. /\ LocalOverlapCount(geo, i) = Cardinality(Signers(geo, i))
        /\ Writers(geo, i) \subseteq Signers(geo, i)
    BY <1>1, <2>1, <2>2 DEF SoundLayout, Many
  <2>5. local_overlap_count[i] = LocalOverlapCount(geo, i)
    BY <1>1, <2>2, <2>3 DEF OverlapCounts
  <2>6. signed[i] \subseteq Signers(geo, i) /\ signed[i] \subseteq written
    BY <1>1, <1>2 DEF LoopInv, SignedBy
  <2>7. signed[i] = Signers(geo, i)
    BY <1>1, <2>1, <2>4, <2>5, <2>6, SignersFinite, FS_Subset
  <2>8. QED
    BY <2>4, <2>6, <2>7
<1>6. QED
  BY <1>2, <1>4, <1>5 DEF InTeam

(* After the implicit MPIX_Pready every partition is ready, and each one   *)
(* was counted once.                                                       *)
LEMMA AllReadyInv == LoopInv => AllReadyAtWait
<1> SUFFICES ASSUME LoopInv, mpc = "send" PROVE partition_count = partitions_ready
  BY DEF AllReadyAtWait
<1>1. SoundLayout(geo) /\ partition_count = PartitionCount(geo)
  BY DEF LoopInv, Shape
<1>2. noaccess = Partitions(geo)
  BY DEF LoopInv, AfterJoin
<1>3. partitions_ready = Cardinality(Partitions(geo))
  BY <1>2 DEF LoopInv, ReadyOnce
<1>4. QED
  BY <1>1, <1>3, PartitionsFinite, Typed

(* The phases of the main thread say which calls it can be about to make.  *)
LEMMA LegalCallsInv == LoopInv => StartsClean /\ CallsAreLegal
<1> SUFFICES ASSUME LoopInv PROVE StartsClean /\ CallsAreLegal
  OBVIOUS
<1>1. StartsClean
  BY DEF LoopInv, Phases, Clean, InTeam, StartsClean, AssertStart
<1>2. ASSUME NEW t \in Threads, tpc[t] = "compare" PROVE is_active = 1
  BY <1>2, Running DEF LoopInv, Phases
<1>3. QED
  BY <1>1, <1>2 DEF LoopInv, Phases, CallsAreLegal, AssertPready, AssertFree

-----------------------------------------------------------------------------
(* The theorems.  SoundGeometries is a condition on the loops the runtime  *)
(* is used for: where the counts computed by partition_sending_op agree    *)
(* with the ranges signed off, the protocol around them is correct.        *)

(* The inductive invariant, for every team, message, loop and number of    *)
(* rounds (signoff_partitions_after_loop_iter and the calls around it).    *)
THEOREM LoopInvariant ==
  ASSUME SoundGeometries
  PROVE  Spec => []LoopInv
<1>1. LoopInv /\ [Next]_vars => LoopInv'
  BY LoopStep
<1>2. QED
  BY LoopInit, <1>1, PTL DEF Spec

(* Type correctness: in particular every partition signed off is one the   *)
(* overlap arrays have an element for.                                     *)
THEOREM LoopTypeOK ==
  ASSUME SoundGeometries
  PROVE  Spec => []TypeOK
<1>1. LoopInv => TypeOK
  BY DEF LoopInv
<1>2. QED
  BY LoopInvariant, <1>1, PTL

(* No thread has a store left to do in a partition that was marked ready:  *)
(* MPIX_Pready never taints memory that is still to be written.            *)
THEOREM ReadyIsComplete ==
  ASSUME SoundGeometries
  PROVE  Spec => []ReadyPartitionsAreComplete
BY LoopInvariant, ReadyIsCompleteInv, PTL

(* The assertion of MPIX_Wait, compiled out by NDEBUG, holds: no sign-off  *)
(* is lost and none is missing, whatever the interleaving of the team.     *)
THEOREM WaitFindsAllReady ==
  ASSUME SoundGeometries
  PROVE  Spec => []AllReadyAtWait
BY LoopInvariant, AllReadyInv, PTL

(* No partition is marked ready twice: of the threads that capture a       *)
(* value for it, exactly one captures the expected count.                  *)
THEOREM PartitionsReadyOnce ==
  ASSUME SoundGeometries
  PROVE  Spec => []ReadyOnce
<1>1. LoopInv => ReadyOnce
  BY DEF LoopInv
<1>2. QED
  BY LoopInvariant, <1>1, PTL

(* Every round starts from a clean request, also when it is the request of *)
(* the round before (MPIX_Start).                                          *)
THEOREM RoundsStartClean ==
  ASSUME SoundGeometries
  PROVE  Spec => []StartsClean
<1>1. LoopInv => StartsClean
  BY LegalCallsInv
<1>2. QED
  BY LoopInvariant, <1>1, PTL

(* The other assertions of the library hold too: MPIX_Pready is called on  *)
(* an active request, and MPIX_Request_free on one that is not.            *)
THEOREM RequestUsedLegally ==
  ASSUME SoundGeometries
  PROVE  Spec => []CallsAreLegal
<1>1. LoopInv => CallsAreLegal
  BY LegalCallsInv
<1>2. QED
  BY LoopInvariant, <1>1, PTL

(* What the threads count, capture and mark ready agrees in every          *)
(* interleaving of their sign-offs (signoff_partitions_after_loop_iter).   *)
THEOREM TeamInvariant ==
  ASSUME SoundGeometries
  PROVE  Spec => []TeamInv
<1>1. LoopInv => TeamInv
  BY DEF LoopInv, TeamInv
<1>2. QED
  BY LoopInvariant, <1>1, PTL
-----------------------------------------------------------------------------
(* The refinement.  The step lemmas say which step of PartitionedSend each *)
(* action is, given the invariant before and after it.                     *)

(* The table WritersOf, and with it the abstract state.                    *)
LEMMA WritersTable ==
  ASSUME NEW g \in Geometries
  PROVE  /\ DOMAIN WritersOf[g] = Partitions(g)
         /\ \A i \in Partitions(g) : WritersOf[g][i] = Writers(g, i)
BY DEF WritersOf

(* The request, the loop and the stores of the round tell the abstract     *)
(* state: a step that changes none of them is none of the abstract send.   *)
LEMMA SendStutters ==
  ASSUME UNCHANGED <<geo, is_active, request, noaccess, written>>,
         mpc' = "mpi_wait" <=> mpc = "mpi_wait"
  PROVE  UNCHANGED Send!sendVars
<1>1. SendPhase' = SendPhase
  BY DEF SendPhase
<1>2. SendPartitions' = SendPartitions /\ SendComplete' = SendComplete
  BY DEF SendPartitions, SendComplete
<1>3. QED
  BY <1>1, <1>2 DEF Send!sendVars

LEMMA SendCreates ==
  ASSUME LoopInv, SendWhole \/ SendPartitioned
  PROVE  Send!Create
<1> DEFINE overlap_count == IF Partitionable(geo) THEN OverlapCounts ELSE NULL
<1>1. PICK d \in Dests : Psend_init(d, overlap_count)
  BY DEF SendWhole, SendPartitioned
<1>2. mpc = "init" /\ mpc' = "start" /\ geo' = geo
  BY DEF SendWhole, SendPartitioned, Goto
<1>3. is_active' = 0 /\ request' = "inactive" /\ noaccess' = noaccess
  BY <1>1 DEF Psend_init, MPIX_Psend_init
<1>4. request = "null" /\ noaccess = {} /\ geo \in Geometries
  BY <1>2 DEF LoopInv, Phases, Clean, InTeam, TypeOK
<1>5. SendPhase = "none" /\ SendPhase' = "inactive"
  BY <1>2, <1>3, <1>4 DEF SendPhase
<1>6. SendPartitions' = 0 .. PartitionCount(geo) - 1 /\ SendComplete' = {}
  BY <1>2, <1>3, <1>4, WritersTable DEF SendPartitions, SendComplete, Partitions
<1>7. QED
  BY <1>3, <1>4, <1>5, <1>6 DEF Send!Create

LEMMA StartActivates ==
  ASSUME LoopInv, Start
  PROVE  Send!Activate
<1>1. /\ mpc = "start" /\ is_active' = 1 /\ UNCHANGED <<geo, noaccess, request>>
  BY DEF Start, MPIX_Start
<1>2. /\ is_active = 0 /\ request = "inactive" /\ geo \in Geometries
  BY <1>1 DEF LoopInv, Phases, TypeOK
<1>3. SendPhase = "inactive" /\ SendPhase' = "active"
  BY <1>1, <1>2 DEF SendPhase
<1>4. SendPartitions' = SendPartitions /\ SendComplete' \subseteq SendPartitions
  BY <1>1, <1>2 DEF SendPartitions, SendComplete
<1>5. QED
  BY <1>1, <1>3, <1>4 DEF Send!Activate

(* While the team runs, the send is active and its partitions are the      *)
(* geometry's.                                                             *)
LEMMA SendIsActive ==
  ASSUME LoopInv, mpc \in {"fork", "join", "wait", "send"}
  PROVE  /\ is_active = 1 /\ request = "inactive" /\ geo \in Geometries
         /\ SendPhase = "active" /\ SendPartitions = Partitions(geo)
         /\ SendComplete = {i \in Partitions(geo) : Writers(geo, i) \subseteq written}
<1>1. is_active = 1 /\ request = "inactive" /\ geo \in Geometries
  BY DEF LoopInv, Phases, TypeOK
<1>2. QED
  BY <1>1, WritersTable DEF SendPhase, SendPartitions, SendComplete

LEMMA RunChunkProduces ==
  ASSUME LoopInv, NEW t \in Threads, RunChunk(t)
  PROVE  Send!Produce
<1>1. /\ written \subseteq written' /\ UNCHANGED <<geo, mpc, is_active, request, noaccess>>
  BY DEF RunChunk, mpixVars, mainVars
<1>2. mpc = "join"
  BY Running DEF RunChunk
<1>3. /\ is_active = 1 /\ request = "inactive" /\ SendPhase = "active"
  BY <1>2, SendIsActive
<1>4. SendPhase' = SendPhase /\ SendPartitions' = SendPartitions
  BY <1>1 DEF SendPhase, SendPartitions
<1>5. SendComplete \subseteq SendComplete' /\ SendComplete' \subseteq SendPartitions
  BY <1>1, <1>3 DEF SendComplete, SendPartitions
<1>6. QED
  BY <1>1, <1>3, <1>4, <1>5 DEF Send!Produce

(* One more partition is ready, and its data was complete.                 *)
LEMMA ReadyMarks ==
  ASSUME LoopInv, mpc \in {"join", "wait"}, mpc' # "mpi_wait",
         UNCHANGED <<geo, is_active, request, written>>,
         NEW i \in Partitions(geo), i \notin noaccess, noaccess' = noaccess \cup {i},
         Writers(geo, i) \subseteq written
  PROVE  Send!MarkReady
<1>1. /\ is_active = 1 /\ request = "inactive" /\ SendPhase = "active"
      /\ i \in SendComplete \ noaccess
  BY SendIsActive
<1>2. SendPhase' = SendPhase
  BY <1>1 DEF SendPhase
<1>3. SendPartitions' = SendPartitions /\ SendComplete' = SendComplete
  BY DEF SendPartitions, SendComplete
<1>4. QED
  BY <1>1, <1>2, <1>3 DEF Send!MarkReady

LEMMA CompareMarks ==
  ASSUME LoopInv, LoopInv', NEW t \in Threads, CompareOverlap(t)
  PROVE  Send!MarkReady \/ UNCHANGED Send!sendVars
<1>1. tpc[t] = "compare" /\ UNCHANGED <<geo, mpc, is_active, request, written>>
  BY DEF CompareOverlap, MPIX_Pready, mpixVars, mainVars
<1>2. mpc = "join" /\ part[t] \in Partitions(geo)
  BY <1>1, Running, CursorInRange
<1>3. CASE LastToSign(t)
  <2>1. noaccess' = noaccess \cup {part[t]}
    BY <1>3 DEF CompareOverlap, MPIX_Pready
  <2>2. part[t] \notin noaccess
    BY <1>1, <1>2, <1>3, Running, CursorInRange DEF LoopInv, ReadyIff
  <2>3. Writers(geo, part[t]) \subseteq written
    <3>1. LoopInv' => ReadyPartitionsAreComplete'
      BY ReadyIsCompleteInv, PTL
    <3>2. QED
      BY <1>1, <2>1, <3>1 DEF ReadyPartitionsAreComplete
  <2>4. QED
    BY <1>1, <1>2, <2>1, <2>2, <2>3, ReadyMarks
<1>4. CASE ~LastToSign(t)
  <2>1. noaccess' = noaccess
    BY <1>4 DEF CompareOverlap, mpixVars
  <2>2. QED
    BY <1>1, <2>1, SendStutters
<1>5. QED
  BY <1>3, <1>4

(* MPIX_Wait marks the only partition of an ordinary send ready.           *)
LEMMA WaitMarks ==
  ASSUME LoopInv, WaitPready
  PROVE  Send!MarkReady \/ UNCHANGED Send!sendVars
<1>1. mpc = "wait" /\ mpc' = "send" /\ UNCHANGED <<geo, is_active, request, written>>
  BY DEF WaitPready, Goto, MPIX_Pready, mpixVars, teamVars
<1>2. CASE NeedsImplicitReady
  <2>1. noaccess' = noaccess \cup {0} /\ partition_count = 1
    BY <1>2 DEF WaitPready, MPIX_Pready, NeedsImplicitReady
  <2>2. Chunks(geo) \subseteq written /\ noaccess = {} /\ partition_count = PartitionCount(geo)
    BY <1>1, <2>1 DEF LoopInv, AfterJoin, Many, Shape
  <2>3. 0 \in Partitions(geo) /\ Writers(geo, 0) \subseteq written
    BY <2>1, <2>2 DEF Partitions, Writers
  <2>4. QED
    BY <1>1, <2>1, <2>2, <2>3, ReadyMarks
<1>3. CASE ~NeedsImplicitReady
  <2>1. noaccess' = noaccess
    BY <1>3 DEF WaitPready, mpixVars
  <2>2. QED
    BY <1>1, <2>1, SendStutters
<1>4. QED
  BY <1>2, <1>3

LEMMA WaitSends ==
  ASSUME LoopInv, WaitSend
  PROVE  Send!Send
<1>1. /\ mpc = "send" /\ mpc' = "mpi_wait" /\ geo' = geo
      /\ noaccess' = {} /\ is_active' = 0 /\ request' \in {"active", request}
  BY DEF WaitSend, MPIX_WaitSend, Goto
<1>2. /\ request = "inactive" /\ SendPhase = "active" /\ noaccess = SendPartitions
  BY <1>1, SendIsActive DEF LoopInv, AfterJoin
<1>3. SendPhase' = "sending" /\ SendComplete' = {} /\ SendPartitions' = SendPartitions
  BY <1>1, <1>2 DEF SendPhase, SendComplete, SendPartitions
<1>4. QED
  BY <1>1, <1>2, <1>3 DEF Send!Send

LEMMA ReturnFinishes ==
  ASSUME LoopInv, WaitReturn
  PROVE  Send!Finish
<1>1. /\ mpc = "mpi_wait" /\ mpc' = "next" /\ geo' = geo /\ request' = "inactive"
      /\ UNCHANGED <<is_active, noaccess>>
  BY DEF WaitReturn, MPIX_WaitReturn, Goto
<1>2. request # "null" /\ is_active = 0
  BY <1>1 DEF LoopInv, Phases
<1>3. SendPhase = "sending" /\ SendPhase' = "inactive"
  BY <1>1, <1>2 DEF SendPhase
<1>4. SendPartitions' = SendPartitions /\ SendComplete' = SendComplete
  BY <1>1, <1>2 DEF SendPartitions, SendComplete
<1>5. QED
  BY <1>1, <1>3, <1>4 DEF Send!Finish

LEMMA FreeFrees ==
  ASSUME LoopInv, RequestFree
  PROVE  Send!Free
<1>1. /\ mpc = "next" /\ mpc' = "freed" /\ request' = "null"
      /\ UNCHANGED <<geo, is_active, noaccess>>
  BY DEF RequestFree, MPIX_Request_free, Goto
<1>2. request = "inactive" /\ is_active = 0
  BY <1>1 DEF LoopInv, Phases
<1>3. SendPhase = "inactive" /\ SendPhase' = "none" /\ SendPartitions' = {}
  BY <1>1, <1>2 DEF SendPhase, SendPartitions
<1>4. SendComplete' = SendComplete
  BY <1>1, <1>2 DEF SendComplete
<1>5. QED
  BY <1>1, <1>3, <1>4 DEF Send!Free

(* Everything else is invisible to the abstract send: forking and joining, *)
(* computing the range of a chunk, counting, and what MPI does underneath. *)
LEMMA InvisibleSteps ==
  ASSUME LoopInv,
         \/ PartitioningTraps \/ Fork \/ Join \/ NextRound \/ Progress \/ UNCHANGED vars
         \/ \E t \in Threads : SignoffPartitions(t) \/ CaptureOverlap(t)
  PROVE  UNCHANGED Send!sendVars
<1>1. CASE Progress
  <2>1. /\ request = "active" /\ request' = "complete"
        /\ UNCHANGED <<geo, mpc, is_active, noaccess, written>>
    BY <1>1 DEF Progress, MPI_Progress, mainVars, teamVars
  <2>2. SendPhase' = SendPhase
    BY <2>1 DEF SendPhase
  <2>3. SendPartitions' = SendPartitions /\ SendComplete' = SendComplete
    BY <2>1 DEF SendPartitions, SendComplete
  <2>4. QED
    BY <2>1, <2>2, <2>3 DEF Send!sendVars
<1>2. CASE PartitioningTraps \/ Fork \/ Join \/ NextRound \/ UNCHANGED vars
  <2>1. UNCHANGED <<geo, is_active, request, noaccess, written>>
    BY <1>2 DEF PartitioningTraps, Fork, Join, NextRound, Goto, vars, mpixVars, mainVars,
       teamVars
  <2>2. mpc' = "mpi_wait" <=> mpc = "mpi_wait"
    BY <1>2 DEF PartitioningTraps, Fork, Join, NextRound, Goto, vars, mainVars
  <2>3. QED
    BY <2>1, <2>2, SendStutters
<1>3. ASSUME NEW t \in Threads, SignoffPartitions(t) \/ CaptureOverlap(t)
      PROVE  UNCHANGED Send!sendVars
  <2>1. UNCHANGED <<geo, mpc, is_active, request, noaccess, written>>
    BY <1>3 DEF SignoffPartitions, CaptureOverlap, mpixVars, mainVars
  <2>2. QED
    BY <2>1, SendStutters
<1>4. QED
  BY <1>1, <1>2, <1>3

LEMMA SendInit == Init => Send!Init
<1> SUFFICES ASSUME Init PROVE Send!Init
  OBVIOUS
<1>1. request = "null" /\ is_active = 0 /\ noaccess = {}
  BY DEF Init, MpixInit
<1>2. SendPhase = "none" /\ SendPartitions = {} /\ SendComplete = {}
  BY <1>1 DEF SendPhase, SendPartitions, SendComplete
<1>3. QED
  BY <1>1, <1>2 DEF Send!Init

LEMMA SendNext == LoopInv /\ LoopInv' /\ [Next]_vars => [Send!Next]_(Send!sendVars)
<1> SUFFICES ASSUME LoopInv, LoopInv', [Next]_vars
             PROVE  Send!Next \/ UNCHANGED Send!sendVars
  OBVIOUS
<1>1. CASE Main
  BY <1>1, SendCreates, StartActivates, WaitMarks, WaitSends, ReturnFinishes, FreeFrees,
     InvisibleSteps DEF Main, Send!Next
<1>2. ASSUME NEW t \in Threads, Thread(t)
      PROVE  Send!Next \/ UNCHANGED Send!sendVars
  BY <1>2, RunChunkProduces, CompareMarks, InvisibleSteps DEF Thread, Send!Next
<1>3. CASE Progress \/ UNCHANGED vars
  BY <1>3, InvisibleSteps
<1>4. QED
  BY <1>1, <1>2, <1>3 DEF Next

(* The threads, the runtime and its request implement the abstract         *)
(* partitioned send: a partition is marked ready when its data is          *)
(* complete, the message leaves when all of them are, and nothing of one   *)
(* activation is left over for the next.                                   *)
THEOREM LoopImplementsSend ==
  ASSUME SoundGeometries
  PROVE  Spec => ImplementsPartitionedSend
<1>1. LoopInv /\ LoopInv' /\ [Next]_vars => [Send!Next]_(Send!sendVars)
  BY SendNext
<1>2. QED
  BY SendInit, <1>1, LoopInvariant, PTL DEF Spec, Send!Spec, ImplementsPartitionedSend
-----------------------------------------------------------------------------
(* SoundGeometries is a condition on the layout that was computed; what    *)
(* follows says it in terms of the loop and the message.                   *)

AlignedGeometries ==
  \A g \in Geometries : FitsInt(g) /\ (Traps(g) \/ PartitionCount(g) = 1 \/ WellAligned(g))

LEMMA AlignedIsSound == ASSUME AlignedGeometries PROVE SoundGeometries
<1> SUFFICES ASSUME NEW g \in Geometries, ~Traps(g) PROVE SoundLayout(g)
  BY DEF SoundGeometries
<1>1. g \in GeometryType /\ FitsInt(g)
  BY LoopAssumption DEF AlignedGeometries
<1>2. CASE WellAligned(g)
  BY <1>1, <1>2, WellAlignedIsSound
<1>3. CASE PartitionCount(g) = 1
  BY <1>1, <1>3, PartitionsTile DEF SoundLayout
<1>4. QED
  BY <1>2, <1>3 DEF AlignedGeometries

(* From the arithmetic of partition_sending_op to the wait: on loops that  *)
(* are sent whole, or are well aligned with the partitions computed for    *)
(* them, every partition is complete when it is marked ready, all of them  *)
(* are ready at the wait, and the program implements a partitioned send.   *)
THEOREM AlignedLoopsAreSent ==
  ASSUME AlignedGeometries
  PROVE  Spec => /\ []ReadyPartitionsAreComplete /\ []AllReadyAtWait
                 /\ ImplementsPartitionedSend
<1>1. SoundGeometries
  BY AlignedIsSound
<1>2. QED
  BY <1>1, ReadyIsComplete, WaitFindsAllReady, LoopImplementsSend
=============================================================================

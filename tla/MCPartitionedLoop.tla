------------------------- MODULE MCPartitionedLoop -------------------------
(* Instances of PartitionedLoop.  The arguments of StridedLoop are count,  *)
(* extent, width, stride, offset, chunk size and last iteration.           *)
EXTENDS PartitionedLoopInv

\* Layouts on which the runtime's bookkeeping is exact, of every kind.
MCSound ==
  { StridedLoop(8, 1, 1, 1, 0, 2, 7),     \* one chunk per partition
    StridedLoop(6, 1, 1, 1, 2, 3, 6),     \* shifted: two chunks per partition
    StridedLoop(6, 4, 1, 2, 1, 5, 9),     \* the first partition is shared
    StridedLoop(2, 6, 1, 1, 0, 2, 11),    \* three chunks per partition
    StridedLoop(4, 4, 4, 4, 0, 4, 3),     \* one chunk writes everything
    StridedLoop(7, 1, 1, 1, 0, 6, 6),     \* searched, then sent whole
    StridedLoop(7, 1, 1, 1, 0, 2, 6) }    \* the search divides by zero

ASSUME MCSoundAssumption == \A g \in MCSound : Traps(g) \/ SoundLayout(g)

\* schedule(static, 1): every chunk ends with its first iteration.
MCChunkOfOne == { StridedLoop(4, 4, 4, 4, 0, 1, 3) }
=============================================================================

------------------------- MODULE MCPartitionLayout -------------------------
(***************************************************************************)
(* SendingLayout on all loops of one store per iteration over small        *)
(* messages: loops that start before, in or behind the message, end inside *)
(* or outside of it, and store to all or some of its bytes.                *)
(***************************************************************************)
EXTENDS SendingLayout

MCGeometries ==
  UNION {{StridedLoop(count, extent, width, stride, off, chunk_size, loop_max) :
            width \in 1 .. stride, off \in -6 .. 6, chunk_size \in 1 .. 4,
            loop_max \in {5, 7, 11, 15, 17}}
         : count \in {6, 8, 12}, extent \in {1, 2}, stride \in {1, 2, 3}}
=============================================================================

--------------------------- MODULE SendingLayout ---------------------------
(***************************************************************************)
(* One call of partition_sending_op, for any loop and any message whose    *)
(* size an int holds: the layout it computes, and what is true of it.      *)
(***************************************************************************)
EXTENDS PartitionLayout

CONSTANT Geometries          \* the calls of partition_sending_op looked at

ASSUME GeometriesAssumption ==
  /\ Geometries \subseteq GeometryType
  /\ \A h \in Geometries : FitsInt(h)

VARIABLE g

LayoutInit == g \in Geometries
LayoutNext == UNCHANGED g
LayoutSpec == LayoutInit /\ [][LayoutNext]_g

(* On a well-aligned loop the expected number of sign-offs of a partition  *)
(* is the number of chunks that sign it off, and every chunk that writes   *)
(* to it is among them: local_overlap_count, computed backwards from the   *)
(* partition to the iterations, agrees with the ranges computed forwards   *)
(* from the iterations to the partitions.                                  *)
LayoutIsSound == WellAligned(g) => SoundLayout(g)

(* Partitions of equal length make up the whole message, which the         *)
(* assertions of partition_sending_op say in four ways: no byte is left    *)
(* out of the send, and none behind the buffer is sent.                    *)
PartitionsCoverMessage ==
  ~Traps(g) => PartitionLength(g) * PartitionCount(g) = SendingSize(g)
=============================================================================

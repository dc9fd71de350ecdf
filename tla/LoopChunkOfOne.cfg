SPECIFICATION Spec
CONSTANTS
  IntSpan = 65536
  MPI_PROC_NULL = MPI_PROC_NULL
  Peers = {peer}
  NumThreads = 2
  MaxRounds = 1
  Geometries <- MCChunkOfOne
INVARIANT AllReadyAtWait

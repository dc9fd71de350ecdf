SPECIFICATION FairSpec
CONSTANTS
  IntSpan = 65536
  MPI_PROC_NULL = MPI_PROC_NULL
  Peers = {peer}
  NumThreads = 3
  MaxRounds = 2
  Geometries <- MCSound
INVARIANTS
  TypeOK
  ReadyPartitionsAreComplete
  AllReadyAtWait
  ReadyOnce
  StartsClean
  CallsAreLegal
  TeamInv
PROPERTIES
  ImplementsPartitionedSend
  PartitionsBecomeReady
  EachRoundIsSent

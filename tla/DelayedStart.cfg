SPECIFICATION Spec
CONSTANT
  Ranks <- MCRanks
  MPI_PROC_NULL <- MCProcNull
  Requests <- MCRequests
  Scenarios <- MCIsendExchange
PROPERTIES
  RanksFinish
CHECK_DEADLOCK FALSE

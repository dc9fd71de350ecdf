SPECIFICATION Spec
CONSTANT
  Ranks <- MCRanks
  MPI_PROC_NULL <- MCProcNull
  Requests <- MCRequests
  Scenarios <- MCScenarios
INVARIANTS
  MessagesInOrder
  ReportIsExact
  MarksUntilWait
PROPERTIES
  RanksFinish

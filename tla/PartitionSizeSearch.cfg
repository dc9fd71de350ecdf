SPECIFICATION FairSpec
CONSTANTS
  IntSpan = 65536
  Counts <- MCCounts
  Extents <- MCExtents
  Requests <- MCRequests
INVARIANTS
  TypeOK
  SearchMeetsClosedForm
  SizeDividesMessage
PROPERTY
  SearchStops

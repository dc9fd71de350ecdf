SPECIFICATION LayoutSpec
CONSTANTS
  IntSpan = 65536
  Geometries <- MCGeometries
INVARIANTS
  LayoutIsSound
  PartitionsCoverMessage

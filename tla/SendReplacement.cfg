SPECIFICATION Spec
CONSTANT
  Functions <- MCFunctions
INVARIANTS
  OrderedUsesAreSearched
  IgnoredIsNotComplete
  CompletionPointIsFirstWait
  OneToOneWaitsAreServed
  RegionOnEveryPathIsLatest

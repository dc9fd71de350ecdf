SPECIFICATION Spec
CONSTANT
  Modules <- MCModules
INVARIANTS
  TreesAreCurrent
  ScevsAreAlive
  RangeCoversStores
  EarlierSendsDoNotMatter
  EachRequestIsSignedOff

SPECIFICATION Spec
CONSTANT
  Functions <- MCReuse
INVARIANT
  WaitsAreServed

SPECIFICATION Spec
CONSTANT
  Functions <- MCArgumentInLoop
INVARIANT
  CallsAreBalanced

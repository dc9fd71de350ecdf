SPECIFICATION Spec
CONSTANT
  Functions <- MCFunctions
INVARIANTS
  ArgumentsAreCurrent
  SameLoopsAreBalanced

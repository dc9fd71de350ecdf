SPECIFICATION ScanSpec
CONSTANT
  Inputs <- MCInputs
INVARIANTS
  OrderTypeOK
  ProvenOrderHolds
  ViableCandidateIsExtreme
  ScanMeetsExtremeOf

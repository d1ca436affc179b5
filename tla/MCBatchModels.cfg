SPECIFICATION Spec
CHECK_DEADLOCK FALSE
CONSTANTS
  Workloads <- MCWorkloads
  MaxPrefill = 2
  MaxRequests = 4
INVARIANTS SameAsAlone NoShapeError GrowsWithinMaxTokens PrefillLogprobsRight
PROPERTIES EveryRequestEnds

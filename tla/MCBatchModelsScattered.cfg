SPECIFICATION Spec
CHECK_DEADLOCK FALSE
CONSTANTS
  Workloads <- ScatteredWorkloads
  MaxPrefill = 3
  MaxRequests = 3
INVARIANTS SameAsAlone

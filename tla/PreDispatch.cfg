SPECIFICATION Spec
CONSTANTS
  Requests = {r1, r2, r3}
  N = 2
  MaxBodyBytes = 2
  MaxRequestUnits = 1
  DeficitCap = 1
  Quantum <- MCQuantum
  QueueLimits <- MCQueueLimits
  InflightLimits <- MCInflightLimits
  TenantLimit <- MCTenantLimit
  GlobalLimit = 2
SYMMETRY MCSymmetry
INVARIANTS SlotsConserved QueueNeverFull AnsweredUnlessGone

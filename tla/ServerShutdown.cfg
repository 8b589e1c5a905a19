\* A server without clients and without a reason to shut down waits for ever.
CHECK_DEADLOCK FALSE
SPECIFICATION Spec
CONSTANTS
  Requests = {r1, r2}
  Handlers = {r1, r2}
  Callers = {p1}
  N = 1
  MaxBodyBytes = 1
  MaxRequestUnits = 1
  DeficitCap = 1
  Quantum <- MCQuantum
  QueueLimits <- MCQueueLimits
  InflightLimits <- MCInflightLimits
SYMMETRY MCSymmetry
INVARIANTS HandlersExact VerdictsTrue ShutdownOwnsCancellation

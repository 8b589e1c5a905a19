SPECIFICATION Spec
CONSTANTS
  r1 = r1  r2 = r2  r3 = r3
  Requests = {r1, r2, r3}
  Cancelable = {}
  N = 2
  MaxBodyBytes = 2
  MaxRequestUnits = 2
  DeficitCap = 3
  Quantum <- MCQuantum
  QueueLimits <- MCQueueLimits
  InflightLimits <- MCSerialLimits
  Admissions <- MCSerialAdmissions
  Timeouts = {1, 2}
  Sources = {"queue", "client"}
  Outcomes = {"Completed"}
  MaxTime = 2
SYMMETRY MCSymmetry
INVARIANT TimerCoversQueue

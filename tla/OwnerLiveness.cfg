SPECIFICATION FairSpec
CONSTANTS
  r1 = r1  r2 = r2
  Requests = {r1, r2}
  Cancelable = {}
  N = 2
  MaxBodyBytes = 2
  MaxRequestUnits = 2
  DeficitCap = 3
  Quantum <- MCQuantum
  QueueLimits <- MCQueueLimits
  InflightLimits <- MCInflightLimits
  Admissions <- MCAdmissions
  Timeouts = {1}
  Sources = {"queue"}
  Outcomes = {"Completed"}
  MaxTime = 2
PROPERTIES LeavesQueue DrainCompletes ImplementsContract

\* Deadlock is checked by SchedulerSafety.cfg: here a caller that nobody wakes is a
\* violation of CallsReturn instead.
CHECK_DEADLOCK FALSE
SPECIFICATION FairSpec
CONSTANTS
  r1 = r1  r2 = r2  d1 = d1  d2 = d2  d3 = d3
  Requests = {r1}
  Drainers = {d1, d2, d3}
  operation <- MCClose
  MailboxSize = 1
  N = 1
  MaxBodyBytes = 1
  MaxRequestUnits = 1
  DeficitCap = 1
  Quantum <- MCQuantum
  QueueLimits <- MCQueueLimits
  InflightLimits <- MCInflightLimits
PROPERTIES CloseIsClean CallsReturn

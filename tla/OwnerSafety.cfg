SPECIFICATION HSpec
CONSTANTS
  r1 = r1  r2 = r2  r3 = r3
  Requests = {r1, r2, r3}
  Cancelable = {r1}
  N = 2
  MaxBodyBytes = 2
  MaxRequestUnits = 2
  DeficitCap = 3
  Quantum <- MCQuantum
  QueueLimits <- MCQueueLimits
  InflightLimits <- MCInflightLimits
  Admissions <- MCAdmissions
  Timeouts = {1}
  Sources = {"queue"}
  Outcomes = {"Completed"}
  MaxTime = 1
SYMMETRY MCSymmetry
INVARIANTS
  TypeOK BooksAgree AnsweredOnce AccountingExact LimitsHold TenantFIFO CreditBounded
  PumpExact DrainedIsFinal ForceAttributed
PROPERTIES DrainStopsDispatch NoOvertaking

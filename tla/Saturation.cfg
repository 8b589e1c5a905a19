SPECIFICATION SSpec
CONSTANTS
  Requests <- MCRequests
  kind <- MCKind
  tenant <- MCTenant
  Streams <- MCStreams
  Cancelable <- MCCancelable
  ServiceTenants <- MCServiceTenants
  Workloads <- MCWorkloads
  N = 4
  MaxBodyBytes = 1
  MaxRequestUnits = 7
  DeficitCap = 18
  Quantum <- MCQuantum
  QueueLimits <- MCQueueLimits
  InflightLimits <- MCInflightLimits
  Admissions <- MCAdmissions
  Timeouts = {1, 2}
  Sources = {"queue"}
  Outcomes = {"Completed", "UpstreamFailed"}
  MaxTime = 2
INVARIANTS VerdictTrue NeverStuck

SPECIFICATION PSpec
CONSTANTS
  Connections = {c1, c2, c3}
  Closers = {k1, k2}
  Maximum = 2
  Word = 64
  NT = 2
  absoluteMaxQueuedRequests = 8
  absoluteMaxInflightRequests = 8
  maxFundingVisits = 12
  AbsoluteMaxBodyBytes = 4
  minimumBodyBytes = 1
  AbsoluteMaxResponseBodyBytes = 5
  AbsoluteMaxSSETotalBytes = 7
  AbsoluteMaxSSEEventBytes = 4
  AbsoluteMaxSSEEvents = 3
  chunkBytes = 2
  doneBytes = 1
  absoluteMaxPreDispatchCount = 4
  absoluteMaxResponseHeaderBytes = 2
  absoluteMaxUpstreamConnections = 2
  absoluteMinEnvelope = 3
  absoluteMaxEnvelope = 8
  absoluteMaxConnections = 3
  absoluteMaxReservation = 8
  netHTTPHeaderReadSlopBytes = 2
  maximumPolicyTimeoutMS = 5
  maximumForceTimeoutMS = 2
  Millisecond = 2
  Minute = 4
  Hour = 10
  shutdownSchedulingMargin = 1
  maximumShutdownWait = 13
  Policies <- MCPolicies
  Names = {n1, n2}
  Inodes = {1, 2}
INVARIANTS SlotsExact NothingLeaked VerdictExact
PROPERTIES PolicyDecided StopTakesEffect

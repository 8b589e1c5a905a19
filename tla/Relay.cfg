SPECIFICATION Spec
CONSTANTS
  MaxTotalBytes = 7
  MaxEventBytes = 5
  MaxEvents = 2
  sseReadBufferBytes = 2
  Streams <- MCStreams
  Bodies <- MCBodies
INVARIANTS TerminalProven RelaysWholeEvents OutcomeHonest
PROPERTIES IdleTimeoutFinal HandlerEnds

SPECIFICATION Spec
CONSTANTS
  H = 2
  QueueSize = 2
  PromptResends = TRUE
  MaxSeq = 2
  MaxStreams = 2
  MaxTicks = 1
  MaxNow = 2
  MaxFaults = 1
  MaxRenewals = 1
  MaxPushes = 0
INVARIANTS TypeOK RevocationBound  TerminalIsTruthful SignalReachesEveryStream
PROPERTIES ReopenedByNewRequest ImplementsGate
CHECK_DEADLOCK FALSE

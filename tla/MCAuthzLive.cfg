SPECIFICATION FairSpec
CONSTANTS
  H = 1
  QueueSize = 2
  PromptResends = TRUE
  MaxSeq = 3
  MaxStreams = 2
  MaxTicks = 1
  MaxNow = 0
  MaxFaults = 1
  MaxRenewals = 0
  MaxPushes = 1
PROPERTIES RevokedIsLearned
CHECK_DEADLOCK FALSE

SPECIFICATION FairSpec
CONSTANTS
  Connectors = {c1}
  Mutations = {m1}
  RuleRows = {m1}
  Expiries = {}
  Pusher = pusher
  MaxCompileRetries = 1
  QueueSize = 2
  MaxFaults = 0
  MaxRestarts = 0
PROPERTIES ChangeReachesConnectors

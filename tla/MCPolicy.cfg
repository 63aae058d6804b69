SPECIFICATION FairSpec
CONSTANTS
  Connectors = {c1}
  Mutations = {m1, m2}
  RuleRows = {m1}
  Expiries = {m2}
  Pusher = pusher
  MaxCompileRetries = 1
  QueueSize = 1
  MaxFaults = 1
  MaxRestarts = 1
INVARIANTS TypeOK CacheIsCurrent HandedOutIsFresh NoLostTrigger
PROPERTIES VersionConverges CalmChangeReachesConnectors

SPECIFICATION FairSpec
CONSTANTS
  Tab = {p1}
  Link = {c1, c2}
  MaxRequests = 1
  MaxHandles = 0
  MaxCallbacks = 1
  MaxDrops = 1
  MaxRestarts = 1
  Ops <- LiveOps
  NoLink = NoLink
  NoHandle = NoHandle
PROPERTIES
  EveryRequestSettles
  CallbacksSettle
  StalePagesReload
CHECK_DEADLOCK FALSE

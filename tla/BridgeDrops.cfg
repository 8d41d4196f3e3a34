SPECIFICATION Spec
CONSTANTS
  Tab = {p1}
  Link = {c1, c2}
  MaxRequests = 2
  MaxHandles = 0
  MaxCallbacks = 2
  MaxDrops = 1
  MaxRestarts = 0
  Ops <- AsyncOps
  NoLink = NoLink
  NoHandle = NoHandle
SYMMETRY Symmetry
INVARIANTS
  TypeOK
  OnlyOnce
  PendingHasCarrier
  CallbackAnswerMatches
CHECK_DEADLOCK FALSE

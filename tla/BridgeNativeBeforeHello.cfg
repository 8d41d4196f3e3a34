SPECIFICATION Spec
CONSTANTS
  Tab = {p1}
  Link = {c1, c2}
  MaxRequests = 1
  MaxHandles = 0
  MaxCallbacks = 0
  MaxDrops = 0
  MaxRestarts = 1
  Ops <- CallbackOps
  NoLink = NoLink
  NoHandle = NoHandle
SYMMETRY Symmetry
INVARIANTS
  ReloadsBeforeNativeCalls
CHECK_DEADLOCK FALSE

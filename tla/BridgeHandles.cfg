SPECIFICATION Spec
CONSTANTS
  Tab = {p1, p2}
  Link = {c1, c2}
  MaxRequests = 1
  MaxHandles = 3
  MaxCallbacks = 0
  MaxDrops = 1
  MaxRestarts = 0
  Ops <- HandleOps
  NoLink = NoLink
  NoHandle = NoHandle
SYMMETRY Symmetry
INVARIANTS
  HandlesResolve
CHECK_DEADLOCK FALSE

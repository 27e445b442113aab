CONSTANTS
  ann = ann
  bob = bob
  r1 = r1
  r2 = r2
  None = None
  Users = {ann}
  Requests = {r1, r2}
  Ids <- MCSixIds
  MaxIssued <- MCThreePairs
  SessionTTL = 3
  IdleTTL = 2
  AccessTTL = 1
  RefreshTTL = 2
  Horizon = 1
SPECIFICATION Spec
INVARIANTS
  OneLiveRefresh
CHECK_DEADLOCK FALSE

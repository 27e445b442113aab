CONSTANTS
  ann = ann
  bob = bob
  r1 = r1
  r2 = r2
  None = None
  Users = {ann, bob}
  Requests = {r1, r2}
  Ids <- MCIds
  MaxIssued <- MCMaxIssued
  SessionTTL = 3
  IdleTTL = 2
  AccessTTL = 1
  RefreshTTL = 1
  Horizon = 1
SYMMETRY Symmetry
SPECIFICATION Spec
INVARIANTS
  AuthTypeOK
PROPERTIES
  RevokedStaysRevoked
  CredentialsKept
CHECK_DEADLOCK FALSE

CONSTANTS
  ann = ann
  r1 = r1
  r2 = r2
  None = None
  Users = {ann}
  Requests = {r1, r2}
  Ids <- MCIds
  MaxIssued <- MCMaxIssued
  SessionTTL = 3
  IdleTTL = 2
  AccessTTL = 1
  RefreshTTL = 2
  Horizon = 2
SPECIFICATION FairSpec
INVARIANTS
  OneAtATime
PROPERTIES
  RevokedStaysRevoked
  CredentialsKept
  EverywhereMeansAll
  AbandonedStaysOut
  RequestsEnd
CHECK_DEADLOCK FALSE

CONSTANTS
  ann = ann
  u1 = u1
  u2 = u2
  long = long
  short = short
  None = None
  Hole = Hole
  Users = {ann}
  Callers = {ann}
  Publishers = {ann}
  Account <- MCAccount
  Uploads = {u1, u2}
  Bodies = {long, short}
  Size <- MCSize
  MaxBytes = 2
  Slugs = {"net"}
  Versions = {"1", "2"}
  Claims <- MCClaims
  StorageLimit <- MCStorageLimit
  MaxArtifact = 2
  MaxModels = 1
  MaxVersions = 2
  MaxDaily = 2
  FootprintCap = 6
  VolumeBytes = 6
  FreeFloor = 1
  TTL = 1
  Day = 2
  Horizon = 3
  RequireVerification = FALSE
CHECK_DEADLOCK FALSE
SPECIFICATION Spec
PROPERTIES
  SweepSparesReceived

CONSTANTS
  r1 = r1
  r2 = r2
  None = None
  AccountIds = {1, 2, 3}
  Requests = {r1, r2}
  Addresses <- MCAddresses
  Normal <- MCNormal
  Spelling <- MCSpelling
  Profiles <- MCProfiles
  Subjects = {"git:1", "orc:1"}
  Returning = {"orc:1"}
  ReturnsWith <- MCReturnsWith
  Characters <- MCCharacters
  Decimal <- MCDecimal
  Alphanumerics <- MCAlphanumerics
  LowerCase <- MCLowerCase
  StemLimit = 3
  MaxSuffix = 2
  ReservedHandles <- MCReservedHandles
  Fallback <- MCFallback
SPECIFICATION FairSpec
INVARIANTS
  AccountsTypeOK
  SameWayIn
  AdoptionProven
  HandlesUnique
  NothingReserved
PROPERTIES
  DirectoryKept
  RetriesGetIn

\* The server with fairness and two failures, one approval.
SPECIFICATION FairSpec
CONSTANTS
  c1 = c1
  gina = gina
  oscar = oscar
  mary = mary
  list_files = list_files
  delete_file = delete_file
  i1 = i1
  i2 = i2
  UnknownAction = UnknownAction
  None = None
  Users <- MCUsers
  Role <- MCRole
  Tools <- MCTools
  Manifest <- MCManifest
  Kept <- MCKept
  Callers <- OneCaller
  Ids <- OneId
  Ttl = 1
  MaxTime = 2
  MaxFaults = 2
PROPERTIES
  ImplementsHitl
  LateStaysUnconfirmed
  OperationsEnd

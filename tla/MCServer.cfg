\* The server with two requests and three faults.
\* It may stop for good; TLC also stops when every request is answered.
SPECIFICATION FairSpec
CONSTANTS
  r1 = r1
  r2 = r2
  Nobody = Nobody
  Requests <- MCRequests
  MaxFaults = 3
INVARIANTS
  TypeOK
  NothingRunsOn
  DoneMeansEnded
  ErrorsExplained
  ModeKept

  
CHECK_DEADLOCK FALSE

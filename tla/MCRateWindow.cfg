\* Two sessions of one address, a limit of two in two seconds, six seconds.
SPECIFICATION Spec
CONSTANTS
  s1 = s1
  s2 = s2
  here = here
  Sessions <- MCSessions
  Ips <- MCIps
  Ip <- MCIp
  MaxRequests = 2
  Window = 2
  Hz = 2
  MaxTime = 12
INVARIANTS
  TypeOK
  WindowBound
PROPERTIES
  RefusedOnlyWhenSpent
  RetryAfterSuffices

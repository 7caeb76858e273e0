SPECIFICATION FairSpec
CONSTANTS
  s1 = s1  s2 = s2  x1 = x1  v1 = v1
  SBOM = {s1, s2}
  Exception = {x1}
  Vex = {v1}
  About <- MCAbout
  Call = {c1, c2}
  Worker = Worker
  MaxFaults = 1
INVARIANTS
  TypeOK
  ExpiryIsAudited
PROPERTIES
  DecidedOnce
  ExpiredIsEnforced
  EndedIsReevaluated
CHECK_DEADLOCK FALSE

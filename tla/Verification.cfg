CONSTANTS
  Banned <- MCBanned
  Normal <- MCNormal
  Trimmed <- MCTrimmed
  Parts <- MCParts
  Presented <- MCPresented
  Submitted <- MCSubmitted
  Submitter = {s1, s2}
  Verifier = {v1}
  MaxRows = 2
  MaxResults = 1
  MaxFaults = 2
SPECIFICATION Spec
SYMMETRY MCSymmetry
INVARIANTS
  TypeOK
  ReportExplains
  AuditAgrees
CHECK_DEADLOCK FALSE

CONSTANTS
  SBOM = {s1, s2}
  First = s1
  Second = s2
  NoSBOM = NoSBOM
  SoftwareOf <- OneSoftware
  Start = {"NONE", "REVIEW_PENDING", "APPROVED"}
  Call = {q1, q2}
  NoCall = NoCall
  Operation <- AllOperations
  Verdict = {"REJECTED"}
  FaultKind = {"fabric", "contract", "timeout", "database", "crash"}
  MaxFaults = 1
SPECIFICATION MCSpec
INVARIANTS
  TypeOK
  NeverAhead
  RegisteredTogether
  OneActive
PROPERTIES
  ReviewCompletes
CHECK_DEADLOCK FALSE

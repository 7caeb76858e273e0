CONSTANTS
  SBOM = {s1, s2}
  First = s1
  Second = s2
  NoSBOM = NoSBOM
  SoftwareOf <- OneSoftware
  Start = {"APPROVED"}
  Call = {q1, q2}
  NoCall = NoCall
  Operation = {"activate"}
  Verdict = {}
  FaultKind = {}
  MaxFaults = 0
SPECIFICATION Spec
INVARIANT
  ReleaseSurvives
CHECK_DEADLOCK FALSE

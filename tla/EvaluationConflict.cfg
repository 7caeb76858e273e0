CONSTANTS
  Severity <- MCSeverity
  ComponentOf <- MCComponent
  Asserted <- MCAsserted
  Stated <- MCStated
  Requested <- MCRequested
  Approver <- MCApprover
  Policy <- MCPolicy
  DefaultHours = 2
  SkewHours = 1
  Call = {q1, q2}
  Proofs = {{"provenance"}, {"provenance", "signature"}}
  Horizon = 1
  MaxAssertions = 2
  MaxStatements = 1
SPECIFICATION Spec
INVARIANT ConflictDetected
CHECK_DEADLOCK FALSE

CONSTANTS
  Severity <- MCSeverity
  ComponentOf <- MCComponent
  Asserted <- MCAsserted
  Stated <- MCStated
  Requested <- MCRequested
  Approver <- MCApprover
  Policy <- MCPolicy
  DefaultHours = 2
  SkewHours = 1
  Call = {q1, q2}
  Proofs = {{"provenance", "signature"}}
  Horizon = 1
  MaxAssertions = 2
  MaxStatements = 1
SPECIFICATION Spec
SYMMETRY MCSymmetry
INVARIANTS
  TypeOK
  OneActiveAssertion
  ConflictIsFinal
  AssertionIsJudged
PROPERTIES
  AcceptedIsCovered
  AssertionEndsOnce
CHECK_DEADLOCK FALSE

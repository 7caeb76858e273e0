CONSTANTS
  Manual = {}
  Automatic = {a1, a2}
  Key = {}
  NoKey = NoKey
  KeyOf <- NoManual
  Outcome = {"TRUSTED", "REJECTED"}
  Run = {r1, r2}
  NoRun = NoRun
  Batch = 2
  MaxRetries = 3
  MaxDecisions = 2
  MaxRequeues = 1
  MaxFaults = 1
SPECIFICATION Spec
SYMMETRY CallSymmetry
INVARIANTS
  TypeOK
  CompletedIsAnchored
  GivenUpAfterRetries
PROPERTIES
  AnchoringPromise
CHECK_DEADLOCK FALSE

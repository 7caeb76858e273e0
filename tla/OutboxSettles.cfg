CONSTANTS
  Manual = {m1, m2}
  Automatic = {a1, a2}
  Key = {k1}
  NoKey = NoKey
  KeyOf <- SharedKey
  Outcome = {"TRUSTED"}
  Run = {r1, r2}
  NoRun = NoRun
  Batch = 2
  MaxRetries = 3
  MaxDecisions = 2
  MaxRequeues = 0
  MaxFaults = 0
SPECIFICATION FairSpec
INVARIANTS
  ProcessingIsHeld
  OneDecisionPerKey
PROPERTIES
  QueuedIsSettled
  AnsweredIsQueued
CHECK_DEADLOCK FALSE

SPECIFICATION MCSpec
CONSTANTS
  Identity <- MCIdentity
  Document <- MCDocument
  Attested <- MCAttested
  Signed <- MCSigned
  Hosted = {"jenkins"}
  Admin = {a1, a2}
  Client = {c1}
  MaximumAge = 0
  MaxGeneration = 2
  Horizon = 2
INVARIANT OneGeneration
SYMMETRY MCSymmetry
CHECK_DEADLOCK FALSE

CONSTANTS
  SBOM = {s1}
  Legacy = {}
  Content = {c1}
  DecisionId = {d1, d2}
  Detail = {x1}
  List = {l1}
  NoList = NoList
  EmptyList = EmptyList
  InputList <- ClientLists
  EvidenceId = {e1}
  Body = {b1}
  NoBody = NoBody
SPECIFICATION Spec
INVARIANT
  OnlyEvaluatedPromoted
CHECK_DEADLOCK FALSE

CONSTANTS
  SBOM = {s1}
  Legacy = {}
  Content = {c1, c2}
  DecisionId = {d1, d2}
  Detail = {x1}
  List = {l1}
  NoList = NoList
  EmptyList = EmptyList
  InputList <- ClientLists
  EvidenceId = {e1}
  Body = {b1, b2}
  NoBody = NoBody
SPECIFICATION Spec
SYMMETRY PayloadSymmetry
INVARIANTS
  TypeOK
  HistoryIsLifecycle
  PromotionGated
  TrustTraceable
  DecisionWrittenOnce
  NoOrphans
PROPERTIES
  AuditImmutable
  WorkerRetryIsIdempotent
  LifecyclePromise
CHECK_DEADLOCK FALSE

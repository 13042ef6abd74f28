SPECIFICATION FairSpec
CONSTANTS
  Publishers = {c1, c2}
  Players = {p1, p2}
  Adapters = {a1}
  Sources = {s1, s2}
  None = None
  Cleanup = 1
  IdleTimeout = 1
INVARIANTS RecordsExact OnePublisher GracePeriod
PROPERTIES UsedStaysPooled UnusedIsErased IdleIsKicked

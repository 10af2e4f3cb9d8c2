SPECIFICATION FairSpec
CONSTANTS
  e1 = e1
  e2 = e2
  Audits = {a, b}
  Conns = {c, d}
  Windows = {w}
  Times = {1, 2}
  Evidence = {e1, e2}
  ObservedAt <- Observed
  None = None
  MaxAttempts = 2
  MaxWrites = 2
  MaxFaults = 1
INVARIANTS LockNotPooled SnapshotsCurrent LinksMatchContent
PROPERTIES ImplementsRevisionLog EveryAuditEnds

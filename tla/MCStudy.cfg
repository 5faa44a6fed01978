SPECIFICATION Spec
CONSTANTS
  None = None
  Registered <- MCRegistered
  MaxFiles = 2
  MaxBytes = 3
  Worlds <- MCWorlds
  Documents <- MCDocuments
  Apps <- MCApps
  Scans <- MCScans
  Frozen = "s0"
  Scanners = {"s0", "s1"}
  Workers = 2
INVARIANTS
  TypeOK
  ReportsFollowProtocol
  ScoresAreFair
  NoLossHidden
PROPERTIES
  NoCommitOverwritten
  RunsEnd

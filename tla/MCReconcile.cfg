SPECIFICATION SafetySpec
CONSTANTS
  AgentNames = {"a", "b"}
  Unnamed = "unnamed"
  Workloads = {"w", "v"}
  Accounts = {"s", "t"}
  Roles = {"view", "own", "sql"}
  Permissions = {"p", "q"}
  LocalPart <- MCLocalPart
  SqlClient = "sql"
  DiscoveryRoles = {"own"}
  MaxFiles = 2
  Supersets <- MCSupersets
  Scenarios <- MCScenarios
INVARIANTS
  TypeOK
  VerdictTrueInEveryWorld
  PolicyTrueInEveryWorld
  NothingElseMatters
  SourceClaimsGrounded
  VerdictNeedsEvidence
PROPERTIES
  NoDriftAccumulates

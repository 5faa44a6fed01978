SPECIFICATION SafetySpec
CONSTANTS
  Paths <- MCPaths
  Repositories <- MCRepositories
  MaxEntries = 5
  MaxCandidates = 3
  MaxDiagnostics = 2
INVARIANTS
  TypeOK
  NothingSilent
  AgreedMalformedStops
  OncePerFile
  OutcomesExplained
CHECK_DEADLOCK FALSE

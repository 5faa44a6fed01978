SPECIFICATION SafetySpec
CONSTANTS
  Paths <- MCPaths
  Repositories <- MixedRepositories
  MaxEntries = 5
  MaxCandidates = 3
  MaxDiagnostics = 2
INVARIANT MalformedStops
CHECK_DEADLOCK FALSE

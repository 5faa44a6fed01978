SPECIFICATION SafetySpec
CONSTANTS
  Names = {"a", "b", "c"}
  ToolNames = {"t", "u", "v"}
  Capabilities = {"read", "write"}
  Policies = {"p", "q"}
  ServerNames = {"m", "n", "o"}
  IdentityNames = {"sa", "sb"}
  Roles = {"viewer", "editor", "owner"}
  InputNames = {"chat"}
  Nothing = "nothing"
  Repositories <- MCRepositories
INVARIANTS
  TypeOK
  FactsKept
  NotConflated
PROPERTIES
  SecondPassIdle
CHECK_DEADLOCK FALSE

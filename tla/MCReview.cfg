SPECIFICATION MainSpec
CONSTANTS
  Commits = {"c1", "c2", "c3"}
  Tags = {"t"}
  Peel <- MCPeel
  BRANCH = "branch"
  NONE = "none"
  Vars <- MCVars
  ContextParams <- MCContextParams
  MAX_FLOW_SUMMARY_ITERATIONS = 3
  MAX_FLOW_PATHS = 4
  Summarize <- Run
  Targets = {"x"}
  Capabilities = {"data.read", "data.write", "network.external"}
  AuthRoles = {"view", "own"}
  OAuthScopes = {"all"}
  Broad = {"own"}
  ToolNames = {"u", "w"}
  Merged = {"c1"}
  Jobs <- MCJobs
  Handwritten <- MCHandwritten
  MaxEdits = 1
  LastDay = 2
INVARIANTS
  MainTypeOK
  ScansTheEvent
  PassesAreEarned
  NoSilentGain
  McpAccountedFor
  FlowsFound
  GateCatches
PROPERTIES
  PreparationEnds
CHECK_DEADLOCK FALSE

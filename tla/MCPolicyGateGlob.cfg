SPECIFICATION SafetySpec
CONSTANTS
  Strings <- GlobStrings
  Star <- Any
  Lang <- GlobLang
  Relationships <- GlobRelationships
  Contracts <- GlobContracts
  Agents = {"agent"}
  Trees <- GlobTrees
  Strict = TRUE
  FailOnRegression = TRUE
  MaxOpen = 1
INVARIANT ContractRatchet

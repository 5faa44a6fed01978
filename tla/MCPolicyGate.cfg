SPECIFICATION SafetySpec
CONSTANTS
  Strings <- MCStrings
  Star <- Any
  Lang <- MCLang
  Relationships <- MCRelationships
  Contracts <- MCContracts
  Agents = {"agent"}
  Trees <- MCTrees
  Strict = TRUE
  FailOnRegression = TRUE
  MaxOpen = 2
INVARIANTS
  TypeOK
  ContractRatchet
  NoViolationSlips
  NewBlameExplained

SPECIFICATION SafetySpec
CONSTANTS
  Strings <- MCStrings
  Star <- Any
  Lang <- MCLang
  Relationships <- EvidenceRelationships
  Contracts <- EvidenceContracts
  Agents = {"agent"}
  Trees <- EvidenceTrees
  Strict = TRUE
  FailOnRegression = TRUE
  MaxOpen = 1
INVARIANT MissingEvidenceUnresolved

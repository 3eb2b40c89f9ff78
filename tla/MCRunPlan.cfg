SPECIFICATION Spec
CONSTANTS
  Own = {1, 2}
  Up = {3}
  MaxDiffLines = 2
  MaxTokensPerAgent = 2
  SharedTokens = 1
  Kinds = {"docs", "code"}
  Ceilings = {0, 20}
  Configs <- MCConfigs
  PolicyFiles <- MCPolicyFiles
  FiredSets <- MCFiredSets
  Free <- MCFree
  PriceTables <- MCPriceTables
INVARIANTS
  RangeFollowsBranch
  CeilingHolds
  VouchedIsDone
  ExitTells
CHECK_DEADLOCK FALSE

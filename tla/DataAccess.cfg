SPECIFICATION FairSpec

CONSTANTS
  Tables <- MCTables
  GlobOf <- MCGlobOf
  Tags <- MCTags
  PurposeOf <- MCPurposeOf
  NoPurpose = "none"
  Releases <- MCReleases
  Users <- MCUsers
  Primary <- MCPrimary
  Requests = {"q1", "q2"}
  RequestedBy <- MCRequestedBy
  Asset <- MCAsset
  Declared <- MCDeclared
  MaxTagEdits = 1
  MaxDeploys = 1
  MaxFailures = 1
  MaxRevokes = 1

INVARIANTS
  ReadsAreExplained
  UnmaskingIsExplained
  RulesNeverConflict

PROPERTIES
  RevokedAccessEnds
  GrantsTakeEffect
CHECK_DEADLOCK FALSE

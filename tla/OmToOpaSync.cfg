SPECIFICATION SyncFairSpec

CONSTANTS
  mart = mart
  profile = profile
  events = events
  Tables <- MCTables
  GlobOf <- MCGlobOf
  Tags <- MCTags
  PurposeOf <- MCPurposeOf
  NoPurpose = "none"
  Releases <- MCReleases
  MaxTagEdits = 2
  MaxDeploys = 1
  MaxFailures = 1

INVARIANTS
  PurposesAreExplained
PROPERTIES
  TagsReachOpa

CHECK_DEADLOCK FALSE

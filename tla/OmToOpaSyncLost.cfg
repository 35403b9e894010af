SPECIFICATION SyncFairSpec

CONSTANTS
  mart = mart
  profile = profile
  events = events
  Tables <- MCTables
  GlobOf <- MCGlobOf
  Tags <- MCTags
  PurposeOf <- MCPurposeOf
  NoPurpose = "none"
  Releases <- MCReleases
  MaxTagEdits = 1
  MaxDeploys = 1
  MaxFailures = 0

PROPERTIES
  ManualEntriesStay

CHECK_DEADLOCK FALSE

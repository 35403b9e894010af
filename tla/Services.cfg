SPECIFICATION Spec
CONSTANTS
    Users = {u}
    Items = {i1, i2, i3}
    Tiles = {i1}
    Opens = {1, 2, 3, 4}
    MaxRecents = 2
    MaxTime = 3
    Queries = {"wia", "WIA", "ww"}
    Sources = {om}
    MaxCached = 1
    Dropped = 1
    Calls = {1, 2, 3}
    Requests = {r1, r2, r3}
    Listing = {r3}
    Lifetime = 5
    Margin = 3
    CallTime = 2
    MaxClock = 6
    Reports = {wia, zw}
    Ghost = ghost
    MaxFetches = 4
    Keys = {k1, k2}
    Browsers = {b1, b2}
    MaxCalls = 4
    MaxEdits = 1
    People = {ann, bob, steward}
    Steward = steward
    Teams = {team}
    Forms = {f1}
    requester = ann
    Models = {m}
    Labels = {low, high, yes, no}
    low = low
    high = high
    yes = yes
    no = no
    Owners = {team}
    Nobody = nobody
    Key <- MCKey
    RequestedBy <- MCRequestedBy
    Exclusive <- MCExclusive
    Properties <- MCProperties
    RealmOrder <- MCRealmOrder
    Order <- MCOrder
    Events = {1, 2, 3, 4, 5, 6}
    HistorySize = 5
    MaxEvents = 2
    MaxAgain = 1
    alice = alice
    bob = bob
    carol = carol
    Page = 2
    Loads = {"job"}
    persona = persona
    wia = wia
    Stray = {"other"}
    MaxFailures = 1
    Days = {1}
    MaxTries = 2
    MaxRuns = 2
    MaxSeeds = 2
    Runs = {r1, r2}
    Domains = {1, 2}
    Uploads = {1, 2}
    MaxSetups = 2
    Seeds = {1, 2}
    Marts = {m1, m2}
    None = None
INVARIANTS ServicesTypeOK RecentsKeepNewest ResultsBelongToQuery TokensAreShared TokensOutliveTheirUse EmbedMatchesSelection BellShowsNewest FinishedStaysFinished TasksHaveApprover HandEditsSurvive SyncCoversRealm BatchesLand WiaRunsRefresh CloudRunsBuild UploadsTakeHold DashboardsFollowMarts
CHECK_DEADLOCK FALSE

------------------------------ MODULE Services ------------------------------
(* Parts of the platform that share no state: of the portal and its backend,
   of what feeds OpenMetadata, and of the jobs that fill the lake.  `part` is
   the one a behaviour is about.  As there is only one, they use the same
   variables: v1, v2, ... are the variables of that module, in its order, and
   those it does not need are None. *)
EXTENDS Integers, Sequences, FiniteSets

CONSTANTS Users, Items, Tiles, Opens, MaxRecents, MaxTime                \* PortalStore
CONSTANTS Queries, Key(_), Sources, MaxCached, Dropped, Calls            \* CommandPalette
CONSTANTS Requests, Listing, Lifetime, Margin, CallTime, MaxClock        \* PowerBiToken
CONSTANTS Reports, Ghost, MaxFetches                                     \* PowerBiEmbed
CONSTANTS Events, HistorySize, MaxEvents, MaxAgain                       \* NotificationBell
CONSTANTS Keys, Browsers, MaxCalls, MaxEdits                             \* LearnProgress
CONSTANTS People, Steward, Teams, Forms, RequestedBy                     \* AccessRequest
CONSTANTS Models, Labels, Exclusive, Properties, Owners, Nobody          \* Enrichment
CONSTANTS RealmOrder, Page                                               \* UserSync
CONSTANTS Loads, Order, Stray, MaxFailures                               \* BronzeStream
CONSTANTS Days, MaxTries, MaxRuns, MaxSeeds                              \* WiaSpark
CONSTANTS Runs, Domains                                                  \* CloudRun
CONSTANTS Uploads                                                        \* CloudDeploy
CONSTANTS MaxSetups                                                      \* SetupTasks
CONSTANTS Seeds, Marts                                                   \* FocusSeed
CONSTANT None

VARIABLES part, v1, v2, v3, v4, v5, v6, v7, v8, v9, v10

vars == <<part, v1, v2, v3, v4, v5, v6, v7, v8, v9, v10>>

Store == INSTANCE PortalStore
  WITH now <- v1, recents <- v2, favorites <- v3, posts <- v4, opened <- v5
Palette == INSTANCE CommandPalette
  WITH open <- v1, query <- v2, shown <- v3, current <- v4, calls <- v5, cache <- v6
Token == INSTANCE PowerBiToken
  WITH clock <- v1, cachedUntil <- v2, lock <- v3, request <- v4, issued <- v5
Embed == INSTANCE PowerBiEmbed
  WITH selected <- v1, listed <- v2, cfg <- v3, err <- v4, timer <- v5, fetches <- v6,
       crossed <- v7
Bell == INSTANCE NotificationBell
  WITH history <- v1, published <- v2, stream <- v3, shown <- v4, ever <- v5,
       missed <- v6, uneven <- v7
Learn == INSTANCE LearnProgress
  WITH local <- v1, page <- v2, sync <- v3, sent <- v4, made <- v5, progress <- v6,
       other <- v7, held <- v8, earned <- v9, disturbed <- v10
Form == INSTANCE AccessRequest
  WITH account <- v1, owners <- v2, members <- v3, edits <- v4, known <- v5, form <- v6,
       tasks <- v7, seen <- v8, steady <- v9
Enrichment == INSTANCE Enrichment
  WITH labels <- v1, owner <- v2, ingested <- v3, job <- v4, byHand <- v5,
       handOwner <- v6, late <- v7
Sync == INSTANCE UserSync
  WITH realm <- v1, account <- v2, edits <- v3, sync <- v4, settled <- v5
Stream == INSTANCE BronzeStream
  WITH pod <- v1, raw <- v2, batches <- v3, committed <- v4, driver <- v5, copies <- v6,
       registered <- v7, failures <- v8
Wia == INSTANCE WiaSpark
  WITH lake <- v1, apps <- v2, seeder <- v3, dag <- v4, count <- v5, orphan <- v6
Cloud == INSTANCE CloudRun
  WITH vendor <- v1, lake <- v2, seeds <- v3, work <- v4, run <- v5
Deploy == INSTANCE CloudDeploy
  WITH kind <- v1, items <- v2, jobs <- v3, variable <- v4, ops <- v5, up <- v6,
       blind <- v7
Setup == INSTANCE SetupTasks
  WITH app <- v1, seedJob <- v2, raw <- v3, rows <- v4, marts <- v5, manifest <- v6,
       dups <- v7, dash <- v8, built <- v9, run <- v10
Focus == INSTANCE FocusSeed
  WITH file <- v1, notebook <- v2, pending <- v3, tables <- v4, job <- v5, seed <- v6

ASSUME ServicesAssumption ==
       /\ Store!StoreAssumption /\ Palette!PaletteAssumption /\ Token!TokenAssumption
       /\ Embed!EmbedAssumption /\ Bell!BellAssumption /\ Learn!LearnAssumption
       /\ Enrichment!ExclusiveAssumption /\ Enrichment!NobodyAssumption
       /\ Enrichment!DisjointAssumption /\ Setup!SetupAssumption
       /\ Cloud!CloudAssumption /\ Form!RequestAssumption
       /\ Stream!StreamAssumption /\ Wia!WiaAssumption /\ Sync!UsersAssumption

Init ==
    \/ /\ part = "store" /\ Store!Init
       /\ v6 = None /\ v7 = None /\ v8 = None /\ v9 = None /\ v10 = None
    \/ /\ part = "palette" /\ Palette!Init
       /\ v7 = None /\ v8 = None /\ v9 = None /\ v10 = None
    \/ /\ part = "token" /\ Token!Init
       /\ v6 = None /\ v7 = None /\ v8 = None /\ v9 = None /\ v10 = None
    \/ /\ part = "embed" /\ Embed!Init
       /\ v8 = None /\ v9 = None /\ v10 = None
    \/ /\ part = "bell" /\ Bell!Init
       /\ v8 = None /\ v9 = None /\ v10 = None
    \/ /\ part = "learn" /\ Learn!Init
    \/ /\ part = "form" /\ Form!Init
       /\ v10 = None
    \/ /\ part = "enrichment" /\ Enrichment!Init
       /\ v8 = None /\ v9 = None /\ v10 = None
    \/ /\ part = "sync" /\ Sync!Init
       /\ v6 = None /\ v7 = None /\ v8 = None /\ v9 = None /\ v10 = None
    \/ /\ part = "stream" /\ Stream!Init
       /\ v9 = None /\ v10 = None
    \/ /\ part = "wia" /\ Wia!Init
       /\ v7 = None /\ v8 = None /\ v9 = None /\ v10 = None
    \/ /\ part = "cloud" /\ Cloud!Init
       /\ v6 = None /\ v7 = None /\ v8 = None /\ v9 = None /\ v10 = None
    \/ /\ part = "deploy" /\ Deploy!Init
       /\ v8 = None /\ v9 = None /\ v10 = None
    \/ /\ part = "setup" /\ Setup!Init
    \/ /\ part = "focus" /\ Focus!Init
       /\ v7 = None /\ v8 = None /\ v9 = None /\ v10 = None

Next ==
    \/ part = "store" /\ Store!Next /\ UNCHANGED <<part, v6, v7, v8, v9, v10>>
    \/ part = "palette" /\ Palette!Next /\ UNCHANGED <<part, v7, v8, v9, v10>>
    \/ part = "token" /\ Token!Next /\ UNCHANGED <<part, v6, v7, v8, v9, v10>>
    \/ part = "embed" /\ Embed!Next /\ UNCHANGED <<part, v8, v9, v10>>
    \/ part = "bell" /\ Bell!Next /\ UNCHANGED <<part, v8, v9, v10>>
    \/ part = "learn" /\ Learn!Next /\ UNCHANGED <<part>>
    \/ part = "form" /\ Form!Next /\ UNCHANGED <<part, v10>>
    \/ part = "enrichment" /\ Enrichment!Next /\ UNCHANGED <<part, v8, v9, v10>>
    \/ part = "sync" /\ Sync!Next /\ UNCHANGED <<part, v6, v7, v8, v9, v10>>
    \/ part = "stream" /\ Stream!Next /\ UNCHANGED <<part, v9, v10>>
    \/ part = "wia" /\ Wia!Next /\ UNCHANGED <<part, v7, v8, v9, v10>>
    \/ part = "cloud" /\ Cloud!Next /\ UNCHANGED <<part, v6, v7, v8, v9, v10>>
    \/ part = "deploy" /\ Deploy!Next /\ UNCHANGED <<part, v8, v9, v10>>
    \/ part = "setup" /\ Setup!Next /\ UNCHANGED <<part>>
    \/ part = "focus" /\ Focus!Next /\ UNCHANGED <<part, v7, v8, v9, v10>>

Spec == Init /\ [][Next]_vars

\* The type invariants of the modules.
ServicesTypeOK ==
    /\ part = "store" => Store!StoreTypeOK
    /\ part = "palette" => Palette!PaletteTypeOK
    /\ part = "token" => Token!TokenTypeOK
    /\ part = "embed" => Embed!EmbedTypeOK
    /\ part = "bell" => Bell!BellTypeOK
    /\ part = "learn" => Learn!LearnTypeOK
    /\ part = "form" => Form!RequestTypeOK
    /\ part = "enrichment" => Enrichment!EnrichmentTypeOK
    /\ part = "sync" => Sync!UsersTypeOK
    /\ part = "stream" => Stream!StreamLoaderTypeOK
    /\ part = "wia" => Wia!WiaTypeOK
    /\ part = "cloud" => Cloud!CloudTypeOK
    /\ part = "deploy" => Deploy!DeployTypeOK
    /\ part = "setup" => Setup!SetupTypeOK
    /\ part = "focus" => Focus!FocusTypeOK

\* PortalStore: what is trimmed is never newer than what stays.
RecentsKeepNewest == part = "store" => Store!RecentsKeepNewest

\* CommandPalette: the list on screen is about the text on screen.
ResultsBelongToQuery == part = "palette" => Palette!ResultsBelongToQuery

\* PowerBiToken: one token call per lifetime.
TokensAreShared == part = "token" => Token!TokensAreShared

\* PowerBiToken: no call with a dead token.
TokensOutliveTheirUse == part = "token" => Token!TokensOutliveTheirUse

\* PowerBiEmbed: the report on screen is the one selected.
EmbedMatchesSelection == part = "embed" => Embed!EmbedMatchesSelection

\* NotificationBell: the newest events of the history are listed.
BellShowsNewest == part = "bell" => Bell!BellShowsNewest

\* LearnProgress: finished modules stay finished for a patient user.
FinishedStaysFinished == part = "learn" => Learn!FinishedStaysFinished

\* AccessRequest: approvers are owners or the steward, refusals have a cause.
TasksHaveApprover == part = "form" => Form!TasksHaveApprover

\* Enrichment: edits made by hand outlive the job.
HandEditsSurvive == part = "enrichment" => Enrichment!HandEditsSurvive

\* UserSync: a sync without failures reaches every user of the realm.
SyncCoversRealm == part = "sync" => Sync!SyncCoversRealm

\* BronzeStream: files of the raw zone are rows of their tables, few times and
\* findable.
BatchesLand == part = "stream" => Stream!BatchesLand

\* WiaSpark: an undisturbed run ends with a gold table as new as bronze was.
WiaRunsRefresh == part = "wia" => Wia!WiaRunsRefresh

\* CloudRun, FocusSeed: a run that ends well saw a mart of its own seeding or a
\* later one; a seed of UC-12 that ends well built the marts out of its own files.
CloudRunsBuild ==
    /\ part = "cloud" => Cloud!CloudRunsBuild
    /\ part = "focus" => Focus!SeedsBuildTheirMarts

\* CloudDeploy: an upload that ends well is what the workspace holds.
UploadsTakeHold == part = "deploy" => Deploy!UploadsTakeHold

\* SetupTasks: a run that ends well has dashboards of the marts as they are.
DashboardsFollowMarts == part = "setup" => Setup!DashboardsFollowMarts
=============================================================================

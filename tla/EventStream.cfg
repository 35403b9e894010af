SPECIFICATION FairSpec
CONSTANTS
    Runs = {1, 2, 3}
    Clients = {tab}
    HistorySize = 2
    QueueSize = 2
    PageSize = 2
    MaxFailures = 1
    MaxConnects = 1
    MaxRestarts = 1
INVARIANTS StreamsKeepOrder PromptClientsMissNothing
PROPERTIES FailuresReachClients
CHECK_DEADLOCK FALSE

\* Two runs and room for both in an answer: only the window can hide a failure.
SPECIFICATION FairSpec
CONSTANTS
    Runs = {1, 2}
    Clients = {tab}
    HistorySize = 2
    QueueSize = 2
    PageSize = 2
    MaxFailures = 1
    MaxConnects = 1
    MaxRestarts = 0
PROPERTIES NewFailuresAreReported
CHECK_DEADLOCK FALSE

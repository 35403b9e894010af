\* One streamed source that is loaded once: bronze, silver and gold by schedule.
SPECIFICATION Spec
CONSTANTS
    Sources = {"personas"}
    Csv = {}
    Batch = {}
    Anchor = "personas"
    MaxBatches = 1
    MaxCsvLoads = 0
PROPERTY GoldFollowsSilver
CHECK_DEADLOCK FALSE

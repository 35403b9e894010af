SPECIFICATION Spec
CONSTANTS
    Runs = {r1, r2}
    Fingerprints = {down, down_in_ns}
    down = down
    downInNamespace = down_in_ns
    IssueLabels = {filed, severity}
    Seeded = {filed}
    Sources = {personas, survey}
    Csv = {survey}
    Batch = {}
    Anchor = personas
    MaxBatches = 1
    MaxCsvLoads = 2
    Sides = {profiler}
    Retries = 1
    MaxActive = 1
    MaxFaults = 2
INVARIANTS SchedulesTypeOK OneIssuePerFingerprint SetupBuildsMarts
PROPERTIES RunsReachAnEnd SilverFollowsBronze GovernanceRecovers
CHECK_DEADLOCK FALSE

\* The upload page starts a conversion.
CONSTANTS
  r1 = r1  r2 = r2  r3 = r3
  Runs = {r1, r2, r3}
  CsvKeys = {csv}
  UploadKeys = {up}
  Files = {f1, f2, bad}
  OffSchema = {bad}
  Unreadable = {bad}
  NoFile = NoFile
  CsvTable = source
  SandboxTables = {sandbox}
  Parallel = 2
  MaxFaults = 1
  csv = csv  up = up  f1 = f1  f2 = f2  bad = bad  source = source  sandbox = sandbox
SPECIFICATION Spec
INVARIANT
  PortalRunsAreValid
CHECK_DEADLOCK FALSE

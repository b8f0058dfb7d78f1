\* No faults: every delivery, a replayed one included, is executed to the end.
SPECIFICATION FairSpec
CONSTANTS
  s1 = s1
  s2 = s2
  Scans = {s1}
  RvdScans = {s1}
  NoScan = NoScan
  Executors = {e1, e2}
  Fingerprints = {f1}
  MaxJobs = 2
  PlanSize <- MCPlanSize
  FaultKinds = {}
  MaxFaults = 0
  MaxReplays = 1
  Redelivers = TRUE
PROPERTY QueuedScanFinishes
CHECK_DEADLOCK FALSE

\* One crash, after which the queue delivers the scan again.
SPECIFICATION FairSpec
CONSTANTS
  s1 = s1
  s2 = s2
  Scans = {s2}
  RvdScans = {s2}
  NoScan = NoScan
  Executors = {e1, e2}
  Fingerprints = {f1}
  MaxJobs = 2
  PlanSize <- MCPlanSize
  FaultKinds = {"crash"}
  MaxFaults = 1
  MaxReplays = 0
  Redelivers = TRUE
PROPERTY QueuedScanFinishes
CHECK_DEADLOCK FALSE

\* One POST, no faults.
SPECIFICATION FairSpec
CONSTANTS
  s1 = s1
  s2 = s2
  Scans = {s2}
  RvdScans = {s2}
  NoScan = NoScan
  Executors = {e1, e2}
  Fingerprints = {f1}
  MaxJobs = 2
  PlanSize <- MCPlanSize
  FaultKinds = {}
  MaxFaults = 0
  MaxReplays = 0
  Redelivers = FALSE
PROPERTY AcceptedScanFinishes
CHECK_DEADLOCK FALSE

\* Deliveries of a scan never overlap: no replays, a crashed worker's scan is
\* delivered again.  Two faults of any kind.
SPECIFICATION Spec
CONSTANTS
  s1 = s1
  s2 = s2
  Scans = {s1, s2}
  RvdScans = {s1}
  NoScan = NoScan
  Executors = {e1, e2, e3}
  Fingerprints = {f1, f2}
  MaxJobs = 2
  PlanSize <- MCPlanSize
  FaultKinds = {"abort", "lost", "crash", "timeout", "db"}
  MaxFaults = 2
  MaxReplays = 0
  Redelivers = TRUE
SYMMETRY Interchangeable
INVARIANTS
  TypeOK
  NoDuplicateFindings
  CleanFinish
  NotifiedScanIsCompleted
PROPERTIES
  LegalTransitions
  KeepsPromise
CHECK_DEADLOCK FALSE

\* A scan may be under execution by several executors at once: one replay, and
\* two faults of any kind, crashes being delivered again.
SPECIFICATION Spec
CONSTANTS
  s1 = s1
  s2 = s2
  Scans = {s1}
  RvdScans = {s1}
  NoScan = NoScan
  Executors = {e1, e2, e3}
  Fingerprints = {f1}
  MaxJobs = 2
  PlanSize <- MCPlanSize
  FaultKinds = {"abort", "lost", "crash", "timeout", "db"}
  MaxFaults = 2
  MaxReplays = 1
  Redelivers = TRUE
SYMMETRY Interchangeable
INVARIANTS
  ExclusiveUnlessRaced
  DuplicatesOnlyIfRaced
  EvidenceTrail
  CompletedImpliesPublished
CHECK_DEADLOCK FALSE

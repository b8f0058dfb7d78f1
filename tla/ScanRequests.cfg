\* Three requests of two projects, two targets, one aborted transaction.
SPECIFICATION Spec
CONSTANTS
  h1 = h1
  h2 = h2
  all = all
  only2 = only2
  sastTool = sastTool
  rvdTool = rvdTool
  k = k
  p1 = p1
  p2 = p2
  Hosts = {h1, h2}
  Patterns = {all, only2}
  Covers <- MCCovers
  Tools = {sastTool, rvdTool}
  ToolsOf <- MCToolsOf
  Default <- MCDefault
  Requests = {q1, q2, q3}
  None = None
  NoKey = NoKey
  EmptyKey = EmptyKey
  Bodies <- MCBodies
  Targets <- MCTargets
  Projects = {p1, p2}
  MaxAborts = 1
SYMMETRY Interchangeable
INVARIANTS
  TypeOK
  KeyNamesOneScan
  ConflictNeedsOverlap
  AcceptedScopeHolds
  PlannedInScope
  
\* Every request is answered in the end.
CHECK_DEADLOCK FALSE

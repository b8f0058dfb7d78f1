\* One scan with one or two jobs, of every adapter, and five webhooks.
SPECIFICATION Spec
CONSTANTS
  f1 = f1
  f2 = f2
  u1 = u1
  u2 = u2
  MaxOllama = 3
  MaxHeuristic = 2
  Wanted <- MCWanted
  Hosts <- MCHosts
  ReportsOf <- MCReportsOf
  Answers <- MCAnswers
  HookOf <- MCHookOf
  EarlyHooks <- MCEarlyHooks
  NewHooks = {"ours"}
  ScanProject = "p"
  MaxHookChanges = 1
INVARIANTS
  TypeOK
  FindingsMatchEvidence
  PlacesKeptApart
  StraysTimedOut
  RvdFailsOnlyAfterCheck
  ChainScores
  HooksTold
\* A scan is over in the end.
CHECK_DEADLOCK FALSE

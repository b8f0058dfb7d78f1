\* Two scans, one with a severe and an RVD finding, three requests of any kind.
SPECIFICATION Spec
CONSTANTS
  f1 = f1
  f2 = f2
  f3 = f3
  Findings = {f1, f2, f3}
  ScanOf <- MCScanOf
  ClassOf <- MCClassOf
  SeverityOf <- MCSeverityOf
  ProjectOf <- MCProjectOf
  FirstSeen <- MCFirstSeen
  DayLength = 2
  Windows = {0, 2, 3, 4}
  MaxTop = 1
  Asks <- MCAsks
  Requests = {r1, r2, r3}
SYMMETRY Interchangeable
INVARIANTS
  TypeOK
  DecisionHolds
  EmbargoNeedsDecision
  GatePassNeedsDecision
  AuditTells
  AnswersAreCurrent
  ReadersAgree
\* Every request is answered in the end.
CHECK_DEADLOCK FALSE

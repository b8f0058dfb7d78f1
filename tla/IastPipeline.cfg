\* One session, two threads of one application, batches of two.
SPECIFICATION Spec
CONSTANTS
  v1 = v1
  v2 = v2
  v3 = v3
  Events = {v1, v2, v3}
  FingerprintOf <- MCFingerprintOf
  Requests = {h1, h2, h3}
  Threads = {t1, t2}
  NoThread = NoThread
  NoEvent = NoEvent
  NoRequest = NoRequest
  Batch = 2
  Preloads = {"nothing", "httpx", "transport"}
SYMMETRY Interchangeable
INVARIANTS
  TypeOK
  LateRequestsAddNothing
  FinalizeCloses
  BufferBounded
  SentAtMostOnce
  DuplicatesOnlyIfGaveUp
  EveryEventAccountedFor
PROPERTIES
  NeverReopens
\* Once the application has called its sinks and every request is answered
\* nothing is left to do.
CHECK_DEADLOCK FALSE

SPECIFICATION FairSpec
CONSTANTS
  v1 = v1
  v2 = v2
  v3 = v3
  Events = {v1, v2}
  FingerprintOf <- MCFingerprintOf
  Requests = {h1}
  Threads = {t1, t2}
  NoThread = NoThread
  NoEvent = NoEvent
  NoRequest = NoRequest
  Batch = 2
  Preloads = {"nothing"}
PROPERTY SinkCallReturns
CHECK_DEADLOCK FALSE

CONSTANTS
  c1 = c1
  c2 = c2
  c3 = c3
  p1 = p1
  p2 = p2
  v1 = v1
  v2 = v2
  Calls <- MCCalls
  Procs <- MCProcs
  ProcOf <- MCProcOf
  Contents <- MCOneContent
  Absent = Absent
  Anything = Anything
  Requests <- MCFewRequests
  Torn = Torn
  NoLock = NoLock
  AgingLocks = {"dead", "live"}
  PowerLoss = TRUE
  CanSyncDir = TRUE
SPECIFICATION FairSpec
INVARIANT NeverTorn
PROPERTY EveryCallEnds
CHECK_DEADLOCK FALSE

CONSTANTS
  c1 = c1
  c2 = c2
  c3 = c3
  p1 = p1
  p2 = p2
  v1 = v1
  v2 = v2
  Calls <- MCCalls
  Procs <- MCProcs
  ProcOf <- MCProcOf
  Contents <- MCContents
  Absent = Absent
  Anything = Anything
  Requests <- MCRivalRequests
  Torn = Torn
  NoLock = NoLock
  AgingLocks = {"dead"}
  PowerLoss = FALSE
  CanSyncDir = TRUE
SPECIFICATION Spec
PROPERTY NoLostUpdate
CHECK_DEADLOCK FALSE

CONSTANTS
  c1 = c1
  c2 = c2
  c3 = c3
  p1 = p1
  p2 = p2
  v1 = v1
  v2 = v2
  Calls <- MCCalls
  Procs <- MCProcs
  ProcOf <- MCProcOf
  Contents <- MCContents
  Absent = Absent
  Anything = Anything
  Requests <- MCRequests
  Torn = Torn
  NoLock = NoLock
  AgingLocks = {}
  PowerLoss = FALSE
  CanSyncDir = TRUE
SPECIFICATION Spec
SYMMETRY Symmetry
INVARIANT StoreInv
INVARIANT MutualExclusion
INVARIANT SavedIsDurable
PROPERTY NoLostUpdate
PROPERTY ImplementsRegister
CHECK_DEADLOCK FALSE

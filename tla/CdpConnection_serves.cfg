SPECIFICATION FairSpec
CHECK_DEADLOCK FALSE
CONSTANTS
  p1 = p1
  p2 = p2
  i1 = i1
  i2 = i2
  o1 = o1
  o2 = o2
  Pages <- MCPages
  Ids <- MCIds
  Ops <- MCOps
  None = None
  Stale = Stale
  MaxDeferred = 1
  MaxUnread = 1
  MaxRequests = 1
  MaxUnannounced = 2
INVARIANT CdpInv
PROPERTY OnlyCreateAddsIsolates
PROPERTY OnlyTheClientReleases
 
PROPERTY CommandsEnd

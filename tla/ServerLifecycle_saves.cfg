CONSTANTS
  c1 = c1
  c2 = c2
  c3 = c3
  k1 = k1
  v1 = v1
  Conn <- MCConn
  Cookies <- MCCookies
  Values <- MCValues
  Absent = Absent
  NoConn = NoConn
  MaxConnections = 2
  MaxHandoffs = 1
  MaxChanges = 1
SPECIFICATION Spec
INVARIANT ServerInv
INVARIANT SlotsCountThreads
INVARIANT StoredIsNewest
PROPERTY DrainWaitsForSaves
PROPERTY ClosedConnectionsEnd
PROPERTY DrainEnds
CHECK_DEADLOCK FALSE

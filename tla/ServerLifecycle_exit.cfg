CONSTANTS
  c1 = c1
  c2 = c2
  c3 = c3
  k1 = k1
  v1 = v1
  Conn <- MCTwoConn
  Cookies <- MCCookies
  Values <- MCValues
  Absent = Absent
  NoConn = NoConn
  MaxConnections = 2
  MaxHandoffs = 1
  MaxChanges = 1
SPECIFICATION Spec
CHECK_DEADLOCK FALSE
INVARIANT CleanExitSavesCookies

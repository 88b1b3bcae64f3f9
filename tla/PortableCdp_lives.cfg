CONSTANTS
  c1 = c1
  c2 = c2
  s1 = s1
  s2 = s2
  p1 = p1
  p2 = p2
  x1 = x1
  x2 = x2
  r1 = r1
  Conns <- MCConns
  Sessions <- MCSessions
  Pages <- MCPages
  Contexts <- MCContexts
  FirstPage = p1
  DefaultContext = x1
  Requests <- MCRequests
  MaxAction = 2
  MaxGeneration = 2
SPECIFICATION Spec
SYMMETRY Symmetry
INVARIANT PortableInv
INVARIANT RequestsAreHeld
INVARIANT ClientsAreTold
PROPERTY StaleResultsAreRefused
CHECK_DEADLOCK FALSE

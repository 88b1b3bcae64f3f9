CONSTANTS
  g1 = g1
  g2 = g2
  g3 = g3
  a1 = a1
  a2 = a2
  k1 = k1
  k2 = k2
  k3 = k3
  Pages <- MCPages
  Callers <- MCOneCaller
  Cookies <- MCTwoCookies
  PageCookies <- MCPageCookies
  NoPage = NoPage
  NoJar = NoJar
  CallsAtOnce = 1
  WorkersEnd = "noticed"
  PagelessCalls = TRUE
SPECIFICATION Spec
SYMMETRY PageSymmetry
INVARIANT JarsInv
INVARIANT PagesAgree
INVARIANT ReportsTheContext
PROPERTY SavesTheContext

SPECIFICATION Spec
CONSTANTS
  d = d
  a = a
  b = b
  c = c
  Nodes <- MCNodes
  Document = d
  None = None
  Ids <- MCIds
  DocumentMoves = FALSE
SYMMETRY MCSymmetry
INVARIANT TreeInv
INVARIANT WalksAgree
INVARIANT LookupIsLive
PROPERTY EditedRulesAreCurrent
PROPERTY IsPromisedTree

CONSTANTS
  x1 = x1
  x2 = x2
  k1 = k1
  m1 = m1
  o1 = o1
  Contexts <- MCContexts
  Closes <- MCCloses
  Changes <- MCChanges
  Others <- MCOthers
  NoProfile = NoProfile
  NoContext = NoContext
  AutoBackup = TRUE
  Failures = TRUE
SPECIFICATION FairSpec
INVARIANT ContextInv
INVARIANT OneContextAtATime
INVARIANT CloseSavesWhatItFound
PROPERTY StoredChangesSurvive
PROPERTY ClosesEnd
CHECK_DEADLOCK FALSE

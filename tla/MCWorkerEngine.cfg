SPECIFICATION FairSpec
CONSTANTS
  l1 = l1
  Layer <- MCLayer
  ScrollLayer <- MCLayer
  Barrier = {"Resize", "Shutdown"}
  Commit <- MCCommit
  MaxPosts = 3
  MaxAccepted = 4
  RendererMayFail = TRUE
CHECK_DEADLOCK FALSE
INVARIANTS
  TypeOK
  ShutdownIsLast
  ContinuesWhileWorkRemains
PROPERTIES
  HandoffSpec
  DetachIsAnswered
  RequestsAreAnswered
  AcceptedIsServed

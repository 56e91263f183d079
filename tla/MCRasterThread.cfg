SPECIFICATION FairSpec
CONSTANTS
  l1 = l1
  l2 = l2
  Layer <- MCLayer
  ScrollLayer <- MCScrollLayer
  Barrier = {"Resize", "SurfaceLost"}
  Commit <- MCCommit
  MaxSends = 4
  SinkMayPanic = TRUE
INVARIANTS
  PendingFaithful
  NoAdjacentFrames
  DrainedWhenDown
  NoLostWakeup
PROPERTIES
  HandoffSpec
  ShutdownReturns
  AcceptedIsServed

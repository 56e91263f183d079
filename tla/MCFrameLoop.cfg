SPECIFICATION FairFrameLoopSpec
CONSTANTS
  Views = {v1}
  Sizes = {s1, s2}
  Painters = {p1, p2}
  Families = {f1, f2}
  Unresolvable = {f2}
  Lacking = {f1}
  None = None
  Unset = Unset
  MaxAttempts = 3
  MaxChanges = 5
  MaxThrows = 1
CHECK_DEADLOCK FALSE
INVARIANTS
  NothingSleeps
  DrawingIsCurrent
  MissingFontsAreAccounted
PROPERTIES
  AwakeLoopPaints

SPECIFICATION FairFrameLoopSpec
CONSTANTS
  Views = {v1}
  Sizes = {s1}
  Painters = {p1}
  Families = {}
  Unresolvable = {}
  Lacking = {}
  None = None
  Unset = Unset
  MaxAttempts = 3
  MaxChanges = 3
  MaxThrows = 0
CHECK_DEADLOCK FALSE
PROPERTIES
  EveryPaintingAppears

SPECIFICATION FairSpec
CONSTANTS
  Root = Root
  Leaves = {l1}
  Labels = {a}
  Scales = {1, 2}
  BootTree <- MCBootTree
  MaxCalls = 3
  MaxEvents = 2
CHECK_DEADLOCK FALSE
INVARIANTS
  BaselineIsShown
  ReaderIsCurrent
  NoRequestSleeps
PROPERTIES
  ActivationIsAnswered

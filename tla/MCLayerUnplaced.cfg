SPECIFICATION FairSpec
CONSTANTS
  root = root
  box = box
  list = list
  item = item
  plain = plain
  slid = slid
  turned = turned
  Elements <- MCElements
  Root = root
  ScrollViews <- MCScrollViews
  Parent <- MCParent
  Rank <- MCRank
  Matrices <- MCMatrices
  Plain = plain
  MaxTop = 2
  Overscan = 1
  TransitionFrames = 1
  LateSets <- MCLateSets
  Budget = 3
  LowBudget = 1
  MaxChanges = 2
  MaxFaults = 0
INVARIANT PlacementsAreLive
CHECK_DEADLOCK FALSE

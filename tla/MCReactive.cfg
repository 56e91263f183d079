SPECIFICATION FairSpec
CONSTANTS
  Node <- MCNode
  Scope <- MCScope
  Root = "root"
  Handler <- MCHandler
  MaxValue = 2
  App <- AllApps
  Calls = {"handler", "batch"}
  MaxEvents = 3
INVARIANTS
  TypeOK
  GraphIsConsistent
  CleanMemoIsCorrect
  EffectsShowCurrentState
  NoDisposedRead
  OncePerBatch
PROPERTIES
  Settles

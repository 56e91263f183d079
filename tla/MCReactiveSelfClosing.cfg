SPECIFICATION Spec
CONSTANTS
  Node <- MCNode
  Scope <- MCScope
  Root = "root"
  Handler <- MCHandler
  MaxValue = 2
  App <- SelfClosingApp
  Calls = {"batch"}
  MaxEvents = 2
INVARIANTS
  EffectsShowCurrentState

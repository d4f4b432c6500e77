SPECIFICATION MCSpec
CONSTANTS
  Kinds <- MCKinds
  Plan <- MCPlan
  Destroyable <- MCDestroyable
  Creator <- MCCreator
  Starts <- MCStarts
  Creatable <- MCCreatable
  MaxNatives = 5
  MaxWrappers = 4
  MaxDepth = 1
  MaxElements = 2
  Worlds <- MCWorlds
CHECK_DEADLOCK FALSE
INVARIANTS RefsCounted ConversionHoldsLive PlansInUse JoinComplete EmittedWhole

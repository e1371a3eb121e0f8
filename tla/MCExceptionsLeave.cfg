CONSTANTS
  Class = {A, B}
  Leaving = TRUE
  Kinds <- SomeKinds
  MaxFrames = 2
  MaxHandlers = 2
  MaxStack = 4
  MaxLeft = 3
  MaxPath = 3
  MaxLocals = 1
SPECIFICATION Spec
SYMMETRY Symmetry
INVARIANTS HandlersNest
CHECK_DEADLOCK FALSE

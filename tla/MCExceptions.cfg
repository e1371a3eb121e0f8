CONSTANTS
  Class = {A, B}
  Leaving = FALSE
  Kinds <- SomeKinds
  MaxFrames = 2
  MaxHandlers = 2
  MaxStack = 4
  MaxLeft = 3
  MaxPath = 3
  MaxLocals = 1
SPECIFICATION Spec
SYMMETRY Symmetry
INVARIANTS HandlersInstalled HeightCovers ContentInPlace NameIsCaught OpenInStack
CHECK_DEADLOCK FALSE

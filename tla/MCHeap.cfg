SPECIFICATION SliceSpec
CONSTANTS
  MaxObj = 7
  Texts = {"init", "a"}
  InitText = "init"
  MaxStack = 4
  MaxFrames = 2
  None = None
INVARIANTS TypeOK NoDangling WellTyped InitializerIsMethod Interned

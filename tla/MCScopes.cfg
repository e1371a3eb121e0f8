SPECIFICATION LoopSpec
SYMMETRY Names
VIEW InUse
CONSTANTS
  a = a
  b = b
  Name = {a, b}
  Unnamed = Unnamed
  MaxLocals = 3
  MaxFunctions = 3
  MaxNesting = 5
  MaxJumps = 1
  Garbage = {0}
INVARIANTS LocalsAreSlots ReadsInnermost JumpsLand NoneLost

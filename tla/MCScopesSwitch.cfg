SPECIFICATION Spec
CONSTANTS
  a = a
  b = b
  Name = {a}
  Unnamed = Unnamed
  MaxLocals = 4
  MaxFunctions = 2
  MaxNesting = 4
  MaxJumps = 1
  Garbage = {0}
INVARIANT SwitchReserved

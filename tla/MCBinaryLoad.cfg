SPECIFICATION BinarySpec
CONSTANTS
  s = s
  t = t
  Function = {1, 2, 3, 4}
  Script = 1
  String = {s, t}
  Number = Number
  Nil = Nil
  Programs <- Scripts
INVARIANT LoadSucceeds
CHECK_DEADLOCK FALSE

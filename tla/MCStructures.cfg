SPECIFICATION PartSpec
CONSTANTS
  a = a
  b = b
  c = c
  d = d
  Key = {a, b, c, d}
  Value = {Nil, False}
  Null = Null
  False = False
  Nil = Nil
  Hash <- Hashes
  MinCapacity = 4
  MaxCapacity = 8
  f = f
  g = g
  Item = {f, g}
  MinBuffer = 2
  MaxBuffer = 8
  s = s
  t = t
  Number = Number
  Function = {1, 2, 3, 4}
  Script = 1
  String = {s, t}
  Programs <- Scripts
  Alignment = 2
  Capacity = 16
  Requests = {0, 1, 3, 5}
  Shrinking = FALSE
INVARIANTS TypeOK Disjoint LastIsLast
INVARIANTS TableTypeOK ProbesEnd CountIsLoad KeysFindable ReadsKeys DoneReadAll
INVARIANTS FindsWaiting RoundTrip PatchesInRange LinesFound
PROPERTIES ImplementsKeyMap ImplementsFifo
CHECK_DEADLOCK FALSE

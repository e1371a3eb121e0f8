SPECIFICATION IteratorSpec
CONSTANTS
  a = a
  b = b
  c = c
  d = d
  Key = {a, b, c, d}
  Value = {Nil, False}
  Nil = Nil
  False = False
  Hash <- Hashes
  MinCapacity = 4
  MaxCapacity = 4
  Null = Null
PROPERTY IterationEnds
CHECK_DEADLOCK FALSE

SPECIFICATION Spec
CONSTANT IndexLevel = 2
INVARIANT ErrorsTellLine
CHECK_DEADLOCK FALSE

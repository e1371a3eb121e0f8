SPECIFICATION Spec
CONSTANT IndexLevel = 12
INVARIANT MeansTree
CHECK_DEADLOCK FALSE

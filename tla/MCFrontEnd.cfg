CONSTANTS
  Longest = 5
  IndexLevel = 2
SPECIFICATION PartSpec
INVARIANTS NothingSkipped LongestMatch Located InSource MeansTree HeightsAgree
CHECK_DEADLOCK FALSE

SPECIFICATION MCSpec
CONSTANTS
  MaxObj = 6
  Texts = {"init", "f", "initinit"}
  InitText = "init"
  MaxStack = 4
  MaxFrames = 1
  None = None
INVARIANTS CollectorTypeOK TriColour SweepsUnreachable
PROPERTIES ImplementsHeap CollectionEnds

CONSTANTS
  p1 = p1
  p2 = p2
  None = None
  Pollers <- TwoPollers
  MaxRpcs = 2
  Items = 2
SPECIFICATION FairSpec
INVARIANT HandlersAreInPlace
INVARIANT ItemsInOrder
PROPERTY CallFinished
CHECK_DEADLOCK FALSE

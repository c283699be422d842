CONSTANTS
  c1 = c1
  c2 = c2
  p1 = p1
  p2 = p2
  None = None
  Calls <- TwoCalls
  Pollers <- TwoPollers
  WaitList <- FrontToBack
  Retries = 2
SPECIFICATION FairSpec
INVARIANT PromiseIsInGoodHands
INVARIANT SetPromiseIsFinal
PROPERTY ImplementsRemoteCalls
PROPERTY WaitReturns
CHECK_DEADLOCK FALSE

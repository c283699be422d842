CONSTANTS
  c1 = c1
  s1 = s1
  s2 = s2
  p1 = p1
  None = None
  Calls <- OneCall
  WaitList <- JustTheCall
  Retries = 1
  Pollers <- TwoPollers
  ClientPollers <- OnePoller
  MaxRpcs = 2
SPECIFICATION FairEndToEnd
INVARIANT HandlersAreInPlace
INVARIANT AnsweredOnce
PROPERTY ImplementsAtLeastOnce
PROPERTY AllIsFreed
CHECK_DEADLOCK FALSE

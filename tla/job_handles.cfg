CONSTANTS
  h1 = h1
  h2 = h2
  s1 = s1
  s2 = s2
  s3 = s3
  c1 = c1
  c2 = c2
  None = None
  Handles <- TwoHandles
  States <- ThreeStates
  Callers <- TwoCallers
SPECIFICATION FairSpec
INVARIANT RunningThreadHasOneOwner
PROPERTY RunningThreadIsNotDropped
PROPERTY ImplementsManagedThreads
PROPERTY AskedThreadEnds
CHECK_DEADLOCK FALSE

CONSTANTS
  c1 = c1
  c2 = c2
  p1 = p1
  p2 = p2
  None = None
  Calls <- TwoCalls
  Pollers <- TwoPollers
  MaxAnswers = 2
SPECIFICATION FairSpec
INVARIANT HandlerHasOneHolder
INVARIANT AnswersComeBeforePromise
PROPERTY CallEnds
CHECK_DEADLOCK FALSE

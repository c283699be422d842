CONSTANTS
  j1 = j1
  j2 = j2
  j3 = j3
  main = main
  killer = killer
  helper = helper
  None = None
  Jobs <- ThreeJobs
  Owner = main
  Attachers <- OwnerOnly
  Stoppers <- Killer
  FatalThrows = TRUE
SPECIFICATION FairSpec
PROPERTY JoinWaitsForAll
PROPERTY JoinReturns
CHECK_DEADLOCK FALSE

CONSTANTS
  j1 = j1
  j2 = j2
  j3 = j3
  main = main
  killer = killer
  helper = helper
  None = None
  Jobs <- ThreeJobs
  Owner = main
  Attachers <- OwnerAndHelper
  Stoppers <- Killer
  FatalThrows = TRUE
SPECIFICATION FairSpec
INVARIANT NoLostWakeup
 
INVARIANT DestructorAdmitsNoJob
INVARIANT QuietAfterDestruction
PROPERTY ImplementsSerialJobs
PROPERTY StopSettlesAll
PROPERTY DestructorHangsOnlyAsleep
CHECK_DEADLOCK FALSE

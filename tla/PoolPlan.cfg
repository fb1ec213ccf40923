SPECIFICATION Spec
\* The system rests when the caller has nothing left to ask.
CHECK_DEADLOCK FALSE
CONSTANTS
  MaxRows = 3
  MaxPermits = 2
  Jobs <- MixedJobs
  FinalPlan = TRUE
  LastTemplateReader = TRUE
  TimingInDepth = TRUE
  MayRunOut = TRUE
  LeaderMayFailFirst = FALSE
  Limit = 2
  Lanes = "off"
  LaneWidth = 1
  MayAbort = FALSE
INVARIANTS
  TypeOK
  SourceIntact
  NothingKept
  NoLostWakeup
  UrgentFits
PROPERTIES
  RunEnds

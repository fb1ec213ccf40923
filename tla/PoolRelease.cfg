SPECIFICATION Spec
\* The system rests when the caller has nothing left to ask.
CHECK_DEADLOCK FALSE
CONSTANTS
  MaxRows = 5
  MaxPermits = 1
  Jobs <- SplitJobs
  FinalPlan = FALSE
  LastTemplateReader = FALSE
  TimingInDepth = FALSE
  MayRunOut = FALSE
  LeaderMayFailFirst = FALSE
  Limit = 1
  Lanes = "off"
  LaneWidth = 1
  MayAbort = FALSE
INVARIANTS
  ReleaseFreesAll

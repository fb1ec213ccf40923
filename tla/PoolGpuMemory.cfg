SPECIFICATION Spec
\* The system rests when the caller has nothing left to ask.
CHECK_DEADLOCK FALSE
CONSTANTS
  MaxRows = 4
  MaxPermits = 1
  Jobs <- SweepJobs
  FinalPlan = TRUE
  LastTemplateReader = TRUE
  TimingInDepth = FALSE
  MayRunOut = FALSE
  LeaderMayFailFirst = TRUE
  Limit = 1
  Lanes = "gpu"
  LaneWidth = 2
  MayAbort = FALSE
INVARIANTS
  CancelledOnlyByCancel

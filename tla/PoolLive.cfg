SPECIFICATION StepSpec
\* The system rests when the caller has nothing left to ask.
CHECK_DEADLOCK FALSE
CONSTANTS
  MaxRows = 5
  MaxPermits = 1
  Jobs <- SplitJobs
  FinalPlan = FALSE
  LastTemplateReader = FALSE
  TimingInDepth = FALSE
  MayRunOut = TRUE
  LeaderMayFailFirst = FALSE
  Limit = 2
  Lanes = "cpu"
  LaneWidth = 3
  MayAbort = FALSE
INVARIANTS
  SourceIntact
  OneThreadPerRow
  CancelledOnlyByCancel
  NeverStuck
PROPERTIES
  KeepsGraph

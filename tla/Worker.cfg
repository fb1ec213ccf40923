SPECIFICATION Spec
CONSTANTS
  MaxStarts = 3
  MaxCheckpoints = 3
  ReportNonlinear = FALSE
INVARIANTS
  TypeOK
  Isolation
  OneWakeup
  PostsToLiveFrame
  CancelDecides
  ReapedBeforeUse
PROPERTIES
  CallsReturn
  CancelEnds
  KeepsContract

SPECIFICATION Spec
CONSTANTS
  Workers = {w1, w2, w3}
  Main = main
  NumTasks = 2
  NumBlocks = 2
  MaxRuns = 2
INVARIANTS
  TypeOK
  SumsWhole
  PhasesApart
PROPERTIES
  JobQuiet
  CallsReturn

SPECIFICATION Spec
\* A script ends.
CHECK_DEADLOCK FALSE
CONSTANTS
  Listings <- MCListings
  Pairs <- MCPairs
  MaxPairs = 2
  Panics = {"len_fail"}
  Decks = {d1, d2}
  Modes = {"swept", "replicate", "old"}
  Files <- MCFiles
  GpuDecks <- MCGpuDecks
  R = 2
  NaN = NaN
  GpuRuns <- MCGpuRuns
  CpuRuns <- MCCpuRuns
  BenchDecks <- MCBenchDecks
  BenchReports <- MCBenchReports
  BenchTables <- MCBenchTables
INVARIANTS
  VerdictsAreTrue
  ExitPromise
  GateComparesRuns
  ParityIsCloseness
  DevicesExpanded
  SummaryPerSimulator
  MeasuresMatched

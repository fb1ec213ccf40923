SPECIFICATION Spec
\* A problem may be destroyed.
CHECK_DEADLOCK FALSE
CONSTANTS
  MaxMain = 2
  Runs = 0
  Formats = {"binary"}
  Dests = {"file"}
INVARIANTS
  RunAllFinishes

SPECIFICATION Spec
\* A problem may be destroyed.
CHECK_DEADLOCK FALSE
CONSTANTS
  MaxMain = 3
  Runs = 1
  Formats = {"binary", "ascii", "csv"}
  Dests = {"file", "device", "none"}
INVARIANTS
  DestinationWhole
  AllDelivered
  StreamAlone
PROPERTIES
  OnlyGrows

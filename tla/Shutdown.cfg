\* The keys of the display and a stop at any point, an edit that replaces the fan, a failing command.
CONSTANTS
  None = None
  Invalid = Invalid
  Host = {"east"}
  Fan = {0, 1}
  Speeds = {}
  FaultKinds = {"unsent"}
  MaxFaults = 1
  MaxRestarts = 0
  Configs <- FanReplaced
  Initial <- OneFan
  Temps = {90}
  Reloaders = {"watch"}
  Interactive = TRUE
  MayStop = TRUE
  MaxCrashes = 0
  MaxEdits = 1
SPECIFICATION Spec
INVARIANTS
  
  ReleasedFansAreAtBaseline
PROPERTIES
  
  DryRunWritesNothing
CHECK_DEADLOCK FALSE

CONSTANTS
  None = None
  Invalid = Invalid
  Host = {"east"}
  Fan = {0}
  Speeds = {}
  FaultKinds = {"unsent"}
  MaxFaults = 0
  MaxRestarts = 0
  Configs <- JustOneFan
  Initial <- OneFan
  Temps = {30, 90}
  Reloaders = {}
  Interactive = FALSE
  MayStop = TRUE
  MaxCrashes = 0
  MaxEdits = 0
SPECIFICATION Spec
INVARIANT
  StopWindsDown
CHECK_DEADLOCK FALSE

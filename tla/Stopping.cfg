\* A stop, a BMC that is reset or upgraded, a failing command, replies about another fan only.
CONSTANTS
  None = None
  Invalid = Invalid
  Host = {"east"}
  Fan = {0, 1}
  Speeds = {}
  FaultKinds = {"unsent"}
  MaxFaults = 1
  MaxRestarts = 1
  Configs <- JustOneFan
  Initial <- OneFan
  Temps = {30, 61}
  Reloaders = {}
  Interactive = FALSE
  MayStop = TRUE
  MaxCrashes = 1
  MaxEdits = 0
SPECIFICATION FairSpec
PROPERTIES
  StopStops
  
CHECK_DEADLOCK FALSE

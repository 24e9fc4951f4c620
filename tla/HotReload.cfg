\* Reloads by SIGHUP and by the watcher at every point of a cycle, and a BMC reset.
CONSTANTS
  None = None
  Invalid = Invalid
  Host = {"east", "west"}
  Fan = {0, 1}
  Speeds = {}
  FaultKinds = {"unsent"}
  MaxFaults = 0
  MaxRestarts = 1
  Configs <- BmcChanges
  Initial <- OneFan
  Temps = {90}
  Reloaders = {"watch", "hup"}
  Interactive = FALSE
  MayStop = FALSE
  MaxCrashes = 0
  MaxEdits = 1
SPECIFICATION Spec
INVARIANTS
  FloorsWithinOwnLimits
  SettledFansAreRemembered
  

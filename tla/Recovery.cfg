\* An edit that takes a fan out or breaks the file, a failing command or a dropped session.
CONSTANTS
  None = None
  Invalid = Invalid
  Host = {"east"}
  Fan = {0, 1}
  Speeds = {}
  FaultKinds = {"unsent"}
  MaxFaults = 1
  MaxRestarts = 0
  Configs <- FanComesAndGoes
  Initial <- OneZone
  Temps = {30, 61}
  Reloaders = {"watch"}
  Interactive = FALSE
  MayStop = FALSE
  MaxCrashes = 1
  MaxEdits = 1
SPECIFICATION FairSpec
PROPERTIES
  
  FloorsEventuallyComeDown
  DroppedFansAreForgotten
CHECK_DEADLOCK FALSE

\* The cycle and its read-back by themselves, in the daemon: two zones, fans that
\* spool up, a failing command or handshake.
CONSTANTS
  None = None
  Invalid = Invalid
  Host = {"east"}
  Fan = {0, 1}
  Speeds = {50}
  FaultKinds = {"unsent"}
  MaxFaults = 1
  MaxRestarts = 0
  Configs <- JustTwoZones
  Initial <- TwoZones
  Temps = {30, 60, 61, 90}
  Reloaders = {}
  Interactive = FALSE
  MayStop = FALSE
  MaxCrashes = 1
  MaxEdits = 0
SPECIFICATION Spec
INVARIANTS
  TypeOK
  
  
  
PROPERTY
  FloorsFallSlowly

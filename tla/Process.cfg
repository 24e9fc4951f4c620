\* The service, two displays and a viewer, started and left in any order, one SIGKILL.
CONSTANTS
  None = None
  Daemon = {service}
  Tui = {first, second}
  Viewer = {watcher}
  MaxKills = 1
SPECIFICATION FairSpec
INVARIANTS
  ProcessTypeOK
  OneWriter
  
PROPERTY
  QuittingEnds

\* Both kinds of display, scrapes between any two writes of the loop, and an edit.
CONSTANTS
  None = None
  Unread = Unread
  Fan = {0}
  Label = {1}
  Configs <- CurvesChanged
  Initial <- OneFan
  Modes = {"direct", "attached"}
  Reloaders = {"hup"}
  Stamps = 2
  HistLen = 2
  MaxEdits = 1
SPECIFICATION FairSpec
INVARIANTS
  DisplayTypeOK
  
  OnePointPerCycle
PROPERTIES
  AlarmsAreTrue
  AlarmReachesTheScreen
  OtherConfigIsNoticed

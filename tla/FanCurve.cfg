CONSTANTS
  Degrees = {2, 4, 5, 9}
  Floors = {0, 11, 12, 50, 100}
  Hottest = 11
SPECIFICATION Spec
INVARIANTS
  DemandLiesOnTheCurve
  DemandStaysBetweenEnds
  CommandIsNearestStep
PROPERTY
  HotterNeverLowersCommand
CHECK_DEADLOCK FALSE

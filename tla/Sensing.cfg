\* Two groups, one of discovered drives, and edits that take a group out and back.
CONSTANTS
  None = None
  Dead = Dead
  Gone = Gone
  Group = {"cpu", "drives"}
  Source = {"p1", "sda", "sdb"}
  Temps = {40, 80}
  Configs <- AllThree
  Initial <- Both
  Reloaders = {"watch"}
  Elapsed = {0, 1}
  MaxAge = 4
  MaxEdits = 2
SPECIFICATION Spec
INVARIANTS
  SensingTypeOK
  ValuesAreFresh
  NoStaleGauge
PROPERTY
  BlindUntilRead

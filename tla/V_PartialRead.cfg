\* One drive of two cannot be read.
CONSTANTS
  None = None
  Dead = Dead
  Gone = Gone
  Group = {"cpu", "drives"}
  Source = {"p1", "sda", "sdb"}
  Temps = {40, 80}
  Configs <- AllThree
  Initial <- Both
  Reloaders = {}
  Elapsed = {0, 1}
  MaxAge = 4
  MaxEdits = 0
SPECIFICATION Spec
INVARIANT PartialReadsCount

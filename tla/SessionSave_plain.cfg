SPECIFICATION PlainSpec
CONSTANTS
  Workers = {w1, w2}
  Ui = ui
  None = None
  MaxTries = 2
  KeyModes = {FALSE}
  CanDelete = FALSE
  MaxTurns = 3
  MaxFaults = 4
  MaxCrashes = 1
  MaxRenames = 0
INVARIANTS TypeOK AlwaysReadable  KeepsItsName
PROPERTIES TurnsStay 
CHECK_DEADLOCK FALSE

INIT Init
NEXT Next
CONSTANTS
  HISTORY_SNAPSHOTS_KEEP = 2
  MaxTexts = 3
  MaxStamps = 6
  None = None
PROPERTIES RevertRestores
CHECK_DEADLOCK FALSE

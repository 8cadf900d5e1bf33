INIT Init
NEXT Next
CONSTANTS
  Main = m
  Sub = s
  Tabs = {m}
  MaxMessages = 3
  MaxClicks = 2
INVARIANTS OwnText
CHECK_DEADLOCK FALSE

SPECIFICATION Spec
CONSTANTS
  m1 = m1
  m2 = m2
  m3 = m3
  NoRun = NoRun
PROPERTIES SpinnerStops QueueFlows

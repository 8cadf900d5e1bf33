SPECIFICATION AwakeSpec
CONSTANTS
  Messages = {m1, m2}
  Typed = {m1, m2}
  Hosted = {}
  Returned = {}
  NoRun = NoRun
  WithStop = FALSE
  WithPanic = FALSE
PROPERTIES InjectedIsAnswered

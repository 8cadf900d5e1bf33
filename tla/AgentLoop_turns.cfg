SPECIFICATION Spec
CONSTANTS
  Notes = {n1, n2}
  NoteCap = 1
  MaxDepth = 1
  MaxAttempts = 1
  MaxCalls = 2
  MaxTurns = 2
  MaxMessages = 3
  MaxLate = 1
  WithInject = TRUE
  WithPolish = FALSE
INVARIANTS TypeOK RequestsInStep NotesSurvive EndsInOrder
PROPERTIES TaskStays
SYMMETRY NoteSymmetry
CHECK_DEADLOCK FALSE

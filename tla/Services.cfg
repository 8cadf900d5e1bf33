SPECIFICATION Spec
CONSTANTS
  None = None
  Tools = {t1}
  Slots = {s1, s2}
  MaxClients = 2
  MaxOps = 2
  Callers = {k1, k2}
  MaxChildren = 2
  MaxCalls = 4
  MaxProcesses = 3
  MaxSnapshots = 3
  Calls = {c1, c2}
  MaxEvents = 2
  MAX_OUTPUT_SIZE = 1
  MaxChunks = 2
INVARIANTS McpConsistent OwnAnswerOrError StatusBarTruthful CommandsSound
PROPERTIES WaitsEnd
CHECK_DEADLOCK FALSE

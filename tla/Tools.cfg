INIT Init
NEXT Next
CONSTANTS
  NoOne = NoOne
  Ids = {i1, i2}
  MaxFrames = 4
  Callers = {k1, k2}
  Words = {"x", "y"}
  MaxLines = 3
  MAX_LINES = 2
  Calls = {c1, c2}
  Alphabets = {{"2", ".", "e", "-", "0"}, {"2", "1", "^", "-", "/"}, {"2", "(", ")", "-", "r"}, {"1", "2", "(", ")", "f", "+"}, {"2", "|", "x", " ", ">", "-"}}
  MaxText = 5
  Backends = {"Auto", "searxng"}
  Queries = {q1, q2}
  Limits = {1}
  Ttl = 1
  MaxTime = 1
  MaxAsked = 2
  ItemKinds = {"good", "nolink"}
  MaxItems = 1
  Parts = {"word", "line", "less", "amp", "bold", "script", "header", "head"}
  MaxParts = 4
  Sessions = {sa, sb}
  MaxProcesses = 3
  MaxAsks = 2
  Dirs = {d1, d2}
  Default = d1
  Scanners = {s1, s2}
  Turns = {r}
  MaxBuilds = 1
INVARIANTS LlmFaithful ToolsRight
CHECK_DEADLOCK FALSE

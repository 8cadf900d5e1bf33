SPECIFICATION Spec
CONSTANTS
  Chats = {c, d}
  Sessions = {s, t}
  MaxUpdates = 2
  MaxStarts = 2
  MaxRuns = 2
  Overlaps = FALSE
  MaxMishaps = 1
  Themes = {1, 2}
  Presets = {p}
  Selections = {x}
  Servers = {m}
  MaxEdits = 3
  MaxStops = 1
  Ids = {i}
  NoId = NoId
  None = None
  MaxRounds = 2
  MaxCalls = 1
  MaxIds = 3
  Titles = {"a", ""}
  MaxTurns = 1
  MaxListClicks = 5
  Runs = {r, s2}
  Hours = 2
  MaxLines = 2
  MaxTicks = 3
  MaxCut = 1
  Main = m1
  Sub = m2
  Tabs = {m1, m2}
  MaxMessages = 3
  MaxClicks = 3
  MaxOffers = 2
  MaxPicks = 2
  MaxTrouble = 1
  MaxUserSteps = 3
  MaxFails = 1
  Vocabulary = {a, ab, the}
  Noise = {the}
  Stem = a
  Derived = ab
  TextLength = 2
  Room = 2
  MaxMemories = 3
  MaxPanelSteps = 3
  MaxAgentSteps = 1
  MaxUnsaved = 1
SYMMETRY Symmetry
INVARIANTS BotSound  CallsReached ScreensTrue
CHECK_DEADLOCK FALSE

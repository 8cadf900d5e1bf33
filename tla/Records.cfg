SPECIFICATION Spec
CONSTANTS
  NoProfile = NoProfile
  Agents = {a, b}
  Actors = {p, q}
  Topics = {t, u}
  Versions = {v1, v2}
  Texts = {{f, g, h, i}, {j}, {k}}
  Writers = {w, x}
  Runs = {r, s}
  Callers = {c, d}
  HISTORY_SNAPSHOTS_KEEP = 1
  MaxTexts = 2
  MaxStamps = 4
  Cooldown = 1
  MinInterval = 0
  MaxTasks = 2
  MaxTime = 3
  MaxFaults = 1
  MaxBatches = 2
  MaxEntries = 3
  BatchSize = 2
  MaxIds = 4
  MaxChanges = 2
  MaxActions = 1
  Retention = 1
  MaxHalves = 6
  MaxLogged = 2
  MaxCuts = 1
  SkillHistory = 1
  MaxSaves = 3
  MaxCopies = 3
  MaxBreaks = 1
  Savers = {w1, w2}
  EvalNames = {n1, n2}
  MaxDeeds = 3
  ReadFiles = {f1, f2}
  Large = {f2}
  MaxCalls = 3
  MaxTrims = 2
  UserTexts = {1, 2}
  NOTES_MAX_ITEMS = 1
  LIST_MAX_ITEMS = 2
  NoteIds = 1
  BriefItems = 5
  MaxMessages = 4
INVARIANTS PromptsKept KnowledgeKept  CountsRight
CHECK_DEADLOCK FALSE

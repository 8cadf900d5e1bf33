------------------------------ MODULE MC_Desktop ------------------------------
(***************************************************************************)
(* The desktop around a chat, side by side: the Telegram bot, the one      *)
(* configuration file, two rounds of a run that reuse a call id, whose     *)
(* cards' Stop buttons must find their calls, the chat column, the list of *)
(* sessions, the usage panel, the items of the improvement panel, the MCP  *)
(* panel, the memory panel and what is recalled. Each behaviour is one of  *)
(* one part, the variable part says which. No part reads a variable of     *)
(* another. What they do share is config.json, which the dialogs and the   *)
(* session, MCP and memory panels each write whole: in each part the       *)
(* writes of the others are an action of its environment.                  *)
(***************************************************************************)
EXTENDS Naturals, Sequences, FiniteSets, TLC

CONSTANTS
  Chats, Sessions, MaxUpdates, MaxStarts, MaxRuns, Overlaps, MaxMishaps,
  Themes, Presets, Selections, Servers, MaxEdits, MaxStops, Ids, NoId, None,
  MaxRounds, MaxCalls, MaxIds, Titles, MaxTurns, MaxListClicks, Runs, Hours,
  MaxLines, MaxTicks, MaxCut, Main, Sub, Tabs, MaxMessages, MaxClicks,
  MaxOffers, MaxPicks, MaxTrouble, MaxUserSteps, MaxFails, Vocabulary, Noise,
  Stem, Derived, TextLength, Room, MaxMemories, MaxPanelSteps, MaxAgentSteps,
  MaxUnsaved

ASSUME IdAssumption == NoId \notin Ids
ASSUME NoneAssumption == None \notin (1..MaxRounds) \X (1..MaxCalls)
ASSUME BoundAssumption ==
  /\ {MaxRounds, MaxCalls, MaxIds} \subseteq Nat \ {0}
  /\ {MaxUpdates, MaxStarts, MaxRuns, MaxMishaps} \subseteq Nat /\ Overlaps \in BOOLEAN

VARIABLES part,
  inbox, state, slot, tx, bots, sessions, cmds, runs, lost, shared, handled,
  overlap, wrong, stale, forgot, runCount, mishaps,
  file, live, panelCopy, draft, form, manager, presets, pending, tool,
  events, chosen, clash, edits, stops,
  entry, conf1, disk, older, panelJob, late, dlg, deleting, agent, changed,
  strayed, userSteps, fails,
  pc, round, attempt, outcome, text, calls, pos, handle, map, task, body,
  result, registry, cancelled, stopped, asked, stored,
  files, out, list, picked, renaming, dialog, creating, runtimes, shown,
  tabs, front, confs, made, listClicks, heard, orphan, unmade,
  usage, run, recorded, told, usagePanel, drawing, dash, ticks, lines,
  disturbed,
  profile, chat, fresh, skill, past, item, facts, lessons, unticked, typed,
  did, offers, picks, trouble,
  memories, settings, keptSettings, replaced, astray, search, memoryEditor,
  doomed, misplaced, mistaken, nextMemory, panelSteps, agentSteps, unsaved,
  display, store, coming, queued, gen, born, phase, tab, view, dirty,
  editing, ratings, comment, clicks, cut, misfiled, torn

Bot == INSTANCE TelegramBot
Conf == INSTANCE ConfigFile WITH
  Picks <- Selections
Mcp == INSTANCE McpPanel WITH
  conf <- conf1
Reuse == INSTANCE ToolRuns
List == INSTANCE SessionList WITH
  store <- runtimes, tab <- front, clicks <- listClicks,
  MaxClicks <- MaxListClicks
Views == INSTANCE UsageViews WITH
  panel <- usagePanel
Item == INSTANCE Approval
Recall == INSTANCE MemoryPanel WITH
  kept <- keptSettings, editor <- memoryEditor
Chat == INSTANCE ChatView

\* A bot that has no chat at work is told from one that has.
ASSUME ChatAssumption == Bot!NoChat \notin Chats

telegramVars ==
  <<inbox, state, slot, tx, bots, sessions, cmds, runs, lost, shared,
    handled, overlap, wrong, stale, forgot, runCount, mishaps>>
configVars ==
  <<file, live, panelCopy, draft, form, manager, presets, pending, tool,
    events, chosen, clash, edits, stops>>
mcpVars ==
  <<entry, conf1, disk, older, panelJob, late, dlg, deleting, agent, changed,
    strayed, userSteps, fails>>
roundsVars ==
  <<pc, round, attempt, outcome, text, calls, pos, handle, map, task, body,
    result, registry, cancelled, stopped, asked, stored>>
listVars ==
  <<files, out, list, picked, renaming, dialog, creating, runtimes, shown,
    tabs, front, confs, made, listClicks, heard, orphan, unmade>>
usageVars ==
  <<usage, run, recorded, told, usagePanel, drawing, dash, ticks, lines,
    disturbed>>
approvalVars ==
  <<profile, chat, fresh, skill, past, item, facts, lessons, unticked, typed,
    did, offers, picks, trouble>>
recallVars ==
  <<memories, settings, keptSettings, replaced, astray, search, memoryEditor,
    doomed, misplaced, mistaken, nextMemory, panelSteps, agentSteps, unsaved>>
columnVars ==
  <<display, store, coming, queued, gen, born, phase, tab, view, dirty,
    editing, ratings, comment, clicks, cut, misfiled, torn>>
vars ==
  <<part, telegramVars, configVars, mcpVars, roundsVars, listVars, usageVars,
    approvalVars, recallVars, columnVars>>

\* A part that stands still: its variables are of no interest.
Init ==
  /\ part \in {"telegram", "config", "mcp", "rounds", "list", "usage", "approval", "recall", "column"}
  /\ IF part = "telegram" THEN Bot!Init
     ELSE inbox = 0 /\ state = 0 /\ slot = 0 /\ tx = 0 /\ bots = 0 /\
          sessions = 0 /\ cmds = 0 /\ runs = 0 /\ lost = 0 /\ shared = 0 /\
          handled = 0 /\ overlap = 0 /\ wrong = 0 /\ stale = 0 /\
          forgot = 0 /\ runCount = 0 /\ mishaps = 0
  /\ IF part = "config" THEN Conf!Init
     ELSE file = 0 /\ live = 0 /\ panelCopy = 0 /\ draft = 0 /\ form = 0 /\
          manager = 0 /\ presets = 0 /\ pending = 0 /\ tool = 0 /\
          events = 0 /\ chosen = 0 /\ clash = 0 /\ edits = 0 /\ stops = 0
  /\ IF part = "mcp" THEN Mcp!Init
     ELSE entry = 0 /\ conf1 = 0 /\ disk = 0 /\ older = 0 /\
          panelJob = 0 /\ late = 0 /\ dlg = 0 /\ deleting = 0 /\ agent = 0 /\ changed = 0 /\
          strayed = 0 /\ userSteps = 0 /\ fails = 0
  /\ IF part = "rounds" THEN Reuse!Init
     ELSE pc = 0 /\ round = 0 /\ attempt = 0 /\ outcome = 0 /\ text = 0 /\
          calls = 0 /\ pos = 0 /\ handle = 0 /\ map = 0 /\ task = 0 /\
          body = 0 /\ result = 0 /\ registry = 0 /\ cancelled = 0 /\
          stopped = 0 /\ asked = 0 /\ stored = 0
  /\ IF part = "list" THEN List!Init
     ELSE files = 0 /\ out = 0 /\ list = 0 /\ picked = 0 /\ renaming = 0 /\
          dialog = 0 /\ creating = 0 /\ runtimes = 0 /\ shown = 0 /\
          tabs = 0 /\ front = 0 /\ confs = 0 /\ made = 0 /\ listClicks = 0 /\
          heard = 0 /\ orphan = 0 /\ unmade = 0
  /\ IF part = "usage" THEN Views!Init
     ELSE usage = 0 /\ run = 0 /\ recorded = 0 /\ told = 0 /\
          usagePanel = 0 /\ drawing = 0 /\ dash = 0 /\ ticks = 0 /\
          lines = 0 /\ disturbed = 0
  /\ IF part = "approval" THEN Item!Init
     ELSE profile = 0 /\ chat = 0 /\ fresh = 0 /\ skill = 0 /\ past = 0 /\
          item = 0 /\ facts = 0 /\ lessons = 0 /\ unticked = 0 /\
          typed = 0 /\ did = 0 /\ offers = 0 /\ picks = 0 /\ trouble = 0
  /\ IF part = "recall" THEN Recall!Init
     ELSE memories = 0 /\ settings = 0 /\ keptSettings = 0 /\ replaced = 0 /\
          astray = 0 /\ search = 0 /\
          memoryEditor = 0 /\ doomed = 0 /\ misplaced = 0 /\ mistaken = 0 /\
          nextMemory = 0 /\ panelSteps = 0 /\ agentSteps = 0 /\ unsaved = 0
  /\ IF part = "column" THEN Chat!Init
     ELSE display = 0 /\ store = 0 /\ coming = 0 /\ queued = 0 /\ gen = 0 /\
          born = 0 /\ phase = 0 /\ tab = 0 /\ view = 0 /\ dirty = 0 /\
          editing = 0 /\ ratings = 0 /\ comment = 0 /\ clicks = 0 /\
          cut = 0 /\ misfiled = 0 /\ torn = 0

Next ==
  \/ /\ part = "telegram" /\ Bot!Next
     /\ UNCHANGED <<part, configVars, mcpVars, roundsVars, listVars, usageVars,
                  approvalVars, recallVars, columnVars>>
  \/ /\ part = "config" /\ Conf!Next
     /\ UNCHANGED <<part, telegramVars, mcpVars, roundsVars, listVars,
                  usageVars, approvalVars, recallVars, columnVars>>
  \/ /\ part = "mcp" /\ Mcp!Next
     /\ UNCHANGED <<part, telegramVars, configVars, roundsVars, listVars,
                  usageVars, approvalVars, recallVars, columnVars>>
  \/ /\ part = "rounds" /\ Reuse!Next
     /\ UNCHANGED <<part, telegramVars, configVars, mcpVars, listVars,
                  usageVars, approvalVars, recallVars, columnVars>>
  \/ /\ part = "list" /\ List!Next
     /\ UNCHANGED <<part, telegramVars, configVars, mcpVars, roundsVars,
                  usageVars, approvalVars, recallVars, columnVars>>
  \/ /\ part = "usage" /\ Views!Next
     /\ UNCHANGED <<part, telegramVars, configVars, mcpVars, roundsVars,
                  listVars, approvalVars, recallVars, columnVars>>
  \/ /\ part = "approval" /\ Item!Next
     /\ UNCHANGED <<part, telegramVars, configVars, mcpVars, roundsVars,
                  listVars, usageVars, recallVars, columnVars>>
  \/ /\ part = "recall" /\ Recall!Next
     /\ UNCHANGED <<part, telegramVars, configVars, mcpVars, roundsVars,
                  listVars, usageVars, approvalVars, columnVars>>
  \/ /\ part = "column" /\ Chat!Next
     /\ UNCHANGED <<part, telegramVars, configVars, mcpVars, roundsVars,
                  listVars, usageVars, approvalVars, recallVars>>

Spec == Init /\ [][Next]_vars

\* For TLC: chats and sessions of the bot are interchangeable, and occur in no other part.
Symmetry == {p @@ q : p \in Permutations(Chats), q \in Permutations(Sessions)}

-----------------------------------------------------------------------------

\* A Telegram message is handled at most once, runs one turn at a time in its chat and
\* is answered in the chat that asked (the bot's poll loop and event relay).
BotSound == part = "telegram" => Bot!BotSound

\* While no two writers meet, the configuration file holds what was last chosen
\* (WuffConfig::save, the dialogs, the panel, the MCP tools); the servers of the MCP panel,
\* of the manager and of the file are the same, and a server is changed only by the click
\* or the tool that means it (McpPanel, sync_from_config); the sessions of the list, their
\* files and their runtimes go together, no turn lost (SessionsPanel,
\* apply_sessions_action, switch_session); what an approved suggestion changes is what was
\* ticked (apply_improvement_detailed).
FilesSound ==
  /\ part = "config" => Conf!ConfigSound
  /\ part = "mcp" => Mcp!PanelSound
  /\ part = "list" => List!SessionsSound
  /\ part = "approval" => Item!ApprovalSound

\* The Stop button of a card reaches the call of the card, although a later round
\* repeats its id (PendingToolRuns::start).
CallsReached == part = "rounds" => Reuse!AddressedById

\* What the chat column shows, and what a click on a message changes, is the message
\* meant; the usage panel shows each request once, and counts those of the hours of its
\* chart each in its hour; what the memory panel
\* changes is what it shows, and the block before a prompt holds the most fitting memories
\* (draw_chat_area, commit_message_edit, delete_message, UsageReader, MemoryPanel,
\* build_context_block).
ScreensTrue ==
  /\ part = "column" => Chat!ChatShown
  /\ part = "usage" => Views!UsageSound
  /\ part = "recall" => Recall!RecallSound

=============================================================================

------------------------------ MODULE ConfigFile ------------------------------
(***************************************************************************)
(* config.json and its copies: the application's, the sessions panel's,    *)
(* one shared by the settings and presets dialogs while they are open, and *)
(* the ones the MCP management tools read and write back from an agent's   *)
(* thread.  Each writer writes the whole configuration.  The preset store  *)
(* has a file and copies of its own.                                       *)
(***************************************************************************)
EXTENDS Naturals, FiniteSets

CONSTANTS
  Themes,     \* values of what the settings dialog edits
  Presets,    \* connections that can be loaded
  Picks,      \* sessions that can be selected
  Servers,    \* MCP servers
  MaxEdits,   \* bound: changes by the user and the tools
  MaxStops    \* bound: crashes, restarts and writes that fail

Nothing == [theme |-> CHOOSE t \in Themes : TRUE, conn |-> "default", sess |-> "first", mcp |-> {}]
Closed == [closed |-> TRUE]
TornFile == [torn |-> TRUE]

VARIABLES
  file,      \* config.json, or torn while it is written in place
  live,      \* the application's configuration
  panelCopy, \* the sessions panel's, taken when it was made
  draft,     \* the one shared by the dialogs while one is open
  form,      \* the settings dialog: closed, or its theme and its view of the presets
  manager,   \* the presets dialog: closed, or its view of the presets
  presets,   \* presets.json
  pending,   \* what the UI thread is writing, or closed
  tool,      \* per tool (add, remove): idle, or the configuration it read
  events,    \* McpConfigChanged events not yet handled
  chosen,    \* the theme and the servers as last chosen
  clash,     \* writers met: the file and the application may differ
  edits, stops

configVars == <<file, live, panelCopy, draft, form, manager, presets, pending, tool, events,
                chosen, clash, edits, stops>>

Tools == {"add", "remove"}
Idle == [pc |-> "idle"]
Free == pending = Closed
Edit == edits < MaxEdits /\ edits' = edits + 1
Open == draft # Closed

(* ---- the frame of the UI thread ---- *)

\* Wrong: only a dialog that stays open is copied.
OpenOnlyVariant(conf, before, dialog) == IF dialog # Closed THEN dialog ELSE conf
\* sync_live_config, every frame: the draft of a dialog that is open, or was closed in
\* this frame, replaces the application's configuration.
Synced(conf, before, dialog) ==
  IF dialog # Closed THEN dialog ELSE IF before # Closed THEN before ELSE conf

\* The toggle of the status bar.
TogglesTheme ==
  /\ Free /\ Edit
  /\ \E t \in Themes \ {live.theme} :
       /\ LET conf == [live EXCEPT !.theme = t] IN
          /\ live' = Synced(conf, draft, draft)
          /\ pending' = conf /\ file' = TornFile
          /\ clash' = (clash \/ Open \/ events > 0 \/ \E x \in Tools : tool[x].pc # "idle")
       /\ chosen' = [chosen EXCEPT !.theme = IF Open THEN @ ELSE t]
  /\ UNCHANGED <<panelCopy, draft, form, manager, presets, tool, events, stops>>

\* show_settings_dialog: the draft of the presets dialog is used when that is open, but
\* the presets are read from their file again.
OpensSettings ==
  /\ Free /\ form = Closed
  /\ draft' = IF Open THEN draft ELSE live
  /\ form' = [theme |-> draft'.theme, presets |-> presets, same |-> FALSE]
  /\ UNCHANGED <<file, live, panelCopy, manager, presets, pending, tool, events, chosen, clash, edits, stops>>

\* The presets dialog is opened from the settings and shares both with them.
OpensPresets ==
  /\ Free /\ form # Closed /\ manager = Closed
  /\ manager' = [store |-> form.presets]
  /\ form' = [form EXCEPT !.same = TRUE]
  /\ UNCHANGED <<file, live, panelCopy, draft, presets, pending, tool, events, chosen, clash, edits, stops>>

\* SettingsDialog::save: the preset picked in the list, if any, is applied, the fields of
\* the form are written over it, and the dialog closes.
SavesSettings(theme, preset) ==
  LET conf == [draft EXCEPT !.theme = theme, !.conn = IF preset = "default" THEN @ ELSE preset] IN
  /\ Free /\ form # Closed /\ Edit
  /\ theme = form.theme \/ theme \in Themes
  /\ preset \in form.presets \cup {"default"}
  /\ form' = Closed
  /\ draft' = IF manager = Closed THEN Closed ELSE conf
  /\ live' = Synced(live, conf, draft')
  /\ pending' = conf /\ file' = TornFile
  /\ chosen' = [chosen EXCEPT !.theme = theme]
  /\ clash' = (clash \/ events > 0 \/ (\E x \in Tools : tool[x].pc # "idle"))
  /\ UNCHANGED <<panelCopy, manager, presets, tool, events, stops>>

ClosesSettings ==
  /\ Free /\ form # Closed
  /\ form' = Closed
  /\ draft' = IF manager = Closed THEN Closed ELSE draft
  /\ live' = Synced(live, draft, draft')
  /\ UNCHANGED <<file, panelCopy, manager, presets, pending, tool, events, chosen, clash, edits, stops>>

\* Load applies a preset to the draft and saves that.
LoadsPreset(p) ==
  LET conf == [draft EXCEPT !.conn = p] IN
  /\ Free /\ manager # Closed /\ p \in manager.store /\ Edit
  /\ draft' = conf
  /\ live' = Synced(live, draft, conf)
  /\ pending' = conf /\ file' = TornFile
  /\ clash' = (clash \/ events > 0 \/ \E x \in Tools : tool[x].pc # "idle")
  /\ UNCHANGED <<panelCopy, form, manager, presets, tool, events, chosen, stops>>

\* Add and Delete change the shared store; it is written when the dialog closes.
EditsPresets(p) ==
  LET old == manager.store
      store == IF p \in old THEN old \ {p} ELSE old \cup {p} IN
  /\ Free /\ manager # Closed /\ Edit
  /\ manager' = [store |-> store]
  /\ form' = IF form # Closed /\ form.same THEN [form EXCEPT !.presets = store] ELSE form
  /\ UNCHANGED <<file, live, panelCopy, draft, presets, pending, tool, events, chosen, clash, stops>>

ClosesPresets ==
  /\ Free /\ manager # Closed
  /\ \/ presets' = manager.store /\ stops' = stops
     \/ presets' = presets /\ stops < MaxStops /\ stops' = stops + 1
  /\ manager' = Closed
  /\ draft' = IF form = Closed THEN Closed ELSE draft
  /\ live' = Synced(live, draft, draft')
  /\ UNCHANGED <<file, panelCopy, form, pending, tool, events, chosen, clash, edits>>

\* A session is selected: the panel saves the copy it was made with.
SelectsSession(s) ==
  /\ Free /\ s # panelCopy.sess /\ Edit
  /\ panelCopy' = [panelCopy EXCEPT !.sess = s]
  /\ pending' = panelCopy' /\ file' = TornFile
  /\ clash' = (clash \/ panelCopy' # live \/ events > 0 \/ \E x \in Tools : tool[x].pc # "idle")
  /\ UNCHANGED <<live, draft, form, manager, presets, tool, events, chosen, stops>>

\* A server is added or edited in the MCP panel: the application's copy is changed and
\* saved; while a dialog is open the next frame takes the change away again.
PanelAddsServer(s) ==
  LET conf == [live EXCEPT !.mcp = @ \cup {s}] IN
  /\ Free /\ s \notin live.mcp /\ Edit
  /\ live' = Synced(conf, draft, draft)
  /\ pending' = conf /\ file' = TornFile
  /\ clash' = (clash \/ Open \/ events > 0 \/ \E x \in Tools : tool[x].pc # "idle")
  /\ chosen' = [chosen EXCEPT !.mcp = IF Open THEN @ ELSE conf.mcp]
  /\ UNCHANGED <<panelCopy, draft, form, manager, presets, tool, events, stops>>

\* save, by the framework now and then and at the exit.
AutoSaves ==
  /\ Free
  /\ pending' = live /\ file' = TornFile
  /\ clash' = (events > 0 \/ \E x \in Tools : tool[x].pc # "idle")
  /\ chosen' = IF clash THEN [chosen EXCEPT !.mcp = live.mcp] ELSE chosen
  /\ UNCHANGED <<live, panelCopy, draft, form, manager, presets, tool, events, edits, stops>>

\* The write of the UI thread is complete, or the disk refuses it.
Written ==
  /\ pending # Closed
  /\ \/ file' = pending /\ UNCHANGED <<clash, stops>>
     \/ stops < MaxStops /\ stops' = stops + 1 /\ file' = file /\ clash' = TRUE
  /\ pending' = Closed
  /\ UNCHANGED <<live, panelCopy, draft, form, manager, presets, tool, events, chosen, edits>>

\* Wrong: the event is taken without reading the file.
IgnoresVariant(conf) == conf
\* McpConfigChanged: the list of servers is read from the file, which may be unreadable.
Reloaded(conf) == IF file = TornFile THEN conf ELSE [conf EXCEPT !.mcp = file.mcp]

HandlesChanged ==
  /\ events > 0 /\ Free
  /\ events' = events - 1
  /\ live' = Synced(Reloaded(live), draft, draft)
  /\ clash' = (clash \/ Open \/ file = TornFile)
  /\ UNCHANGED <<file, panelCopy, draft, form, manager, presets, pending, tool, chosen, edits, stops>>

(* ---- the tools, on the threads of agents ---- *)

\* update_mcp_servers_in_config: a file that cannot be read is taken for the defaults.
\* Each of the two tools locks out only itself.
ToolReads(t, s) ==
  /\ tool[t] = Idle /\ Edit
  /\ tool' = [tool EXCEPT ![t] = [pc |-> "read", server |-> s,
                                  conf |-> IF file = TornFile THEN Nothing ELSE file]]
  /\ clash' = (clash \/ pending # Closed \/ (\E x \in Tools \ {t} : tool[x].pc # "idle"))
  /\ UNCHANGED <<file, live, panelCopy, draft, form, manager, presets, pending, events, chosen, stops>>

\* Wrong: the tool writes the list alone, and the rest as it is by default.
ListOnlyVariant(t) ==
  [Nothing EXCEPT !.mcp = IF t = "add" THEN tool[t].conf.mcp \cup {tool[t].server}
                          ELSE tool[t].conf.mcp \ {tool[t].server}]
Changed(t) ==
  [tool[t].conf EXCEPT !.mcp = IF t = "add" THEN @ \cup {tool[t].server} ELSE @ \ {tool[t].server}]

\* atomic_write_config and the event to the UI.
ToolWrites(t) ==
  /\ tool[t].pc = "read"
  /\ \/ file' = Changed(t) /\ UNCHANGED stops
     \/ stops < MaxStops /\ stops' = stops + 1 /\ UNCHANGED file
  /\ chosen' = [chosen EXCEPT !.mcp = IF file' = file THEN @ ELSE Changed(t).mcp]
  /\ clash' = (clash \/ pending # Closed)
  /\ tool' = [tool EXCEPT ![t] = Idle]
  /\ events' = events + 1
  /\ UNCHANGED <<live, panelCopy, draft, form, manager, presets, pending, edits>>

\* The process ends, cleanly after a save or by a crash, and starts again: all copies are
\* what the file says, or the defaults.
Restarts ==
  /\ stops < MaxStops /\ stops' = stops + 1
  /\ live' = IF file = TornFile THEN Nothing ELSE file
  /\ panelCopy' = live'
  /\ draft' = Closed /\ form' = Closed /\ manager' = Closed /\ pending' = Closed
  /\ tool' = [t \in Tools |-> Idle]
  /\ events' = 0
  /\ chosen' = IF clash \/ file = TornFile THEN [theme |-> live'.theme, mcp |-> live'.mcp] ELSE chosen
  /\ clash' = (clash \/ file = TornFile)
  /\ UNCHANGED <<file, presets, edits>>

Init ==
  /\ file = Nothing /\ live = Nothing /\ panelCopy = Nothing
  /\ draft = Closed /\ form = Closed /\ manager = Closed /\ pending = Closed
  /\ presets \in {{}, Presets}
  /\ tool = [t \in Tools |-> Idle]
  /\ events = 0
  /\ chosen = [theme |-> Nothing.theme, mcp |-> {}]
  /\ clash = FALSE
  /\ edits = 0 /\ stops = 0

Next ==
  \/ TogglesTheme \/ OpensSettings \/ OpensPresets \/ ClosesSettings \/ ClosesPresets
  \/ \E t \in Themes, p \in Presets \cup {"default"} : SavesSettings(t, p)
  \/ \E p \in Presets : LoadsPreset(p) \/ EditsPresets(p)
  \/ \E s \in Picks : SelectsSession(s)
  \/ \E s \in Servers : PanelAddsServer(s) \/ \E t \in Tools : ToolReads(t, s)
  \/ \E t \in Tools : ToolWrites(t)
  \/ AutoSaves \/ Written \/ HandlesChanged \/ Restarts

Spec == Init /\ [][Next]_configVars

-----------------------------------------------------------------------------
\* The theme chosen last is the one in use, also in the frame in which the dialog closes
\* that chose it, and after a restart unless writers had met.
ChoiceLives == live.theme = chosen.theme

\* When no writer is at work and none has met another since the application last saved,
\* the file says what the application uses, however tools, dialogs and restarts alternate.
FileInStep ==
  (Free /\ events = 0 /\ ~clash /\ \A t \in Tools : tool[t] = Idle) => file = live /\ live.mcp = chosen.mcp

ConfigSound == ChoiceLives /\ FileInStep

\* Stated, and not so: "Update config so the selected session is loaded on next app start"
\* (sessions_panel.rs); the save at the exit writes the session of the start again.
SelectionKept ==
  [][(AutoSaves /\ panelCopy.sess # "first") => pending'.sess = panelCopy.sess]_configVars

=============================================================================

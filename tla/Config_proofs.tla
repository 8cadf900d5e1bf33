---------------------------- MODULE Config_proofs ----------------------------
(***************************************************************************)
(* Theorems about the files of the desktop: the one configuration with a   *)
(* whole copy at each writer (ConfigFile), the servers of the MCP panel,   *)
(* which the manager, the application's list and the file keep (McpPanel), *)
(* the sessions with their files and runtimes (SessionList), and what an   *)
(* approved suggestion writes (Approval).                                  *)
(***************************************************************************)
EXTENDS MC_Desktop, SequenceTheorems, FiniteSetTheorems, WellFoundedInduction, TLAPS

-----------------------------------------------------------------------------
(* The file and its copies.                                                *)

Looks == Themes \cup {Conf!Nothing.theme}
ConfType ==
  [theme : Looks, conn : Presets \cup {"default"}, sess : Selections \cup {"first"},
   mcp : SUBSET Servers]
ToolType == [pc : {"read"}, server : Servers, conf : ConfType]

\* A dialog that is open has the draft.
ConfTypeOK ==
  /\ live \in ConfType /\ panelCopy \in ConfType
  /\ file \in ConfType \cup {Conf!TornFile}
  /\ draft \in ConfType \cup {Conf!Closed} /\ pending \in ConfType \cup {Conf!Closed}
  /\ form # Conf!Closed \/ manager # Conf!Closed => draft # Conf!Closed
  /\ tool \in [Conf!Tools -> ToolType \cup {Conf!Idle}]
  /\ events \in Nat
  /\ clash \in BOOLEAN
  /\ chosen \in [theme : Looks, mcp : SUBSET Servers]

\* The application has what the open dialogs show, and the theme chosen last.
DraftLives ==
  /\ draft # Conf!Closed => live = draft
  /\ live.theme = chosen.theme

ToolsIdle == \A t \in Conf!Tools : tool[t] = Conf!Idle
\* What the application writes is what it has, and nobody else writes.
WritesWhatIs ==
  pending # Conf!Closed =>
    /\ pending = live /\ file = Conf!TornFile
    /\ events = 0 /\ ToolsIdle /\ live.mcp = chosen.mcp
\* The file is what the application has but for the servers, which are the chosen ones and
\* on their way; one tool at a time has read it.
FileIsKnown ==
  pending = Conf!Closed =>
    /\ file # Conf!TornFile /\ file.mcp = chosen.mcp
    /\ [live EXCEPT !.mcp = file.mcp] = file
    /\ events = 0 => live = file
    /\ \A t \in Conf!Tools : tool[t] # Conf!Idle => tool[t].conf = file
    /\ \A t, u \in Conf!Tools : tool[t] # Conf!Idle /\ tool[u] # Conf!Idle => t = u

ConfInv == ConfTypeOK /\ DraftLives /\ (clash \/ (WritesWhatIs /\ FileIsKnown))

LEMMA NoConfigIsClosed ==
  /\ \A c \in ConfType : c # Conf!Closed /\ c # Conf!TornFile
  /\ \A t \in ToolType : t # Conf!Idle /\ t.pc # "idle"
  /\ Conf!Idle.pc = "idle"
<1>1. ASSUME NEW c \in ConfType PROVE c # Conf!Closed /\ c # Conf!TornFile
  <2>1. DOMAIN c = {"theme", "conn", "sess", "mcp"}
    BY DEF ConfType
  <2>2. DOMAIN Conf!Closed = {"closed"} /\ DOMAIN Conf!TornFile = {"torn"}
    BY DEF Conf!Closed, Conf!TornFile
  <2> QED
    BY <2>1, <2>2
<1>2. Conf!Idle.pc = "idle"
  BY DEF Conf!Idle
<1>3. \A t \in ToolType : t.pc = "read"
  BY DEF ToolType
<1> QED
  BY <1>1, <1>2, <1>3

LEMMA NothingIsConfig == Conf!Nothing \in ConfType
<1>1. Conf!Nothing = [theme |-> Conf!Nothing.theme, conn |-> "default", sess |-> "first", mcp |-> {}]
  BY DEF Conf!Nothing
<1> QED
  BY <1>1 DEF ConfType, Looks

\* What a frame leaves the application with.
LEMMA SyncedIs ==
  ASSUME NEW c, NEW before, NEW dlgNow
  PROVE  /\ dlgNow # Conf!Closed => Conf!Synced(c, before, dlgNow) = dlgNow
         /\ dlgNow = Conf!Closed /\ before # Conf!Closed => Conf!Synced(c, before, dlgNow) = before
         /\ dlgNow = Conf!Closed /\ before = Conf!Closed => Conf!Synced(c, before, dlgNow) = c
BY DEF Conf!Synced

LEMMA ConfInit == ASSUME Conf!Init PROVE ConfInv
<1>1. ConfTypeOK
  BY NothingIsConfig DEF Conf!Init, ConfTypeOK, ConfType
<1>2. DraftLives
  BY DEF Conf!Init, DraftLives
<1>3. WritesWhatIs
  BY DEF Conf!Init, WritesWhatIs
<1>4. FileIsKnown
  <2>1. Conf!Nothing.mcp = {} /\ [Conf!Nothing EXCEPT !.mcp = {}] = Conf!Nothing
    BY DEF Conf!Nothing
  <2>2. \A t \in Conf!Tools : tool[t] = Conf!Idle
    BY DEF Conf!Init
  <2>3. file # Conf!TornFile
    BY NothingIsConfig, NoConfigIsClosed DEF Conf!Init
  <2> QED
    BY <2>1, <2>2, <2>3 DEF Conf!Init, FileIsKnown
<1> QED
  BY <1>1, <1>2, <1>3, <1>4 DEF ConfInv

LEMMA ToolBusy ==
  ASSUME ConfTypeOK
  PROVE  (\A x \in Conf!Tools : ~(tool[x].pc # "idle")) => ToolsIdle
<1>1. \A x \in Conf!Tools : tool[x] \in ToolType \cup {Conf!Idle}
  BY DEF ConfTypeOK
<1> QED
  BY <1>1, NoConfigIsClosed DEF ToolsIdle

\* Between writes, with no writer at work, all three agree.
LEMMA InStep ==
  ASSUME ConfTypeOK, FileIsKnown, pending = Conf!Closed, events = 0
  PROVE  live = file /\ live.mcp = chosen.mcp /\ file # Conf!TornFile
BY DEF FileIsKnown

\* A write of the whole configuration that nobody else disturbs.
LEMMA BeginsToWrite ==
  ASSUME pending' = live', file' = Conf!TornFile, events' = 0, ToolsIdle',
         live'.mcp = chosen'.mcp, pending' # Conf!Closed
  PROVE  WritesWhatIs' /\ FileIsKnown'
BY DEF WritesWhatIs, FileIsKnown

LEMMA TogglesThemeStep == ASSUME ConfInv, Conf!TogglesTheme PROVE ConfInv'
<1>0. ConfTypeOK /\ DraftLives
  BY DEF ConfInv
<1>1. PICK t \in Themes \ {live.theme} :
        /\ live' = Conf!Synced([live EXCEPT !.theme = t], draft, draft)
        /\ pending' = [live EXCEPT !.theme = t] /\ file' = Conf!TornFile
        /\ clash' = (clash \/ Conf!Open \/ events > 0 \/ \E x \in Conf!Tools : tool[x].pc # "idle")
        /\ chosen' = [chosen EXCEPT !.theme = IF Conf!Open THEN @ ELSE t]
  BY DEF Conf!TogglesTheme
<1>2. pending = Conf!Closed /\ UNCHANGED <<panelCopy, draft, form, manager, presets, tool, events, stops>>
  BY DEF Conf!TogglesTheme, Conf!Free
<1> DEFINE newConf == [live EXCEPT !.theme = t]
<1>3. newConf \in ConfType /\ newConf.theme = t /\ newConf.mcp = live.mcp
  BY <1>0 DEF ConfTypeOK, ConfType, Looks
<1>4. chosen' \in [theme : Looks, mcp : SUBSET Servers] /\ chosen'.mcp = chosen.mcp
  BY <1>0, <1>1 DEF ConfTypeOK, Looks
<1>5. chosen'.theme = IF Conf!Open THEN chosen.theme ELSE t
  BY <1>0, <1>1 DEF ConfTypeOK
<1>6. live' = IF draft # Conf!Closed THEN draft ELSE newConf
  BY <1>1, SyncedIs
<1> HIDE DEF newConf
<1>7. clash' \in BOOLEAN
  BY <1>1
<1>8. ConfTypeOK'
  BY <1>0, <1>1, <1>2, <1>3, <1>4, <1>6, <1>7 DEF ConfTypeOK, newConf
<1>9. DraftLives'
  BY <1>0, <1>2, <1>3, <1>5, <1>6 DEF DraftLives, Conf!Open
<1>10. CASE clash'
  BY <1>8, <1>9, <1>10 DEF ConfInv
<1>11. CASE ~clash'
  <2>1. ~clash /\ draft = Conf!Closed /\ ~(events > 0) /\ \A x \in Conf!Tools : ~(tool[x].pc # "idle")
    BY <1>1, <1>11 DEF Conf!Open
  <2>2. events = 0
    BY <1>0, <2>1 DEF ConfTypeOK
  <2>3. ToolsIdle'
    BY <1>0, <1>2, <2>1, ToolBusy DEF ToolsIdle
  <2>4. live.mcp = chosen.mcp
    BY <1>0, <1>2, <2>1, <2>2, InStep DEF ConfInv
  <2>5. pending' = live' /\ file' = Conf!TornFile /\ events' = 0 /\ live'.mcp = chosen'.mcp
    BY <1>1, <1>2, <1>3, <1>4, <1>6, <2>1, <2>2, <2>4 DEF newConf
  <2>6. pending' # Conf!Closed
    BY <1>3, <1>6, <2>1, <2>5, NoConfigIsClosed
  <2> QED
    BY <1>8, <1>9, <2>3, <2>5, <2>6, BeginsToWrite DEF ConfInv
<1> QED
  BY <1>10, <1>11

\* Steps of the dialogs that write nothing and leave what the application has.
LEMMA NothingWritten ==
  ASSUME ConfTypeOK, WritesWhatIs /\ FileIsKnown, live' = live,
         UNCHANGED <<file, pending, tool, events, chosen>>
  PROVE  WritesWhatIs' /\ FileIsKnown'
<1>1. WritesWhatIs'
  BY DEF WritesWhatIs, ToolsIdle
<1>2. FileIsKnown'
  BY DEF FileIsKnown
<1> QED
  BY <1>1, <1>2

LEMMA DialogStep ==
  ASSUME ConfInv, live' = live, UNCHANGED <<file, panelCopy, pending, tool, events, chosen, clash>>,
         draft' \in ConfType \cup {Conf!Closed},
         draft' # Conf!Closed => live = draft',
         form' # Conf!Closed \/ manager' # Conf!Closed => draft' # Conf!Closed
  PROVE  ConfInv'
<1>1. ConfTypeOK'
  BY DEF ConfInv, ConfTypeOK
<1>2. DraftLives'
  BY DEF ConfInv, DraftLives
<1>3. clash' \/ (WritesWhatIs' /\ FileIsKnown')
  BY NothingWritten DEF ConfInv
<1> QED
  BY <1>1, <1>2, <1>3 DEF ConfInv

LEMMA OpensSettingsStep == ASSUME ConfInv, Conf!OpensSettings PROVE ConfInv'
<1>1. /\ draft' = IF Conf!Open THEN draft ELSE live
      /\ live' = live
      /\ UNCHANGED <<file, panelCopy, manager, pending, tool, events, chosen, clash>>
  BY DEF Conf!OpensSettings
<1>2. draft' \in ConfType /\ live = draft'
  BY <1>1 DEF ConfInv, ConfTypeOK, DraftLives, Conf!Open
<1>3. draft' # Conf!Closed
  BY <1>2, NoConfigIsClosed
<1> QED
  BY <1>1, <1>2, <1>3, DialogStep

LEMMA OpensPresetsStep == ASSUME ConfInv, Conf!OpensPresets PROVE ConfInv'
<1>1. /\ live' = live /\ draft' = draft /\ draft # Conf!Closed
      /\ UNCHANGED <<file, panelCopy, pending, tool, events, chosen, clash>>
  BY DEF Conf!OpensPresets, ConfInv, ConfTypeOK
<1>2. draft' \in ConfType \cup {Conf!Closed} /\ live = draft'
  BY <1>1 DEF ConfInv, ConfTypeOK, DraftLives
<1> QED
  BY <1>1, <1>2, DialogStep

LEMMA EditsPresetsStep == ASSUME ConfInv, NEW p, Conf!EditsPresets(p) PROVE ConfInv'
<1>1. /\ live' = live /\ draft' = draft /\ draft # Conf!Closed
      /\ UNCHANGED <<file, panelCopy, pending, tool, events, chosen, clash>>
  BY DEF Conf!EditsPresets, ConfInv, ConfTypeOK
<1>2. draft' \in ConfType \cup {Conf!Closed} /\ live = draft'
  BY <1>1 DEF ConfInv, ConfTypeOK, DraftLives
<1> QED
  BY <1>1, <1>2, DialogStep

\* The draft of a dialog that closes stays with the application.
LEMMA ClosesSettingsStep == ASSUME ConfInv, Conf!ClosesSettings PROVE ConfInv'
<1>1. /\ draft' = IF manager = Conf!Closed THEN Conf!Closed ELSE draft
      /\ live' = Conf!Synced(live, draft, draft')
      /\ form' = Conf!Closed /\ draft # Conf!Closed
      /\ UNCHANGED <<file, panelCopy, manager, pending, tool, events, chosen, clash>>
  BY DEF Conf!ClosesSettings, ConfInv, ConfTypeOK
<1>2. live = draft /\ draft \in ConfType
  BY <1>1 DEF ConfInv, ConfTypeOK, DraftLives
<1>3. live' = live
  BY <1>1, <1>2, SyncedIs
<1> QED
  BY <1>1, <1>2, <1>3, DialogStep

LEMMA ClosesPresetsStep == ASSUME ConfInv, Conf!ClosesPresets PROVE ConfInv'
<1>1. /\ draft' = IF form = Conf!Closed THEN Conf!Closed ELSE draft
      /\ live' = Conf!Synced(live, draft, draft')
      /\ manager' = Conf!Closed /\ draft # Conf!Closed
      /\ UNCHANGED <<file, panelCopy, form, pending, tool, events, chosen, clash>>
  BY DEF Conf!ClosesPresets, ConfInv, ConfTypeOK
<1>2. live = draft /\ draft \in ConfType
  BY <1>1 DEF ConfInv, ConfTypeOK, DraftLives
<1>3. live' = live
  BY <1>1, <1>2, SyncedIs
<1> QED
  BY <1>1, <1>2, <1>3, DialogStep

LEMMA SavesSettingsStep ==
  ASSUME ConfInv, NEW theme \in Themes, NEW preset \in Presets \cup {"default"},
         Conf!SavesSettings(theme, preset)
  PROVE  ConfInv'
<1>0. ConfTypeOK /\ DraftLives
  BY DEF ConfInv
<1> DEFINE newConf == [draft EXCEPT !.theme = theme, !.conn = IF preset = "default" THEN @ ELSE preset]
<1>1. /\ pending = Conf!Closed /\ form # Conf!Closed /\ form' = Conf!Closed
      /\ draft' = IF manager = Conf!Closed THEN Conf!Closed ELSE newConf
      /\ live' = Conf!Synced(live, newConf, draft')
      /\ pending' = newConf /\ file' = Conf!TornFile
      /\ chosen' = [chosen EXCEPT !.theme = theme]
      /\ clash' = (clash \/ events > 0 \/ (\E x \in Conf!Tools : tool[x].pc # "idle"))
      /\ UNCHANGED <<panelCopy, manager, presets, tool, events, stops>>
  BY DEF Conf!SavesSettings, Conf!Free
<1>2. draft \in ConfType /\ live = draft
  BY <1>0, <1>1 DEF ConfTypeOK, DraftLives
<1>3. newConf \in ConfType /\ newConf.theme = theme /\ newConf.mcp = live.mcp
  BY <1>2 DEF ConfType, Looks
<1>4. chosen' \in [theme : Looks, mcp : SUBSET Servers] /\ chosen'.mcp = chosen.mcp /\ chosen'.theme = theme
  BY <1>0, <1>1 DEF ConfTypeOK, Looks
<1> HIDE DEF newConf
<1>5. newConf # Conf!Closed
  BY <1>3, NoConfigIsClosed
<1>6. live' = newConf
  BY <1>1, <1>5, SyncedIs
<1>7. clash' \in BOOLEAN
  BY <1>1
<1>8. ConfTypeOK'
  BY <1>0, <1>1, <1>3, <1>4, <1>5, <1>6, <1>7 DEF ConfTypeOK
<1>9. DraftLives'
  BY <1>1, <1>3, <1>4, <1>6 DEF DraftLives
<1>10. CASE clash'
  BY <1>8, <1>9, <1>10 DEF ConfInv
<1>11. CASE ~clash'
  <2>1. ~clash /\ ~(events > 0) /\ \A x \in Conf!Tools : ~(tool[x].pc # "idle")
    BY <1>1, <1>11
  <2>2. events = 0
    BY <1>0, <2>1 DEF ConfTypeOK
  <2>3. ToolsIdle'
    BY <1>0, <1>1, <2>1, ToolBusy DEF ToolsIdle
  <2>4. live.mcp = chosen.mcp
    BY <1>0, <1>1, <2>1, <2>2, InStep DEF ConfInv
  <2>5. events' = 0 /\ live'.mcp = chosen'.mcp
    BY <1>1, <1>3, <1>4, <1>6, <2>2, <2>4
  <2> QED
    BY <1>1, <1>5, <1>6, <1>8, <1>9, <2>3, <2>5, BeginsToWrite DEF ConfInv
<1> QED
  BY <1>10, <1>11

LEMMA LoadsPresetStep ==
  ASSUME ConfInv, NEW p \in Presets, Conf!LoadsPreset(p) PROVE ConfInv'
<1>0. ConfTypeOK /\ DraftLives
  BY DEF ConfInv
<1> DEFINE newConf == [draft EXCEPT !.conn = p]
<1>1. /\ pending = Conf!Closed /\ manager # Conf!Closed
      /\ draft' = newConf /\ live' = Conf!Synced(live, draft, newConf)
      /\ pending' = newConf /\ file' = Conf!TornFile
      /\ clash' = (clash \/ events > 0 \/ (\E x \in Conf!Tools : tool[x].pc # "idle"))
      /\ UNCHANGED <<panelCopy, form, manager, presets, tool, events, chosen, stops>>
  BY DEF Conf!LoadsPreset, Conf!Free
<1>2. draft \in ConfType /\ live = draft
  BY <1>0, <1>1 DEF ConfTypeOK, DraftLives
<1>3. newConf \in ConfType /\ newConf.theme = live.theme /\ newConf.mcp = live.mcp
  BY <1>2 DEF ConfType, Looks
<1> HIDE DEF newConf
<1>5. newConf # Conf!Closed
  BY <1>3, NoConfigIsClosed
<1>6. live' = newConf
  BY <1>1, <1>5, SyncedIs
<1>7. clash' \in BOOLEAN
  BY <1>1
<1>8. ConfTypeOK'
  BY <1>0, <1>1, <1>3, <1>5, <1>6, <1>7 DEF ConfTypeOK
<1>9. DraftLives'
  BY <1>0, <1>1, <1>3, <1>6 DEF DraftLives
<1>10. CASE clash'
  BY <1>8, <1>9, <1>10 DEF ConfInv
<1>11. CASE ~clash'
  <2>1. ~clash /\ ~(events > 0) /\ \A x \in Conf!Tools : ~(tool[x].pc # "idle")
    BY <1>1, <1>11
  <2>2. events = 0
    BY <1>0, <2>1 DEF ConfTypeOK
  <2>3. ToolsIdle'
    BY <1>0, <1>1, <2>1, ToolBusy DEF ToolsIdle
  <2>4. live.mcp = chosen.mcp
    BY <1>0, <1>1, <2>1, <2>2, InStep DEF ConfInv
  <2>5. events' = 0 /\ live'.mcp = chosen'.mcp
    BY <1>1, <1>3, <1>6, <2>2, <2>4
  <2> QED
    BY <1>1, <1>5, <1>6, <1>8, <1>9, <2>3, <2>5, BeginsToWrite DEF ConfInv
<1> QED
  BY <1>10, <1>11

LEMMA SelectsSessionStep ==
  ASSUME ConfInv, NEW s \in Selections, Conf!SelectsSession(s) PROVE ConfInv'
<1>0. ConfTypeOK /\ DraftLives
  BY DEF ConfInv
<1>1. /\ pending = Conf!Closed /\ panelCopy' = [panelCopy EXCEPT !.sess = s]
      /\ pending' = panelCopy' /\ file' = Conf!TornFile
      /\ clash' = (clash \/ panelCopy' # live \/ events > 0 \/ (\E x \in Conf!Tools : tool[x].pc # "idle"))
      /\ UNCHANGED <<live, draft, form, manager, presets, tool, events, chosen, stops>>
  BY DEF Conf!SelectsSession, Conf!Free
<1>2. panelCopy' \in ConfType
  BY <1>0, <1>1 DEF ConfTypeOK, ConfType
<1>3. panelCopy' # Conf!Closed
  BY <1>2, NoConfigIsClosed
<1>7. clash' \in BOOLEAN
  BY <1>1
<1>8. ConfTypeOK'
  BY <1>0, <1>1, <1>2, <1>7 DEF ConfTypeOK
<1>9. DraftLives'
  BY <1>0, <1>1 DEF DraftLives
<1>10. CASE clash'
  BY <1>8, <1>9, <1>10 DEF ConfInv
<1>11. CASE ~clash'
  <2>1. ~clash /\ panelCopy' = live /\ ~(events > 0) /\ \A x \in Conf!Tools : ~(tool[x].pc # "idle")
    BY <1>1, <1>11
  <2>2. events = 0
    BY <1>0, <2>1 DEF ConfTypeOK
  <2>3. ToolsIdle'
    BY <1>0, <1>1, <2>1, ToolBusy DEF ToolsIdle
  <2>4. live.mcp = chosen.mcp
    BY <1>0, <1>1, <2>1, <2>2, InStep DEF ConfInv
  <2>5. events' = 0 /\ live'.mcp = chosen'.mcp /\ pending' = live' /\ pending' # Conf!Closed
    BY <1>1, <1>3, <2>1, <2>2, <2>4
  <2> QED
    BY <1>1, <1>8, <1>9, <2>3, <2>5, BeginsToWrite DEF ConfInv
<1> QED
  BY <1>10, <1>11

LEMMA PanelAddsServerStep ==
  ASSUME ConfInv, NEW s \in Servers, Conf!PanelAddsServer(s) PROVE ConfInv'
<1>0. ConfTypeOK /\ DraftLives
  BY DEF ConfInv
<1> DEFINE newConf == [live EXCEPT !.mcp = @ \cup {s}]
<1>1. /\ pending = Conf!Closed /\ live' = Conf!Synced(newConf, draft, draft)
      /\ pending' = newConf /\ file' = Conf!TornFile
      /\ clash' = (clash \/ Conf!Open \/ events > 0 \/ (\E x \in Conf!Tools : tool[x].pc # "idle"))
      /\ chosen' = [chosen EXCEPT !.mcp = IF Conf!Open THEN @ ELSE newConf.mcp]
      /\ UNCHANGED <<panelCopy, draft, form, manager, presets, tool, events, stops>>
  BY DEF Conf!PanelAddsServer, Conf!Free
<1>3. newConf \in ConfType /\ newConf.theme = live.theme
  BY <1>0 DEF ConfTypeOK, ConfType
<1>30. newConf.mcp \in SUBSET Servers
  BY <1>3 DEF ConfType
<1> HIDE DEF newConf
<1>4. chosen' \in [theme : Looks, mcp : SUBSET Servers] /\ chosen'.theme = chosen.theme
  BY <1>0, <1>1, <1>30 DEF ConfTypeOK
<1>40. chosen'.mcp = IF Conf!Open THEN chosen.mcp ELSE newConf.mcp
  BY <1>0, <1>1 DEF ConfTypeOK
<1>5. newConf # Conf!Closed
  BY <1>3, NoConfigIsClosed
<1>6. live' = IF draft # Conf!Closed THEN draft ELSE newConf
  BY <1>1, SyncedIs
<1>7. clash' \in BOOLEAN
  BY <1>1
<1>8. ConfTypeOK'
  BY <1>0, <1>1, <1>3, <1>4, <1>6, <1>7 DEF ConfTypeOK
<1>9. DraftLives'
  BY <1>0, <1>1, <1>3, <1>4, <1>6 DEF DraftLives
<1>10. CASE clash'
  BY <1>8, <1>9, <1>10 DEF ConfInv
<1>11. CASE ~clash'
  <2>1. ~clash /\ draft = Conf!Closed /\ ~(events > 0) /\ \A x \in Conf!Tools : ~(tool[x].pc # "idle")
    BY <1>1, <1>11 DEF Conf!Open
  <2>2. events = 0
    BY <1>0, <2>1 DEF ConfTypeOK
  <2>3. ToolsIdle'
    BY <1>0, <1>1, <2>1, ToolBusy DEF ToolsIdle
  <2>5. events' = 0 /\ live' = newConf /\ live'.mcp = chosen'.mcp
    BY <1>1, <1>6, <1>40, <2>1, <2>2 DEF Conf!Open
  <2> QED
    BY <1>1, <1>5, <1>8, <1>9, <2>3, <2>5, BeginsToWrite DEF ConfInv
<1> QED
  BY <1>10, <1>11

\* A save of the framework ends a disagreement: what the application has is what counts.
LEMMA AutoSavesStep == ASSUME ConfInv, Conf!AutoSaves PROVE ConfInv'
<1>0. ConfTypeOK /\ DraftLives
  BY DEF ConfInv
<1>1. /\ pending = Conf!Closed /\ pending' = live /\ file' = Conf!TornFile
      /\ clash' = (events > 0 \/ (\E x \in Conf!Tools : tool[x].pc # "idle"))
      /\ chosen' = IF clash THEN [chosen EXCEPT !.mcp = live.mcp] ELSE chosen
      /\ UNCHANGED <<live, panelCopy, draft, form, manager, presets, tool, events, edits, stops>>
  BY DEF Conf!AutoSaves, Conf!Free
<1>2. live \in ConfType /\ live.mcp \in SUBSET Servers
  BY <1>0 DEF ConfTypeOK, ConfType
<1>4. chosen' \in [theme : Looks, mcp : SUBSET Servers] /\ chosen'.theme = chosen.theme
  BY <1>0, <1>1, <1>2 DEF ConfTypeOK
<1>5. clash => chosen'.mcp = live.mcp
  BY <1>0, <1>1 DEF ConfTypeOK
<1>7. clash' \in BOOLEAN
  BY <1>1
<1>8. ConfTypeOK'
  BY <1>0, <1>1, <1>2, <1>4, <1>7 DEF ConfTypeOK
<1>9. DraftLives'
  BY <1>0, <1>1, <1>4 DEF DraftLives
<1>10. CASE clash'
  BY <1>8, <1>9, <1>10 DEF ConfInv
<1>11. CASE ~clash'
  <2>1. ~(events > 0) /\ \A x \in Conf!Tools : ~(tool[x].pc # "idle")
    BY <1>1, <1>11
  <2>2. events = 0
    BY <1>0, <2>1 DEF ConfTypeOK
  <2>3. ToolsIdle'
    BY <1>0, <1>1, <2>1, ToolBusy DEF ToolsIdle
  <2>4. ~clash => live.mcp = chosen'.mcp
    BY <1>0, <1>1, <2>2, InStep DEF ConfInv
  <2>5. events' = 0 /\ live'.mcp = chosen'.mcp /\ pending' = live' /\ pending' # Conf!Closed
    BY <1>1, <1>2, <1>5, <2>2, <2>4, NoConfigIsClosed
  <2> QED
    BY <1>1, <1>8, <1>9, <2>3, <2>5, BeginsToWrite DEF ConfInv
<1> QED
  BY <1>10, <1>11

LEMMA WrittenStep == ASSUME ConfInv, Conf!Written PROVE ConfInv'
<1>0. ConfTypeOK /\ DraftLives
  BY DEF ConfInv
<1>1. /\ pending # Conf!Closed /\ pending' = Conf!Closed
      /\ \/ file' = pending /\ clash' = clash
         \/ file' = file /\ clash' = TRUE
      /\ UNCHANGED <<live, panelCopy, draft, form, manager, presets, tool, events, chosen, edits>>
  BY DEF Conf!Written
<1>2. ConfTypeOK'
  BY <1>0, <1>1 DEF ConfTypeOK
<1>3. DraftLives'
  BY <1>0, <1>1 DEF DraftLives
<1>4. CASE clash'
  BY <1>2, <1>3, <1>4 DEF ConfInv
<1>5. CASE ~clash'
  <2>1. ~clash /\ file' = pending
    BY <1>1, <1>5
  <2>2. pending = live /\ events = 0 /\ ToolsIdle /\ live.mcp = chosen.mcp
    BY <1>1, <2>1 DEF ConfInv, WritesWhatIs
  <2>3. live \in ConfType /\ live # Conf!TornFile
    BY <1>0, NoConfigIsClosed DEF ConfTypeOK
  <2>4. [live EXCEPT !.mcp = live.mcp] = live
    BY <2>3 DEF ConfType
  <2>5. file' = live /\ live' = live /\ chosen' = chosen /\ events' = 0 /\ tool' = tool
    BY <1>1, <2>1, <2>2
  <2>6. FileIsKnown'
    BY <2>2, <2>3, <2>4, <2>5 DEF FileIsKnown, ToolsIdle
  <2>7. WritesWhatIs'
    BY <1>1 DEF WritesWhatIs
  <2> QED
    BY <1>2, <1>3, <2>6, <2>7 DEF ConfInv
<1> QED
  BY <1>4, <1>5

\* The list of servers of the file is taken, and everything else is there already.
LEMMA HandlesChangedStep == ASSUME ConfInv, Conf!HandlesChanged PROVE ConfInv'
<1>0. ConfTypeOK /\ DraftLives
  BY DEF ConfInv
<1>1. /\ events > 0 /\ pending = Conf!Closed /\ events' = events - 1
      /\ live' = Conf!Synced(Conf!Reloaded(live), draft, draft)
      /\ clash' = (clash \/ Conf!Open \/ file = Conf!TornFile)
      /\ UNCHANGED <<file, panelCopy, draft, form, manager, presets, pending, tool, chosen, edits, stops>>
  BY DEF Conf!HandlesChanged, Conf!Free
<1>2. /\ file = Conf!TornFile => Conf!Reloaded(live) = live
      /\ file # Conf!TornFile => Conf!Reloaded(live) = [live EXCEPT !.mcp = file.mcp]
  BY DEF Conf!Reloaded
<1>3. Conf!Reloaded(live) \in ConfType /\ Conf!Reloaded(live).theme = live.theme
  <2>1. live \in ConfType /\ file \in ConfType \cup {Conf!TornFile}
    BY <1>0 DEF ConfTypeOK
  <2>2. CASE file = Conf!TornFile
    BY <1>2, <2>1, <2>2
  <2>3. CASE file # Conf!TornFile
    BY <1>2, <2>1, <2>3 DEF ConfType
  <2> QED
    BY <2>2, <2>3
<1>4. live' = IF draft # Conf!Closed THEN draft ELSE Conf!Reloaded(live)
  BY <1>1, SyncedIs
<1>5. events' \in Nat
  BY <1>0, <1>1 DEF ConfTypeOK
<1>6. clash' \in BOOLEAN
  BY <1>1
<1>7. ConfTypeOK'
  BY <1>0, <1>1, <1>3, <1>4, <1>5, <1>6 DEF ConfTypeOK
<1>8. DraftLives'
  BY <1>0, <1>1, <1>3, <1>4 DEF DraftLives
<1>9. CASE clash'
  BY <1>7, <1>8, <1>9 DEF ConfInv
<1>10. CASE ~clash'
  <2>1. ~clash /\ draft = Conf!Closed /\ file # Conf!TornFile
    BY <1>1, <1>10 DEF Conf!Open
  <2>2. FileIsKnown
    BY <2>1 DEF ConfInv
  <2>3. live' = file
    BY <1>1, <1>2, <1>4, <2>1, <2>2 DEF FileIsKnown
  <2>4. file \in ConfType
    BY <1>0, <2>1 DEF ConfTypeOK
  <2>5. [file EXCEPT !.mcp = file.mcp] = file
    BY <2>4 DEF ConfType
  <2>6. FileIsKnown'
    BY <1>1, <2>1, <2>2, <2>3, <2>5 DEF FileIsKnown
  <2>7. WritesWhatIs'
    BY <1>1 DEF WritesWhatIs
  <2> QED
    BY <1>7, <1>8, <2>6, <2>7 DEF ConfInv
<1> QED
  BY <1>9, <1>10

LEMMA ToolReadsStep ==
  ASSUME ConfInv, NEW t \in Conf!Tools, NEW s \in Servers, Conf!ToolReads(t, s) PROVE ConfInv'
<1>0. ConfTypeOK /\ DraftLives
  BY DEF ConfInv
<1> DEFINE c == IF file = Conf!TornFile THEN Conf!Nothing ELSE file
<1>1. /\ tool[t] = Conf!Idle
      /\ tool' = [tool EXCEPT ![t] = [pc |-> "read", server |-> s, conf |-> c]]
      /\ clash' = (clash \/ pending # Conf!Closed \/ (\E x \in Conf!Tools \ {t} : tool[x].pc # "idle"))
      /\ UNCHANGED <<file, live, panelCopy, draft, form, manager, presets, pending, events, chosen, stops>>
  BY DEF Conf!ToolReads
<1>2. c \in ConfType
  BY <1>0, NothingIsConfig DEF ConfTypeOK
<1>3. file # Conf!TornFile => c = file
  OBVIOUS
<1> HIDE DEF c
<1>4. [pc |-> "read", server |-> s, conf |-> c] \in ToolType
  BY <1>2 DEF ToolType
<1>5. tool' \in [Conf!Tools -> ToolType \cup {Conf!Idle}]
  BY <1>0, <1>1, <1>4 DEF ConfTypeOK
<1>6. clash' \in BOOLEAN
  BY <1>1
<1>7. ConfTypeOK'
  BY <1>0, <1>1, <1>5, <1>6 DEF ConfTypeOK
<1>8. DraftLives'
  BY <1>0, <1>1 DEF DraftLives
<1>9. CASE clash'
  BY <1>7, <1>8, <1>9 DEF ConfInv
<1>10. CASE ~clash'
  <2>1. ~clash /\ pending = Conf!Closed /\ \A x \in Conf!Tools \ {t} : ~(tool[x].pc # "idle")
    BY <1>1, <1>10
  <2>2. FileIsKnown
    BY <2>1 DEF ConfInv
  <2>3. \A x \in Conf!Tools \ {t} : tool[x] = Conf!Idle
    BY <1>0, <2>1, NoConfigIsClosed DEF ConfTypeOK
  <2>4. \A x \in Conf!Tools \ {t} : tool'[x] = Conf!Idle
    BY <1>0, <1>1, <2>3 DEF ConfTypeOK
  <2>5. tool'[t].conf = c
    BY <1>0, <1>1 DEF ConfTypeOK
  <2>6. file # Conf!TornFile
    BY <2>1, <2>2 DEF FileIsKnown
  <2>7. \A x \in Conf!Tools : tool'[x] # Conf!Idle => tool'[x].conf = file
    BY <1>3, <2>4, <2>5, <2>6
  <2>8. \A x, u \in Conf!Tools : tool'[x] # Conf!Idle /\ tool'[u] # Conf!Idle => x = u
    BY <2>4
  <2>9. FileIsKnown'
    BY <1>1, <2>2, <2>7, <2>8 DEF FileIsKnown
  <2>10. WritesWhatIs'
    BY <1>1, <2>1 DEF WritesWhatIs
  <2> QED
    BY <1>7, <1>8, <2>9, <2>10 DEF ConfInv
<1> QED
  BY <1>9, <1>10

\* A tool writes back what it read but for its server, and tells the application.
LEMMA ToolWritesStep ==
  ASSUME ConfInv, NEW t \in Conf!Tools, Conf!ToolWrites(t) PROVE ConfInv'
<1>0. ConfTypeOK /\ DraftLives
  BY DEF ConfInv
<1>1. /\ tool[t].pc = "read"
      /\ file' = Conf!Changed(t) \/ file' = file
      /\ chosen' = [chosen EXCEPT !.mcp = IF file' = file THEN @ ELSE Conf!Changed(t).mcp]
      /\ clash' = (clash \/ pending # Conf!Closed)
      /\ tool' = [tool EXCEPT ![t] = Conf!Idle]
      /\ events' = events + 1
      /\ UNCHANGED <<live, panelCopy, draft, form, manager, presets, pending, edits>>
  BY DEF Conf!ToolWrites
<1>2. tool[t] # Conf!Idle /\ tool[t] \in ToolType
  BY <1>0, <1>1, NoConfigIsClosed DEF ConfTypeOK
<1> DEFINE c == tool[t].conf
           kept == IF t = "add" THEN c.mcp \cup {tool[t].server} ELSE c.mcp \ {tool[t].server}
<1>3. c \in ConfType /\ tool[t].server \in Servers /\ c.mcp \in SUBSET Servers
  BY <1>2 DEF ToolType, ConfType
<1>4. kept \in SUBSET Servers
  BY <1>3
<1>5. Conf!Changed(t) = [c EXCEPT !.mcp = kept]
  BY DEF Conf!Changed
<1> HIDE DEF c, kept
<1>6. Conf!Changed(t) \in ConfType /\ Conf!Changed(t).mcp = kept
  BY <1>3, <1>4, <1>5 DEF ConfType
<1>7. chosen' \in [theme : Looks, mcp : SUBSET Servers] /\ chosen'.theme = chosen.theme
  BY <1>0, <1>1, <1>4, <1>6 DEF ConfTypeOK
<1>8. chosen'.mcp = IF file' = file THEN chosen.mcp ELSE kept
  BY <1>0, <1>1, <1>6 DEF ConfTypeOK
<1>9. tool' \in [Conf!Tools -> ToolType \cup {Conf!Idle}] /\ events' \in Nat /\ events' # 0 /\ clash' \in BOOLEAN
  BY <1>0, <1>1 DEF ConfTypeOK
<1>10. ConfTypeOK'
  BY <1>0, <1>1, <1>6, <1>7, <1>9 DEF ConfTypeOK
<1>11. DraftLives'
  BY <1>0, <1>1, <1>7 DEF DraftLives
<1>12. CASE clash'
  BY <1>10, <1>11, <1>12 DEF ConfInv
<1>13. CASE ~clash'
  <2>1. ~clash /\ pending = Conf!Closed
    BY <1>1, <1>13
  <2>2. FileIsKnown
    BY <2>1 DEF ConfInv
  <2>3. file # Conf!TornFile /\ file.mcp = chosen.mcp /\ [live EXCEPT !.mcp = file.mcp] = file
    BY <2>1, <2>2 DEF FileIsKnown
  <2>4. c = file
    BY <1>2, <2>1, <2>2 DEF FileIsKnown, c
  <2>5. \A x \in Conf!Tools : tool'[x] = Conf!Idle
    <3>1. \A x \in Conf!Tools : x # t => tool[x] = Conf!Idle
      BY <1>2, <2>1, <2>2 DEF FileIsKnown
    <3> QED
      BY <1>0, <1>1, <3>1 DEF ConfTypeOK
  <2>6. live \in ConfType /\ file \in ConfType
    BY <1>0, <2>3 DEF ConfTypeOK
  <2>7. [live EXCEPT !.mcp = kept] = Conf!Changed(t)
    <3>1. [live EXCEPT !.mcp = kept] = [[live EXCEPT !.mcp = file.mcp] EXCEPT !.mcp = kept]
      BY <2>6 DEF ConfType
    <3> QED
      BY <1>5, <2>3, <2>4, <3>1
  <2>8. file' # Conf!TornFile /\ file'.mcp = chosen'.mcp /\ [live EXCEPT !.mcp = file'.mcp] = file'
    <3>1. CASE file' = file
      BY <1>8, <2>3, <3>1
    <3>2. CASE file' # file
      BY <1>1, <1>6, <1>8, <2>7, <3>2, NoConfigIsClosed
    <3> QED
      BY <3>1, <3>2
  <2>9. FileIsKnown'
    BY <1>1, <1>9, <2>5, <2>8 DEF FileIsKnown
  <2>10. WritesWhatIs'
    BY <1>1, <2>1 DEF WritesWhatIs
  <2> QED
    BY <1>10, <1>11, <2>9, <2>10 DEF ConfInv
<1> QED
  BY <1>12, <1>13

LEMMA RestartsStep == ASSUME ConfInv, Conf!Restarts PROVE ConfInv'
<1>0. ConfTypeOK /\ DraftLives
  BY DEF ConfInv
<1>1. /\ live' = IF file = Conf!TornFile THEN Conf!Nothing ELSE file
      /\ panelCopy' = live'
      /\ draft' = Conf!Closed /\ form' = Conf!Closed /\ manager' = Conf!Closed /\ pending' = Conf!Closed
      /\ tool' = [t \in Conf!Tools |-> Conf!Idle]
      /\ events' = 0
      /\ chosen' = IF clash \/ file = Conf!TornFile THEN [theme |-> live'.theme, mcp |-> live'.mcp] ELSE chosen
      /\ clash' = (clash \/ file = Conf!TornFile)
      /\ file' = file
  BY DEF Conf!Restarts
<1>2. live' \in ConfType
  BY <1>0, <1>1, NothingIsConfig DEF ConfTypeOK
<1>3. live'.theme \in Looks /\ live'.mcp \in SUBSET Servers
  BY <1>2 DEF ConfType
<1>4. chosen' \in [theme : Looks, mcp : SUBSET Servers]
  BY <1>0, <1>1, <1>3 DEF ConfTypeOK
<1>5. tool' \in [Conf!Tools -> ToolType \cup {Conf!Idle}] /\ \A t \in Conf!Tools : tool'[t] = Conf!Idle
  BY <1>1
<1>6. clash' \in BOOLEAN /\ events' \in Nat
  BY <1>1
<1>7. ConfTypeOK'
  BY <1>0, <1>1, <1>2, <1>4, <1>5, <1>6 DEF ConfTypeOK
<1>8. CASE clash'
  <2>1. chosen'.theme = live'.theme
    BY <1>1, <1>8
  <2> QED
    BY <1>1, <1>7, <1>8, <2>1 DEF ConfInv, DraftLives
<1>9. CASE ~clash'
  <2>1. ~clash /\ file # Conf!TornFile
    BY <1>1, <1>9
  <2>2. pending = Conf!Closed
    BY <2>1 DEF ConfInv, WritesWhatIs
  <2>3. file.mcp = chosen.mcp /\ [live EXCEPT !.mcp = file.mcp] = file
    BY <2>1, <2>2 DEF ConfInv, FileIsKnown
  <2>4. file.theme = live.theme
    <3>1. [live EXCEPT !.mcp = file.mcp].theme = live.theme
      BY <1>0 DEF ConfTypeOK, ConfType
    <3> QED
      BY <2>3, <3>1
  <2>5. live' = file /\ chosen' = chosen
    BY <1>1, <2>1
  <2>6. DraftLives'
    BY <1>0, <1>1, <2>4, <2>5 DEF DraftLives
  <2>7. [file EXCEPT !.mcp = file.mcp] = file
    BY <1>0, <2>1 DEF ConfTypeOK, ConfType
  <2>8. FileIsKnown'
    BY <1>1, <1>5, <2>1, <2>3, <2>5, <2>7 DEF FileIsKnown
  <2>9. WritesWhatIs'
    BY <1>1 DEF WritesWhatIs
  <2> QED
    BY <1>7, <2>6, <2>8, <2>9 DEF ConfInv
<1> QED
  BY <1>8, <1>9

LEMMA ConfStep == ASSUME ConfInv, [Conf!Next]_(Conf!configVars) PROVE ConfInv'
<1>1. CASE UNCHANGED Conf!configVars
  <2>1. UNCHANGED <<file, live, panelCopy, draft, form, manager, pending, tool, events, chosen, clash>>
    BY <1>1 DEF Conf!configVars
  <2>2. ConfTypeOK'
    BY <2>1 DEF ConfInv, ConfTypeOK
  <2>3. DraftLives'
    BY <2>1 DEF ConfInv, DraftLives
  <2>4. clash' \/ (WritesWhatIs' /\ FileIsKnown')
    BY <2>1, NothingWritten DEF ConfInv
  <2> QED
    BY <2>2, <2>3, <2>4 DEF ConfInv
<1>2. CASE Conf!TogglesTheme
  BY <1>2, TogglesThemeStep
<1>3. CASE Conf!OpensSettings
  BY <1>3, OpensSettingsStep
<1>4. CASE Conf!OpensPresets
  BY <1>4, OpensPresetsStep
<1>5. CASE Conf!ClosesSettings
  BY <1>5, ClosesSettingsStep
<1>6. CASE Conf!ClosesPresets
  BY <1>6, ClosesPresetsStep
<1>7. CASE \E t \in Themes, p \in Presets \cup {"default"} : Conf!SavesSettings(t, p)
  BY <1>7, SavesSettingsStep
<1>8. CASE \E p \in Presets : Conf!LoadsPreset(p) \/ Conf!EditsPresets(p)
  BY <1>8, LoadsPresetStep, EditsPresetsStep
<1>9. CASE \E s \in Selections : Conf!SelectsSession(s)
  BY <1>9, SelectsSessionStep
<1>10. CASE \E s \in Servers : Conf!PanelAddsServer(s) \/ \E t \in Conf!Tools : Conf!ToolReads(t, s)
  BY <1>10, PanelAddsServerStep, ToolReadsStep
<1>11. CASE \E t \in Conf!Tools : Conf!ToolWrites(t)
  BY <1>11, ToolWritesStep
<1>12. CASE Conf!AutoSaves
  BY <1>12, AutoSavesStep
<1>13. CASE Conf!Written
  BY <1>13, WrittenStep
<1>14. CASE Conf!HandlesChanged
  BY <1>14, HandlesChangedStep
<1>15. CASE Conf!Restarts
  BY <1>15, RestartsStep
<1> QED
  BY <1>1, <1>2, <1>3, <1>4, <1>5, <1>6, <1>7, <1>8, <1>9, <1>10, <1>11, <1>12, <1>13, <1>14, <1>15
     DEF Conf!Next

LEMMA ConfHolds == ASSUME ConfInv PROVE Conf!ConfigSound
<1>1. Conf!ChoiceLives
  BY DEF ConfInv, DraftLives, Conf!ChoiceLives
<1>2. Conf!FileInStep
  BY InStep DEF ConfInv, Conf!FileInStep, Conf!Free
<1> QED
  BY <1>1, <1>2 DEF Conf!ConfigSound

-----------------------------------------------------------------------------
(* The servers of the panel.                                               *)

Jobs == {"remove", "connect", "enable", "disable", "disconnect", "refresh"}
ServerItem == [name : Mcp!ServerNames, setup : Mcp!Setups, on : BOOLEAN]
ServerEntry == [known : {TRUE}, setup : Mcp!Setups, on : BOOLEAN, up : BOOLEAN]
JobType == [op : Jobs, name : Mcp!ServerNames, over : BOOLEAN]
CallType == [op : {"add", "remove"}, conf : ServerItem]
DialogType ==
  [new : BOOLEAN, name : Mcp!ServerNames \cup {""}, on : BOOLEAN, filled : BOOLEAN, setup : Mcp!Setups]

PanelTypeOK ==
  /\ entry \in [Mcp!ServerNames -> ServerEntry \cup {Mcp!Absent}]
  /\ conf1 \in Seq(ServerItem) /\ disk \in Seq(ServerItem)
  /\ panelJob \in JobType \cup {Mcp!NoJob}
  /\ late \in SUBSET [op : Jobs, name : Mcp!ServerNames]
  /\ dlg \in DialogType \cup {Mcp!NoDlg}
  /\ agent \in CallType \cup {Mcp!NoCall}
  /\ changed \in Nat
  /\ strayed \in SUBSET Mcp!ServerNames

\* Names that only a file brings.
FromFile(items) == \A i \in DOMAIN items : items[i].name = "my db" => items[i].setup.n = 2
FileNamesOnly ==
  /\ FromFile(conf1) /\ FromFile(disk)
  /\ entry["my db"].known => entry["my db"].setup.n = 2
  /\ agent # Mcp!NoCall /\ agent.op = "add" => agent.conf.name # "my db"

Running == panelJob # Mcp!NoJob /\ ~panelJob.over
Toggled(n) == Running /\ panelJob.name = n /\ panelJob.op \in {"enable", "disable"}
\* The flag a server has once the panel's job is done.
Flag(n) == IF Toggled(n) THEN panelJob.op = "enable" ELSE entry[n].on
AgentAt(n) == agent # Mcp!NoCall /\ agent.conf.name = n
Clean == {n \in Mcp!ServerNames : n \notin strayed /\ \A j \in late : j.name # n}

AtMostOnce(items, n) == \A i, j \in DOMAIN items : items[i].name = n /\ items[j].name = n => i = j
\* The list has the server of the manager's entry e, once, or none if that has none.
Lists(items, n, e, on) ==
  /\ AtMostOnce(items, n)
  /\ e.known => \E i \in DOMAIN items : items[i] = Mcp!Configured(n, e.setup, on)
  /\ ~e.known => \A i \in DOMAIN items : items[i].name # n
Agrees(items, n) == Lists(items, n, entry[n], Flag(n))
\* What the agent will write is what the manager has already.
AgentKnows(n) ==
  /\ ~Toggled(n) /\ AtMostOnce(disk, n)
  /\ entry[n].known <=> agent.op = "add"
  /\ entry[n].known => entry[n].setup = agent.conf.setup /\ entry[n].on = agent.conf.on
Kept(n) ==
  /\ ~AgentAt(n) => Agrees(disk, n)
  /\ ~AgentAt(n) /\ changed = 0 => Agrees(conf1, n)
  /\ AgentAt(n) => AgentKnows(n)

RemovalsStray == Running /\ panelJob.op = "remove" => panelJob.name \in strayed

PanelInv == PanelTypeOK /\ FileNamesOnly /\ RemovalsStray /\ \A n \in Clean : Kept(n)

\* What the other writers of the configuration may have.
OlderTyped == \A v \in older : v \in Seq(ServerItem) /\ FromFile(v)

(* Lists of servers.                                                       *)

LEMMA ItemsOf ==
  ASSUME NEW items \in Seq(ServerItem)
  PROVE  /\ DOMAIN items = 1..Len(items) /\ Len(items) \in Nat
         /\ \A i \in DOMAIN items :
              /\ items[i] \in ServerItem
              /\ items[i] = Mcp!Configured(items[i].name, items[i].setup, items[i].on)
<1>1. DOMAIN items = 1..Len(items) /\ Len(items) \in Nat
  OBVIOUS
<1>2. \A i \in DOMAIN items : items[i] \in ServerItem
  BY <1>1, ElementOfSeq
<1> QED
  BY <1>1, <1>2 DEF ServerItem, Mcp!Configured

\* w is the list v with other entries of the name n.
ButFor(v, w, n) ==
  /\ \A x \in DOMAIN w : w[x].name # n => \E i \in DOMAIN v : v[i] = w[x]
  /\ \A i \in DOMAIN v : v[i].name # n => \E x \in DOMAIN w : w[x] = v[i]
  /\ \A m : m # n /\ AtMostOnce(v, m) => AtMostOnce(w, m)

LEMMA OthersKept ==
  ASSUME NEW v, NEW w, NEW n, NEW m, m # n, ButFor(v, w, n),
         NEW d, NEW e, NEW was, NEW is,
         Lists(v, m, d, was), e.known <=> d.known, d.known => e.setup = d.setup /\ is = was
  PROVE  Lists(w, m, e, is)
<1>1. AtMostOnce(w, m)
  BY DEF ButFor, Lists
<1>2. ASSUME e.known PROVE \E i \in DOMAIN w : w[i] = Mcp!Configured(m, e.setup, is)
  <2>1. PICK i \in DOMAIN v : v[i] = Mcp!Configured(m, e.setup, is)
    BY <1>2 DEF Lists
  <2>2. v[i].name # n
    BY <2>1 DEF Mcp!Configured
  <2> QED
    BY <2>1, <2>2 DEF ButFor
<1>3. ASSUME ~e.known PROVE \A x \in DOMAIN w : w[x].name # m
  <2>1. \A i \in DOMAIN v : v[i].name # m
    BY <1>3 DEF Lists
  <2> QED
    BY <2>1 DEF ButFor
<1> QED
  BY <1>1, <1>2, <1>3 DEF Lists

LEMMA FilesNamesKept ==
  ASSUME NEW v, NEW w, NEW n, ButFor(v, w, n), FromFile(v),
         n = "my db" => \A x \in DOMAIN w : w[x].name = n => w[x].setup.n = 2
  PROVE  FromFile(w)
<1> SUFFICES ASSUME NEW x \in DOMAIN w, w[x].name = "my db" PROVE w[x].setup.n = 2
  BY DEF FromFile
<1>1. CASE n = "my db"
  BY <1>1
<1>2. CASE n # "my db"
  <2>1. PICK i \in DOMAIN v : v[i] = w[x]
    BY <1>2 DEF ButFor
  <2> QED
    BY <2>1 DEF FromFile
<1> QED
  BY <1>1, <1>2

LEMMA AppendedIs ==
  ASSUME NEW v \in Seq(ServerItem), NEW c \in ServerItem
  PROVE  /\ Append(v, c) \in Seq(ServerItem)
         /\ ButFor(v, Append(v, c), c.name)
         /\ \E i \in DOMAIN Append(v, c) : Append(v, c)[i] = c
         /\ (\A i \in DOMAIN v : v[i].name # c.name) => AtMostOnce(Append(v, c), c.name)
<1> DEFINE w == Append(v, c)
<1>1. /\ w \in Seq(ServerItem) /\ Len(w) = Len(v) + 1 /\ w[Len(v) + 1] = c
      /\ \A i \in 1..Len(v) : w[i] = v[i]
  BY AppendProperties
<1>2. DOMAIN v = 1..Len(v) /\ Len(v) \in Nat /\ DOMAIN w = 1..(Len(v) + 1)
  BY <1>1
<1> HIDE DEF w
<1>3. \A x \in DOMAIN w : x \in DOMAIN v \/ x = Len(v) + 1
  BY <1>2
<1>4. \A x \in DOMAIN w : w[x].name # c.name => x \in DOMAIN v /\ v[x] = w[x]
  BY <1>1, <1>2, <1>3
<1>5. \A i \in DOMAIN v : i \in DOMAIN w /\ w[i] = v[i]
  BY <1>1, <1>2
<1>6. \A m : m # c.name /\ AtMostOnce(v, m) => AtMostOnce(w, m)
  BY <1>1, <1>2, <1>3, <1>4 DEF AtMostOnce
<1>7. ButFor(v, w, c.name)
  BY <1>4, <1>5, <1>6 DEF ButFor
<1>8. Len(v) + 1 \in DOMAIN w
  BY <1>2
<1>9. (\A i \in DOMAIN v : v[i].name # c.name) => AtMostOnce(w, c.name)
  BY <1>3, <1>5 DEF AtMostOnce
<1> QED
  BY <1>1, <1>7, <1>8, <1>9 DEF w

LEMMA ReplacedIs ==
  ASSUME NEW v \in Seq(ServerItem), NEW c \in ServerItem, NEW i \in DOMAIN v, v[i].name = c.name
  PROVE  /\ [v EXCEPT ![i] = c] \in Seq(ServerItem)
         /\ ButFor(v, [v EXCEPT ![i] = c], c.name)
         /\ \E j \in DOMAIN [v EXCEPT ![i] = c] : [v EXCEPT ![i] = c][j] = c
         /\ AtMostOnce(v, c.name) => AtMostOnce([v EXCEPT ![i] = c], c.name)
         /\ c.setup = v[i].setup /\ FromFile(v) => FromFile([v EXCEPT ![i] = c])
<1> DEFINE w == [v EXCEPT ![i] = c]
<1>1. DOMAIN w = DOMAIN v /\ w[i] = c /\ \A j \in DOMAIN v : j # i => w[j] = v[j]
  OBVIOUS
<1>2. w \in Seq(ServerItem)
  BY ExceptSeq
<1> HIDE DEF w
<1>3. \A j \in DOMAIN v : w[j].name = v[j].name
  BY <1>1
<1>4. \A m : AtMostOnce(v, m) => AtMostOnce(w, m)
  BY <1>1, <1>3 DEF AtMostOnce
<1>5. \A j \in DOMAIN v : v[j].name # c.name => w[j] = v[j]
  BY <1>1
<1>6. ButFor(v, w, c.name)
  BY <1>1, <1>3, <1>4, <1>5 DEF ButFor
<1>7. c.setup = v[i].setup /\ FromFile(v) => FromFile(w)
  BY <1>1 DEF FromFile
<1> QED
  BY <1>1, <1>2, <1>4, <1>6, <1>7 DEF w

LEMMA Least ==
  ASSUME NEW T, T \subseteq Nat, T # {}
  PROVE  \E k \in T : \A j \in T : k <= j
<1>1. PICK k \in T : \A j \in T : ~(<<j, k>> \in OpToRel(<, Nat))
  BY WFMin, NatLessThanWellFounded, Zenon
<1>2. \A j \in T : ~(j < k)
  BY <1>1 DEF OpToRel
<1> QED
  BY <1>2

LEMMA FirstIs ==
  ASSUME NEW v \in Seq(ServerItem), NEW n, Mcp!Of(v, n) # {}
  PROVE  Mcp!First(v, n) \in DOMAIN v /\ v[Mcp!First(v, n)].name = n
<1>1. Mcp!Of(v, n) \subseteq Nat
  BY DEF Mcp!Of
<1>2. \E k \in Mcp!Of(v, n) : \A j \in Mcp!Of(v, n) : k <= j
  BY <1>1, Least
<1>3. Mcp!First(v, n) \in Mcp!Of(v, n)
  BY <1>2 DEF Mcp!First
<1> QED
  BY <1>3 DEF Mcp!Of

(* What a removal leaves; Without is recursive, and induction is by the least number. *)

KeptStep(v, n, u, k) ==
  IF k = 0 THEN <<>> ELSE IF v[k].name = n THEN u[k-1] ELSE Append(u[k-1], v[k])
Fits(v, n, u, m) == u = [k \in 0..m |-> KeptStep(v, n, u, k)]

LEMMA FitsExist == ASSUME NEW v, NEW n, NEW m \in Nat PROVE \E u : Fits(v, n, u, m)
<1> SUFFICES ASSUME ~ \E u : Fits(v, n, u, m) PROVE FALSE
  OBVIOUS
<1> DEFINE B == {k \in Nat : ~ \E u : Fits(v, n, u, k)}
<1>1. PICK l \in B : \A k \in B : l <= k
  <2>1. B \subseteq Nat /\ B # {}
    OBVIOUS
  <2> HIDE DEF B
  <2> QED
    BY <2>1, Least
<1>2. CASE l = 0
  <2> DEFINE u == [k \in 0..0 |-> <<>>]
  <2>1. u = [k \in 0..0 |-> KeptStep(v, n, u, k)]
    BY DEF KeptStep
  <2>2. Fits(v, n, u, 0)
    BY Zenon, <2>1 DEF Fits
  <2> QED
    BY <1>1, <1>2, <2>2
<1>3. CASE l # 0
  <2>1. l - 1 \in Nat /\ l - 1 \notin B /\ l \in Nat
    BY <1>1, <1>3
  <2>2. PICK u : Fits(v, n, u, l - 1)
    BY <2>1
  <2> DEFINE w == [k \in 0..l |-> IF k = l THEN KeptStep(v, n, u, l) ELSE u[k]]
  <2>3. ASSUME NEW k \in 0..l PROVE w[k] = KeptStep(v, n, w, k)
    <3>1. k # 0 => w[k-1] = u[k-1]
      BY <2>1, <2>3
    <3>2. KeptStep(v, n, w, k) = KeptStep(v, n, u, k)
      BY <3>1 DEF KeptStep
    <3>3. ASSUME k # l PROVE u[k] = KeptStep(v, n, u, k)
      <4>1. k \in 0..(l - 1)
        BY <2>1, <2>3, <3>3
      <4> HIDE DEF B
      <4> QED
        BY <2>2, <4>1 DEF Fits
    <3> QED
      BY <3>2, <3>3
  <2>4. Fits(v, n, w, l)
    <3>1. w = [k \in 0..l |-> w[k]]
      OBVIOUS
    <3>2. w = [k \in 0..l |-> KeptStep(v, n, w, k)]
      <4> HIDE DEF w
      <4> QED
        BY <2>3, <3>1
    <3> HIDE DEF w
    <3> QED
      BY <3>2 DEF Fits
  <2> QED
    BY <2>4, <1>1
<1> QED
  BY <1>2, <1>3

KeptUpto(v, n) == CHOOSE u : Fits(v, n, u, Len(v))

LEMMA WithoutUpto == ASSUME NEW v, NEW n PROVE Mcp!Without(v, n) = KeptUpto(v, n)[Len(v)]
BY Zenon DEF Mcp!Without, KeptUpto, Fits, KeptStep

\* The entries of the first k that are not called n, in t.
OthersUpto(v, n, t, k) ==
  /\ t \in Seq(ServerItem)
  /\ \A x \in DOMAIN t : t[x].name # n /\ \E i \in 1..k : v[i] = t[x]
  /\ \A i \in 1..k : v[i].name # n => \E x \in DOMAIN t : t[x] = v[i]
  /\ \A m : (\A i, j \in 1..k : v[i].name = m /\ v[j].name = m => i = j) => AtMostOnce(t, m)

LEMMA OneMoreKept ==
  ASSUME NEW v \in Seq(ServerItem), NEW n, NEW k \in 1..Len(v), NEW t, OthersUpto(v, n, t, k - 1)
  PROVE  OthersUpto(v, n, IF v[k].name = n THEN t ELSE Append(t, v[k]), k)
<1>1. k \in Nat /\ k - 1 \in Nat /\ v[k] \in ServerItem
  BY ElementOfSeq
<1>2. \A i \in 1..k : i = k \/ i \in 1..(k - 1)
  BY <1>1
<1>3. \A i \in 1..(k - 1) : i \in 1..k /\ i # k
  BY <1>1
<1>0. k \in 1..k
  BY <1>1
<1>4. CASE v[k].name = n
  <2>1. \A x \in DOMAIN t : t[x].name # n /\ \E i \in 1..k : v[i] = t[x]
    BY <1>3 DEF OthersUpto
  <2>2. \A i \in 1..k : v[i].name # n => \E x \in DOMAIN t : t[x] = v[i]
    BY <1>2, <1>4 DEF OthersUpto
  <2>3. \A m : (\A i, j \in 1..k : v[i].name = m /\ v[j].name = m => i = j) => AtMostOnce(t, m)
    BY <1>3 DEF OthersUpto
  <2> QED
    BY <1>4, <2>1, <2>2, <2>3 DEF OthersUpto
<1>5. CASE v[k].name # n
  <2> DEFINE w == Append(t, v[k])
  <2>1. t \in Seq(ServerItem)
    BY DEF OthersUpto
  <2>2. /\ w \in Seq(ServerItem) /\ Len(w) = Len(t) + 1 /\ w[Len(t) + 1] = v[k]
        /\ \A x \in 1..Len(t) : w[x] = t[x]
    BY <1>1, <2>1, AppendProperties
  <2>3. DOMAIN t = 1..Len(t) /\ Len(t) \in Nat /\ DOMAIN w = 1..(Len(t) + 1)
    BY <2>1, <2>2
  <2> HIDE DEF w
  <2>4. \A x \in DOMAIN w : x = Len(t) + 1 \/ (x \in DOMAIN t /\ w[x] = t[x])
    BY <2>2, <2>3
  <2>5. \A x \in DOMAIN t : x \in DOMAIN w /\ w[x] = t[x]
    BY <2>2, <2>3
  <2>6. \A x \in DOMAIN w : w[x].name # n /\ \E i \in 1..k : v[i] = w[x]
    BY <1>0, <1>3, <1>5, <2>2, <2>4 DEF OthersUpto
  <2>7. \A i \in 1..k : v[i].name # n => \E x \in DOMAIN w : w[x] = v[i]
    <3>1. Len(t) + 1 \in DOMAIN w
      BY <2>3
    <3> QED
      BY <1>2, <2>2, <2>5, <3>1 DEF OthersUpto
  <2>8. ASSUME NEW m, \A i, j \in 1..k : v[i].name = m /\ v[j].name = m => i = j
        PROVE  AtMostOnce(w, m)
    <3>1. AtMostOnce(t, m)
      BY <1>3, <2>8 DEF OthersUpto
    <3>2. v[k].name = m => \A x \in DOMAIN t : t[x].name # m
      BY <1>0, <1>3, <2>8 DEF OthersUpto
    <3> QED
      BY <2>2, <2>4, <3>1, <3>2 DEF AtMostOnce
  <2>9. OthersUpto(v, n, w, k)
    BY <2>2, <2>6, <2>7, <2>8 DEF OthersUpto
  <2> QED
    BY <1>5, <2>9 DEF w
<1> QED
  BY <1>4, <1>5

LEMMA WithoutKeeps ==
  ASSUME NEW v \in Seq(ServerItem), NEW n
  PROVE  OthersUpto(v, n, Mcp!Without(v, n), Len(v))
<1> DEFINE u == KeptUpto(v, n)
           B == {k \in Nat : k <= Len(v) /\ ~OthersUpto(v, n, u[k], k)}
<1>0. Len(v) \in Nat
  OBVIOUS
<1>1. Fits(v, n, u, Len(v))
  BY <1>0, FitsExist DEF KeptUpto
<1> HIDE DEF u
<1>2. \A k \in 0..Len(v) : u[k] = KeptStep(v, n, u, k)
  BY <1>1 DEF Fits
<1> SUFFICES ASSUME B # {} PROVE FALSE
  BY <1>0, WithoutUpto DEF u
<1>3. PICK l \in B : \A k \in B : l <= k
  <2>1. B \subseteq Nat
    OBVIOUS
  <2> HIDE DEF B
  <2> QED
    BY <2>1, Least
<1>4. l \in Nat /\ l <= Len(v) /\ ~OthersUpto(v, n, u[l], l)
  BY <1>3
<1>5. CASE l = 0
  <2>1. u[l] = <<>>
    BY <1>0, <1>2, <1>4, <1>5 DEF KeptStep
  <2>2. OthersUpto(v, n, <<>>, 0)
    BY DEF OthersUpto, AtMostOnce
  <2> QED
    BY <1>4, <1>5, <2>1, <2>2
<1>6. CASE l # 0
  <2>1. l \in 1..Len(v) /\ l - 1 \in Nat /\ l - 1 < l /\ l - 1 <= Len(v) /\ l \in 0..Len(v)
    BY <1>0, <1>4, <1>6
  <2>2. OthersUpto(v, n, u[l - 1], l - 1)
    BY <1>3, <2>1
  <2>3. u[l] = IF v[l].name = n THEN u[l-1] ELSE Append(u[l-1], v[l])
    BY <1>2, <1>6, <2>1 DEF KeptStep
  <2>4. OthersUpto(v, n, u[l], l)
    BY <2>1, <2>2, <2>3, OneMoreKept
  <2> QED
    BY <1>4, <2>4
<1> QED
  BY <1>5, <1>6

LEMMA WithoutIs ==
  ASSUME NEW v \in Seq(ServerItem), NEW n
  PROVE  /\ Mcp!Without(v, n) \in Seq(ServerItem)
         /\ ButFor(v, Mcp!Without(v, n), n)
         /\ \A x \in DOMAIN Mcp!Without(v, n) : Mcp!Without(v, n)[x].name # n
<1> DEFINE w == Mcp!Without(v, n)
<1>1. OthersUpto(v, n, w, Len(v))
  BY WithoutKeeps
<1>2. DOMAIN v = 1..Len(v)
  OBVIOUS
<1> HIDE DEF w
<1>3. ButFor(v, w, n)
  BY <1>1, <1>2 DEF OthersUpto, ButFor, AtMostOnce
<1>4. w \in Seq(ServerItem) /\ \A x \in DOMAIN w : w[x].name # n
  BY <1>1 DEF OthersUpto
<1> QED
  BY <1>3, <1>4 DEF w

(* Steps of the panel.                                                     *)

LEMMA NoRecordIsAbsent ==
  /\ \A e \in ServerEntry : e # Mcp!Absent /\ e.known
  /\ Mcp!Absent.known = FALSE
  /\ \A j \in JobType : j # Mcp!NoJob
  /\ \A c \in CallType : c # Mcp!NoCall
  /\ \A d \in DialogType : d # Mcp!NoDlg
<1>1. Mcp!Absent.known = FALSE /\ \A e \in ServerEntry : e.known
  BY DEF ServerEntry, Mcp!Absent
<1>2. \A j \in JobType : j # Mcp!NoJob
  <2>1. \A j \in JobType : DOMAIN j = {"op", "name", "over"}
    BY DEF JobType
  <2>2. DOMAIN Mcp!NoJob = {"op"}
    BY DEF Mcp!NoJob
  <2> QED
    BY <2>1, <2>2
<1>3. \A c \in CallType : c # Mcp!NoCall
  <2>1. \A c \in CallType : DOMAIN c = {"op", "conf"}
    BY DEF CallType
  <2>2. DOMAIN Mcp!NoCall = {"op"}
    BY DEF Mcp!NoCall
  <2> QED
    BY <2>1, <2>2
<1>4. \A d \in DialogType : d # Mcp!NoDlg
  <2>1. \A d \in DialogType : DOMAIN d = {"new", "name", "on", "filled", "setup"}
    BY DEF DialogType
  <2>2. DOMAIN Mcp!NoDlg = {"new", "name"}
    BY DEF Mcp!NoDlg
  <2> QED
    BY <2>1, <2>2
<1> QED
  BY <1>1, <1>2, <1>3, <1>4

LEMMA FormsAreSetups ==
  \A k \in 0..3, b \in {"no", "yes", "split"} : [n |-> k, blank |-> b] \in Mcp!Setups
BY DEF Mcp!Setups

LEMMA NamesAre ==
  /\ Mcp!ServerNames = {"git", "my db", "my_db"}
  /\ Mcp!Setups = [n : 0..3, blank : {"no", "yes", "split"}]
BY DEF Mcp!ServerNames, Mcp!Setups

\* What an operation does to the manager's servers.
LEMMA EffectIs ==
  ASSUME PanelTypeOK, NEW op \in Jobs, NEW n \in Mcp!ServerNames, NEW ups \in BOOLEAN,
         Mcp!Effect(op, n, ups)
  PROVE  /\ entry' \in [Mcp!ServerNames -> ServerEntry \cup {Mcp!Absent}]
         /\ \A m \in Mcp!ServerNames : m # n => entry'[m] = entry[m]
         /\ entry'[n].known => entry[n].known /\ entry'[n].setup = entry[n].setup
         /\ op # "remove" => (entry'[n].known <=> entry[n].known)
         /\ op # "remove" /\ entry[n].known =>
              entry'[n].on = IF op = "enable" THEN TRUE ELSE IF op = "disable" THEN FALSE ELSE entry[n].on
<1>0. entry \in [Mcp!ServerNames -> ServerEntry \cup {Mcp!Absent}]
  BY DEF PanelTypeOK
<1>1. CASE ~entry[n].known
  <2>1. entry' = entry
    BY <1>1 DEF Mcp!Effect
  <2> QED
    BY <1>0, <1>1, <2>1
<1>2. CASE entry[n].known
  <2>0. entry[n] \in ServerEntry
    BY <1>0, <1>2, NoRecordIsAbsent
  <2>1. CASE op = "remove"
    <3>1. entry' = [entry EXCEPT ![n] = Mcp!Absent]
      BY <1>2, <2>1 DEF Mcp!Effect
    <3>2. entry'[n] = Mcp!Absent /\ \A m \in Mcp!ServerNames : m # n => entry'[m] = entry[m]
      BY <1>0, <3>1
    <3>3. entry' \in [Mcp!ServerNames -> ServerEntry \cup {Mcp!Absent}]
      BY <1>0, <3>1
    <3> QED
      BY <2>1, <3>2, <3>3, NoRecordIsAbsent
  <2>2. CASE op # "remove"
    <3> DEFINE e == CASE op = "connect" -> [entry[n] EXCEPT !.up = ups]
                      [] op = "enable" -> [entry[n] EXCEPT !.on = TRUE, !.up = ups]
                      [] op = "disable" -> [entry[n] EXCEPT !.on = FALSE, !.up = FALSE]
                      [] op = "disconnect" -> [entry[n] EXCEPT !.up = FALSE]
                      [] op = "refresh" -> entry[n]
    <3>1. entry' = [entry EXCEPT ![n] = e]
      <4>1. CASE op = "connect"
        BY <1>0, <1>2, <4>1 DEF Mcp!Effect
      <4>2. CASE op = "enable"
        BY <1>0, <1>2, <4>2 DEF Mcp!Effect
      <4>3. CASE op = "disable"
        BY <1>0, <1>2, <4>3 DEF Mcp!Effect
      <4>4. CASE op = "disconnect"
        BY <1>0, <1>2, <4>4 DEF Mcp!Effect
      <4>5. CASE op = "refresh"
        BY <1>0, <1>2, <4>5 DEF Mcp!Effect
      <4> QED
        BY <2>2, <4>1, <4>2, <4>3, <4>4, <4>5 DEF Jobs
    <3>2. /\ e \in ServerEntry /\ e.setup = entry[n].setup
          /\ e.on = IF op = "enable" THEN TRUE ELSE IF op = "disable" THEN FALSE ELSE entry[n].on
      BY <2>0, <2>2 DEF Jobs, ServerEntry
    <3> HIDE DEF e
    <3>3. entry'[n] = e /\ \A m \in Mcp!ServerNames : m # n => entry'[m] = entry[m]
      BY <1>0, <3>1
    <3>4. entry' \in [Mcp!ServerNames -> ServerEntry \cup {Mcp!Absent}]
      BY <1>0, <3>1, <3>2
    <3> QED
      BY <1>2, <3>2, <3>3, <3>4, NoRecordIsAbsent
  <2> QED
    BY <2>1, <2>2
<1> QED
  BY <1>1, <1>2

\* What a save does, and for which servers the three still agree after it.
LEMMA SavesIs ==
  ASSUME PanelTypeOK, NEW v \in Seq(ServerItem), NEW off \in SUBSET Mcp!ServerNames, Mcp!Saves(v, off)
  PROVE  /\ conf1' = v /\ (disk' = v \/ disk' = disk) /\ disk' \in Seq(ServerItem)
         /\ strayed' \in SUBSET Mcp!ServerNames /\ strayed \subseteq strayed'
         /\ \A n \in Mcp!ServerNames \ strayed' :
              n \notin strayed /\ n \notin off /\ disk' = v /\ changed = 0 /\ agent = Mcp!NoCall
<1>1. /\ conf1' = v /\ (disk' = v \/ disk' = disk)
      /\ strayed' = strayed \cup off \cup (IF disk' = disk /\ disk # v THEN Mcp!ServerNames ELSE {})
                        \cup (IF changed > 0 \/ agent # Mcp!NoCall THEN Mcp!ServerNames ELSE {})
  BY DEF Mcp!Saves
<1>2. disk \in Seq(ServerItem) /\ changed \in Nat /\ strayed \in SUBSET Mcp!ServerNames
  BY DEF PanelTypeOK
<1>3. \A n \in Mcp!ServerNames \ strayed' :
        /\ n \notin strayed /\ n \notin off /\ ~(disk' = disk /\ disk # v)
        /\ ~(changed > 0) /\ agent = Mcp!NoCall
  BY <1>1, Zenon
<1>4. \A n \in Mcp!ServerNames \ strayed' : disk' = v /\ changed = 0
  BY <1>1, <1>2, <1>3
<1>5. strayed' \in SUBSET Mcp!ServerNames /\ strayed \subseteq strayed'
  BY <1>1, <1>2
<1> QED
  BY <1>1, <1>2, <1>3, <1>4, <1>5

\* A step that leaves the lists, the agent and what a server is to be.
LEMMA KeptOn ==
  ASSUME NEW n, Kept(n), UNCHANGED <<conf1, disk, agent, changed>>,
         entry'[n].known <=> entry[n].known,
         entry[n].known => entry'[n].setup = entry[n].setup /\ Flag(n)' = Flag(n),
         AgentAt(n) /\ ~Toggled(n) => ~Toggled(n)'
  PROVE  Kept(n)'
<1>1. AgentAt(n)' <=> AgentAt(n)
  BY DEF AgentAt
<1>2. ASSUME NEW items, Agrees(items, n) PROVE Lists(items, n, entry'[n], Flag(n)')
  BY <1>2 DEF Agrees, Lists
<1>3. CASE ~AgentAt(n)
  <2>1. Agrees(disk, n)'
    BY <1>2, <1>3 DEF Kept, Agrees
  <2>2. changed = 0 => Agrees(conf1, n)'
    BY <1>2, <1>3 DEF Kept, Agrees
  <2> QED
    BY <1>1, <1>3, <2>1, <2>2 DEF Kept
<1>4. CASE AgentAt(n)
  <2>1. AgentKnows(n) /\ ~Toggled(n) /\ ~Toggled(n)'
    BY <1>4 DEF Kept, AgentKnows
  <2>2. entry[n].known => entry'[n].on = entry[n].on
    BY <2>1 DEF Flag
  <2>3. AgentKnows(n)'
    BY <2>1, <2>2 DEF AgentKnows
  <2> QED
    BY <1>1, <1>4, <2>3 DEF Kept
<1> QED
  BY <1>3, <1>4

\* Steps that change neither a server nor a list.
LEMMA QuietStep ==
  ASSUME PanelInv, UNCHANGED <<entry, conf1, disk, late, agent, changed>>,
         dlg' \in DialogType \cup {Mcp!NoDlg}, panelJob' \in JobType \cup {Mcp!NoJob},
         strayed' \in SUBSET Mcp!ServerNames, strayed \subseteq strayed', RemovalsStray',
         \A n \in Mcp!ServerNames \ strayed' :
           (Toggled(n)' <=> Toggled(n)) /\ (Toggled(n) => panelJob'.op = panelJob.op)
  PROVE  PanelInv'
<1>1. PanelTypeOK'
  BY DEF PanelInv, PanelTypeOK
<1>2. FileNamesOnly'
  BY DEF PanelInv, FileNamesOnly
<1>3. ASSUME NEW n \in Clean' PROVE Kept(n)'
  <2>1. n \in Clean /\ n \in Mcp!ServerNames \ strayed'
    BY <1>3 DEF Clean
  <2>2. Kept(n)
    BY <2>1 DEF PanelInv
  <2>3. Toggled(n)' <=> Toggled(n)
    BY <2>1
  <2>4. Flag(n)' = Flag(n)
    BY <2>1, <2>3 DEF Flag
  <2> QED
    BY <2>2, <2>3, <2>4, KeptOn
<1> QED
  BY <1>1, <1>2, <1>3 DEF PanelInv

LEMMA SameJob ==
  ASSUME panelJob' = panelJob
  PROVE  /\ \A n : (Toggled(n)' <=> Toggled(n)) /\ (Toggled(n) => panelJob'.op = panelJob.op)
         /\ RemovalsStray /\ strayed \subseteq strayed' => RemovalsStray'
BY DEF Toggled, Running, RemovalsStray

\* Clicks and keys that change the dialog or the question only.
LEMMA DialogOnly ==
  ASSUME PanelInv, UNCHANGED <<entry, conf1, disk, panelJob, late, agent, changed, strayed>>,
         dlg' \in DialogType \cup {Mcp!NoDlg}
  PROVE  PanelInv'
<1>1. /\ panelJob \in JobType \cup {Mcp!NoJob} /\ strayed \in SUBSET Mcp!ServerNames
      /\ RemovalsStray
  BY DEF PanelInv, PanelTypeOK
<1> QED
  BY <1>1, SameJob, QuietStep

LEMMA JobCollectedStep == ASSUME PanelInv, Mcp!JobCollected PROVE PanelInv'
<1>1. /\ panelJob.over /\ panelJob' = Mcp!NoJob
      /\ UNCHANGED <<entry, conf1, disk, late, dlg, deleting, agent, changed, strayed, userSteps, fails>>
  BY DEF Mcp!JobCollected
<1>2. \A n : ~Toggled(n) /\ ~Toggled(n)'
  BY <1>1 DEF Toggled, Running
<1>3. RemovalsStray'
  BY <1>1 DEF RemovalsStray, Running
<1>4. dlg \in DialogType \cup {Mcp!NoDlg} /\ strayed \in SUBSET Mcp!ServerNames
  BY DEF PanelInv, PanelTypeOK
<1> QED
  BY <1>1, <1>2, <1>3, <1>4, QuietStep

LEMMA RowButtonStep ==
  ASSUME PanelInv, NEW op \in {"connect", "disconnect", "refresh"}, NEW n \in Mcp!ServerNames,
         Mcp!RowButton(op, n)
  PROVE  PanelInv'
<1>1. /\ panelJob = Mcp!NoJob /\ panelJob' = [op |-> op, name |-> n, over |-> FALSE]
      /\ UNCHANGED <<entry, conf1, disk, late, dlg, deleting, agent, changed, strayed, fails>>
  BY DEF Mcp!RowButton, Mcp!Starts
<1>2. \A m : ~Toggled(m) /\ ~Toggled(m)'
  BY <1>1 DEF Toggled, Running
<1>3. RemovalsStray'
  BY <1>1 DEF RemovalsStray, Running
<1>4. panelJob' \in JobType
  BY <1>1 DEF JobType, Jobs
<1>5. dlg \in DialogType \cup {Mcp!NoDlg} /\ strayed \in SUBSET Mcp!ServerNames
  BY DEF PanelInv, PanelTypeOK
<1> QED
  BY <1>1, <1>2, <1>3, <1>4, <1>5, QuietStep

\* A server that the panel deletes strays: the list in the configuration keeps it.
LEMMA ConfirmsDeleteStep == ASSUME PanelInv, Mcp!ConfirmsDelete PROVE PanelInv'
<1>1. /\ deleting \in Mcp!ServerNames
      /\ panelJob' = IF panelJob = Mcp!NoJob THEN [op |-> "remove", name |-> deleting, over |-> FALSE] ELSE panelJob
      /\ strayed' = IF panelJob = Mcp!NoJob THEN strayed \cup {deleting} ELSE strayed
      /\ UNCHANGED <<entry, conf1, disk, late, dlg, agent, changed, fails>>
  BY DEF Mcp!ConfirmsDelete, Mcp!Starts, Mcp!Known
<1>2. dlg \in DialogType \cup {Mcp!NoDlg} /\ strayed \in SUBSET Mcp!ServerNames /\ RemovalsStray
      /\ panelJob \in JobType \cup {Mcp!NoJob}
  BY DEF PanelInv, PanelTypeOK
<1>3. strayed' \in SUBSET Mcp!ServerNames /\ strayed \subseteq strayed'
  BY <1>1, <1>2
<1>4. CASE panelJob = Mcp!NoJob
  <2>1. \A m : ~Toggled(m) /\ ~Toggled(m)'
    BY <1>1, <1>4 DEF Toggled, Running
  <2>2. RemovalsStray'
    BY <1>1, <1>4 DEF RemovalsStray, Running
  <2>3. panelJob' \in JobType
    BY <1>1, <1>4 DEF JobType, Jobs
  <2> QED
    BY <1>1, <1>2, <1>3, <2>1, <2>2, <2>3, QuietStep
<1>5. CASE panelJob # Mcp!NoJob
  <2>1. panelJob' = panelJob
    BY <1>1, <1>5
  <2> QED
    BY <1>1, <1>2, <1>3, <2>1, SameJob, QuietStep
<1> QED
  BY <1>4, <1>5

LEMMA EditsServerStep ==
  ASSUME PanelInv, NEW n \in Mcp!ServerNames, Mcp!EditsServer(n) PROVE PanelInv'
<1>1. /\ dlg' = IF Mcp!Of(conf1, n) # {} THEN Mcp!Shown(conf1[Mcp!First(conf1, n)])
                ELSE Mcp!Shown(Mcp!Configured(n, [n |-> 0, blank |-> "no"], TRUE))
      /\ UNCHANGED <<entry, conf1, disk, panelJob, late, deleting, agent, changed, strayed, fails>>
  BY DEF Mcp!EditsServer
<1>2. \A c \in ServerItem : Mcp!Shown(c) \in DialogType
  <2>1. ASSUME NEW c \in ServerItem PROVE Mcp!Shown(c) \in DialogType
    <3>1. c.name \in Mcp!ServerNames /\ c.on \in BOOLEAN /\ c.setup \in Mcp!Setups
      BY <2>1 DEF ServerItem
    <3> QED
      BY <3>1 DEF DialogType, Mcp!Shown
  <2> QED
    BY <2>1
<1>3. Mcp!Configured(n, [n |-> 0, blank |-> "no"], TRUE) \in ServerItem
  BY FormsAreSetups DEF ServerItem, Mcp!Configured
<1>4. conf1 \in Seq(ServerItem)
  BY DEF PanelInv, PanelTypeOK
<1>5. Mcp!Of(conf1, n) # {} => conf1[Mcp!First(conf1, n)] \in ServerItem
  BY <1>4, FirstIs, ItemsOf
<1>6. dlg' \in DialogType
  BY <1>1, <1>2, <1>3, <1>5
<1> QED
  BY <1>1, <1>6, DialogOnly

LEMMA TypesServerStep ==
  ASSUME PanelInv, NEW n \in Mcp!ServerNames, Mcp!TypesServer(n, 1) PROVE PanelInv'
<1>1. /\ dlg # Mcp!NoDlg
      /\ dlg' = [dlg EXCEPT !.name = n, !.filled = TRUE, !.setup = [n |-> 1, blank |-> "no"]]
      /\ UNCHANGED <<entry, conf1, disk, panelJob, late, deleting, agent, changed, strayed, fails>>
  BY DEF Mcp!TypesServer
<1>2. dlg \in DialogType
  BY <1>1 DEF PanelInv, PanelTypeOK
<1>3. [n |-> 1, blank |-> "no"] \in Mcp!Setups
  BY FormsAreSetups
<1>4. dlg' \in DialogType
  BY <1>1, <1>2, <1>3 DEF DialogType
<1> QED
  BY <1>1, <1>4, DialogOnly

LEMMA OpensNewStep == ASSUME PanelInv, Mcp!OpensNew PROVE PanelInv'
<1>1. /\ dlg' = [new |-> TRUE, name |-> "", on |-> TRUE, filled |-> FALSE, setup |-> [n |-> 0, blank |-> "no"]]
      /\ UNCHANGED <<entry, conf1, disk, panelJob, late, deleting, agent, changed, strayed, fails>>
  BY DEF Mcp!OpensNew
<1>2. [n |-> 0, blank |-> "no"] \in Mcp!Setups
  BY FormsAreSetups
<1>3. dlg' \in DialogType
  BY <1>1, <1>2 DEF DialogType
<1> QED
  BY <1>1, <1>3, DialogOnly

(* The panel's job.                                                        *)

LEMMA JobRunsStep == ASSUME PanelInv, NEW ups \in BOOLEAN, Mcp!JobRuns(ups) PROVE PanelInv'
<1>1. /\ panelJob # Mcp!NoJob /\ ~panelJob.over
      /\ Mcp!Effect(panelJob.op, panelJob.name, ups)
      /\ panelJob' = [panelJob EXCEPT !.over = TRUE]
      /\ UNCHANGED <<conf1, disk, late, dlg, deleting, agent, changed, strayed, userSteps, fails>>
  BY DEF Mcp!JobRuns
<1>0. PICK op, name : op = panelJob.op /\ name = panelJob.name
  OBVIOUS
<1>2. PanelTypeOK /\ panelJob \in JobType /\ op \in Jobs /\ name \in Mcp!ServerNames
  BY <1>0, <1>1 DEF PanelInv, PanelTypeOK, JobType
<1>3. panelJob' \in JobType /\ panelJob'.over
  BY <1>1, <1>2 DEF JobType
<1>4. /\ entry' \in [Mcp!ServerNames -> ServerEntry \cup {Mcp!Absent}]
      /\ \A m \in Mcp!ServerNames : m # name => entry'[m] = entry[m]
      /\ entry'[name].known => entry[name].known /\ entry'[name].setup = entry[name].setup
      /\ op # "remove" => (entry'[name].known <=> entry[name].known)
      /\ op # "remove" /\ entry[name].known =>
           entry'[name].on = IF op = "enable" THEN TRUE ELSE IF op = "disable" THEN FALSE ELSE entry[name].on
  <2>1. Mcp!Effect(op, name, ups)
    BY <1>0, <1>1
  <2> QED
    BY <1>2, <2>1, EffectIs
<1>5. PanelTypeOK'
  BY <1>1, <1>2, <1>3, <1>4 DEF PanelTypeOK
<1>6. FileNamesOnly'
  <2>1. entry'["my db"].known => entry'["my db"].setup.n = 2
    BY <1>4, NamesAre DEF PanelInv, FileNamesOnly
  <2> QED
    BY <1>1, <2>1 DEF PanelInv, FileNamesOnly
<1>7. ~Running' /\ \A m : ~Toggled(m)'
  BY <1>3 DEF Running, Toggled
<1>8. Running
  BY <1>1 DEF Running
<1>9. ASSUME NEW n \in Clean' PROVE Kept(n)'
  <2>1. n \in Clean /\ n \notin strayed /\ n \in Mcp!ServerNames
    BY <1>1, <1>9 DEF Clean
  <2>2. Kept(n)
    BY <2>1 DEF PanelInv
  <2>3. Flag(n)' = entry'[n].on
    BY <1>7 DEF Flag
  <2>4. CASE n = name
    <3>1. op # "remove"
      BY <1>0, <1>8, <2>1, <2>4 DEF PanelInv, RemovalsStray
    <3>2. Flag(n) = IF op = "enable" THEN TRUE ELSE IF op = "disable" THEN FALSE ELSE entry[n].on
      BY <1>0, <1>8, <2>4 DEF Flag, Toggled
    <3> QED
      BY <1>1, <1>4, <1>7, <2>2, <2>3, <2>4, <3>1, <3>2, KeptOn
  <2>5. CASE n # name
    <3>1. Flag(n) = entry[n].on
      BY <1>0, <2>5 DEF Flag, Toggled
    <3>2. entry'[n] = entry[n]
      BY <1>4, <2>1, <2>5
    <3> QED
      BY <1>1, <1>7, <2>2, <2>3, <3>1, <3>2, KeptOn
  <2> QED
    BY <2>4, <2>5
<1> QED
  BY <1>5, <1>6, <1>7, <1>9 DEF PanelInv, RemovalsStray

LEMMA JobTimesOutStep == ASSUME PanelInv, Mcp!JobTimesOut PROVE PanelInv'
<1>1. /\ panelJob # Mcp!NoJob /\ ~panelJob.over
      /\ late' = late \cup {[op |-> panelJob.op, name |-> panelJob.name]}
      /\ panelJob' = [panelJob EXCEPT !.over = TRUE]
      /\ UNCHANGED <<entry, conf1, disk, dlg, deleting, agent, changed, strayed, userSteps>>
  BY DEF Mcp!JobTimesOut
<1>2. PanelTypeOK /\ panelJob \in JobType
  BY <1>1 DEF PanelInv, PanelTypeOK
<1>3. panelJob' \in JobType /\ panelJob'.over
  BY <1>1, <1>2 DEF JobType
<1>4. late' \in SUBSET [op : Jobs, name : Mcp!ServerNames]
  BY <1>1, <1>2 DEF PanelTypeOK, JobType
<1>5. PanelTypeOK'
  BY <1>1, <1>2, <1>3, <1>4 DEF PanelTypeOK
<1>6. FileNamesOnly'
  BY <1>1 DEF PanelInv, FileNamesOnly
<1>7. ~Running' /\ \A m : ~Toggled(m)'
  BY <1>3 DEF Running, Toggled
<1>8. ASSUME NEW n \in Clean' PROVE Kept(n)'
  <2>0. n \in Mcp!ServerNames /\ n \notin strayed' /\ \A j \in late' : j.name # n
    BY <1>8 DEF Clean
  <2>1. n \in Clean /\ n # panelJob.name
    <3>1. n \notin strayed /\ \A j \in late : j.name # n
      BY <1>1, <2>0
    <3>2. [op |-> panelJob.op, name |-> panelJob.name] \in late'
      BY <1>1
    <3>3. n # panelJob.name
      BY <2>0, <3>2
    <3> QED
      BY <2>0, <3>1, <3>3 DEF Clean
  <2>2. Flag(n)' = entry[n].on /\ Flag(n) = entry[n].on
    BY <1>1, <1>7, <2>1 DEF Flag, Toggled
  <2>3. Kept(n)
    BY <2>1 DEF PanelInv
  <2> QED
    BY <1>1, <1>7, <2>2, <2>3, KeptOn
<1> QED
  BY <1>5, <1>6, <1>7, <1>8 DEF PanelInv, RemovalsStray

LEMMA LateRunsStep ==
  ASSUME PanelInv, NEW ups \in BOOLEAN, NEW j \in late, Mcp!LateRuns(j, ups) PROVE PanelInv'
<1>1. /\ Mcp!Effect(j.op, j.name, ups)
      /\ late' = late \ {j} /\ strayed' = strayed \cup {j.name}
      /\ UNCHANGED <<conf1, disk, panelJob, dlg, deleting, agent, changed, userSteps, fails>>
  BY DEF Mcp!LateRuns
<1>2. PanelTypeOK /\ j.op \in Jobs /\ j.name \in Mcp!ServerNames
  BY DEF PanelInv, PanelTypeOK
<1>3. /\ entry' \in [Mcp!ServerNames -> ServerEntry \cup {Mcp!Absent}]
      /\ \A m \in Mcp!ServerNames : m # j.name => entry'[m] = entry[m]
      /\ entry'[j.name].known => entry[j.name].known /\ entry'[j.name].setup = entry[j.name].setup
  BY <1>1, <1>2, EffectIs
<1>4. PanelTypeOK'
  <2>1. late' \in SUBSET [op : Jobs, name : Mcp!ServerNames] /\ strayed' \in SUBSET Mcp!ServerNames
    BY <1>1, <1>2 DEF PanelTypeOK
  <2> QED
    BY <1>1, <1>2, <1>3, <2>1 DEF PanelTypeOK
<1>5. FileNamesOnly'
  <2>1. entry'["my db"].known => entry'["my db"].setup.n = 2
    BY <1>3, NamesAre DEF PanelInv, FileNamesOnly
  <2> QED
    BY <1>1, <2>1 DEF PanelInv, FileNamesOnly
<1>6. RemovalsStray'
  BY <1>1, SameJob DEF PanelInv
<1>7. ASSUME NEW n \in Clean' PROVE Kept(n)'
  <2>1. n \in Mcp!ServerNames /\ n # j.name /\ n \notin strayed
    BY <1>1, <1>7 DEF Clean
  <2>2. n \in Clean
    BY <1>1, <1>7, <2>1 DEF Clean
  <2>3. Toggled(n)' <=> Toggled(n)
    BY <1>1, SameJob
  <2>4. entry'[n] = entry[n]
    BY <1>3, <2>1
  <2>5. Flag(n)' = Flag(n)
    BY <1>1, <2>3, <2>4 DEF Flag
  <2>6. Kept(n)
    BY <2>2 DEF PanelInv
  <2> QED
    BY <1>1, <2>3, <2>4, <2>5, <2>6, KeptOn
<1> QED
  BY <1>4, <1>5, <1>6, <1>7 DEF PanelInv

(* The panel saves the list.                                               *)

\* What a save of the list v is: all but one name as before, that one as the manager has it.
SavesFor(name, v) ==
  /\ conf1' = v /\ (disk' = v \/ disk' = disk)
  /\ v \in Seq(ServerItem) /\ ButFor(conf1, v, name) /\ FromFile(v)
  /\ strayed' \in SUBSET Mcp!ServerNames /\ strayed \subseteq strayed'
  /\ \A n \in Mcp!ServerNames \ strayed' : disk' = v /\ changed = 0 /\ agent = Mcp!NoCall
  /\ late' = late /\ agent' = agent /\ changed' = changed

LEMMA SavedStep ==
  ASSUME PanelInv, NEW name \in Mcp!ServerNames, NEW v, SavesFor(name, v),
         entry' \in [Mcp!ServerNames -> ServerEntry \cup {Mcp!Absent}],
         entry'["my db"].known => entry'["my db"].setup.n = 2,
         \A m \in Mcp!ServerNames : m # name => entry'[m] = entry[m],
         dlg' \in DialogType \cup {Mcp!NoDlg}, panelJob' \in JobType \cup {Mcp!NoJob},
         RemovalsStray',
         \A m \in Mcp!ServerNames : m # name =>
           (Toggled(m)' <=> Toggled(m)) /\ (Toggled(m) => panelJob'.op = panelJob.op),
         name \in Clean' => Lists(v, name, entry'[name], Flag(name)')
  PROVE  PanelInv'
<1>1. disk \in Seq(ServerItem) /\ disk' \in Seq(ServerItem)
  BY DEF PanelInv, PanelTypeOK, SavesFor
<1>2. PanelTypeOK'
  BY <1>1 DEF PanelInv, PanelTypeOK, SavesFor
<1>3. FileNamesOnly'
  <2>1. FromFile(conf1') /\ FromFile(disk')
    BY DEF PanelInv, FileNamesOnly, SavesFor
  <2> QED
    BY <2>1 DEF PanelInv, FileNamesOnly, SavesFor
<1>4. ASSUME NEW n \in Clean' PROVE Kept(n)'
  <2>1. n \in Mcp!ServerNames /\ n \notin strayed' /\ \A j \in late' : j.name # n
    BY <1>4 DEF Clean
  <2>2. n \in Clean /\ disk' = v /\ conf1' = v /\ changed = 0 /\ agent = Mcp!NoCall /\ agent' = agent
    BY <2>1 DEF Clean, SavesFor
  <2>3. ~AgentAt(n) /\ ~AgentAt(n)'
    BY <2>2 DEF AgentAt
  <2>4. Lists(v, n, entry'[n], Flag(n)')
    <3>1. CASE n = name
      BY <1>4, <3>1
    <3>2. CASE n # name
      <4>1. Lists(conf1, n, entry[n], Flag(n))
        BY <2>2, <2>3 DEF PanelInv, Kept, Agrees
      <4>2. entry'[n] = entry[n]
        BY <2>1, <3>2
      <4>3. Flag(n)' = Flag(n)
        BY <2>1, <3>2, <4>2 DEF Flag
      <4>4. PICK u, d, on : u = conf1 /\ d = entry[n] /\ on = Flag(n)
        OBVIOUS
      <4>5. Lists(v, n, d, on)
        <5>1. ButFor(u, v, name) /\ Lists(u, n, d, on)
          BY <4>1, <4>4 DEF SavesFor
        <5> QED
          BY <3>2, <5>1, OthersKept
      <4> QED
        BY <4>2, <4>3, <4>4, <4>5
    <3> QED
      BY <3>1, <3>2
  <2>5. Agrees(disk, n)' /\ Agrees(conf1, n)'
    BY <2>2, <2>4 DEF Agrees
  <2> QED
    BY <2>3, <2>5 DEF Kept
<1> QED
  BY <1>2, <1>3, <1>4 DEF PanelInv

\* A list is itself but for any name.
LEMMA ItselfBut == ASSUME NEW v, NEW n PROVE ButFor(v, v, n)
BY DEF ButFor

LEMMA TogglesServerStep ==
  ASSUME PanelInv, NEW n \in Mcp!ServerNames, Mcp!TogglesServer(n) PROVE PanelInv'
<1>1. PICK on, v, u, off :
        /\ on = ~entry[n].on /\ v = Mcp!FlagSet(n, on) /\ u = conf1
        /\ off = IF panelJob = Mcp!NoJob THEN {} ELSE {n}
  OBVIOUS
<1>2. /\ n \in Mcp!Known
      /\ panelJob' = IF panelJob = Mcp!NoJob
                     THEN [op |-> IF on THEN "enable" ELSE "disable", name |-> n, over |-> FALSE]
                     ELSE panelJob
      /\ Mcp!Saves(v, off)
      /\ UNCHANGED <<entry, late, dlg, deleting, agent, changed>>
  BY <1>1 DEF Mcp!TogglesServer, Mcp!Starts
<1>3. PanelTypeOK /\ u \in Seq(ServerItem) /\ FromFile(u) /\ RemovalsStray
  BY <1>1 DEF PanelInv, PanelTypeOK, FileNamesOnly
<1>4. entry[n].known /\ entry[n] \in ServerEntry /\ entry[n].on \in BOOLEAN /\ on \in BOOLEAN
  <2>1. entry[n].known
    BY <1>2 DEF Mcp!Known
  <2>2. entry[n] \in ServerEntry
    BY <1>3, <2>1, NoRecordIsAbsent DEF PanelTypeOK
  <2> QED
    BY <1>1, <2>1, <2>2 DEF ServerEntry
<1>5. CASE Mcp!Of(u, n) = {}
  <2>1. v = u
    BY <1>1, <1>5 DEF Mcp!FlagSet
  <2> QED
    <3>1. ButFor(u, v, n) /\ v \in Seq(ServerItem) /\ FromFile(v)
      BY <1>3, <2>1, ItselfBut
    <3>2. \A i \in DOMAIN u : u[i].name # n
      BY <1>5 DEF Mcp!Of
    <3>3. SavesFor(n, v)
      <4>1. off \in SUBSET Mcp!ServerNames
        BY <1>1
      <4> QED
        BY <1>1, <1>2, <1>3, <3>1, <4>1, SavesIs DEF SavesFor
    <3>4. n \notin Clean'
      <4>1. SUFFICES ASSUME n \in Clean' PROVE FALSE
        OBVIOUS
      <4>2. n \in Clean /\ changed = 0 /\ agent = Mcp!NoCall
        BY <3>3, <4>1 DEF Clean, SavesFor
      <4>3. Lists(u, n, entry[n], Flag(n))
        BY <1>1, <4>2 DEF PanelInv, Kept, Agrees, AgentAt
      <4> QED
        BY <1>4, <3>2, <4>3 DEF Lists, Mcp!Configured
    <3>5. panelJob' \in JobType \cup {Mcp!NoJob} /\ dlg' \in DialogType \cup {Mcp!NoDlg}
      BY <1>2, <1>3 DEF PanelTypeOK, JobType, Jobs
    <3>6. RemovalsStray'
      BY <1>2, <1>3, <3>3 DEF RemovalsStray, Running, SavesFor
    <3>7. \A m \in Mcp!ServerNames : m # n =>
            (Toggled(m)' <=> Toggled(m)) /\ (Toggled(m) => panelJob'.op = panelJob.op)
      BY <1>2 DEF Toggled, Running
    <3>8. entry' \in [Mcp!ServerNames -> ServerEntry \cup {Mcp!Absent}]
      BY <1>2, <1>3 DEF PanelTypeOK
    <3>9. entry'["my db"].known => entry'["my db"].setup.n = 2
      BY <1>2 DEF PanelInv, FileNamesOnly
    <3> QED
      BY <1>2, <3>3, <3>4, <3>5, <3>6, <3>7, <3>8, <3>9, SavedStep
<1>6. CASE Mcp!Of(u, n) # {}
  <2>1. PICK i : i = Mcp!First(u, n)
    OBVIOUS
  <2>2. i \in DOMAIN u /\ u[i].name = n /\ u[i] \in ServerItem
    BY <1>3, <1>6, <2>1, FirstIs, ItemsOf
  <2>3. PICK c : c = [u[i] EXCEPT !.on = on]
    OBVIOUS
  <2>4. c \in ServerItem /\ c.name = n /\ c.setup = u[i].setup /\ c = Mcp!Configured(n, u[i].setup, on)
    BY <1>4, <2>2, <2>3 DEF ServerItem, Mcp!Configured
  <2>5. v = [u EXCEPT ![i] = c]
    BY <1>1, <1>6, <2>1, <2>3 DEF Mcp!FlagSet
  <2>6. /\ v \in Seq(ServerItem) /\ ButFor(u, v, n) /\ FromFile(v)
        /\ \E j \in DOMAIN v : v[j] = c
        /\ AtMostOnce(u, n) => AtMostOnce(v, n)
    <3>1. u \in Seq(ServerItem) /\ c \in ServerItem /\ i \in DOMAIN u /\ u[i].name = c.name
      BY <1>3, <2>2, <2>4
    <3>2. /\ v \in Seq(ServerItem) /\ ButFor(u, v, c.name)
          /\ \E j \in DOMAIN v : v[j] = c
          /\ AtMostOnce(u, c.name) => AtMostOnce(v, c.name)
          /\ c.setup = u[i].setup /\ FromFile(u) => FromFile(v)
      BY <2>5, <3>1, ReplacedIs
    <3> QED
      BY <1>3, <2>4, <3>2
  <2>7. SavesFor(n, v) /\ \A m \in Mcp!ServerNames \ strayed' : m \notin off
    <3>1. off \in SUBSET Mcp!ServerNames
      BY <1>1
    <3>2. /\ conf1' = v /\ (disk' = v \/ disk' = disk)
          /\ strayed' \in SUBSET Mcp!ServerNames /\ strayed \subseteq strayed'
          /\ \A m \in Mcp!ServerNames \ strayed' :
               m \notin off /\ disk' = v /\ changed = 0 /\ agent = Mcp!NoCall
      BY <1>2, <1>3, <2>6, <3>1, SavesIs
    <3> QED
      BY <1>1, <1>2, <2>6, <3>2 DEF SavesFor
  <2>8. ASSUME n \in Clean' PROVE Lists(v, n, entry'[n], Flag(n)')
    <3>1. n \in Clean /\ changed = 0 /\ agent = Mcp!NoCall /\ n \notin strayed'
      BY <2>7, <2>8 DEF Clean, SavesFor
    <3>2. panelJob = Mcp!NoJob
      BY <1>1, <2>7, <3>1
    <3>3. Lists(u, n, entry[n], entry[n].on)
      <4>1. Flag(n) = entry[n].on
        BY <3>2 DEF Flag, Toggled, Running
      <4> QED
        BY <1>1, <3>1, <4>1 DEF PanelInv, Kept, Agrees, AgentAt
    <3>4. PICK j \in DOMAIN u : u[j] = Mcp!Configured(n, entry[n].setup, entry[n].on)
      BY <1>4, <3>3 DEF Lists
    <3>5. u[j].name = n /\ u[j].setup = entry[n].setup
      BY <3>4 DEF Mcp!Configured
    <3>6. c = Mcp!Configured(n, entry[n].setup, on)
      BY <2>2, <2>4, <3>3, <3>5 DEF Lists, AtMostOnce
    <3>7. Flag(n)' = on
      <4>1. panelJob' = [op |-> IF on THEN "enable" ELSE "disable", name |-> n, over |-> FALSE]
        BY <1>2, <3>2
      <4>2. panelJob' \in JobType
        BY <4>1 DEF JobType, Jobs
      <4>3. panelJob' # Mcp!NoJob
        BY <4>2, NoRecordIsAbsent
      <4>4. Toggled(n)'
        BY <4>1, <4>3 DEF Toggled, Running
      <4>5. panelJob'.op = "enable" <=> on
        BY <4>1
      <4> QED
        BY <1>4, <4>4, <4>5 DEF Flag
    <3> QED
      BY <1>2, <1>4, <2>6, <3>3, <3>6, <3>7 DEF Lists
  <2>9. panelJob' \in JobType \cup {Mcp!NoJob} /\ dlg' \in DialogType \cup {Mcp!NoDlg}
    BY <1>2, <1>3 DEF PanelTypeOK, JobType, Jobs
  <2>10. RemovalsStray'
    BY <1>2, <1>3, <2>7 DEF RemovalsStray, Running, SavesFor
  <2>11. \A m \in Mcp!ServerNames : m # n =>
          (Toggled(m)' <=> Toggled(m)) /\ (Toggled(m) => panelJob'.op = panelJob.op)
    BY <1>2 DEF Toggled, Running
  <2>12. entry' \in [Mcp!ServerNames -> ServerEntry \cup {Mcp!Absent}]
    BY <1>2, <1>3 DEF PanelTypeOK
  <2>13. entry'["my db"].known => entry'["my db"].setup.n = 2
    BY <1>2 DEF PanelInv, FileNamesOnly
  <2> QED
    BY <1>2, <2>7, <2>8, <2>9, <2>10, <2>11, <2>12, <2>13, SavedStep
<1> QED
  BY <1>5, <1>6

\* The dialog's server is known afterwards, as it was typed.
LEMMA EntryIs ==
  ASSUME PanelTypeOK, NEW c \in ServerItem,
         entry' = [entry EXCEPT ![c.name] =
                     IF @.known THEN [@ EXCEPT !.setup = c.setup, !.on = c.on] ELSE Mcp!NewEntry(c)]
  PROVE  /\ entry' \in [Mcp!ServerNames -> ServerEntry \cup {Mcp!Absent}]
         /\ \A m \in Mcp!ServerNames : m # c.name => entry'[m] = entry[m]
         /\ entry'[c.name].known /\ entry'[c.name].setup = c.setup /\ entry'[c.name].on = c.on
<1>1. c.name \in Mcp!ServerNames /\ c.setup \in Mcp!Setups /\ c.on \in BOOLEAN
  BY DEF ServerItem
<1>2. entry \in [Mcp!ServerNames -> ServerEntry \cup {Mcp!Absent}]
  BY DEF PanelTypeOK
<1>3. PICK d, e : /\ d = entry[c.name]
                  /\ e = IF d.known THEN [d EXCEPT !.setup = c.setup, !.on = c.on] ELSE Mcp!NewEntry(c)
  OBVIOUS
<1>4. d.known => d \in ServerEntry
  BY <1>1, <1>2, <1>3, NoRecordIsAbsent
<1>5. e \in ServerEntry /\ e.setup = c.setup /\ e.on = c.on
  <2>1. CASE d.known
    BY <1>1, <1>3, <1>4, <2>1 DEF ServerEntry
  <2>2. CASE ~d.known
    BY <1>1, <1>3, <2>2 DEF ServerEntry, Mcp!NewEntry
  <2> QED
    BY <2>1, <2>2
<1>6. entry' = [entry EXCEPT ![c.name] = e]
  BY <1>1, <1>2, <1>3
<1> QED
  BY <1>1, <1>2, <1>5, <1>6, NoRecordIsAbsent

LEMMA AppliesStep ==
  ASSUME PanelInv, NEW on \in BOOLEAN, dlg # Mcp!NoDlg, Mcp!Applies(on),
         UNCHANGED <<late, deleting, agent, changed>>
  PROVE  PanelInv'
<1>0. PanelTypeOK /\ RemovalsStray /\ dlg \in DialogType
  BY DEF PanelInv, PanelTypeOK
<1>1. CASE ~Mcp!Valid
  <2>1. dlg' = [dlg EXCEPT !.on = on] /\ UNCHANGED <<entry, conf1, disk, panelJob, strayed, fails>>
    BY <1>1 DEF Mcp!Applies
  <2>2. dlg' \in DialogType
    BY <1>0, <2>1 DEF DialogType
  <2> QED
    BY <2>1, <2>2, DialogOnly
<1>2. CASE Mcp!Valid
  <2>1. PICK c : c = Mcp!Configured(Mcp!sanitize_name_part(dlg.name), Mcp!Built, on)
    OBVIOUS
  <2>2. PICK u, v, off :
          /\ u = conf1 /\ v = Mcp!Listed(c)
          /\ off = {n \in {c.name} : Mcp!Doubled(n) \/ Mcp!Orphan(n) \/ Mcp!Toggling(n)}
    OBVIOUS
  <2>3. c \in ServerItem /\ c.name # "my db" /\ c.on = on
    <3>1. dlg.name \in Mcp!ServerNames
      BY <1>0, <1>2 DEF Mcp!Valid, DialogType
    <3>2. Mcp!sanitize_name_part(dlg.name) \in Mcp!ServerNames /\ Mcp!sanitize_name_part(dlg.name) # "my db"
      BY <3>1, NamesAre DEF Mcp!sanitize_name_part
    <3>3. Mcp!Built \in Mcp!Setups
      <4>1. dlg.setup.n \in 0..3 /\ dlg.setup.blank \in {"no", "yes", "split"}
        BY <1>0, NamesAre DEF DialogType
      <4>2. (IF dlg.setup.blank = "yes" THEN "split" ELSE dlg.setup.blank) \in {"no", "yes", "split"}
        BY <4>1
      <4> QED
        BY <4>1, <4>2, FormsAreSetups DEF Mcp!Built
    <3> QED
      BY <2>1, <3>2, <3>3 DEF ServerItem, Mcp!Configured
  <2>4. /\ entry' = [entry EXCEPT ![c.name] =
                       IF @.known THEN [@ EXCEPT !.setup = c.setup, !.on = on] ELSE Mcp!NewEntry(c)]
        /\ Mcp!Saves(v, off)
        /\ dlg' = Mcp!NoDlg
        /\ IF disk' = v /\ on /\ ~entry'[c.name].up THEN Mcp!Starts("connect", c.name)
           ELSE panelJob' = panelJob
    BY <1>2, <2>1, <2>2 DEF Mcp!Applies
  <2>5. /\ entry' \in [Mcp!ServerNames -> ServerEntry \cup {Mcp!Absent}]
        /\ \A m \in Mcp!ServerNames : m # c.name => entry'[m] = entry[m]
        /\ entry'[c.name].known /\ entry'[c.name].setup = c.setup /\ entry'[c.name].on = on
    BY <1>0, <2>3, <2>4, EntryIs
  <2>6. u \in Seq(ServerItem) /\ FromFile(u) /\ c.name \in Mcp!ServerNames
    BY <2>2, <2>3 DEF PanelInv, PanelTypeOK, FileNamesOnly, ServerItem
  <2>7. v = IF dlg.new THEN Append(u, c)
            ELSE IF Mcp!Of(u, c.name) # {} THEN [u EXCEPT ![Mcp!First(u, c.name)] = c] ELSE u
    BY <2>2 DEF Mcp!Listed
  <2>8. /\ v \in Seq(ServerItem) /\ ButFor(u, v, c.name)
        /\ dlg.new \/ Mcp!Of(u, c.name) # {} => \E i \in DOMAIN v : v[i] = c
        /\ dlg.new /\ Mcp!Of(u, c.name) = {} => AtMostOnce(v, c.name)
        /\ ~dlg.new /\ AtMostOnce(u, c.name) => AtMostOnce(v, c.name)
    <3>1. CASE dlg.new
      <4>1. Mcp!Of(u, c.name) = {} => \A i \in DOMAIN u : u[i].name # c.name
        BY DEF Mcp!Of
      <4>2. v = Append(u, c)
        BY <2>7, <3>1
      <4> QED
        BY <2>3, <2>6, <3>1, <4>1, <4>2, AppendedIs
    <3>2. CASE ~dlg.new /\ Mcp!Of(u, c.name) # {}
      <4>1. PICK i : i = Mcp!First(u, c.name)
        OBVIOUS
      <4>2. i \in DOMAIN u /\ u[i].name = c.name /\ v = [u EXCEPT ![i] = c]
        BY <2>6, <2>7, <3>2, <4>1, FirstIs
      <4> QED
        BY <2>3, <2>6, <3>2, <4>2, ReplacedIs
    <3>3. CASE ~dlg.new /\ Mcp!Of(u, c.name) = {}
      BY <2>6, <2>7, <3>3, ItselfBut
    <3> QED
      BY <3>1, <3>2, <3>3
  <2>9. FromFile(v)
    BY <2>3, <2>6, <2>8, FilesNamesKept
  <2>10. off \in SUBSET Mcp!ServerNames
    BY <2>2, <2>6
  <2>11. /\ conf1' = v /\ (disk' = v \/ disk' = disk)
         /\ strayed' \in SUBSET Mcp!ServerNames /\ strayed \subseteq strayed'
         /\ \A m \in Mcp!ServerNames \ strayed' :
              m \notin off /\ disk' = v /\ changed = 0 /\ agent = Mcp!NoCall
    BY <1>0, <2>4, <2>8, <2>10, SavesIs
  <2>12. SavesFor(c.name, v)
    BY <2>2, <2>8, <2>9, <2>11 DEF SavesFor
  <2>13. panelJob' = panelJob \/
           (panelJob = Mcp!NoJob /\ panelJob' = [op |-> "connect", name |-> c.name, over |-> FALSE])
    BY <2>4 DEF Mcp!Starts
  <2>14. panelJob' \in JobType \cup {Mcp!NoJob} /\ dlg' \in DialogType \cup {Mcp!NoDlg}
    <3>1. [op |-> "connect", name |-> c.name, over |-> FALSE] \in JobType
      BY <2>6 DEF JobType, Jobs
    <3>2. panelJob \in JobType \cup {Mcp!NoJob}
      BY <1>0 DEF PanelTypeOK
    <3> QED
      BY <2>4, <2>13, <3>1, <3>2
  <2>15. \A m : (Toggled(m)' <=> Toggled(m)) /\ (Toggled(m) => panelJob'.op = panelJob.op)
    BY <2>13 DEF Toggled, Running
  <2>16. RemovalsStray'
    BY <1>0, <2>11, <2>13 DEF RemovalsStray, Running
  <2>17. ASSUME c.name \in Clean' PROVE Lists(v, c.name, entry'[c.name], Flag(c.name)')
    <3>1. c.name \in Clean /\ c.name \in Mcp!ServerNames \ strayed' /\ agent = Mcp!NoCall /\ changed = 0
      BY <2>11, <2>17 DEF Clean
    <3>2. c.name \notin off
      BY <2>11, <3>1
    <3>3. ~Mcp!Doubled(c.name) /\ ~Mcp!Orphan(c.name) /\ ~Mcp!Toggling(c.name)
      BY <2>2, <3>2
    <3>4. ~Toggled(c.name)
      BY <3>3 DEF Toggled, Running, Mcp!Toggling
    <3>5. Flag(c.name)' = on
      BY <2>5, <2>15, <3>4 DEF Flag
    <3>6. AtMostOnce(u, c.name)
      BY <2>2, <3>1 DEF PanelInv, Kept, Agrees, Lists, AgentAt
    <3>7. IF dlg.new THEN Mcp!Of(u, c.name) = {} ELSE Mcp!Of(u, c.name) # {}
      BY <2>2, <3>3 DEF Mcp!Doubled, Mcp!Orphan
    <3>8. AtMostOnce(v, c.name) /\ \E i \in DOMAIN v : v[i] = c
      BY <2>8, <3>6, <3>7
    <3>9. c = Mcp!Configured(c.name, c.setup, on)
      BY <2>3 DEF ServerItem, Mcp!Configured
    <3> QED
      BY <2>5, <3>5, <3>8, <3>9 DEF Lists
  <2>18. entry'["my db"].known => entry'["my db"].setup.n = 2
    <3>1. entry'["my db"] = entry["my db"]
      BY <2>3, <2>5, NamesAre
    <3> QED
      BY <3>1 DEF PanelInv, FileNamesOnly
  <2> QED
    BY <2>5, <2>6, <2>12, <2>14, <2>15, <2>16, <2>17, <2>18, SavedStep
<1> QED
  BY <1>1, <1>2

(* The tools of an agent.                                                  *)

\* Between the manager and the file: the call knows what it will write.
LEMMA AgentCallsStep ==
  ASSUME PanelInv, NEW n \in Mcp!ServerNames, agent = Mcp!NoCall,
         agent' \in CallType, agent'.conf.name = n,
         UNCHANGED <<conf1, disk, panelJob, late, dlg, changed>>,
         entry' \in [Mcp!ServerNames -> ServerEntry \cup {Mcp!Absent}],
         \A m \in Mcp!ServerNames : m # n => entry'[m] = entry[m],
         strayed' = IF panelJob # Mcp!NoJob THEN strayed \cup {panelJob.name} ELSE strayed,
         entry'[n].known <=> agent'.op = "add",
         entry'[n].known => entry'[n].setup = agent'.conf.setup /\ entry'[n].on = agent'.conf.on,
         agent'.op = "add" => n # "my db"
  PROVE  PanelInv'
<1>1. PanelTypeOK /\ RemovalsStray /\ FileNamesOnly
  BY DEF PanelInv
<1>2. strayed' \in SUBSET Mcp!ServerNames /\ strayed \subseteq strayed'
  BY <1>1 DEF PanelTypeOK, JobType
<1>3. PanelTypeOK'
  BY <1>1, <1>2 DEF PanelTypeOK
<1>4. FileNamesOnly'
  <2>1. entry'["my db"].known => entry'["my db"].setup.n = 2
    <3>1. CASE n = "my db"
      BY <3>1
    <3>2. CASE n # "my db"
      BY <1>1, <3>2, NamesAre DEF FileNamesOnly
    <3> QED
      BY <3>1, <3>2
  <2> QED
    BY <1>1, <2>1 DEF FileNamesOnly
<1>5. RemovalsStray'
  BY <1>1, <1>2, SameJob
<1>6. agent' # Mcp!NoCall
  BY NoRecordIsAbsent
<1>7. ASSUME NEW m \in Clean' PROVE Kept(m)'
  <2>1. m \in Clean /\ m \in Mcp!ServerNames /\ m \notin strayed'
    BY <1>2, <1>7 DEF Clean
  <2>2. Agrees(disk, m) /\ (changed = 0 => Agrees(conf1, m))
    BY <2>1 DEF PanelInv, Kept, AgentAt
  <2>3. Toggled(m)' <=> Toggled(m)
    BY SameJob
  <2>4. CASE m = n
    <3>1. ~Toggled(m)
      BY <2>1 DEF Toggled, Running
    <3>2. AgentAt(m)'
      BY <1>6, <2>4 DEF AgentAt
    <3>3. AtMostOnce(disk, m)
      BY <2>2 DEF Agrees, Lists
    <3>4. AgentKnows(m)'
      BY <2>3, <2>4, <3>1, <3>3 DEF AgentKnows
    <3> QED
      BY <3>2, <3>4 DEF Kept
  <2>5. CASE m # n
    <3>1. ~AgentAt(m)' /\ entry'[m] = entry[m]
      BY <2>1, <2>5 DEF AgentAt
    <3>2. Flag(m)' = Flag(m)
      BY <2>3, <3>1 DEF Flag
    <3>3. Agrees(disk, m)' /\ (changed = 0 => Agrees(conf1, m)')
      BY <2>2, <3>1, <3>2 DEF Agrees
    <3> QED
      BY <3>1, <3>3 DEF Kept
  <2> QED
    BY <2>4, <2>5
<1> QED
  BY <1>3, <1>4, <1>5, <1>7 DEF PanelInv

LEMMA AgentAddsStep ==
  ASSUME PanelInv, NEW n \in Mcp!ServerNames, NEW on \in BOOLEAN, Mcp!AgentAdds(n, on) PROVE PanelInv'
<1>1. PICK c : c = Mcp!Configured(n, [n |-> 3, blank |-> "yes"], on)
  OBVIOUS
<1>2. /\ agent = Mcp!NoCall /\ n \in {"git", "my_db"}
      /\ entry' = IF entry[n].known THEN [entry EXCEPT ![n].setup = [n |-> 3, blank |-> "yes"], ![n].on = on]
                  ELSE [entry EXCEPT ![n] = Mcp!NewEntry([setup |-> [n |-> 3, blank |-> "yes"], on |-> on])]
      /\ agent' = [op |-> "add", conf |-> c]
      /\ strayed' = IF panelJob # Mcp!NoJob THEN strayed \cup {panelJob.name} ELSE strayed
      /\ UNCHANGED <<conf1, disk, panelJob, late, dlg, deleting, changed, fails>>
  BY <1>1 DEF Mcp!AgentAdds
<1>3. PanelTypeOK
  BY DEF PanelInv
<1>4. c \in ServerItem /\ c.name = n /\ c.setup = [n |-> 3, blank |-> "yes"] /\ c.on = on
  <2>1. [n |-> 3, blank |-> "yes"] \in Mcp!Setups
    BY FormsAreSetups
  <2> QED
    BY <1>1, <2>1 DEF ServerItem, Mcp!Configured
<1>5. entry' = [entry EXCEPT ![c.name] =
                 IF @.known THEN [@ EXCEPT !.setup = c.setup, !.on = c.on] ELSE Mcp!NewEntry(c)]
  <2>1. entry \in [Mcp!ServerNames -> ServerEntry \cup {Mcp!Absent}]
    BY <1>3 DEF PanelTypeOK
  <2>2. CASE entry[n].known
    BY <1>2, <1>4, <2>1, <2>2
  <2>3. CASE ~entry[n].known
    BY <1>2, <1>4, <2>1, <2>3 DEF Mcp!NewEntry
  <2> QED
    BY <2>2, <2>3
<1>6. /\ entry' \in [Mcp!ServerNames -> ServerEntry \cup {Mcp!Absent}]
      /\ \A m \in Mcp!ServerNames : m # n => entry'[m] = entry[m]
      /\ entry'[n].known /\ entry'[n].setup = c.setup /\ entry'[n].on = c.on
  BY <1>3, <1>4, <1>5, EntryIs
<1>7. agent' \in CallType /\ agent'.conf = c /\ agent'.op = "add"
  BY <1>2, <1>4 DEF CallType
<1>8. n # "my db" /\ agent'.conf.name = n
  BY <1>2, <1>4, <1>7
<1>9. /\ entry'[n].known <=> agent'.op = "add"
      /\ entry'[n].known => entry'[n].setup = agent'.conf.setup /\ entry'[n].on = agent'.conf.on
  BY <1>6, <1>7
<1>10. UNCHANGED <<conf1, disk, panelJob, late, dlg, changed>>
  BY <1>2
<1> QED
  BY <1>2, <1>6, <1>7, <1>8, <1>9, <1>10, AgentCallsStep

LEMMA AgentRemovesServerStep ==
  ASSUME PanelInv, NEW n \in Mcp!ServerNames, Mcp!AgentRemovesServer(n) PROVE PanelInv'
<1>1. PICK c : c = Mcp!Configured(n, entry[n].setup, entry[n].on)
  OBVIOUS
<1>2. /\ agent = Mcp!NoCall /\ n \in Mcp!Known
      /\ entry' = [entry EXCEPT ![n] = Mcp!Absent]
      /\ agent' = [op |-> "remove", conf |-> c]
      /\ strayed' = IF panelJob # Mcp!NoJob THEN strayed \cup {panelJob.name} ELSE strayed
      /\ UNCHANGED <<conf1, disk, panelJob, late, dlg, deleting, changed, fails>>
  BY <1>1 DEF Mcp!AgentRemovesServer
<1>3. entry \in [Mcp!ServerNames -> ServerEntry \cup {Mcp!Absent}]
  BY DEF PanelInv, PanelTypeOK
<1>4. entry[n] \in ServerEntry
  BY <1>2, <1>3, NoRecordIsAbsent DEF Mcp!Known
<1>5. c \in ServerItem /\ c.name = n
  BY <1>1, <1>4 DEF ServerItem, ServerEntry, Mcp!Configured
<1>6. /\ entry' \in [Mcp!ServerNames -> ServerEntry \cup {Mcp!Absent}]
      /\ entry'[n] = Mcp!Absent
      /\ \A m \in Mcp!ServerNames : m # n => entry'[m] = entry[m]
  BY <1>2, <1>3
<1>7. agent' \in CallType /\ agent'.conf = c /\ agent'.op = "remove"
  BY <1>2, <1>5 DEF CallType
<1>8. ~entry'[n].known /\ agent'.conf.name = n /\ agent'.op # "add"
  BY <1>5, <1>6, <1>7, NoRecordIsAbsent
<1> QED
  BY <1>2, <1>6, <1>7, <1>8, AgentCallsStep

LEMMA AgentWritesStep == ASSUME PanelInv, Mcp!AgentWrites PROVE PanelInv'
<1>1. PICK n, u, v, c :
        /\ n = agent.conf.name /\ u = disk /\ c = agent.conf
        /\ v = IF agent.op = "remove" THEN Mcp!Filtered(disk)
               ELSE IF Mcp!Of(disk, n) = {} THEN Append(disk, agent.conf)
               ELSE [disk EXCEPT ![Mcp!First(disk, n)] = agent.conf]
  OBVIOUS
<1>2. /\ agent # Mcp!NoCall
      /\ \/ disk' = v /\ UNCHANGED <<fails, strayed>>
         \/ disk' = disk /\ strayed' = strayed \cup {n}
      /\ changed' = changed + 1
      /\ agent' = Mcp!NoCall
      /\ UNCHANGED <<entry, conf1, panelJob, late, dlg, deleting, userSteps>>
  BY <1>1 DEF Mcp!AgentWrites
<1>3. PanelTypeOK /\ RemovalsStray /\ FileNamesOnly /\ agent \in CallType
  BY <1>2 DEF PanelInv, PanelTypeOK
<1>4. c \in ServerItem /\ c.name = n /\ n \in Mcp!ServerNames /\ agent.op \in {"add", "remove"}
  BY <1>1, <1>3 DEF CallType, ServerItem
<1>5. u \in Seq(ServerItem) /\ FromFile(u)
  BY <1>1, <1>3 DEF PanelTypeOK, FileNamesOnly
<1>6. /\ v \in Seq(ServerItem) /\ ButFor(u, v, n)
      /\ agent.op = "remove" => \A i \in DOMAIN v : v[i].name # n
      /\ agent.op = "add" => \E i \in DOMAIN v : v[i] = c
      /\ agent.op = "add" /\ AtMostOnce(u, n) => AtMostOnce(v, n)
  <2>1. CASE agent.op = "remove"
    <3>1. v = Mcp!Without(u, n)
      BY <1>1, <2>1 DEF Mcp!Filtered
    <3> QED
      BY <1>5, <2>1, <3>1, WithoutIs
  <2>2. CASE agent.op = "add" /\ Mcp!Of(u, n) = {}
    <3>1. v = Append(u, c)
      BY <1>1, <2>2
    <3>2. \A i \in DOMAIN u : u[i].name # n
      BY <2>2 DEF Mcp!Of
    <3> QED
      BY <1>4, <1>5, <2>2, <3>1, <3>2, AppendedIs
  <2>3. CASE agent.op = "add" /\ Mcp!Of(u, n) # {}
    <3>1. PICK i : i = Mcp!First(u, n)
      OBVIOUS
    <3>2. i \in DOMAIN u /\ u[i].name = c.name
      BY <1>4, <1>5, <2>3, <3>1, FirstIs
    <3>3. v = [u EXCEPT ![i] = c]
      BY <1>1, <2>3, <3>1
    <3>4. /\ v \in Seq(ServerItem) /\ ButFor(u, v, c.name)
          /\ \E j \in DOMAIN v : v[j] = c
          /\ AtMostOnce(u, c.name) => AtMostOnce(v, c.name)
      BY <1>4, <1>5, <3>2, <3>3, ReplacedIs
    <3> QED
      BY <1>4, <2>3, <3>4
  <2> QED
    BY <1>4, <2>1, <2>2, <2>3
<1>7. FromFile(v)
  <2>1. agent.op = "add" => n # "my db"
    BY <1>1, <1>2, <1>3 DEF FileNamesOnly
  <2>2. n = "my db" => \A x \in DOMAIN v : v[x].name = n => v[x].setup.n = 2
    BY <1>4, <1>6, <2>1
  <2> QED
    BY <1>5, <1>6, <2>2, FilesNamesKept
<1>8. disk' \in Seq(ServerItem) /\ FromFile(disk')
  BY <1>1, <1>2, <1>5, <1>6, <1>7
<1>9. strayed' \in SUBSET Mcp!ServerNames /\ strayed \subseteq strayed'
  BY <1>2, <1>3, <1>4 DEF PanelTypeOK
<1>10. changed' \in Nat /\ changed' # 0
  BY <1>2, <1>3 DEF PanelTypeOK
<1>11. PanelTypeOK'
  BY <1>2, <1>3, <1>8, <1>9, <1>10 DEF PanelTypeOK
<1>12. FileNamesOnly'
  BY <1>2, <1>3, <1>8 DEF FileNamesOnly
<1>13. RemovalsStray'
  BY <1>2, <1>3, <1>9, SameJob
<1>14. ASSUME NEW m \in Clean' PROVE Kept(m)'
  <2>1. m \in Clean /\ m \in Mcp!ServerNames /\ m \notin strayed'
    BY <1>2, <1>9, <1>14 DEF Clean
  <2>2. Kept(m)
    BY <2>1 DEF PanelInv
  <2>3. ~AgentAt(m)'
    BY <1>2 DEF AgentAt
  <2>4. Flag(m)' = Flag(m) /\ entry'[m] = entry[m]
    BY <1>2, SameJob DEF Flag
  <2>5. Lists(disk', m, entry[m], Flag(m))
    <3>1. CASE m = n
      <4>1. AgentKnows(m) /\ disk' = v
        BY <1>1, <1>2, <2>1, <2>2, <3>1 DEF Kept, AgentAt
      <4>2. Flag(m) = entry[m].on
        BY <4>1 DEF AgentKnows, Flag
      <4>3. AtMostOnce(v, m)
        BY <1>1, <1>4, <1>6, <3>1, <4>1 DEF AgentKnows, AtMostOnce
      <4>4. ASSUME entry[m].known PROVE \E i \in DOMAIN v : v[i] = Mcp!Configured(m, entry[m].setup, entry[m].on)
        <5>1. c = Mcp!Configured(c.name, c.setup, c.on)
          BY <1>4 DEF ServerItem, Mcp!Configured
        <5>2. entry[m].setup = c.setup /\ entry[m].on = c.on /\ agent.op = "add"
          BY <1>1, <4>1, <4>4 DEF AgentKnows
        <5> QED
          BY <1>4, <1>6, <3>1, <5>1, <5>2
      <4>5. ASSUME ~entry[m].known PROVE \A i \in DOMAIN v : v[i].name # m
        BY <1>4, <1>6, <3>1, <4>1, <4>5 DEF AgentKnows
      <4> QED
        BY <4>1, <4>2, <4>3, <4>4, <4>5 DEF Lists
    <3>2. CASE m # n
      <4>1. Lists(u, m, entry[m], Flag(m))
        BY <1>1, <2>2, <3>2 DEF Kept, Agrees, AgentAt
      <4>2. PICK d, on : d = entry[m] /\ on = Flag(m)
        OBVIOUS
      <4>3. Lists(v, m, d, on)
        <5>1. Lists(u, m, d, on)
          BY <4>1, <4>2
        <5> QED
          BY <1>6, <3>2, <5>1, OthersKept
      <4> QED
        BY <1>1, <1>2, <4>1, <4>2, <4>3
    <3> QED
      BY <3>1, <3>2
  <2> QED
    BY <1>10, <2>3, <2>4, <2>5 DEF Kept, Agrees
<1> QED
  BY <1>11, <1>12, <1>13, <1>14 DEF PanelInv

LEMMA HandlesMcpChangedStep == ASSUME PanelInv, Mcp!HandlesMcpChanged PROVE PanelInv'
<1>1. /\ changed > 0 /\ conf1' = disk /\ changed' = changed - 1
      /\ UNCHANGED <<entry, disk, panelJob, late, dlg, deleting, agent, strayed, userSteps, fails>>
  BY DEF Mcp!HandlesMcpChanged
<1>2. PanelTypeOK /\ RemovalsStray /\ FileNamesOnly
  BY DEF PanelInv
<1>3. changed' \in Nat
  BY <1>1, <1>2 DEF PanelTypeOK
<1>4. PanelTypeOK'
  BY <1>1, <1>2, <1>3 DEF PanelTypeOK
<1>5. FileNamesOnly'
  BY <1>1, <1>2 DEF FileNamesOnly
<1>6. RemovalsStray'
  BY <1>1, <1>2, SameJob
<1>7. ASSUME NEW n \in Clean' PROVE Kept(n)'
  <2>1. n \in Clean
    BY <1>1, <1>7 DEF Clean
  <2>2. Kept(n)
    BY <2>1 DEF PanelInv
  <2>3. (AgentAt(n)' <=> AgentAt(n)) /\ (Toggled(n)' <=> Toggled(n)) /\ Flag(n)' = Flag(n)
    BY <1>1, SameJob DEF AgentAt, Flag
  <2>4. ~AgentAt(n) => Agrees(disk, n)' /\ Agrees(conf1, n)'
    BY <1>1, <2>2, <2>3 DEF Kept, Agrees
  <2>5. AgentAt(n) => AgentKnows(n)'
    BY <1>1, <2>2, <2>3 DEF Kept, AgentKnows
  <2> QED
    BY <2>3, <2>4, <2>5 DEF Kept
<1> QED
  BY <1>4, <1>5, <1>6, <1>7 DEF PanelInv

(* The start.                                                              *)

LEMMA CardinalityOfPanel == \A S : Mcp!Cardinality(S) = Cardinality(S)
BY Zenon DEF Mcp!Cardinality, Cardinality

LEMMA LastIs ==
  ASSUME NEW v \in Seq(ServerItem), NEW n, Mcp!Of(v, n) # {}
  PROVE  \E i \in Mcp!Of(v, n) : \A j \in Mcp!Of(v, n) : j <= i
<1> DEFINE T == {Len(v) - i : i \in Mcp!Of(v, n)}
<1>1. Len(v) \in Nat /\ \A i \in Mcp!Of(v, n) : i \in Nat /\ i <= Len(v)
  BY DEF Mcp!Of
<1>2. T \subseteq Nat /\ T # {}
  BY <1>1
<1>3. PICK k \in T : \A j \in T : k <= j
  <2> HIDE DEF T
  <2> QED
    BY <1>2, Least
<1>4. PICK i \in Mcp!Of(v, n) : k = Len(v) - i
  OBVIOUS
<1>5. ASSUME NEW j \in Mcp!Of(v, n) PROVE j <= i
  <2>1. Len(v) - j \in T
    OBVIOUS
  <2>2. Len(v) - i <= Len(v) - j
    BY <1>3, <1>4, <2>1
  <2> QED
    BY <1>1, <2>2
<1> QED
  BY <1>5

\* sync_from_config: the manager has the servers of the list.
LEMMA StartIs ==
  ASSUME NEW v \in Seq(ServerItem), NEW start, start = Mcp!Synced(v)
  PROVE  /\ start \in [Mcp!ServerNames -> ServerEntry \cup {Mcp!Absent}]
         /\ FromFile(v) /\ start["my db"].known => start["my db"].setup.n = 2
         /\ \A n \in Mcp!ServerNames : AtMostOnce(v, n) => Lists(v, n, start[n], start[n].on)
<1>1. ASSUME NEW n \in Mcp!ServerNames
      PROVE  /\ start[n] \in ServerEntry \cup {Mcp!Absent}
             /\ start[n].known => \E i \in Mcp!Of(v, n) : start[n].setup = v[i].setup /\ start[n].on = v[i].on
             /\ ~start[n].known => Mcp!Of(v, n) = {}
  <2>1. CASE Mcp!Of(v, n) = {}
    <3>1. start[n] = Mcp!Absent
      BY <2>1 DEF Mcp!Synced
    <3> QED
      BY <2>1, <3>1, NoRecordIsAbsent
  <2>2. CASE Mcp!Of(v, n) # {}
    <3>1. PICK i : i = CHOOSE k \in Mcp!Of(v, n) : \A j \in Mcp!Of(v, n) : j <= k
      OBVIOUS
    <3>2. i \in Mcp!Of(v, n)
      BY <2>2, <3>1, LastIs
    <3>3. start[n] = Mcp!NewEntry(v[i])
      BY <2>2, <3>1 DEF Mcp!Synced
    <3>4. v[i] \in ServerItem
      BY <3>2, ItemsOf DEF Mcp!Of
    <3>5. start[n] \in ServerEntry /\ start[n].setup = v[i].setup /\ start[n].on = v[i].on
      BY <3>3, <3>4 DEF ServerItem, ServerEntry, Mcp!NewEntry
    <3> QED
      BY <3>2, <3>5, NoRecordIsAbsent
  <2> QED
    BY <2>1, <2>2
<1>2. start \in [Mcp!ServerNames -> ServerEntry \cup {Mcp!Absent}]
  <2>1. start = [n \in Mcp!ServerNames |-> start[n]]
    BY DEF Mcp!Synced
  <2> QED
    BY <1>1, <2>1
<1>3. ASSUME FromFile(v), start["my db"].known PROVE start["my db"].setup.n = 2
  <2>1. "my db" \in Mcp!ServerNames
    BY NamesAre
  <2>2. PICK i \in Mcp!Of(v, "my db") : start["my db"].setup = v[i].setup
    BY <1>1, <1>3, <2>1
  <2>3. i \in DOMAIN v /\ v[i].name = "my db"
    BY DEF Mcp!Of
  <2> QED
    BY <1>3, <2>2, <2>3 DEF FromFile
<1>4. ASSUME NEW n \in Mcp!ServerNames, AtMostOnce(v, n) PROVE Lists(v, n, start[n], start[n].on)
  <2>1. ASSUME start[n].known PROVE \E i \in DOMAIN v : v[i] = Mcp!Configured(n, start[n].setup, start[n].on)
    <3>1. PICK i \in Mcp!Of(v, n) : start[n].setup = v[i].setup /\ start[n].on = v[i].on
      BY <1>1, <2>1
    <3>2. i \in DOMAIN v /\ v[i].name = n
      BY DEF Mcp!Of
    <3> QED
      BY <3>1, <3>2, ItemsOf
  <2>2. ASSUME ~start[n].known PROVE \A i \in DOMAIN v : v[i].name # n
    BY <1>1, <2>2 DEF Mcp!Of
  <2> QED
    BY <1>4, <2>1, <2>2 DEF Lists
<1> QED
  BY <1>2, <1>3, <1>4

\* All is at rest, and a name that the file has twice has strayed.
LEMMA Started ==
  ASSUME PanelTypeOK', FileNamesOnly', panelJob' = Mcp!NoJob, late' = {}, agent' = Mcp!NoCall,
         conf1' = disk', NEW v, disk' = v,
         \A n \in Mcp!ServerNames \ strayed' : AtMostOnce(v, n) /\ Lists(v, n, entry'[n], entry'[n].on)
  PROVE  PanelInv'
<1>1. RemovalsStray' /\ \A n : ~Toggled(n)' /\ ~AgentAt(n)'
  BY DEF RemovalsStray, Running, Toggled, AgentAt
<1>2. ASSUME NEW n \in Clean' PROVE Kept(n)'
  <2>1. n \in Mcp!ServerNames \ strayed'
    BY <1>2 DEF Clean
  <2>2. Flag(n)' = entry'[n].on
    BY <1>1 DEF Flag
  <2>3. Agrees(disk, n)' /\ Agrees(conf1, n)'
    BY <2>1, <2>2 DEF Agrees
  <2> QED
    BY <1>1, <2>3 DEF Kept
<1> QED
  BY <1>1, <1>2 DEF PanelInv

LEMMA OfCounts ==
  ASSUME NEW v \in Seq(ServerItem), NEW n
  PROVE  /\ Cardinality(Mcp!Of(v, n)) \in Nat
         /\ AtMostOnce(v, n) <=> ~(Cardinality(Mcp!Of(v, n)) > 1)
<1>1. IsFiniteSet(Mcp!Of(v, n))
  <2>1. Mcp!Of(v, n) \in SUBSET (1..Len(v)) /\ Len(v) \in Nat /\ 1 \in Int
    BY DEF Mcp!Of
  <2>2. IsFiniteSet(1..Len(v))
    BY <2>1, FS_Interval
  <2> QED
    BY <2>1, <2>2, FS_Subset
<1>2. Cardinality(Mcp!Of(v, n)) \in Nat
  BY <1>1, FS_CardinalityType
<1>3. ASSUME ~(Cardinality(Mcp!Of(v, n)) > 1) PROVE AtMostOnce(v, n)
  <2>1. Cardinality(Mcp!Of(v, n)) = 0 \/ Cardinality(Mcp!Of(v, n)) = 1
    BY <1>2, <1>3
  <2>2. Mcp!Of(v, n) = {} \/ \E i : Mcp!Of(v, n) = {i}
    BY <1>1, <2>1, FS_EmptySet, FS_Singleton
  <2>3. \A i, j \in Mcp!Of(v, n) : i = j
    BY <2>2
  <2> QED
    BY <2>3 DEF AtMostOnce, Mcp!Of
<1>4. ASSUME AtMostOnce(v, n) PROVE ~(Cardinality(Mcp!Of(v, n)) > 1)
  <2>1. Mcp!Of(v, n) = {} \/ \E i : Mcp!Of(v, n) = {i}
    <3>1. \A i, j \in Mcp!Of(v, n) : i = j
      BY <1>4 DEF AtMostOnce, Mcp!Of
    <3> QED
      BY <3>1, Zenon
  <2>2. Cardinality(Mcp!Of(v, n)) = 0 \/ Cardinality(Mcp!Of(v, n)) = 1
    BY <2>1, FS_EmptySet, FS_Singleton
  <2> QED
    BY <2>2
<1> QED
  BY <1>2, <1>3, <1>4

LEMMA PanelRestartsStep == ASSUME PanelInv, Mcp!PanelRestarts PROVE PanelInv'
<1>1. PICK v, start : v = disk /\ start = Mcp!Synced(v)
  OBVIOUS
<1>2. /\ conf1' = v /\ disk' = v /\ entry' = start
      /\ panelJob' = Mcp!NoJob /\ late' = {} /\ dlg' = Mcp!NoDlg /\ agent' = Mcp!NoCall /\ changed' = 0
      /\ strayed' = {n \in Mcp!ServerNames : Cardinality(Mcp!Of(v, n)) > 1}
  BY <1>1, CardinalityOfPanel DEF Mcp!PanelRestarts
<1>3. v \in Seq(ServerItem) /\ FromFile(v)
  BY <1>1 DEF PanelInv, PanelTypeOK, FileNamesOnly
<1>4. /\ start \in [Mcp!ServerNames -> ServerEntry \cup {Mcp!Absent}]
      /\ start["my db"].known => start["my db"].setup.n = 2
      /\ \A n \in Mcp!ServerNames : AtMostOnce(v, n) => Lists(v, n, start[n], start[n].on)
  BY <1>1, <1>3, StartIs
<1>5. PanelTypeOK'
  BY <1>2, <1>3, <1>4 DEF PanelTypeOK
<1>6. FileNamesOnly'
  BY <1>2, <1>3, <1>4 DEF FileNamesOnly
<1>7. ASSUME NEW n \in Mcp!ServerNames \ strayed' PROVE AtMostOnce(v, n)
  <2>1. ~(Cardinality(Mcp!Of(v, n)) > 1)
    BY <1>2
  <2> QED
    BY <1>3, <2>1, OfCounts
<1> QED
  BY <1>2, <1>4, <1>5, <1>6, <1>7, Started

(* The other writers.                                                      *)

\* Of a name the two lists do not differ in, one list says what the other says.
LEMMA SameEntries ==
  ASSUME NEW v \in Seq(ServerItem), NEW w \in Seq(ServerItem),
         NEW n \in Mcp!ServerNames, n \notin Mcp!Differ(v, w)
  PROVE  /\ AtMostOnce(w, n) => AtMostOnce(v, n)
         /\ \A e, on : Lists(w, n, e, on) => Lists(v, n, e, on)
<1>1. Mcp!Entries(v, n) = Mcp!Entries(w, n) /\ Cardinality(Mcp!Of(v, n)) = Cardinality(Mcp!Of(w, n))
  BY CardinalityOfPanel DEF Mcp!Differ
<1>2. AtMostOnce(w, n) => AtMostOnce(v, n)
  BY <1>1, OfCounts
<1>3. ASSUME NEW i \in DOMAIN w, w[i].name = n PROVE \E j \in DOMAIN v : v[j] = w[i]
  <2>1. w[i] \in Mcp!Entries(v, n)
    BY <1>1, <1>3 DEF Mcp!Entries, Mcp!Of
  <2> QED
    BY <2>1 DEF Mcp!Entries, Mcp!Of
<1>4. ASSUME NEW j \in DOMAIN v, v[j].name = n PROVE \E i \in DOMAIN w : w[i].name = n
  <2>1. v[j] \in Mcp!Entries(w, n)
    BY <1>1, <1>4 DEF Mcp!Entries, Mcp!Of
  <2> QED
    BY <2>1 DEF Mcp!Entries, Mcp!Of
<1>5. ASSUME NEW e, NEW on, Lists(w, n, e, on) PROVE Lists(v, n, e, on)
  <2>1. ASSUME e.known PROVE \E j \in DOMAIN v : v[j] = Mcp!Configured(n, e.setup, on)
    <3>1. PICK i \in DOMAIN w : w[i] = Mcp!Configured(n, e.setup, on)
      BY <1>5, <2>1 DEF Lists
    <3>2. w[i].name = n
      BY <3>1 DEF Mcp!Configured
    <3> QED
      BY <1>3, <3>1, <3>2
  <2> QED
    BY <1>2, <1>4, <1>5, <2>1 DEF Lists
<1> QED
  BY <1>2, <1>5

\* One of the two copies becomes the list v; of what differs the name has strayed.
LEMMA ReplacedStep ==
  ASSUME PanelInv, NEW v \in Seq(ServerItem), FromFile(v),
         UNCHANGED <<entry, panelJob, late, dlg, agent, changed>>,
         \/ /\ disk' = v /\ conf1' = conf1
            /\ strayed' = strayed \cup Mcp!Differ(v, disk)
         \/ /\ conf1' = v /\ disk' = disk
            /\ strayed' = strayed \cup Mcp!Differ(v, conf1)
  PROVE  PanelInv'
<1>1. PanelTypeOK /\ RemovalsStray /\ FileNamesOnly
  BY DEF PanelInv
<1>2. strayed' \in SUBSET Mcp!ServerNames /\ strayed \subseteq strayed'
  BY <1>1 DEF PanelTypeOK, Mcp!Differ
<1>3. conf1' \in Seq(ServerItem) /\ disk' \in Seq(ServerItem) /\ FromFile(conf1') /\ FromFile(disk')
  BY <1>1 DEF PanelTypeOK, FileNamesOnly
<1>4. PanelTypeOK'
  BY <1>1, <1>2, <1>3 DEF PanelTypeOK
<1>5. FileNamesOnly'
  BY <1>1, <1>3 DEF FileNamesOnly
<1>6. RemovalsStray'
  BY <1>1, <1>2, SameJob
<1>7. ASSUME NEW n \in Clean' PROVE Kept(n)'
  <2>1. n \in Clean /\ n \in Mcp!ServerNames /\ n \notin strayed'
    BY <1>2, <1>7 DEF Clean
  <2>2. Kept(n)
    BY <2>1 DEF PanelInv
  <2>3. PICK e, on, c, d : e = entry[n] /\ on = Flag(n) /\ c = conf1 /\ d = disk
    OBVIOUS
  <2>4. entry'[n] = e /\ Flag(n)' = on /\ (AgentAt(n)' <=> AgentAt(n)) /\ (Toggled(n)' <=> Toggled(n))
    BY <2>3, SameJob DEF Flag, AgentAt
  <2>5. c \in Seq(ServerItem) /\ d \in Seq(ServerItem)
    BY <1>1, <2>3 DEF PanelTypeOK
  <2>6. /\ AtMostOnce(d, n) => AtMostOnce(disk', n)
        /\ Lists(d, n, e, on) => Lists(disk', n, e, on)
    <3>1. CASE disk' = v /\ n \notin Mcp!Differ(v, d)
      BY <2>1, <2>5, <3>1, SameEntries
    <3>2. CASE disk' = d
      BY <3>2
    <3> QED
      BY <2>1, <2>3, <3>1, <3>2
  <2>7. Lists(c, n, e, on) => Lists(conf1', n, e, on)
    <3>1. CASE conf1' = v /\ n \notin Mcp!Differ(v, c)
      BY <2>1, <2>5, <3>1, SameEntries
    <3>2. CASE conf1' = c
      BY <3>2
    <3> QED
      BY <2>1, <2>3, <3>1, <3>2
  <2>8. ~AgentAt(n) => Agrees(disk, n)'
    BY <2>2, <2>3, <2>4, <2>6 DEF Kept, Agrees
  <2>9. ~AgentAt(n) /\ changed = 0 => Agrees(conf1, n)'
    BY <2>2, <2>3, <2>4, <2>7 DEF Kept, Agrees
  <2>10. AgentAt(n) => AgentKnows(n)'
    BY <2>2, <2>3, <2>4, <2>6 DEF Kept, AgentKnows
  <2> QED
    BY <2>4, <2>8, <2>9, <2>10 DEF Kept
<1> QED
  BY <1>4, <1>5, <1>6, <1>7 DEF PanelInv

LEMMA OthersStep ==
  ASSUME PanelInv, OlderTyped, NEW v \in older, Mcp!OthersWrite(v) \/ Mcp!DraftReplaces(v)
  PROVE  PanelInv'
<1>1. v \in Seq(ServerItem) /\ FromFile(v)
  BY DEF OlderTyped
<1>2. CASE Mcp!OthersWrite(v)
  <2>1. /\ disk' = v /\ strayed' = strayed \cup Mcp!Differ(v, disk)
        /\ UNCHANGED <<entry, conf1, panelJob, late, dlg, agent, changed>>
    BY <1>2 DEF Mcp!OthersWrite
  <2> QED
    BY <1>1, <2>1, ReplacedStep
<1>3. CASE Mcp!DraftReplaces(v)
  <2>1. /\ conf1' = v /\ strayed' = strayed \cup Mcp!Differ(v, conf1)
        /\ UNCHANGED <<entry, disk, panelJob, late, dlg, agent, changed>>
    BY <1>3 DEF Mcp!DraftReplaces
  <2> QED
    BY <1>1, <2>1, ReplacedStep
<1> QED
  BY <1>2, <1>3

\* The lists there were are those that the application or the file had.
LEMMA OlderFrom ==
  ASSUME [Mcp!Next]_(Mcp!panelVars)
  PROVE  older' \subseteq older \cup {conf1', disk'}
<1>1. CASE \/ UNCHANGED Mcp!panelVars
           \/ Mcp!JobTimesOut \/ Mcp!JobCollected
           \/ Mcp!ConfirmsDelete \/ Mcp!CancelsDelete \/ Mcp!OpensNew \/ Mcp!CancelsServer
           \/ Mcp!HandlesMcpChanged
  BY <1>1 DEF Mcp!panelVars, Mcp!JobTimesOut, Mcp!JobCollected, Mcp!ConfirmsDelete,
     Mcp!CancelsDelete, Mcp!OpensNew, Mcp!CancelsServer, Mcp!HandlesMcpChanged
<1>2. CASE \E ups \in BOOLEAN : Mcp!JobRuns(ups) \/ \E j \in late : Mcp!LateRuns(j, ups)
  BY <1>2 DEF Mcp!JobRuns, Mcp!LateRuns
<1>3. CASE \E n \in Mcp!ServerNames :
             \/ Mcp!TogglesServer(n) \/ Mcp!DeleteServer(n) \/ Mcp!EditsServer(n) \/ Mcp!AgentRemovesServer(n)
             \/ \E op \in {"connect", "disconnect", "refresh"} : Mcp!RowButton(op, n)
             \/ Mcp!TypesServer(n, 1)
             \/ \E on \in BOOLEAN : Mcp!AgentAdds(n, on)
  <2>1. PICK n \in Mcp!ServerNames :
             \/ Mcp!TogglesServer(n) \/ Mcp!DeleteServer(n) \/ Mcp!EditsServer(n) \/ Mcp!AgentRemovesServer(n)
             \/ \E op \in {"connect", "disconnect", "refresh"} : Mcp!RowButton(op, n)
             \/ Mcp!TypesServer(n, 1)
             \/ \E on \in BOOLEAN : Mcp!AgentAdds(n, on)
    BY <1>3
  <2>2. CASE Mcp!TogglesServer(n)
    <3>1. \E v : conf1' = v /\ older' = older \cup {v}
      BY <2>2 DEF Mcp!TogglesServer, Mcp!Saves
    <3> QED
      BY <3>1
  <2>3. CASE Mcp!DeleteServer(n) \/ Mcp!EditsServer(n) \/ Mcp!TypesServer(n, 1)
             \/ \E op \in {"connect", "disconnect", "refresh"} : Mcp!RowButton(op, n)
    BY <2>3 DEF Mcp!DeleteServer, Mcp!EditsServer, Mcp!TypesServer, Mcp!RowButton
  <2>4. CASE Mcp!AgentRemovesServer(n) \/ \E on \in BOOLEAN : Mcp!AgentAdds(n, on)
    BY <2>4 DEF Mcp!AgentRemovesServer, Mcp!AgentAdds
  <2> QED
    BY <2>1, <2>2, <2>3, <2>4
<1>4. ASSUME NEW on, Mcp!Applies(on) PROVE older' \subseteq older \cup {conf1', disk'}
  <2>1. older' = older \/ \E v : conf1' = v /\ older' = older \cup {v}
    BY <1>4 DEF Mcp!Applies, Mcp!Saves
  <2> QED
    BY <2>1
<1>5. CASE Mcp!SavesServer
  <2>1. PICK on : on = dlg.on
    OBVIOUS
  <2>2. Mcp!Applies(on)
    BY <1>5, <2>1 DEF Mcp!SavesServer
  <2> QED
    BY <1>4, <2>2
<1>6. CASE Mcp!TicksEnabled
  <2>1. PICK on : on = ~dlg.on
    OBVIOUS
  <2>2. Mcp!Applies(on) \/ older' = older
    BY <1>6, <2>1 DEF Mcp!TicksEnabled
  <2> QED
    BY <1>4, <2>2
<1>7. CASE Mcp!AgentWrites
  <2>1. older' = older \cup {disk'}
    BY <1>7 DEF Mcp!AgentWrites
  <2> QED
    BY <2>1
<1>8. CASE Mcp!PanelRestarts
  <2>1. older' = {disk} /\ disk' = disk
    BY <1>8 DEF Mcp!PanelRestarts
  <2> QED
    BY <2>1
<1>9. CASE \E v \in older : Mcp!OthersWrite(v) \/ Mcp!DraftReplaces(v)
  BY <1>9 DEF Mcp!OthersWrite, Mcp!DraftReplaces
<1> QED
  BY <1>1, <1>2, <1>3, <1>5, <1>6, <1>7, <1>8, <1>9, Zenon DEF Mcp!Next

LEMMA OlderStep ==
  ASSUME PanelInv', OlderTyped, [Mcp!Next]_(Mcp!panelVars)
  PROVE  OlderTyped'
<1>1. /\ conf1' \in Seq(ServerItem) /\ disk' \in Seq(ServerItem)
      /\ FromFile(conf1') /\ FromFile(disk')
  BY DEF PanelInv, PanelTypeOK, FileNamesOnly
<1> QED
  BY <1>1, OlderFrom DEF OlderTyped

LEMMA PanelInit == ASSUME Mcp!Init PROVE PanelInv /\ OlderTyped
<1>1. PICK v, start : v = disk /\ start = Mcp!Synced(v)
  OBVIOUS
<1>2. PICK git, db : /\ git = Mcp!Configured("git", [n |-> 2, blank |-> "yes"], FALSE)
                     /\ db = Mcp!Configured("my db", [n |-> 2, blank |-> "no"], TRUE)
  OBVIOUS
<1>3. /\ v \in {<<>>, <<git>>, <<db>>}
      /\ conf1 = v /\ disk = v /\ entry = start
      /\ panelJob = Mcp!NoJob /\ late = {} /\ dlg = Mcp!NoDlg /\ agent = Mcp!NoCall
      /\ changed = 0 /\ strayed = {}
  BY <1>1, <1>2 DEF Mcp!Init
<1>4. git \in ServerItem /\ db \in ServerItem
  <2>1. [n |-> 2, blank |-> "yes"] \in Mcp!Setups /\ [n |-> 2, blank |-> "no"] \in Mcp!Setups
    BY FormsAreSetups
  <2> QED
    BY <1>2, <2>1, NamesAre DEF ServerItem, Mcp!Configured
<1>5. git.name = "git" /\ db.setup.n = 2
  BY <1>2 DEF Mcp!Configured
<1>6. v \in Seq(ServerItem) /\ \A i \in DOMAIN v : i = 1 /\ v[i] \in {git, db}
  <2>1. CASE v = <<>>
    BY <2>1
  <2>2. CASE v = <<git>>
    BY <1>4, <2>2
  <2>3. CASE v = <<db>>
    BY <1>4, <2>3
  <2> QED
    BY <1>3, <2>1, <2>2, <2>3
<1>7. FromFile(v)
  BY <1>5, <1>6 DEF FromFile
<1>8. \A n : AtMostOnce(v, n)
  BY <1>6 DEF AtMostOnce
<1>9. /\ start \in [Mcp!ServerNames -> ServerEntry \cup {Mcp!Absent}]
      /\ start["my db"].known => start["my db"].setup.n = 2
      /\ \A n \in Mcp!ServerNames : AtMostOnce(v, n) => Lists(v, n, start[n], start[n].on)
  BY <1>1, <1>6, <1>7, StartIs
<1>10. PanelTypeOK
  BY <1>3, <1>6, <1>9 DEF PanelTypeOK
<1>11. FileNamesOnly
  BY <1>3, <1>7, <1>9 DEF FileNamesOnly
<1>12. RemovalsStray /\ \A n : ~Toggled(n) /\ ~AgentAt(n)
  BY <1>3 DEF RemovalsStray, Running, Toggled, AgentAt
<1>13. ASSUME NEW n \in Clean PROVE Kept(n)
  <2>1. n \in Mcp!ServerNames /\ Flag(n) = entry[n].on
    BY <1>12 DEF Clean, Flag
  <2>2. Agrees(disk, n) /\ Agrees(conf1, n)
    BY <1>3, <1>8, <1>9, <2>1 DEF Agrees
  <2> QED
    BY <1>12, <2>2 DEF Kept
<1>14. OlderTyped
  BY <1>1, <1>3, <1>6, <1>7 DEF OlderTyped, Mcp!Init
<1> QED
  BY <1>10, <1>11, <1>12, <1>13, <1>14 DEF PanelInv

LEMMA PanelStep ==
  ASSUME PanelInv, OlderTyped, [Mcp!Next]_(Mcp!panelVars)
  PROVE  PanelInv' /\ OlderTyped'
<1> SUFFICES PanelInv'
  BY OlderStep
<1>0. dlg \in DialogType \cup {Mcp!NoDlg} /\ Mcp!NoDlg \in DialogType \cup {Mcp!NoDlg}
  BY DEF PanelInv, PanelTypeOK
<1>1. CASE UNCHANGED Mcp!panelVars
  <2>1. UNCHANGED <<entry, conf1, disk, panelJob, late, dlg, agent, changed, strayed>>
    BY <1>1 DEF Mcp!panelVars
  <2> QED
    BY <1>0, <2>1, DialogOnly
<1>2. CASE \E ups \in BOOLEAN : Mcp!JobRuns(ups) \/ \E j \in late : Mcp!LateRuns(j, ups)
  BY <1>2, JobRunsStep, LateRunsStep
<1>3. CASE Mcp!JobTimesOut
  BY <1>3, JobTimesOutStep
<1>4. CASE Mcp!JobCollected
  BY <1>4, JobCollectedStep
<1>5. ASSUME NEW n \in Mcp!ServerNames, Mcp!DeleteServer(n) PROVE PanelInv'
  <2>1. UNCHANGED <<entry, conf1, disk, panelJob, late, dlg, agent, changed, strayed>>
    BY <1>5 DEF Mcp!DeleteServer
  <2> QED
    BY <1>0, <2>1, DialogOnly
<1>6. CASE \E n \in Mcp!ServerNames :
             \/ Mcp!TogglesServer(n) \/ Mcp!DeleteServer(n) \/ Mcp!EditsServer(n) \/ Mcp!AgentRemovesServer(n)
             \/ \E op \in {"connect", "disconnect", "refresh"} : Mcp!RowButton(op, n)
             \/ Mcp!TypesServer(n, 1)
             \/ \E on \in BOOLEAN : Mcp!AgentAdds(n, on)
  <2>1. PICK n \in Mcp!ServerNames :
             \/ Mcp!TogglesServer(n) \/ Mcp!DeleteServer(n) \/ Mcp!EditsServer(n) \/ Mcp!AgentRemovesServer(n)
             \/ \E op \in {"connect", "disconnect", "refresh"} : Mcp!RowButton(op, n)
             \/ Mcp!TypesServer(n, 1)
             \/ \E on \in BOOLEAN : Mcp!AgentAdds(n, on)
    BY <1>6
  <2> QED
    BY <1>5, <2>1, TogglesServerStep, EditsServerStep, AgentRemovesServerStep, RowButtonStep,
       TypesServerStep, AgentAddsStep
<1>7. CASE Mcp!ConfirmsDelete
  BY <1>7, ConfirmsDeleteStep
<1>8. CASE Mcp!CancelsDelete
  <2>1. UNCHANGED <<entry, conf1, disk, panelJob, late, dlg, agent, changed, strayed>>
    BY <1>8 DEF Mcp!CancelsDelete
  <2> QED
    BY <1>0, <2>1, DialogOnly
<1>9. CASE Mcp!OpensNew
  BY <1>9, OpensNewStep
<1>10. CASE Mcp!SavesServer
  <2>1. dlg # Mcp!NoDlg /\ Mcp!Applies(dlg.on) /\ UNCHANGED <<late, deleting, agent, changed>>
    BY <1>10 DEF Mcp!SavesServer
  <2>2. PICK on : on = dlg.on
    OBVIOUS
  <2>3. on \in BOOLEAN
    BY <1>0, <2>1, <2>2 DEF DialogType
  <2>4. Mcp!Applies(on)
    BY <2>1, <2>2
  <2> QED
    BY <2>1, <2>3, <2>4, AppliesStep
<1>11. CASE Mcp!TicksEnabled
  <2>1. dlg # Mcp!NoDlg /\ UNCHANGED <<late, deleting, agent, changed>>
    BY <1>11 DEF Mcp!TicksEnabled
  <2>2. dlg \in DialogType
    BY <1>0, <2>1
  <2>3. CASE dlg.new
    <3>1. Mcp!Applies(~dlg.on)
      BY <1>11, <2>3 DEF Mcp!TicksEnabled
    <3>2. PICK on : on = ~dlg.on
      OBVIOUS
    <3>3. on \in BOOLEAN
      BY <3>2
    <3>4. Mcp!Applies(on)
      BY <3>1, <3>2
    <3> QED
      BY <2>1, <3>3, <3>4, AppliesStep
  <2>4. CASE ~dlg.new
    <3>1. dlg' = [dlg EXCEPT !.on = ~@] /\ UNCHANGED <<entry, conf1, disk, panelJob, strayed, fails>>
      BY <1>11, <2>4 DEF Mcp!TicksEnabled
    <3>2. dlg' \in DialogType
      BY <2>2, <3>1 DEF DialogType
    <3> QED
      BY <2>1, <3>1, <3>2, DialogOnly
  <2> QED
    BY <2>3, <2>4
<1>12. CASE Mcp!CancelsServer
  <2>1. /\ dlg' = Mcp!NoDlg
        /\ UNCHANGED <<entry, conf1, disk, panelJob, late, agent, changed, strayed>>
    BY <1>12 DEF Mcp!CancelsServer
  <2> QED
    BY <1>0, <2>1, DialogOnly
<1>13. CASE Mcp!AgentWrites
  BY <1>13, AgentWritesStep
<1>14. CASE Mcp!HandlesMcpChanged
  BY <1>14, HandlesMcpChangedStep
<1>15. CASE Mcp!PanelRestarts
  BY <1>15, PanelRestartsStep
<1>16. CASE \E v \in older : Mcp!OthersWrite(v) \/ Mcp!DraftReplaces(v)
  BY <1>16, OthersStep
<1> QED
  BY <1>1, <1>2, <1>3, <1>4, <1>6, <1>7, <1>8, <1>9, <1>10, <1>11, <1>12, <1>13, <1>14, <1>15, <1>16, Zenon
     DEF Mcp!Next

LEMMA PanelHolds == ASSUME PanelInv PROVE Mcp!PanelSound
<1>1. Mcp!NamesUsable
  BY DEF PanelInv, FileNamesOnly, Mcp!NamesUsable
<1>2. ASSUME Mcp!Settled, NEW n \in Mcp!ServerNames \ strayed
      PROVE  /\ Cardinality(Mcp!Of(conf1, n)) = (IF entry[n].known THEN 1 ELSE 0)
             /\ \A i \in Mcp!Of(conf1, n) : conf1[i].setup = entry[n].setup /\ conf1[i].on = entry[n].on
             /\ {disk[i] : i \in Mcp!Of(disk, n)} = {conf1[i] : i \in Mcp!Of(conf1, n)}
  <2>1. panelJob = Mcp!NoJob /\ late = {} /\ agent = Mcp!NoCall /\ changed = 0
    BY <1>2 DEF Mcp!Settled
  <2>2. n \in Clean /\ ~AgentAt(n) /\ Flag(n) = entry[n].on
    BY <2>1 DEF Clean, AgentAt, Flag, Toggled, Running
  <2>3. Lists(disk, n, entry[n], entry[n].on) /\ Lists(conf1, n, entry[n], entry[n].on)
    BY <2>1, <2>2 DEF PanelInv, Kept, Agrees
  <2>4. CASE entry[n].known
    <3>1. PICK c : c = Mcp!Configured(n, entry[n].setup, entry[n].on)
      OBVIOUS
    <3>2. c.name = n /\ c.setup = entry[n].setup /\ c.on = entry[n].on
      BY <3>1 DEF Mcp!Configured
    <3>3. ASSUME NEW v, Lists(v, n, entry[n], entry[n].on)
          PROVE  \E i \in DOMAIN v : v[i] = c /\ Mcp!Of(v, n) = {i}
      <4>1. PICK i \in DOMAIN v : v[i] = c
        BY <2>4, <3>1, <3>3 DEF Lists
      <4>2. Mcp!Of(v, n) = {i}
        BY <3>2, <3>3, <4>1 DEF Lists, AtMostOnce, Mcp!Of
      <4> QED
        BY <4>1, <4>2
    <3>4. PICK i : conf1[i] = c /\ Mcp!Of(conf1, n) = {i}
      BY <2>3, <3>3
    <3>5. PICK j : disk[j] = c /\ Mcp!Of(disk, n) = {j}
      BY <2>3, <3>3
    <3>6. Cardinality(Mcp!Of(conf1, n)) = 1
      BY <3>4, FS_Singleton
    <3>7. {disk[k] : k \in Mcp!Of(disk, n)} = {c} /\ {conf1[k] : k \in Mcp!Of(conf1, n)} = {c}
      BY <3>4, <3>5
    <3> QED
      BY <2>4, <3>2, <3>4, <3>6, <3>7
  <2>5. CASE ~entry[n].known
    <3>1. Mcp!Of(conf1, n) = {} /\ Mcp!Of(disk, n) = {}
      BY <2>3, <2>5 DEF Lists, Mcp!Of
    <3>2. Cardinality(Mcp!Of(conf1, n)) = 0
      BY <3>1, FS_EmptySet
    <3> QED
      BY <2>5, <3>1, <3>2
  <2> QED
    BY <2>4, <2>5
<1>3. Mcp!ThreeAgree
  BY <1>2, CardinalityOfPanel DEF Mcp!ThreeAgree
<1> QED
  BY <1>1, <1>3 DEF Mcp!PanelSound

-----------------------------------------------------------------------------
(* The sessions: files, runtimes and what is shown of them.                *)

Names == Titles \cup {"", "sub", "untitled", "Untitled"}
SessionFile == [on : BOOLEAN, name : Names, said : Nat, born : Nat]
Runtime == [on : BOOLEAN, name : Names, said : Nat]
SessionFiles == [List!SessionIds -> SessionFile]

SessionsTyped ==
  /\ files \in SessionFiles /\ out \in SessionFile
  /\ runtimes \in [List!SessionIds -> Runtime]
  /\ heard \in [List!SessionIds -> Nat]
  /\ List!TypeOK

\* A session that has a runtime has a file, of its name and with no turn more, and nothing
\* was seen that the runtime has not.
RuntimeCovers(i) ==
  runtimes[i].on =>
    /\ files[i].on /\ runtimes[i].name = files[i].name
    /\ runtimes[i].said >= files[i].said /\ runtimes[i].said >= heard[i]
\* Of a session not made yet there is nothing.
NothingOfLater ==
  \A i \in List!SessionIds :
    i > made => ~files[i].on /\ ~runtimes[i].on /\ heard[i] = 0 /\ i \notin tabs

SessionsInv ==
  /\ SessionsTyped
  /\ \A i \in List!SessionIds : RuntimeCovers(i)
  /\ NothingOfLater
  /\ list = List!list_sessions(files)
  /\ List!ShownLives

LEMMA IdsAre == List!SessionIds \subseteq Nat \ {0} /\ List!NoSession = 0 /\ List!NoSession \notin List!SessionIds
BY BoundAssumption DEF List!SessionIds, List!NoSession

LEMMA RowsAre ==
  ASSUME SessionsInv
  PROVE  \A i : List!Listed(i) <=> i \in List!SessionIds /\ files[i].on
<1>1. list = List!list_sessions(files)
  BY DEF SessionsInv
<1>2. \A r \in list : \E i \in List!SessionIds : files[i].on /\ r = [id |-> i, name |-> files[i].name]
  BY <1>1 DEF List!list_sessions
<1>3. \A i \in List!SessionIds : files[i].on => [id |-> i, name |-> files[i].name] \in list
  BY <1>1 DEF List!list_sessions
<1>4. ASSUME NEW r \in list PROVE r.id \in List!SessionIds /\ files[r.id].on
  BY <1>2
<1>5. ASSUME NEW i \in List!SessionIds, files[i].on PROVE \E r \in list : r.id = i
  BY <1>3, <1>5
<1> QED
  BY <1>4, <1>5 DEF List!Listed

LEMMA RuntimeIs ==
  ASSUME NEW f \in SessionFiles, NEW i \in List!SessionIds
  PROVE  /\ List!create_from_config(f, i) \in Runtime
         /\ List!create_from_config(f, i).on
         /\ List!create_from_config(f, i).said = f[i].said
         /\ f[i].on => List!create_from_config(f, i).name = f[i].name
BY DEF List!create_from_config, SessionFiles, SessionFile, Runtime, Names

\* Saving the session shown changes no name and leaves no file behind its runtime.
LEMMA SavedIs ==
  ASSUME SessionsInv
  PROVE  \E f \in SessionFiles :
           /\ f = List!SavedShown
           /\ \A i \in List!SessionIds :
                /\ f[i].on = files[i].on /\ f[i].name = files[i].name /\ f[i].born = files[i].born
                /\ f[i].said >= files[i].said
                /\ runtimes[i].on => f[i].said <= runtimes[i].said
<1> USE DEF SessionFiles
<1>1. files \in SessionFiles /\ runtimes \in [List!SessionIds -> Runtime] /\ shown \in List!SessionIds \cup {0}
  BY IdsAre DEF SessionsInv, SessionsTyped, List!TypeOK
<1>2. CASE shown = List!NoSession \/ ~runtimes[shown].on
  <2>1. List!SavedShown = files
    BY <1>2 DEF List!SavedShown
  <2> QED
    BY <1>1, <2>1 DEF SessionsInv, RuntimeCovers, SessionFile, Runtime
<1>3. CASE shown # List!NoSession /\ runtimes[shown].on
  <2>1. shown \in List!SessionIds
    BY <1>1, <1>3, IdsAre
  <2>2. files[shown].on /\ runtimes[shown].said >= files[shown].said
    BY <1>3, <2>1 DEF SessionsInv, RuntimeCovers
  <2>3. PICK r : r = [on |-> TRUE, name |-> files[shown].name, said |-> runtimes[shown].said, born |-> files[shown].born]
    OBVIOUS
  <2>4. PICK f : f = [files EXCEPT ![shown] = r]
    OBVIOUS
  <2>5. List!SavedShown = f
    BY <1>3, <2>2, <2>3, <2>4 DEF List!SavedShown
  <2>6. r \in SessionFile /\ r.on /\ r.name = files[shown].name /\ r.said = runtimes[shown].said
        /\ r.born = files[shown].born
    BY <1>1, <2>1, <2>3 DEF SessionFile, Runtime
  <2>7. f \in SessionFiles
    BY <1>1, <2>1, <2>4, <2>6
  <2>8. ASSUME NEW i \in List!SessionIds
        PROVE  /\ f[i].on = files[i].on /\ f[i].name = files[i].name /\ f[i].born = files[i].born
               /\ f[i].said >= files[i].said
               /\ runtimes[i].on => f[i].said <= runtimes[i].said
    <3>0. files[i] \in SessionFile /\ runtimes[i] \in Runtime
      BY <1>1
    <3>1. CASE i = shown
      <4>1. f[i] = r
        BY <1>1, <2>1, <2>4, <3>1
      <4> QED
        BY <2>2, <2>6, <3>0, <3>1, <4>1 DEF SessionFile, Runtime
    <3>2. CASE i # shown
      <4>1. f[i] = files[i]
        BY <1>1, <2>1, <2>4, <3>2
      <4>2. RuntimeCovers(i)
        BY DEF SessionsInv
      <4> QED
        BY <3>0, <4>1, <4>2 DEF RuntimeCovers, SessionFile, Runtime
    <3> QED
      BY <3>1, <3>2
  <2> QED
    BY <2>5, <2>7, <2>8
<1> QED
  BY <1>2, <1>3

\* Steps that make, change and remove no session.
LEMMA NoSessionChanges ==
  ASSUME SessionsInv, UNCHANGED <<files, runtimes, heard, made, list, confs>>,
         out' \in SessionFile, {picked, renaming, dialog, shown}' \subseteq List!SessionIds \cup {List!NoSession},
         tabs' \subseteq tabs, front' # List!NoSession => front' \in tabs',
         \/ shown' = shown /\ orphan' = orphan
         \/ (shown' # List!NoSession /\ ~orphan') => runtimes[shown'].on
  PROVE  SessionsInv'
<1>1. List!TypeOK'
  BY IdsAre DEF SessionsInv, SessionsTyped, List!TypeOK
<1>2. SessionsTyped'
  BY <1>1 DEF SessionsInv, SessionsTyped
<1>3. \A i \in List!SessionIds : RuntimeCovers(i)'
  BY DEF SessionsInv, RuntimeCovers
<1>4. NothingOfLater'
  BY DEF SessionsInv, NothingOfLater
<1>5. list' = List!list_sessions(files)'
  BY DEF SessionsInv, List!list_sessions
<1>6. List!ShownLives'
  BY DEF SessionsInv, List!ShownLives
<1> QED
  BY <1>2, <1>3, <1>4, <1>5, <1>6 DEF SessionsInv

LEMMA ClicksKeep ==
  ASSUME SessionsInv,
         \/ List!OpenCreate \/ List!CancelCreate \/ List!F2 \/ List!RenameCancelled
         \/ List!DeleteClicked \/ List!DeleteCancelled \/ List!Export
         \/ \E i \in List!SessionIds : List!TabClosed(i)
         \/ \E i \in List!SessionIds \cup {List!NoSession} : List!TabClicked(i)
  PROVE  SessionsInv'
<1>1. /\ {picked, renaming, dialog, shown, front} \subseteq List!SessionIds \cup {List!NoSession}
      /\ out \in SessionFile /\ (front # List!NoSession => front \in tabs)
  BY DEF SessionsInv, SessionsTyped, List!TypeOK, List!ShownLives
<1>2. CASE List!OpenCreate \/ List!CancelCreate \/ List!DeleteCancelled \/ List!RenameCancelled
  BY <1>1, <1>2, NoSessionChanges
     DEF List!OpenCreate, List!CancelCreate, List!DeleteCancelled, List!RenameCancelled, List!app
<1>3. CASE List!F2 \/ List!DeleteClicked
  BY <1>1, <1>3, NoSessionChanges DEF List!F2, List!DeleteClicked, List!app
<1>4. CASE List!Export
  <2>1. files[picked] \in SessionFile
    BY <1>1, <1>4, IdsAre DEF SessionsInv, SessionsTyped, SessionFiles, List!Export
  <2> QED
    BY <1>1, <1>4, <2>1, NoSessionChanges DEF List!Export, List!app, List!sidebar
<1>5. ASSUME NEW i \in List!SessionIds, List!TabClosed(i) PROVE SessionsInv'
  BY <1>1, <1>5, NoSessionChanges DEF List!TabClosed, List!sidebar
<1>6. ASSUME NEW i \in List!SessionIds \cup {List!NoSession}, List!TabClicked(i) PROVE SessionsInv'
  BY <1>1, <1>6, NoSessionChanges DEF List!TabClicked, List!sidebar
<1> QED
  BY <1>2, <1>3, <1>4, <1>5, <1>6

LEMMA HandBackKeeps ==
  ASSUME SessionsInv, NEW i \in List!SessionIds, NEW j \in List!SessionIds, List!HandBack(i, j)
  PROVE  SessionsInv'
<1>1. /\ {picked, renaming, dialog, shown, front} \subseteq List!SessionIds \cup {List!NoSession}
      /\ out \in SessionFile
  BY DEF SessionsInv, SessionsTyped, List!TypeOK
<1>2. /\ UNCHANGED <<files, runtimes, heard, made, confs, out, tabs, renaming, dialog>>
      /\ front' = List!NoSession /\ shown' = j /\ picked' = j
      /\ list' = List!list_sessions(files) /\ (orphan' <=> (orphan \/ ~runtimes[j].on))
  BY DEF List!HandBack, List!refresh
<1>3. list' = list
  BY <1>2 DEF SessionsInv
<1> QED
  BY <1>1, <1>2, <1>3, NoSessionChanges

LEMMA DeleteConfirmedKeeps ==
  ASSUME SessionsInv, NEW works \in BOOLEAN, List!DeleteConfirmed(works)
  PROVE  SessionsInv'
<1>1. PICK i : i = dialog
  OBVIOUS
<1>2. /\ {picked, renaming, dialog, shown, front} \cup confs \subseteq List!SessionIds \cup {List!NoSession}
      /\ out \in SessionFile /\ files \in [List!SessionIds -> SessionFile] /\ tabs \subseteq List!SessionIds
      /\ runtimes \in [List!SessionIds -> Runtime] /\ heard \in [List!SessionIds -> Nat] /\ made \in 0..MaxIds
  BY DEF SessionsInv, SessionsTyped, List!TypeOK, SessionFiles
<1>3. /\ i \in List!SessionIds /\ dialog' = List!NoSession
      /\ UNCHANGED <<out, renaming, creating, made, orphan, unmade>>
  BY <1>1, <1>2 DEF List!DeleteConfirmed
<1>4. CASE ~(works /\ files[i].on)
  <2>1. /\ UNCHANGED <<files, runtimes, tabs, front, shown, confs, heard>>
        /\ list' = List!list_sessions(files)
        /\ picked' = picked \/ picked' = List!NoSession
    BY <1>1, <1>4 DEF List!DeleteConfirmed, List!refresh
  <2>2. list' = list
    BY <2>1 DEF SessionsInv
  <2>3. front # List!NoSession => front \in tabs
    BY DEF SessionsInv, List!ShownLives
  <2> QED
    BY <1>2, <1>3, <2>1, <2>2, <2>3, NoSessionChanges
<1>5. CASE works /\ files[i].on
  <2>1. /\ files' = [files EXCEPT ![i] = List!Gone] /\ runtimes' = [runtimes EXCEPT ![i] = List!Closed]
        /\ list' = List!list_sessions([files EXCEPT ![i] = List!Gone])
        /\ tabs' = tabs \ {i} /\ front' = (IF front = i THEN List!NoSession ELSE front)
        /\ shown' = (IF shown = i THEN List!NoSession ELSE shown)
        /\ picked' = List!NoSession /\ confs' = confs \cup {List!NoSession} /\ heard' = [heard EXCEPT ![i] = 0]
    BY <1>1, <1>5 DEF List!DeleteConfirmed, List!refresh, List!Leaves, List!Configures
  <2>2. List!Gone \in SessionFile /\ ~List!Gone.on /\ List!Closed \in Runtime /\ ~List!Closed.on
    BY DEF List!Gone, List!Closed, SessionFile, Runtime, Names
  <2>3. /\ files' \in SessionFiles /\ runtimes' \in [List!SessionIds -> Runtime] /\ heard' \in [List!SessionIds -> Nat]
    BY <1>2, <2>1, <2>2 DEF SessionFiles
  <2>4. ~files'[i].on /\ ~runtimes'[i].on /\ heard'[i] = 0
    BY <1>2, <1>3, <2>1, <2>2
  <2>5. ASSUME NEW j \in List!SessionIds, j # i
        PROVE  files'[j] = files[j] /\ runtimes'[j] = runtimes[j] /\ heard'[j] = heard[j]
    BY <1>2, <2>1, <2>5
  <2>6. List!TypeOK'
    <3>1. {picked', renaming', dialog', shown', front'} \cup confs' \subseteq List!SessionIds \cup {List!NoSession}
      BY <1>2, <1>3, <2>1
    <3>2. \A r \in list' : r.id \in List!SessionIds
      BY <2>1 DEF List!list_sessions
    <3> QED
      BY <1>2, <1>3, <2>1, <3>1, <3>2 DEF List!TypeOK
  <2>7. SessionsTyped'
    BY <1>2, <1>3, <2>3, <2>6 DEF SessionsTyped
  <2>8. \A j \in List!SessionIds : RuntimeCovers(j)'
    BY <2>4, <2>5 DEF SessionsInv, RuntimeCovers
  <2>9. NothingOfLater'
    BY <1>3, <2>1, <2>4, <2>5 DEF SessionsInv, NothingOfLater
  <2>10. list' = List!list_sessions(files)'
    BY <2>1 DEF List!list_sessions
  <2>11. List!ShownLives'
    <3>1. shown' # List!NoSession /\ ~orphan' => runtimes'[shown'].on
      BY <1>2, <1>3, <2>1, <2>5 DEF SessionsInv, List!ShownLives
    <3>2. (front' # List!NoSession => front' \in tabs') /\ \A j \in tabs' : runtimes'[j].on
      BY <1>2, <2>1, <2>5 DEF SessionsInv, List!ShownLives
    <3> QED
      BY <2>1, <3>1, <3>2 DEF List!ShownLives
  <2> QED
    BY <2>7, <2>8, <2>9, <2>10, <2>11 DEF SessionsInv
<1> QED
  BY <1>4, <1>5

\* What the variables of the sessions are, for the steps below.
LEMMA SessionTypes ==
  ASSUME SessionsInv
  PROVE  /\ {picked, renaming, dialog, shown, front} \cup confs \subseteq List!SessionIds \cup {List!NoSession}
         /\ out \in SessionFile /\ files \in [List!SessionIds -> SessionFile] /\ tabs \subseteq List!SessionIds
         /\ runtimes \in [List!SessionIds -> Runtime] /\ heard \in [List!SessionIds -> Nat]
         /\ made \in 0..MaxIds
BY DEF SessionsInv, SessionsTyped, List!TypeOK, SessionFiles

LEMMA RowsTyped == ASSUME NEW f PROVE \A r \in List!list_sessions(f) : r.id \in List!SessionIds
BY DEF List!list_sessions

LEMMA MakesKeeps ==
  ASSUME SessionsInv, NEW name \in Names, List!Makes(name),
         {picked, renaming, dialog, front}' \cup confs' \subseteq List!SessionIds \cup {List!NoSession},
         tabs' \subseteq tabs \cup {made + 1}, front' # List!NoSession => front' \in tabs',
         shown' = shown /\ orphan' = orphan
  PROVE  SessionsInv'
<1>1. PICK i, r, f : i = made + 1 /\ r = List!NewFile(i, name)
                     /\ f = [files EXCEPT ![i] = r]
  OBVIOUS
<1>2. PICK x : x = List!create_from_config(f, i)
  OBVIOUS
<1>3. /\ made < MaxIds /\ made' = i /\ files' = f /\ runtimes' = [runtimes EXCEPT ![i] = x]
      /\ list' = List!list_sessions(f) /\ out' = out /\ heard' = heard
  BY <1>1, <1>2 DEF List!Makes, List!refresh
<1>4. i \in List!SessionIds /\ i \in Nat /\ made \in Nat
  BY <1>1, <1>3, SessionTypes, BoundAssumption DEF List!SessionIds
<1>5. r \in SessionFile /\ r.on /\ r.name = name /\ r.said = 0
  BY <1>1, <1>4 DEF SessionFile, List!NewFile
<1>6. f \in SessionFiles /\ f[i] = r /\ \A j \in List!SessionIds : j # i => f[j] = files[j]
  BY <1>1, <1>4, <1>5, SessionTypes DEF SessionFiles
<1>7. x \in Runtime /\ x.on /\ x.said = 0 /\ x.name = name
  BY <1>2, <1>4, <1>5, <1>6, RuntimeIs
<1>8. /\ runtimes' \in [List!SessionIds -> Runtime] /\ runtimes'[i] = x
      /\ \A j \in List!SessionIds : j # i => runtimes'[j] = runtimes[j]
  BY <1>3, <1>4, <1>7, SessionTypes
<1>9. heard[i] = 0
  BY <1>1, <1>4 DEF SessionsInv, NothingOfLater
<1>10. SessionsTyped'
  <2>1. List!TypeOK'
    <3>1. \A s \in list' : s.id \in List!SessionIds
      BY <1>3, RowsTyped
    <3>2. tabs' \subseteq List!SessionIds /\ made' \in 0..MaxIds
      <4>1. made' \in 0..MaxIds
        BY <1>3, <1>4 DEF List!SessionIds
      <4> QED
        BY <1>1, <1>4, <4>1, SessionTypes
    <3> QED
      BY <3>1, <3>2, SessionTypes DEF List!TypeOK
  <2> QED
    BY <1>3, <1>6, <1>8, <2>1, SessionTypes DEF SessionsTyped
<1>11. ASSUME NEW j \in List!SessionIds PROVE RuntimeCovers(j)'
  <2>1. CASE j = i
    BY <1>3, <1>5, <1>6, <1>7, <1>8, <1>9, <2>1 DEF RuntimeCovers
  <2>2. CASE j # i
    BY <1>3, <1>6, <1>8, <2>2 DEF RuntimeCovers, SessionsInv
  <2> QED
    BY <2>1, <2>2
<1>12. NothingOfLater'
  <2>1. ASSUME NEW j \in List!SessionIds, j > made'
        PROVE  j > made /\ j # i /\ j # made + 1
    BY <1>1, <1>3, <1>4, <2>1, IdsAre
  <2> QED
    BY <1>3, <1>6, <1>8, <2>1 DEF SessionsInv, NothingOfLater
<1>13. list' = List!list_sessions(files)'
  BY <1>3 DEF List!list_sessions
<1>14. List!ShownLives'
  <2>1. shown' # List!NoSession /\ ~orphan' => runtimes'[shown'].on
    BY <1>7, <1>8, SessionTypes DEF SessionsInv, List!ShownLives
  <2>2. \A j \in tabs' : runtimes'[j].on
    BY <1>1, <1>7, <1>8, SessionTypes DEF SessionsInv, List!ShownLives
  <2> QED
    BY <2>1, <2>2 DEF SessionsInv, List!ShownLives
<1> QED
  BY <1>10, <1>11, <1>12, <1>13, <1>14 DEF SessionsInv

LEMMA RenameKeeps ==
  ASSUME SessionsInv, NEW i \in List!SessionIds, NEW name \in Titles, List!Rename(i, name),
         renaming' \in List!SessionIds \cup {List!NoSession}
  PROVE  SessionsInv'
<1>1. /\ files' = [files EXCEPT ![i].name = IF files[i].on THEN name ELSE files[i].name]
      /\ runtimes' = [runtimes EXCEPT ![i].name = IF runtimes[i].on THEN name ELSE runtimes[i].name]
      /\ list' = List!list_sessions(files')
      /\ UNCHANGED <<out, picked, dialog, shown, tabs, front, confs, made, heard, orphan>>
  BY DEF List!Rename, List!Renamed, List!refresh
<1>2. /\ files' \in SessionFiles /\ runtimes' \in [List!SessionIds -> Runtime]
      /\ \A j \in List!SessionIds :
           /\ files'[j].on = files[j].on /\ files'[j].said = files[j].said
           /\ runtimes'[j].on = runtimes[j].on /\ runtimes'[j].said = runtimes[j].said
           /\ j # i => files'[j].name = files[j].name /\ runtimes'[j].name = runtimes[j].name
      /\ files[i].on => files'[i].name = name
      /\ runtimes[i].on => runtimes'[i].name = name
  <2>1. name \in Names
    BY DEF Names
  <2> QED
    BY <1>1, <2>1, SessionTypes DEF SessionFiles, SessionFile, Runtime
<1>3. SessionsTyped'
  <2>1. List!TypeOK'
    BY <1>1, SessionTypes, RowsTyped DEF List!TypeOK
  <2> QED
    BY <1>1, <1>2, <2>1, SessionTypes DEF SessionsTyped
<1>4. ASSUME NEW j \in List!SessionIds PROVE RuntimeCovers(j)'
  <2>1. RuntimeCovers(j)
    BY DEF SessionsInv
  <2>2. heard' = heard
    BY <1>1
  <2> QED
    BY <1>2, <2>1, <2>2 DEF RuntimeCovers
<1>5. NothingOfLater'
  BY <1>1, <1>2 DEF SessionsInv, NothingOfLater
<1>6. list' = List!list_sessions(files)'
  BY <1>1 DEF List!list_sessions
<1>7. List!ShownLives'
  BY <1>1, <1>2, SessionTypes DEF SessionsInv, List!ShownLives
<1> QED
  BY <1>3, <1>4, <1>5, <1>6, <1>7 DEF SessionsInv

\* A session that is switched to has what its file holds, or what it held already.
LEMMA SwitchKeeps ==
  ASSUME SessionsInv, NEW i \in List!SessionIds, files[i].on, List!switch_session(i),
         confs' = confs \/ confs' = confs \cup {i}, {renaming, dialog}' \subseteq List!SessionIds \cup {List!NoSession},
         UNCHANGED <<out, list, tabs, made, orphan>>
  PROVE  SessionsInv'
<1>1. PICK f \in SessionFiles :
        /\ f = List!SavedShown
        /\ \A j \in List!SessionIds :
             /\ f[j].on = files[j].on /\ f[j].name = files[j].name /\ f[j].born = files[j].born
             /\ f[j].said >= files[j].said
             /\ runtimes[j].on => f[j].said <= runtimes[j].said
  BY SavedIs
<1>2. PICK x : x = List!create_from_config(f, i)
  OBVIOUS
<1>3. /\ files' = f /\ front' = List!NoSession /\ picked' = i /\ shown' = i
      /\ runtimes' = IF runtimes[i].on THEN runtimes ELSE [runtimes EXCEPT ![i] = x]
      /\ IF runtimes[i].on THEN heard' = heard ELSE heard' = [heard EXCEPT ![i] = runtimes'[i].said]
  BY <1>1, <1>2 DEF List!switch_session, List!Opened, List!reload_messages
<1>4. x \in Runtime /\ x.on /\ x.said = f[i].said /\ x.name = f[i].name /\ f[i].on
  BY <1>1, <1>2, RuntimeIs
<1>5. /\ runtimes' \in [List!SessionIds -> Runtime] /\ heard' \in [List!SessionIds -> Nat]
      /\ runtimes'[i].on
      /\ \A j \in List!SessionIds : j # i => runtimes'[j] = runtimes[j] /\ heard'[j] = heard[j]
      /\ runtimes[i].on => runtimes'[i] = runtimes[i] /\ heard'[i] = heard[i]
      /\ ~runtimes[i].on => runtimes'[i] = x /\ heard'[i] = x.said
  <2>1. CASE runtimes[i].on
    BY <1>3, <2>1, SessionTypes
  <2>2. CASE ~runtimes[i].on
    <3>1. runtimes' = [runtimes EXCEPT ![i] = x]
      BY <1>3, <2>2
    <3>2. runtimes' \in [List!SessionIds -> Runtime] /\ runtimes'[i] = x
          /\ \A j \in List!SessionIds : j # i => runtimes'[j] = runtimes[j]
      BY <1>4, <3>1, SessionTypes
    <3>3. heard' = [heard EXCEPT ![i] = x.said] /\ x.said \in Nat
      BY <1>3, <1>4, <2>2, <3>2 DEF Runtime
    <3> QED
      BY <1>4, <2>2, <3>2, <3>3, SessionTypes
  <2> QED
    BY <2>1, <2>2
<1>6. SessionsTyped'
  <2>1. List!TypeOK'
    BY <1>3, SessionTypes DEF SessionsInv, SessionsTyped, List!TypeOK
  <2> QED
    BY <1>1, <1>3, <1>5, <2>1, SessionTypes DEF SessionsTyped
<1>7. ASSUME NEW j \in List!SessionIds PROVE RuntimeCovers(j)'
  <2>1. RuntimeCovers(j) /\ f[j] \in SessionFile
    BY <1>1 DEF SessionsInv, SessionFiles
  <2>2. CASE j # i \/ runtimes[i].on
    <3>1. runtimes'[j] = runtimes[j] /\ heard'[j] = heard[j] /\ runtimes[j] \in Runtime
      BY <1>5, <2>2, SessionTypes
    <3> QED
      BY <1>1, <1>3, <2>1, <3>1 DEF RuntimeCovers, Runtime, SessionFile
  <2>3. CASE j = i /\ ~runtimes[i].on
    BY <1>3, <1>4, <1>5, <2>1, <2>3 DEF RuntimeCovers, SessionFile
  <2> QED
    BY <2>2, <2>3
<1>8. NothingOfLater'
  <2>1. ~(i > made)
    BY DEF SessionsInv, NothingOfLater
  <2> QED
    BY <1>1, <1>3, <1>5, <2>1 DEF SessionsInv, NothingOfLater
<1>9. list' = List!list_sessions(files)'
  <2>1. list = List!list_sessions(files)
    BY DEF SessionsInv
  <2>2. List!list_sessions(files) = List!list_sessions(f)
    BY <1>1 DEF List!list_sessions
  <2> QED
    BY <1>3, <2>1, <2>2 DEF List!list_sessions
<1>10. List!ShownLives'
  BY <1>1, <1>3, <1>5, SessionTypes DEF SessionsInv, List!ShownLives
<1> QED
  BY <1>6, <1>7, <1>8, <1>9, <1>10 DEF SessionsInv

LEMMA MakingKeeps ==
  ASSUME SessionsInv,
         \/ \E n \in Titles : List!CreateClicked(n) \/ List!HostCreates(n)
         \/ List!SubSession
  PROVE  SessionsInv'
<1>1. ASSUME NEW n \in Titles, List!CreateClicked(n) \/ List!HostCreates(n) PROVE SessionsInv'
  <2>1. /\ List!Makes(n) /\ picked' = made + 1 /\ confs' = confs \cup {made + 1} /\ made' = made + 1
        /\ UNCHANGED <<renaming, dialog, shown, tabs, front, orphan>> /\ n \in Names
    BY <1>1 DEF List!CreateClicked, List!HostCreates, List!Create, List!Makes, List!Configures, Names
  <2>2. made + 1 \in List!SessionIds
    BY <2>1, SessionTypes, BoundAssumption DEF List!Makes, List!SessionIds
  <2>3. front # List!NoSession => front \in tabs
    BY DEF SessionsInv, List!ShownLives
  <2> QED
    BY <2>1, <2>2, <2>3, SessionTypes, MakesKeeps
<1>2. ASSUME List!SubSession PROVE SessionsInv'
  <2>1. /\ List!Makes("sub") /\ tabs' = tabs \cup {made + 1} /\ front' = made + 1
        /\ UNCHANGED <<picked, renaming, dialog, shown, confs, orphan>> /\ "sub" \in Names
    BY <1>2 DEF List!SubSession, Names
  <2>2. made + 1 \in List!SessionIds
    BY <2>1, SessionTypes, BoundAssumption DEF List!Makes, List!SessionIds
  <2> QED
    BY <2>1, <2>2, SessionTypes, MakesKeeps
<1> QED
  BY <1>1, <1>2

LEMMA EnteredKeeps ==
  ASSUME SessionsInv, NEW n \in Titles, NEW other \in Titles, List!CreateEntered(n, other)
  PROVE  SessionsInv'
<1>1. CASE renaming # List!NoSession /\ other # ""
  <2>1. List!Rename(renaming, other) /\ renaming' = List!NoSession /\ renaming \in List!SessionIds
    BY <1>1, SessionTypes DEF List!CreateEntered
  <2>2. PICK i \in List!SessionIds : i = renaming
    BY <2>1
  <2> QED
    BY <2>1, <2>2, RenameKeeps
<1>2. CASE ~(renaming # List!NoSession /\ other # "")
  <2>1. /\ List!Makes(n) /\ picked' = made + 1 /\ confs' = confs \cup {made + 1}
        /\ renaming' = renaming \/ renaming' = List!NoSession
        /\ UNCHANGED <<dialog, shown, tabs, front, orphan>> /\ n \in Names
    BY <1>2 DEF List!CreateEntered, List!Create, List!Configures, Names
  <2>2. made + 1 \in List!SessionIds
    BY <2>1, SessionTypes, BoundAssumption DEF List!Makes, List!SessionIds
  <2>3. front # List!NoSession => front \in tabs
    BY DEF SessionsInv, List!ShownLives
  <2> QED
    BY <2>1, <2>2, <2>3, SessionTypes, MakesKeeps
<1> QED
  BY <1>1, <1>2

LEMMA RenamingKeeps ==
  ASSUME SessionsInv, NEW n \in Titles, List!RenameEntered(n) \/ List!RenameTicked(n)
  PROVE  SessionsInv'
<1>1. CASE n # "" \/ List!RenameTicked(n)
  <2>1. /\ List!Rename(renaming, n) /\ renaming' = List!NoSession /\ renaming \in List!SessionIds
    BY <1>1, SessionTypes, RowsAre DEF List!RenameEntered, List!RenameTicked
  <2>2. PICK i \in List!SessionIds : i = renaming
    BY <2>1
  <2> QED
    BY <2>1, <2>2, RenameKeeps
<1>2. CASE n = "" /\ List!RenameEntered(n)
  <2>1. /\ UNCHANGED <<files, runtimes, heard, made, list, confs, out, picked, dialog, shown, tabs, front, orphan>>
        /\ renaming' = List!NoSession
    BY <1>2 DEF List!RenameEntered, List!app
  <2>2. front # List!NoSession => front \in tabs
    BY DEF SessionsInv, List!ShownLives
  <2> QED
    BY <2>1, <2>2, SessionTypes, NoSessionChanges
<1> QED
  BY <1>1, <1>2

LEMMA SwitchingKeeps ==
  ASSUME SessionsInv, NEW i \in List!SessionIds,
         List!HostSwitches(i) \/ \E double \in BOOLEAN : List!RowClicked(i, double)
  PROVE  SessionsInv'
<1>1. /\ List!switch_session(i) /\ (confs' = confs \/ confs' = confs \cup {i})
      /\ renaming' \in {renaming, i} /\ UNCHANGED <<out, list, dialog, tabs, made, orphan>>
      /\ runtimes[i].on \/ List!Listed(i)
  BY DEF List!HostSwitches, List!RowClicked, List!Configures
<1>2. files[i].on
  BY <1>1, RowsAre DEF SessionsInv, RuntimeCovers
<1> QED
  BY <1>1, <1>2, SessionTypes, SwitchKeeps

LEMMA ImportKeeps ==
  ASSUME SessionsInv, List!Import
  PROVE  SessionsInv'
<1>1. PICK i : i = made + 1
  OBVIOUS
<1>2. /\ made < MaxIds /\ made' = i /\ files' = [files EXCEPT ![i] = out]
      /\ list' = List!list_sessions(files')
      /\ UNCHANGED <<out, picked, renaming, dialog, runtimes, shown, tabs, front, confs, heard, orphan>>
  BY <1>1 DEF List!Import, List!Copied, List!refresh, List!app
<1>3. i \in List!SessionIds /\ i \in Nat /\ made \in Nat
  BY <1>1, <1>2, SessionTypes, BoundAssumption DEF List!SessionIds
<1>4. files' \in SessionFiles /\ \A j \in List!SessionIds : j # i => files'[j] = files[j]
  BY <1>2, <1>3, SessionTypes DEF SessionFiles
<1>5. ~runtimes[i].on /\ ~files[i].on
  BY <1>1, <1>3 DEF SessionsInv, NothingOfLater
<1>6. SessionsTyped'
  <2>1. made' \in 0..MaxIds
    BY <1>2, <1>3 DEF List!SessionIds
  <2>2. List!TypeOK'
    BY <1>2, <2>1, SessionTypes, RowsTyped DEF List!TypeOK
  <2> QED
    BY <1>2, <1>4, <2>2, SessionTypes DEF SessionsTyped
<1>7. ASSUME NEW j \in List!SessionIds PROVE RuntimeCovers(j)'
  BY <1>2, <1>4, <1>5 DEF SessionsInv, RuntimeCovers
<1>8. NothingOfLater'
  <2>1. ASSUME NEW j \in List!SessionIds, j > made'
        PROVE  j > made /\ j # i
    BY <1>1, <1>2, <1>3, <2>1, IdsAre
  <2> QED
    BY <1>2, <1>4, <2>1 DEF SessionsInv, NothingOfLater
<1>9. list' = List!list_sessions(files)'
  BY <1>2 DEF List!list_sessions
<1>10. List!ShownLives'
  BY <1>2, <1>4, <1>5, SessionTypes DEF SessionsInv, List!ShownLives
<1> QED
  BY <1>6, <1>7, <1>8, <1>9, <1>10 DEF SessionsInv

LEMMA TurnKeeps ==
  ASSUME SessionsInv, NEW i \in List!SessionIds, List!Turn(i)
  PROVE  SessionsInv'
<1>1. /\ runtimes[i].on /\ runtimes' = [runtimes EXCEPT ![i].said = runtimes[i].said + 1]
      /\ heard' = [heard EXCEPT ![i] = heard[i] + 1]
      /\ files' = files \/ files' = [files EXCEPT ![i].said = runtimes[i].said + 1]
      /\ UNCHANGED <<out, list, picked, renaming, dialog, creating, shown, tabs, front, confs, made, orphan>>
  BY DEF List!Turn, List!sidebar
<1>2. /\ files' \in SessionFiles /\ runtimes' \in [List!SessionIds -> Runtime]
      /\ heard' \in [List!SessionIds -> Nat]
      /\ \A j \in List!SessionIds :
           /\ files'[j].on = files[j].on /\ files'[j].name = files[j].name
           /\ runtimes'[j].on = runtimes[j].on /\ runtimes'[j].name = runtimes[j].name
           /\ j # i => files'[j] = files[j] /\ runtimes'[j] = runtimes[j] /\ heard'[j] = heard[j]
      /\ runtimes'[i].said = runtimes[i].said + 1 /\ heard'[i] = heard[i] + 1
      /\ files'[i].said = files[i].said \/ files'[i].said = runtimes[i].said + 1
  <2>1. /\ runtimes[i] \in Runtime /\ files[i] \in SessionFile
        /\ runtimes[i].said \in Nat /\ heard[i] \in Nat
    BY SessionTypes DEF Runtime
  <2>2. PICK x, y : /\ x = [runtimes[i] EXCEPT !.said = runtimes[i].said + 1]
                    /\ y = [files[i] EXCEPT !.said = runtimes[i].said + 1]
    OBVIOUS
  <2>3. x \in Runtime /\ x.on = runtimes[i].on /\ x.name = runtimes[i].name /\ x.said = runtimes[i].said + 1
    BY <2>1, <2>2 DEF Runtime
  <2>4. y \in SessionFile /\ y.on = files[i].on /\ y.name = files[i].name /\ y.said = runtimes[i].said + 1
    BY <2>1, <2>2 DEF SessionFile
  <2>5. /\ runtimes' = [runtimes EXCEPT ![i] = x]
        /\ files' = files \/ files' = [files EXCEPT ![i] = y]
    BY <1>1, <2>2
  <2>6. /\ runtimes' \in [List!SessionIds -> Runtime] /\ runtimes'[i] = x
        /\ \A j \in List!SessionIds : j # i => runtimes'[j] = runtimes[j]
    BY <2>3, <2>5, SessionTypes
  <2>7. /\ files' \in SessionFiles /\ files'[i] \in {files[i], y}
        /\ \A j \in List!SessionIds : j # i => files'[j] = files[j]
    BY <2>4, <2>5, SessionTypes DEF SessionFiles
  <2>8. /\ heard' \in [List!SessionIds -> Nat] /\ heard'[i] = heard[i] + 1
        /\ \A j \in List!SessionIds : j # i => heard'[j] = heard[j]
    BY <1>1, <2>1, SessionTypes
  <2>9. ASSUME NEW j \in List!SessionIds
        PROVE  /\ files'[j].on = files[j].on /\ files'[j].name = files[j].name
               /\ runtimes'[j].on = runtimes[j].on /\ runtimes'[j].name = runtimes[j].name
    BY <2>3, <2>4, <2>6, <2>7
  <2> QED
    BY <2>3, <2>4, <2>6, <2>7, <2>8, <2>9
<1>3. SessionsTyped'
  <2>1. List!TypeOK'
    BY <1>1, SessionTypes DEF SessionsInv, SessionsTyped, List!TypeOK
  <2> QED
    BY <1>1, <1>2, <2>1, SessionTypes DEF SessionsTyped
<1>4. ASSUME NEW j \in List!SessionIds PROVE RuntimeCovers(j)'
  <2>1. RuntimeCovers(j) /\ files[j] \in SessionFile /\ runtimes[j] \in Runtime /\ heard[j] \in Nat
    BY SessionTypes DEF SessionsInv
  <2> QED
    BY <1>2, <2>1 DEF RuntimeCovers, SessionFile, Runtime
<1>5. NothingOfLater'
  BY <1>1, <1>2 DEF SessionsInv, NothingOfLater
<1>6. list' = List!list_sessions(files)'
  <2>1. list = List!list_sessions(files)
    BY DEF SessionsInv
  <2> QED
    BY <1>1, <1>2, <2>1 DEF List!list_sessions
<1>7. List!ShownLives'
  BY <1>1, <1>2, SessionTypes DEF SessionsInv, List!ShownLives
<1> QED
  BY <1>3, <1>4, <1>5, <1>6, <1>7 DEF SessionsInv

\* The one session that is restored, or made for want of one.
LEMMA RestartKeeps ==
  ASSUME SessionsInv, NEW crashed \in BOOLEAN, NEW id \in List!SessionIds \cup {List!NoSession},
         List!Restart(crashed, id)
  PROVE  SessionsInv'
<1>1. PICK f \in SessionFiles :
        /\ f = (IF crashed THEN files ELSE List!SavedShown)
        /\ \A j \in List!SessionIds : f[j].on = files[j].on
  BY SavedIs, SessionTypes DEF SessionFiles
<1>2. PICK back \in BOOLEAN : back <=> id # List!NoSession /\ f[id].on
  OBVIOUS
<1>3. PICK i, r, g :
        /\ i = (IF back THEN id ELSE made + 1)
        /\ r = List!NewFile(i, "Untitled")
        /\ g = (IF back THEN f ELSE [f EXCEPT ![i] = r])
  OBVIOUS
<1>4. /\ back \/ made < MaxIds
      /\ made' = (IF back THEN made ELSE i)
      /\ files' = g /\ list' = List!list_sessions(g)
      /\ picked' = i /\ shown' = i
      /\ runtimes' = [j \in List!SessionIds |-> IF j = i THEN List!create_from_config(g, j) ELSE List!Closed]
      /\ heard' = [j \in List!SessionIds |-> runtimes'[j].said]
      /\ renaming' = List!NoSession /\ dialog' = List!NoSession /\ tabs' = {} /\ front' = List!NoSession
      /\ confs' = {id, i}
      /\ UNCHANGED <<out, orphan>>
  BY <1>1, <1>2, <1>3 DEF List!Restart, List!refresh
<1>5. i \in List!SessionIds /\ i \in Nat /\ made \in Nat /\ made' \in 0..MaxIds
  <2>1. CASE back
    BY <1>2, <1>3, <1>4, <2>1, SessionTypes, IdsAre
  <2>2. CASE ~back
    BY <1>3, <1>4, <2>2, SessionTypes, BoundAssumption DEF List!SessionIds
  <2> QED
    BY <2>1, <2>2
<1>6. /\ g \in SessionFiles /\ g[i].on
      /\ \A j \in List!SessionIds : j # i => g[j] = f[j]
  <2>1. CASE back
    BY <1>1, <1>2, <1>3, <2>1
  <2>2. CASE ~back
    <3>1. r \in SessionFile /\ r.on
      BY <1>3, <1>5 DEF List!NewFile, SessionFile, Names
    <3>2. g = [f EXCEPT ![i] = r]
      BY <1>3, <2>2
    <3> QED
      BY <1>1, <1>5, <3>1, <3>2 DEF SessionFiles
  <2> QED
    BY <2>1, <2>2
<1>7. List!Closed \in Runtime /\ ~List!Closed.on /\ List!Closed.said = 0
  BY DEF List!Closed, Runtime, Names
<1>8. ASSUME NEW j \in List!SessionIds
      PROVE  /\ runtimes'[j] \in Runtime /\ heard'[j] = runtimes'[j].said /\ heard'[j] \in Nat
             /\ runtimes'[j].on <=> j = i
             /\ runtimes'[j].on => g[j].on /\ runtimes'[j].said = g[j].said /\ runtimes'[j].name = g[j].name
             /\ ~runtimes'[j].on => heard'[j] = 0
  <2>1. CASE j = i
    <3>1. runtimes'[j] = List!create_from_config(g, j) /\ heard'[j] = runtimes'[j].said
      BY <1>4, <2>1
    <3> QED
      BY <1>6, <2>1, <3>1, RuntimeIs DEF Runtime
  <2>2. CASE j # i
    <3>1. runtimes'[j] = List!Closed /\ heard'[j] = runtimes'[j].said
      BY <1>4, <2>2
    <3> QED
      BY <1>7, <2>2, <3>1
  <2> QED
    BY <2>1, <2>2
<1>9. SessionsTyped'
  <2>1. {picked', renaming', dialog', shown', front'} \cup confs' \subseteq List!SessionIds \cup {List!NoSession}
    BY <1>4, <1>5
  <2>2. List!TypeOK'
    BY <1>4, <1>5, <2>1, RowsTyped DEF List!TypeOK
  <2>3. runtimes' \in [List!SessionIds -> Runtime] /\ heard' \in [List!SessionIds -> Nat]
    BY <1>4, <1>8
  <2> QED
    BY <1>4, <1>6, <2>2, <2>3, SessionTypes DEF SessionsTyped
<1>10. ASSUME NEW j \in List!SessionIds PROVE RuntimeCovers(j)'
  <2>1. g[j].said \in Nat
    BY <1>6 DEF SessionFiles, SessionFile
  <2> QED
    BY <1>4, <1>8, <2>1 DEF RuntimeCovers
<1>11. NothingOfLater'
  <2>1. ASSUME NEW j \in List!SessionIds, j > made'
        PROVE  ~g[j].on /\ j # i
    <3>1. CASE back
      <4>1. ~f[j].on /\ f[i].on
        BY <1>1, <1>2, <1>3, <1>4, <2>1, <3>1 DEF SessionsInv, NothingOfLater
      <4> QED
        BY <1>3, <3>1, <4>1
    <3>2. CASE ~back
      <4>1. made' = i /\ i = made + 1
        BY <1>3, <1>4, <3>2
      <4>2. j # i /\ j > made
        BY <1>5, <2>1, <4>1, IdsAre
      <4> QED
        BY <1>1, <1>6, <4>2 DEF SessionsInv, NothingOfLater
    <3> QED
      BY <3>1, <3>2
  <2> QED
    BY <1>4, <1>8, <2>1 DEF NothingOfLater
<1>12. list' = List!list_sessions(files)'
  BY <1>4 DEF List!list_sessions
<1>13. List!ShownLives'
  BY <1>4, <1>5, <1>8 DEF List!ShownLives
<1> QED
  BY <1>9, <1>10, <1>11, <1>12, <1>13 DEF SessionsInv

\* The first start has made a session.
LEMMA SessionsInit == ASSUME List!Init PROVE SessionsInv
<1>1. PICK r : r = List!NewFile(1, "Untitled")
  OBVIOUS
<1>2. /\ 1 \in List!SessionIds /\ 1 \in 0..MaxIds
      /\ r \in SessionFile /\ r.on /\ r.said = 0 /\ List!Gone \in SessionFile /\ ~List!Gone.on
      /\ List!Closed \in Runtime /\ ~List!Closed.on
  BY <1>1, BoundAssumption
     DEF List!SessionIds, List!NewFile, List!Gone, List!Closed, SessionFile, Runtime, Names
<1>3. /\ files = [i \in List!SessionIds |-> IF i = 1 THEN r ELSE List!Gone] /\ out = List!Gone
      /\ list = List!list_sessions(files)
      /\ picked = 1 /\ renaming = List!NoSession /\ dialog = List!NoSession
      /\ runtimes = [i \in List!SessionIds |-> IF i = 1 THEN List!create_from_config(files, i) ELSE List!Closed]
      /\ shown = 1 /\ tabs = {} /\ front = List!NoSession
      /\ confs = {List!NoSession, 1} /\ made = 1
      /\ heard = [i \in List!SessionIds |-> 0]
  BY <1>1 DEF List!Init
<1>4. files \in SessionFiles /\ files[1] = r
  BY <1>2, <1>3 DEF SessionFiles
<1>5. ASSUME NEW i \in List!SessionIds
      PROVE  /\ runtimes[i] \in Runtime /\ heard[i] = 0
             /\ i = 1 => runtimes[i].on /\ files[i].on /\ runtimes[i].name = files[i].name
                         /\ runtimes[i].said = 0 /\ files[i].said = 0
             /\ i # 1 => ~runtimes[i].on /\ ~files[i].on
  <2>1. CASE i = 1
    <3>1. runtimes[i] = List!create_from_config(files, i) /\ heard[i] = 0 /\ files[i] = r
      BY <1>2, <1>3, <1>4, <2>1
    <3> QED
      BY <1>2, <1>4, <2>1, <3>1, RuntimeIs
  <2>2. CASE i # 1
    BY <1>2, <1>3, <2>2
  <2> QED
    BY <2>1, <2>2
<1>6. SessionsTyped
  <2>1. List!TypeOK
    BY <1>2, <1>3, RowsTyped DEF List!TypeOK
  <2>2. runtimes \in [List!SessionIds -> Runtime] /\ heard \in [List!SessionIds -> Nat]
    BY <1>3, <1>5
  <2> QED
    BY <1>2, <1>3, <1>4, <2>1, <2>2 DEF SessionsTyped
<1>7. \A i \in List!SessionIds : RuntimeCovers(i)
  BY <1>5 DEF RuntimeCovers
<1>8. NothingOfLater
  BY <1>3, <1>5, IdsAre DEF NothingOfLater
<1>9. List!ShownLives
  BY <1>2, <1>3, <1>5 DEF List!ShownLives
<1> QED
  BY <1>3, <1>6, <1>7, <1>8, <1>9 DEF SessionsInv

LEMMA SessionsStep == ASSUME SessionsInv, List!Next PROVE SessionsInv'
BY ClicksKeep, HandBackKeeps, DeleteConfirmedKeeps, MakingKeeps, EnteredKeeps, RenamingKeeps,
   SwitchingKeeps, ImportKeeps, TurnKeeps, RestartKeeps DEF List!Next

LEMMA SessionsStand == ASSUME SessionsInv, UNCHANGED listVars PROVE SessionsInv'
<1>1. UNCHANGED <<files, out, list, picked, renaming, dialog, runtimes, shown, tabs, front, confs, made, heard, orphan>>
  BY DEF listVars
<1>2. front # List!NoSession => front \in tabs
  BY DEF SessionsInv, List!ShownLives
<1> QED
  BY <1>1, <1>2, SessionTypes, NoSessionChanges

LEMMA SessionsAreSound == ASSUME SessionsInv PROVE List!SessionsSound
BY DEF SessionsInv, SessionsTyped, RuntimeCovers, List!SessionsSound, List!KeepsTurns, List!NamesAgree

-----------------------------------------------------------------------------
(* One item of the review panel: what is approved, and what the user saw.   *)

Boxes == Item!Fields \cup {"skills"}
Proposals ==
  [agent : Item!Targets, value : [Item!Fields -> Nat], fresh : Nat,
   skill : {"none", "save", "delete"}, body : Nat]
ItemType ==
  [agent : Item!Targets, value : [Item!Fields -> Nat], fresh : Nat,
   skill : {"none", "save", "delete"}, body : Nat,
   edited : Nat, ticked : SUBSET Boxes, armed : BOOLEAN]

ItemTypeOK ==
  /\ profile \in [Item!Dirs -> [Item!Fields -> Nat]]
  /\ skill \in Nat /\ past \in Seq(Nat)
  /\ item \in ItemType \cup {Item!NoItem}
  /\ unticked \in SUBSET Boxes /\ typed \in Nat
  /\ offers \in Nat /\ trouble \in Nat

\* What the panel applies is what the user sees: the boxes, and the text.
ItemAsSeen ==
  item # Item!NoItem =>
    /\ did.by = "nobody"
    /\ item.ticked = Boxes \ unticked
    /\ item.edited = IF typed # Item!Nothing THEN typed ELSE item.value["prompt"]

ItemInv == ItemTypeOK /\ ItemAsSeen /\ Item!ApprovalSound

LEMMA UndecidedIsSound ==
  /\ did.by = "nobody" => Item!ApprovalSound
  /\ did'.by = "nobody" => Item!ApprovalSound'
BY DEF Item!ApprovalSound, Item!OnlyWhatWasMeant, Item!AllWasDone, Item!MarkedWhenApplied,
       Item!SkillsComeBack, Item!Approved

LEMMA ItemInit == Item!Init => ItemInv
<1> SUFFICES ASSUME Item!Init PROVE ItemInv
  OBVIOUS
<1>1. did.by = "nobody" /\ item = Item!NoItem
  BY DEF Item!Init, Item!Undecided
<1>2. profile \in [Item!Dirs -> [Item!Fields -> Nat]]
  BY DEF Item!Init, Item!Dirs, Item!NoProfile, Item!Nothing
<1>3. ItemTypeOK
  BY <1>2 DEF Item!Init, ItemTypeOK, Item!Nothing
<1> QED
  BY <1>1, <1>3, UndecidedIsSound DEF ItemInv, ItemAsSeen

LEMMA OffersTyped == ASSUME offers \in Nat, NEW s \in Item!Offers PROVE s \in Proposals
<1>1. Item!Number \in Nat
  BY DEF Item!Number
<1>2. PICK n \in Nat : n = Item!Number
  BY <1>1
<1>3. Item!NoProfile \in [Item!Fields -> Nat]
  BY DEF Item!NoProfile, Item!Nothing
<1> QED
  BY <1>2, <1>3 DEF Item!Offers, Proposals, Item!Targets, Item!Nothing

LEMMA SuggestedStep ==
  ASSUME ItemInv, NEW s \in Item!Offers, Item!Suggested(s) PROVE ItemInv'
<1>1. did' = Item!Undecided /\ typed' = 0 /\ offers' = offers + 1
      /\ UNCHANGED <<profile, skill, past, trouble>>
  BY DEF Item!Suggested, Item!files, Item!Nothing
<1>0. did'.by = "nobody" /\ Item!ApprovalSound'
  BY <1>1, UndecidedIsSound DEF Item!Undecided
<1>2. s \in Proposals
  BY OffersTyped DEF ItemInv, ItemTypeOK
<1>3. s.value["prompt"] \in Nat
  BY <1>2 DEF Proposals, Item!Fields
<1>4. CASE item = Item!NoItem
  <2>1. item' = Item!Offered(s, s.value["prompt"], Boxes) /\ unticked' = {}
    BY <1>4 DEF Item!Suggested, Item!Pending, Boxes
  <2>2. item' \in ItemType /\ item'.ticked = Boxes /\ item'.edited = item'.value["prompt"]
    BY <1>2, <1>3, <2>1 DEF Item!Offered, Proposals, ItemType
  <2> QED
    BY <1>0, <1>1, <2>1, <2>2 DEF ItemInv, ItemTypeOK, ItemAsSeen, Item!Nothing
<1>5. CASE item # Item!NoItem
  <2>1. item \in ItemType /\ item.ticked = Boxes \ unticked /\ unticked \in SUBSET Boxes
    BY <1>5 DEF ItemInv, ItemTypeOK, ItemAsSeen
  <2>2. item' = Item!Offered(s, s.value["prompt"], Boxes \ unticked) /\ unticked' = unticked
    BY <1>5, <2>1 DEF Item!Suggested, Item!Refreshed
  <2>3. item' \in ItemType /\ item'.ticked = Boxes \ unticked /\ item'.edited = item'.value["prompt"]
    BY <1>2, <1>3, <2>1, <2>2 DEF Item!Offered, Proposals, ItemType
  <2>4. unticked' = unticked /\ offers' \in Nat
    BY <1>1, <2>2 DEF ItemInv, ItemTypeOK
  <2>5. ItemTypeOK'
    BY <1>1, <2>3, <2>4 DEF ItemInv, ItemTypeOK
  <2> QED
    BY <1>0, <1>1, <2>3, <2>4, <2>5 DEF ItemInv, ItemTypeOK, ItemAsSeen, Item!Nothing
<1> QED
  BY <1>4, <1>5

LEMMA PanelKeeps ==
  ASSUME ItemInv, item # Item!NoItem, did' = did, UNCHANGED <<profile, offers, trouble>>,
         skill' \in Nat, past' \in Seq(Nat), item' \in ItemType,
         unticked' \in SUBSET Boxes, typed' \in Nat,
         item'.ticked = Boxes \ unticked',
         item'.edited = IF typed' # Item!Nothing THEN typed' ELSE item'.value["prompt"]
  PROVE  ItemInv'
<1>1. did'.by = "nobody" /\ Item!ApprovalSound'
  BY UndecidedIsSound DEF ItemInv, ItemAsSeen
<1> QED
  BY <1>1 DEF ItemInv, ItemTypeOK, ItemAsSeen

LEMMA TicksStep ==
  ASSUME ItemInv, NEW f \in Boxes, Item!Ticks(f) PROVE ItemInv'
<1>1. item # Item!NoItem /\ item \in ItemType /\ item.ticked = Boxes \ unticked
  BY DEF Item!Ticks, Item!Picks, ItemInv, ItemTypeOK, ItemAsSeen
<1>2. PICK b : b = (item.ticked \ {f}) \cup ({f} \ item.ticked)
  OBVIOUS
<1>3. item' = [item EXCEPT !.ticked = b] /\ unticked' = (unticked \ {f}) \cup ({f} \ unticked)
  BY <1>2 DEF Item!Ticks
<1>4. b \in SUBSET Boxes /\ unticked' \in SUBSET Boxes /\ b = Boxes \ unticked'
  BY <1>1, <1>2, <1>3 DEF ItemInv, ItemTypeOK
<1>5. /\ item' \in ItemType /\ item'.ticked = b
      /\ item'.edited = item.edited /\ item'.value = item.value
  BY <1>1, <1>3, <1>4 DEF ItemType
<1>6. UNCHANGED <<profile, skill, past, offers, trouble, typed, did>>
  BY DEF Item!Ticks, Item!files
<1> QED
  BY <1>1, <1>4, <1>5, <1>6, PanelKeeps DEF ItemInv, ItemTypeOK, ItemAsSeen

LEMMA TypesPromptStep == ASSUME ItemInv, Item!TypesPrompt PROVE ItemInv'
<1>1. item # Item!NoItem /\ item \in ItemType /\ item.ticked = Boxes \ unticked
  BY DEF Item!TypesPrompt, Item!Picks, ItemInv, ItemTypeOK, ItemAsSeen
<1>2. item' = [item EXCEPT !.edited = 90] /\ typed' = 90
  BY DEF Item!TypesPrompt, Item!Typed
<1>3. item' \in ItemType /\ item'.ticked = item.ticked /\ item'.edited = 90
  BY <1>1, <1>2 DEF ItemType
<1>4. UNCHANGED <<profile, skill, past, offers, trouble, unticked, did>>
  BY DEF Item!TypesPrompt, Item!files
<1> QED
  BY <1>1, <1>2, <1>3, <1>4, PanelKeeps DEF ItemInv, ItemTypeOK, Item!Nothing

LEMMA ArmsSkillStep == ASSUME ItemInv, Item!ArmsSkill PROVE ItemInv'
<1>1. item # Item!NoItem /\ item \in ItemType
  BY DEF Item!ArmsSkill, Item!Picks, ItemInv, ItemTypeOK
<1>2. item' = [item EXCEPT !.armed = TRUE]
  BY DEF Item!ArmsSkill
<1>3. /\ item' \in ItemType /\ item'.ticked = item.ticked
      /\ item'.edited = item.edited /\ item'.value = item.value
  BY <1>1, <1>2 DEF ItemType
<1>4. UNCHANGED <<profile, skill, past, offers, trouble, unticked, typed, did>>
  BY DEF Item!ArmsSkill, Item!files
<1> QED
  BY <1>1, <1>3, <1>4, PanelKeeps DEF ItemInv, ItemTypeOK, ItemAsSeen

\* The copy a body leaves is the newest of the history.
LEMMA SkillPastIsSound ==
  ASSUME skill \in Nat, past \in Seq(Nat)
  PROVE  /\ Item!SkillPast \in Seq(Nat)
         /\ skill # Item!Nothing => Item!SkillPast # <<>> /\ Head(Item!SkillPast) = skill
BY DEF Item!SkillPast

LEMMA RevertsSkillStep == ASSUME ItemInv, Item!RevertsSkill PROVE ItemInv'
<1>1. item # Item!NoItem /\ item \in ItemType /\ skill \in Nat /\ past \in Seq(Nat) /\ past # <<>>
  BY DEF Item!RevertsSkill, Item!Picks, ItemInv, ItemTypeOK
<1>2. /\ item' = [item EXCEPT !.armed = FALSE]
      /\ skill' = Head(past) /\ past' = Item!SkillPast
  BY DEF Item!RevertsSkill
<1>3. /\ item' \in ItemType /\ item'.ticked = item.ticked
      /\ item'.edited = item.edited /\ item'.value = item.value
  BY <1>1, <1>2 DEF ItemType
<1>4. skill' \in Nat /\ past' \in Seq(Nat)
  BY <1>1, <1>2, SkillPastIsSound
<1>5. UNCHANGED <<profile, offers, trouble, unticked, typed, did>>
  BY DEF Item!RevertsSkill
<1> QED
  BY <1>1, <1>3, <1>4, <1>5, PanelKeeps DEF ItemInv, ItemTypeOK, ItemAsSeen

LEMMA OthersChangeStep ==
  ASSUME ItemInv, NEW d \in Item!Dirs, Item!OthersChange(d) PROVE ItemInv'
<1>1. /\ did = Item!Undecided /\ trouble' = trouble + 1
      /\ UNCHANGED <<skill, past, item, unticked, typed, did, offers>>
  BY DEF Item!OthersChange, Item!Has
<1>2. did'.by = "nobody" /\ Item!ApprovalSound'
  BY <1>1, UndecidedIsSound DEF Item!Undecided
<1>3. profile' \in [Item!Dirs -> [Item!Fields -> Nat]]
  <2>1. /\ Item!NoProfile \in [Item!Fields -> Nat]
        /\ [f \in Item!Fields |-> d] \in [Item!Fields -> Nat]
    BY DEF Item!NoProfile, Item!Nothing, Item!Dirs
  <2> QED
    BY <2>1 DEF Item!OthersChange, ItemInv, ItemTypeOK
<1> QED
  BY <1>1, <1>2, <1>3 DEF ItemInv, ItemTypeOK, ItemAsSeen

LEMMA AtMostOneResolved == \A d, e \in Item!Resolved : d = e
BY DEF Item!Resolved, Item!Dirs

LEMMA ValueTyped == ASSUME item \in ItemType, NEW f \in Item!Fields PROVE Item!Value(f) \in Nat
BY DEF ItemType, Item!Value

\* What an approval writes into the file the agent runs from.
LEMMA AppliesProfileSound ==
  ASSUME profile \in [Item!Dirs -> [Item!Fields -> Nat]], item \in ItemType,
         NEW broken, Item!AppliesProfile(broken)
  PROVE  /\ profile' \in [Item!Dirs -> [Item!Fields -> Nat]]
         /\ \A d \in Item!Dirs : profile'[d] \notin {profile[d], Item!NoProfile} =>
              /\ d \in Item!Resolved
              /\ \A f \in Item!Fields :
                   profile'[d][f] = IF f \in Item!Chosen THEN Item!Value(f) ELSE profile[d][f]
         /\ "profile" \notin broken =>
              \A d \in Item!Resolved, f \in Item!Chosen : profile'[d][f] = Item!Value(f)
<1>0. Item!Resolved \subseteq Item!Dirs /\ Item!Chosen \subseteq Item!Fields
  BY DEF Item!Resolved, Item!Chosen
<1>1. CASE Item!Chosen = {} \/ Item!Resolved = {}
  BY <1>1 DEF Item!AppliesProfile
<1>2. CASE Item!Chosen # {} /\ Item!Resolved # {}
  <2>1. PICK d : d = CHOOSE e \in Item!Resolved : TRUE
    OBVIOUS
  <2>2. d \in Item!Resolved /\ d \in Item!Dirs
    BY <1>0, <1>2, <2>1
  <2>3. PICK after : after = [f \in Item!Fields |-> IF f \in Item!Chosen THEN Item!Value(f) ELSE profile[d][f]]
    OBVIOUS
  <2>4. after \in [Item!Fields -> Nat]
    BY <2>2, <2>3, ValueTyped
  <2>5. \/ profile' = profile /\ "profile" \in broken
        \/ profile' = [profile EXCEPT ![d] = Item!NoProfile] /\ "profile" \in broken
        \/ profile' = [profile EXCEPT ![d] = after]
    BY <1>2, <2>1, <2>3 DEF Item!AppliesProfile
  <2>6. Item!NoProfile \in [Item!Fields -> Nat]
    BY DEF Item!NoProfile, Item!Nothing
  <2>7. CASE profile' = [profile EXCEPT ![d] = after]
    <3>1. profile'[d] = after /\ \A e \in Item!Dirs \ {d} : profile'[e] = profile[e]
      BY <2>2, <2>7
    <3>2. profile' \in [Item!Dirs -> [Item!Fields -> Nat]]
      BY <2>2, <2>4, <2>7
    <3>3. \A f \in Item!Fields :
            profile'[d][f] = IF f \in Item!Chosen THEN Item!Value(f) ELSE profile[d][f]
      BY <2>3, <3>1
    <3>4. \A e \in Item!Resolved : e = d
      BY <2>2, AtMostOneResolved
    <3> QED
      BY <1>0, <2>2, <3>1, <3>2, <3>3, <3>4
  <2>8. CASE profile' = profile /\ "profile" \in broken
    BY <2>8
  <2>9. CASE profile' = [profile EXCEPT ![d] = Item!NoProfile] /\ "profile" \in broken
    <3>1. profile'[d] = Item!NoProfile /\ \A e \in Item!Dirs \ {d} : profile'[e] = profile[e]
      BY <2>2, <2>9
    <3>2. profile' \in [Item!Dirs -> [Item!Fields -> Nat]]
      BY <2>2, <2>6, <2>9
    <3> QED
      BY <2>9, <3>1, <3>2
  <2> QED
    BY <2>5, <2>7, <2>8, <2>9
<1> QED
  BY <1>1, <1>2

LEMMA AppliesSkillSound ==
  ASSUME skill \in Nat, past \in Seq(Nat), item \in ItemType,
         NEW broken, Item!AppliesSkill(broken)
  PROVE  /\ skill' \in Nat /\ past' \in Seq(Nat)
         /\ skill \notin {Item!Nothing, skill'} => past' # <<>> /\ Head(past') = skill
<1>1. CASE UNCHANGED <<skill, past>>
  BY <1>1
<1>2. CASE ~(UNCHANGED <<skill, past>>)
  <2>1. /\ skill' = (IF item.skill = "delete" THEN Item!Nothing ELSE item.body)
        /\ past' = Item!SkillPast
    BY <1>2 DEF Item!AppliesSkill
  <2>2. skill' \in Nat
    BY <2>1 DEF ItemType, Item!Nothing
  <2> QED
    BY <2>1, <2>2, SkillPastIsSound
<1> QED
  BY <1>1, <1>2

LEMMA CardinalityOfItem == \A S : Item!Cardinality(S) = Cardinality(S)
BY Zenon DEF Item!Cardinality, Cardinality

LEMMA NothingFailed ==
  ASSUME NEW broken \in SUBSET Item!Breakable, trouble \in Nat,
         trouble' = trouble + Cardinality(broken)
  PROVE  trouble' \in Nat /\ (trouble = trouble' => broken = {})
<1>1. IsFiniteSet(Item!Breakable)
  <2>1. IsFiniteSet({"profile"}) /\ IsFiniteSet({"config"}) /\ IsFiniteSet({"agent"})
        /\ IsFiniteSet({"skill"}) /\ IsFiniteSet({"memory"})
    BY FS_Singleton
  <2>2. Item!Breakable = {"profile"} \cup ({"config"} \cup ({"agent"} \cup ({"skill"} \cup {"memory"})))
    BY DEF Item!Breakable
  <2>3. IsFiniteSet({"agent"} \cup ({"skill"} \cup {"memory"}))
    BY <2>1, FS_Union
  <2> QED
    BY <2>1, <2>2, <2>3, FS_Union
<1>2. IsFiniteSet(broken)
  BY <1>1, FS_Subset
<1>3. Cardinality(broken) \in Nat /\ (Cardinality(broken) = 0 => broken = {})
  BY <1>2, FS_CardinalityType, FS_EmptySet
<1> QED
  BY <1>3

\* Approving: what was there before, and what the user saw, is kept beside the outcome.
LEMMA ApprovesStep ==
  ASSUME ItemInv, NEW broken \in SUBSET Item!Breakable, Item!Approves(broken)
  PROVE  ItemInv'
<1>1. /\ item # Item!NoItem /\ item \in ItemType
      /\ item.ticked = Boxes \ unticked
      /\ item.edited = IF typed # Item!Nothing THEN typed ELSE item.value["prompt"]
      /\ profile \in [Item!Dirs -> [Item!Fields -> Nat]]
      /\ skill \in Nat /\ past \in Seq(Nat)
      /\ unticked \in SUBSET Boxes /\ typed \in Nat
      /\ offers \in Nat /\ trouble \in Nat
  BY DEF Item!Approves, ItemInv, ItemTypeOK, ItemAsSeen
<1>2. /\ did'.by = "approve" /\ did'.offer = item /\ did'.had = profile /\ did'.config = chat
      /\ did'.facts = facts /\ did'.skill = skill /\ did'.trouble = trouble
      /\ item' = Item!NoItem /\ UNCHANGED <<unticked, typed, offers>>
  BY DEF Item!Approves, Item!Decision
<1>3. trouble' \in Nat /\ (trouble = trouble' => broken = {})
  <2>1. trouble' = trouble + Cardinality(broken)
    BY CardinalityOfItem DEF Item!Approves, Item!Has
  <2> QED
    BY <1>1, <2>1, NothingFailed
<1>4. skill' \in Nat /\ past' \in Seq(Nat)
      /\ (skill \notin {Item!Nothing, skill'} => past' # <<>> /\ Head(past') = skill)
  BY <1>1, AppliesSkillSound DEF Item!Approves
<1>5. /\ \A f \in Item!Fields : Item!Meant(f)' <=> f \in Item!Chosen
      /\ \A f \in Item!Fields : Item!MeantValue(f)' = Item!Value(f)
  BY <1>1, <1>2 DEF Item!Meant, Item!Chosen, Item!MeantValue, Item!Value, Boxes
<1>6. PICK at : at = Item!Resolved
  OBVIOUS
<1>7. at = {d \in Item!Dirs : /\ did'.had[d] # Item!NoProfile
                             /\ \A e \in Item!Dirs : e < d => did'.had[e] = Item!NoProfile}
  BY <1>2, <1>6 DEF Item!Resolved
<1>8. ASSUME item.agent = "coder"
      PROVE  /\ profile' \in [Item!Dirs -> [Item!Fields -> Nat]]
             /\ Item!OnlyWhatWasMeant' /\ Item!AllWasDone' /\ Item!MarkedWhenApplied'
  <2>1. Item!AppliesProfile(broken) /\ Item!Remembers(broken, Item!PromptApplied(broken))
    BY <1>8 DEF Item!Approves
  <2>2. /\ profile' \in [Item!Dirs -> [Item!Fields -> Nat]]
        /\ \A d \in Item!Dirs : profile'[d] \notin {profile[d], Item!NoProfile} =>
             /\ d \in at
             /\ \A f \in Item!Fields :
                  profile'[d][f] = IF f \in Item!Chosen THEN Item!Value(f) ELSE profile[d][f]
        /\ "profile" \notin broken =>
             \A d \in at, f \in Item!Chosen : profile'[d][f] = Item!Value(f)
    BY <1>1, <1>6, <2>1, AppliesProfileSound
  <2>3. Item!OnlyWhatWasMeant'
    BY <1>2, <1>5, <1>7, <1>8, <2>2 DEF Item!OnlyWhatWasMeant, Item!Approved, Item!RunsFrom
  <2>4. Item!AllWasDone'
    BY <1>2, <1>3, <1>5, <1>7, <1>8, <2>2 DEF Item!AllWasDone, Item!Approved, Item!Smooth, Item!RunsFrom
  <2>5. Item!Value("prompt") = item.edited
    BY DEF Item!Value
  <2>6. Item!MarkedWhenApplied'
    BY <1>2, <1>3, <1>5, <1>6, <1>7, <1>8, <2>1, <2>2, <2>5
       DEF Item!MarkedWhenApplied, Item!Approved, Item!Smooth, Item!RunsFrom, Item!Remembers,
           Item!PromptApplied, Item!Fields
  <2> QED
    BY <2>2, <2>3, <2>4, <2>6
<1>9. ASSUME item.agent = "chat"
      PROVE  /\ profile' \in [Item!Dirs -> [Item!Fields -> Nat]]
             /\ Item!OnlyWhatWasMeant' /\ Item!AllWasDone' /\ Item!MarkedWhenApplied'
  <2>1. Item!AppliesChat(broken) /\ Item!Remembers(broken, Item!ChatApplied(broken))
    BY <1>9 DEF Item!Approves
  <2>2. profile' = profile
    BY <2>1 DEF Item!AppliesChat
  <2>3. "prompt" \in Item!Chosen => chat'.held = Item!Value("prompt")
    BY <2>1 DEF Item!AppliesChat
  <2>4. Item!OnlyWhatWasMeant'
    BY <1>2, <2>2 DEF Item!OnlyWhatWasMeant, Item!Approved
  <2>5. Item!AllWasDone'
    BY <1>2, <1>5, <1>9, <2>3 DEF Item!AllWasDone, Item!Approved, Item!Fields
  <2>6. Item!Value("prompt") = item.edited
    BY DEF Item!Value
  <2>7. Item!MarkedWhenApplied'
    BY <1>2, <1>3, <1>5, <1>9, <2>1, <2>3, <2>6
       DEF Item!MarkedWhenApplied, Item!Approved, Item!Smooth, Item!Remembers,
           Item!ChatApplied, Item!Fields
  <2> QED
    BY <1>1, <2>2, <2>4, <2>5, <2>7
<1>10. item.agent \in {"coder", "chat"}
  BY <1>1 DEF ItemType, Item!Targets
<1>11. Item!SkillsComeBack'
  BY <1>2, <1>4 DEF Item!SkillsComeBack
<1> QED
  BY <1>1, <1>2, <1>3, <1>4, <1>8, <1>9, <1>10, <1>11
     DEF ItemInv, ItemTypeOK, ItemAsSeen, Item!ApprovalSound

LEMMA DismissesStep ==
  ASSUME ItemInv, NEW broken \in SUBSET {"memory"}, Item!Dismisses(broken)
  PROVE  ItemInv'
<1>1. /\ did'.by = "dismiss" /\ did'.had = profile /\ did'.skill = skill
      /\ item' = Item!NoItem /\ UNCHANGED <<profile, skill, past, unticked, typed, offers>>
  BY DEF Item!Dismisses, Item!Decision, Item!files
<1>2. trouble' \in Nat
  <2>1. trouble' = trouble + Cardinality(broken) /\ trouble \in Nat
    BY CardinalityOfItem DEF Item!Dismisses, Item!Has, ItemInv, ItemTypeOK
  <2>2. broken \in SUBSET Item!Breakable
    BY DEF Item!Breakable
  <2> QED
    BY <2>1, <2>2, NothingFailed
<1>3. Item!ApprovalSound'
  BY <1>1 DEF Item!ApprovalSound, Item!OnlyWhatWasMeant, Item!AllWasDone, Item!MarkedWhenApplied,
              Item!SkillsComeBack, Item!Approved
<1> QED
  BY <1>1, <1>2, <1>3 DEF ItemInv, ItemTypeOK, ItemAsSeen

LEMMA ItemStep == ItemInv /\ [Item!Next]_(Item!approvalVars) => ItemInv'
<1> SUFFICES ASSUME ItemInv, [Item!Next]_(Item!approvalVars) PROVE ItemInv'
  OBVIOUS
<1>1. CASE UNCHANGED Item!approvalVars
  <2>1. UNCHANGED <<profile, skill, past, item, facts, chat, unticked, typed, did, offers, trouble>>
    BY <1>1 DEF Item!approvalVars
  <2>2. Item!ApprovalSound'
    BY <2>1 DEF ItemInv, Item!ApprovalSound, Item!OnlyWhatWasMeant, Item!AllWasDone,
                Item!MarkedWhenApplied, Item!SkillsComeBack, Item!Approved, Item!Smooth,
                Item!Meant, Item!MeantValue, Item!RunsFrom
  <2> QED
    BY <2>1, <2>2 DEF ItemInv, ItemTypeOK, ItemAsSeen
<1>2. CASE \E s \in Item!Offers : Item!Suggested(s)
  BY <1>2, SuggestedStep
<1>3. CASE \E f \in Item!Fields \cup {"skills"} : Item!Ticks(f)
  BY <1>3, TicksStep DEF Boxes
<1>4. CASE Item!TypesPrompt
  BY <1>4, TypesPromptStep
<1>5. CASE Item!ArmsSkill
  BY <1>5, ArmsSkillStep
<1>6. CASE Item!RevertsSkill
  BY <1>6, RevertsSkillStep
<1>7. CASE \E d \in Item!Dirs : Item!OthersChange(d)
  BY <1>7, OthersChangeStep
<1>8. CASE \E broken \in SUBSET Item!Breakable : Item!Approves(broken)
  BY <1>8, ApprovesStep
<1>9. CASE \E broken \in SUBSET {"memory"} : Item!Dismisses(broken)
  BY <1>9, DismissesStep
<1> QED
  BY <1>1, <1>2, <1>3, <1>4, <1>5, <1>6, <1>7, <1>8, <1>9 DEF Item!Next

-----------------------------------------------------------------------------

FilesHeld ==
  /\ part = "config" => ConfInv
  /\ part = "mcp" => PanelInv /\ OlderTyped
  /\ part = "list" => SessionsInv
  /\ part = "approval" => ItemInv

\* The configuration file says what the application uses while no two writers meet, and
\* the theme chosen last is the one in use (WuffConfig::save, the dialogs' draft, the MCP
\* tools); the manager, the list and the file have the same servers, each once, but for
\* those touched in one of the ways that leave them apart (McpPanel); the sessions of the
\* list, their files and their runtimes go together, no turn lost (SessionsPanel,
\* switch_session); and an approved suggestion changes, of the profile the agent runs
\* from, what the user left ticked, to the text the user saw (apply_improvement_detailed).
\* For all themes, presets, servers, titles and every number of changes, failures,
\* sessions, suggestions and restarts.
THEOREM FilesAreKept == Spec => []FilesSound
<1>1. Init => FilesHeld
  <2>1. ASSUME Init, part = "config" PROVE ConfInv
    BY <2>1, ConfInit DEF Init
  <2>2. ASSUME Init, part = "mcp" PROVE PanelInv /\ OlderTyped
    BY <2>2, PanelInit DEF Init
  <2>3. ASSUME Init, part = "list" PROVE SessionsInv
    BY <2>3, SessionsInit DEF Init
  <2>4. ASSUME Init, part = "approval" PROVE ItemInv
    BY <2>4, ItemInit DEF Init
  <2> QED
    BY <2>1, <2>2, <2>3, <2>4 DEF FilesHeld
<1>2. ASSUME FilesHeld, [Next]_vars PROVE FilesHeld'
  <2>1. part' = part
    BY <1>2 DEF Next, vars
  <2>2. CASE part \notin {"config", "mcp", "list", "approval"}
    BY <2>1, <2>2 DEF FilesHeld
  <2>3. CASE part = "config"
    <3>1. [Conf!Next]_(Conf!configVars)
      BY <1>2, <2>3 DEF Next, vars, configVars, Conf!configVars
    <3>2. ConfInv'
      BY <1>2, <2>3, <3>1, ConfStep DEF FilesHeld
    <3> QED
      BY <2>1, <2>3, <3>2 DEF FilesHeld
  <2>4. CASE part = "mcp"
    <3>1. [Mcp!Next]_(Mcp!panelVars)
      BY <1>2, <2>4 DEF Next, vars, mcpVars, Mcp!panelVars
    <3>2. PanelInv' /\ OlderTyped'
      BY <1>2, <2>4, <3>1, PanelStep DEF FilesHeld
    <3> QED
      BY <2>1, <2>4, <3>2 DEF FilesHeld
  <2>5. CASE part = "list"
    <3>1. List!Next \/ UNCHANGED listVars
      BY <1>2, <2>5 DEF Next, vars
    <3>2. SessionsInv
      BY <1>2, <2>5 DEF FilesHeld
    <3>3. SessionsInv'
      BY <3>1, <3>2, SessionsStep, SessionsStand
    <3> QED
      BY <2>1, <2>5, <3>3 DEF FilesHeld
  <2>6. CASE part = "approval"
    <3>1. [Item!Next]_(Item!approvalVars)
      BY <1>2, <2>6 DEF Next, vars, approvalVars, Item!approvalVars
    <3>2. ItemInv'
      BY <1>2, <2>6, <3>1, ItemStep DEF FilesHeld
    <3> QED
      BY <2>1, <2>6, <3>2 DEF FilesHeld
  <2> QED
    BY <2>2, <2>3, <2>4, <2>5, <2>6
<1>3. FilesHeld => FilesSound
  <2>1. ASSUME ItemInv PROVE Item!ApprovalSound
    BY <2>1 DEF ItemInv
  <2> QED
    BY <2>1, ConfHolds, PanelHolds, SessionsAreSound DEF FilesHeld, FilesSound
<1> QED
  BY <1>1, <1>2, <1>3, PTL DEF Spec

=============================================================================

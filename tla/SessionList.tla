----------------------------- MODULE SessionList -----------------------------
(***************************************************************************)
(* The sessions of the desktop: their files, the sidebar's list of them,   *)
(* the runtimes the application holds, the tabs of sub-sessions, and the   *)
(* session the next start restores. Sessions are made in the sidebar, by a *)
(* plugin, by a sub-session handoff, by an import and by a start that has  *)
(* none to restore; all but the import come with a runtime. SessionIds are *)
(* numbered in the order they are made. How a save writes the file is      *)
(* SessionSave's subject: here it is one step.                             *)
(***************************************************************************)
EXTENDS Naturals, FiniteSets

CONSTANTS
  MaxIds,      \* bound on sessions made
  Titles,      \* names the user types; "" is one of them
  MaxTurns,    \* bound on turns of all sessions
  MaxClicks    \* bound on what the user, plugins and handoffs do

SessionIds == 1..MaxIds
NoSession == 0
Gone == [on |-> FALSE, name |-> "", said |-> 0, born |-> 0]
Closed == [on |-> FALSE, name |-> "", said |-> 0]

VARIABLES
  files,      \* per id: the session file; said counts the turns in it
  out,        \* the exported file
  list,       \* SessionsPanel.sessions: id and name of each row
  picked,     \* SessionsPanel.selected_id, the highlighted row
  renaming,   \* the row being renamed, or NoSession
  dialog,     \* the session the delete dialog asks about, or NoSession
  creating,   \* the field for a new session's name is open
  store,      \* session_store: the runtimes, with the turns each holds
  shown,      \* selected_session_id
  tabs, tab,  \* the sub-session tabs, the active one or NoSession
  confs,      \* what session_id in config.json may be: see Configures
  made, clicks,
  heard,      \* per id: the turns the user has seen in it since the start
  orphan,     \* a sub-session was handed back to a session deleted meanwhile
  unmade      \* a name was confirmed and no session made

sidebar == <<list, picked, renaming, dialog, creating>>
app == <<store, shown, tabs, tab>>
sessionListVars == <<files, out, list, picked, renaming, dialog, creating, store, shown, tabs,
                     tab, confs, made, clicks, heard, orphan, unmade>>

list_sessions(f) == {[id |-> i, name |-> f[i].name] : i \in {j \in SessionIds : f[j].on}}
Listed(i) == \E r \in list : r.id = i

NewFile(i, name) == [on |-> TRUE, name |-> name, said |-> 0, born |-> i]

\* The runtime of a session: what its file holds.
EmptyVariant(f, i) == [on |-> TRUE, name |-> f[i].name, said |-> 0]
create_from_config(f, i) ==
  [on |-> TRUE, name |-> IF f[i].on THEN f[i].name ELSE "", said |-> f[i].said]

\* The history shown is the conversation loaded.
reload_messages(i) == heard' = [heard EXCEPT ![i] = store'[i].said]

\* The first start of the program, which makes a session and shows it.
Init ==
  /\ files = [i \in SessionIds |-> IF i = 1 THEN NewFile(i, "Untitled") ELSE Gone] /\ out = Gone
  /\ list = list_sessions(files)
  /\ picked = 1 /\ renaming = NoSession /\ dialog = NoSession /\ creating = FALSE
  /\ store = [i \in SessionIds |-> IF i = 1 THEN create_from_config(files, i) ELSE Closed]
  /\ shown = 1 /\ tabs = {} /\ tab = NoSession
  /\ confs = {NoSession, 1} /\ made = 1 /\ clicks = 0
  /\ heard = [i \in SessionIds |-> 0] /\ orphan = FALSE /\ unmade = FALSE

Clicks == clicks < MaxClicks /\ clicks' = clicks + 1

\* The sidebar writes config.json with the session to restore. A write that fails is only
\* warned of, and any other writer (theme, settings, MCP and memory panel, the exit) puts
\* the session of the start back: the file may have any id it was given since the start.
Configures(i) == confs' = confs \cup {i}

-----------------------------------------------------------------------------
(* Making sessions.                                                        *)

StaleVariant(f) == list' = list
refresh(f) == list' = list_sessions(f)

\* A file and its runtime, at once.
Makes(name) ==
  LET i == made + 1
      f == [files EXCEPT ![i] = NewFile(i, name)]
  IN /\ made < MaxIds
     /\ made' = i /\ files' = f
     /\ store' = [store EXCEPT ![i] = create_from_config(f, i)]
     /\ refresh(f)
     /\ UNCHANGED <<out, heard>>

\* The new session is highlighted and the one to restore; the chat stays where it is.
Create(name) ==
  /\ Makes(name)
  /\ picked' = made + 1 /\ Configures(made + 1)
  /\ UNCHANGED <<renaming, dialog, shown, tabs, tab, orphan>>

\* Not renamed: no file, no runtime.
OnlyFileVariant(i, name) ==
  /\ files' = [files EXCEPT ![i].name = IF files[i].on THEN name ELSE @]
  /\ UNCHANGED store
Renamed(i, name) ==
  /\ files' = [files EXCEPT ![i].name = IF files[i].on THEN name ELSE @]
  /\ store' = [store EXCEPT ![i].name = IF store[i].on THEN name ELSE @]

Rename(i, name) ==
  /\ Renamed(i, name)
  /\ refresh(files')
  /\ UNCHANGED <<out, picked, dialog, shown, tabs, tab, confs, made, heard, orphan>>

OpenCreate ==
  /\ Clicks /\ ~creating /\ creating' = TRUE
  /\ UNCHANGED <<files, out, list, picked, renaming, dialog, app, confs, made, heard, orphan, unmade>>

CancelCreate ==
  /\ Clicks /\ creating /\ creating' = FALSE
  /\ UNCHANGED <<files, out, list, picked, renaming, dialog, app, confs, made, heard, orphan, unmade>>

\* The Create button; an empty name does nothing.
CreateClicked(name) ==
  /\ Clicks /\ creating /\ name # "" /\ creating' = FALSE
  /\ Create(name) /\ UNCHANGED unmade

\* The name field keeps the focus only while no row being renamed takes it. Enter also
\* confirms a renaming whose row is gone, and that action replaces this one.
CreateEntered(name, typed) ==
  /\ Clicks /\ creating /\ name # "" /\ creating' = FALSE
  /\ ~Listed(renaming)
  /\ IF renaming # NoSession /\ typed # ""
     THEN Rename(renaming, typed) /\ unmade' = TRUE /\ renaming' = NoSession
     ELSE IF renaming = NoSession THEN Create(name) /\ UNCHANGED unmade
     ELSE /\ Makes(name) /\ picked' = made + 1 /\ Configures(made + 1) /\ renaming' = NoSession
          /\ UNCHANGED <<dialog, shown, tabs, tab, orphan, unmade>>

\* A plugin makes a session (host_create).
HostCreates(name) ==
  /\ Clicks /\ name # "" /\ Create(name)
  /\ UNCHANGED <<creating, unmade>>

\* A sub-session handoff: its tab comes to the front.
SubSession ==
  /\ Clicks /\ shown # NoSession /\ store[shown].on
  /\ Makes("sub")
  /\ tabs' = tabs \cup {made + 1} /\ tab' = made + 1
  /\ UNCHANGED <<picked, renaming, dialog, creating, shown, confs, orphan, unmade>>

\* It hands back to its parent, which may be gone.
HandBack(from, to) ==
  /\ Clicks /\ from \in tabs /\ to < from /\ to \notin tabs /\ to \in 1..made
  /\ tab' = NoSession /\ shown' = to /\ picked' = to
  /\ refresh(files)
  /\ orphan' = (orphan \/ ~store[to].on)
  /\ UNCHANGED <<files, out, renaming, dialog, creating, store, tabs, confs, made, heard, unmade>>

-----------------------------------------------------------------------------
(* The rows.                                                               *)

\* The session shown is saved first; a save without a file makes one.
SavedShown ==
  IF shown = NoSession \/ ~store[shown].on THEN files
  ELSE [files EXCEPT ![shown] =
          [on |-> TRUE, name |-> IF @.on THEN @.name ELSE "untitled",
           said |-> store[shown].said, born |-> IF @.on THEN @.born ELSE shown]]

AnewVariant(i) == store' = [store EXCEPT ![i] = create_from_config(SavedShown, i)]
Opened(i) ==
  store' = IF store[i].on THEN store ELSE [store EXCEPT ![i] = create_from_config(SavedShown, i)]

switch_session(i) ==
  /\ files' = SavedShown
  /\ Opened(i)
  /\ tab' = NoSession /\ picked' = i /\ shown' = i
  /\ IF store[i].on THEN UNCHANGED heard ELSE reload_messages(i)

\* A second click in time also begins to rename.
RowClicked(i, double) ==
  /\ Clicks /\ Listed(i) /\ i # renaming
  /\ switch_session(i) /\ Configures(i)
  /\ renaming' = IF double THEN i ELSE renaming
  /\ UNCHANGED <<out, list, dialog, creating, tabs, made, orphan, unmade>>

\* A plugin moves the desktop to a session it knows.
HostSwitches(i) ==
  /\ Clicks /\ store[i].on /\ switch_session(i)
  /\ UNCHANGED <<out, list, dialog, creating, renaming, tabs, confs, made, orphan, unmade>>

F2 ==
  /\ Clicks /\ renaming = NoSession /\ Listed(picked) /\ renaming' = picked
  /\ UNCHANGED <<files, out, list, picked, dialog, creating, app, confs, made, heard, orphan, unmade>>

\* Enter anywhere: an empty name ends the renaming and changes nothing.
RenameEntered(name) ==
  /\ Clicks /\ renaming # NoSession /\ renaming' = NoSession
  /\ IF name # "" THEN Rename(renaming, name)
     ELSE UNCHANGED <<files, out, list, picked, dialog, app, confs, made, heard, orphan>>
  /\ UNCHANGED <<creating, unmade>>

\* The tick takes the field as it is.
RenameTicked(name) ==
  /\ Clicks /\ Listed(renaming) /\ renaming' = NoSession
  /\ Rename(renaming, name)
  /\ UNCHANGED <<creating, unmade>>

RenameCancelled ==
  /\ Clicks /\ renaming # NoSession /\ renaming' = NoSession
  /\ UNCHANGED <<files, out, list, picked, dialog, creating, app, confs, made, heard, orphan, unmade>>

-----------------------------------------------------------------------------
(* Deleting, copies, tabs.                                                 *)

DeleteClicked ==
  /\ Clicks /\ Listed(picked) /\ dialog' = picked
  /\ UNCHANGED <<files, out, list, picked, renaming, creating, app, confs, made, heard, orphan, unmade>>

DeleteCancelled ==
  /\ Clicks /\ dialog # NoSession /\ dialog' = NoSession
  /\ UNCHANGED <<files, out, list, picked, renaming, creating, app, confs, made, heard, orphan, unmade>>

\* Its tab closes, its runtime goes; nothing is selected, whatever was.
TabStaysVariant(i) == UNCHANGED <<tabs, tab, shown>>
Leaves(i) ==
  /\ tabs' = tabs \ {i}
  /\ tab' = IF tab = i THEN NoSession ELSE tab
  /\ shown' = IF shown = i THEN NoSession ELSE shown

\* The file may be missing or the deletion fail: then only the selection may change.
DeleteConfirmed(works) ==
  LET i == dialog
      f == [files EXCEPT ![i] = Gone]
  IN /\ Clicks /\ i # NoSession /\ dialog' = NoSession
     /\ IF works /\ files[i].on
        THEN /\ files' = f /\ refresh(f)
             /\ store' = [store EXCEPT ![i] = Closed]
             /\ Leaves(i)
             /\ picked' = NoSession /\ Configures(NoSession)
             /\ heard' = [heard EXCEPT ![i] = 0]
        ELSE /\ refresh(files)
             /\ picked' = IF picked = i THEN NoSession ELSE picked
             /\ UNCHANGED <<files, store, tabs, tab, shown, confs, heard>>
     /\ UNCHANGED <<out, renaming, creating, made, orphan, unmade>>

Export ==
  /\ Clicks /\ picked # NoSession /\ files[picked].on
  /\ out' = files[picked]
  /\ UNCHANGED <<files, sidebar, app, confs, made, heard, orphan, unmade>>

\* A copy under a new id, with the name, the turns and the birth of the original.
SameIdVariant(o) == [files EXCEPT ![o.born] = o]
Copied(o) == [files EXCEPT ![made + 1] = o]

Import ==
  /\ Clicks /\ out.on /\ made < MaxIds
  /\ files' = Copied(out) /\ made' = made + 1
  /\ refresh(files')
  /\ UNCHANGED <<out, picked, renaming, dialog, creating, app, confs, heard, orphan, unmade>>

TabClicked(i) ==
  /\ Clicks /\ i \in tabs \cup {NoSession} /\ i # tab /\ tab' = i
  /\ UNCHANGED <<files, out, sidebar, store, shown, tabs, confs, made, heard, orphan, unmade>>

TabClosed(i) ==
  /\ Clicks /\ i \in tabs /\ tabs' = tabs \ {i}
  /\ tab' = IF tab = i THEN NoSession ELSE tab
  /\ UNCHANGED <<files, out, sidebar, store, shown, confs, made, heard, orphan, unmade>>

-----------------------------------------------------------------------------
(* Turns, and starting again.                                              *)

\* A turn of a session that has a runtime. Its save comes later, or fails.
Turn(i) ==
  /\ store[i].on /\ store[i].said < MaxTurns
  /\ store' = [store EXCEPT ![i].said = @ + 1]
  /\ heard' = [heard EXCEPT ![i] = @ + 1]
  /\ \/ UNCHANGED files
     \/ files[i].on /\ files' = [files EXCEPT ![i].said = store[i].said + 1]
  /\ UNCHANGED <<out, sidebar, shown, tabs, tab, confs, made, clicks, orphan, unmade>>

\* load_config, initial_session_store: the exit saves the session shown, a crash nothing.
\* The next start restores the configured session, or makes one if none is configured
\* (a crash within a write leaves no configuration) or its file is gone; it is shown and
\* highlighted, and no other session has a runtime.
Restart(crashed, id) ==
  LET f == IF crashed THEN files ELSE SavedShown
      back == id # NoSession /\ f[id].on
      i == IF back THEN id ELSE made + 1
  IN /\ Clicks
     /\ id \in confs \/ (crashed /\ id = NoSession)
     /\ back \/ made < MaxIds
     /\ made' = IF back THEN made ELSE i
     /\ files' = IF back THEN f ELSE [f EXCEPT ![i] = NewFile(i, "Untitled")]
     /\ refresh(files')
     /\ picked' = i /\ shown' = i
     /\ store' = [j \in SessionIds |-> IF j = i THEN create_from_config(files', j) ELSE Closed]
     /\ heard' = [j \in SessionIds |-> store'[j].said]
     /\ renaming' = NoSession /\ dialog' = NoSession /\ creating' = FALSE
     /\ tabs' = {} /\ tab' = NoSession
     /\ confs' = {id, i}
     /\ UNCHANGED <<out, orphan, unmade>>

Next ==
  \/ OpenCreate \/ CancelCreate \/ F2 \/ RenameCancelled
  \/ \E n \in Titles : CreateClicked(n) \/ HostCreates(n) \/ RenameEntered(n) \/ RenameTicked(n)
  \/ \E n, typed \in Titles : CreateEntered(n, typed)
  \/ SubSession \/ \E i, j \in SessionIds : HandBack(i, j)
  \/ \E i \in SessionIds, double \in BOOLEAN : RowClicked(i, double)
  \/ \E i \in SessionIds : HostSwitches(i) \/ TabClosed(i) \/ Turn(i)
  \/ \E i \in SessionIds \cup {NoSession} : TabClicked(i)
  \/ DeleteClicked \/ DeleteCancelled \/ \E works \in BOOLEAN : DeleteConfirmed(works)
  \/ Export \/ Import \/ \E crashed \in BOOLEAN, id \in SessionIds \cup {NoSession} : Restart(crashed, id)

-----------------------------------------------------------------------------

TypeOK ==
  /\ \A r \in list : r.id \in SessionIds
  /\ {picked, renaming, dialog, shown, tab} \cup confs \subseteq SessionIds \cup {NoSession}
  /\ tabs \subseteq SessionIds /\ made \in 0..MaxIds

\* A runtime holds every turn the user has seen in its session since the start, and
\* never less than the file it will be saved over (switch_session, create_from_config).
KeepsTurns ==
  \A i \in SessionIds : store[i].on =>
    /\ store[i].said >= heard[i]
    /\ files[i].on => store[i].said >= files[i].said

\* The sidebar lists the sessions that have a file, each under the name its file and its
\* runtime have: plugins address a session by the runtime's name (refresh, host_resolve).
NamesAgree ==
  /\ list = list_sessions(files)
  /\ \A i \in SessionIds : store[i].on /\ files[i].on => store[i].name = files[i].name

\* What the chat shows, from the start on, and what a tab goes to, is there, unless a
\* sub-session was handed back to a deleted one (initial_session_store,
\* apply_sessions_action, AgentHandBack).
ShownLives ==
  /\ shown # NoSession /\ ~orphan => store[shown].on
  /\ tab # NoSession => tab \in tabs
  /\ \A i \in tabs : store[i].on

SessionsSound == TypeOK /\ KeepsTurns /\ NamesAgree /\ ShownLives

\* The highlighted session is the one the chat shows. The code does not keep this: a new
\* session is highlighted and the chat, with its input field, stays with the old one.
PanelFollows == picked # NoSession => picked = shown

\* A confirmed name makes a session. The code does not keep this: Enter also confirms a
\* renaming left over from a deleted row, and one frame has one action.
CreatesConfirmed == ~unmade
=============================================================================

------------------------------- MODULE McpPanel -------------------------------
(***************************************************************************)
(* The MCP panel and the list of servers it edits (ui/mcp_panel,           *)
(* tools/builtin/mcp): the same servers are kept by the manager, in the    *)
(* configuration the application holds, and in its file; the rows, the     *)
(* dialog, the panel's one job and the tools of an agent each change some  *)
(* of the three, and so do the other writers of config.json, each with a   *)
(* copy of its own (ConfigFile).  How an operation goes is in McpServers.  *)
(***************************************************************************)
EXTENDS Naturals, Sequences, FiniteSets

CONSTANTS
  MaxUserSteps,  \* bound: clicks, texts typed, calls of the agent and other writers
  MaxFails       \* bound: saves that fail, jobs that time out, starts of the program

\* A name the dialog turns into another: blanks become underscores.
ServerNames == {"git", "my db", "my_db"}
\* What else is configured: 1 typed, 2 from the first file, 3 from an agent, and whether an argument has a blank in it ("split":
\* had one, and is two arguments now).
Setups == [n : 0..3, blank : {"no", "yes", "split"}]
Absent == [known |-> FALSE]
Configured(name, setup, on) == [name |-> name, setup |-> setup, on |-> on]

VARIABLES
  entry,    \* per name: the manager's server, with its setup, flag and connection
  conf,     \* config.mcp_servers
  disk,     \* ... and in config.json
  older,    \* the lists there were since the start: what other copies of the configuration hold
  panelJob, \* the panel's operation: waiting for its thread, or over
  late,     \* operations that run on after the panel gave them up
  dlg,      \* the dialog
  deleting, \* pending_delete
  agent,    \* the tool call of an agent between the manager and the file
  changed,  \* McpConfigChanged events not handled
  strayed,  \* names on which the three may differ: see the actions
  userSteps, fails

panelVars == <<entry, conf, disk, older, panelJob, late, dlg, deleting, agent, changed, strayed, userSteps, fails>>

NoJob == [op |-> "none"]
NoDlg == [new |-> FALSE, name |-> "none"]
NoCall == [op |-> "none"]
Known == {n \in ServerNames : entry[n].known}
User == userSteps < MaxUserSteps /\ userSteps' = userSteps + 1
Fail == fails < MaxFails /\ fails' = fails + 1
NewEntry(c) == [known |-> TRUE, setup |-> c.setup, on |-> c.on, up |-> FALSE]
Of(list, n) == {i \in DOMAIN list : list[i].name = n}
First(list, n) == CHOOSE i \in Of(list, n) : \A j \in Of(list, n) : i <= j

\* config.save writes the whole list, or fails and leaves the file.  A list that was read
\* before an agent's tool wrote the file takes that back.
Saves(list, off) ==
  /\ conf' = list /\ older' = older \cup {list}
  /\ \/ disk' = list /\ fails' = fails
     \/ disk' = disk /\ Fail
  /\ strayed' = strayed \cup off \cup (IF disk' = disk /\ disk # list THEN ServerNames ELSE {})
                        \cup (IF changed > 0 \/ agent # NoCall THEN ServerNames ELSE {})

(* ---- the other writers of the configuration ---- *)

Entries(list, n) == {list[i] : i \in Of(list, n)}
\* The names of which the two lists have other entries.
Differ(list, other) ==
  {n \in ServerNames : \/ Entries(list, n) # Entries(other, n)
                        \/ Cardinality(Of(list, n)) # Cardinality(Of(other, n))}

\* The sidebar, the theme, the settings, the memory panel and the exit write the whole
\* configuration, each from the copy it has.
OthersWrite(list) ==
  /\ User /\ list \in older /\ disk' = list
  /\ strayed' = strayed \cup Differ(list, disk)
  /\ UNCHANGED <<entry, conf, older, panelJob, late, dlg, deleting, agent, changed, fails>>

\* sync_live_config: while the settings or the presets are open, the draft they share
\* replaces the configuration of the application in each frame.
DraftReplaces(list) ==
  /\ User /\ list \in older /\ conf' = list
  /\ strayed' = strayed \cup Differ(list, conf)
  /\ UNCHANGED <<entry, disk, older, panelJob, late, dlg, deleting, agent, changed, fails>>

(* ---- the job ---- *)

\* Effects of the operations; a connect may fail.
Effect(op, n, ups) ==
  entry' = IF ~entry[n].known THEN entry
           ELSE CASE op = "remove"     -> [entry EXCEPT ![n] = Absent]
                  [] op = "connect"    -> [entry EXCEPT ![n].up = ups]
                  [] op = "enable"     -> [entry EXCEPT ![n].on = TRUE, ![n].up = ups]
                  [] op = "disable"    -> [entry EXCEPT ![n].on = FALSE, ![n].up = FALSE]
                  [] op = "disconnect" -> [entry EXCEPT ![n].up = FALSE]
                  [] op = "refresh"    -> entry

\* start_job: refused while one runs.
Starts(op, n) == panelJob' = IF panelJob = NoJob THEN [op |-> op, name |-> n, over |-> FALSE] ELSE panelJob

JobRuns(ups) ==
  /\ panelJob # NoJob /\ ~panelJob.over
  /\ Effect(panelJob.op, panelJob.name, ups)
  /\ panelJob' = [panelJob EXCEPT !.over = TRUE]
  /\ UNCHANGED <<conf, disk, older, late, dlg, deleting, agent, changed, strayed, userSteps, fails>>

\* timeout_op: the panel is told it failed; the thread finishes some time.
JobTimesOut ==
  /\ panelJob # NoJob /\ ~panelJob.over /\ Fail
  /\ late' = late \cup {[op |-> panelJob.op, name |-> panelJob.name]}
  /\ panelJob' = [panelJob EXCEPT !.over = TRUE]
  /\ UNCHANGED <<entry, conf, disk, older, dlg, deleting, agent, changed, strayed, userSteps>>
LateRuns(j, ups) ==
  /\ j \in late
  /\ Effect(j.op, j.name, ups)
  /\ late' = late \ {j}
  /\ strayed' = strayed \cup {j.name}
  /\ UNCHANGED <<conf, disk, older, panelJob, dlg, deleting, agent, changed, userSteps, fails>>

JobCollected ==
  /\ panelJob # NoJob /\ panelJob.over
  /\ panelJob' = NoJob
  /\ UNCHANGED <<entry, conf, disk, older, late, dlg, deleting, agent, changed, strayed, userSteps, fails>>

(* ---- the rows ---- *)

\* Wrong: the flag of the server is for this run only.
SessionOnlyVariant(n, on) == conf
FlagSet(n, on) == IF Of(conf, n) = {} THEN conf ELSE [conf EXCEPT ![First(conf, n)].on = on]
\* The enabled box is not disabled while a job runs: the job is refused then, the flag in
\* the configuration is set all the same.
TogglesServer(n) ==
  LET on == ~entry[n].on IN
  /\ User /\ n \in Known
  /\ Starts(IF on THEN "enable" ELSE "disable", n)
  /\ Saves(FlagSet(n, on), IF panelJob = NoJob THEN {} ELSE {n})
  /\ UNCHANGED <<entry, late, dlg, deleting, agent, changed>>

\* The buttons of a row, by its status.
RowButton(op, n) ==
  /\ User /\ n \in Known /\ panelJob = NoJob
  /\ op = "connect" <=> ~entry[n].up
  /\ Starts(op, n)
  /\ UNCHANGED <<entry, conf, disk, older, late, dlg, deleting, agent, changed, strayed, fails>>

DeleteServer(n) ==
  /\ User /\ n \in Known /\ panelJob = NoJob
  /\ deleting' = n
  /\ UNCHANGED <<entry, conf, disk, older, panelJob, late, dlg, agent, changed, strayed, fails>>
\* The question goes with its row.  The job removes the server from the manager; the list
\* in the configuration keeps it.
ConfirmsDelete ==
  /\ User /\ deleting \in Known
  /\ deleting' = "none"
  /\ Starts("remove", deleting)
  /\ strayed' = IF panelJob = NoJob THEN strayed \cup {deleting} ELSE strayed
  /\ UNCHANGED <<entry, conf, disk, older, late, dlg, agent, changed, fails>>
CancelsDelete ==
  /\ User /\ deleting \in Known
  /\ deleting' = "none"
  /\ UNCHANGED <<entry, conf, disk, older, panelJob, late, dlg, agent, changed, strayed, fails>>

(* ---- the dialog ---- *)

\* from_config: the arguments in one line, with blanks between.
Shown(c) == [new |-> FALSE, name |-> c.name, on |-> c.on, filled |-> c.setup.n # 0, setup |-> c.setup]
\* A server the configuration does not have is edited from an empty form.
EditsServer(n) ==
  /\ User /\ n \in Known /\ panelJob = NoJob
  /\ dlg' = IF Of(conf, n) # {} THEN Shown(conf[First(conf, n)])
            ELSE Shown(Configured(n, [n |-> 0, blank |-> "no"], TRUE))
  /\ UNCHANGED <<entry, conf, disk, older, panelJob, late, deleting, agent, changed, strayed, fails>>
OpensNew ==
  /\ User
  /\ dlg' = [new |-> TRUE, name |-> "", on |-> TRUE, filled |-> FALSE, setup |-> [n |-> 0, blank |-> "no"]]
  /\ UNCHANGED <<entry, conf, disk, older, panelJob, late, deleting, agent, changed, strayed, fails>>
\* The name can be typed for a new server only.
TypesServer(n, k) ==
  /\ User /\ dlg # NoDlg
  /\ IF dlg.new THEN n \in {"git", "my db"} ELSE n = dlg.name
  /\ dlg' = [dlg EXCEPT !.name = n, !.filled = TRUE, !.setup = [n |-> k, blank |-> "no"]]
  /\ UNCHANGED <<entry, conf, disk, older, panelJob, late, deleting, agent, changed, strayed, fails>>

\* Wrong: the name is taken as it is typed.
AsTypedVariant(n) == n
sanitize_name_part(n) == IF n = "my db" THEN "my_db" ELSE n
\* build: split at blanks, whatever had them.
Built == [n |-> dlg.setup.n, blank |-> IF dlg.setup.blank = "yes" THEN "split" ELSE dlg.setup.blank]
Valid == dlg.name # "" /\ dlg.filled

\* Wrong: an edit is appended, too.
AppendsVariant(c) == Append(conf, c)
\* A new entry is appended, even to one of its name; an edit replaces the first of its
\* name, if there is one.
Listed(c) ==
  IF dlg.new THEN Append(conf, c)
  ELSE IF Of(conf, c.name) # {} THEN [conf EXCEPT ![First(conf, c.name)] = c] ELSE conf

\* apply_edit.  An invalid form stays; a save that fails closes the dialog and starts no
\* connection.
Doubled(name) == dlg.new /\ Of(conf, name) # {}
Orphan(name) == ~dlg.new /\ (Of(conf, name) = {} \/ name # dlg.name)
Toggling(name) == panelJob # NoJob /\ panelJob.name = name
Applies(on) ==
  LET c == Configured(sanitize_name_part(dlg.name), Built, on) IN
  IF ~Valid THEN dlg' = [dlg EXCEPT !.on = on] /\ UNCHANGED <<entry, conf, disk, older, panelJob, strayed, fails>>
  ELSE /\ entry' = [entry EXCEPT ![c.name] =
                      IF @.known THEN [@ EXCEPT !.setup = c.setup, !.on = on] ELSE NewEntry(c)]
       /\ Saves(Listed(c), {n \in {c.name} : Doubled(n) \/ Orphan(n) \/ Toggling(n)})
       /\ dlg' = NoDlg
       /\ IF disk' = Listed(c) /\ on /\ ~entry'[c.name].up THEN Starts("connect", c.name)
          ELSE panelJob' = panelJob
SavesServer ==
  /\ User /\ dlg # NoDlg
  /\ Applies(dlg.on)
  /\ UNCHANGED <<late, deleting, agent, changed>>
\* In the dialog of a new server, touching the box, the timeout or the first letter of
\* the allowed tools saves at once.
TicksEnabled ==
  /\ User /\ dlg # NoDlg
  /\ IF dlg.new THEN Applies(~dlg.on)
     ELSE dlg' = [dlg EXCEPT !.on = ~@] /\ UNCHANGED <<entry, conf, disk, older, panelJob, strayed, fails>>
  /\ UNCHANGED <<late, deleting, agent, changed>>
CancelsServer ==
  /\ User /\ dlg # NoDlg
  /\ dlg' = NoDlg
  /\ UNCHANGED <<entry, conf, disk, older, panelJob, late, deleting, agent, changed, strayed, fails>>

(* ---- the tools of an agent ---- *)

\* mcp_add_server, checked by validate: a name with other characters is refused, a name
\* that is configured means an update.
AgentAdds(n, on) ==
  /\ User /\ agent = NoCall /\ n \in {"git", "my_db"}
  /\ LET setup == [n |-> 3, blank |-> "yes"] IN
     /\ entry' = IF entry[n].known THEN [entry EXCEPT ![n].setup = setup, ![n].on = on]
                 ELSE [entry EXCEPT ![n] = NewEntry([setup |-> setup, on |-> on])]
     /\ agent' = [op |-> "add", conf |-> Configured(n, setup, on)]
  /\ strayed' = IF panelJob # NoJob THEN strayed \cup {panelJob.name} ELSE strayed
  /\ UNCHANGED <<conf, disk, older, panelJob, late, dlg, deleting, changed, fails>>
\* mcp_remove_server: of the servers the manager knows.
AgentRemovesServer(n) ==
  /\ User /\ agent = NoCall /\ n \in Known
  /\ entry' = [entry EXCEPT ![n] = Absent]
  /\ agent' = [op |-> "remove", conf |-> Configured(n, entry[n].setup, entry[n].on)]
  /\ strayed' = IF panelJob # NoJob THEN strayed \cup {panelJob.name} ELSE strayed
  /\ UNCHANGED <<conf, disk, older, panelJob, late, dlg, deleting, changed, fails>>

\* Wrong: removed here and now, but not from the file.
KeepsVariant(list) == list
\* retain(|s| s.name != name): every entry of the list but those named n.
Without(list, n) ==
  LET kept[i \in 0..Len(list)] == IF i = 0 THEN <<>>
                                  ELSE IF list[i].name = n THEN kept[i-1]
                                  ELSE Append(kept[i-1], list[i])
  IN kept[Len(list)]
Filtered(list) == Without(list, agent.conf.name)
\* update_mcp_servers_in_config: the file is read, changed and written; the event says so.
AgentWrites ==
  /\ agent # NoCall
  /\ LET n == agent.conf.name
         list == IF agent.op = "remove" THEN Filtered(disk)
                 ELSE IF Of(disk, n) = {} THEN Append(disk, agent.conf)
                 ELSE [disk EXCEPT ![First(disk, n)] = agent.conf] IN
     \/ disk' = list /\ UNCHANGED <<fails, strayed>>
     \/ disk' = disk /\ Fail /\ strayed' = strayed \cup {n}
  /\ older' = older \cup {disk'}
  /\ changed' = changed + 1
  /\ agent' = NoCall
  /\ UNCHANGED <<entry, conf, panelJob, late, dlg, deleting, userSteps>>
HandlesMcpChanged ==
  /\ changed > 0
  /\ conf' = disk /\ changed' = changed - 1
  /\ UNCHANGED <<entry, disk, older, panelJob, late, dlg, deleting, agent, strayed, userSteps, fails>>

\* sync_from_config at the start: of two entries with one name, the last one's setup.
Synced(list) ==
  [n \in ServerNames |->
     IF Of(list, n) = {} THEN Absent
     ELSE NewEntry(list[CHOOSE i \in Of(list, n) : \A j \in Of(list, n) : j <= i])]
PanelRestarts ==
  /\ Fail
  /\ conf' = disk /\ older' = {disk} /\ entry' = Synced(disk)
  /\ panelJob' = NoJob /\ late' = {} /\ dlg' = NoDlg /\ deleting' = "none" /\ agent' = NoCall /\ changed' = 0
  /\ strayed' = {n \in ServerNames : Cardinality(Of(disk, n)) > 1}
  /\ UNCHANGED <<disk, userSteps>>

Init ==
  /\ disk \in {<<>>, <<Configured("git", [n |-> 2, blank |-> "yes"], FALSE)>>,
               <<Configured("my db", [n |-> 2, blank |-> "no"], TRUE)>>}
  /\ conf = disk /\ older = {disk} /\ entry = Synced(disk)
  /\ panelJob = NoJob /\ late = {} /\ dlg = NoDlg /\ deleting = "none" /\ agent = NoCall
  /\ changed = 0 /\ strayed = {} /\ userSteps = 0 /\ fails = 0

Next ==
  \/ \E ups \in BOOLEAN : JobRuns(ups) \/ \E j \in late : LateRuns(j, ups)
  \/ JobTimesOut \/ JobCollected
  \/ \E n \in ServerNames :
       \/ TogglesServer(n) \/ DeleteServer(n) \/ EditsServer(n) \/ AgentRemovesServer(n)
       \/ \E op \in {"connect", "disconnect", "refresh"} : RowButton(op, n)
       \/ TypesServer(n, 1)
       \/ \E on \in BOOLEAN : AgentAdds(n, on)
  \/ ConfirmsDelete \/ CancelsDelete \/ OpensNew \/ SavesServer \/ TicksEnabled \/ CancelsServer
  \/ AgentWrites \/ HandlesMcpChanged \/ PanelRestarts
  \/ \E list \in older : OthersWrite(list) \/ DraftReplaces(list)

Spec == Init /\ [][Next]_panelVars

-----------------------------------------------------------------------------
Settled == panelJob = NoJob /\ late = {} /\ agent = NoCall /\ changed = 0

\* When everything has come to rest, the manager has the servers the configuration and
\* its file list, each once, with the setup and the flag they list: what the panel shows
\* now it will show after the next start.  Excepted are the servers touched in one of the
\* ways that leave the three apart: deleted in the panel, toggled while a job ran, added
\* under a name that exists, edited without an entry or while
\* a job was at it, a late operation, a save that failed or that met an agent's, and
\* those whose entry another writer of config.json, or a dialog of the settings, took back
\* to what it was.
ThreeAgree ==
  Settled => \A n \in ServerNames \ strayed :
    /\ Cardinality(Of(conf, n)) = (IF entry[n].known THEN 1 ELSE 0)
    /\ \A i \in Of(conf, n) : conf[i].setup = entry[n].setup /\ conf[i].on = entry[n].on
    /\ {disk[i] : i \in Of(disk, n)} = {conf[i] : i \in Of(conf, n)}

\* A name that tools cannot be registered under is never given a setup by the dialog or an
\* agent; only a file can bring it.
NamesUsable == entry["my db"].known => entry["my db"].setup.n = 2

PanelSound == ThreeAgree /\ NamesUsable

\* Stated, and not so: "Config changes are persisted to `config.mcp_servers` and saved
\* after every successful change" (mcp_panel/mod.rs); a server deleted in the panel stays
\* in both and is back after the next start.
DeletedStaysGone == (Settled /\ fails = 0) => \A i \in DOMAIN disk : disk[i].name \in Known

\* Stated, and not so: an edit changes what was edited; an argument with a blank is two
\* arguments when the dialog is saved.
EditKeepsArguments == \A i \in DOMAIN conf : conf[i].setup.blank # "split"

=============================================================================

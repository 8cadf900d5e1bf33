------------------------------- MODULE Registry -------------------------------
(***************************************************************************)
(* The tools an agent has: the shared registry filled at the start by the  *)
(* program, by plugin files and by MCP servers (bootstrap.rs,              *)
(* tools/registry.rs, dynamic/loader.rs), the reload and path tools        *)
(* (builtin/plugins.rs), the view of it each run gets (tools/manager.rs,   *)
(* agents/agent/mod.rs, loop.rs) and the check of a call's parameters      *)
(* (tools/validation.rs).                                                  *)
(*                                                                         *)
(* A directory holds at most one plugin file. Scans run on the threads of  *)
(* tool calls, so that several may work at once.                           *)
(***************************************************************************)
EXTENDS Naturals, Sequences, FiniteSets

CONSTANTS
  Dirs,       \* directories for plugins; the first scan knows Default
  Default,
  Scanners,   \* threads: the start and calls of reload_plugins
  Turns,      \* runs of agents
  MaxBuilds   \* bound: plugin files built while the program runs

\* A builtin, a tool registered after the first scan, the tools made for each run, a
\* plugin's own name and the name of an MCP tool.
Perrun == {"restart", "hand_back"}
Names == {"web_search", "save_memory", "plug", "mcp"} \cup Perrun
PluginNames == {"plug", "save_memory", "restart"}

\* A library whose symbols and ABI version fit, or do not.
Plugin == [tool : PluginNames, sound : {TRUE}] \cup {[tool |-> "plug", sound |-> FALSE]}
Missing == [tool |-> "none", sound |-> FALSE]
Unreadable == [tool |-> "none", sound |-> TRUE]   \* a path that is no directory

Nowhere == "nowhere"
NoEntry == [from |-> "none", lib |-> Nowhere, told |-> 0]
Own(from) == [from |-> from, lib |-> Nowhere, told |-> 0]

VARIABLES
  contents,  \* what each directory holds
  paths,     \* the discovery paths, in order
  entry,     \* the registry: an entry for each name
  boot,      \* where the start of the program is
  scan,      \* what each scan is doing
  exec,      \* per run: the tool at work
  builds     \* files built so far

registryVars == <<contents, paths, entry, boot, scan, exec, builds>>

Idle == [at |-> "idle", todo |-> <<>>, file |-> Missing, lib |-> Nowhere, good |-> {}, upto |-> 0]
NoCall == [tool |-> "none", from |-> "none", lib |-> Nowhere]

Init ==
  /\ contents \in [Dirs -> Plugin \cup {Missing}]
  /\ paths = <<Default>>
  /\ entry = [n \in Names |-> IF n = "web_search" THEN Own("program") ELSE NoEntry]
  /\ boot = "scan"
  /\ scan = [s \in Scanners |-> Idle]
  /\ exec = [r \in Turns |-> NoCall]
  /\ builds = 0

Registered == {n \in Names : entry[n] # NoEntry}

\* ToolRegistry::register refuses a name that is taken.
Registers(n, e) == IF n \in Registered THEN UNCHANGED entry ELSE entry' = [entry EXCEPT ![n] = e]

-----------------------------------------------------------------------------
(* Scans: discover_plugins_detailed. *)

\* The first scan is the start's; later ones are calls of reload_plugins.
ScanBegins(s) ==
  /\ scan[s].at = "idle"
  /\ boot \in {"scan", "up"}
  /\ boot = "scan" => \A t \in Scanners : scan[t].at = "idle"
  /\ scan' = [scan EXCEPT ![s] = [Idle EXCEPT !.at = "path", !.todo = paths, !.upto = Len(paths)]]
  /\ UNCHANGED <<contents, paths, entry, boot, exec, builds>>

Finishes(s) ==
  /\ scan' = [scan EXCEPT ![s] = Idle]
  /\ boot' = IF boot = "scan" THEN "late" ELSE boot

\* A path that cannot be listed ends the whole scan with an error.
ScanFails(s) ==
  /\ scan[s].at = "path" /\ scan[s].todo # <<>>
  /\ contents[Head(scan[s].todo)] = Unreadable
  /\ Finishes(s)
  /\ UNCHANGED <<contents, paths, entry, exec, builds>>

\* Wrong: a file that fails to load ends the scan.
StopsVariant(file, todo) == IF file.sound THEN Tail(todo) ELSE <<>>

\* A file that fails to load is reported and the scan goes on.
GoesOn(file, todo) == Tail(todo)

\* PluginHandle::load and create_tool: the library is mapped for the handle, and
\* unmapped again when a symbol is missing or the ABI version is another.
ScanLoads(s) ==
  /\ scan[s].at = "path" /\ scan[s].todo # <<>>
  /\ LET d == Head(scan[s].todo)
         file == contents[d]
         rest == GoesOn(file, scan[s].todo)
     IN /\ file # Unreadable
        /\ scan' = [scan EXCEPT ![s] =
             IF file = Missing THEN [@ EXCEPT !.todo = Tail(@)]
             ELSE IF file.sound
             THEN [@ EXCEPT !.at = "created", !.todo = rest, !.file = file, !.lib = d, !.good = @ \cup {file.tool}]
             ELSE [@ EXCEPT !.todo = rest]]
  /\ UNCHANGED <<contents, paths, entry, boot, exec, builds>>

\* Wrong: the entry does not keep the library mapped.
UnkeptVariant(lib) == [Own("plugin") EXCEPT !.lib = Nowhere]

\* The entry keeps a handle.
PluginEntry(lib) == [Own("plugin") EXCEPT !.lib = lib]

\* A new tool is told the host API in a second step; a tool whose name is taken is
\* skipped, and its handle is dropped.
ScanRegisters(s) ==
  /\ scan[s].at = "created"
  /\ Registers(scan[s].file.tool, PluginEntry(scan[s].lib))
  /\ scan' = [scan EXCEPT ![s] =
       IF scan[s].file.tool \in Registered THEN [@ EXCEPT !.at = "path", !.file = Missing, !.lib = Nowhere]
       ELSE [@ EXCEPT !.at = "telling"]]
  /\ UNCHANGED <<contents, paths, boot, exec, builds>>

ScanTells(s) ==
  /\ scan[s].at = "telling"
  /\ entry' = [entry EXCEPT ![scan[s].file.tool].told = @ + 1]
  /\ scan' = [scan EXCEPT ![s] = [@ EXCEPT !.at = "path", !.file = Missing, !.lib = Nowhere]]
  /\ UNCHANGED <<contents, paths, boot, exec, builds>>

ScanEnds(s) ==
  /\ scan[s].at = "path" /\ scan[s].todo = <<>>
  /\ Finishes(s)
  /\ UNCHANGED <<contents, paths, entry, exec, builds>>

\* The registrations after the first scan: a name already taken is a panic.
RegistersLate ==
  /\ boot = "late"
  /\ IF "save_memory" \in Registered THEN boot' = "dead" /\ UNCHANGED entry
     ELSE boot' = "up" /\ Registers("save_memory", Own("program"))
  /\ UNCHANGED <<contents, paths, scan, exec, builds>>

\* An MCP server connects or disconnects, at any time after the first scan.
McpRegisters ==
  /\ boot # "scan" /\ "mcp" \notin Registered
  /\ Registers("mcp", Own("server"))
  /\ UNCHANGED <<contents, paths, boot, scan, exec, builds>>

McpUnregisters ==
  /\ "mcp" \in Registered
  /\ entry' = [entry EXCEPT !["mcp"] = NoEntry]
  /\ UNCHANGED <<contents, paths, boot, scan, exec, builds>>

\* add_plugin_path: a new path goes last; nothing is loaded.
AddsPath(d) ==
  /\ boot = "up" /\ \A k \in DOMAIN paths : paths[k] # d
  /\ paths' = Append(paths, d)
  /\ UNCHANGED <<contents, entry, boot, scan, exec, builds>>

\* Somebody builds a plugin, or leaves a file where a directory should be.
Built(d, file) ==
  /\ builds < MaxBuilds /\ builds' = builds + 1
  /\ file # contents[d] /\ (d = Default => file # Unreadable)
  /\ contents' = [contents EXCEPT ![d] = file]
  /\ UNCHANGED <<paths, entry, boot, scan, exec>>

-----------------------------------------------------------------------------
(* The view of a run: AgentBuilder::build and run_llm_loop. *)

Agents == [restart : BOOLEAN, back : BOOLEAN, allowed : {{}, {"web_search", "plug"}}]

\* The overrides: a tool made for the run, or the name hidden from it.
Replaced(a) == (IF a.restart THEN {"restart"} ELSE {}) \cup (IF a.back THEN {"hand_back"} ELSE {})
Removed(a) == Perrun \ Replaced(a)

\* The allowlist: what is gated by a flag of its own is added, hand_back is not.
Allowed(a, n) == a.allowed = {} \/ n \in a.allowed \/ (n = "restart" /\ a.restart)

\* Wrong: the definitions forget what the overrides hide.
ShowsAllVariant(a) == {n \in Registered \cup Replaced(a) : Allowed(a, n)}

\* get_tool_definitions.
Definitions(a) == {n \in (Registered \ Removed(a)) \cup Replaced(a) : Allowed(a, n)}

\* Wrong: the registry is asked first.
SharedFirstVariant(a, n) ==
  IF n \in Registered /\ n \notin Removed(a) THEN [tool |-> n, from |-> entry[n].from, lib |-> entry[n].lib]
  ELSE IF n \in Replaced(a) THEN [tool |-> n, from |-> "run", lib |-> Nowhere]
  ELSE NoCall

\* resolve_tool: the tool made for the run, nothing for a hidden name, or the registry's.
Resolved(a, n) ==
  IF n \in Replaced(a) THEN [tool |-> n, from |-> "run", lib |-> Nowhere]
  ELSE IF n \in Removed(a) \/ entry[n] = NoEntry THEN NoCall
  ELSE [tool |-> n, from |-> entry[n].from, lib |-> entry[n].lib]

\* execute_with_progress_and_cancel: the model may name any tool; what it names is
\* looked up when the call begins, and a name that is not allowed is not found.
CallBegins(r, a, n) ==
  /\ boot = "up" /\ exec[r] = NoCall
  /\ Allowed(a, n)
  /\ exec' = [exec EXCEPT ![r] = Resolved(a, n)]
  /\ UNCHANGED <<contents, paths, entry, boot, scan, builds>>

CallEnds(r) ==
  /\ exec[r] # NoCall
  /\ exec' = [exec EXCEPT ![r] = NoCall]
  /\ UNCHANGED <<contents, paths, entry, boot, scan, builds>>

ScanStep(s) ==
  ScanBegins(s) \/ ScanFails(s) \/ ScanLoads(s) \/ ScanRegisters(s) \/ ScanTells(s) \/ ScanEnds(s)

Next ==
  \/ \E s \in Scanners : ScanStep(s)
  \/ RegistersLate \/ McpRegisters \/ McpUnregisters
  \/ \E d \in Dirs : AddsPath(d)
  \/ \E d \in Dirs, file \in Plugin \cup {Unreadable} : Built(d, file)
  \/ \E r \in Turns, a \in Agents, n \in Names : CallBegins(r, a, n)
  \/ \E r \in Turns : CallEnds(r)

Spec == Init /\ [][Next]_registryVars

-----------------------------------------------------------------------------
(* The parameters of a call: validate_params, for one field. *)

Kinds == {"absent", "null", "string", "whole", "whole float", "fraction"}
Fields == [required : BOOLEAN, nullable : BOOLEAN, type : {"string", "integer", "number", "other"}]

\* Wrong: 300.0 is no integer.
StrictVariant(type, value) ==
  CASE type = "string" -> value = "string" [] type = "integer" -> value = "whole"
    [] type = "number" -> value \in {"whole", "whole float", "fraction"} [] OTHER -> TRUE

Fits(type, value) ==
  CASE type = "string" -> value = "string" [] type = "integer" -> value \in {"whole", "whole float"}
    [] type = "number" -> value \in {"whole", "whole float", "fraction"} [] OTHER -> TRUE

\* The loop over the required names, then the loop over the declared ones.
Problems(f, value) ==
  (IF f.required /\ value = "absent" THEN <<"missing">> ELSE <<>>)
    \o (IF f.required /\ value = "null" /\ ~f.nullable THEN <<"required null">> ELSE <<>>)
    \o (IF value = "null" /\ ~f.nullable /\ ~f.required THEN <<"null">> ELSE <<>>)
    \o (IF value \notin {"absent", "null"} /\ ~Fits(f.type, value) THEN <<"type">> ELSE <<>>)

-----------------------------------------------------------------------------
\* The registry and the scans are well formed.
TypeOK ==
  /\ contents \in [Dirs -> Plugin \cup {Missing, Unreadable}]
  /\ \A n \in Names : entry[n].from \in {"none", "program", "plugin", "server"} /\ entry[n].lib \in Dirs \cup {Nowhere}

\* A library stays mapped while its tool is registered or at work, whatever scans load
\* and drop (ToolEntry::plugin): unmapped code that runs is a crash.
Mapped(d) == (\E n \in Names : entry[n].lib = d) \/ (\E s \in Scanners : scan[s].lib = d)
MappedWhileUsed ==
  /\ \A r \in Turns : exec[r].from = "plugin" => exec[r].lib # Nowhere /\ Mapped(exec[r].lib)
  /\ \A n \in Names : entry[n].from = "plugin" => entry[n].lib # Nowhere

\* A plugin is handed the host API at most once, by the scan that registered it, and is
\* never left without when no scan is at work (load_one_plugin).
ToldOnce ==
  \A n \in Names :
    /\ entry[n].told <= IF entry[n].from = "plugin" THEN 1 ELSE 0
    /\ entry[n].from = "plugin" /\ entry[n].told = 0 => \E s \in Scanners : scan[s].at = "telling" /\ scan[s].file.tool = n

\* What a run is offered is what it can call, at every moment; no name hidden from it
\* runs, not even a plugin's of that name, and the tool made for it goes before one of
\* the registry ("the model can only ever see and run tools it is authorized for").
SeesWhatRuns ==
  \A a \in Agents :
    /\ Definitions(a) = {n \in Names : Allowed(a, n) /\ Resolved(a, n) # NoCall}
    /\ \A n \in Perrun : Resolved(a, n).from \in {"none", "run"}

\* A scan that got past every path has registered what could be loaded: a bad file
\* costs the others nothing (discover_plugins_detailed).
GoodOnesLoaded ==
  \A s \in Scanners :
    /\ scan[s].at = "path" => scan[s].good \subseteq Registered
    /\ scan[s].at = "path" /\ scan[s].todo = <<>> /\ builds = 0
         => \A k \in 1..scan[s].upto : contents[paths[k]].tool # "none" /\ contents[paths[k]].sound
              => contents[paths[k]].tool \in Registered

\* A name keeps its tool: the program's and a plugin's are never replaced.
NamesKept ==
  /\ entry["web_search"].from = "program"
  /\ boot = "up" => entry["save_memory"].from = "program"
  /\ boot = "dead" => entry["save_memory"].from = "plugin"

\* A call's parameters are refused exactly when the schema forbids them, and for one
\* reason each (validate_params).
ParamsRight ==
  \A f \in Fields, value \in Kinds :
    /\ Len(Problems(f, value)) <= 1
    /\ Problems(f, value) = <<>> <=>
         CASE value = "absent" -> ~f.required
           [] value = "null" -> f.nullable
           [] value = "whole float" -> f.type # "string"
           [] value = "whole" -> f.type # "string"
           [] value = "fraction" -> f.type \notin {"string", "integer"}
           [] OTHER -> f.type \in {"string", "other"}

\* All of them; parameters do not depend on the state.
ToolsOffered ==
  /\ TypeOK /\ MappedWhileUsed /\ ToldOnce /\ SeesWhatRuns /\ GoodOnesLoaded /\ NamesKept
  /\ boot = "scan" => ParamsRight

\* Stated, and not so: "`shell`, `handoff`, `restart`, `hand_back`, and `session_note`
\* visibility is gated by their `*_enabled` flags, not by `allowed_tools`" (README.md).
GatedByFlags == \A a \in Agents : Replaced(a) \subseteq Definitions(a)

=============================================================================

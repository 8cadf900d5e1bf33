------------------------------ MODULE McpServers ------------------------------
(***************************************************************************)
(* One MCP server as McpManager keeps it: the entry of the configured      *)
(* server, the tools mirrored into the shared registry, and the child      *)
(* processes started for it. Operations (connect, disconnect, refresh,     *)
(* remove, enable) run on threads of their own and give the entry's lock   *)
(* up wherever they wait, so that two of them, a toggle of the panel and   *)
(* the shutdown interleave.                                                *)
(*                                                                         *)
(* A tool is registered under its server's name and reaches whatever       *)
(* client the entry holds; a process is named by its client's number.      *)
(***************************************************************************)
EXTENDS Naturals, FiniteSets

CONSTANTS
  Tools,       \* tools the server may list
  Slots,       \* threads that run operations
  None,
  MaxClients,  \* bound: connections attempted
  MaxOps       \* bound: operations started

VARIABLES
  server,    \* the entry of McpInner.servers
  registry,  \* tools of this server in the ToolRegistry
  procs,     \* what became of the process of each client
  op,        \* the operation each thread runs
  toggle,    \* a set_tool_enabled between its two halves
  job,       \* the thread of the panel's job, or None
  down,      \* shutting_down
  started,   \* operations started
  clash      \* history: what overlapped so far ("flags": while a connect had them)

mcpVars == <<server, registry, procs, op, toggle, job, down, started, clash>>

Clients == 1..MaxClients
Kinds == {"connect", "disconnect", "refresh", "remove", "enable", "disable", "shutdown"}
Statuses == {"configured", "connecting", "connected", "error"}
Idle == [kind |-> "none", pc |-> "idle", client |-> 0, tools |-> {}, off |-> {}]

\* McpServerState::new. Flags default to on, so the entry keeps those that are off.
NewServer(on) == [known |-> TRUE, enabled |-> on, status |-> "configured",
                  tools |-> {}, off |-> {}, client |-> 0]
NoServer == [NewServer(FALSE) EXCEPT !.known = FALSE]

TypeOK ==
  /\ server \in [known: BOOLEAN, enabled: BOOLEAN, status: Statuses,
                 tools: SUBSET Tools, off: SUBSET Tools, client: 0..MaxClients]
  /\ registry \subseteq Tools
  /\ procs \in [Clients -> {"none", "up", "mute", "killed"}]
  /\ \A s \in Slots :
       /\ op[s].kind \in Kinds \cup {"none"}
       /\ op[s].client \in 0..MaxClients
       /\ op[s].tools \subseteq Tools /\ op[s].off \subseteq Tools
  /\ toggle = None \/ toggle \in [tool: Tools, on: BOOLEAN]
  /\ job \in Slots \cup {None}
  /\ down \in BOOLEAN /\ clash \in {"none", "some", "flags"}
  /\ started \in 0..MaxOps + 1

\* sync_from_config at startup: the entry of the config, nothing connected;
\* auto_connect_enabled spawns a connect for an enabled entry.
Init ==
  /\ server \in {NoServer, NewServer(TRUE), NewServer(FALSE)}
  /\ registry = {}
  /\ procs = [c \in Clients |-> "none"]
  /\ op \in [Slots -> {Idle, [Idle EXCEPT !.kind = "connect", !.pc = "begin"]}]
  /\ Cardinality({s \in Slots : op[s] # Idle}) = IF server.enabled THEN 1 ELSE 0
  /\ toggle = None /\ job = None
  /\ down = FALSE /\ clash = "none"
  /\ started = Cardinality({s \in Slots : op[s] # Idle})

-----------------------------------------------------------------------------
(* Steps shared by the operations.                                         *)

Busy == {s \in Slots : op[s].pc # "idle"}
Quiet == Busy = {} /\ toggle = None

At(s, kinds, pc) == op[s].kind \in kinds /\ op[s].pc = pc
Goto(s, pc) == op' = [op EXCEPT ![s].pc = pc]
End(s) == op' = [op EXCEPT ![s] = Idle]

\* set_status: a server removed meanwhile has none.
WithStatus(e, status) == IF e.known THEN [e EXCEPT !.status = status] ELSE e

Kill(c) == IF c = 0 THEN procs ELSE [procs EXCEPT ![c] = "killed"]

Connects == {"connect", "enable"}
Disconnects == {"disconnect", "disable", "remove", "shutdown"}

\* Operations that list tools.
Loads == Connects \cup {"refresh"}

Clash(kind) ==
  IF \/ clash = "flags"
     \/ kind \in Loads /\ \E s \in Busy : op[s].kind \in Loads
     \/ kind = "toggle" /\ \E s \in Busy : op[s].pc \in {"register", "finish"}
  THEN "flags"
  ELSE IF Busy # {} \/ toggle # None THEN "some" ELSE clash

\* A thread takes up an operation; set_server_enabled_sync sets the flag first.
Launch(s, kind) ==
  /\ op[s].pc = "idle" /\ started < MaxOps
  /\ op' = [op EXCEPT ![s].kind = kind, ![s].pc = "begin"]
  /\ started' = started + 1
  /\ clash' = Clash(kind)

Enabling(kind) ==
  CASE kind = "enable"  -> IF server.known THEN [server EXCEPT !.enabled = TRUE] ELSE server
    [] kind = "disable" -> IF server.known THEN [server EXCEPT !.enabled = FALSE] ELSE server
    [] OTHER -> server

-----------------------------------------------------------------------------
(* connect_async                                                           *)

ConnectBegin(s) ==
  /\ At(s, Connects, "begin")
  /\ IF down \/ ~server.known
     THEN End(s) /\ UNCHANGED server
     ELSE Goto(s, "dial") /\ server' = WithStatus(server, "connecting")
  /\ UNCHANGED <<registry, procs, toggle, job, down, started, clash>>

\* The process is spawned and answers the handshake.
Dial(s) ==
  /\ At(s, Connects, "dial")
  /\ \E c \in Clients :
       /\ procs[c] = "none" /\ \A b \in 1..(c - 1) : procs[b] # "none"
       /\ procs' = [procs EXCEPT ![c] = "up"]
       /\ op' = [op EXCEPT ![s].pc = "list", ![s].client = c]
  /\ UNCHANGED <<server, registry, toggle, job, down, started, clash>>

\* It does not start, or starts and never answers: then its handle is dropped,
\* which closes its stdin and leaves it to itself.
DialFails(s) ==
  /\ At(s, Connects, "dial")
  /\ \/ procs' = procs
     \/ \E c \in Clients :
          /\ procs[c] = "none" /\ \A b \in 1..(c - 1) : procs[b] # "none"
          /\ procs' = [procs EXCEPT ![c] = "mute"]
  /\ server' = WithStatus(server, "error")
  /\ End(s)
  /\ UNCHANGED <<registry, toggle, job, down, started, clash>>

\* tools/list, filtered by the allowlist.
ListTools(s) ==
  /\ At(s, Connects \cup {"refresh"}, "list")
  /\ procs[op[s].client] = "up"
  /\ \E found \in SUBSET Tools : op' = [op EXCEPT ![s].pc = "swap", ![s].tools = found]
  /\ UNCHANGED <<server, registry, procs, toggle, job, down, started, clash>>

ListFailsVariant(s) ==
  /\ At(s, Connects, "list")
  /\ procs' = Kill(op[s].client)
  /\ End(s)
  /\ UNCHANGED <<server, registry, toggle, job, down, started, clash>>

ListFails(s) ==
  /\ At(s, Connects, "list")
  /\ procs' = Kill(op[s].client)
  /\ server' = WithStatus(server, "error")
  /\ End(s)
  /\ UNCHANGED <<registry, toggle, job, down, started, clash>>

SwapVariant(s) ==
  /\ At(s, Connects, "swap")
  /\ IF ~server.known
     THEN End(s) /\ UNCHANGED server
     ELSE /\ server' = [server EXCEPT !.client = 0, !.off = {}]
          /\ op' = [op EXCEPT ![s].pc = "register", ![s].off = server.off]
  /\ UNCHANGED <<registry, procs, toggle, job, down, started, clash>>

\* Under the entry's lock the old client and the flags are taken out.
Swap(s) ==
  /\ At(s, Connects, "swap")
  /\ IF ~server.known
     THEN End(s) /\ UNCHANGED <<server, procs>>
     ELSE /\ server' = [server EXCEPT !.client = 0, !.off = {}]
          /\ op' = [op EXCEPT ![s].pc = "register", ![s].off = server.off]
          /\ procs' = Kill(server.client)
  /\ UNCHANGED <<registry, toggle, job, down, started, clash>>

RegisterVariant(s) ==
  /\ At(s, Connects, "register")
  /\ registry' = registry \cup op[s].tools
  /\ Goto(s, "finish")
  /\ UNCHANGED <<server, procs, toggle, job, down, started, clash>>

\* Registering a name twice fails and changes nothing; tools are registered one
\* by one, which no other actor can tell from all at once.
Register(s) ==
  /\ At(s, Connects, "register")
  /\ registry' = registry \cup (op[s].tools \ op[s].off)
  /\ Goto(s, "finish")
  /\ UNCHANGED <<server, procs, toggle, job, down, started, clash>>

Finish(s) ==
  /\ At(s, Connects, "finish")
  /\ server' = IF ~server.known THEN server
               ELSE [server EXCEPT !.tools = op[s].tools, !.off = op[s].off \cap op[s].tools,
                                   !.client = op[s].client, !.status = "connected"]
  /\ End(s)
  /\ UNCHANGED <<registry, procs, toggle, job, down, started, clash>>

-----------------------------------------------------------------------------
(* disconnect_async, remove_server_sync                                    *)

DisconnectBegin(s) ==
  /\ At(s, Disconnects, "begin")
  /\ IF server.known
     THEN op' = [op EXCEPT ![s].pc = "unregister", ![s].tools = server.tools]
     ELSE IF op[s].kind = "remove" THEN Goto(s, "erase") ELSE End(s)
  /\ UNCHANGED <<server, registry, procs, toggle, job, down, started, clash>>

Unregister(s) ==
  /\ At(s, Disconnects, "unregister")
  /\ registry' = registry \ op[s].tools
  /\ Goto(s, "take")
  /\ UNCHANGED <<server, procs, toggle, job, down, started, clash>>

TakeClient(s) ==
  /\ At(s, Disconnects, "take")
  /\ server' = IF server.known THEN [server EXCEPT !.client = 0] ELSE server
  /\ op' = [op EXCEPT ![s].pc = "kill", ![s].client = IF server.known THEN server.client ELSE 0]
  /\ UNCHANGED <<registry, procs, toggle, job, down, started, clash>>

KillClient(s) ==
  /\ At(s, Disconnects, "kill")
  /\ procs' = Kill(op[s].client)
  /\ Goto(s, "status")
  /\ UNCHANGED <<server, registry, toggle, job, down, started, clash>>

Disconnected(s) ==
  /\ At(s, Disconnects, "status")
  /\ server' = WithStatus(server, "configured")
  /\ IF op[s].kind = "remove" THEN Goto(s, "erase") ELSE End(s)
  /\ UNCHANGED <<registry, procs, toggle, job, down, started, clash>>

\* What a connect stored meanwhile goes with the entry.
Erase(s) ==
  /\ At(s, {"remove"}, "erase")
  /\ server' = NoServer
  /\ End(s)
  /\ UNCHANGED <<registry, procs, toggle, job, down, started, clash>>

-----------------------------------------------------------------------------
(* refresh_tools_async: the list is fetched without the lock, the set is   *)
(* replaced under it.                                                      *)

RefreshBegin(s) ==
  /\ At(s, {"refresh"}, "begin")
  /\ IF server.known /\ server.client # 0
     THEN op' = [op EXCEPT ![s].pc = "list", ![s].client = server.client]
     ELSE End(s)
  /\ UNCHANGED <<server, registry, procs, toggle, job, down, started, clash>>

RefreshFails(s) ==
  /\ At(s, {"refresh"}, "list")
  /\ End(s)
  /\ UNCHANGED <<server, registry, procs, toggle, job, down, started, clash>>

Replace(s) ==
  /\ At(s, {"refresh"}, "swap")
  /\ IF ~server.known THEN UNCHANGED <<server, registry>>
     ELSE /\ registry' = (registry \ server.tools) \cup (op[s].tools \ server.off)
          /\ server' = [server EXCEPT !.tools = op[s].tools, !.off = @ \cap op[s].tools,
                                      !.status = "connected"]
  /\ End(s)
  /\ UNCHANGED <<procs, toggle, job, down, started, clash>>

-----------------------------------------------------------------------------
(* set_tool_enabled: the flag under the lock, the registry after it.       *)

ToggleFlag(t, on) ==
  /\ toggle = None /\ server.known /\ t \in server.tools /\ ~down
  /\ on = (t \in server.off)
  /\ server' = [server EXCEPT !.off = IF on THEN @ \ {t} ELSE @ \cup {t}]
  /\ toggle' = [tool |-> t, on |-> on]
  /\ clash' = Clash("toggle")
  /\ UNCHANGED <<registry, procs, op, job, down, started>>

ToggleRegister ==
  /\ toggle # None
  /\ registry' = IF toggle.on THEN registry \cup {toggle.tool} ELSE registry \ {toggle.tool}
  /\ toggle' = None
  /\ UNCHANGED <<server, procs, op, job, down, started, clash>>

-----------------------------------------------------------------------------
(* Who starts operations.                                                  *)

\* The panel offers what the status allows and runs one job at a time.
Offered(kind) ==
  CASE kind = "connect" -> server.status \in {"configured", "error"}
    [] kind \in {"disconnect", "refresh"} -> server.status = "connected"
    [] kind = "remove" -> TRUE
    [] kind = "enable" -> ~server.enabled
    [] kind = "disable" -> server.enabled
    [] OTHER -> FALSE

PanelOp(s, kind) ==
  /\ server.known /\ Offered(kind) /\ job = None /\ ~down
  /\ Launch(s, kind)
  /\ server' = Enabling(kind)
  /\ job' = s
  /\ UNCHANGED <<registry, procs, toggle, down>>

\* Save in the dialog: the entry, then a connect if it is enabled and not
\* connected.
PanelSave(s, on) ==
  /\ job = None /\ ~down
  /\ LET entry == IF server.known THEN [server EXCEPT !.enabled = on] ELSE NewServer(on)
     IN /\ server' = entry
        /\ IF on /\ entry.status \in {"configured", "error"}
           THEN Launch(s, "connect") /\ job' = s
           ELSE UNCHANGED <<op, started, clash, job>>
  /\ UNCHANGED <<registry, procs, toggle, down>>

\* A frame finds the job's result: the operation has ended, or its time is up
\* and its thread goes on alone.
PanelDone ==
  /\ job # None
  /\ job' = None
  /\ UNCHANGED <<server, registry, procs, op, toggle, down, started, clash>>

\* The tools mcp_connect, mcp_disconnect and mcp_refresh_tools of an agent.
AgentOp(s, kind) ==
  /\ kind \in {"connect", "disconnect", "refresh"} /\ ~down
  /\ Launch(s, kind)
  /\ UNCHANGED <<server, registry, procs, toggle, job, down>>

\* mcp_add_server: the entry, connect at once if enabled.
AgentAdd(s, on) ==
  /\ ~down
  /\ server' = IF server.known THEN [server EXCEPT !.enabled = on] ELSE NewServer(on)
  /\ IF on THEN Launch(s, "connect") ELSE UNCHANGED <<op, started, clash>>
  /\ UNCHANGED <<registry, procs, toggle, job, down>>

\* mcp_remove_server.
AgentRemove(s) ==
  /\ server.known /\ ~down
  /\ Launch(s, "remove")
  /\ UNCHANGED <<server, registry, procs, toggle, job, down>>

\* shutdown(): no operation starts any more; one last disconnect of every server.
Shutdown(s) ==
  /\ ~down /\ op[s].pc = "idle"
  /\ down' = TRUE
  /\ op' = [op EXCEPT ![s].kind = "shutdown", ![s].pc = "begin"]
  /\ clash' = Clash("shutdown")
  /\ UNCHANGED <<server, registry, procs, toggle, job, started>>

-----------------------------------------------------------------------------
Advance(s) ==
  \/ ConnectBegin(s) \/ Dial(s) \/ DialFails(s) \/ ListTools(s) \/ ListFails(s)
  \/ Swap(s) \/ Register(s) \/ Finish(s)
  \/ DisconnectBegin(s) \/ Unregister(s) \/ TakeClient(s) \/ KillClient(s)
  \/ Disconnected(s) \/ Erase(s)
  \/ RefreshBegin(s) \/ RefreshFails(s) \/ Replace(s)

User ==
  \/ \E s \in Slots, kind \in Kinds : PanelOp(s, kind) \/ AgentOp(s, kind)
  \/ \E s \in Slots, on \in BOOLEAN : PanelSave(s, on) \/ AgentAdd(s, on)
  \/ \E s \in Slots : AgentRemove(s) \/ Shutdown(s)
  \/ \E t \in Tools, on \in BOOLEAN : ToggleFlag(t, on)

Next == User \/ ToggleRegister \/ PanelDone \/ \E s \in Slots : Advance(s)

Spec == Init /\ [][Next]_mcpVars

-----------------------------------------------------------------------------
(* Properties.                                                             *)

\* A tool its user switched off is not offered to agents once nothing is under
\* way, whatever connect, refresh or disconnect ran into the toggle: connect_async
\* and refresh_tools_async carry the flags over, set_tool_enabled sets the flag
\* first. Excepted are two loads at once and a toggle between a connect's swap and
\* its end: connect_async takes the flags out for that time.
DisabledStaysOut == Quiet /\ clash # "flags" => registry \cap server.off = {}

\* As long as operations never overlap, each child process that runs belongs to
\* the entry's client (connect_async kills the client it replaces and the one
\* whose listing failed), and an entry shown as connected has one that runs.
ProcessesOwned ==
  Quiet /\ clash = "none" =>
    /\ \A c \in Clients : procs[c] = "up" => server.client = c
    /\ server.status = "connected" => server.client # 0 /\ procs[server.client] = "up"

\* Connecting ends: every way out of connect_async leaves another status, also
\* when the server is removed, added again or disconnected meanwhile.
ConnectingEnds == server.status = "connecting" ~> server.status # "connecting"

\* A disconnected or removed server has no tool in the registry ("Disconnect:
\* unregister all of the server's tools", ops.rs:124). Not kept: a second connect
\* forgets the tools the server no longer lists, and a toggle registers a tool of
\* a server that is not connected.
DisconnectUnregisters ==
  Quiet /\ clash = "none" /\ server.client = 0 => registry = {}

=============================================================================

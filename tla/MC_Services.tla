----------------------------- MODULE MC_Services -----------------------------
(***************************************************************************)
(* The background services and the shell commands, side by side: each      *)
(* behaviour is one of one part, the variable part says which, and the     *)
(* others stand still. The parts share no state in these modules. The      *)
(* panel part is a session of one save worker that is also renamed,        *)
(* deleted and encrypted.                                                  *)
(***************************************************************************)
EXTENDS Naturals, Sequences, FiniteSets

CONSTANTS None, Tools, Slots, MaxClients, MaxOps,
          Callers, MaxChildren, MaxCalls, MaxProcesses, MaxSnapshots, Calls, MaxEvents,
          MAX_OUTPUT_SIZE, MaxChunks

ASSUME BoundAssumption ==
  /\ {MaxClients, MaxOps, MaxChildren, MaxCalls, MaxSnapshots, MaxEvents, MAX_OUTPUT_SIZE,
      MaxChunks} \subseteq Nat
  /\ MaxProcesses \in Nat \ {0}
ASSUME NoneAssumption == None \notin Calls \cup Slots \cup {"closed"} \cup [tool: Tools, on: BOOLEAN]
ASSUME SlotsAssumption == Slots # {} /\ IsFiniteSet(Slots)

VARIABLES part,
  server, registry, procs, op, toggle, job, down, started, clash,
  child, slot, holder, waiter, running, attached, failed, foreign, call, calls,
  process, spawned, active, ticked, prev, train, snapshots, shown,
  entry, thread, taken, events, bar, crossed,
  rpc, pending, got, written, answers, output, killed, dropped, late,
  conv, clock, due, file, tmp, fd, lock, saves, unsaved, flagged, key, name, deleted,
  watched, left,
  policy, worker, heir, wrote, inPipe, reader, channel, kept, step, elapsed, stop, outcome

Mcp == INSTANCE McpServers
Local == INSTANCE LocalServer
Active == INSTANCE Activity
Transport == INSTANCE McpTransport
Panel == INSTANCE SessionSave WITH
           Workers <- {"w"}, Ui <- "ui", MaxTries <- 2, KeyModes <- BOOLEAN, CanDelete <- TRUE,
           MaxTurns <- 2, MaxFaults <- 2, MaxCrashes <- 1, MaxRenames <- 1,
           job <- saves, pending <- unsaved, failed <- flagged
Shell == INSTANCE ShellTool WITH child <- worker

mcpVars == <<server, registry, procs, op, toggle, job, down, started, clash>>
localVars == <<child, slot, holder, waiter, running, attached, failed, foreign, call, calls>>
monitorVars == <<process, spawned, active, ticked, prev, train, snapshots, shown>>
activityVars == <<entry, thread, taken, events, bar, crossed>>
transportVars == <<rpc, pending, got, written, answers, output, killed, dropped, late>>
panelVars == <<conv, clock, due, file, tmp, fd, lock, saves, unsaved, flagged, key, name,
               deleted, watched, left>>
shellVars == <<policy, worker, heir, wrote, inPipe, reader, channel, kept, step, elapsed, stop,
               outcome>>
vars == <<part, mcpVars, localVars, monitorVars, activityVars, transportVars, panelVars,
          shellVars>>

Init ==
  /\ part \in {"mcp", "local", "monitor", "activity", "transport", "panel", "shell"}
  /\ Mcp!Init /\ (part # "mcp" => server = Mcp!NoServer)
  /\ Local!Init /\ (part # "local" => foreign = FALSE)
  /\ Local!MonitorInit /\ Active!Init /\ Transport!Init
  /\ Panel!Init /\ (part # "panel" => key = FALSE)
  /\ Shell!Init
  /\ part # "shell" => policy = [enabled |-> TRUE, dangerous |-> FALSE, listed |-> "empty"]

Next ==
  \/ /\ part = "mcp" /\ Mcp!Next
     /\ UNCHANGED <<part, localVars, monitorVars, activityVars, transportVars,
                    panelVars, shellVars>>
  \/ /\ part = "local" /\ Local!Next
     /\ UNCHANGED <<part, mcpVars, monitorVars, activityVars, transportVars,
                    panelVars, shellVars>>
  \/ /\ part = "monitor" /\ Local!MonitorNext
     /\ UNCHANGED <<part, mcpVars, localVars, activityVars, transportVars,
                    panelVars, shellVars>>
  \/ /\ part = "activity" /\ Active!Next
     /\ UNCHANGED <<part, mcpVars, localVars, monitorVars, transportVars,
                    panelVars, shellVars>>
  \/ /\ part = "transport" /\ Transport!Next
     /\ UNCHANGED <<part, mcpVars, localVars, monitorVars, activityVars,
                    panelVars, shellVars>>
  \/ /\ part = "panel" /\ Panel!Next
     /\ UNCHANGED <<part, mcpVars, localVars, monitorVars, activityVars,
                    transportVars, shellVars>>
  \/ /\ part = "shell" /\ Shell!Next
     /\ UNCHANGED <<part, mcpVars, localVars, monitorVars, activityVars,
                    transportVars, panelVars>>

\* Threads that have work get to run.
Fairness ==
  /\ WF_mcpVars(part = "mcp" /\ Mcp!ToggleRegister)
  /\ WF_mcpVars(part = "mcp" /\ Mcp!PanelDone)
  /\ \A s \in Slots : WF_mcpVars(part = "mcp" /\ Mcp!Advance(s))
  /\ \A t \in {"w", "ui"} : WF_panelVars(part = "panel" /\ Panel!SaveStep(t))
  /\ WF_panelVars(part = "panel" /\ Panel!RenameLoad)
  /\ WF_panelVars(part = "panel" /\ Panel!ClearFlag)
  /\ \A s \in Shell!Streams :
       /\ WF_shellVars(part = "shell" /\ Shell!Reads(s))
       /\ WF_shellVars(part = "shell" /\ Shell!ReaderEnds(s))
  /\ WF_shellVars(part = "shell" /\ Shell!EndsEarly)
  /\ WF_shellVars(part = "shell" /\ Shell!Pass)
  /\ WF_shellVars(part = "shell" /\ Shell!Drained)

Spec == Init /\ [][Next]_vars /\ Fairness

-----------------------------------------------------------------------------
\* One MCP server stays consistent: a tool switched off is offered to nobody, and
\* the processes that run belong to the entry's client (McpManager's
\* connect_async, disconnect_async, refresh_tools_async, set_tool_enabled).
McpConsistent == Mcp!TypeOK /\ Mcp!DisabledStaysOut /\ Mcp!ProcessesOwned

\* What somebody waits for ends: no MCP server stays in "connecting" (connect_async),
\* the UI thread, which waits for save_lock and sleeps between attempts, comes back to
\* its frames, whatever the workers, the panel and the disk do (save_session), and a
\* command ends when its time is up or its Stop button is pressed, unless a process it
\* left behind holds its pipes (ShellTool::run_command).
WaitsEnd == Mcp!ConnectingEnds /\ Panel!UiComesBack /\ Shell!LimitEnds

\* A call over stdio gets the answer to its own request or an error, and waits only
\* while somebody can answer it (StdioTransport::spawn, request).
OwnAnswerOrError ==
  Transport!TypeOK /\ Transport!OwnAnswer /\ Transport!PendingMeansWaiting /\ Transport!EndToldWaiters

\* What the status bar shows of the local server and of the calls in flight is true
\* (ServerManager, spawn_server_monitor, ActivityTracker).
StatusBarTruthful ==
  /\ Local!TypeOK /\ Local!HeldChildShown
  /\ Local!MonitorTypeOK /\ Local!ShownIsPolled
  /\ Active!TypeOK /\ Active!BarListsInFlight

\* A shell command's output is complete up to the cap, and a call that has returned
\* leaves no child running (ShellTool::run_command).
CommandsSound == Shell!ShellSound

=============================================================================

----------------------------- MODULE LocalServer -----------------------------
(***************************************************************************)
(* ServerManager: the llama-server process of one port, started, attached  *)
(* to and stopped by callers that may overlap. The process handle lives    *)
(* under an async mutex; the task that waits for the exit of a child takes *)
(* the handle out and keeps the mutex locked until the child has exited    *)
(* (the guard of its `if let` lives as long as the block), so that a       *)
(* stop_server that comes second waits for the exit it was to cause.       *)
(* The status monitor of the same server follows at the end.               *)
(***************************************************************************)
EXTENDS Naturals, Sequences, FiniteSets

CONSTANTS
  Callers,      \* concurrent callers of start_server and stop_server
  MaxChildren,  \* bound: children spawned
  MaxCalls      \* bound: calls made

VARIABLES
  child,     \* what became of each child
  slot,      \* process: the child in the mutex, 0 for none
  holder,    \* who holds the mutex: a caller, a child's waiting task, or Free
  waiter,    \* the waiting task of each child and the child it took
  running, attached, failed,
  foreign,   \* a server that is not ours listens on the port
  call,      \* the call each caller is in
  calls      \* calls made

serverVars == <<child, slot, holder, waiter, running, attached, failed, foreign, call, calls>>

Children == 1..MaxChildren
Free == <<"free">>
Task(c) == <<"task", c>>
By(k) == <<"caller", k>>
NoCall == [op |-> "none", pc |-> "idle", child |-> 0]

Init ==
  /\ child = [c \in Children |-> "none"]
  /\ slot = 0 /\ holder = Free
  /\ waiter = [c \in Children |-> [pc |-> "none", took |-> 0]]
  /\ running = FALSE /\ attached = FALSE /\ failed = FALSE
  /\ foreign \in BOOLEAN
  /\ call = [k \in Callers |-> NoCall]
  /\ calls = 0

TypeOK ==
  /\ child \in [Children -> {"none", "up", "ok", "bad"}]
  /\ slot \in 0..MaxChildren
  /\ holder \in {Free} \cup {By(k) : k \in Callers} \cup {Task(c) : c \in Children}
  /\ \A c \in Children : waiter[c].pc \in {"none", "ready", "waits", "reaped"}
  /\ {running, attached, failed, foreign} \subseteq BOOLEAN
  /\ calls \in 0..MaxCalls

Listening == foreign \/ \E c \in Children : child[c] = "up"

\* attach_if_running
Attach(seen) ==
  /\ attached' = seen
  /\ running' = (seen \/ running)

\* start_server_with_paths: attach to whatever listens; else spawn. The two
\* pipe readers keep the child from blocking and are otherwise invisible.
StartBegins(k) ==
  /\ call[k] = NoCall /\ calls < MaxCalls
  /\ calls' = calls + 1
  /\ Attach(Listening)
  /\ IF Listening THEN UNCHANGED <<call, child>>
     ELSE \/ UNCHANGED <<call, child>>      \* spawn fails
          \/ \E c \in Children :
               /\ child[c] = "none" /\ \A b \in 1..(c - 1) : child[b] # "none"
               /\ child' = [child EXCEPT ![c] = "up"]
               /\ call' = [call EXCEPT ![k] = [op |-> "start", pc |-> "store", child |-> c]]
  /\ UNCHANGED <<slot, holder, waiter, failed, foreign>>

\* The handle is stored under the mutex, the flag set, the waiting task spawned.
StartStores(k) ==
  /\ call[k].op = "start" /\ holder = Free
  /\ slot' = call[k].child
  /\ running' = TRUE
  /\ waiter' = [waiter EXCEPT ![call[k].child] = [pc |-> "ready", took |-> 0]]
  /\ call' = [call EXCEPT ![k] = NoCall]
  /\ UNCHANGED <<child, holder, attached, failed, foreign, calls>>

\* The task takes whatever handle it finds and, with one, keeps the mutex.
WaiterTakesVariant(c) ==
  /\ waiter[c].pc = "ready" /\ holder = Free
  /\ waiter' = [waiter EXCEPT ![c] = IF slot = 0 THEN [pc |-> "none", took |-> 0]
                                     ELSE [pc |-> "waits", took |-> slot]]
  /\ slot' = 0
  /\ UNCHANGED <<child, holder, running, attached, failed, foreign, call, calls>>

WaiterTakes(c) ==
  /\ waiter[c].pc = "ready" /\ holder = Free
  /\ IF slot = 0
     THEN waiter' = [waiter EXCEPT ![c].pc = "none"] /\ UNCHANGED <<slot, holder>>
     ELSE /\ waiter' = [waiter EXCEPT ![c] = [pc |-> "waits", took |-> slot]]
          /\ slot' = 0
          /\ holder' = Task(c)
  /\ UNCHANGED <<child, running, attached, failed, foreign, call, calls>>

WaiterReaps(c) ==
  /\ waiter[c].pc = "waits" /\ child[waiter[c].took] \in {"ok", "bad"}
  /\ waiter' = [waiter EXCEPT ![c].pc = "reaped"]
  /\ UNCHANGED <<child, slot, holder, running, attached, failed, foreign, call, calls>>

WaiterEnds(c) ==
  /\ waiter[c].pc = "reaped"
  /\ running' = FALSE
  /\ failed' = (failed \/ child[waiter[c].took] = "bad")
  /\ waiter' = [waiter EXCEPT ![c] = [pc |-> "none", took |-> 0]]
  /\ holder' = IF holder = Task(c) THEN Free ELSE holder
  /\ UNCHANGED <<child, slot, attached, foreign, call, calls>>

\* stop_server: nothing to do unless running; then the mutex.
StopBegins(k) ==
  /\ call[k] = NoCall /\ running /\ calls < MaxCalls
  /\ calls' = calls + 1
  /\ call' = [call EXCEPT ![k].op = "stop", ![k].pc = "lock"]
  /\ UNCHANGED <<child, slot, holder, waiter, running, attached, failed, foreign>>

StopLocks(k) ==
  /\ call[k].pc = "lock" /\ holder = Free
  /\ holder' = By(k)
  /\ call' = [call EXCEPT ![k].pc = "kill"]
  /\ UNCHANGED <<child, slot, waiter, running, attached, failed, foreign, calls>>

\* A handle still in the mutex is asked to exit, then killed; an attached server
\* has none and is left alone.
StopKills(k) ==
  /\ call[k].pc = "kill"
  /\ child' = IF slot # 0 /\ child[slot] = "up" THEN [child EXCEPT ![slot] = "bad"] ELSE child
  /\ slot' = 0
  /\ running' = FALSE
  /\ holder' = Free
  /\ call' = [call EXCEPT ![k] = NoCall]
  /\ UNCHANGED <<waiter, attached, failed, foreign, calls>>

\* A child exits by itself; other servers on the port come and go.
ChildExits(c) ==
  /\ child[c] = "up"
  /\ \E how \in {"ok", "bad"} : child' = [child EXCEPT ![c] = how]
  /\ UNCHANGED <<slot, holder, waiter, running, attached, failed, foreign, call, calls>>

ForeignChanges ==
  /\ foreign' = ~foreign
  /\ foreign \/ ~Listening
  /\ UNCHANGED <<child, slot, holder, waiter, running, attached, failed, call, calls>>

Next ==
  \/ \E k \in Callers : StartBegins(k) \/ StartStores(k) \/ StopBegins(k) \/ StopLocks(k) \/ StopKills(k)
  \/ \E c \in Children : WaiterTakes(c) \/ WaiterReaps(c) \/ WaiterEnds(c) \/ ChildExits(c)
  \/ ForeignChanges

Spec == Init /\ [][Next]_serverVars

-----------------------------------------------------------------------------
\* The child the manager holds, in the mutex or in a waiting task.
Held == ({slot} \cup {waiter[c].took : c \in {b \in Children : waiter[b].pc = "waits"}}) \ {0}

\* A child that is up and held is shown as running: the task of an earlier child
\* clears the flag only while it keeps the mutex, which a restart needs to store
\* its own (start_server_with_paths).
HeldChildShown == \A c \in Held : child[c] = "up" => running

-----------------------------------------------------------------------------
(* The monitor: spawn_server_monitor polls the server every three seconds  *)
(* and sends the UI a snapshot while it answers, one more when it stops    *)
(* answering, and nothing while it stays silent. It does not look at the   *)
(* manager's state.                                                        *)

CONSTANTS
  MaxProcesses, \* bound: server processes that come up one after another
  MaxSnapshots  \* bound: snapshots the UI has not handled

VARIABLES
  process,   \* the server process that listens, 0 for none
  spawned,   \* processes so far
  active,    \* monitor_active
  ticked,    \* the monitor is between its tick and the answer
  prev,      \* prev_reachable
  train,     \* n_ctx_train, as the process it was read from; 0 for None
  snapshots, \* ServerStatus events under way
  shown      \* the UI's server_status

monitorVars == <<process, spawned, active, ticked, prev, train, snapshots, shown>>

Snapshot == [reachable : BOOLEAN, train : 0..MaxProcesses]

MonitorInit ==
  /\ process = 1 /\ spawned = 1   \* bootstrap starts the monitor when it could attach
  /\ active = TRUE /\ ticked = FALSE /\ prev = FALSE /\ train = 0
  /\ snapshots = <<>>
  /\ shown = [reachable |-> FALSE, train |-> 0]

MonitorTypeOK ==
  /\ process \in 0..MaxProcesses /\ spawned \in 1..MaxProcesses
  /\ {active, ticked, prev} \subseteq BOOLEAN
  /\ train \in 0..MaxProcesses
  /\ snapshots \in Seq(Snapshot) /\ Len(snapshots) <= MaxSnapshots
  /\ shown \in Snapshot

ServerStops ==
  /\ process # 0
  /\ process' = 0
  /\ UNCHANGED <<spawned, active, ticked, prev, train, snapshots, shown>>

ServerStarts ==
  /\ process = 0 /\ spawned < MaxProcesses
  /\ process' = spawned + 1 /\ spawned' = spawned + 1
  /\ UNCHANGED <<active, ticked, prev, train, snapshots, shown>>

Tick ==
  /\ active /\ ~ticked
  /\ ticked' = TRUE
  /\ UNCHANGED <<process, spawned, active, prev, train, snapshots, shown>>

SendsVariant(reachable, before) == reachable

\* A snapshot goes out while the server answers and at either edge.
Sends(reachable, before) == reachable \/ before

\* poll_server_status sees the process that listens now; the trained context is
\* fetched until it is known (its request may fail) and then never again.
Poll ==
  /\ ticked /\ active
  /\ Len(snapshots) < MaxSnapshots
  /\ ticked' = FALSE
  /\ LET reachable == process # 0
     IN /\ \/ train' = IF train = 0 THEN process ELSE train
           \/ train' = train
        /\ prev' = reachable
        /\ snapshots' = IF Sends(reachable, prev)
                        THEN Append(snapshots, [reachable |-> reachable, train |-> train'])
                        ELSE snapshots
  /\ UNCHANGED <<process, spawned, active, shown>>

\* stop_status_monitor at the end of the program.
Deactivate ==
  /\ active
  /\ active' = FALSE /\ ticked' = FALSE
  /\ UNCHANGED <<process, spawned, prev, train, snapshots, shown>>

\* handle_event replaces the shared snapshot.
Shown ==
  /\ snapshots # <<>>
  /\ shown' = Head(snapshots)
  /\ snapshots' = Tail(snapshots)
  /\ UNCHANGED <<process, spawned, active, ticked, prev, train>>

MonitorNext == ServerStops \/ ServerStarts \/ Tick \/ Poll \/ Deactivate \/ Shown

MonitorSpec == MonitorInit /\ [][MonitorNext]_monitorVars

-----------------------------------------------------------------------------
\* The indicator shows what the last poll saw, although the monitor is silent
\* while the server stays away: the edge has to be sent.
ShownIsPolled == snapshots = <<>> => shown.reachable = prev

=============================================================================

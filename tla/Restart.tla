------------------------------- MODULE Restart -------------------------------
(***************************************************************************)
(* The restart tool and what follows it: an agent builds and tests the     *)
(* other of the two standard builds and puts a request in its mailbox; the *)
(* loop ends with it, the UI writes a marker file, spawns the binary and   *)
(* closes; the new process consumes the marker and continues the work.     *)
(***************************************************************************)
EXTENDS Naturals, FiniteSets

CONSTANTS Sessions,
          MaxProcesses, \* bound: processes of the program, one after another
          MaxAsks,      \* bound: restarts asked for
          None

VARIABLES
  proc,     \* the processes: their state, binary, selected session and resume
  spawns,   \* processes so far
  ask,      \* the restart asked for in each session of the process that runs
  asks,     \* restarts asked for so far
  marker,   \* the marker file: a session and, as history, the one that asked
  stored,   \* sessions that have a file
  markers,  \* history: markers written
  resumed,  \* history: what was resumed, as the markers that caused it
  ungated   \* history: a request was queued without its build or its test

restartVars == <<proc, spawns, ask, asks, marker, stored, markers, resumed, ungated>>

Builds == {"debug", "relaunch"}
Processes == 1..MaxProcesses
Marker == [session : Sessions \cup {None}, asker : Sessions]
NoProcess == [state |-> "none", exe |-> "debug", selected |-> None, resume |-> None, parent |-> 0]
Idle == [phase |-> "idle", by |-> 0, built |-> FALSE, tested |-> FALSE]

Init ==
  /\ proc = [p \in Processes |-> IF p = 1 THEN [NoProcess EXCEPT !.state = "boots"] ELSE NoProcess]
  /\ spawns = 1
  /\ ask = [s \in Sessions |-> Idle] /\ asks = 0
  /\ marker = None
  /\ stored = Sessions
  /\ markers = 0 /\ resumed = {} /\ ungated = FALSE

Phases == {"idle", "building", "testing", "passed", "queued", "requested"}

TypeOK ==
  /\ \A p \in Processes :
       /\ proc[p].state \in {"none", "boots", "runs", "closes", "gone"}
       /\ proc[p].exe \in Builds /\ proc[p].selected \in Sessions \cup {None}
       /\ proc[p].resume = None \/ proc[p].resume \in Marker
  /\ \A s \in Sessions : ask[s].phase \in Phases
  /\ marker = None \/ marker \in Marker
  /\ spawns \in Processes /\ stored \subseteq Sessions

\* plan_self_restart: the build the running process was not started from.
Other(exe) == CHOOSE b \in Builds : b # exe

-----------------------------------------------------------------------------
\* The tool.

Ask(p, s) ==
  /\ proc[p].state = "runs" /\ s \in stored /\ ask[s].phase = "idle"
  /\ asks < MaxAsks /\ asks' = asks + 1
  /\ ask' = [ask EXCEPT ![s] = [Idle EXCEPT !.phase = "building", !.by = p]]
  /\ UNCHANGED <<proc, spawns, marker, stored, markers, resumed, ungated>>

\* run_command: a build or a test that passes. A test is run only where one is asked.
Passes(s) ==
  /\ \/ /\ ask[s].phase = "building"
        /\ \E test \in BOOLEAN :
             ask' = [ask EXCEPT ![s].phase = IF test THEN "testing" ELSE "passed",
                                ![s].built = TRUE, ![s].tested = ~test]
     \/ /\ ask[s].phase = "testing"
        /\ ask' = [ask EXCEPT ![s].phase = "passed", ![s].tested = TRUE]
  /\ UNCHANGED <<proc, spawns, asks, marker, stored, markers, resumed, ungated>>

FailsVariant(s) ==
  /\ ask[s].phase \in {"building", "testing"}
  /\ ask' = [ask EXCEPT ![s].phase = "passed"]
  /\ UNCHANGED <<proc, spawns, asks, marker, stored, markers, resumed, ungated>>

\* It fails, or runs into its time limit and is killed: no restart.
Fails(s) ==
  /\ ask[s].phase \in {"building", "testing"}
  /\ ask' = [ask EXCEPT ![s] = Idle]
  /\ UNCHANGED <<proc, spawns, asks, marker, stored, markers, resumed, ungated>>

Queue(s) ==
  /\ ask[s].phase = "passed"
  /\ ask' = [ask EXCEPT ![s].phase = "queued"]
  /\ ungated' = (ungated \/ ~(ask[s].built /\ ask[s].tested))
  /\ UNCHANGED <<proc, spawns, asks, marker, stored, markers, resumed>>

\* The loop ends with the request, unless the run was stopped: its mailbox is gone.
LoopEnds(s, stopped) ==
  /\ ask[s].phase = "queued"
  /\ ask' = [ask EXCEPT ![s] = IF stopped THEN Idle ELSE [@ EXCEPT !.phase = "requested"]]
  /\ UNCHANGED <<proc, spawns, asks, marker, stored, markers, resumed, ungated>>

-----------------------------------------------------------------------------
\* The window.

Select(p, s) ==
  /\ proc[p].state = "runs" /\ s \in stored /\ proc[p].selected # s
  /\ proc' = [proc EXCEPT ![p].selected = s]
  /\ UNCHANGED <<spawns, ask, asks, marker, stored, markers, resumed, ungated>>

Delete(p, s) ==
  /\ proc[p].state = "runs" /\ s \in stored /\ ask[s].phase = "idle"
  /\ stored' = stored \ {s}
  /\ proc' = [proc EXCEPT ![p].selected = IF @ = s THEN None ELSE @]
  /\ UNCHANGED <<spawns, ask, asks, marker, markers, resumed, ungated>>

PerformVariant(p, s, works) ==
  /\ proc[p].state \in {"runs", "closes"} /\ ask[s].phase = "requested" /\ ask[s].by = p
  /\ marker' = [session |-> proc[p].selected, asker |-> s]
  /\ markers' = markers + 1
  /\ ask' = [ask EXCEPT ![s] = Idle]
  /\ works => spawns < MaxProcesses
  /\ spawns' = IF works THEN spawns + 1 ELSE spawns
  /\ proc' = [q \in Processes |->
       IF q = p THEN [proc[p] EXCEPT !.state = "closes"]
       ELSE IF works /\ q = spawns + 1
            THEN [NoProcess EXCEPT !.state = "boots", !.parent = p, !.exe = Other(proc[p].exe)]
       ELSE proc[q]]
  /\ UNCHANGED <<asks, stored, resumed, ungated>>

\* perform_restart: the marker names the session that is selected, whoever asked,
\* and is written before the spawn is known to work. A second request in the same
\* frame spawns a second process.
Perform(p, s, works) ==
  /\ proc[p].state \in {"runs", "closes"} /\ ask[s].phase = "requested" /\ ask[s].by = p
  /\ marker' = [session |-> proc[p].selected, asker |-> s]
  /\ markers' = markers + 1
  /\ ask' = [ask EXCEPT ![s] = Idle]
  /\ works => spawns < MaxProcesses
  /\ spawns' = IF works THEN spawns + 1 ELSE spawns
  /\ proc' = [q \in Processes |->
       IF works /\ q = p THEN [proc[p] EXCEPT !.state = "closes"]
       ELSE IF works /\ q = spawns + 1
            THEN [NoProcess EXCEPT !.state = "boots", !.parent = p, !.exe = Other(proc[p].exe)]
       ELSE proc[q]]
  /\ UNCHANGED <<asks, stored, resumed, ungated>>

\* The window closes, for the restart or by the user; the runs end with it.
Close(p) ==
  /\ proc[p].state \in {"runs", "closes"}
  /\ proc' = [proc EXCEPT ![p].state = "gone"]
  /\ ask' = [s \in Sessions |-> IF ask[s].by = p THEN Idle ELSE ask[s]]
  /\ UNCHANGED <<spawns, asks, marker, stored, markers, resumed, ungated>>

UserStarts ==
  /\ \A p \in Processes : proc[p].state \in {"none", "gone"}
  /\ spawns < MaxProcesses
  /\ spawns' = spawns + 1
  /\ proc' = [proc EXCEPT ![spawns + 1] = [NoProcess EXCEPT !.state = "boots"]]
  /\ UNCHANGED <<ask, asks, marker, stored, markers, resumed, ungated>>

-----------------------------------------------------------------------------
\* The new process.

BootVariant(p) ==
  /\ proc[p].state = "boots"
  /\ proc' = [proc EXCEPT ![p] = [@ EXCEPT !.state = "runs",
       !.selected = IF marker # None /\ marker.session \in stored THEN marker.session ELSE None,
       !.resume = IF marker # None /\ marker.session \in stored THEN marker ELSE None]]
  /\ UNCHANGED <<spawns, ask, asks, marker, stored, markers, resumed, ungated>>

\* consume_restart_marker and initial_session_store: the marker is read and
\* deleted, its session loaded if it has a file. Without a marker the session of
\* the configuration is, if any.
Boot(p) ==
  /\ proc[p].state = "boots"
  /\ marker' = None
  /\ \E last \in stored \cup {None} :
       LET wanted == IF marker = None THEN last ELSE marker.session
           loaded == IF wanted \in stored THEN wanted ELSE None
       IN proc' = [proc EXCEPT ![p] = [@ EXCEPT !.state = "runs", !.selected = loaded,
                     !.resume = IF marker # None /\ loaded # None THEN marker ELSE None]]
  /\ UNCHANGED <<spawns, ask, asks, stored, markers, resumed, ungated>>

\* maybe_auto_resume, in a frame in which the selected session is idle.
Resume(p) ==
  /\ proc[p].state = "runs" /\ proc[p].resume # None /\ proc[p].selected # None
  /\ resumed' = resumed \cup {[at |-> p, session |-> proc[p].selected, asker |-> proc[p].resume.asker]}
  /\ proc' = [proc EXCEPT ![p].resume = None]
  /\ UNCHANGED <<spawns, ask, asks, marker, stored, markers, ungated>>

Next ==
  \/ \E p \in Processes : \E s \in Sessions :
       \/ Ask(p, s) \/ Select(p, s) \/ Delete(p, s)
       \/ \E works \in BOOLEAN : Perform(p, s, works)
  \/ \E s \in Sessions :
       Passes(s) \/ Fails(s) \/ Queue(s) \/ \E stopped \in BOOLEAN : LoopEnds(s, stopped)
  \/ \E p \in Processes : Close(p) \/ Boot(p) \/ Resume(p)
  \/ UserStarts

Spec == Init /\ [][Next]_restartVars

-----------------------------------------------------------------------------
\* A marker resumes one process at most (consume_restart_marker): not every start
\* after a restart continues the work.
ResumesOnce ==
  Cardinality(resumed)
    + Cardinality({p \in Processes : proc[p].state = "runs" /\ proc[p].resume # None})
    + (IF marker = None THEN 0 ELSE 1) <= markers

\* A change that does not build or fails its test takes no process down.
OnlyGatedRestarts == ~ungated

\* A window that closes for a restart leaves a process that takes over
\* (perform_restart sets pending_restart when the spawn worked).
SuccessorStarted ==
  \A p \in Processes :
    proc[p].state = "closes" => \E q \in Processes : proc[q].parent = p

\* The copy that is built and launched is never the one that runs (plan_self_restart).
NotRelinked ==
  \A p, q \in Processes : proc[q].parent = p => proc[q].exe # proc[p].exe

RestartSound == TypeOK /\ ResumesOnce /\ OnlyGatedRestarts /\ SuccessorStarted /\ NotRelinked

\* "WuffAgent will now restart and resume this session", the tool tells the model.
ResumesAsker == \A r \in resumed : r.session = r.asker

=============================================================================

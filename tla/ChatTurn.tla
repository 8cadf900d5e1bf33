------------------------------- MODULE ChatTurn -------------------------------
(***************************************************************************)
(* One chat session of WuffAgent: the UI frame loop                        *)
(* (wuffagent-egui/src/ui/{window,input/mod,event_handler}), the           *)
(* ChatPipeline that owns the running task                                 *)
(* (wuffagent-core/src/agents/chat_pipeline.rs), the task itself           *)
(* (AgentEngine::execute_with_tools and the agent loop, at the grain of    *)
(* what the session can observe) and the AppEvent channel between them.    *)
(*                                                                         *)
(* Every run is started by one user message, so a run is named by it.      *)
(* The UI thread and the runs interleave at every lock, send and await.    *)
(* A frame of the UI takes ALL pending events into a local batch, handles  *)
(* them, runs the host commands, sweeps, and then reads the user's input:  *)
(* whatever a run does after the batch was taken is only seen next frame.  *)
(***************************************************************************)
EXTENDS Sequences, FiniteSets, Functions, Naturals

CONSTANTS Messages,   \* user messages
          Typed,      \* those the user may type
          Hosted,     \* those a plugin may send through the host bridge
          Returned, \* those a sub-session may hand back
          NoRun,      \* the pipeline owns no task
          WithStop,   \* whether the user presses Stop
          WithPanic   \* whether a run may die without reporting

ASSUME NoRunAssumption == NoRun \notin Messages
ASSUME SourceAssumption == Typed \cup Hosted \cup Returned \subseteq Messages
ASSUME SwitchAssumption == WithStop \in BOOLEAN /\ WithPanic \in BOOLEAN

VARIABLES
  gen,      \* chat_state.is_generating
  queued,   \* chat_state.queued_messages
  frame,    \* where the UI thread is in its frame
  batch,    \* the events process_pending_events took this frame
  events,   \* the AppEvent channel
  handle,   \* RunState.handle: the run the pipeline owns
  phase,    \* where each run's task is
  aborted,  \* runs whose token was cancelled and whose task was aborted
  result,   \* what Agent::execute returned, once it has
  channel,  \* the injection channel of each run
  store,    \* the user messages recorded in the conversation, in order
  used      \* messages that entered the system

uiVars  == <<gen, queued, frame, batch>>
runVars == <<phase, aborted, result>>
vars    == <<gen, queued, frame, batch, events, handle, phase, aborted,
             result, channel, store, used>>

Frames  == {"poll", "handle", "host", "sweep", "input"}
Phases  == {"none", "spawned", "round", "llm", "verify", "drain", "post", "done"}
Results == {"none", "ok", "error", "cancelled"}

\* The AppEvents that steer the turn. The code's terminal events carry the
\* session only; `run` records which run sent one and no handler reads it.
Terminal(kind, r) == [kind |-> kind, run |-> r]
Drained(m)        == [kind |-> "drained", msg |-> m]
HandBack(m)       == [kind |-> "handback", msg |-> m]

TerminalEvents == [kind : {"complete", "error", "cancelled"}, run : Messages]
MessageEvents  == [kind : {"drained", "handback"}, msg : Messages]
Events         == TerminalEvents \cup MessageEvents

Live(r) == phase[r] \notin {"none", "done"}

\* Wrong variant: a finished task still counts as running.
TaskDoneIgnoresFinish == handle = NoRun

\* ChatPipeline::task_done
TaskDone == handle = NoRun \/ phase[handle] = "done"

Fresh(m) == m \notin used

Init ==
  /\ gen = FALSE
  /\ queued = <<>>
  /\ frame = "poll"
  /\ batch = <<>>
  /\ events = <<>>
  /\ handle = NoRun
  /\ phase = [r \in Messages |-> "none"]
  /\ aborted = [r \in Messages |-> FALSE]
  /\ result = [r \in Messages |-> "none"]
  /\ channel = [r \in Messages |-> <<>>]
  /\ store = <<>>
  /\ used = {}

-------------------------------------------------------------------------------
(* ChatPipeline: cancel, start, inject *)

\* Wrong variants: cancel drops what was injected; it sends it unwrapped.
HandedBackLost == <<>>
HandedBackRaw == IF handle = NoRun THEN <<>> ELSE channel[handle]

\* What cancel() hands back: the messages injected into the owned run and not
\* yet taken by it, in order, as UserMessageDrained events.
HandedBack ==
  IF handle = NoRun THEN <<>>
  ELSE [i \in DOMAIN channel[handle] |-> Drained(channel[handle][i])]

\* Wrong variants: cancel leaves the task running; it leaves the channel.
CancelKeepsTask ==
  /\ events' = events \o HandedBack
  /\ channel' = [r \in Messages |-> IF r = handle THEN <<>> ELSE channel[r]]
  /\ UNCHANGED aborted
CancelKeepsChannel ==
  /\ aborted' = [r \in Messages |-> r = handle \/ aborted[r]]
  /\ UNCHANGED <<events, channel>>

\* ChatPipeline::cancel on the pipeline that owns `handle`
Cancel ==
  /\ events' = events \o HandedBack
  /\ aborted' = [r \in Messages |-> r = handle \/ aborted[r]]
  /\ channel' = [r \in Messages |-> IF r = handle THEN <<>> ELSE channel[r]]

\* start_pipeline_for_session: cancel the owned run, then a new pipeline
\* spawns the task for m with a channel of its own.
StartPipeline(m) ==
  /\ gen' = TRUE
  /\ Cancel
  /\ handle' = m
  /\ phase' = [phase EXCEPT ![m] = "spawned"]
  /\ UNCHANGED result

\* Wrong variant: the message started is left in the queue.
DrainNextQueuedKeeps ==
  \/ /\ queued # <<>>
     /\ UNCHANGED queued
     /\ StartPipeline(Head(queued))
  \/ /\ queued = <<>>
     /\ gen' = FALSE
     /\ UNCHANGED <<queued, events, handle, channel, runVars>>

\* drain_next_queued_message: start the oldest queued message, if any.
DrainNextQueued ==
  \/ /\ queued # <<>>
     /\ queued' = Tail(queued)
     /\ StartPipeline(Head(queued))
  \/ /\ queued = <<>>
     /\ gen' = FALSE
     /\ UNCHANGED <<queued, events, handle, channel, runVars>>

\* What a message does when it reaches an idle or a generating session: the
\* UserMessageDrained and AgentHandBack arms of handle_event.
QueueOrStart(m) ==
  \/ /\ gen
     /\ queued' = Append(queued, m)
     /\ UNCHANGED <<gen, events, handle, channel, runVars>>
  \/ /\ ~gen
     /\ StartPipeline(m)
     /\ UNCHANGED queued

-------------------------------------------------------------------------------
(* The UI frame *)

\* process_pending_events takes everything the channel holds.
TakeBatch ==
  /\ frame = "poll"
  /\ frame' = "handle"
  /\ batch' = events
  /\ events' = <<>>
  /\ UNCHANGED <<gen, queued, handle, channel, store, used, runVars>>

\* Wrong variant: the end of a run leaves the queue alone.
HandleTerminalNoDrain ==
  /\ Head(batch).kind \in {"complete", "error"}
  /\ gen' = FALSE
  /\ UNCHANGED <<queued, events, handle, channel, runVars>>

\* handle_stream_complete, and handle_stream_error for a failed run: the
\* generating state is cleared and the queue flows.
HandleTerminal ==
  /\ Head(batch).kind \in {"complete", "error"}
  /\ DrainNextQueued

\* handle_stream_error for "Cancelled": the queue is left alone.
HandleCancelled ==
  /\ Head(batch).kind = "cancelled"
  /\ gen' = FALSE
  /\ UNCHANGED <<queued, events, handle, channel, runVars>>

\* The UserMessageDrained and AgentHandBack arms.
HandleMessage ==
  /\ Head(batch).kind \in {"drained", "handback"}
  /\ QueueOrStart(Head(batch).msg)

HandleEvent ==
  /\ frame = "handle"
  /\ batch # <<>>
  /\ batch' = Tail(batch)
  /\ HandleTerminal \/ HandleCancelled \/ HandleMessage
  /\ UNCHANGED <<frame, store, used>>

EndEvents ==
  /\ frame = "handle"
  /\ batch = <<>>
  /\ frame' = "host"
  /\ UNCHANGED <<gen, queued, batch, events, handle, channel, store, used, runVars>>

\* host_inject starts the plugin's message whether or not a run is live.
HostInject(m) ==
  /\ frame = "host"
  /\ Fresh(m)
  /\ used' = used \cup {m}
  /\ StartPipeline(m)
  /\ UNCHANGED <<queued, frame, batch, store>>

EndHost ==
  /\ frame = "host"
  /\ frame' = "sweep"
  /\ UNCHANGED <<gen, queued, batch, events, handle, channel, store, used, runVars>>

\* sweep_finished_pipelines
SweepStuck ==
  /\ frame = "sweep"
  /\ gen /\ TaskDone
  /\ DrainNextQueued
  /\ frame' = "input"
  /\ UNCHANGED <<batch, store, used>>

SweepNothing ==
  /\ frame = "sweep"
  /\ ~(gen /\ TaskDone)
  /\ frame' = "input"
  /\ UNCHANGED <<gen, queued, batch, events, handle, channel, store, used, runVars>>

\* send_message_to_session on an idle session
SendIdle(m) ==
  /\ frame = "input"
  /\ ~gen
  /\ Fresh(m)
  /\ used' = used \cup {m}
  /\ StartPipeline(m)
  /\ frame' = "poll"
  /\ UNCHANGED <<queued, batch, store>>

\* inject_or_queue: the pipeline keeps the receiver of the run it owns, so the
\* send fails only when it owns none.
SendBusy(m) ==
  /\ frame = "input"
  /\ gen
  /\ Fresh(m)
  /\ used' = used \cup {m}
  /\ \/ /\ handle # NoRun
        /\ channel' = [channel EXCEPT ![handle] = Append(@, m)]
        /\ UNCHANGED queued
     \/ /\ handle = NoRun
        /\ queued' = Append(queued, m)
        /\ UNCHANGED channel
  /\ frame' = "poll"
  /\ UNCHANGED <<gen, batch, events, handle, store, runVars>>

\* stop_generation
Stop ==
  /\ WithStop
  /\ frame = "input"
  /\ gen
  /\ gen' = FALSE
  /\ Cancel
  /\ handle' = NoRun
  /\ frame' = "poll"
  /\ UNCHANGED <<queued, batch, phase, result, store, used>>

EndFrame ==
  /\ frame = "input"
  /\ frame' = "poll"
  /\ UNCHANGED <<gen, queued, batch, events, handle, channel, store, used, runVars>>

\* A sub-session of this one ended with hand_back: its AgentHandBack event
\* reaches the shared channel at any moment.
HandBackArrives(m) ==
  /\ Fresh(m)
  /\ used' = used \cup {m}
  /\ events' = Append(events, HandBack(m))
  /\ UNCHANGED <<gen, queued, frame, batch, handle, channel, store, runVars>>

-------------------------------------------------------------------------------
(* The run's task *)

\* Wrong variant: the token is not looked at before the turn is recorded.
BeginUnchecked(r) ==
  /\ phase[r] = "spawned"
  /\ phase' = [phase EXCEPT ![r] = "round"]
  /\ store' = Append(store, r)
  /\ UNCHANGED <<aborted, result, events, handle, channel, used, uiVars>>

\* The first poll of the task: execute_with_tools sees a live token and
\* Agent::execute records the user turn.
Begin(r) ==
  /\ phase[r] = "spawned"
  /\ ~aborted[r]
  /\ phase' = [phase EXCEPT ![r] = "round"]
  /\ store' = Append(store, r)
  /\ UNCHANGED <<aborted, result, events, handle, channel, used, uiVars>>

\* The task was polled between token.cancel() and handle.abort(): the entry
\* check of execute_with_tools returns Err("Cancelled").
Refuse(r) ==
  /\ phase[r] = "spawned"
  /\ aborted[r]
  /\ phase' = [phase EXCEPT ![r] = "done"]
  /\ result' = [result EXCEPT ![r] = "cancelled"]
  /\ events' = Append(events, Terminal("cancelled", r))
  /\ UNCHANGED <<aborted, handle, channel, store, used, uiVars>>

\* Wrong variant: the injected messages are read but not taken.
RoundPeeks(r) ==
  /\ phase[r] = "round"
  /\ phase' = [phase EXCEPT ![r] = "llm"]
  /\ store' = store \o channel[r]
  /\ UNCHANGED <<aborted, result, events, handle, channel, used, uiVars>>

\* Top of run_llm_loop: drain_injections records what was injected, then the
\* request goes out.
Round(r) ==
  /\ phase[r] = "round"
  /\ phase' = [phase EXCEPT ![r] = "llm"]
  /\ store' = store \o channel[r]
  /\ channel' = [channel EXCEPT ![r] = <<>>]
  /\ UNCHANGED <<aborted, result, events, handle, used, uiVars>>

\* The tools of the last round asked for a sub-session handoff or a hand-back:
\* the loop ends at its top, after the drain, and execute completes the turn.
ControlEnds(r) ==
  /\ phase[r] = "round"
  /\ ~aborted[r]
  /\ phase' = [phase EXCEPT ![r] = "drain"]
  /\ result' = [result EXCEPT ![r] = "ok"]
  /\ store' = store \o channel[r]
  /\ channel' = [channel EXCEPT ![r] = <<>>]
  /\ events' = Append(events, Terminal("complete", r))
  /\ UNCHANGED <<aborted, handle, used, uiVars>>

\* The cancel check at the loop top, or Error::Cancelled from the stream.
CancelSeen(r) ==
  /\ phase[r] \in {"round", "llm"}
  /\ aborted[r]
  /\ phase' = [phase EXCEPT ![r] = "drain"]
  /\ result' = [result EXCEPT ![r] = "cancelled"]
  /\ UNCHANGED <<aborted, events, handle, channel, store, used, uiVars>>

\* The answer called tools: they ran and the next round begins.
ToolRound(r) ==
  /\ phase[r] = "llm"
  /\ ~aborted[r]
  /\ phase' = [phase EXCEPT ![r] = "round"]
  /\ UNCHANGED <<aborted, result, events, handle, channel, store, used, uiVars>>

\* A final answer: verify_or_complete awaits the judge.
Answer(r) ==
  /\ phase[r] = "llm"
  /\ ~aborted[r]
  /\ phase' = [phase EXCEPT ![r] = "verify"]
  /\ UNCHANGED <<aborted, result, events, handle, channel, store, used, uiVars>>

\* NEEDS_FIX: the nudge starts another round.
Nudge(r) ==
  /\ phase[r] = "verify"
  /\ ~aborted[r]
  /\ phase' = [phase EXCEPT ![r] = "round"]
  /\ UNCHANGED <<aborted, result, events, handle, channel, store, used, uiVars>>

\* The answer is accepted. A judge call that errs, a cancelled one included,
\* accepts it too.
Complete(r) ==
  /\ phase[r] = "verify"
  /\ phase' = [phase EXCEPT ![r] = "drain"]
  /\ result' = [result EXCEPT ![r] = "ok"]
  /\ events' = Append(events, Terminal("complete", r))
  /\ UNCHANGED <<aborted, handle, channel, store, used, uiVars>>

\* The LLM call failed.
Fail(r) ==
  /\ phase[r] = "llm"
  /\ ~aborted[r]
  /\ phase' = [phase EXCEPT ![r] = "drain"]
  /\ result' = [result EXCEPT ![r] = "error"]
  /\ UNCHANGED <<aborted, events, handle, channel, store, used, uiVars>>

\* execute_with_tools hands back what arrived after the last round.
DrainOne(r) ==
  /\ phase[r] = "drain"
  /\ channel[r] # <<>>
  /\ events' = Append(events, Drained(Head(channel[r])))
  /\ channel' = [channel EXCEPT ![r] = Tail(@)]
  /\ UNCHANGED <<handle, store, used, runVars, uiVars>>

DrainEnd(r) ==
  /\ phase[r] = "drain"
  /\ channel[r] = <<>>
  /\ phase' = [phase EXCEPT ![r] = "post"]
  /\ UNCHANGED <<aborted, result, events, handle, channel, store, used, uiVars>>

\* post_task_maintenance returned; a failure is surfaced as StreamError.
Finish(r) ==
  /\ phase[r] = "post"
  /\ phase' = [phase EXCEPT ![r] = "done"]
  /\ events' = IF result[r] = "ok" THEN events
               ELSE Append(events, Terminal(result[r], r))
  /\ UNCHANGED <<aborted, result, handle, channel, store, used, uiVars>>

\* The abort lands at an await point: the task is dropped and says nothing.
Dropped(r) ==
  /\ phase[r] \in {"spawned", "llm", "verify", "post"}
  /\ aborted[r]
  /\ phase' = [phase EXCEPT ![r] = "done"]
  /\ UNCHANGED <<aborted, result, events, handle, channel, store, used, uiVars>>

\* The task panics.
Panic(r) ==
  /\ WithPanic
  /\ phase[r] = "llm"
  /\ ~aborted[r]
  /\ phase' = [phase EXCEPT ![r] = "done"]
  /\ UNCHANGED <<aborted, result, events, handle, channel, store, used, uiVars>>

-------------------------------------------------------------------------------
FrameStep == TakeBatch \/ HandleEvent \/ EndEvents \/ EndHost
             \/ SweepStuck \/ SweepNothing \/ EndFrame

UserStep ==
  \/ Stop
  \/ \E m \in Typed : SendIdle(m) \/ SendBusy(m)
  \/ \E m \in Hosted : HostInject(m)
  \/ \E m \in Returned : HandBackArrives(m)

RunStep(r) ==
  \/ Begin(r) \/ Refuse(r) \/ Round(r) \/ ControlEnds(r) \/ CancelSeen(r)
  \/ ToolRound(r) \/ Answer(r) \/ Nudge(r) \/ Complete(r) \/ Fail(r)
  \/ DrainOne(r) \/ DrainEnd(r) \/ Finish(r) \/ Dropped(r) \/ Panic(r)

Next == FrameStep \/ UserStep \/ \E r \in Messages : RunStep(r)

Spec == Init /\ [][Next]_vars

\* Frames: a frame once begun runs to its end, and while the session is
\* generating the UI requests a repaint after each one (ChatApp::ui). An idle UI
\* sleeps until the next input event.
RestOfFrame == HandleEvent \/ EndEvents \/ EndHost \/ SweepStuck \/ SweepNothing \/ EndFrame

FrameFairness == WF_vars(gen /\ TakeBatch) /\ WF_vars(RestOfFrame)

\* Runs: the runtime polls every task that can advance, calls to the model
\* return (the client has timeouts), and the model does not call tools or
\* fail its verification forever.
Advances(r) ==
  Begin(r) \/ Refuse(r) \/ Round(r) \/ CancelSeen(r) \/ DrainOne(r) \/ DrainEnd(r)
    \/ Finish(r) \/ Dropped(r)

RunFairness(r) == WF_vars(Advances(r)) /\ SF_vars(Answer(r)) /\ SF_vars(Complete(r))

FairSpec == Spec /\ FrameFairness /\ \A r \in Messages : RunFairness(r)

\* The same with input events that keep coming (the pointer moves, a plugin
\* sends commands), so that an idle UI takes frames too.
AwakeSpec == FairSpec /\ WF_vars(TakeBatch)

-------------------------------------------------------------------------------
(* Properties *)

Types ==
  /\ gen \in BOOLEAN
  /\ queued \in Seq(Messages)
  /\ frame \in Frames
  /\ batch \in Seq(Events)
  /\ events \in Seq(Events)
  /\ handle \in Messages \cup {NoRun}
  /\ phase \in [Messages -> Phases]
  /\ aborted \in [Messages -> BOOLEAN]
  /\ result \in [Messages -> Results]
  /\ channel \in [Messages -> Seq(Messages)]
  /\ store \in Seq(Messages)
  /\ used \subseteq Messages

ResultKnown == \A r \in Messages : phase[r] \in {"drain", "post"} => result[r] # "none"

\* The session's state is well formed: events are AppEvents, a channel holds
\* messages, and a run that left its loop knows how it ended, so that the
\* StreamError it may send names a failure.
TypeOK == Types /\ ResultKnown

\* At most one run that was not aborted is working on the session, and it is
\* the one the pipeline owns: two such runs would write one conversation.
SingleLiveRun == \A r \in Messages : Live(r) /\ ~aborted[r] => r = handle

\* Only the owned run's injection channel holds messages: what was injected
\* into a run that was replaced or stopped has been handed back.
OnlyOwnedChannel == \A r \in Messages : channel[r] # <<>> => r = handle

\* The places of a message: each position where it waits, the run it started
\* while that run has not recorded it, each position in the conversation.
PlacesOf(m) ==
  {<<"queued", i>> : i \in {j \in DOMAIN queued : queued[j] = m}}
    \cup {<<"batch", i>> : i \in {j \in DOMAIN batch :
                 batch[j] \in MessageEvents /\ batch[j].msg = m}}
    \cup {<<"events", i>> : i \in {j \in DOMAIN events :
                 events[j] \in MessageEvents /\ events[j].msg = m}}
    \cup (UNION {{<<r, i>> : i \in {j \in DOMAIN channel[r] : channel[r][j] = m}} :
                  r \in Messages})
    \cup {<<"store", i>> : i \in {j \in DOMAIN store : store[j] = m}}
    \cup {<<"started", 0>> : x \in {y \in {m} : phase[m] # "none" /\ m \notin Range(store)}}

\* A message that entered the session is in exactly one place for ever: it is
\* never lost between the input box, the channels, the queue and the
\* conversation, and never delivered twice. (The place of a message whose run
\* was aborted before its first poll stays "started".)
MessageConserved ==
  \A m \in Messages : Cardinality(PlacesOf(m)) = IF m \in used THEN 1 ELSE 0

\* Only the owned run records in the conversation: nothing an aborted run
\* still does after cancel() reaches the shared store.
OnlyOwnedRunRecords ==
  [][store' # store => /\ handle # NoRun
                       /\ store' \in {Append(store, handle), store \o channel[handle]}]_vars

\* A message starts at most one run.
StartsOnce ==
  [][\A m \in Messages : phase'[m] = "spawned" => phase[m] \in {"none", "spawned"}]_vars

\* The spinner stops: a session that is generating gets out of it, whatever
\* becomes of the run's terminal event.
SpinnerStops == gen ~> ~gen

\* A queued message gets its turn (when the user never presses Stop, which
\* leaves the queue alone on purpose, and no run dies without reporting).
QueueFlows == \A m \in Messages : (m \in Range(queued)) ~> (phase[m] # "none")

\* ChatPipeline::inject's comment: an accepted message is picked up by the run
\* or, if the run ends before that, handed back to the UI.
InjectedIsAnswered ==
  \A m \in Messages : (\E r \in Messages : m \in Range(channel[r]))
                         ~> (\A r \in Messages : m \notin Range(channel[r]))

\* The comment on the sweep: a session still generating whose task is done has
\* lost its terminal event.
SweepMeansLostEvent ==
  frame = "sweep" /\ gen /\ TaskDone
    => \A i \in DOMAIN events : events[i] \in TerminalEvents => events[i].run # handle

\* The session keeps the promise of MessageDelivery: used, store and the
\* messages whose run ended without recording them implement it.
Promise == INSTANCE MessageDelivery WITH
             accepted <- used,
             log <- store,
             dropped <- {m \in Messages : phase[m] = "done" /\ m \notin Range(store)}

DeliversAsPromised == Promise!Spec

\* For TLC's safety runs: messages are interchangeable, no action tells one from another.
LOCAL INSTANCE TLC
MessageSymmetry == Permutations(Messages)

===============================================================================

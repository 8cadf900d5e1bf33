------------------------------- MODULE ToolRuns -------------------------------
(***************************************************************************)
(* The tool calls of one agent run: run_llm_loop's streaming rounds        *)
(* (wuffagent-core/src/agents/agent/loop.rs), PendingToolRuns that starts  *)
(* a call in the background while the model still streams (tool_exec.rs),  *)
(* the collection of the results in call order (tool_calls.rs), the        *)
(* registry of per-call cancel tokens the card's Stop button addresses     *)
(* (tools/cancel.rs) and the blocking thread each tool runs on.            *)
(*                                                                         *)
(* A call is named by its round and its position in it (a slot), since     *)
(* models and the text parser (ids "call_0", "call_1" in every round)      *)
(* reuse ids. A tokio task is abstracted to its polls: a poll is one step, *)
(* so abort() of a task that is not finished drops it at once.             *)
(***************************************************************************)
EXTENDS Sequences, FiniteSets, Naturals

CONSTANTS Ids,       \* non-empty call ids
          NoId,      \* the empty id
          None,      \* no slot
          MaxRounds, \* bound on the rounds of the run
          MaxCalls   \* bound on the calls of a round

ASSUME IdAssumption == NoId \notin Ids
ASSUME BoundAssumption == MaxRounds \in Nat \ {0} /\ MaxCalls \in Nat \ {0}
ASSUME NoneAssumption == None \notin (1..MaxRounds) \X (1..MaxCalls)

VARIABLES
  pc,        \* where run_llm_loop is
  round,     \* the round of the run
  attempt,   \* the attempt of its request
  outcome,   \* how the run ended
  text,      \* the calls of the round are embedded in its text
  calls,     \* the calls of each round, in order
  pos,       \* the call pass 2 is at
  handle,    \* the task pass 2 is awaiting
  map,       \* PendingToolRuns.map
  task,      \* the tokio task (or inline future) of each call
  body,      \* the tool itself, on its blocking thread
  result,    \* what execute_tool_call returned
  registry,  \* CancelRegistry.tokens: the call whose token each id holds
  cancelled, \* calls whose own token is cancelled
  stopped,   \* the run's token is cancelled
  asked,     \* calls the user stopped while they were in flight
  stored     \* the shapes of the arguments recorded in the conversation

loopVars  == <<pc, round, attempt, outcome, text, calls, pos, handle>>
taskVars  == <<task, body, result>>
tokenVars == <<registry, cancelled>>
userVars  == <<stopped, asked>>
vars == <<pc, round, attempt, outcome, text, calls, pos, handle, map, task, body,
          result, registry, cancelled, stopped, asked, stored>>

Slots == (1..MaxRounds) \X (1..MaxCalls)

\* Arguments: a JSON object; balanced braces that are no JSON; cut mid-argument.
Shapes == {"complete", "malformed", "cut"}
Calls  == [id : Ids \cup {NoId}, args : Shapes]

CallOf(c) == calls[c[1]][c[2]]
Streamed  == calls[round]
Cur       == <<round, pos>>
InFlight(c) == task[c] \in {"queued", "running"}

\* Wrong variant: the token of a call is no child of the run's token.
CancelledAlone(c) == cancelled[c]

\* The token of a call is a child of the run's. An inline call is given the
\* run's token itself; nothing registers it, so its own is never cancelled.
Cancelled(c) == cancelled[c] \/ stopped

Init ==
  /\ pc = "stream"
  /\ round = 1
  /\ attempt = 1
  /\ outcome = "none"
  /\ text = FALSE
  /\ calls = [r \in 1..MaxRounds |-> <<>>]
  /\ pos = 1
  /\ handle = None
  /\ map = [id \in Ids |-> None]
  /\ task = [c \in Slots |-> "none"]
  /\ body = [c \in Slots |-> "none"]
  /\ result = [c \in Slots |-> "none"]
  /\ registry = [id \in Ids |-> None]
  /\ cancelled = [c \in Slots |-> FALSE]
  /\ stopped = FALSE
  /\ asked = {}
  /\ stored = {}

-------------------------------------------------------------------------------
(* PendingToolRuns *)

\* What inserting the calls S in order makes of a map from ids to calls.
Inserted(S, f) ==
  [id \in Ids |->
     LET mine == {c \in S : CallOf(c).id = id}
     IN  IF mine = {} THEN f[id] ELSE CHOOSE c \in mine : \A d \in mine : d[2] <= c[2]]

\* Wrong variant: register keeps a token the id already has.
RegisterKeeps(S) ==
  registry' = [id \in Ids |-> IF registry[id] = None THEN Inserted(S, registry)[id]
                              ELSE registry[id]]

\* CancelRegistry::register: a fresh token replaces the one the id had.
Register(S) == registry' = Inserted(S, registry)

\* Wrong variant: start does not look for the id in the map.
StartableAgain(c) == CallOf(c).id # NoId

\* The early returns of PendingToolRuns::start.
Startable(c) == CallOf(c).id # NoId /\ map[CallOf(c).id] = None

\* PendingToolRuns::start of the calls S, one after the other.
Start(S) ==
  /\ task' = [c \in Slots |-> IF c \in S THEN "queued" ELSE task[c]]
  /\ map' = Inserted(S, map)
  /\ Register(S)

\* Wrong variant: nothing is aborted.
AbortNothing == UNCHANGED <<task, cancelled>>

\* PendingToolRuns::abort_all
AbortAll ==
  /\ task' = [c \in Slots |->
       IF InFlight(c) /\ \E id \in Ids : map[id] = c THEN "dropped" ELSE task[c]]
  /\ cancelled' = [c \in Slots |-> cancelled[c] \/ \E id \in Ids : registry[id] = c]

\* CancelRegistry::deregister, by id, whosever token the id holds by then. An
\* inline call has nothing to deregister.
Deregister(c) ==
  registry' = IF CallOf(c).id = NoId \/ (pc = "inline" /\ c = Cur) THEN registry
              ELSE [registry EXCEPT ![CallOf(c).id] = None]

-------------------------------------------------------------------------------
(* The stream of a round *)

\* fire_tool_ready_if_complete: the call the stream moves past is reported when
\* its braces balance.
Ready(i) == Streamed[i].args # "cut" /\ Startable(<<round, i>>)
LastReady == {<<round, i>> : i \in {j \in {Len(Streamed)} : j # 0 /\ Ready(j)}}

\* A delta for a new call: the one before it is complete, and starts.
StreamCall(call) ==
  /\ pc = "stream"
  /\ Len(Streamed) < MaxCalls
  /\ \A i \in DOMAIN Streamed : Streamed[i].id # call.id
  /\ Start(LastReady)
  /\ calls' = [calls EXCEPT ![round] = Append(@, call)]
  /\ UNCHANGED <<pc, round, attempt, outcome, text, pos, handle, body, result,
                 cancelled, userVars, stored>>

\* A text or reasoning delta moves the stream past the last call.
MovePast ==
  /\ pc = "stream"
  /\ LastReady # {}
  /\ Start(LastReady)
  /\ UNCHANGED <<loopVars, body, result, cancelled, userVars, stored>>

\* The stream ends with native calls. The assistant turn is recorded with the
\* arguments of truncated calls repaired to {}.
StreamEnds ==
  /\ pc = "stream"
  /\ Streamed # <<>>
  /\ pc' = "start"
  /\ text' = FALSE
  /\ stored' = stored \cup {"complete"}
  /\ UNCHANGED <<round, attempt, outcome, calls, pos, handle, map, taskVars,
                 tokenVars, userVars>>

\* The stream ends with calls embedded in its text: any ids, repeated or empty,
\* and argument strings the model wrote.
StreamEndsText(embedded) ==
  /\ pc = "stream"
  /\ Streamed = <<>>
  /\ pc' = "start"
  /\ text' = TRUE
  /\ calls' = [calls EXCEPT ![round] = embedded]
  /\ UNCHANGED <<round, attempt, outcome, pos, handle, map, taskVars, tokenVars,
                 userVars, stored>>

\* A final answer.
Answer ==
  /\ pc = "stream"
  /\ Streamed = <<>>
  /\ pc' = "ended"
  /\ outcome' = "answered"
  /\ UNCHANGED <<round, attempt, text, calls, pos, handle, map, taskVars,
                 tokenVars, userVars, stored>>

\* The server rejects the first request as over-context, before it streams:
\* trim, abort_all, clear, and try once more.
Overflow ==
  /\ pc = "stream"
  /\ attempt = 1
  /\ Streamed = <<>>
  /\ attempt' = 2
  /\ AbortAll
  /\ map' = [id \in Ids |-> None]
  /\ UNCHANGED <<pc, round, outcome, text, calls, pos, handle, body, result,
                 registry, userVars, stored>>

\* Any other failure of the first request ends the run as it stands.
FirstFails ==
  /\ pc = "stream"
  /\ attempt = 1
  /\ pc' = "ended"
  /\ outcome' = "first_failed"
  /\ UNCHANGED <<round, attempt, text, calls, pos, handle, map, taskVars,
                 tokenVars, userVars, stored>>

RetryFails ==
  /\ pc = "stream"
  /\ attempt = 2
  /\ pc' = "ended"
  /\ outcome' = "retry_failed"
  /\ AbortAll
  /\ UNCHANGED <<round, attempt, text, calls, pos, handle, map, body, result,
                 registry, userVars, stored>>

\* Error::Cancelled from the stream.
StreamStopped ==
  /\ pc = "stream"
  /\ stopped
  /\ pc' = "ended"
  /\ outcome' = "cancelled"
  /\ AbortAll
  /\ UNCHANGED <<round, attempt, text, calls, pos, handle, map, body, result,
                 registry, userVars, stored>>

-------------------------------------------------------------------------------
(* run_native_tool_calls and run_text_embedded_calls *)

Truncated(i) == ~text /\ Streamed[i].args # "complete"

\* Wrong variant: a repeated id is started again.
StartRestRepeats ==
  /\ pc = "start"
  /\ pc' = "collect"
  /\ pos' = 1
  /\ Start({<<round, i>> : i \in {j \in DOMAIN Streamed :
                                   ~Truncated(j) /\ Startable(<<round, j>>)}})
  /\ UNCHANGED <<round, attempt, outcome, text, calls, handle, body, result,
                 cancelled, userVars, stored>>

\* Pass 1: start what is not running yet; of calls that share an id, the first.
StartRest ==
  /\ pc = "start"
  /\ pc' = "collect"
  /\ pos' = 1
  /\ Start({<<round, i>> : i \in {j \in DOMAIN Streamed :
        /\ ~Truncated(j)
        /\ Startable(<<round, j>>)
        /\ \A k \in 1..(j - 1) : Streamed[k].id # Streamed[j].id}})
  /\ UNCHANGED <<round, attempt, outcome, text, calls, handle, body, result,
                 cancelled, userVars, stored>>

\* Pass 2, the cancel check before each call.
CollectStopped ==
  /\ pc = "collect"
  /\ pos <= Len(Streamed)
  /\ stopped
  /\ pc' = "ended"
  /\ outcome' = "cancelled"
  /\ AbortAll
  /\ UNCHANGED <<round, attempt, text, calls, pos, handle, map, body, result,
                 registry, userVars, stored>>

\* The handle pass 2 takes for the call it is at.
Taken == IF Streamed[pos].id = NoId THEN None ELSE map[Streamed[pos].id]

Collecting == pc = "collect" /\ pos <= Len(Streamed) /\ ~stopped

\* A truncated call is reported; a run it may have is aborted.
CollectTruncated ==
  /\ Collecting
  /\ Truncated(pos)
  /\ map' = [id \in Ids |-> IF id = Streamed[pos].id THEN None ELSE map[id]]
  /\ task' = [c \in Slots |-> IF c = Taken /\ InFlight(c) THEN "dropped" ELSE task[c]]
  /\ result' = [result EXCEPT ![Cur] = "truncated"]
  /\ pos' = pos + 1
  /\ UNCHANGED <<pc, round, attempt, outcome, text, calls, handle, body,
                 tokenVars, userVars, stored>>

\* Wrong variant: the handle is dropped with the map's entry.
CollectTakeForgets ==
  /\ Collecting
  /\ ~Truncated(pos)
  /\ Taken # None
  /\ pc' = "await"
  /\ map' = [map EXCEPT ![Streamed[pos].id] = None]
  /\ UNCHANGED <<round, attempt, outcome, text, calls, pos, handle, taskVars,
                 tokenVars, userVars, stored>>

\* The call's own task is taken out of the map and awaited.
CollectTake ==
  /\ Collecting
  /\ ~Truncated(pos)
  /\ Taken # None
  /\ pc' = "await"
  /\ handle' = Taken
  /\ map' = [map EXCEPT ![Streamed[pos].id] = None]
  /\ UNCHANGED <<round, attempt, outcome, text, calls, pos, taskVars, tokenVars,
                 userVars, stored>>

\* Empty or repeated id: the call runs inline, under the run's token.
CollectInline ==
  /\ Collecting
  /\ ~Truncated(pos)
  /\ Taken = None
  /\ pc' = "inline"
  /\ handle' = Cur
  /\ task' = [task EXCEPT ![Cur] = "queued"]
  /\ UNCHANGED <<round, attempt, outcome, text, calls, pos, map, body, result,
                 tokenVars, userVars, stored>>

\* The awaited call is over: its result is recorded, a text-embedded call's
\* assistant turn with it, arguments as the model wrote them.
Record ==
  /\ pc \in {"await", "inline"}
  /\ task[handle] = "over"
  /\ pc' = "collect"
  /\ pos' = pos + 1
  /\ handle' = None
  /\ stored' = IF text THEN stored \cup {Streamed[pos].args} ELSE stored
  /\ UNCHANGED <<round, attempt, outcome, text, calls, map, taskVars, tokenVars,
                 userVars>>

\* All results are in: the loop goes round, with a fresh PendingToolRuns.
CollectEnd ==
  /\ pc = "collect"
  /\ pos > Len(Streamed)
  /\ pc' = "loop"
  /\ map' = [id \in Ids |-> None]
  /\ UNCHANGED <<round, attempt, outcome, text, calls, pos, handle, taskVars,
                 tokenVars, userVars, stored>>

LoopStopped ==
  /\ pc = "loop"
  /\ stopped
  /\ pc' = "ended"
  /\ outcome' = "cancelled"
  /\ UNCHANGED <<round, attempt, text, calls, pos, handle, map, taskVars,
                 tokenVars, userVars, stored>>

\* The next round; the run is cut after MaxRounds.
NextRound ==
  /\ pc = "loop"
  /\ ~stopped
  /\ IF round < MaxRounds
     THEN pc' = "stream" /\ round' = round + 1 /\ UNCHANGED outcome
     ELSE pc' = "ended" /\ outcome' = "answered" /\ UNCHANGED round
  /\ attempt' = 1
  /\ pos' = 1
  /\ UNCHANGED <<text, calls, handle, map, taskVars, tokenVars, userVars, stored>>

\* The task of the run selects on the token too, and ChatPipeline::cancel aborts
\* it: the loop is dropped at its next await. An inline call goes with it;
\* background tasks are only detached.
RunDropped ==
  /\ pc \in {"stream", "await", "inline", "loop"}
  /\ stopped
  /\ pc' = "ended"
  /\ outcome' = "dropped"
  /\ task' = IF pc = "inline" /\ InFlight(Cur)
             THEN [task EXCEPT ![Cur] = "dropped"] ELSE task
  /\ UNCHANGED <<round, attempt, text, calls, pos, handle, map, body, result,
                 tokenVars, userVars, stored>>

-------------------------------------------------------------------------------
(* execute_tool_call, one poll per step *)

\* Wrong variant: arguments that do not parse are passed on.
TaskBeginUnparsed(c) ==
  /\ task[c] = "queued"
  /\ task' = [task EXCEPT ![c] = "running"]
  /\ body' = [body EXCEPT ![c] = "running"]
  /\ UNCHANGED <<loopVars, map, result, tokenVars, userVars, stored>>

\* The first poll: arguments that do not parse end the call, others start the
\* tool on a blocking thread.
TaskBegin(c) ==
  /\ task[c] = "queued"
  /\ \/ /\ CallOf(c).args = "complete"
        /\ task' = [task EXCEPT ![c] = "running"]
        /\ body' = [body EXCEPT ![c] = "running"]
        /\ UNCHANGED <<result, registry>>
     \/ /\ CallOf(c).args # "complete"
        /\ task' = [task EXCEPT ![c] = "over"]
        /\ result' = [result EXCEPT ![c] = "bad_args"]
        /\ Deregister(c)
        /\ UNCHANGED body
  /\ UNCHANGED <<loopVars, map, cancelled, userVars, stored>>

\* The tool returns. Nothing but the tool itself ends it: a tool that ignores
\* its token runs on after its call was cancelled or its task dropped.
BodyEnds(c) ==
  /\ body[c] = "running"
  /\ body' = [body EXCEPT ![c] = "over"]
  /\ UNCHANGED <<loopVars, map, task, result, tokenVars, userVars, stored>>

TaskDone(c) ==
  /\ task[c] = "running"
  /\ body[c] = "over"
  /\ task' = [task EXCEPT ![c] = "over"]
  /\ result' = [result EXCEPT ![c] = "output"]
  /\ Deregister(c)
  /\ UNCHANGED <<loopVars, map, body, cancelled, userVars, stored>>

\* Wrong variant: the call waits for the tool although it is cancelled.
TaskCancelledWaits(c) ==
  /\ InFlight(c)
  /\ CallOf(c).args = "complete"
  /\ Cancelled(c)
  /\ body[c] = "over"
  /\ task' = [task EXCEPT ![c] = "over"]
  /\ result' = [result EXCEPT ![c] = "aborted"]
  /\ Deregister(c)
  /\ UNCHANGED <<loopVars, map, body, cancelled, userVars, stored>>

\* The token's arm of select!.
TaskCancelled(c) ==
  /\ InFlight(c)
  /\ CallOf(c).args = "complete"
  /\ Cancelled(c)
  /\ task' = [task EXCEPT ![c] = "over"]
  /\ result' = [result EXCEPT ![c] = "aborted"]
  /\ Deregister(c)
  /\ UNCHANGED <<loopVars, map, body, cancelled, userVars, stored>>

-------------------------------------------------------------------------------
(* The user *)

\* ChatPipeline::cancel cancels the run's token, and forgets the registry.
StopRun ==
  /\ ~stopped
  /\ pc # "ended"
  /\ stopped' = TRUE
  /\ UNCHANGED <<loopVars, map, taskVars, tokenVars, asked, stored>>

\* Wrong variant: Stop cancels every registered token.
StopCallAll(id) ==
  /\ ~stopped
  /\ registry[id] # None
  /\ cancelled' = [c \in Slots |-> cancelled[c] \/ \E k \in Ids : registry[k] = c]
  /\ asked' = asked \cup {c \in {registry[id]} : InFlight(c)}
  /\ UNCHANGED <<loopVars, map, taskVars, registry, stopped, stored>>

\* The Stop button of a card: ChatPipeline::cancel_tool, CancelRegistry::cancel.
\* It returns true exactly when this step is enabled.
StopCall(id) ==
  /\ ~stopped
  /\ registry[id] # None
  /\ cancelled' = [cancelled EXCEPT ![registry[id]] = TRUE]
  /\ asked' = asked \cup {c \in {registry[id]} : InFlight(c)}
  /\ UNCHANGED <<loopVars, map, taskVars, registry, stopped, stored>>

-------------------------------------------------------------------------------
\* The calls a model embeds in text: parse_tool_calls accepts any ids.
TextRounds == UNION {[1..n -> [id : Ids \cup {NoId}, args : {"complete", "malformed"}]]
                      : n \in 1..MaxCalls}

StreamStep ==
  \/ \E call \in Calls : StreamCall(call)
  \/ \E embedded \in TextRounds : StreamEndsText(embedded)
  \/ MovePast \/ StreamEnds \/ Answer \/ Overflow \/ FirstFails \/ RetryFails
  \/ StreamStopped

CollectStep ==
  \/ StartRest \/ CollectStopped \/ CollectTruncated \/ CollectTake
  \/ CollectInline \/ Record \/ CollectEnd \/ LoopStopped \/ NextRound

TaskStep(c) == TaskBegin(c) \/ TaskDone(c) \/ TaskCancelled(c)

Next ==
  \/ StreamStep \/ CollectStep \/ RunDropped \/ StopRun
  \/ \E c \in Slots : TaskStep(c) \/ BodyEnds(c)
  \/ \E id \in Ids : StopCall(id)

Spec == Init /\ [][Next]_vars

\* The runtime polls what can advance. Nothing is assumed of the tools (a tool
\* may hang), of the task that drops the loop, nor of the model but that a
\* stopped stream is noticed.
FairSpec ==
  /\ Spec
  /\ WF_vars(CollectStep)
  /\ WF_vars(StreamStopped)
  /\ \A c \in Slots : WF_vars(TaskStep(c))

-------------------------------------------------------------------------------
(* Properties *)

Pcs      == {"stream", "start", "collect", "await", "inline", "loop", "ended"}
Outcomes == {"none", "answered", "first_failed", "retry_failed", "cancelled", "dropped"}
Resulted == {"none", "output", "bad_args", "aborted", "truncated"}

\* The bookkeeping is well formed: handles, map entries and tokens name calls of
\* the run, and pass 2 awaits exactly while it holds a handle.
TypeOK ==
  /\ pc \in Pcs
  /\ round \in 1..MaxRounds
  /\ attempt \in {1, 2}
  /\ outcome \in Outcomes
  /\ text \in BOOLEAN
  /\ calls \in [1..MaxRounds -> Seq(Calls)]
  /\ pos \in 1..(MaxCalls + 1)
  /\ handle \in Slots \cup {None}
  /\ map \in [Ids -> Slots \cup {None}]
  /\ task \in [Slots -> {"none", "queued", "running", "over", "dropped"}]
  /\ body \in [Slots -> {"none", "running", "over"}]
  /\ result \in [Slots -> Resulted]
  /\ registry \in [Ids -> Slots \cup {None}]
  /\ cancelled \in [Slots -> BOOLEAN]
  /\ stopped \in BOOLEAN
  /\ asked \subseteq Slots
  /\ stored \subseteq Shapes
  /\ pc \in {"await", "inline"} => handle # None

\* The result recorded for a call is its own, whatever ids the model repeats:
\* pass 2 never awaits the task of another call.
AwaitsOwnTask == pc \in {"await", "inline"} => handle = Cur

\* A call is started once: not again at the end of the stream when it was
\* started during it, nor inline when it ran in the background.
StartedOnce ==
  [][\A c \in Slots : task'[c] = "queued" => task[c] \in {"none", "queued"}]_vars

\* A call reports that it was aborted only when the user stopped that call while
\* it was in flight, or the run: neither another card's Stop nor the token of
\* an earlier call with its id can abort it.
NoStrayAbort ==
  \A c \in Slots : result[c] = "aborted" => c \in asked \/ stopped

\* A background call in flight is the one its id addresses, so that its Stop
\* button reaches it.
AddressedById ==
  \A c \in Slots : InFlight(c) /\ ~(pc = "inline" /\ c = Cur)
                      => registry[CallOf(c).id] = c

\* Only arguments that parsed ever reach a tool, though calls start before the
\* stream ends.
OnlyParsedRun == \A c \in Slots : body[c] # "none" => CallOf(c).args = "complete"

\* Every result is that of the call it is recorded for, run with what the model
\* finally asked for, and aborted only by those who may: the three facts above.
RightTask == AwaitsOwnTask /\ OnlyParsedRun /\ NoStrayAbort

\* A run that ended, other than by the failure of a first request, leaves no
\* call in flight that nobody told to stop.
QuietAfterEnd ==
  pc = "ended" /\ outcome # "first_failed"
    => \A c \in Slots : InFlight(c) => Cancelled(c)

\* A cancelled call comes back even when its tool hangs.
StoppedCallReturns ==
  \A c \in Slots : (InFlight(c) /\ Cancelled(c)) ~> ~InFlight(c)

\* The loop itself honours the run's token: it ends although tools hang, and
\* although nobody drops it.
StopEndsRun == stopped ~> pc = "ended"

\* Stop takes effect, on a call and on the run.
StopsTakeEffect == StoppedCallReturns /\ StopEndsRun

\* abort_all's comment: when the turn ends, on an error too, nothing keeps
\* executing in the background for a dead turn.
NothingLeftRunning ==
  pc = "ended" => \A c \in Slots : InFlight(c) => Cancelled(c)

\* CancelRegistry::cancel's comment: false when no call with that key is (any
\* longer) running. It returns true for every id the registry holds, as long
\* as the pipeline has not forgotten the registry.
CancelTruthful ==
  \A id \in Ids : registry[id] # None /\ ~stopped => InFlight(registry[id])

\* The comment of tools/cancel.rs: each in-flight call gets its own token,
\* registered under a stable key.
EachInFlightRegistered ==
  \A c \in Slots : InFlight(c) => \E id \in Ids : registry[id] = c

\* The comment of tool_args_complete: arguments that are no complete JSON object
\* must never be persisted.
StoredArgsComplete == stored \subseteq {"complete"}

===============================================================================

------------------------------ MODULE ReviewQueue ------------------------------
(***************************************************************************)
(* The review panel (ui/improvements): suggestions arrive as events from   *)
(* checks, wait in a queue that pending_improvements.json keeps across     *)
(* runs, and leave it when the user approves, dismisses or reverts; the    *)
(* button that runs a check is disabled until the thread it started says   *)
(* that it is done.                                                        *)
(***************************************************************************)
EXTENDS Naturals, Sequences, FiniteSets

CONSTANTS
  Agents,      \* profiles suggestions are for
  Topics,      \* rationales
  Versions,    \* texts proposed or typed
  MaxBatches,  \* bound: checks that produce suggestions
  MaxFaults    \* bound: saves that fail, and restarts

VARIABLES
  queue,     \* pending
  store,     \* what pending_improvements.json holds
  damaged,   \* ... or it cannot be parsed
  inbox,     \* events the frame has not handled yet
  checking,  \* run_check_running
  thread,    \* the thread of the button: none, running, reporting, dead
  past,      \* the agents with a snapshot to go back to
  deciding,  \* items already taken out of the queue but not out of the file
  reverted,  \* ... and the agent they were for, when its prompt was reverted
  owed,      \* the suggestions the user has been shown and has not decided on
  unsaved,   \* the last save failed
  batches, faults

queueVars == <<queue, store, damaged, inbox, checking, thread, past, deciding, reverted,
               owed, unsaved, batches, faults>>

\* A suggestion: new agents only, or a change of an agent.
Suggestions == [agent : Agents, topic : Topics, text : Versions, change : BOOLEAN]
Item(s) == [agent |-> s.agent, topic |-> s.topic, text |-> s.text, change |-> s.change,
            proposed |-> s.text, armed |-> FALSE, seen |-> s.text]
Key(i) == <<i.agent, i.topic>>
Keys(q) == {Key(q[k]) : k \in DOMAIN q}
Nobody == "nobody"

\* What the file keeps of a queue: the texts as edited, not what is armed.
Plain(q) == [k \in DOMAIN q |-> [q[k] EXCEPT !.armed = FALSE, !.proposed = q[k].text, !.seen = q[k].text]]
Stored == IF damaged THEN <<>> ELSE store

\* The frame writes the queue, or fails to and only logs it.
Persist(q) ==
  \/ store' = Plain(q) /\ damaged' = FALSE /\ unsaved' = FALSE /\ faults' = faults
  \/ /\ faults < MaxFaults
     /\ faults' = faults + 1
     /\ unsaved' = TRUE
     /\ UNCHANGED <<store, damaged>>

(* ---- suggestions ---- *)

\* Wrong: a suggestion made again keeps its Revert button armed.
StaysArmedVariant(q, s) ==
  IF Key(s) \in Keys(q)
  THEN LET k == CHOOSE j \in DOMAIN q : Key(q[j]) = Key(s) IN
       [q EXCEPT ![k] = [Item(s) EXCEPT !.armed = q[k].armed, !.seen = q[k].seen]]
  ELSE Append(q, Item(s))
\* Wrong: the queue is replaced by what just came.
ReplacesVariant(q, s) == <<Item(s)>>
\* handle_improvement_suggested, for one suggestion: the same agent and rationale are
\* refreshed where they are, anything else goes to the end.
Added(q, s) ==
  IF Key(s) \in Keys(q)
  THEN LET k == CHOOSE j \in DOMAIN q : Key(q[j]) = Key(s) IN [q EXCEPT ![k] = Item(s)]
  ELSE Append(q, Item(s))

\* A check of a task, or of the tool, sends what it found.
Suggests(s) ==
  /\ batches < MaxBatches
  /\ batches' = batches + 1
  /\ inbox' = Append(inbox, [kind |-> "suggested", item |-> s])
  /\ UNCHANGED <<queue, store, damaged, checking, thread, past, deciding, reverted, owed, unsaved, faults>>

\* handle_event, once a frame has time: the queue changes and is written at once.
HandlesSuggestion ==
  /\ inbox # <<>> /\ Head(inbox).kind = "suggested" /\ deciding = {}
  /\ LET s == Head(inbox).item IN
       /\ queue' = Added(queue, s)
       /\ owed' = owed \cup {Key(s)}
       /\ Persist(queue')
  /\ inbox' = Tail(inbox)
  /\ UNCHANGED <<checking, thread, past, deciding, reverted, batches>>

(* ---- the button ---- *)

\* draw_run_check: the click starts a thread.
RunsCheck ==
  /\ ~checking /\ deciding = {}
  /\ checking' = TRUE
  /\ thread' = "running"
  /\ UNCHANGED <<queue, store, damaged, inbox, past, deciding, reverted, owed, unsaved, batches, faults>>

\* send_check_result: suggestions, when there are any, and then the signal that the
\* check is over.
ThreadFinds(s) ==
  /\ thread = "running" /\ batches < MaxBatches
  /\ batches' = batches + 1
  /\ inbox' = inbox \o <<[kind |-> "suggested", item |-> s], [kind |-> "finished"]>>
  /\ thread' = "none"
  /\ UNCHANGED <<queue, store, damaged, checking, past, deciding, reverted, owed, unsaved, faults>>

\* Wrong: a check that failed sends nothing.
SilentVariant ==
  /\ thread = "running"
  /\ thread' = "none"
  /\ UNCHANGED <<queue, store, damaged, inbox, checking, past, deciding, reverted, owed, unsaved, batches, faults>>
\* It found nothing, failed or timed out.
ThreadFindsNothing ==
  /\ thread = "running"
  /\ inbox' = Append(inbox, [kind |-> "finished"])
  /\ thread' = "none"
  /\ UNCHANGED <<queue, store, damaged, checking, past, deciding, reverted, owed, unsaved, batches, faults>>

\* suggest_improvements slices the answer from its first [ to its last ]: an answer
\* without ], or with ] first, panics, and the thread is gone without a word.
ThreadPanics ==
  /\ thread = "running"
  /\ thread' = "dead"
  /\ UNCHANGED <<queue, store, damaged, inbox, checking, past, deciding, reverted, owed, unsaved, batches, faults>>

\* mark_check_finished.
HandlesFinished ==
  /\ inbox # <<>> /\ Head(inbox).kind = "finished" /\ deciding = {}
  /\ checking' = FALSE
  /\ inbox' = Tail(inbox)
  /\ UNCHANGED <<queue, store, damaged, thread, past, deciding, reverted, owed, unsaved, batches, faults>>

(* ---- the user ---- *)

\* The text of a proposed prompt is edited in the panel; nothing is written.
Edits(k, v) ==
  /\ deciding = {} /\ queue[k].change /\ queue[k].text # v
  /\ queue' = [queue EXCEPT ![k].text = v]
  /\ UNCHANGED <<store, damaged, inbox, checking, thread, past, deciding, reverted, owed, unsaved, batches, faults>>

Without(q, gone) ==
  LET kept[i \in 0..Len(q)] ==
        IF i = 0 THEN <<>>
        ELSE IF Key(q[i]) \in gone THEN kept[i - 1] ELSE Append(kept[i - 1], q[i])
  IN  kept[Len(q)]

\* execute_actions takes the decided items out of the queue; the profile, the skills and
\* the memory are written before, the queue after.
Decides(gone) ==
  /\ queue' = Without(queue, gone)
  /\ owed' = owed \ gone
  /\ deciding' = gone
  /\ UNCHANGED <<store, damaged, inbox, checking, thread, unsaved, batches, faults>>

\* Approve: the item goes, whether the change could be applied or not.
Approves(k) ==
  /\ deciding = {} /\ queue[k].change
  /\ past' \in {past, past \cup {queue[k].agent}}
  /\ reverted' = Nobody
  /\ Decides({Key(queue[k])})

\* Dismiss: the item goes, and a lesson says that it was rejected.
Dismisses(k) ==
  /\ deciding = {}
  /\ past' = past
  /\ reverted' = Nobody
  /\ Decides({Key(queue[k])})

\* The first click on Revert arms it.
Arms(k) ==
  /\ deciding = {} /\ queue[k].change /\ queue[k].agent \in past /\ ~queue[k].armed
  /\ queue' = [queue EXCEPT ![k].armed = TRUE, ![k].seen = queue[k].proposed]
  /\ UNCHANGED <<store, damaged, inbox, checking, thread, past, deciding, reverted, owed, unsaved, batches, faults>>

\* Wrong: only the item whose button was clicked is dropped.
DropsOneVariant(q, k) == {Key(q[k])}
\* Every suggestion for the agent was made about the prompt that is now gone.
Dropped(q, k) == {Key(q[j]) : j \in {i \in DOMAIN q : q[i].agent = q[k].agent}}

\* The second click restores the newest snapshot and drops the agent's suggestions, or
\* fails and disarms the button; the queue is written either way.
Reverts(k) ==
  /\ deciding = {} /\ queue[k].change /\ queue[k].agent \in past /\ queue[k].armed
  /\ \/ /\ past' = past /\ reverted' = queue[k].agent
        /\ Decides(Dropped(queue, k))
     \/ /\ queue' = [queue EXCEPT ![k].armed = FALSE]
        /\ Persist(queue')
        /\ UNCHANGED <<inbox, checking, thread, past, deciding, reverted, owed, batches>>

\* The end of execute_actions: what is left is written.
Persists ==
  /\ deciding # {}
  /\ Persist(queue)
  /\ deciding' = {}
  /\ reverted' = Nobody
  /\ UNCHANGED <<queue, inbox, checking, thread, past, owed, batches>>

(* ---- restarts ---- *)

\* The process ends, wherever it is, and starts again: load_pending. A decision that was
\* not written yet is asked for again; events that were not handled are gone.
Restarts ==
  /\ faults < MaxFaults
  /\ faults' = faults + 1
  /\ queue' = [k \in DOMAIN Stored |-> [Stored[k] EXCEPT !.armed = FALSE]]
  /\ owed' = IF unsaved \/ damaged THEN Keys(Stored) ELSE owed \cup deciding
  /\ deciding' = {}
  /\ reverted' = Nobody
  /\ inbox' = <<>>
  /\ checking' = FALSE
  /\ thread' = "none"
  /\ UNCHANGED <<store, damaged, past, unsaved, batches>>

Init ==
  /\ queue = <<>>
  /\ store = <<>>
  /\ damaged \in BOOLEAN
  /\ inbox = <<>>
  /\ checking = FALSE
  /\ thread = "none"
  /\ past = {}
  /\ deciding = {}
  /\ reverted = Nobody
  /\ owed = {}
  /\ unsaved = FALSE
  /\ batches = 0
  /\ faults = 0

UserActs ==
  \E k \in DOMAIN queue :
    \/ \E v \in Versions : Edits(k, v)
    \/ Approves(k) \/ Dismisses(k) \/ Arms(k) \/ Reverts(k)

Next ==
  \/ \E s \in Suggestions : Suggests(s) \/ ThreadFinds(s)
  \/ HandlesSuggestion \/ HandlesFinished
  \/ RunsCheck \/ ThreadFindsNothing \/ ThreadPanics
  \/ UserActs
  \/ Persists
  \/ Restarts

\* The frame loop and the thread of the button run.
Fairness ==
  /\ WF_queueVars(HandlesSuggestion \/ HandlesFinished)
  /\ WF_queueVars(Persists)
  /\ WF_queueVars(ThreadFindsNothing \/ ThreadPanics \/ \E s \in Suggestions : ThreadFinds(s))

Spec == Init /\ [][Next]_queueVars
FairSpec == Spec /\ Fairness

-----------------------------------------------------------------------------
\* The queue holds each suggestion the user was shown and has not decided on, once,
\* across restarts unless the last save failed, and the file holds the same.
QueueKept ==
  /\ Keys(queue) = owed
  /\ Len(queue) = Cardinality(owed)
  /\ (~unsaved /\ ~damaged) => Keys(store) = owed \cup deciding

\* A Revert button that asks for its second click stands beside the suggestion it was
\* clicked for, and once a prompt is reverted nothing said about it is left.
RevertsAsConfirmed ==
  /\ \A k \in DOMAIN queue : queue[k].armed => queue[k].seen = queue[k].proposed
  /\ \A k \in DOMAIN queue : queue[k].agent # reverted

\* A check ends: the button can be used again, unless its thread died.
CheckingEnds == checking ~> ~checking
ReportedChecksEnd == checking ~> (~checking \/ thread = "dead")

=============================================================================

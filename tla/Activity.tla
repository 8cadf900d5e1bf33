------------------------------ MODULE Activity ------------------------------
(***************************************************************************)
(* ActivityTracker: every LLM call in flight has an entry; updates, the    *)
(* begin and the end of a call each send the UI a snapshot of all entries. *)
(* A snapshot is taken under the tracker's lock and sent after it is       *)
(* released, so that the snapshots of two calls may be sent in the other   *)
(* order; an update decides to send under one lock and takes the snapshot  *)
(* under a second.                                                         *)
(***************************************************************************)
EXTENDS Naturals, Sequences, FiniteSets

CONSTANTS Calls,      \* LLM calls, each on a thread of its own
          MaxEvents   \* bound: LlmActivity events the UI has not handled

VARIABLES
  entry,    \* the phase of each call's entry, "none" without one
  thread,   \* where each call's thread is
  taken,    \* the snapshot a thread has taken and not sent
  events,   \* LlmActivity events under way
  bar,    \* display.llm_activities
  crossed   \* history: two snapshots were under way at once

activityVars == <<entry, thread, taken, events, bar, crossed>>

Phases == {"thinking", "prompt", "generating"}
Nothing == [c \in Calls |-> "none"]

Init ==
  /\ entry = Nothing
  /\ thread = [c \in Calls |-> "new"]
  /\ taken = [c \in Calls |-> Nothing]
  /\ events = <<>>
  /\ bar = Nothing
  /\ crossed = FALSE

Snapshots == [Calls -> Phases \cup {"none"}]

TypeOK ==
  /\ entry \in Snapshots /\ bar \in Snapshots
  /\ thread \in [Calls -> {"new", "runs", "decided", "sends", "ends", "over"}]
  /\ taken \in [Calls -> Snapshots]
  /\ events \in Seq(Snapshots) /\ Len(events) <= MaxEvents
  /\ crossed \in BOOLEAN

\* take_snapshot, kept by the thread until it sends.
Takes(c, entries, next) ==
  /\ taken' = [taken EXCEPT ![c] = entries]
  /\ thread' = [thread EXCEPT ![c] = next]
  /\ crossed' = (crossed \/ \E d \in Calls \ {c} : thread[d] \in {"sends", "ends"})

\* begin
Begin(c) ==
  /\ thread[c] = "new"
  /\ entry' = [entry EXCEPT ![c] = "thinking"]
  /\ Takes(c, entry', "sends")
  /\ UNCHANGED <<events, bar>>

\* update, first lock, from pp, tg or finish: the change, and whether to send.
\* Generating is never left; the throttle may keep pp and tg from sending,
\* finish always sends.
PhaseAfter(old, to) == IF old = "generating" THEN old ELSE to

Update(c, to) ==
  /\ thread[c] = "runs"
  /\ entry' = [entry EXCEPT ![c] = PhaseAfter(@, to)]
  /\ thread' \in {thread, [thread EXCEPT ![c] = "decided"]}
  /\ UNCHANGED <<taken, events, bar, crossed>>

Finish(c) ==
  /\ thread[c] = "runs"
  /\ thread' = [thread EXCEPT ![c] = "decided"]
  /\ UNCHANGED <<entry, taken, events, bar, crossed>>

\* update, second lock.
Snap(c) ==
  /\ thread[c] = "decided"
  /\ Takes(c, entry, "sends")
  /\ UNCHANGED <<entry, events, bar>>

DropHandleVariant(c) ==
  /\ thread[c] = "runs"
  /\ entry' = [entry EXCEPT ![c] = "none"]
  /\ thread' = [thread EXCEPT ![c] = "over"]
  /\ UNCHANGED <<taken, events, bar, crossed>>

\* The last handle goes, with the call or with its cancelled task: the entry is
\* removed and one last snapshot taken.
DropHandle(c) ==
  /\ thread[c] = "runs"
  /\ entry' = [entry EXCEPT ![c] = "none"]
  /\ Takes(c, entry', "ends")
  /\ UNCHANGED <<events, bar>>

Send(c) ==
  /\ thread[c] \in {"sends", "ends"} /\ Len(events) < MaxEvents
  /\ events' = Append(events, taken[c])
  /\ taken' = [taken EXCEPT ![c] = Nothing]
  /\ thread' = [thread EXCEPT ![c] = IF @ = "sends" THEN "runs" ELSE "over"]
  /\ UNCHANGED <<entry, bar, crossed>>

\* handle_event: the whole list is replaced.
Show ==
  /\ events # <<>>
  /\ bar' = Head(events)
  /\ events' = Tail(events)
  /\ UNCHANGED <<entry, thread, taken, crossed>>

Next ==
  \/ \E c \in Calls : \/ Begin(c) \/ Finish(c) \/ Snap(c) \/ DropHandle(c) \/ Send(c)
                      \/ \E to \in {"prompt", "generating"} : Update(c, to)
  \/ Show

Spec == Init /\ [][Next]_activityVars

-----------------------------------------------------------------------------
Live(snapshot) == {c \in Calls : snapshot[c] # "none"}

\* Once everything is sent and handled, the status bar lists exactly the calls in
\* flight, as long as no snapshot was taken while another was under way
\* (ActivityTracker::begin, update, drop_handle).
BarListsInFlight ==
  /\ events = <<>> /\ \A c \in Calls : thread[c] \notin {"sends", "ends"}
  /\ ~crossed
  => Live(bar) = Live(entry)

\* A call that is over leaves the status bar ("one snapshot also on every
\* activity's finish/drop", types/events.rs:154). Not kept: two calls that end
\* together may send their last snapshots in the wrong order.
OverLeavesBar ==
  (\A c \in Calls : thread[c] \in {"new", "over"}) /\ events = <<>> => Live(bar) = {}

=============================================================================

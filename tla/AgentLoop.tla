------------------------------- MODULE AgentLoop -------------------------------
(***************************************************************************)
(* The turns of one session as the agent runs them: Agent::execute and     *)
(* run_llm_loop (wuffagent-core/src/agents/agent/execute.rs, loop.rs), the *)
(* judge (verify.rs), the recording of results (tool_calls.rs), the notes  *)
(* and trims (trimming/brief.rs, summarizer) and the two lists a turn       *)
(* writes: the request it sends and the store the session file is made of  *)
(* (memory_sync.rs).                                                       *)
(*                                                                         *)
(* A step is what happens between two awaits, or between two points where  *)
(* another thread can be seen: the user's Stop, a message injected by the  *)
(* UI, a tool body that queues a control request. How calls are started    *)
(* and cancelled is ToolRuns' subject: here a call yields its result, and  *)
(* may queue a request before that, or after it if the call was stopped.   *)
(* How messages reach the channel, and what becomes of those nobody        *)
(* drained, is ChatTurn's.                                                 *)
(*                                                                         *)
(* A message is its kind, a number and a set: the calls of an assistant    *)
(* message, the call a result answers, the notes folded into the brief.    *)
(* Lengths are abstracted. The budget of a trim stops its sweep at any     *)
(* point, and whether a round read a file that changed since, or that the  *)
(* model still works on, is open: so any consumed rounds may go, and any   *)
(* number of the oldest plain turns. Shortening a message in place changes *)
(* no structure.                                                           *)
(***************************************************************************)
EXTENDS Naturals, SequencesExt

CONSTANTS Notes,       \* texts of session notes
          NoteCap,     \* NOTES_MAX_ITEMS
          MaxDepth,    \* MAX_HANDOFF_DEPTH
          MaxAttempts, \* MAX_VERIFICATION_ATTEMPTS
          MaxCalls,    \* bound on the calls of a round
          MaxTurns,    \* bound on the turns
          MaxMessages, \* bound on messages that start new work
          MaxLate,     \* bound on stopped calls whose body still runs
          WithInject,  \* the user may inject messages
          WithPolish   \* llm_brief_polish

ASSUME CapAssumption == NoteCap \in Nat \ {0}
ASSUME LimitAssumption == MaxDepth \in Nat /\ MaxAttempts \in Nat
ASSUME BoundAssumption == {MaxCalls, MaxTurns, MaxMessages, MaxLate} \subseteq Nat \ {0}
\* The brief keeps twice NoteCap notes.
ASSUME NotesAssumption == Cardinality(Notes) <= 3 * NoteCap
ASSUME FlagAssumption == {WithInject, WithPolish} \subseteq BOOLEAN

VARIABLES
  store,   \* client.conversation()
  req,     \* the request list of the running agent
  pc,      \* where execute and run_llm_loop are
  hop,     \* handoffs of the turn
  tries,   \* VerificationState.attempts
  attempt, \* the attempt of the round's request
  todo,    \* the calls of the round whose result is not recorded yet
  text,    \* the round's calls are embedded in its text
  mailbox, \* control_mailbox of the running agent
  late,    \* requests that stopped calls of this agent have yet to queue
  inbox,   \* the injection channel
  stopped, \* the run's token is cancelled
  outcome, \* how the turn ends
  said,    \* the events that end the turn
  unread,  \* results that no accepted request has shown to the model
  pinned,  \* notes pinned so far
  next,    \* number of the next message
  first,   \* number of the turn's user message
  turns    \* turns started

loopVars  == <<req, hop, tries, unread>>
roundVars == <<attempt, todo, text>>
boxVars   == <<mailbox, late>>
\* What lives as long as the agent that runs.
agentVars == <<loopVars, roundVars, boxVars>>
userVars  == <<inbox, stopped>>
endVars   == <<outcome, said>>
countVars == <<pinned, next, first, turns>>
vars == <<store, req, pc, hop, tries, attempt, todo, text, mailbox, late, inbox,
          stopped, outcome, said, unread, pinned, next, first, turns>>

Ends == {"completed", "sub", "restart", "handback", "error", "stopped", "dropped"}

\* The events a turn may end with.
Closings == {"StreamComplete", "SubSessionHandoff", "AgentHandBack", "RestartRequested"}

Requests ==
  [kind : {"note"}, arg : Notes] \cup [kind : {"handoff"}, arg : {"turn", "sub"}]
    \cup [kind : {"restart", "handback"}, arg : {"-"}]

Running == pc # "idle"

-------------------------------------------------------------------------------
(* Messages, and what a trim may take out of a list of them (summarizer,
   filestate.rs). *)

Kinds == {"system", "user", "memory", "nudge", "marker", "note", "brief",
          "assistant", "result"}

\* The entries of s at the positions K, in their order: a selection by position,
\* where SelectSeq selects by content.
At(s, K) ==
  LET upto[n \in 0..Len(s)] ==
        IF n = 0 THEN <<>>
        ELSE IF n \in K THEN Append(upto[n-1], s[n])
        ELSE upto[n-1]
  IN upto[Len(s)]

Msg(kind, id, has) == [kind |-> kind, id |-> id, has |-> has]

\* The API role "user" carries everything that is injected, too.
IsUser(m)   == m.kind \in {"user", "memory", "nudge", "marker", "note", "brief"}
IsNote(m)   == m.kind = "note"
IsBrief(m)  == m.kind = "brief"
IsResult(m) == m.kind = "result"
IsCall(m)   == m.kind = "assistant" /\ m.has # {}
IsTask(m)   == IsUser(m) /\ ~IsNote(m) /\ ~IsBrief(m)

NotesAt(s) == {i \in DOMAIN s : IsNote(s[i])}

\* The first user message that is neither note nor brief; 0 if there is none.
FirstTask(s) == SelectInSeq(s, IsTask)

\* The protected tail: from the last user message or the last calls, whichever
\* is later.
TailStart(s) ==
  LET t == {SelectLastInSeq(s, IsUser), SelectLastInSeq(s, IsCall)} \ {0}
  IN IF t = {} THEN Len(s) + 1 ELSE CHOOSE i \in t : \A j \in t : j <= i

\* A round: the calls at i and the run of results right behind them.
Round(s, i) ==
  {i} \cup {j \in i+1..Len(s) : \A k \in i+1..j : IsResult(s[k])}

RoundsAt(s, calls) == UNION {Round(s, i) : i \in calls}

Consumed(s) == {i \in 1..TailStart(s)-1 : IsCall(s[i])}

\* Wrong variant: the task is the first casualty of the sweep.
KeptNoTask(s) ==
  {1, SelectLastInSeq(s, IsUser)} \cup NotesAt(s) \cup {i \in DOMAIN s : IsBrief(s[i])}

\* What the age sweep steps over.
Kept(s) ==
  {1, FirstTask(s), SelectLastInSeq(s, IsUser)}
    \cup {i \in DOMAIN s : IsNote(s[i]) \/ IsBrief(s[i])}

\* The plain turns that may go; the sweep takes the oldest of them.
Plain(s) ==
  {i \in 1..TailStart(s)-1 \ Kept(s) : s[i].kind # "result" /\ ~IsCall(s[i])}

Oldest(plain) == {{i \in plain : i <= stop} : stop \in plain \cup {0}}

Without(s, gone) == At(s, DOMAIN s \ gone)

\* Wrong variant: the calls of a round go without their results.
SweptSingly(s) ==
  {Without(s, plain \cup rounds) : plain \in Oldest(Plain(s)), rounds \in SUBSET Consumed(s)}

\* The freshness pass and the two age sweeps together: any consumed rounds, and
\* the oldest plain turns.
Swept(s) ==
  {Without(s, plain \cup RoundsAt(s, rounds)) :
     plain \in Oldest(Plain(s)), rounds \in SUBSET Consumed(s)}

-------------------------------------------------------------------------------
(* Where notes and the brief stand in a list (brief.rs). *)

\* Behind the system prompt and the notes that follow it.
NoteSlot(s) ==
  2 + Cardinality({i \in 2..Len(s) : \A j \in 2..i : IsNote(s[j])})

BriefNotes(s) == UNION {m.has : m \in {x \in ToSet(s) : IsBrief(x)}}

\* The brief goes behind the notes and the task; an old one is replaced.
ApplyBrief(s, notes) ==
  LET slot == NoteSlot(s)
      at   == IF slot <= Len(s) /\ IsUser(s[slot]) THEN slot + 1 ELSE slot
      old  == SelectInSeq(s, IsBrief)
      rest == IF old = 0 THEN s ELSE RemoveAt(s, old)
  IN InsertAt(rest, at, Msg("brief", 0, notes))

\* Wrong variant: the oldest note goes without being folded into the brief.
FoldOldestDrops(s) == RemoveAt(s, SelectInSeq(s, IsNote))

\* At the cap, the oldest note is folded into the brief.
FoldOldest(s) ==
  LET i == SelectInSeq(s, IsNote)
  IN RemoveAt(ApplyBrief(s, BriefNotes(s) \cup {s[i].id}), i)

NoteIds(s) == {m.id : m \in {x \in ToSet(s) : IsNote(x)}}

ApplyNote(s, n, cap) ==
  IF n \in NoteIds(s) THEN s
  ELSE LET t == IF Cardinality(NotesAt(s)) >= cap THEN FoldOldest(s) ELSE s
       IN InsertAt(t, NoteSlot(t), Msg("note", n, {}))

\* Notes that drifted, as after a reload, come back behind the system prompt.
ReanchorNotes(s) ==
  At(s, {1}) \o At(s, NotesAt(s) \ {1}) \o At(s, DOMAIN s \ (NotesAt(s) \cup {1}))

\* A trim: what the sweeps leave, with or without a brief of what went.
Trims(s) ==
  LET swept == Swept(s)
  IN swept \cup {ApplyBrief(t, BriefNotes(s)) : t \in swept \ {s}}

-------------------------------------------------------------------------------
(* The two lists. *)

\* System prompt, memory block and nudge are for the request only.
Storable(m) == m.kind \notin {"system", "memory", "nudge"}

Reconcile(s) == At(s, {i \in DOMAIN s : Storable(s[i])})

\* build_initial_messages: the store behind a fresh system prompt, and, if the
\* memory has something to say, its block behind the task (or at the end).
Built(s, task, memory) ==
  LET msgs == <<Msg("system", 0, {})>> \o s
      at   == SelectLastInSeq(msgs, LAMBDA m : m.kind = "user" /\ m.id = task)
  IN IF ~memory THEN msgs
     ELSE InsertAt(msgs, IF at = 0 THEN Len(msgs) + 1 ELSE at + 1, Msg("memory", 0, {}))

\* At most one request of each kind is pending; a second is refused.
Queue(box, r) == IF \E q \in box : q.kind = r.kind THEN box ELSE box \cup {r}

\* execute returns, or its task is dropped: the agent is gone.
Leave ==
  /\ req' = <<>> /\ unread' = {}
  /\ hop' = 0 /\ tries' = 0
  /\ attempt' = 1 /\ todo' = {} /\ text' = FALSE
  /\ mailbox' = {} /\ late' = {}

End(how) ==
  /\ Leave
  /\ pc' = "drain"
  /\ outcome' = how

\* Room for work that brings new messages.
Room == next <= MaxMessages

Init ==
  /\ store = <<>>
  /\ req = <<>>
  /\ pc = "idle"
  /\ hop = 0
  /\ tries = 0
  /\ attempt = 1
  /\ todo = {}
  /\ text = FALSE
  /\ mailbox = {}
  /\ late = {}
  /\ inbox = <<>>
  /\ stopped = FALSE
  /\ outcome = "none"
  /\ said = <<>>
  /\ unread = {}
  /\ pinned = {}
  /\ next = 1
  /\ first = 1
  /\ turns = 0

\* Agent::execute up to the first loop: a fresh Agent with an empty mailbox.
StartTurn ==
  /\ pc = "idle" /\ turns < MaxTurns /\ Room
  /\ LET s == Append(store, Msg("user", next, {}))
     IN /\ store' = s
        /\ \E memory \in BOOLEAN : req' = Built(s, next, memory)
  /\ pc' = "top"
  /\ first' = next /\ next' = next + 1 /\ turns' = turns + 1
  /\ inbox' = <<>> /\ stopped' = FALSE
  /\ outcome' = "none" /\ said' = <<>>
  /\ UNCHANGED <<hop, tries, unread, roundVars, boxVars, pinned>>

-------------------------------------------------------------------------------
(* The user, and tool bodies that outlive their call. *)

Inject ==
  /\ WithInject /\ Running /\ ~stopped /\ Room
  /\ inbox' = Append(inbox, next)
  /\ next' = next + 1
  /\ UNCHANGED <<store, pc, agentVars, stopped, endVars, pinned, first, turns>>

\* The pipeline cancels the token and aborts the task.
Stop ==
  /\ Running /\ ~stopped
  /\ stopped' = TRUE
  /\ UNCHANGED <<store, pc, agentVars, inbox, endVars, countVars>>

\* An aborted task is dropped where it awaits.
Dropped ==
  /\ stopped /\ pc \in {"rest", "send", "await", "judge"}
  /\ Leave
  /\ pc' = "idle" /\ outcome' = "dropped"
  /\ UNCHANGED <<store, userVars, said, countVars>>

LateRequest ==
  \E r \in late :
    /\ mailbox' = Queue(mailbox, r)
    /\ late' = late \ {r}
    /\ UNCHANGED <<store, pc, loopVars, roundVars, userVars, endVars, countVars>>

-------------------------------------------------------------------------------
(* The loop, from its top to the request. *)

AsUsers(ids) == [i \in DOMAIN ids |-> Msg("user", ids[i], {})]

Injected(list, ids) == list \o AsUsers(ids)

\* Only the original agent and its first target hold the channel: execute moves
\* the original's receiver into every next agent, and after that it is gone.
Heard == IF hop <= 1 THEN inbox ELSE <<>>

RecordNote(list, n) == Append(list, Msg("note", n, {}))

Asked(kind) == {r \in mailbox : r.kind = kind}

TopStopped ==
  /\ pc = "top" /\ stopped
  /\ End("stopped")
  /\ UNCHANGED <<store, userVars, said, countVars>>

\* Where the requests in the mailbox lead: handoff before restart before
\* hand-back, else the next request.
Decide ==
  \/ \E r \in Asked("handoff") :
       \/ r.arg = "sub"  /\ pc' = "mark" /\ outcome' = "sub"
       \/ r.arg = "turn" /\ pc' = "switch" /\ UNCHANGED outcome
  \/ /\ Asked("handoff") = {} /\ Asked("restart") # {}
     /\ pc' = "mark" /\ outcome' = "restart"
  \/ /\ Asked("handoff") = {} /\ Asked("restart") = {} /\ Asked("handback") # {}
     /\ pc' = "mark" /\ outcome' = "handback"
  \/ /\ \A r \in mailbox : r.kind = "note"
     /\ pc' = "rest" /\ UNCHANGED outcome

\* Injected messages, then the whole mailbox, a note first.
Top ==
  /\ pc = "top" /\ ~stopped
  /\ LET r1 == req \o AsUsers(Heard)
         s1 == Injected(store, Heard)
     IN \/ /\ Asked("note") = {}
           /\ req' = ReanchorNotes(r1)
           /\ store' = s1
           /\ UNCHANGED pinned
        \/ \E r \in Asked("note") :
             /\ req' = ReanchorNotes(ApplyNote(r1, r.arg, NoteCap))
             /\ store' = RecordNote(s1, r.arg)
             /\ pinned' = pinned \cup {r.arg}
  /\ inbox' = IF hop <= 1 THEN <<>> ELSE inbox
  /\ mailbox' = {}
  /\ Decide
  /\ UNCHANGED <<hop, tries, unread, roundVars, late, stopped, said, next, first, turns>>

\* In-turn handoff: the marker, and a fresh Agent on the same store.
Switch ==
  /\ pc = "switch" /\ hop < MaxDepth /\ ~stopped
  /\ LET s == Append(store, Msg("marker", next, {}))
     IN /\ store' = s
        /\ \E memory \in BOOLEAN : req' = Built(s, next, memory)
  /\ hop' = hop + 1 /\ tries' = 0
  /\ next' = next + 1
  /\ mailbox' = {} /\ late' = {}
  /\ pc' = "top"
  /\ UNCHANGED <<unread, roundVars, userVars, endVars, pinned, first, turns>>

SwitchRefused ==
  /\ pc = "switch"
  /\ \/ hop = MaxDepth /\ End("error")
     \/ hop < MaxDepth /\ stopped /\ End("stopped")
  /\ UNCHANGED <<store, userVars, said, countVars>>

-------------------------------------------------------------------------------
(* The request: rate limit, time-out, trim, the model's answer. *)

TimesOut ==
  /\ pc = "rest"
  /\ End("error")
  /\ UNCHANGED <<store, userVars, said, countVars>>

SendAsIs ==
  /\ pc = "rest"
  /\ pc' = "send"
  /\ UNCHANGED <<store, agentVars, userVars, endVars, countVars>>

\* The polish rewrites the brief, its notes too.
Polished(s) ==
  IF WithPolish /\ SelectInSeq(s, IsBrief) # 0
  THEN {s} \cup {ApplyBrief(s, notes) : notes \in SUBSET BriefNotes(s)}
  ELSE {s}

\* Wrong variant: the trim only touches the request.
TrimmedStoreKept(s) == store

\* reconcile_store: the store becomes what the request holds.
TrimmedStore(s) == Reconcile(s)

\* Over the trigger: trim, polish the brief, refresh the newest note with a line
\* of what went (a note of its own), reconcile.
TrimAndSend ==
  /\ pc = "rest" /\ Len(req) > 4
  /\ \E t \in Trims(req) : \E p \in Polished(t) :
       \/ /\ req' = p
          /\ UNCHANGED pinned
       \/ \E n \in Notes \ (pinned \cup NoteIds(p)) :
            /\ t # req
            /\ req' = ApplyNote(p, n, NoteCap)
            /\ pinned' = pinned \cup {n}
  /\ store' = TrimmedStore(req')
  /\ pc' = "send"
  /\ UNCHANGED <<hop, tries, unread, roundVars, boxVars, userVars, endVars, next,
                 first, turns>>

\* The server rejects the first attempt as too long: trim, reconcile, retry.
Overflow ==
  /\ pc = "send" /\ attempt = 1
  /\ req' \in Trims(req)
  /\ store' = TrimmedStore(req')
  /\ attempt' = 2
  /\ UNCHANGED <<pc, hop, tries, unread, todo, text, boxVars, userVars, endVars,
                 countVars>>

CallFails ==
  /\ pc = "send"
  /\ \/ End("error")
     \/ stopped /\ End("stopped")
  /\ UNCHANGED <<store, userVars, said, countVars>>

Said(has) ==
  LET m == Msg("assistant", next, has)
  IN /\ req' = Append(req, m)
     /\ store' = Append(store, m)
     /\ next' = next + 1

\* The model has read the request, and calls tools: in its message, or embedded
\* in the text, whose calls are recorded one by one with their results.
AnswerWithCalls ==
  /\ pc = "send" /\ Room
  /\ \E n \in 1..MaxCalls :
       /\ todo' = 1..n
       /\ \/ text' = FALSE /\ Said(1..n)
          \/ text' = TRUE /\ Said({})
  /\ unread' = {} /\ attempt' = 1
  /\ pc' = "tools"
  /\ UNCHANGED <<hop, tries, boxVars, userVars, endVars, pinned, first, turns>>

\* No calls. An empty answer stays out of the store, and out of every later
\* request; it is left out of this one too.
Answer ==
  /\ pc = "send"
  /\ \/ Said({})
     \/ UNCHANGED <<req, store, next>>
  /\ unread' = {} /\ attempt' = 1
  /\ pc' = "judge"
  /\ UNCHANGED <<hop, tries, todo, text, boxVars, userVars, endVars, pinned, first,
                 turns>>

-------------------------------------------------------------------------------
(* The results, in call order, with what the tools queue. *)

Pair(id, c) ==
  IF text THEN <<Msg("assistant", id, {c}), Msg("result", id, {c})>>
          ELSE <<Msg("result", id, {c})>>

\* Native results answer the message of the round, the last with calls.
RoundId == req[SelectLastInSeq(req, IsCall)].id

\* Before each call the token is looked at, then the call's task awaited.
AwaitCall ==
  /\ pc = "tools" /\ ~stopped
  /\ pc' = "await"
  /\ UNCHANGED <<store, agentVars, userVars, endVars, countVars>>

Collect ==
  /\ pc = "await"
  /\ LET c  == CHOOSE i \in todo : \A j \in todo : i <= j
         id == IF text THEN next ELSE RoundId
     IN /\ req' = req \o Pair(id, c)
        /\ store' = store \o Pair(id, c)
        /\ unread' = unread \cup {<<id, c>>}
        /\ todo' = todo \ {c}
        /\ pc' = IF todo = {c} THEN "top" ELSE "tools"
        /\ text' = (text /\ todo # {c})
  /\ next' = IF text THEN next + 1 ELSE next
  /\ \/ UNCHANGED boxVars
     \/ \E r \in Requests : mailbox' = Queue(mailbox, r) /\ UNCHANGED late
     \/ /\ Cardinality(late) < MaxLate
        /\ \E r \in Requests : late' = late \cup {r}
        /\ UNCHANGED mailbox
  /\ UNCHANGED <<hop, tries, attempt, userVars, endVars, pinned, first, turns>>

\* Stop between two results: the calls left keep no answer.
CollectStopped ==
  /\ pc = "tools" /\ stopped
  /\ End("stopped")
  /\ UNCHANGED <<store, userVars, said, countVars>>

-------------------------------------------------------------------------------
(* The judge, and the end of the turn. *)

\* verify_tool_outputs: the results behind the last user message.
Evidence(s) == {i \in SelectLastInSeq(s, IsUser)+1..Len(s) : IsResult(s[i])}

\* Accepted: the attempts are used up, there is no evidence to judge by, the
\* judge is content, or it could not be asked.
Accept ==
  /\ pc = "judge"
  /\ said' = Append(said, "StreamComplete")
  /\ End("completed")
  /\ UNCHANGED <<store, userVars, countVars>>

\* Wrong variant: the nudge is recorded like any message.
NudgedStored(list) == Append(list, Msg("nudge", 0, {}))

Nudged(list) == list

NeedsFix ==
  /\ pc = "judge" /\ tries < MaxAttempts /\ Evidence(req) # {}
  /\ tries' = tries + 1
  /\ req' = Append(req, Msg("nudge", 0, {}))
  /\ store' = Nudged(store)
  /\ pc' = "top"
  /\ UNCHANGED <<hop, unread, roundVars, boxVars, userVars, endVars, countVars>>

\* Wrong variant: the turn ends without a marker.
MarkedNot(list) == list

Marked(list) == Append(list, Msg("marker", next, {}))

\* A hand-off to a sub-session, a hand-back and a restart leave a marker first.
Mark ==
  /\ pc = "mark"
  /\ store' = Marked(store)
  /\ next' = next + 1
  /\ pc' = "tell"
  /\ UNCHANGED <<agentVars, userVars, endVars, pinned, first, turns>>

Events(how) ==
  CASE how = "sub"      -> <<"StreamComplete", "SubSessionHandoff">>
    [] how = "handback" -> <<"StreamComplete", "AgentHandBack">>
    [] how = "restart"  -> <<"RestartRequested">>

\* The UI may see, and act on, each event before the next is sent.
Tell ==
  /\ pc = "tell"
  /\ said' = Append(said, Events(outcome)[Len(said) + 1])
  /\ \/ said' # Events(outcome) /\ UNCHANGED <<pc, outcome, agentVars>>
     \/ said' = Events(outcome) /\ End(outcome)
  /\ UNCHANGED <<store, userVars, countVars>>

\* The engine hands what is left in the channel back to the UI.
EngineDrains ==
  /\ pc = "drain"
  /\ inbox' = <<>>
  /\ pc' = "idle"
  /\ UNCHANGED <<store, agentVars, stopped, endVars, countVars>>

Next ==
  \/ StartTurn \/ Inject \/ Stop \/ Dropped \/ LateRequest
  \/ TopStopped \/ Top \/ Switch \/ SwitchRefused
  \/ TimesOut \/ SendAsIs \/ TrimAndSend \/ Overflow \/ CallFails
  \/ AnswerWithCalls \/ Answer
  \/ AwaitCall \/ Collect \/ CollectStopped
  \/ Accept \/ NeedsFix \/ Mark \/ Tell \/ EngineDrains

Spec == Init /\ [][Next]_vars

-------------------------------------------------------------------------------
(* Properties. *)

Messages ==
  [kind : Kinds \ {"assistant", "result", "note", "brief"}, id : 0..next-1, has : {{}}]
    \cup [kind : {"assistant"}, id : 1..next-1, has : SUBSET (1..MaxCalls)]
    \cup [kind : {"result"}, id : 1..next-1, has : {{c} : c \in 1..MaxCalls}]
    \cup [kind : {"note"}, id : Notes, has : {{}}]
    \cup [kind : {"brief"}, id : {0}, has : SUBSET Notes]

\* Every variable holds what the code's types and limits allow: at most MaxDepth
\* hops and MaxAttempts verifications, one pending request of a kind, nothing
\* request-only in the store.
TypeOK ==
  /\ store \in Seq(Messages) /\ req \in Seq(Messages)
  /\ \A i \in DOMAIN store : Storable(store[i])
  /\ pc \in {"idle", "top", "switch", "rest", "send", "tools", "await", "judge",
             "mark", "tell", "drain"}
  /\ hop \in 0..MaxDepth /\ tries \in 0..MaxAttempts /\ attempt \in 1..2
  /\ todo \subseteq 1..MaxCalls /\ text \in BOOLEAN
  /\ mailbox \subseteq Requests /\ late \subseteq Requests
  /\ \A q, r \in mailbox : q.kind = r.kind => q = r
  /\ inbox \in Seq(1..next-1)
  /\ stopped \in BOOLEAN
  /\ outcome \in Ends \cup {"none"} /\ said \in Seq(Closings)
  /\ unread \subseteq (1..next-1) \X (1..MaxCalls)
  /\ pinned \subseteq Notes
  /\ next \in Nat \ {0} /\ first \in 1..next /\ turns \in 0..MaxTurns

\* The part of a list both carry: notes and brief differ until the next trim.
Body(s) == At(s, {i \in DOMAIN s : Storable(s[i]) /\ ~IsNote(s[i]) /\ ~IsBrief(s[i])})

\* While a turn runs, what the model is shown is what the session keeps: the
\* request list is the store plus request-only entries, through injections,
\* results, trims, retries and handoffs (memory_sync.rs, reconcile_store).
StoreMirrorsRequest ==
  pc \notin {"idle", "tell", "drain"} => Body(req) = Body(store)

Answers(s, i) == {<<s[j].id, s[j].has>> : j \in Round(s, i) \ {i}}

Closed(s, i) == Answers(s, i) = {<<s[i].id, {c}>> : c \in s[i].has}

\* Every request holds the calls of the turn with all their results right behind
\* them, and no result without its call, whatever a trim removed (tool_calls.rs,
\* trim.rs): a server rejects anything else.
RoundsClosed ==
  pc = "send" =>
    /\ \A i \in DOMAIN req : IsCall(req[i]) /\ req[i].id >= first => Closed(req, i)
    /\ \A j \in DOMAIN req : IsResult(req[j]) =>
         \E i \in 1..j-1 : IsCall(req[i]) /\ req[i].id = req[j].id /\ j \in Round(req, i)

\* The request list is well formed and in step with the store: both facts above.
RequestsInStep == StoreMirrorsRequest /\ RoundsClosed

\* A note once pinned is in every later request, as a note or in the brief, in
\* this turn and the next, with this agent and the one it hands off to
\* (brief.rs, apply_note: "never both lost").
NotesSurvive == pc = "send" => pinned \subseteq NoteIds(req) \cup BriefNotes(req)

\* The message the session began with is never lost from the store
\* (trim.rs: "Never remove the FIRST user message").
TaskStays ==
  [][store # <<>> =>
       /\ FirstTask(store') # 0
       /\ store'[FirstTask(store')] = store[FirstTask(store)]]_vars

\* A turn ends with the events of its outcome, each sent once, and when the first
\* of them reaches the UI, which saves then, the marker is already stored
\* (execute.rs: the parent is idle and saved before the sub-session runs).
EndsInOrder ==
  /\ pc \in {"idle", "drain"} =>
       said = CASE outcome = "completed" -> <<"StreamComplete">>
                [] outcome \in {"sub", "handback", "restart"} -> Events(outcome)
                [] OTHER -> <<>>
  /\ said # <<>> /\ outcome # "completed" => Last(store).kind = "marker"

-------------------------------------------------------------------------------
(* What comments of the code say and the code does not keep. *)

\* trim.rs: "so a fresh tool result is always read by the AI before it can be
\* trimmed". A message injected while the tools ran moves the tail past them, and
\* of several calls embedded in a text only the last is in the tail.
FreshIsRead ==
  Running => \A u \in unread : \E i \in DOMAIN req :
               IsResult(req[i]) /\ <<req[i].id, req[i].has>> = <<u[1], {u[2]}>>

\* trim.rs: the last user message "is the task the whole conversation is about".
\* The memory block, an injected message and a nudge are later user messages.
TaskInSight == pc = "send" => \E i \in DOMAIN req : IsTask(req[i]) /\ req[i].id = first

\* verify.rs: "Skip verification if no tool calls were made this turn". After a
\* nudge or an injected message the calls before it do not count.
SkipsOnlyWithoutCalls ==
  pc = "judge" /\ tries < MaxAttempts /\ Evidence(req) = {} =>
    \A i \in DOMAIN store : IsResult(store[i]) => store[i].id < first

\* execute.rs: "keep receiving user injections on the next agent too". From the
\* second handoff on nobody holds the channel.
HeardAtEveryTop == [][Top => inbox' = <<>>]_vars

\* For TLC's runs: the texts of notes are interchangeable.
LOCAL INSTANCE TLC
NoteSymmetry == Permutations(Notes)

===============================================================================

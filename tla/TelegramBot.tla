------------------------------ MODULE TelegramBot ------------------------------
(***************************************************************************)
(* The Telegram plugin: a thread that polls the server, a worker that      *)
(* handles its updates and the events of runs (telegram_plugin/bot.rs),    *)
(* and the host bridge, by which the worker asks the desktop's UI thread   *)
(* for sessions and runs and waits at most five seconds for the answer     *)
(* (host_bridge.rs, host_bridge_cmd.rs).  A tool of the agent, use_session,*)
(* changes the session of a chat from a thread of its own.  Stop only asks *)
(* the threads to end: the next start may find them still at work.  The    *)
(* state file is written by all of them, and a failure is only printed.    *)
(***************************************************************************)
EXTENDS Naturals, Sequences, FiniteSets, SequencesExt

CONSTANTS
  Chats, Sessions,
  MaxUpdates,   \* bound: messages sent to the bot
  MaxStarts,    \* bound: starts of the bot
  MaxRuns,      \* bound: runs of sessions
  Overlaps,     \* bound: a start may find threads of the one before
  MaxMishaps    \* bound: late answers, failures, stops by the desktop's user, crashes

NoSession == "none"
NoChat == "none"
NoCall == [pc |-> "idle"]

VARIABLES
  inbox,     \* the messages the server got: chat and kind; the place is the update id
  state,     \* telegram-state.json: the offset and the chats' sessions
  slot,      \* the bot that is registered, or 0
  tx,        \* the bot events are relayed to, or 0
  bots,      \* per start: stop flag, offset, batches, events, turns, queued message, call,
             \* the chat whose turn was injected last, and that of a use_session at work
  sessions,  \* sessions the desktop has
  cmds,      \* commands of the bridge not yet run
  runs,      \* runs at work: session and the chat (or desktop) that asked
  lost,      \* sessions of which a run ended without an event
  shared,    \* sessions asked by more than one side, or by a call given up
  handled,   \* updates handled, in order
  overlap,   \* a bot was started while threads of another were at work
  wrong,     \* a reply went to a chat that did not ask
  stale,     \* the last write of the state file failed
  forgot,    \* a bot was started from a file whose last write had failed
  runCount, mishaps

telegramVars == <<inbox, state, slot, tx, bots, sessions, cmds, runs, lost, shared, handled,
                  overlap, wrong, stale, forgot, runCount, mishaps>>

Kinds == {"text", "empty", "new", "use"}
Bots == 1..Len(bots)
Upto(id) == SubSeq(inbox, id, Len(inbox))
InTurn(b, chat) == \E k \in DOMAIN bots[b].turns : bots[b].turns[k].chat = chat
SetBot(b, f) == bots' = [bots EXCEPT ![b] = f]
Mishap == mishaps < MaxMishaps /\ mishaps' = mishaps + 1

\* save_state: offset and pointers in one file; a failure is printed, and nobody is told.
Saves(offset, chats) ==
  \/ /\ state' = [offset |-> offset, chats |-> chats] /\ stale' = FALSE
     /\ UNCHANGED mishaps
  \/ /\ Mishap /\ stale' = TRUE
     /\ UNCHANGED state

(* ---- start, stop and the poller ---- *)

AtWork(b) == bots[b].works \/ bots[b].polls \/ bots[b].tool # NoChat

\* start_inner: the events go to the new bot from now on.
Starts ==
  /\ slot = 0 /\ Len(bots) < MaxStarts
  /\ Overlaps \/ \A b \in Bots : ~AtWork(b)
  /\ bots' = Append(bots, [stop |-> FALSE, polls |-> TRUE, works |-> TRUE, offset |-> state.offset,
                           batches |-> <<>>, events |-> <<>>, turns |-> <<>>,
                           queued |-> [c \in Chats |-> 0], chats |-> state.chats,
                           call |-> NoCall, todo |-> <<>>, active |-> NoChat, tool |-> NoChat])
  /\ slot' = Len(bots) + 1
  /\ tx' = Len(bots) + 1
  /\ overlap' = (overlap \/ \E b \in Bots : AtWork(b))
  /\ forgot' = (forgot \/ stale) /\ stale' = FALSE
  /\ UNCHANGED <<inbox, state, sessions, cmds, runs, lost, shared, handled, wrong, runCount, mishaps>>

\* stop: the slot is free at once; the callback is registered again, not removed.
Stops ==
  /\ slot # 0
  /\ SetBot(slot, [bots[slot] EXCEPT !.stop = TRUE])
  /\ slot' = 0
  /\ UNCHANGED <<inbox, state, tx, sessions, cmds, runs, lost, shared, handled, overlap, wrong,
                 stale, forgot, runCount, mishaps>>

\* Wrong: the offset is the last update seen.
SeenVariant(first, last) == last
\* next_offset: one more than the last update of the batch.
NextOffset(first, last) == IF last < first THEN first ELSE last + 1

\* get_updates answers with a part of what is waiting from the offset on. The offset is
\* saved before the worker gets the batch, which it gets although the write failed. The
\* last answer is that in flight when the stop flag is raised.
Polls(b) ==
  LET bot == bots[b] IN
  /\ bot.polls
  /\ \E last \in bot.offset..Len(inbox) :
       LET next == NextOffset(bot.offset, last) IN
       /\ SetBot(b, [bot EXCEPT !.offset = next, !.polls = bot.works /\ ~bot.stop,
                                !.batches = Append(@, [k \in 1..(last - bot.offset + 1) |-> bot.offset + k - 1])])
       /\ Saves(next, bot.chats)
  /\ UNCHANGED <<inbox, slot, tx, sessions, cmds, runs, lost, shared, handled, overlap, wrong,
                 forgot, runCount>>

\* The poller sees the stop flag, or the server refuses the token.
PollerEnds(b) ==
  /\ bots[b].polls
  /\ \/ bots[b].stop /\ mishaps' = mishaps
     \/ ~bots[b].stop /\ Mishap
  /\ SetBot(b, [bots[b] EXCEPT !.polls = FALSE, !.stop = TRUE])
  /\ UNCHANGED <<inbox, state, slot, tx, sessions, cmds, runs, lost, shared, handled, overlap,
                 wrong, stale, forgot, runCount>>

(* ---- the worker ---- *)

Idle(b) == bots[b].works /\ bots[b].call = NoCall /\ bots[b].todo = <<>>
Ready(b) == {c \in Chats : bots[b].queued[c] # 0 /\ ~InTurn(b, c)}

\* A batch is taken when no event waits, and its updates are handled one by one.
TakesBatch(b) ==
  LET bot == bots[b] IN
  /\ Idle(b) /\ Ready(b) = {} /\ bot.events = <<>> /\ bot.batches # <<>>
  /\ SetBot(b, [bot EXCEPT !.todo = Head(bot.batches), !.batches = Tail(@)])
  /\ UNCHANGED <<inbox, state, slot, tx, sessions, cmds, runs, lost, shared, handled, overlap,
                 wrong, stale, forgot, runCount, mishaps>>

\* The worker sees the stop flag between two batches; its end silences the relay, whoever
\* it belongs to by then.
WorkerEnds(b) ==
  /\ Idle(b) /\ Ready(b) = {} /\ bots[b].stop
  /\ SetBot(b, [bots[b] EXCEPT !.works = FALSE])
  /\ tx' = 0
  /\ UNCHANGED <<inbox, state, slot, sessions, cmds, runs, lost, shared, handled, overlap,
                 wrong, stale, forgot, runCount, mishaps>>

\* A call of the host: the command is queued and the worker waits.
Call(b, bot, kind, chat, sess, msg) ==
  /\ SetBot(b, [bot EXCEPT !.call = [pc |-> kind, chat |-> chat, sess |-> sess, msg |-> msg,
                                     answer |-> "none"]])
  /\ cmds' = Append(cmds, [bot |-> b, kind |-> kind, chat |-> chat, sess |-> sess,
                          empty |-> kind = "inject" /\ inbox[msg].kind = "empty", waited |-> TRUE])

\* Wrong: a message in the meantime starts a turn of its own.
AtOnceVariant(b, bot, chat, msg) ==
  IF bot.chats[chat] = NoSession THEN Call(b, bot, "create", chat, NoSession, msg)
  ELSE Call(b, bot, "inject", chat, bot.chats[chat], msg)
\* dispatch_free_text: one turn per chat, one message may wait behind it; a chat without
\* a session gets one first.
Dispatch(b, bot, chat, msg) ==
  IF \E k \in DOMAIN bot.turns : bot.turns[k].chat = chat
  THEN /\ SetBot(b, [bot EXCEPT !.queued[chat] = IF @ = 0 THEN msg ELSE @])
       /\ UNCHANGED cmds
  ELSE IF bot.chats[chat] = NoSession THEN Call(b, bot, "create", chat, NoSession, msg)
  ELSE Call(b, bot, "inject", chat, bot.chats[chat], msg)

\* set_chat: the pointer first, then the desktop is asked to follow, then the file is
\* written: the poller may write it in between.
SetsChat(b, bot, chat, sess) ==
  Call(b, [bot EXCEPT !.chats[chat] = sess], "switch", chat, sess, 0)

\* handle_update: /new asks for a session, /use for a session there is, and other text is
\* for the session of the chat.
HandlesUpdate(b) ==
  LET bot == [bots[b] EXCEPT !.todo = Tail(@)]
      id == Head(bots[b].todo)
      update == inbox[id] IN
  /\ bots[b].works /\ bots[b].call = NoCall /\ bots[b].todo # <<>> /\ Ready(b) = {}
  /\ handled' = Append(handled, id)
  /\ CASE update.kind \in {"text", "empty"} -> Dispatch(b, bot, update.chat, id)
       [] update.kind = "new" -> Call(b, bot, "new", update.chat, NoSession, 0)
       [] update.kind = "use" ->
            \/ SetBot(b, bot) /\ UNCHANGED cmds
            \/ \E s \in sessions : SetsChat(b, bot, update.chat, s)
  /\ UNCHANGED <<inbox, state, slot, tx, sessions, runs, lost, shared, overlap, wrong, stale,
                 forgot, runCount, mishaps>>

\* drain_queued, after every update and event: messages whose turn is over.
Drains(b) ==
  /\ bots[b].works /\ bots[b].call = NoCall
  /\ \E c \in Ready(b) :
       Dispatch(b, [bots[b] EXCEPT !.queued[c] = 0], c, bots[b].queued[c])
  /\ UNCHANGED <<inbox, state, slot, tx, sessions, runs, lost, shared, handled, overlap, wrong,
                 stale, forgot, runCount, mishaps>>

\* The answer of the host, or none in time. A new session becomes the chat's, also of one
\* that use_session pointed elsewhere meanwhile; a message that could not be delivered
\* takes the chat's session with it. Whether the desktop followed does not matter.
Returns(b) ==
  LET bot == bots[b]
      call == bot.call
      kept(s) == [bot.chats EXCEPT ![call.chat] = s]
      after(s) == [bot EXCEPT !.call = NoCall, !.chats = kept(s)] IN
  /\ bot.works /\ call # NoCall /\ call.answer # "none"
  /\ CASE call.pc = "switch" ->
            /\ SetBot(b, [bot EXCEPT !.call = NoCall]) /\ UNCHANGED cmds
            /\ Saves(bot.offset, bot.chats)
       [] call.answer = "failed" /\ call.pc = "inject" ->
            /\ SetBot(b, after(NoSession)) /\ UNCHANGED cmds
            /\ Saves(bot.offset, kept(NoSession))
       [] call.answer = "failed" /\ call.pc \in {"new", "create"} ->
            SetBot(b, [bot EXCEPT !.call = NoCall]) /\ UNCHANGED <<state, stale, mishaps, cmds>>
       [] call.answer # "failed" /\ call.pc = "inject" ->
            /\ SetBot(b, [bot EXCEPT !.call = NoCall, !.active = call.chat,
                                     !.turns = Append(@, [chat |-> call.chat, sess |-> call.sess])])
            /\ UNCHANGED <<state, stale, mishaps, cmds>>
       [] call.answer # "failed" /\ call.pc = "new" ->
            /\ SetsChat(b, bot, call.chat, call.answer)
            /\ UNCHANGED <<state, stale, mishaps>>
       [] call.answer # "failed" /\ call.pc = "create" ->
            /\ Call(b, after(call.answer), "inject", call.chat, call.answer, call.msg)
            /\ Saves(bot.offset, kept(call.answer))
  /\ UNCHANGED <<inbox, slot, tx, sessions, runs, lost, shared, handled, overlap, wrong,
                 forgot, runCount>>

\* Five seconds pass without an answer: the command stays in the queue.
TimesOut(b) ==
  /\ bots[b].works /\ bots[b].call # NoCall /\ bots[b].call.answer = "none" /\ Mishap
  /\ SetBot(b, [bots[b] EXCEPT !.call.answer = "failed"])
  /\ cmds' = [k \in DOMAIN cmds |-> IF cmds[k].bot = b THEN [cmds[k] EXCEPT !.waited = FALSE]
                                    ELSE cmds[k]]
  /\ UNCHANGED <<inbox, state, slot, tx, sessions, runs, lost, shared, handled, overlap, wrong,
                 stale, forgot, runCount>>

\* Wrong: the event is for the chat whose session it is now.
ByPointerVariant(bot, sess) == {k \in DOMAIN bot.turns : bot.chats[bot.turns[k].chat] = sess}
\* The turns an event may belong to: those of its session, as it was when they began.
TurnsOf(bot, sess) == {k \in DOMAIN bot.turns : bot.turns[k].sess = sess}

\* handle_event: the end of a run ends the first turn of its session, with a reply. A
\* chat has one turn (OneTurn), so that removing it removes the chat's.
HandlesEnd(b) ==
  LET bot == bots[b]
      event == Head(bot.events)
      turns == TurnsOf(bot, event.sess)
      first == CHOOSE k \in turns : \A j \in turns : k <= j
      chat == bot.turns[first].chat IN
  /\ Idle(b) /\ Ready(b) = {} /\ bot.events # <<>>
  /\ IF turns = {} THEN SetBot(b, [bot EXCEPT !.events = Tail(@)]) /\ UNCHANGED wrong
     ELSE /\ SetBot(b, [bot EXCEPT !.events = Tail(@), !.turns = RemoveAt(@, first),
                                   !.active = IF @ = chat THEN NoChat ELSE @])
          /\ wrong' = (wrong \/ (event.origin # chat /\ event.sess \notin shared))
  /\ UNCHANGED <<inbox, state, slot, tx, sessions, cmds, runs, lost, shared, handled, overlap,
                 stale, forgot, runCount, mishaps>>

(* ---- the tools ---- *)

\* use_session, called by some run: the session becomes that of the chat whose turn was
\* injected last, whichever chat the run answers. The desktop is asked to follow as well,
\* of which nothing here depends. At most one such call is at work at a time.
UsesSession ==
  /\ slot # 0 /\ runs # {}
  /\ LET bot == bots[slot] IN
     /\ bot.polls /\ bot.works /\ bot.active # NoChat /\ bot.tool = NoChat
     /\ \E s \in sessions :
          SetBot(slot, [bot EXCEPT !.chats[bot.active] = s, !.tool = bot.active])
  /\ UNCHANGED <<inbox, state, slot, tx, sessions, cmds, runs, lost, shared, handled, overlap,
                 wrong, stale, forgot, runCount, mishaps>>

\* The second half of its set_chat, whether or not that bot still runs.
ToolSaves(b) ==
  /\ bots[b].tool # NoChat
  /\ SetBot(b, [bots[b] EXCEPT !.tool = NoChat])
  /\ Saves(bots[b].offset, bots[b].chats)
  /\ UNCHANGED <<inbox, slot, tx, sessions, cmds, runs, lost, shared, handled, overlap, wrong,
                 forgot, runCount>>

(* ---- the desktop ---- *)

Answer(cmd, answer) ==
  bots' = IF cmd.waited THEN [bots EXCEPT ![cmd.bot].call.answer = answer] ELSE bots
Started(sess, origin, ofCall) ==
  /\ runCount < MaxRuns /\ runCount' = runCount + 1
  /\ runs' = {r \in runs : r.sess # sess} \cup {[sess |-> sess, origin |-> origin]}
  \* A run before it is cancelled, and a cancelled run sends no event.
  /\ lost' = IF \E r \in runs : r.sess = sess THEN lost \cup {sess} ELSE lost
  /\ shared' = IF ~ofCall \/ (\E r \in runs : r.sess = sess)
                  \/ (\E b \in Bots : \E k \in DOMAIN bots[b].turns :
                         bots[b].turns[k].sess = sess /\ bots[b].turns[k].chat # origin)
                  \/ (\E b \in Bots : \E k \in DOMAIN bots[b].events : bots[b].events[k].sess = sess)
               THEN shared \cup {sess} ELSE shared

\* process_host_commands: a frame runs the commands; a session is created under a new id,
\* also for a message to a session that is gone, which then is not there all the same.
RunsCommand ==
  LET cmd == Head(cmds)
      fresh == {s \in Sessions : s \notin sessions} IN
  /\ cmds # <<>>
  /\ cmds' = Tail(cmds)
  /\ CASE cmd.kind = "switch" ->
            /\ Answer(cmd, IF cmd.sess \in sessions THEN "ok" ELSE "failed")
            /\ UNCHANGED <<sessions, runs, lost, shared, runCount>>
       [] cmd.kind \in {"new", "create"} ->
            \/ Answer(cmd, "failed") /\ UNCHANGED <<sessions, runs, lost, shared, runCount>>
            \/ \E s \in fresh : /\ Answer(cmd, s) /\ sessions' = sessions \cup {s}
                                /\ UNCHANGED <<runs, lost, shared, runCount>>
       [] cmd.kind = "inject" /\ (cmd.empty \/ cmd.sess \notin sessions) ->
            /\ Answer(cmd, "failed")
            /\ \/ ~cmd.empty /\ \E s \in fresh : sessions' = sessions \cup {s}
               \/ (cmd.empty \/ fresh = {}) /\ UNCHANGED sessions
            /\ UNCHANGED <<runs, lost, shared, runCount>>
       [] cmd.kind = "inject" /\ ~cmd.empty /\ cmd.sess \in sessions ->
            /\ Answer(cmd, "ok")
            /\ Started(cmd.sess, cmd.chat, cmd.waited)
            /\ UNCHANGED sessions
  /\ UNCHANGED <<inbox, state, slot, tx, handled, overlap, wrong, stale, forgot, mishaps>>

\* A run ends and its last event is relayed.
RunEnds ==
  /\ \E r \in runs :
       /\ runs' = runs \ {r}
       /\ bots' = IF tx = 0 THEN bots
                  ELSE [bots EXCEPT ![tx].events = Append(@, [sess |-> r.sess, origin |-> r.origin])]
       /\ lost' = IF tx = 0 THEN lost \cup {r.sess} ELSE lost
  /\ UNCHANGED <<inbox, state, slot, tx, sessions, cmds, shared, handled, overlap, wrong,
                 stale, forgot, runCount, mishaps>>

\* A session is made at the desktop, or by the tool new_session.
SessionMade ==
  /\ \E s \in Sessions \ sessions : sessions' = sessions \cup {s}
  /\ UNCHANGED <<inbox, state, slot, tx, bots, cmds, runs, lost, shared, handled, overlap,
                 wrong, stale, forgot, runCount, mishaps>>

\* The user of the desktop stops the run of a session, which sends no event, or sends a
\* message there, or deletes the session.
DesktopStops ==
  /\ Mishap
  /\ \E r \in runs : runs' = runs \ {r} /\ lost' = lost \cup {r.sess}
  /\ UNCHANGED <<inbox, state, slot, tx, bots, sessions, cmds, shared, handled, overlap, wrong,
                 stale, forgot, runCount>>

DesktopSends ==
  /\ Mishap
  /\ \E s \in sessions : Started(s, "desktop", FALSE)
  /\ UNCHANGED <<inbox, state, slot, tx, bots, sessions, cmds, handled, overlap, wrong, stale,
                 forgot>>

DesktopDeletes ==
  /\ Mishap
  /\ \E s \in sessions : /\ sessions' = sessions \ {s}
                         /\ runs' = {r \in runs : r.sess # s}
                         /\ lost' = lost \cup {s}
  /\ UNCHANGED <<inbox, state, slot, tx, bots, cmds, shared, handled, overlap, wrong, stale,
                 forgot, runCount>>

\* The process ends; the plugin starts with the next one.
Crashes ==
  /\ Mishap
  /\ slot' = 0 /\ tx' = 0
  /\ bots' = [b \in Bots |-> [bots[b] EXCEPT !.stop = TRUE, !.polls = FALSE, !.works = FALSE,
                                          !.tool = NoChat]]
  /\ cmds' = <<>> /\ runs' = {}
  /\ UNCHANGED <<inbox, state, sessions, lost, shared, handled, overlap, wrong, stale, forgot,
                 runCount>>

Writes ==
  /\ Len(inbox) < MaxUpdates
  /\ \E c \in Chats, k \in Kinds : inbox' = Append(inbox, [chat |-> c, kind |-> k])
  /\ UNCHANGED <<state, slot, tx, bots, sessions, cmds, runs, lost, shared, handled, overlap,
                 wrong, stale, forgot, runCount, mishaps>>

Init ==
  /\ inbox = <<>> /\ bots = <<>> /\ cmds = <<>> /\ handled = <<>>
  /\ state = [offset |-> 1, chats |-> [c \in Chats |-> NoSession]]
  /\ slot = 0 /\ tx = 0
  /\ sessions = {} /\ runs = {} /\ lost = {} /\ shared = {}
  /\ overlap = FALSE /\ wrong = FALSE /\ stale = FALSE /\ forgot = FALSE
  /\ runCount = 0 /\ mishaps = 0

Worker(b) == TakesBatch(b) \/ HandlesUpdate(b) \/ Drains(b) \/ Returns(b) \/ HandlesEnd(b)

Next ==
  \/ Writes \/ Starts \/ Stops \/ RunsCommand \/ RunEnds
  \/ SessionMade \/ DesktopStops \/ DesktopSends \/ DesktopDeletes \/ Crashes \/ UsesSession
  \/ \E b \in Bots : Polls(b) \/ PollerEnds(b) \/ WorkerEnds(b) \/ TimesOut(b) \/ ToolSaves(b)
                     \/ TakesBatch(b) \/ HandlesUpdate(b) \/ Drains(b) \/ Returns(b) \/ HandlesEnd(b)

Spec == Init /\ [][Next]_telegramVars
\* Threads go on, frames are drawn and runs end.
FairSpec ==
  /\ Spec
  /\ WF_telegramVars(RunsCommand) /\ WF_telegramVars(RunEnds)
  /\ \A b \in 1..MaxStarts : WF_telegramVars(b \in Bots /\ Worker(b))

-----------------------------------------------------------------------------
\* No update is handled twice or out of order, restarts included, unless the threads of
\* two starts overlap or the last write before a restart failed.
HandledOnce == overlap \/ forgot \/ \A j, k \in DOMAIN handled : j < k => handled[j] < handled[k]

\* A chat has one turn at most.
OneTurn ==
  \A b \in Bots : \A j, k \in DOMAIN bots[b].turns :
    bots[b].turns[j].chat = bots[b].turns[k].chat => j = k

\* The turn of a chat ends: its session has a run, or the end of one is on its way,
\* unless the desktop's user or another start took the event away.
TurnsEnd ==
  \A b \in Bots : \A k \in DOMAIN bots[b].turns :
    LET s == bots[b].turns[k].sess IN
    \/ overlap \/ ~bots[b].works \/ bots[b].stop \/ s \in lost \cup shared
    \/ \E r \in runs : r.sess = s
    \/ \E j \in DOMAIN bots[b].events : bots[b].events[j].sess = s

\* A reply goes to the chat whose message the run answers, unless the session was asked by
\* several at once or threads of two starts were at work, and whatever sessions the chats
\* point at by then.
RepliesToAsker == overlap \/ ~wrong

\* A set_chat of the chat is between its pointer and its write.
Pointing(b, c) == bots[b].tool = c \/ (bots[b].call # NoCall /\ bots[b].call.pc = "switch" /\ bots[b].call.chat = c)

\* What a running bot knows of the chats is in the file, once no set_chat is at work and
\* unless the last write failed: worker, poller and tool write the file in any order.
StateKept ==
  \/ overlap \/ stale
  \/ \A b \in Bots : bots[b].works =>
       \A c \in Chats : bots[b].chats[c] = state.chats[c] \/ Pointing(b, c)

BotSound == HandledOnce /\ OneTurn /\ TurnsEnd /\ RepliesToAsker /\ StateKept

\* Stated, and not so: "got it (I'll continue with it once the current request is done)".
QueuedContinues ==
  \A c \in Chats :
    (Bots = {1} /\ bots[1].queued[c] # 0) ~> (Bots # {1} \/ bots[1].queued[c] = 0 \/ bots[1].stop)

=============================================================================

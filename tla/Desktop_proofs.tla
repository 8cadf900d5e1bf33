---------------------------- MODULE Desktop_proofs ----------------------------
(***************************************************************************)
(* Theorems about the desktop around a chat. The parts of MC_Desktop share *)
(* no variable, so each invariant is proved of its part alone.             *)
(***************************************************************************)
EXTENDS MC_Desktop, SequenceTheorems, WellFoundedInduction, TLAPS

-----------------------------------------------------------------------------
(* Two rounds that reuse a call id (ToolRuns). The steps proved of ToolRuns *)
(* are steps of the part of the desktop, which is the same instance.        *)

Proved == INSTANCE ToolRuns_proofs

LEMMA RoundsInit == ASSUME Reuse!Init PROVE Proved!IInv
BY Proved!InitSound, NoneAssumption, BoundAssumption, IdAssumption
   DEF Reuse!Init, Proved!Init, Reuse!Slots, Proved!Slots

LEMMA SameStep == ASSUME [Reuse!Next]_(Reuse!vars) PROVE [Proved!Next]_(Proved!vars)
<1>1. ASSUME Reuse!StreamStep PROVE Proved!StreamStep
  BY <1>1
    DEF Reuse!StreamStep, Proved!StreamStep, Reuse!StreamCall,
        Proved!StreamCall, Reuse!Streamed, Proved!Streamed, Reuse!Start,
        Proved!Start, Reuse!Slots, Proved!Slots, Reuse!Inserted,
        Proved!Inserted, Reuse!CallOf, Proved!CallOf, Reuse!Register,
        Proved!Register, Reuse!LastReady, Proved!LastReady, Reuse!Ready,
        Proved!Ready, Reuse!Startable, Proved!Startable, Reuse!userVars,
        Proved!userVars, Reuse!Calls, Proved!Calls, Reuse!Shapes,
        Proved!Shapes, Reuse!TextRounds, Proved!TextRounds,
        Reuse!StreamEndsText, Proved!StreamEndsText, Reuse!taskVars,
        Proved!taskVars, Reuse!tokenVars, Proved!tokenVars, Reuse!MovePast,
        Proved!MovePast, Reuse!loopVars, Proved!loopVars, Reuse!StreamEnds,
        Proved!StreamEnds, Reuse!Answer, Proved!Answer, Reuse!Overflow,
        Proved!Overflow, Reuse!AbortAll, Proved!AbortAll, Reuse!InFlight,
        Proved!InFlight, Reuse!FirstFails, Proved!FirstFails, Reuse!RetryFails,
        Proved!RetryFails, Reuse!StreamStopped, Proved!StreamStopped
<1>2. ASSUME Reuse!CollectStep PROVE Proved!CollectStep
  BY <1>2
    DEF Reuse!CollectStep, Proved!CollectStep, Reuse!StartRest,
        Proved!StartRest, Reuse!Start, Proved!Start, Reuse!Slots, Proved!Slots,
        Reuse!Inserted, Proved!Inserted, Reuse!CallOf, Proved!CallOf,
        Reuse!Register, Proved!Register, Reuse!Truncated, Proved!Truncated,
        Reuse!Streamed, Proved!Streamed, Reuse!Startable, Proved!Startable,
        Reuse!userVars, Proved!userVars, Reuse!CollectStopped,
        Proved!CollectStopped, Reuse!AbortAll, Proved!AbortAll, Reuse!InFlight,
        Proved!InFlight, Reuse!CollectTruncated, Proved!CollectTruncated,
        Reuse!Collecting, Proved!Collecting, Reuse!Taken, Proved!Taken,
        Reuse!Cur, Proved!Cur, Reuse!tokenVars, Proved!tokenVars,
        Reuse!CollectTake, Proved!CollectTake, Reuse!taskVars, Proved!taskVars,
        Reuse!CollectInline, Proved!CollectInline, Reuse!Record, Proved!Record,
        Reuse!CollectEnd, Proved!CollectEnd, Reuse!LoopStopped,
        Proved!LoopStopped, Reuse!NextRound, Proved!NextRound
<1>3. ASSUME NEW c, Reuse!TaskStep(c) PROVE Proved!TaskStep(c)
  BY <1>3
    DEF Reuse!TaskStep, Proved!TaskStep, Reuse!TaskBegin, Proved!TaskBegin,
        Reuse!CallOf, Proved!CallOf, Reuse!Deregister, Proved!Deregister,
        Reuse!Cur, Proved!Cur, Reuse!loopVars, Proved!loopVars, Reuse!userVars,
        Proved!userVars, Reuse!TaskDone, Proved!TaskDone, Reuse!TaskCancelled,
        Proved!TaskCancelled, Reuse!InFlight, Proved!InFlight, Reuse!Cancelled,
        Proved!Cancelled
<1>4. ASSUME NEW c, Reuse!BodyEnds(c) PROVE Proved!BodyEnds(c)
  BY <1>4
    DEF Reuse!BodyEnds, Proved!BodyEnds, Reuse!loopVars, Proved!loopVars,
        Reuse!tokenVars, Proved!tokenVars, Reuse!userVars, Proved!userVars
<1>5. ASSUME NEW id, Reuse!StopCall(id) PROVE Proved!StopCall(id)
  BY <1>5
    DEF Reuse!StopCall, Proved!StopCall, Reuse!Slots, Proved!Slots,
        Reuse!InFlight, Proved!InFlight, Reuse!loopVars, Proved!loopVars,
        Reuse!taskVars, Proved!taskVars
<1>6. ASSUME Reuse!RunDropped PROVE Proved!RunDropped
  BY <1>6
    DEF Reuse!RunDropped, Proved!RunDropped, Reuse!InFlight, Proved!InFlight,
        Reuse!Cur, Proved!Cur, Reuse!tokenVars, Proved!tokenVars,
        Reuse!userVars, Proved!userVars
<1>7. ASSUME Reuse!StopRun PROVE Proved!StopRun
  BY <1>7
    DEF Reuse!StopRun, Proved!StopRun, Reuse!loopVars, Proved!loopVars,
        Reuse!taskVars, Proved!taskVars, Reuse!tokenVars, Proved!tokenVars
<1>8. Reuse!Slots = Proved!Slots
  BY DEF Reuse!Slots, Proved!Slots
<1>9. ASSUME UNCHANGED Reuse!vars PROVE UNCHANGED Proved!vars
  BY <1>9 DEF Reuse!vars, Proved!vars
<1> QED
  BY <1>1, <1>2, <1>3, <1>4, <1>5, <1>6, <1>7, <1>8, <1>9 DEF Reuse!Next, Proved!Next

\* The Stop button of a card reaches the call of the card, although a later round
\* repeats its id (PendingToolRuns::start, CancelRegistry::register): proved of every
\* interleaving of the rounds, by the inductive invariant of the tool runs.
THEOREM CardsReachTheirCalls == Spec => []CallsReached
<1> DEFINE Held == part = "rounds" => Proved!IInv
<1>1. Init => Held
  BY RoundsInit DEF Init
<1>2. ASSUME Held, [Next]_vars PROVE Held'
  <2>1. CASE part # "rounds"
    BY <2>1, <1>2 DEF Next, vars
  <2>2. CASE part = "rounds"
    <3>1. [Reuse!Next]_(Reuse!vars)
      BY <2>2, <1>2 DEF Next, vars, roundsVars, Reuse!vars
    <3>2. Proved!IInv'
      BY <3>1, <2>2, <1>2, SameStep, Proved!StepSound, NoneAssumption, BoundAssumption, IdAssumption
    <3> QED
      BY <3>2
  <2> QED
    BY <2>1, <2>2
<1>3. Held => CallsReached
  <2>1. Proved!IInv => Proved!AddressedById
    BY DEF Proved!IInv, Proved!Sound, Proved!Addressed, Proved!AddressedById
  <2>2. Proved!AddressedById => Reuse!AddressedById
    BY DEF Proved!AddressedById, Reuse!AddressedById, Proved!Slots, Reuse!Slots, Proved!InFlight,
           Reuse!InFlight, Proved!Cur, Reuse!Cur, Proved!CallOf, Reuse!CallOf
  <2> QED
    BY <2>1, <2>2 DEF CallsReached
<1> QED
  BY <1>1, <1>2, <1>3, PTL DEF Spec

-----------------------------------------------------------------------------
(* The Telegram bot (TelegramBot).                                         *)

Words == {"none", "failed", "ok"}
Names == Sessions \cup Words
CallKinds == {"inject", "create", "new", "switch"}
Asked == [pc : CallKinds, chat : Chats, sess : Names, msg : Nat, answer : Names]
Turn == [chat : Chats, sess : Names]
Ended == [sess : Names, origin : Chats \cup {"desktop"}]
BotType ==
  [stop : BOOLEAN, polls : BOOLEAN, works : BOOLEAN, offset : Nat \ {0}, batches : Seq(Seq(Nat)),
   events : Seq(Ended), turns : Seq(Turn), queued : [Chats -> Nat], chats : [Chats -> Names],
   call : Asked \cup {Bot!NoCall}, todo : Seq(Nat), active : Chats \cup {Bot!NoChat},
   tool : Chats \cup {Bot!NoChat}]
CmdType ==
  [bot : Nat, kind : CallKinds, chat : Chats, sess : Names, empty : BOOLEAN,
   waited : BOOLEAN]

(* What holds of every bot, whichever threads overlap.                     *)

\* The updates a bot has before it are messages there are, below its offset.
Fetched(bot, n) ==
  /\ bot.offset <= n + 1
  /\ \A i \in DOMAIN bot.todo : bot.todo[i] \in 1..(bot.offset - 1)
  /\ \A j \in DOMAIN bot.batches : \A i \in DOMAIN bot.batches[j] :
       bot.batches[j][i] \in 1..(bot.offset - 1)

\* A chat has one turn, and no call that will begin one besides it.
OneEach(bot) ==
  /\ \A j, k \in DOMAIN bot.turns : bot.turns[j].chat = bot.turns[k].chat => j = k
  /\ bot.call # Bot!NoCall /\ bot.call.pc \in {"inject", "create"}
       => \A k \in DOMAIN bot.turns : bot.turns[k].chat # bot.call.chat

GoodBot(bot, n) == bot \in BotType /\ Fetched(bot, n) /\ OneEach(bot)

Good ==
  /\ inbox \in Seq([chat : Chats, kind : Bot!Kinds])
  /\ state \in [offset : Nat \ {0}, chats : [Chats -> Names]]
  /\ state.offset <= Len(inbox) + 1
  /\ slot \in 0..Len(bots) /\ tx \in 0..Len(bots)
  /\ bots \in Seq(BotType)
  /\ \A b \in 1..Len(bots) : GoodBot(bots[b], Len(inbox))
  /\ sessions \subseteq Names
  /\ cmds \in Seq(CmdType)
  /\ runs \subseteq Ended
  /\ handled \in Seq(Nat)
  /\ overlap \in BOOLEAN

\* A command somebody waits for is the call of its bot, which works.
Awaits(cmd) ==
  LET bot == bots[cmd.bot] IN
  /\ cmd.bot \in 1..Len(bots) /\ bot.works /\ bot.call # Bot!NoCall
  /\ bot.call.pc = cmd.kind /\ bot.call.chat = cmd.chat
  /\ bot.call.sess = cmd.sess /\ bot.call.answer = "none"
Waiting ==
  /\ \A k \in DOMAIN cmds : cmds[k].waited => Awaits(cmds[k])
  /\ \A j, k \in DOMAIN cmds :
       cmds[j].waited /\ cmds[k].waited /\ cmds[j].bot = cmds[k].bot => j = k

(* What holds as long as no two starts overlap.                            *)

\* Only the bot started last has threads.
Threads(bot) == bot.works \/ bot.polls \/ bot.tool # Bot!NoChat
Alone ==
  /\ tx \in {0, Len(bots)}
  /\ \A b \in 1..Len(bots) : b # Len(bots) => ~Threads(bots[b])

\* Unless the last write failed, the file holds what that bot knows, but for the chats of
\* which a set_chat is between its pointer and its write.
Pends(bot, c) ==
  bot.tool = c \/ (bot.call # Bot!NoCall /\ bot.call.pc = "switch" /\ bot.call.chat = c)
Recorded(bot, saved) ==
  /\ saved.offset = bot.offset
  /\ bot.works => \A c \in Chats : bot.chats[c] = saved.chats[c] \/ Pends(bot, c)
Kept == stale \/ (Len(bots) > 0 => Recorded(bots[Len(bots)], state))

\* What a step may do to the pointers without a write: such a set_chat stays, or begins.
Points(bot, was) ==
  \A c \in Chats : Pends(bot, c) \/ (bot.chats[c] = was.chats[c] /\ ~Pends(was, c))

\* What is to be handled comes after what has been, in the order of the updates.
InOrder(s) == \A j, k \in DOMAIN s : j < k => s[j] < s[k]
Before(s, t) == \A j \in DOMAIN s, k \in DOMAIN t : s[j] < t[k]
Later(bot, done) ==
  /\ InOrder(bot.todo) /\ Before(done, bot.todo)
  /\ \A j \in DOMAIN bot.batches : /\ InOrder(bot.batches[j]) /\ Before(done, bot.batches[j])
                                   /\ Before(bot.todo, bot.batches[j])
  /\ \A j, k \in DOMAIN bot.batches : j < k => Before(bot.batches[j], bot.batches[k])
OrderedBot(bot, done) ==
  InOrder(done) /\ (\A k \in DOMAIN done : done[k] < bot.offset) /\ Later(bot, done)
Ordered ==
  forgot \/ IF Len(bots) = 0 THEN handled = <<>> ELSE OrderedBot(bots[Len(bots)], handled)

\* A message whose call came back, or whose turn is on, claims its session. A session that
\* is not shared has one claim, what runs or ended there has the origin of the claim, and
\* the claim of a bot that works will be met.
Delivered(bot) ==
  bot.call # Bot!NoCall /\ bot.call.pc = "inject" /\ bot.call.answer \notin {"none", "failed"}
Claims(bot, s, c) ==
  \/ \E k \in DOMAIN bot.turns : bot.turns[k].sess = s /\ bot.turns[k].chat = c
  \/ Delivered(bot) /\ bot.call.sess = s /\ bot.call.chat = c
OneClaim(bot, s) ==
  /\ \A j, k \in DOMAIN bot.turns : bot.turns[j].sess = s /\ bot.turns[k].sess = s => j = k
  /\ Delivered(bot) /\ bot.call.sess = s => \A k \in DOMAIN bot.turns : bot.turns[k].sess # s
Faithful(bot, running, s) ==
  \A c \in Chats : Claims(bot, s, c) =>
    /\ \A r \in running : r.sess = s => r.origin = c
    /\ \A k \in DOMAIN bot.events : bot.events[k].sess = s => bot.events[k].origin = c
Met(bot, running, away, s) ==
  (\E c \in Chats : Claims(bot, s, c)) =>
    \/ s \in away \/ \E r \in running : r.sess = s
    \/ \E k \in DOMAIN bot.events : bot.events[k].sess = s
Answering(bot, running, gone, several) ==
  \A s \in Names :
    /\ s \notin several => OneClaim(bot, s) /\ Faithful(bot, running, s)
    /\ bot.works => Met(bot, running, gone \cup several, s)
Answered == Len(bots) > 0 => Answering(bots[Len(bots)], runs, lost, shared)

BotInv == Good /\ Waiting /\ (overlap \/ (Alone /\ Kept /\ Ordered /\ ~wrong /\ Answered))

(* Lemmas about changing one bot.                                          *)

SetTo(b, f) ==
  /\ bots' \in Seq(BotType) /\ Len(bots') = Len(bots) /\ bots'[b] = f
  /\ \A x \in 1..Len(bots) : x # b => bots'[x] = bots[x]
  /\ \A x \in 1..Len(bots) : GoodBot(bots'[x], Len(inbox))

LEMMA OneSet ==
  ASSUME Good, NEW b \in 1..Len(bots), NEW f, GoodBot(f, Len(inbox)),
         bots' = [bots EXCEPT ![b] = f]
  PROVE  SetTo(b, f)
<1>1. bots \in Seq(BotType) /\ f \in BotType
  BY DEF Good, GoodBot
<1>2. bots' \in Seq(BotType) /\ Len(bots') = Len(bots) /\ bots'[b] = f
      /\ \A x \in 1..Len(bots) : x # b => bots'[x] = bots[x]
  BY <1>1, ExceptSeq
<1>3. ASSUME NEW x \in 1..Len(bots) PROVE GoodBot(bots'[x], Len(inbox))
  BY <1>2 DEF Good
<1> QED
  BY <1>2, <1>3 DEF SetTo

\* A bot that awaits nothing.
Unawaited(b) == \A k \in DOMAIN cmds : cmds[k].waited => cmds[k].bot # b

LEMMA NotAwaited ==
  ASSUME Waiting, NEW b,
         bots[b].call = Bot!NoCall \/ ~bots[b].works \/ bots[b].call.answer # "none"
  PROVE  Unawaited(b)
BY DEF Waiting, Awaits, Unawaited

LEMMA StillWaiting ==
  ASSUME Waiting, NEW b \in 1..Len(bots), NEW f, SetTo(b, f), cmds' = cmds,
         Unawaited(b) \/ (f.call = bots[b].call /\ f.works = bots[b].works)
  PROVE  Waiting'
<1>1. ASSUME NEW k \in DOMAIN cmds, cmds[k].waited
      PROVE  Awaits(cmds[k])'
  <2>1. Awaits(cmds[k])
    BY <1>1 DEF Waiting
  <2>2. CASE cmds[k].bot = b
    BY <1>1, <2>1, <2>2 DEF Awaits, Unawaited, SetTo
  <2>3. CASE cmds[k].bot # b
    BY <1>1, <2>1, <2>3 DEF Awaits, SetTo
  <2> QED
    BY <2>2, <2>3
<1> QED
  BY <1>1 DEF Waiting

LEMMA OneMoreWaiting ==
  ASSUME Good, Waiting, NEW b \in 1..Len(bots), NEW f, SetTo(b, f), Unawaited(b),
         NEW cmd \in CmdType, cmds' = Append(cmds, cmd), cmd.bot = b, f.works, f.call # Bot!NoCall,
         f.call.pc = cmd.kind, f.call.chat = cmd.chat, f.call.sess = cmd.sess,
         f.call.answer = "none"
  PROVE  Waiting' /\ cmds' \in Seq(CmdType)
<1>1. cmds \in Seq(CmdType) /\ cmds' \in Seq(CmdType) /\ Len(cmds') = Len(cmds) + 1
      /\ \A k \in 1..Len(cmds) : cmds'[k] = cmds[k] /\ cmds'[Len(cmds) + 1] = cmd
  BY AppendProperties DEF Good
<1>2. DOMAIN cmds = 1..Len(cmds) /\ DOMAIN cmds' = 1..(Len(cmds) + 1) /\ cmds'[Len(cmds) + 1] = cmd
  BY <1>1
<1>3. ASSUME NEW k \in DOMAIN cmds', cmds'[k].waited
      PROVE  Awaits(cmds[k])'
  <2>1. CASE k = Len(cmds) + 1
    BY <2>1, <1>2 DEF Awaits, SetTo
  <2>2. CASE k # Len(cmds) + 1
    <3>1. k \in DOMAIN cmds /\ cmds'[k] = cmds[k]
      BY <2>2, <1>1, <1>2
    <3>2. Awaits(cmds[k]) /\ cmds[k].bot # b
      BY <3>1, <1>3 DEF Waiting, Unawaited
    <3> QED
      BY <3>1, <3>2 DEF Awaits, SetTo
  <2> QED
    BY <2>1, <2>2
<1>4. ASSUME NEW j \in DOMAIN cmds', NEW k \in DOMAIN cmds', cmds'[j].waited, cmds'[k].waited,
             cmds'[j].bot = cmds'[k].bot
      PROVE  j = k
  BY <1>1, <1>2, <1>4 DEF Waiting, Unawaited
<1> QED
  BY <1>1, <1>3, <1>4 DEF Waiting

(* Lemmas about claims.                                                    *)

LEMMA NoMoreClaims ==
  ASSUME NEW bot, NEW now, now.turns = bot.turns,
         Delivered(now) => Delivered(bot) /\ now.call.sess = bot.call.sess /\ now.call.chat = bot.call.chat
  PROVE  \A s, c : Claims(now, s, c) => Claims(bot, s, c)
BY DEF Claims

LEMMA StillAnswering ==
  ASSUME NEW bot, NEW now, NEW running, NEW gone, NEW several, NEW running2, NEW gone2, NEW several2,
         Answering(bot, running, gone, several), now.turns = bot.turns, now.events = bot.events,
         now.works => bot.works,
         Delivered(now) => Delivered(bot) /\ now.call.sess = bot.call.sess /\ now.call.chat = bot.call.chat,
         running2 \subseteq running, gone \subseteq gone2, several \subseteq several2,
         now.works => \A r \in running : r \in running2 \/ r.sess \in gone2
  PROVE  Answering(now, running2, gone2, several2)
<1>1. \A s, c : Claims(now, s, c) => Claims(bot, s, c)
  BY NoMoreClaims
<1>2. ASSUME NEW s \in Names, s \notin several2 PROVE OneClaim(now, s)
  BY <1>2 DEF Answering, OneClaim
<1>3. ASSUME NEW s \in Names, s \notin several2 PROVE Faithful(now, running2, s)
  BY <1>1, <1>3 DEF Answering, Faithful
<1>4. ASSUME NEW s \in Names, now.works PROVE Met(now, running2, gone2 \cup several2, s)
  BY <1>1, <1>4 DEF Answering, Met
<1> QED
  BY <1>2, <1>3, <1>4 DEF Answering

(* Lemmas about a step of one bot.                                         *)

LEMMA GoodAfter ==
  ASSUME Good, NEW b \in 1..Len(bots), NEW f, SetTo(b, f), inbox' = inbox,
         state' \in [offset : Nat \ {0}, chats : [Chats -> Names]], state'.offset <= Len(inbox) + 1,
         slot' \in 0..Len(bots), tx' \in 0..Len(bots), sessions' \subseteq Names,
         cmds' \in Seq(CmdType), runs' \subseteq Ended, handled' \in Seq(Nat), overlap' \in BOOLEAN
  PROVE  Good'
BY DEF Good, SetTo

LEMMA StillAlone ==
  ASSUME Good, Alone, NEW b \in 1..Len(bots), NEW f, SetTo(b, f), tx' \in {0, tx}, Threads(bots[b])
  PROVE  Alone'
<1>1. b = Len(bots)
  BY DEF Alone
<1>2. Len(bots') = Len(bots) /\ \A x \in 1..Len(bots) : x # Len(bots) => bots'[x] = bots[x]
  BY <1>1 DEF SetTo
<1> QED
  BY <1>2 DEF Alone

LEMMA StillKept ==
  ASSUME Good, Kept, NEW b \in 1..Len(bots), NEW f, SetTo(b, f), f.offset = bots[b].offset,
         f.works => bots[b].works, Points(f, bots[b]), state' = state, stale' = stale
  PROVE  Kept'
<1>1. CASE b = Len(bots)
  <2>1. stale \/ Recorded(f, state)
    BY <1>1 DEF Kept, Recorded, Points
  <2> QED
    BY <2>1, <1>1 DEF Kept, SetTo
<1>2. CASE b # Len(bots)
  <2>1. Len(bots) > 0 /\ Len(bots') = Len(bots) /\ bots'[Len(bots)] = bots[Len(bots)]
    BY <1>2 DEF SetTo, Good
  <2> QED
    BY <2>1 DEF Kept
<1> QED
  BY <1>1, <1>2

\* A write that succeeds or fails.
LEMMA Written ==
  ASSUME NEW b \in 1..Len(bots), NEW f, SetTo(b, f), b = Len(bots),
         state' = [offset |-> f.offset, chats |-> f.chats] \/ stale'
  PROVE  Kept'
<1>1. state' = [offset |-> f.offset, chats |-> f.chats] => Recorded(f, state')
  BY DEF Recorded
<1> QED
  BY <1>1 DEF Kept, SetTo

LEMMA SamePoints ==
  ASSUME NEW bot, NEW f, f.chats = bot.chats, f.tool = bot.tool,
         \/ f.call = bot.call
         \/ bot.call = Bot!NoCall
         \/ bot.call.pc # "switch"
  PROVE  Points(f, bot)
BY DEF Points, Pends

LEMMA StillOrdered ==
  ASSUME Good, Ordered, NEW b \in 1..Len(bots), NEW f, SetTo(b, f), handled' = handled,
         forgot' = forgot, f.todo = bots[b].todo, f.batches = bots[b].batches,
         f.offset = bots[b].offset
  PROVE  Ordered'
<1>1. CASE b = Len(bots)
  <2>1. OrderedBot(bots[b], handled) => OrderedBot(f, handled)
    BY <1>1 DEF OrderedBot, Later
  <2> QED
    BY <2>1, <1>1 DEF Ordered, SetTo
<1>2. CASE b # Len(bots)
  <2>1. Len(bots) > 0 /\ bots'[Len(bots)] = bots[Len(bots)]
    BY <1>2 DEF SetTo, Good
  <2> QED
    BY <2>1 DEF Ordered, SetTo
<1> QED
  BY <1>1, <1>2

LEMMA StillAnswered ==
  ASSUME Good, Answered, NEW b \in 1..Len(bots), NEW f, SetTo(b, f),
         f.turns = bots[b].turns, f.events = bots[b].events, f.works => bots[b].works,
         Delivered(f) => Delivered(bots[b]) /\ f.call.sess = bots[b].call.sess
                                            /\ f.call.chat = bots[b].call.chat,
         runs' \subseteq runs, \A r \in runs : r \in runs' \/ r.sess \in lost',
         lost \subseteq lost', shared \subseteq shared'
  PROVE  Answered'
<1>1. CASE b = Len(bots)
  <2>1. Answering(bots[b], runs, lost, shared)
    BY <1>1 DEF Answered
  <2>2. Answering(f, runs', lost', shared')
    BY <2>1, StillAnswering
  <2> QED
    BY <2>2, <1>1 DEF Answered, SetTo
<1>2. CASE b # Len(bots)
  <2>1. Answering(bots[Len(bots)], runs, lost, shared) /\ bots'[Len(bots)] = bots[Len(bots)]
    BY <1>2 DEF Answered, SetTo, Good
  <2>2. Answering(bots[Len(bots)], runs', lost', shared')
    BY <2>1, StillAnswering
  <2> QED
    BY <2>1, <2>2 DEF Answered, SetTo
<1> QED
  BY <1>1, <1>2

(* The steps.                                                              *)

LEMMA BotStops == ASSUME BotInv, Bot!Stops PROVE BotInv'
<1> DEFINE f == [bots[slot] EXCEPT !.stop = TRUE]
<1>1. slot \in 1..Len(bots) /\ Good /\ Waiting
  BY DEF BotInv, Good, Bot!Stops
<1>2. GoodBot(f, Len(inbox)) /\ f.call = bots[slot].call /\ f.works = bots[slot].works
      /\ f.polls = bots[slot].polls
      /\ f.turns = bots[slot].turns /\ f.events = bots[slot].events /\ f.todo = bots[slot].todo
      /\ f.batches = bots[slot].batches /\ f.offset = bots[slot].offset /\ f.chats = bots[slot].chats
      /\ f.tool = bots[slot].tool
  <2>1. GoodBot(bots[slot], Len(inbox))
    BY <1>1 DEF Good
  <2> QED
    BY <2>1 DEF GoodBot, BotType, Fetched, OneEach
<1>3. bots' = [bots EXCEPT ![slot] = f]
  BY DEF Bot!Stops, Bot!SetBot
<1> HIDE DEF f
<1>4. SetTo(slot, f)
  BY <1>1, <1>2, <1>3, OneSet
<1>5. Good' /\ Waiting'
  BY <1>1, <1>2, <1>4, GoodAfter, StillWaiting DEF Bot!Stops, Good
<1>6. ASSUME ~overlap PROVE Alone' /\ Kept' /\ Ordered' /\ ~wrong' /\ Answered'
  <2>1. Alone'
    BY <1>1, <1>2, <1>4, <1>6 DEF BotInv, Alone, Threads, SetTo, Bot!Stops
  <2>5. Kept'
    <3>1. Points(f, bots[slot])
      BY <1>2, SamePoints
    <3> QED
      BY <1>1, <1>2, <1>4, <1>6, <3>1, StillKept DEF BotInv, Bot!Stops
  <2>2. Ordered'
    BY <1>1, <1>2, <1>4, <1>6, StillOrdered DEF BotInv, Bot!Stops
  <2>3. Delivered(f) <=> Delivered(bots[slot])
    BY <1>2 DEF Delivered
  <2>4. Answered'
    BY <1>1, <1>2, <1>4, <1>6, <2>3, StillAnswered DEF BotInv, Bot!Stops
  <2> QED
    BY <2>1, <2>2, <2>4, <2>5, <1>6 DEF BotInv, Bot!Stops
<1> QED
  BY <1>5, <1>6 DEF BotInv, Bot!Stops

LEMMA QuietStep ==
  ASSUME BotInv, NEW b \in 1..Len(bots), NEW f, GoodBot(f, Len(inbox)),
         bots' = [bots EXCEPT ![b] = f], Threads(bots[b]), f.tool = bots[b].tool,
         f.works => bots[b].works, f.turns = bots[b].turns, f.events = bots[b].events,
         f.offset = bots[b].offset, f.chats = bots[b].chats,
         Later(bots[b], handled) => Later(f, handled),
         f.call = bots[b].call, Unawaited(b) \/ f.works = bots[b].works,
         tx' \in {0, tx}, inbox' = inbox, state' = state, slot' = slot, sessions' = sessions,
         cmds' = cmds, runs' = runs, lost' = lost, shared' = shared, handled' = handled,
         overlap' = overlap, wrong' = wrong, stale' = stale, forgot' = forgot
  PROVE  BotInv'
<1>1. SetTo(b, f) /\ Good /\ Waiting
  BY OneSet DEF BotInv
<1>2. Good' /\ Waiting'
  <2>1. /\ state' \in [offset : Nat \ {0}, chats : [Chats -> Names]]
        /\ state'.offset <= Len(inbox) + 1
        /\ slot' \in 0..Len(bots) /\ tx' \in 0..Len(bots) /\ sessions' \subseteq Names
        /\ cmds' \in Seq(CmdType) /\ runs' \subseteq Ended /\ handled' \in Seq(Nat)
        /\ overlap' \in BOOLEAN
    BY <1>1 DEF Good
  <2>2. Good'
    BY <1>1, <2>1, GoodAfter
  <2>3. Waiting'
    BY <1>1, StillWaiting
  <2> QED
    BY <2>2, <2>3
<1>3. ASSUME ~overlap PROVE Alone' /\ Kept' /\ Ordered' /\ Answered'
  <2>1. Alone /\ Kept /\ Ordered /\ Answered /\ b = Len(bots)
    BY <1>3 DEF BotInv, Alone
  <2>2. Alone'
    BY <1>1, <2>1, StillAlone
  <2>6. Points(f, bots[b])
    BY SamePoints
  <2>7. Kept'
    BY <1>1, <2>1, <2>6, StillKept
  <2>8. OrderedBot(bots[b], handled) => OrderedBot(f, handled)
    BY DEF OrderedBot
  <2>3. Ordered'
    BY <1>1, <2>1, <2>8 DEF Ordered, SetTo
  <2>4. Delivered(f) <=> Delivered(bots[b])
    BY DEF Delivered
  <2>5. Answered'
    BY <1>1, <2>1, <2>4, StillAnswered
  <2> QED
    BY <2>2, <2>3, <2>5, <2>7
<1> QED
  BY <1>2, <1>3 DEF BotInv

LEMMA BotPollerEnds == ASSUME BotInv, NEW b \in 1..Len(bots), Bot!PollerEnds(b) PROVE BotInv'
<1> DEFINE f == [bots[b] EXCEPT !.polls = FALSE, !.stop = TRUE]
<1>1. GoodBot(bots[b], Len(inbox)) /\ bots[b].polls /\ bots' = [bots EXCEPT ![b] = f]
  BY DEF BotInv, Good, Bot!PollerEnds, Bot!SetBot
<1>2. GoodBot(f, Len(inbox)) /\ f.call = bots[b].call /\ f.works = bots[b].works
      /\ f.turns = bots[b].turns /\ f.events = bots[b].events /\ f.todo = bots[b].todo
      /\ f.batches = bots[b].batches /\ f.offset = bots[b].offset /\ f.chats = bots[b].chats
      /\ f.tool = bots[b].tool
  BY <1>1 DEF GoodBot, BotType, Fetched, OneEach
<1> HIDE DEF f
<1>3. Later(bots[b], handled) => Later(f, handled)
  BY <1>2 DEF Later
<1> QED
  BY <1>1, <1>2, <1>3, QuietStep DEF Bot!PollerEnds, Threads

LEMMA BotWorkerEnds == ASSUME BotInv, NEW b \in 1..Len(bots), Bot!WorkerEnds(b) PROVE BotInv'
<1> DEFINE f == [bots[b] EXCEPT !.works = FALSE]
<1>1. GoodBot(bots[b], Len(inbox)) /\ bots[b].works /\ bots' = [bots EXCEPT ![b] = f]
      /\ bots[b].call = Bot!NoCall
  BY DEF BotInv, Good, Bot!WorkerEnds, Bot!SetBot, Bot!Idle
<1>2. GoodBot(f, Len(inbox)) /\ f.call = bots[b].call /\ ~f.works
      /\ f.turns = bots[b].turns /\ f.events = bots[b].events /\ f.todo = bots[b].todo
      /\ f.batches = bots[b].batches /\ f.offset = bots[b].offset /\ f.chats = bots[b].chats
      /\ f.tool = bots[b].tool
  BY <1>1 DEF GoodBot, BotType, Fetched, OneEach
<1> HIDE DEF f
<1>3. Later(bots[b], handled) => Later(f, handled)
  BY <1>2 DEF Later
<1>4. Unawaited(b)
  BY <1>1, NotAwaited DEF BotInv
<1> QED
  BY <1>1, <1>2, <1>3, <1>4, QuietStep DEF Bot!WorkerEnds, Threads

LEMMA BotTakesBatch == ASSUME BotInv, NEW b \in 1..Len(bots), Bot!TakesBatch(b) PROVE BotInv'
<1> DEFINE bot == bots[b]
           f == [bot EXCEPT !.todo = Head(bot.batches), !.batches = Tail(@)]
<1>1. GoodBot(bot, Len(inbox)) /\ bot.works /\ bots' = [bots EXCEPT ![b] = f]
      /\ bot.batches # <<>>
  BY DEF BotInv, Good, Bot!TakesBatch, Bot!SetBot, Bot!Idle
<1>2. bot.batches \in Seq(Seq(Nat)) /\ Len(bot.batches) > 0
  BY <1>1, EmptySeq DEF GoodBot, BotType
<1>3. /\ Head(bot.batches) = bot.batches[1] /\ Head(bot.batches) \in Seq(Nat)
      /\ Tail(bot.batches) \in Seq(Seq(Nat)) /\ Len(Tail(bot.batches)) = Len(bot.batches) - 1
      /\ \A i \in 1..Len(Tail(bot.batches)) : Tail(bot.batches)[i] = bot.batches[i + 1]
  BY <1>1, <1>2, HeadTailProperties
<1>4. f \in BotType /\ f.call = bot.call /\ f.works = bot.works
      /\ f.turns = bot.turns /\ f.events = bot.events /\ f.todo = bot.batches[1]
      /\ f.batches = Tail(bot.batches) /\ f.offset = bot.offset /\ f.chats = bot.chats
      /\ f.tool = bot.tool
  BY <1>1, <1>3 DEF GoodBot, BotType
<1> HIDE DEF f
<1>5. DOMAIN f.batches = 1..(Len(bot.batches) - 1) /\ DOMAIN bot.batches = 1..Len(bot.batches)
      /\ 1 \in DOMAIN bot.batches
      /\ \A i \in DOMAIN f.batches : f.batches[i] = bot.batches[i + 1] /\ i + 1 \in DOMAIN bot.batches
  BY <1>2, <1>3, <1>4
<1>6. Fetched(f, Len(inbox))
  BY <1>1, <1>4, <1>5 DEF Fetched, GoodBot
<1>7. OneEach(f)
  BY <1>1, <1>4 DEF OneEach, GoodBot
<1>8. Later(bot, handled) => Later(f, handled)
  <2> SUFFICES ASSUME Later(bot, handled) PROVE Later(f, handled)
    OBVIOUS
  <2>1. InOrder(f.todo) /\ Before(handled, f.todo)
    BY <1>4, <1>5 DEF Later
  <2>2. \A j \in DOMAIN f.batches : 1 < j + 1
    BY <1>5
  <2>3. \A j \in DOMAIN f.batches : /\ InOrder(f.batches[j]) /\ Before(handled, f.batches[j])
                                    /\ Before(f.todo, f.batches[j])
    BY <1>4, <1>5, <2>2 DEF Later
  <2>4. \A j, k \in DOMAIN f.batches : j < k => Before(f.batches[j], f.batches[k])
    <3> TAKE j, k \in DOMAIN f.batches
    <3> HAVE j < k
    <3>1. j + 1 < k + 1
      BY <1>5
    <3> QED
      BY <3>1, <1>5 DEF Later
  <2> QED
    BY <2>1, <2>3, <2>4 DEF Later
<1> QED
  BY <1>1, <1>4, <1>6, <1>7, <1>8, QuietStep DEF Bot!TakesBatch, GoodBot, Threads

LEMMA BotTimesOut == ASSUME BotInv, NEW b \in 1..Len(bots), Bot!TimesOut(b) PROVE BotInv'
<1> DEFINE bot == bots[b]
           f == [bot EXCEPT !.call.answer = "failed"]
<1>1. Good /\ Waiting /\ GoodBot(bot, Len(inbox)) /\ bot.works /\ bots' = [bots EXCEPT ![b] = f]
      /\ bot.call # Bot!NoCall /\ cmds \in Seq(CmdType)
  BY DEF BotInv, Good, Bot!TimesOut, Bot!SetBot
<1>2. bot.call \in Asked
  BY <1>1 DEF GoodBot, BotType
<1>3. f = [bot EXCEPT !.call = f.call] /\ f.call = [bot.call EXCEPT !.answer = "failed"]
  BY <1>1 DEF GoodBot, BotType
<1>4. f.call \in Asked /\ f.call.chat = bot.call.chat /\ f.call.pc = bot.call.pc
      /\ f.call.answer = "failed"
  BY <1>2, <1>3 DEF Asked, Names, Words
<1>5. f \in BotType /\ f.works = bot.works /\ f.polls = bot.polls /\ f.turns = bot.turns
      /\ f.events = bot.events /\ f.todo = bot.todo
      /\ f.batches = bot.batches /\ f.offset = bot.offset /\ f.chats = bot.chats
      /\ f.tool = bot.tool
  BY <1>1, <1>3, <1>4 DEF GoodBot, BotType
<1> HIDE DEF f
<1>6. Fetched(f, Len(inbox)) /\ OneEach(f)
  BY <1>1, <1>4, <1>5 DEF GoodBot, Fetched, OneEach
<1>7. SetTo(b, f)
  BY <1>1, <1>5, <1>6, OneSet DEF GoodBot
<1>8. cmds' = [k \in DOMAIN cmds |-> IF cmds[k].bot = b THEN [cmds[k] EXCEPT !.waited = FALSE]
                                      ELSE cmds[k]]
  BY DEF Bot!TimesOut
<1>9. cmds' \in Seq(CmdType)
  <2>1. DOMAIN cmds = 1..Len(cmds) /\ Len(cmds) \in Nat
    BY <1>1
  <2>2. ASSUME NEW k \in 1..Len(cmds) PROVE cmds'[k] \in CmdType
    <3>1. cmds[k] \in CmdType
      BY <1>1
    <3>2. cmds'[k] = IF cmds[k].bot = b THEN [cmds[k] EXCEPT !.waited = FALSE] ELSE cmds[k]
      BY <1>8, <2>1
    <3> QED
      BY <3>1, <3>2 DEF CmdType
  <2>3. cmds' \in [1..Len(cmds) -> CmdType]
    BY <1>8, <2>1, <2>2
  <2> QED
    BY <2>1, <2>3
<1>10. ASSUME NEW k \in DOMAIN cmds', cmds'[k].waited
       PROVE  k \in DOMAIN cmds /\ cmds'[k] = cmds[k] /\ cmds[k].bot # b /\ cmds[k].waited
  <2>1. k \in 1..Len(cmds) /\ cmds[k] \in CmdType
    BY <1>1, <1>8
  <2>2. CASE cmds[k].bot = b
    BY <1>8, <1>10, <2>1, <2>2 DEF CmdType
  <2>3. CASE cmds[k].bot # b
    BY <1>8, <1>10, <2>1, <2>3
  <2> QED
    BY <2>2, <2>3
<1>11. Waiting'
  <2>1. ASSUME NEW k \in DOMAIN cmds', cmds'[k].waited PROVE Awaits(cmds[k])'
    <3>1. Awaits(cmds[k]) /\ cmds'[k] = cmds[k] /\ cmds[k].bot # b
      BY <2>1, <1>1, <1>10 DEF Waiting
    <3> QED
      BY <3>1, <1>7 DEF Awaits, SetTo
  <2>2. \A j, k \in DOMAIN cmds' :
          cmds'[j].waited /\ cmds'[k].waited /\ cmds'[j].bot = cmds'[k].bot => j = k
    BY <1>1, <1>10 DEF Waiting
  <2> QED
    BY <2>1, <2>2 DEF Waiting
<1>12. Good'
  <2>1. /\ state' \in [offset : Nat \ {0}, chats : [Chats -> Names]]
        /\ state'.offset <= Len(inbox) + 1 /\ inbox' = inbox
        /\ slot' \in 0..Len(bots) /\ tx' \in 0..Len(bots) /\ sessions' \subseteq Names
        /\ runs' \subseteq Ended /\ handled' \in Seq(Nat) /\ overlap' \in BOOLEAN
    BY <1>1 DEF Good, Bot!TimesOut
  <2> QED
    BY <1>1, <1>7, <1>9, <2>1, GoodAfter
<1>13. ASSUME ~overlap PROVE Alone' /\ Kept' /\ Ordered' /\ Answered'
  <2>1. Alone /\ Kept /\ Ordered /\ Answered /\ b = Len(bots)
    BY <1>1, <1>13 DEF BotInv, Alone, Threads
  <2>2. Alone'
    BY <1>1, <1>7, <2>1, StillAlone DEF Threads, Bot!TimesOut
  <2>6. f.call # Bot!NoCall
    <3>1. Bot!NoCall.pc = "idle"
      BY DEF Bot!NoCall
    <3> QED
      BY <1>4, <3>1 DEF Asked, CallKinds
  <2>7. Points(f, bot)
    BY <1>1, <1>4, <1>5, <2>6 DEF Points, Pends
  <2>8. Kept'
    BY <1>1, <1>5, <1>7, <2>1, <2>7, StillKept DEF Bot!TimesOut
  <2>3. Ordered'
    BY <1>1, <1>5, <1>7, <2>1, StillOrdered DEF Bot!TimesOut
  <2>4. ~Delivered(f)
    BY <1>4 DEF Delivered
  <2>5. Answered'
    BY <1>1, <1>5, <1>7, <2>1, <2>4, StillAnswered DEF Bot!TimesOut
  <2> QED
    BY <2>2, <2>3, <2>5, <2>8
<1> QED
  BY <1>11, <1>12, <1>13 DEF BotInv, Bot!TimesOut

\* The updates of one answer of the server.
Fetch(first, last) == [k \in 1..(last - first + 1) |-> first + k - 1]

LEMMA BatchFetched ==
  ASSUME NEW first \in Nat \ {0}, NEW last \in Nat, first <= last
  PROVE  /\ Fetch(first, last) \in Seq(Nat) /\ DOMAIN Fetch(first, last) = 1..(last - first + 1)
         /\ \A k \in DOMAIN Fetch(first, last) :
              Fetch(first, last)[k] = first + k - 1 /\ Fetch(first, last)[k] \in first..last
<1> DEFINE n == last - first + 1
           got == [k \in 1..n |-> first + k - 1]
<1>1. n \in Nat
  OBVIOUS
<1>2. got \in [1..n -> Nat] /\ \A k \in 1..n : got[k] = first + k - 1
  OBVIOUS
<1>3. got \in Seq(Nat) /\ DOMAIN got = 1..n
  BY <1>1, <1>2
<1>4. \A k \in 1..n : first + k - 1 \in first..last
  BY <1>1
<1> QED
  BY <1>2, <1>3, <1>4 DEF Fetch

LEMMA BotPolls == ASSUME BotInv, NEW b \in 1..Len(bots), Bot!Polls(b) PROVE BotInv'
<1> DEFINE bot == bots[b]
<1>1. Good /\ Waiting /\ GoodBot(bot, Len(inbox)) /\ bot.polls
  BY DEF BotInv, Good, Bot!Polls
<1>2. PICK last \in bot.offset..Len(inbox) :
        /\ bots' = [bots EXCEPT ![b] =
             [bot EXCEPT !.offset = Bot!NextOffset(bot.offset, last), !.polls = bot.works /\ ~bot.stop,
                         !.batches = Append(@, [k \in 1..(last - bot.offset + 1) |-> bot.offset + k - 1])]]
        /\ Bot!Saves(Bot!NextOffset(bot.offset, last), bot.chats)
  BY DEF Bot!Polls, Bot!SetBot
<1> DEFINE got == Fetch(bot.offset, last)
           on == bot.works /\ ~bot.stop
           f == [bot EXCEPT !.offset = last + 1, !.polls = on, !.batches = Append(@, got)]
<1>3. bot \in BotType /\ bot.offset \in Nat \ {0} /\ bot.batches \in Seq(Seq(Nat))
      /\ bot.chats \in [Chats -> Names] /\ inbox \in Seq([chat : Chats, kind : Bot!Kinds])
  BY <1>1 DEF GoodBot, BotType, Good
<1>4. last \in Nat /\ bot.offset <= last /\ last <= Len(inbox) /\ last - bot.offset + 1 \in Nat
  BY <1>3
<1>5. Bot!NextOffset(bot.offset, last) = last + 1
  BY <1>3, <1>4 DEF Bot!NextOffset
<1>6. /\ bots' = [bots EXCEPT ![b] = f]
      /\ state' = [offset |-> last + 1, chats |-> bot.chats] \/ (state' = state /\ stale')
  BY <1>2, <1>5 DEF Fetch, Bot!Saves
<1>7. /\ got \in Seq(Nat) /\ DOMAIN got = 1..(last - bot.offset + 1)
      /\ \A k \in DOMAIN got : got[k] = bot.offset + k - 1 /\ got[k] \in bot.offset..last
  <2>1. bot.offset \in Nat \ {0} /\ last \in Nat /\ bot.offset <= last
    BY <1>3, <1>4
  <2> QED
    BY <2>1, BatchFetched
<1> HIDE DEF got
<1> DEFINE more == Append(bot.batches, got)
<1>9. DOMAIN bot.batches = 1..Len(bot.batches) /\ Len(bot.batches) \in Nat
      /\ DOMAIN more = 1..(Len(bot.batches) + 1) /\ more[Len(bot.batches) + 1] = got
      /\ more \in Seq(Seq(Nat)) /\ \A i \in DOMAIN bot.batches : more[i] = bot.batches[i]
  <2> HIDE DEF bot
  <2>1. DOMAIN bot.batches = 1..Len(bot.batches) /\ Len(bot.batches) \in Nat
    BY <1>3
  <2>2. /\ more \in Seq(Seq(Nat)) /\ Len(more) = Len(bot.batches) + 1
        /\ \A i \in 1..Len(bot.batches) : more[i] = bot.batches[i]
        /\ more[Len(bot.batches) + 1] = got
    BY <1>3, <1>7, AppendProperties
  <2>3. DOMAIN more = 1..(Len(bot.batches) + 1)
    BY <2>2
  <2> QED
    BY <2>1, <2>2, <2>3
<1>8. f \in BotType /\ f.call = bot.call /\ f.works = bot.works
      /\ f.turns = bot.turns /\ f.events = bot.events /\ f.todo = bot.todo
      /\ f.batches = more /\ f.offset = last + 1 /\ f.chats = bot.chats
  <2> HIDE DEF more
  <2>1. f = [bot EXCEPT !.offset = last + 1, !.polls = on, !.batches = more]
    BY DEF more
  <2>2. last + 1 \in Nat \ {0} /\ on \in BOOLEAN
    BY <1>4
  <2> HIDE DEF f
  <2> QED
    BY <1>3, <1>9, <2>1, <2>2 DEF BotType
<1> HIDE DEF f, more
<1>15. /\ DOMAIN f.batches = 1..(Len(bot.batches) + 1)
       /\ f.batches[Len(bot.batches) + 1] = got
       /\ \A j \in DOMAIN f.batches : j # Len(bot.batches) + 1
            => j \in DOMAIN bot.batches /\ f.batches[j] = bot.batches[j]
  BY <1>8, <1>9, SMTT(40)
<1>10. Fetched(f, Len(inbox)) /\ OneEach(f)
  <2>1. Fetched(bot, Len(inbox)) /\ OneEach(bot)
    BY <1>1 DEF GoodBot
  <2>2. \A i \in DOMAIN f.todo : f.todo[i] \in 1..(f.offset - 1)
    BY <1>3, <1>4, <1>8, <2>1 DEF Fetched
  <2>3. ASSUME NEW j \in DOMAIN f.batches, NEW i \in DOMAIN f.batches[j]
        PROVE  f.batches[j][i] \in 1..(f.offset - 1)
    <3>1. CASE j = Len(bot.batches) + 1
      <4>1. f.batches[j] = got /\ i \in DOMAIN got /\ f.offset = last + 1
        BY <3>1, <2>3, <1>8, <1>15
      <4>2. got[i] \in bot.offset..last
        BY <4>1, <1>7
      <4> QED
        BY <4>1, <4>2, <1>3, <1>4
    <3>2. CASE j # Len(bot.batches) + 1
      <4>1. j \in DOMAIN bot.batches /\ f.batches[j] = bot.batches[j]
        BY <3>2, <1>15
      <4>2. f.batches[j][i] \in 1..(bot.offset - 1)
        BY <4>1, <2>1, <2>3 DEF Fetched
      <4>3. f.offset = last + 1
        BY <1>8
      <4> QED
        BY <4>2, <4>3, <1>3, <1>4
    <3> QED
      BY <3>1, <3>2
  <2> QED
    BY <2>1, <2>2, <2>3, <1>3, <1>4, <1>8 DEF Fetched, OneEach
<1>11. SetTo(b, f)
  BY <1>1, <1>6, <1>8, <1>10, OneSet DEF GoodBot
<1>12. Waiting'
  BY <1>1, <1>8, <1>11, StillWaiting DEF Bot!Polls
<1>13. Good'
  <2>1. /\ state' \in [offset : Nat \ {0}, chats : [Chats -> Names]]
        /\ state'.offset <= Len(inbox) + 1
    BY <1>1, <1>3, <1>4, <1>6 DEF Good
  <2>2. /\ slot' \in 0..Len(bots) /\ tx' \in 0..Len(bots) /\ sessions' \subseteq Names /\ inbox' = inbox
        /\ cmds' \in Seq(CmdType) /\ runs' \subseteq Ended /\ handled' \in Seq(Nat) /\ overlap' \in BOOLEAN
    BY <1>1 DEF Good, Bot!Polls
  <2> QED
    BY <1>1, <1>11, <2>1, <2>2, GoodAfter
<1>16. ASSUME OrderedBot(bot, handled) PROVE OrderedBot(f, handled)
  <2>3. Later(bot, handled) /\ InOrder(handled)
        /\ (\A k \in DOMAIN handled : handled[k] < bot.offset) /\ handled \in Seq(Nat)
    BY <1>1, <1>16 DEF OrderedBot, Good
  <2>4. InOrder(got) /\ Before(handled, got) /\ Before(bot.todo, got)
        /\ \A j \in DOMAIN bot.batches : Before(bot.batches[j], got)
    <3>1. InOrder(got)
      BY <1>3, <1>4, <1>7, SMTT(40) DEF InOrder
    <3>2. Before(handled, got)
      BY <1>3, <1>4, <1>7, <2>3, SMTT(40) DEF Before
    <3>3. Before(bot.todo, got) /\ \A j \in DOMAIN bot.batches : Before(bot.batches[j], got)
      <4>1. \A x, k : x \in 1..(bot.offset - 1) /\ k \in DOMAIN got => x < got[k]
        BY <1>3, <1>4, <1>7, SMTT(40)
      <4> QED
        BY <4>1, <1>1, SMTT(40) DEF Before, GoodBot, Fetched
    <3> QED
      BY <3>1, <3>2, <3>3
  <2>5. Later(f, handled)
    <3>1. ASSUME NEW j \in DOMAIN f.batches
          PROVE  InOrder(f.batches[j]) /\ Before(handled, f.batches[j]) /\ Before(f.todo, f.batches[j])
      <4>1. CASE j = Len(bot.batches) + 1
        BY <4>1, <2>4, <1>8, <1>15
      <4>2. CASE j # Len(bot.batches) + 1
        BY <4>2, <2>3, <1>8, <1>15 DEF Later
      <4> QED
        BY <4>1, <4>2
    <3>2. ASSUME NEW j \in DOMAIN f.batches, NEW k \in DOMAIN f.batches, j < k
          PROVE  Before(f.batches[j], f.batches[k])
      <4>1. j \in DOMAIN bot.batches /\ f.batches[j] = bot.batches[j]
        BY <3>2, <1>15
      <4>2. CASE k = Len(bot.batches) + 1
        BY <4>1, <4>2, <2>4, <1>15
      <4>3. CASE k # Len(bot.batches) + 1
        BY <4>1, <4>3, <3>2, <2>3, <1>15 DEF Later
      <4> QED
        BY <4>2, <4>3
    <3> QED
      BY <3>1, <3>2, <2>3, <1>8 DEF Later
  <2>6. \A k \in DOMAIN handled : handled[k] < f.offset
    BY <2>3, <1>3, <1>4, <1>8
  <2> QED
    BY <2>3, <2>5, <2>6 DEF OrderedBot
<1>14. ASSUME ~overlap PROVE Alone' /\ Kept' /\ Ordered' /\ Answered'
  <2>1. Alone /\ Kept /\ Ordered /\ Answered /\ b = Len(bots) /\ Len(bots) > 0
    BY <1>1, <1>14 DEF BotInv, Alone, Threads
  <2>2. Alone'
    BY <1>1, <1>11, <2>1, StillAlone DEF Bot!Polls, Threads
  <2>3. Kept'
    BY <1>6, <1>8, <1>11, <2>1, Written
  <2>4. handled' = handled /\ forgot' = forgot /\ bots'[Len(bots)] = f /\ Len(bots') = Len(bots)
    BY <1>11, <2>1 DEF Bot!Polls, SetTo
  <2>5. Ordered'
    BY <1>16, <2>1, <2>4 DEF Ordered
  <2>7. Delivered(f) <=> Delivered(bot)
    BY <1>8 DEF Delivered
  <2>8. Answered'
    BY <1>1, <1>8, <1>11, <2>1, <2>7, StillAnswered DEF Bot!Polls
  <2> QED
    BY <2>2, <2>3, <2>5, <2>8
<1> QED
  BY <1>12, <1>13, <1>14 DEF BotInv, Bot!Polls

LEMMA BotWrites == ASSUME BotInv, Bot!Writes PROVE BotInv'
<1>1. Good /\ Waiting
  BY DEF BotInv
<1>2. inbox' \in Seq([chat : Chats, kind : Bot!Kinds]) /\ Len(inbox') = Len(inbox) + 1
  <2>1. PICK c \in Chats, k \in Bot!Kinds : inbox' = Append(inbox, [chat |-> c, kind |-> k])
    BY DEF Bot!Writes
  <2> QED
    BY <1>1, <2>1, AppendProperties DEF Good
<1>3. ASSUME NEW b \in 1..Len(bots) PROVE GoodBot(bots[b], Len(inbox'))
  <2>1. GoodBot(bots[b], Len(inbox)) /\ Len(inbox) \in Nat
    BY <1>1 DEF Good
  <2> QED
    BY <1>2, <2>1 DEF GoodBot, BotType, Fetched
<1>4. Good'
  <2>1. state.offset <= Len(inbox') + 1
    BY <1>1, <1>2 DEF Good
  <2> QED
    BY <1>1, <1>2, <1>3, <2>1 DEF Good, Bot!Writes
<1>5. Waiting'
  BY <1>1 DEF Waiting, Awaits, Bot!Writes
<1>6. ASSUME ~overlap PROVE Alone' /\ Kept' /\ Ordered' /\ Answered'
  BY <1>6 DEF BotInv, Alone, Kept, Ordered, Answered, Bot!Writes
<1> QED
  BY <1>4, <1>5, <1>6 DEF BotInv, Bot!Writes

LEMMA RunsDropped ==
  ASSUME BotInv, bots' = bots, runs' \subseteq runs,
         \A r \in runs : r \in runs' \/ r.sess \in lost', lost \subseteq lost',
         sessions' \subseteq sessions \cup Sessions, inbox' = inbox, state' = state, slot' = slot,
         tx' = tx, cmds' = cmds, shared' = shared, handled' = handled, overlap' = overlap,
         wrong' = wrong, stale' = stale, forgot' = forgot
  PROVE  BotInv'
<1>1. Good' /\ Waiting'
  BY DEF BotInv, Good, Waiting, Awaits, Names
<1>2. ASSUME ~overlap PROVE Alone' /\ Kept' /\ Ordered' /\ Answered'
  <2>1. Alone /\ Kept /\ Ordered /\ Answered
    BY <1>2 DEF BotInv
  <2>2. ASSUME Len(bots) > 0 PROVE Answering(bots[Len(bots)], runs', lost', shared')
    BY <2>1, <2>2, StillAnswering DEF Answered
  <2> QED
    BY <2>1, <2>2 DEF Alone, Kept, Ordered, Answered
<1> QED
  BY <1>1, <1>2 DEF BotInv

LEMMA BotSessionMade == ASSUME BotInv, Bot!SessionMade PROVE BotInv'
<1>1. PICK s \in Sessions : sessions' = sessions \cup {s}
  BY DEF Bot!SessionMade
<1> QED
  BY <1>1, RunsDropped DEF Bot!SessionMade

LEMMA BotDesktopStops == ASSUME BotInv, Bot!DesktopStops PROVE BotInv'
BY RunsDropped DEF Bot!DesktopStops

LEMMA BotDesktopDeletes == ASSUME BotInv, Bot!DesktopDeletes PROVE BotInv'
<1>1. PICK s \in sessions : /\ sessions' = sessions \ {s}
                            /\ runs' = {r \in runs : r.sess # s} /\ lost' = lost \cup {s}
  BY DEF Bot!DesktopDeletes
<1> QED
  BY <1>1, RunsDropped DEF Bot!DesktopDeletes

LEMMA BotCrashes == ASSUME BotInv, Bot!Crashes PROVE BotInv'
<1>1. Good /\ bots \in Seq(BotType) /\ Len(bots) \in Nat /\ DOMAIN bots = 1..Len(bots)
  BY DEF BotInv, Good
<1>2. ASSUME NEW b \in 1..Len(bots)
      PROVE  /\ GoodBot(bots'[b], Len(inbox)) /\ bots'[b].call = bots[b].call
             /\ ~bots'[b].works /\ ~bots'[b].polls /\ bots'[b].turns = bots[b].turns
             /\ bots'[b].events = bots[b].events /\ bots'[b].todo = bots[b].todo
             /\ bots'[b].batches = bots[b].batches /\ bots'[b].offset = bots[b].offset
             /\ bots'[b].chats = bots[b].chats /\ bots'[b].tool = Bot!NoChat
  <2>1. bots'[b] = [bots[b] EXCEPT !.stop = TRUE, !.polls = FALSE, !.works = FALSE,
                                   !.tool = Bot!NoChat]
    BY DEF Bot!Crashes, Bot!Bots
  <2>2. GoodBot(bots[b], Len(inbox))
    BY <1>1 DEF Good
  <2> QED
    BY <2>1, <2>2 DEF GoodBot, BotType, Fetched, OneEach
<1>3. bots' \in Seq(BotType) /\ Len(bots') = Len(bots)
  <2>1. bots' \in [1..Len(bots) -> BotType]
    BY <1>2 DEF GoodBot, Bot!Crashes, Bot!Bots
  <2> QED
    BY <2>1, <1>1
<1>7. /\ cmds' = <<>> /\ runs' = {} /\ slot' = 0 /\ tx' = 0 /\ inbox' = inbox /\ state' = state
      /\ sessions' = sessions /\ handled' = handled /\ overlap' = overlap
  BY DEF Bot!Crashes
<1>4. Good'
  <2>1. cmds' \in Seq(CmdType) /\ runs' \subseteq Ended
    BY <1>7, EmptySeq
  <2>2. \A b \in 1..Len(bots') : GoodBot(bots'[b], Len(inbox'))
    <3>1. Len(bots') = Len(bots) /\ inbox' = inbox
      BY <1>3, <1>7
    <3> QED
      BY <1>2, <3>1
  <2>3. slot' \in 0..Len(bots') /\ tx' \in 0..Len(bots')
    BY <1>1, <1>3, <1>7
  <2> QED
    BY <1>1, <1>3, <1>7, <2>1, <2>2, <2>3 DEF Good
<1>5. Waiting'
  BY <1>7 DEF Waiting
<1>6. ASSUME ~overlap PROVE Alone' /\ Kept' /\ Ordered' /\ Answered'
  <2>1. Alone /\ Kept /\ Ordered /\ Answered
    BY <1>6 DEF BotInv
  <2>2. Alone'
    <3>1. tx' \in {0, Len(bots)} /\ \A b \in 1..Len(bots) : ~Threads(bots'[b])
      BY <1>2, <1>7 DEF Threads
    <3> QED
      BY <1>3, <3>1 DEF Alone
  <2>7. Kept'
    <3>1. ASSUME Len(bots) > 0 PROVE Len(bots) \in 1..Len(bots)
      BY <3>1, <1>1
    <3>2. ASSUME Len(bots) > 0, ~stale PROVE Recorded(bots'[Len(bots)], state)
      BY <2>1, <3>1, <3>2, <1>2 DEF Kept, Recorded
    <3>3. Len(bots') = Len(bots) /\ state' = state /\ stale' = stale
      BY <1>3 DEF Bot!Crashes
    <3> QED
      BY <3>2, <3>3 DEF Kept
  <2>3. ASSUME Len(bots) > 0, OrderedBot(bots[Len(bots)], handled)
        PROVE  OrderedBot(bots'[Len(bots)], handled)
    <3>1. Len(bots) \in 1..Len(bots)
      BY <2>3, <1>1
    <3> QED
      BY <3>1, <2>3, <1>2 DEF OrderedBot, Later
  <2>4. Ordered'
    <3>1. Len(bots) # 0 => Len(bots) > 0
      BY <1>1
    <3> QED
      BY <2>1, <2>3, <3>1, <1>3 DEF Ordered, Bot!Crashes
  <2>5. ASSUME Len(bots) > 0 PROVE Answering(bots'[Len(bots)], {}, lost, shared)
    <3> DEFINE now == bots'[Len(bots)]
    <3>1. /\ now.call = bots[Len(bots)].call /\ ~now.works /\ now.turns = bots[Len(bots)].turns
          /\ now.events = bots[Len(bots)].events
      BY <2>5, <1>1, <1>2
    <3>2. Answering(bots[Len(bots)], runs, lost, shared)
      BY <2>1, <2>5 DEF Answered
    <3>3. Delivered(now) <=> Delivered(bots[Len(bots)])
      BY <3>1 DEF Delivered
    <3> QED
      BY <3>1, <3>2, <3>3, StillAnswering
  <2>6. Answered'
    BY <2>5, <1>3 DEF Answered, Bot!Crashes
  <2> QED
    BY <2>2, <2>4, <2>6, <2>7
<1> QED
  BY <1>4, <1>5, <1>6 DEF BotInv, Bot!Crashes

LEMMA BotStarts == ASSUME BotInv, Bot!Starts PROVE BotInv'
<1> DEFINE new == [stop |-> FALSE, polls |-> TRUE, works |-> TRUE, offset |-> state.offset,
                   batches |-> <<>>, events |-> <<>>, turns |-> <<>>,
                   queued |-> [c \in Chats |-> 0], chats |-> state.chats,
                   call |-> Bot!NoCall, todo |-> <<>>, active |-> Bot!NoChat, tool |-> Bot!NoChat]
<1>1. Good /\ Waiting /\ bots' = Append(bots, new) /\ bots \in Seq(BotType)
  BY DEF BotInv, Good, Bot!Starts
<1>2. GoodBot(new, Len(inbox))
  <2>1. new \in BotType
    BY <1>1 DEF Good, BotType
  <2> QED
    BY <2>1, <1>1 DEF Good, GoodBot, Fetched, OneEach
<1>3. /\ new.todo = <<>> /\ new.batches = <<>> /\ new.turns = <<>> /\ new.call = Bot!NoCall
      /\ new.offset = state.offset /\ new.chats = state.chats
  OBVIOUS
<1> HIDE DEF new
<1>4. /\ bots' \in Seq(BotType) /\ Len(bots') = Len(bots) + 1 /\ bots'[Len(bots) + 1] = new
      /\ \A b \in 1..Len(bots) : bots'[b] = bots[b]
  BY <1>1, <1>2, AppendProperties DEF GoodBot
<1>5. Len(bots) \in Nat
  BY <1>1
<1>6. Good'
  <2>1. ASSUME NEW b \in 1..Len(bots') PROVE GoodBot(bots'[b], Len(inbox))
    BY <1>1, <1>2, <1>4, <1>5 DEF Good
  <2>2. slot' \in 0..Len(bots') /\ tx' \in 0..Len(bots') /\ overlap' \in BOOLEAN
    BY <1>1, <1>4, <1>5 DEF Bot!Starts, Good
  <2> QED
    BY <1>1, <1>4, <2>1, <2>2 DEF Good, Bot!Starts
<1>7. Waiting'
  <2>1. ASSUME NEW k \in DOMAIN cmds, cmds[k].waited PROVE Awaits(cmds[k])'
    BY <2>1, <1>1, <1>4, <1>5 DEF Waiting, Awaits, Bot!Starts
  <2> QED
    BY <2>1, <1>1 DEF Waiting, Bot!Starts
<1>8. ASSUME ~overlap' PROVE Alone' /\ Kept' /\ Ordered' /\ ~wrong' /\ Answered'
  <2>1. ~overlap /\ (\A b \in 1..Len(bots) : ~Threads(bots[b])) /\ ~wrong
        /\ Alone /\ Kept /\ Ordered
    BY <1>8 DEF Bot!Starts, BotInv, Bot!Bots, Bot!AtWork, Threads
  <2>2. Alone'
    BY <2>1, <1>4, <1>5 DEF Alone, Bot!Starts
  <2>8. Kept'
    <3>1. Recorded(new, state)
      BY <1>3 DEF Recorded
    <3> QED
      BY <3>1, <1>4, <1>5 DEF Kept, Bot!Starts
  <2>3. ASSUME ~stale, ~forgot PROVE OrderedBot(new, handled)
    <3>1. Later(new, handled)
      BY <1>3 DEF Later, InOrder, Before
    <3>2. CASE Len(bots) = 0
      BY <2>1, <2>3, <3>1, <3>2 DEF Ordered, OrderedBot, InOrder
    <3>3. CASE Len(bots) # 0
      <4>1. Len(bots) > 0
        BY <3>3, <1>5
      <4>2. OrderedBot(bots[Len(bots)], handled) /\ state.offset = bots[Len(bots)].offset
        BY <2>1, <2>3, <3>3, <4>1 DEF Ordered, Kept, Recorded
      <4> QED
        BY <3>1, <4>2, <1>3 DEF OrderedBot
    <3> QED
      BY <3>2, <3>3
  <2>4. Ordered'
    <3>1. handled' = handled /\ Len(bots') # 0 /\ bots'[Len(bots')] = new
          /\ forgot' = (forgot \/ stale)
      BY <1>4, <1>5 DEF Bot!Starts
    <3> QED
      BY <2>3, <3>1 DEF Ordered
  <2>5. \A s, c : ~Claims(new, s, c)
    BY <1>3 DEF Claims, Delivered
  <2>6. Answering(new, runs, lost, shared)
    BY <2>5, <1>3 DEF Answering, OneClaim, Delivered, Faithful, Met
  <2>7. Answered'
    BY <2>6, <1>4 DEF Answered, Bot!Starts
  <2> QED
    BY <2>1, <2>2, <2>4, <2>7, <2>8 DEF Bot!Starts
<1> QED
  BY <1>6, <1>7, <1>8 DEF BotInv

(* The worker's steps.                                                     *)

LEMMA WorkerStep ==
  ASSUME BotInv, NEW b \in 1..Len(bots), NEW f, SetTo(b, f), Threads(bots[b]),
         f.works => bots[b].works,
         Waiting', cmds' \in Seq(CmdType), handled' \in Seq(Nat),
         f.offset = bots[b].offset,
         \/ state' = state /\ stale' = stale /\ Points(f, bots[b])
         \/ state' = [offset |-> f.offset, chats |-> f.chats]
         \/ state' = state /\ stale',
         OrderedBot(bots[b], handled) => OrderedBot(f, handled'),
         Answering(bots[b], runs, lost, shared) /\ ~wrong
           => Answering(f, runs, lost, shared) /\ ~wrong',
         inbox' = inbox, slot' = slot, tx' = tx, sessions' = sessions, runs' = runs,
         lost' = lost, shared' = shared, overlap' = overlap, forgot' = forgot
  PROVE  BotInv'
<1>1. Good /\ f \in BotType /\ Fetched(f, Len(inbox))
  BY DEF BotInv, SetTo, GoodBot
<1>2. Good'
  <2>1. state' \in [offset : Nat \ {0}, chats : [Chats -> Names]] /\ state'.offset <= Len(inbox) + 1
    <3>1. f.offset \in Nat \ {0} /\ f.chats \in [Chats -> Names] /\ f.offset <= Len(inbox) + 1
      BY <1>1 DEF BotType, Fetched
    <3> QED
      BY <1>1, <3>1 DEF Good
  <2>2. slot' \in 0..Len(bots) /\ tx' \in 0..Len(bots) /\ sessions' \subseteq Names
        /\ runs' \subseteq Ended /\ overlap' \in BOOLEAN
    BY <1>1 DEF Good
  <2> QED
    BY <1>1, <2>1, <2>2, GoodAfter
<1>3. ASSUME ~overlap PROVE Alone' /\ Kept' /\ Ordered' /\ ~wrong' /\ Answered'
  <2>1. Alone /\ Kept /\ Ordered /\ ~wrong /\ Answered /\ b = Len(bots) /\ Len(bots) > 0
    BY <1>3 DEF BotInv, Alone
  <2>2. Kept'
    BY <1>1, <2>1, StillKept, Written
  <2>4. Alone'
    BY <1>1, <2>1, StillAlone
  <2>5. bots'[b] = f /\ Len(bots') = Len(bots)
    BY DEF SetTo
  <2>7. Ordered'
    BY <2>1, <2>5 DEF Ordered
  <2>8. ~wrong' /\ Answered'
    BY <2>1, <2>5 DEF Answered
  <2> QED
    BY <2>1, <2>2, <2>4, <2>7, <2>8
<1> QED
  BY <1>2, <1>3 DEF BotInv

\* What a call or a dispatch leaves of a bot.
SameWork(f, bot) ==
  /\ f.works = bot.works /\ f.offset = bot.offset /\ f.chats = bot.chats
  /\ f.turns = bot.turns /\ f.events = bot.events /\ f.todo = bot.todo
  /\ f.batches = bot.batches /\ f.tool = bot.tool /\ ~Delivered(f)

LEMMA Called ==
  ASSUME Good, Waiting, NEW b \in 1..Len(bots), NEW bot, GoodBot(bot, Len(inbox)), bot.works,
         Unawaited(b), NEW kind \in CallKinds, NEW asker \in Chats,
         NEW sess \in Names, NEW msg \in Nat,
         kind \in {"inject", "create"} => \A k \in DOMAIN bot.turns : bot.turns[k].chat # asker,
         Bot!Call(b, bot, kind, asker, sess, msg)
  PROVE  \E f : /\ SetTo(b, f) /\ SameWork(f, bot) /\ Waiting' /\ cmds' \in Seq(CmdType)
               /\ f.call # Bot!NoCall /\ f.call.pc = kind /\ f.call.chat = asker
<1> DEFINE call == [pc |-> kind, chat |-> asker, sess |-> sess, msg |-> msg, answer |-> "none"]
           f == [bot EXCEPT !.call = call]
           cmd == [bot |-> b, kind |-> kind, chat |-> asker, sess |-> sess,
                   empty |-> kind = "inject" /\ inbox[msg].kind = "empty", waited |-> TRUE]
<1>1. bots' = [bots EXCEPT ![b] = f] /\ cmds' = Append(cmds, cmd)
  BY DEF Bot!Call, Bot!SetBot
<1>2. call \in Asked /\ call.pc = kind /\ call.chat = asker /\ call.sess = sess /\ call.answer = "none"
  BY DEF Asked, Names, Words
<1>3. call # Bot!NoCall
  <2>1. Bot!NoCall.pc = "idle"
    BY DEF Bot!NoCall
  <2> QED
    BY <1>2, <2>1 DEF CallKinds
<1>4. cmd \in CmdType /\ cmd.bot = b /\ cmd.kind = kind /\ cmd.chat = asker /\ cmd.sess = sess
  <2>1. (kind = "inject" /\ inbox[msg].kind = "empty") \in BOOLEAN
    OBVIOUS
  <2>2. b \in Nat
    OBVIOUS
  <2> QED
    BY <2>1, <2>2 DEF CmdType
<1> HIDE DEF call, cmd
<1>5. f \in BotType /\ f.call = call /\ f.works = bot.works /\ f.offset = bot.offset
      /\ f.chats = bot.chats /\ f.turns = bot.turns /\ f.events = bot.events /\ f.todo = bot.todo
      /\ f.batches = bot.batches /\ f.tool = bot.tool
  BY <1>2 DEF GoodBot, BotType
<1> HIDE DEF f
<1>6. GoodBot(f, Len(inbox))
  BY <1>2, <1>5 DEF GoodBot, Fetched, OneEach
<1>7. SetTo(b, f)
  BY <1>1, <1>6, OneSet
<1>8. Waiting' /\ cmds' \in Seq(CmdType)
  BY <1>1, <1>2, <1>3, <1>4, <1>5, <1>7, OneMoreWaiting
<1>9. ~Delivered(f)
  BY <1>2, <1>5 DEF Delivered
<1> QED
  BY <1>2, <1>3, <1>5, <1>7, <1>8, <1>9 DEF SameWork

LEMMA Dispatched ==
  ASSUME Good, Waiting, NEW b \in 1..Len(bots), NEW bot, GoodBot(bot, Len(inbox)), bot.works,
         bots[b].works, bots[b].call = Bot!NoCall, bot.call = Bot!NoCall,
         NEW asker \in Chats, NEW msg \in Nat, Bot!Dispatch(b, bot, asker, msg)
  PROVE  \E f : SetTo(b, f) /\ SameWork(f, bot) /\ Waiting' /\ cmds' \in Seq(CmdType)
<1>1. Unawaited(b)
  BY NotAwaited
<1>2. CASE \E k \in DOMAIN bot.turns : bot.turns[k].chat = asker
  <2> DEFINE f == [bot EXCEPT !.queued[asker] = IF @ = 0 THEN msg ELSE @]
  <2>1. bots' = [bots EXCEPT ![b] = f] /\ cmds' = cmds
    BY <1>2 DEF Bot!Dispatch, Bot!SetBot
  <2>2. bot.queued \in [Chats -> Nat]
    BY DEF GoodBot, BotType
  <2>3. f.queued = [bot.queued EXCEPT ![asker] = IF @ = 0 THEN msg ELSE @]
        /\ f = [bot EXCEPT !.queued = f.queued]
    BY DEF GoodBot, BotType
  <2>4. f.queued \in [Chats -> Nat]
    BY <2>2, <2>3
  <2>5. f \in BotType /\ f.call = bot.call /\ f.works = bot.works /\ f.offset = bot.offset
        /\ f.chats = bot.chats /\ f.turns = bot.turns /\ f.events = bot.events /\ f.todo = bot.todo
        /\ f.batches = bot.batches /\ f.tool = bot.tool
    BY <2>3, <2>4 DEF GoodBot, BotType
  <2> HIDE DEF f
  <2>6. GoodBot(f, Len(inbox))
    BY <2>5 DEF GoodBot, Fetched, OneEach
  <2>7. SetTo(b, f)
    BY <2>1, <2>6, OneSet
  <2>8. Waiting' /\ cmds' \in Seq(CmdType)
    BY <1>1, <2>1, <2>7, StillWaiting DEF Good
  <2>9. ~Delivered(f)
    BY <2>5 DEF Delivered
  <2> QED
    BY <2>5, <2>7, <2>8, <2>9 DEF SameWork
<1>3. CASE ~\E k \in DOMAIN bot.turns : bot.turns[k].chat = asker
  <2>1. bot.chats[asker] \in Names /\ Bot!NoSession \in Names
    BY DEF GoodBot, BotType, Bot!NoSession, Names, Words
  <2>2. \E kind \in {"inject", "create"}, sess \in Names : Bot!Call(b, bot, kind, asker, sess, msg)
    BY <1>3, <2>1 DEF Bot!Dispatch
  <2>3. {"inject", "create"} \subseteq CallKinds
    BY DEF CallKinds
  <2> QED
    BY <1>1, <1>3, <2>2, <2>3, Called
<1> QED
  BY <1>2, <1>3

LEMMA SameWorkKeeps ==
  ASSUME NEW bot, NEW f, NEW done, SameWork(f, bot)
  PROVE  /\ OrderedBot(bot, done) => OrderedBot(f, done)
         /\ Answering(bot, runs, lost, shared) => Answering(f, runs, lost, shared)
<1>1. OrderedBot(bot, done) => OrderedBot(f, done)
  BY DEF SameWork, OrderedBot, Later
<1>2. Answering(bot, runs, lost, shared) => Answering(f, runs, lost, shared)
  BY StillAnswering DEF SameWork
<1> QED
  BY <1>1, <1>2

\* A bot in the middle of a set_chat that it has just begun.
Repointed(f, bot, asker) ==
  /\ f.call # Bot!NoCall /\ f.call.pc = "switch" /\ f.call.chat = asker
  /\ f.works = bot.works /\ f.offset = bot.offset /\ f.tool = bot.tool
  /\ \A c \in Chats : c # asker => f.chats[c] = bot.chats[c]
  /\ \A done : OrderedBot(bot, done) => OrderedBot(f, done)
  /\ Answering(bot, runs, lost, shared) => Answering(f, runs, lost, shared)

\* The first half of set_chat: the pointer changes, and the call that is to be followed by
\* the write begins.
LEMMA NewPointer ==
  ASSUME Good, Waiting, NEW b \in 1..Len(bots), NEW bot, GoodBot(bot, Len(inbox)), bot.works,
         Unawaited(b), ~Delivered(bot), NEW asker \in Chats, NEW sess \in Names,
         Bot!SetsChat(b, bot, asker, sess)
  PROVE  \E f : SetTo(b, f) /\ Waiting' /\ cmds' \in Seq(CmdType) /\ Repointed(f, bot, asker)
<1> DEFINE to == [bot EXCEPT !.chats[asker] = sess]
<1>1. to.chats = [bot.chats EXCEPT ![asker] = sess] /\ to = [bot EXCEPT !.chats = to.chats]
      /\ bot \in BotType /\ bot.chats \in [Chats -> Names]
  BY DEF GoodBot, BotType
<1>2. to.chats \in [Chats -> Names] /\ \A c \in Chats : c # asker => to.chats[c] = bot.chats[c]
  BY <1>1
<1>3. to \in BotType /\ to.call = bot.call /\ to.works = bot.works /\ to.offset = bot.offset
      /\ to.turns = bot.turns /\ to.events = bot.events /\ to.todo = bot.todo
      /\ to.batches = bot.batches /\ to.tool = bot.tool
  BY <1>1, <1>2 DEF BotType
<1>4. Bot!Call(b, to, "switch", asker, sess, 0)
  BY DEF Bot!SetsChat
<1> HIDE DEF to
<1>5. GoodBot(to, Len(inbox))
  BY <1>3 DEF GoodBot, Fetched, OneEach
<1>6. PICK f : /\ SetTo(b, f) /\ SameWork(f, to) /\ Waiting' /\ cmds' \in Seq(CmdType)
               /\ f.call # Bot!NoCall /\ f.call.pc = "switch" /\ f.call.chat = asker
  <2>1. "switch" \in CallKinds /\ 0 \in Nat /\ to.works
    BY <1>3 DEF CallKinds
  <2> QED
    BY <1>4, <1>5, <2>1, Called
<1>7. ASSUME NEW done, OrderedBot(bot, done) PROVE OrderedBot(f, done)
  <2>1. OrderedBot(to, done)
    BY <1>3, <1>7 DEF OrderedBot, Later
  <2> QED
    BY <1>6, <2>1, SameWorkKeeps
<1>8. Answering(bot, runs, lost, shared) => Answering(f, runs, lost, shared)
  <2>1. Delivered(to) <=> Delivered(bot)
    BY <1>3 DEF Delivered
  <2>2. Answering(bot, runs, lost, shared) => Answering(to, runs, lost, shared)
    BY <1>3, <2>1, StillAnswering
  <2> QED
    BY <1>6, <2>2, SameWorkKeeps
<1>9. f.works = bot.works /\ f.offset = bot.offset /\ f.tool = bot.tool
      /\ \A c \in Chats : c # asker => f.chats[c] = bot.chats[c]
  BY <1>2, <1>3, <1>6 DEF SameWork
<1>10. Repointed(f, bot, asker)
  BY <1>6, <1>7, <1>8, <1>9 DEF Repointed
<1> QED
  BY <1>6, <1>10

LEMMA BotDrains == ASSUME BotInv, NEW b \in 1..Len(bots), Bot!Drains(b) PROVE BotInv'
<1>1. Good /\ Waiting /\ GoodBot(bots[b], Len(inbox)) /\ bots[b].works /\ bots[b].call = Bot!NoCall
  BY DEF BotInv, Good, Bot!Drains
<1>2. PICK c \in Bot!Ready(b) : Bot!Dispatch(b, [bots[b] EXCEPT !.queued[c] = 0], c, bots[b].queued[c])
  BY DEF Bot!Drains
<1> DEFINE bot == [bots[b] EXCEPT !.queued[c] = 0]
<1>3. c \in Chats /\ bots[b].queued \in [Chats -> Nat] /\ bots[b].queued[c] \in Nat
  BY <1>1 DEF Bot!Ready, GoodBot, BotType
<1>4. bot.queued = [bots[b].queued EXCEPT ![c] = 0] /\ bot = [bots[b] EXCEPT !.queued = bot.queued]
  BY <1>1 DEF GoodBot, BotType
<1>5. bot.queued \in [Chats -> Nat]
  BY <1>3, <1>4
<1>6. bot \in BotType /\ bot.call = bots[b].call /\ bot.works = bots[b].works
      /\ bot.offset = bots[b].offset /\ bot.chats = bots[b].chats /\ bot.turns = bots[b].turns
      /\ bot.events = bots[b].events /\ bot.todo = bots[b].todo /\ bot.batches = bots[b].batches
      /\ bot.tool = bots[b].tool
  BY <1>1, <1>4, <1>5 DEF GoodBot, BotType
<1>7. Bot!Dispatch(b, bot, c, bots[b].queued[c])
  BY <1>2
<1> HIDE DEF bot
<1>8. GoodBot(bot, Len(inbox))
  BY <1>1, <1>6 DEF GoodBot, Fetched, OneEach
<1>9. PICK f : SetTo(b, f) /\ SameWork(f, bot) /\ Waiting' /\ cmds' \in Seq(CmdType)
  BY <1>1, <1>3, <1>6, <1>7, <1>8, Dispatched
<1>10. SameWork(f, bots[b])
  BY <1>6, <1>9 DEF SameWork
<1>11. handled' = handled /\ handled \in Seq(Nat)
  BY <1>1 DEF Good, Bot!Drains
<1>12. Points(f, bots[b])
  BY <1>1, <1>10, SamePoints DEF SameWork
<1> QED
  BY <1>1, <1>9, <1>10, <1>11, <1>12, SameWorkKeeps, WorkerStep DEF Bot!Drains, SameWork, Threads

\* Taking the first update that is to be handled.
LEMMA NextUpdate ==
  ASSUME NEW bot \in BotType, NEW n \in Nat, Fetched(bot, n), bot.todo # <<>>, NEW done \in Seq(Nat),
         NEW f, f.todo = Tail(bot.todo), f.batches = bot.batches, f.offset = bot.offset
  PROVE  /\ Head(bot.todo) \in 1..n /\ Fetched(f, n) /\ Append(done, Head(bot.todo)) \in Seq(Nat)
         /\ Tail(bot.todo) \in Seq(Nat)
         /\ OrderedBot(bot, done) => OrderedBot(f, Append(done, Head(bot.todo)))
<1> DEFINE id == Head(bot.todo)
           now == Append(done, id)
<1>1. bot.todo \in Seq(Nat) /\ Len(bot.todo) > 0 /\ bot.offset \in Nat \ {0}
  BY EmptySeq DEF BotType
<1>2. /\ id = bot.todo[1] /\ id \in Nat /\ Tail(bot.todo) \in Seq(Nat)
      /\ Len(Tail(bot.todo)) = Len(bot.todo) - 1
      /\ \A i \in 1..Len(Tail(bot.todo)) : Tail(bot.todo)[i] = bot.todo[i + 1]
  BY <1>1, HeadTailProperties
<1>3. 1 \in DOMAIN bot.todo /\ DOMAIN f.todo = 1..(Len(bot.todo) - 1)
      /\ \A i \in DOMAIN f.todo : i + 1 \in DOMAIN bot.todo /\ f.todo[i] = bot.todo[i + 1]
                                  /\ 1 < i + 1
  BY <1>1, <1>2
<1>4. id \in 1..(bot.offset - 1) /\ bot.offset <= n + 1
  BY <1>2, <1>3 DEF Fetched
<1>5. id \in 1..n /\ id < bot.offset
  BY <1>1, <1>4, SMTT(40)
<1>6. Fetched(f, n)
  BY <1>3 DEF Fetched
<1>7. now \in Seq(Nat) /\ DOMAIN now = 1..(Len(done) + 1) /\ now[Len(done) + 1] = id
      /\ DOMAIN done = 1..Len(done) /\ Len(done) \in Nat /\ \A k \in DOMAIN done : now[k] = done[k]
  BY <1>2, AppendProperties
<1> HIDE DEF id, now
<1>8. ASSUME OrderedBot(bot, done) PROVE OrderedBot(f, now)
  <2>1. InOrder(done) /\ (\A k \in DOMAIN done : done[k] < bot.offset) /\ Later(bot, done)
    BY <1>8 DEF OrderedBot
  <2>2. \A k \in DOMAIN now : k = Len(done) + 1 \/ k \in DOMAIN done
    BY <1>7
  <2>3. \A k \in DOMAIN done : done[k] < id
    BY <2>1, <1>2, <1>3 DEF Later, Before
  <2>4. InOrder(now)
    <3> SUFFICES ASSUME NEW j \in DOMAIN now, NEW k \in DOMAIN now, j < k PROVE now[j] < now[k]
      BY DEF InOrder
    <3>1. j \in DOMAIN done /\ now[j] = done[j]
      BY <1>7
    <3>2. CASE k = Len(done) + 1
      BY <3>1, <3>2, <2>3, <1>7
    <3>3. CASE k \in DOMAIN done
      BY <3>1, <3>3, <2>1, <1>7 DEF InOrder
    <3> QED
      BY <3>2, <3>3, <2>2
  <2>5. \A k \in DOMAIN now : now[k] < f.offset
    BY <2>1, <2>2, <1>5, <1>7
  <2>6. InOrder(f.todo)
    <3> SUFFICES ASSUME NEW j \in DOMAIN f.todo, NEW k \in DOMAIN f.todo, j < k
                 PROVE  f.todo[j] < f.todo[k]
      BY DEF InOrder
    <3>1. j + 1 < k + 1
      BY <1>3
    <3> QED
      BY <3>1, <2>1, <1>3 DEF Later, InOrder
  <2>7. Before(now, f.todo)
    <3> SUFFICES ASSUME NEW j \in DOMAIN now, NEW k \in DOMAIN f.todo PROVE now[j] < f.todo[k]
      BY DEF Before
    <3>1. CASE j = Len(done) + 1
      BY <3>1, <2>1, <1>2, <1>3, <1>7 DEF Later, InOrder
    <3>2. CASE j \in DOMAIN done
      BY <3>2, <2>1, <1>3, <1>7 DEF Later, Before
    <3> QED
      BY <3>1, <3>2, <2>2
  <2>8. ASSUME NEW j \in DOMAIN f.batches
        PROVE  InOrder(f.batches[j]) /\ Before(now, f.batches[j]) /\ Before(f.todo, f.batches[j])
    <3>1. InOrder(bot.batches[j]) /\ Before(done, bot.batches[j]) /\ Before(bot.todo, bot.batches[j])
      BY <2>1, <2>8 DEF Later
    <3>2. Before(now, bot.batches[j])
      <4> SUFFICES ASSUME NEW m \in DOMAIN now, NEW k \in DOMAIN bot.batches[j]
                   PROVE  now[m] < bot.batches[j][k]
        BY DEF Before
      <4>1. CASE m = Len(done) + 1
        BY <4>1, <3>1, <1>2, <1>3, <1>7 DEF Before
      <4>2. CASE m \in DOMAIN done
        BY <4>2, <3>1, <1>7 DEF Before
      <4> QED
        BY <4>1, <4>2, <2>2
    <3>3. Before(f.todo, bot.batches[j])
      BY <3>1, <1>3 DEF Before
    <3> QED
      BY <3>1, <3>2, <3>3
  <2>9. \A j, k \in DOMAIN f.batches : j < k => Before(f.batches[j], f.batches[k])
    BY <2>1 DEF Later
  <2> QED
    BY <2>4, <2>5, <2>6, <2>7, <2>8, <2>9 DEF OrderedBot, Later
<1> QED
  BY <1>2, <1>5, <1>6, <1>7, <1>8 DEF id, now

LEMMA BotHandlesUpdate == ASSUME BotInv, NEW b \in 1..Len(bots), Bot!HandlesUpdate(b) PROVE BotInv'
<1> DEFINE bot == [bots[b] EXCEPT !.todo = Tail(@)]
           id == Head(bots[b].todo)
           asker == inbox[id].chat
<1>1. Good /\ Waiting /\ GoodBot(bots[b], Len(inbox)) /\ bots[b].works /\ bots[b].call = Bot!NoCall
      /\ bots[b].todo # <<>> /\ handled' = Append(handled, id) /\ handled \in Seq(Nat)
      /\ inbox \in Seq([chat : Chats, kind : Bot!Kinds]) /\ bots[b] \in BotType
      /\ Fetched(bots[b], Len(inbox)) /\ OneEach(bots[b]) /\ Len(inbox) \in Nat
  <2>1. Good /\ Waiting /\ GoodBot(bots[b], Len(inbox)) /\ inbox \in Seq([chat : Chats, kind : Bot!Kinds])
        /\ handled \in Seq(Nat)
    BY DEF BotInv, Good
  <2>2. bots[b].works /\ bots[b].call = Bot!NoCall /\ bots[b].todo # <<>>
        /\ handled' = Append(handled, id)
    BY DEF Bot!HandlesUpdate
  <2> QED
    BY <2>1, <2>2 DEF GoodBot
<1>2. bot.todo = Tail(bots[b].todo) /\ bot.call = bots[b].call /\ bot.works = bots[b].works
      /\ bot.offset = bots[b].offset /\ bot.chats = bots[b].chats /\ bot.turns = bots[b].turns
      /\ bot.events = bots[b].events /\ bot.batches = bots[b].batches
      /\ bot.tool = bots[b].tool
  BY <1>1 DEF BotType
<1>3. /\ id \in 1..Len(inbox) /\ Fetched(bot, Len(inbox)) /\ handled' \in Seq(Nat)
      /\ Tail(bots[b].todo) \in Seq(Nat)
      /\ OrderedBot(bots[b], handled) => OrderedBot(bot, handled')
  <2> HIDE DEF bot
  <2>1. /\ id \in 1..Len(inbox) /\ Fetched(bot, Len(inbox)) /\ Append(handled, id) \in Seq(Nat)
        /\ Tail(bots[b].todo) \in Seq(Nat)
        /\ OrderedBot(bots[b], handled) => OrderedBot(bot, Append(handled, id))
    BY <1>1, <1>2, NextUpdate
  <2> QED
    BY <1>1, <2>1
<1>4. inbox[id] \in [chat : Chats, kind : Bot!Kinds] /\ asker \in Chats /\ id \in Nat
      /\ inbox[id].kind \in Bot!Kinds
  <2> HIDE DEF id
  <2>1. id \in 1..Len(inbox) /\ inbox \in Seq([chat : Chats, kind : Bot!Kinds])
    BY <1>1, <1>3
  <2>2. inbox[id] \in [chat : Chats, kind : Bot!Kinds]
    BY <2>1, ElementOfSeq
  <2>4. id \in Nat
    BY <2>1
  <2>3. \A r \in [chat : Chats, kind : Bot!Kinds] : r.chat \in Chats /\ r.kind \in Bot!Kinds
    OBVIOUS
  <2> QED
    BY <2>2, <2>3, <2>4
<1>5. bot \in BotType
  BY <1>1, <1>3 DEF BotType
<1>6. GoodBot(bot, Len(inbox))
  <2> HIDE DEF bot
  <2> QED
    BY <1>1, <1>2, <1>3, <1>5 DEF GoodBot, OneEach
<1>7. Answering(bots[b], runs, lost, shared) => Answering(bot, runs, lost, shared)
  <2> HIDE DEF bot
  <2>1. ~Delivered(bot)
    BY <1>1, <1>2 DEF Delivered
  <2> QED
    BY <1>2, <2>1, StillAnswering
<1>8. /\ inbox' = inbox /\ slot' = slot /\ tx' = tx /\ sessions' = sessions /\ runs' = runs
      /\ lost' = lost /\ shared' = shared /\ overlap' = overlap /\ wrong' = wrong
      /\ state' = state /\ stale' = stale /\ forgot' = forgot
  BY DEF Bot!HandlesUpdate
<1>9. CASE inbox[id].kind \in {"text", "empty", "new"}
  <2>1. \/ Bot!Dispatch(b, bot, asker, id)
        \/ Bot!Call(b, bot, "new", asker, Bot!NoSession, 0)
    BY <1>9 DEF Bot!HandlesUpdate
  <2> HIDE DEF bot, id, asker
  <2>2. PICK f : SetTo(b, f) /\ SameWork(f, bot) /\ Waiting' /\ cmds' \in Seq(CmdType)
    <3>1. CASE Bot!Dispatch(b, bot, asker, id)
      BY <3>1, <1>1, <1>2, <1>4, <1>6, Dispatched
    <3>2. CASE Bot!Call(b, bot, "new", asker, Bot!NoSession, 0)
      <4>1. Unawaited(b)
        BY <1>1, NotAwaited
      <4>2. Bot!NoSession \in Names /\ "new" \in CallKinds
        BY DEF Bot!NoSession, Names, Words, CallKinds
      <4> QED
        BY <3>2, <4>1, <4>2, <1>1, <1>2, <1>4, <1>6, Called
    <3> QED
      BY <2>1, <3>1, <3>2
  <2>3. f.offset = bots[b].offset /\ (f.works => bots[b].works) /\ Threads(bots[b])
    BY <1>1, <1>2, <2>2 DEF SameWork, Threads
  <2>6. Points(f, bots[b])
    BY <1>1, <1>2, <2>2, SamePoints DEF SameWork
  <2>4. OrderedBot(bots[b], handled) => OrderedBot(f, handled')
    BY <1>3, <2>2, SameWorkKeeps
  <2>5. Answering(bots[b], runs, lost, shared) => Answering(f, runs, lost, shared)
    BY <1>7, <2>2, SameWorkKeeps
  <2> QED
    BY <1>3, <1>8, <2>2, <2>3, <2>4, <2>5, <2>6, WorkerStep
<1>10. CASE inbox[id].kind = "use"
  <2>1. Unawaited(b)
    BY <1>1, NotAwaited
  <2>4. Threads(bots[b])
    BY <1>1 DEF Threads
  <2>2. CASE bots' = [bots EXCEPT ![b] = bot] /\ cmds' = cmds
    <3> HIDE DEF bot, id
    <3>1. SetTo(b, bot)
      BY <1>1, <1>6, <2>2, OneSet
    <3>2. Waiting' /\ cmds' \in Seq(CmdType)
      BY <1>1, <2>1, <2>2, <3>1, StillWaiting DEF Good
    <3>3. Points(bot, bots[b])
      BY <1>2, SamePoints
    <3> QED
      BY <1>2, <1>3, <1>7, <1>8, <2>4, <3>1, <3>2, <3>3, WorkerStep
  <2>3. ASSUME NEW s \in sessions, Bot!SetsChat(b, bot, asker, s)
        PROVE  BotInv'
    <3>1. s \in Names
      BY <1>1 DEF Good
    <3>2. ~Delivered(bot)
      BY <1>1, <1>2 DEF Delivered
    <3> HIDE DEF bot, id, asker
    <3>3. PICK f : /\ SetTo(b, f) /\ Waiting' /\ cmds' \in Seq(CmdType)
                   /\ Repointed(f, bot, asker)
      BY <1>1, <1>2, <1>4, <1>6, <2>1, <2>3, <3>1, <3>2, NewPointer
    <3>4. Points(f, bots[b])
      BY <1>1, <1>2, <3>3 DEF Points, Pends, Repointed
    <3>5. f.offset = bots[b].offset /\ (f.works => bots[b].works)
      BY <1>2, <3>3 DEF Repointed
    <3>6. /\ OrderedBot(bots[b], handled) => OrderedBot(f, handled')
          /\ Answering(bots[b], runs, lost, shared) => Answering(f, runs, lost, shared)
      BY <1>3, <1>7, <3>3 DEF Repointed
    <3> QED
      BY <1>3, <1>8, <2>4, <3>3, <3>4, <3>5, <3>6, WorkerStep
  <2> QED
    BY <1>10, <2>2, <2>3 DEF Bot!HandlesUpdate, Bot!SetBot
<1> QED
  BY <1>4, <1>9, <1>10 DEF Bot!Kinds

LEMMA BotReturns == ASSUME BotInv, NEW b \in 1..Len(bots), Bot!Returns(b) PROVE BotInv'
<1> DEFINE bot == bots[b]
           call == bot.call
           kept(s) == [bot.chats EXCEPT ![call.chat] = s]
           after(s) == [bot EXCEPT !.call = Bot!NoCall, !.chats = kept(s)]
           done == [bot EXCEPT !.call = Bot!NoCall]
<1>1. Good /\ Waiting /\ GoodBot(bot, Len(inbox)) /\ bot.works /\ call # Bot!NoCall
      /\ call.answer # "none" /\ handled \in Seq(Nat) /\ cmds \in Seq(CmdType)
      /\ bot \in BotType /\ OneEach(bot) /\ Threads(bot)
  BY DEF BotInv, Good, GoodBot, Bot!Returns, Threads
<1>2. call \in Asked /\ bot.turns \in Seq(Turn) /\ bot.chats \in [Chats -> Names]
  BY <1>1 DEF BotType
<1>3. call.pc \in CallKinds /\ call.chat \in Chats /\ call.sess \in Names
      /\ call.msg \in Nat /\ call.answer \in Names
  BY <1>2 DEF Asked
<1>4. Unawaited(b)
  BY <1>1, NotAwaited
<1>5. /\ inbox' = inbox /\ slot' = slot /\ tx' = tx /\ sessions' = sessions /\ runs' = runs
      /\ lost' = lost /\ shared' = shared /\ overlap' = overlap /\ wrong' = wrong
      /\ handled' = handled /\ forgot' = forgot
  BY DEF Bot!Returns
<1>6. ASSUME NEW s \in Names
      PROVE  /\ GoodBot(after(s), Len(inbox)) /\ after(s).works /\ after(s).call = Bot!NoCall
             /\ after(s).offset = bot.offset /\ after(s).chats = kept(s)
             /\ after(s).turns = bot.turns /\ after(s).events = bot.events
             /\ after(s).todo = bot.todo /\ after(s).batches = bot.batches
             /\ (OrderedBot(bot, handled) => OrderedBot(after(s), handled))
             /\ (Answering(bot, runs, lost, shared) => Answering(after(s), runs, lost, shared))
  <2>1. kept(s) \in [Chats -> Names]
    BY <1>2, <1>3
  <2> DEFINE f == after(s)
             chats == kept(s)
  <2> HIDE DEF chats
  <2>2. f.chats = chats /\ f.call = Bot!NoCall /\ f.works /\ f.offset = bot.offset
        /\ f.turns = bot.turns /\ f.events = bot.events /\ f.todo = bot.todo
        /\ f.batches = bot.batches /\ f \in BotType
    BY <1>1, <2>1 DEF BotType, chats
  <2> HIDE DEF f
  <2>3. GoodBot(f, Len(inbox)) /\ (OrderedBot(bot, handled) => OrderedBot(f, handled))
    BY <1>1, <2>2 DEF GoodBot, Fetched, OneEach, OrderedBot, Later
  <2>4. ~Delivered(f)
    BY <2>2 DEF Delivered
  <2>5. Answering(bot, runs, lost, shared) => Answering(f, runs, lost, shared)
    BY <1>1, <2>2, <2>4, StillAnswering
  <2> QED
    BY <2>2, <2>3, <2>5 DEF f, chats
<1>7. /\ GoodBot(done, Len(inbox)) /\ done.works /\ done.call = Bot!NoCall /\ done.tool = bot.tool
      /\ done.offset = bot.offset /\ done.chats = bot.chats
      /\ (OrderedBot(bot, handled) => OrderedBot(done, handled))
      /\ (Answering(bot, runs, lost, shared) => Answering(done, runs, lost, shared))
  <2>1. done.chats = bot.chats /\ done.call = Bot!NoCall /\ done.works /\ done.offset = bot.offset
        /\ done.turns = bot.turns /\ done.events = bot.events /\ done.todo = bot.todo
        /\ done.batches = bot.batches /\ done.tool = bot.tool /\ done \in BotType
    BY <1>1 DEF BotType
  <2> HIDE DEF done
  <2>2. GoodBot(done, Len(inbox)) /\ (OrderedBot(bot, handled) => OrderedBot(done, handled))
    BY <1>1, <2>1 DEF GoodBot, Fetched, OneEach, OrderedBot, Later
  <2>3. ~Delivered(done)
    BY <2>1 DEF Delivered
  <2>4. Answering(bot, runs, lost, shared) => Answering(done, runs, lost, shared)
    BY <1>1, <2>1, <2>3, StillAnswering
  <2> QED
    BY <2>1, <2>2, <2>4
<1>8. CASE call.pc = "switch"
  <2>1. /\ bots' = [bots EXCEPT ![b] = done] /\ cmds' = cmds
        /\ \/ state' = [offset |-> bot.offset, chats |-> bot.chats]
           \/ state' = state /\ stale'
    BY <1>8 DEF Bot!Returns, Bot!SetBot, Bot!Saves
  <2> HIDE DEF done
  <2>2. SetTo(b, done)
    BY <1>1, <1>7, <2>1, OneSet
  <2>3. Waiting' /\ cmds' \in Seq(CmdType)
    BY <1>1, <1>4, <2>1, <2>2, StillWaiting
  <2>4. state' = [offset |-> done.offset, chats |-> done.chats] \/ (state' = state /\ stale')
    BY <1>7, <2>1
  <2> QED
    BY <1>1, <1>5, <1>7, <2>2, <2>3, <2>4, WorkerStep
<1>9. CASE call.answer = "failed" /\ call.pc = "inject"
  <2> DEFINE f == after(Bot!NoSession)
  <2>1. Bot!NoSession \in Names
    BY DEF Bot!NoSession, Names, Words
  <2>2. /\ bots' = [bots EXCEPT ![b] = f] /\ cmds' = cmds
        /\ \/ state' = [offset |-> bot.offset, chats |-> kept(Bot!NoSession)]
           \/ state' = state /\ stale'
    BY <1>9 DEF Bot!Returns, Bot!SetBot, Bot!Saves
  <2>3. /\ GoodBot(f, Len(inbox)) /\ f.works /\ f.offset = bot.offset
        /\ f.chats = kept(Bot!NoSession)
        /\ (OrderedBot(bot, handled) => OrderedBot(f, handled))
        /\ (Answering(bot, runs, lost, shared) => Answering(f, runs, lost, shared))
    BY <1>6, <2>1
  <2> HIDE DEF f, kept
  <2>4. SetTo(b, f)
    BY <1>1, <2>2, <2>3, OneSet
  <2>5. Waiting' /\ cmds' \in Seq(CmdType)
    BY <1>1, <1>4, <2>2, <2>4, StillWaiting
  <2>6. state' = [offset |-> f.offset, chats |-> f.chats] \/ (state' = state /\ stale')
    BY <2>2, <2>3
  <2> QED
    BY <1>1, <1>5, <2>3, <2>4, <2>5, <2>6, WorkerStep
<1>10. CASE call.answer = "failed" /\ call.pc \in {"new", "create"}
  <2>1. bots' = [bots EXCEPT ![b] = done] /\ state' = state /\ stale' = stale /\ cmds' = cmds
    BY <1>10 DEF Bot!Returns, Bot!SetBot
  <2> HIDE DEF done
  <2>2. SetTo(b, done)
    BY <1>1, <1>7, <2>1, OneSet
  <2>3. Waiting' /\ cmds' \in Seq(CmdType)
    BY <1>1, <1>4, <2>1, <2>2, StillWaiting
  <2>4. Points(done, bot)
    BY <1>7, <1>10, SamePoints
  <2> QED
    BY <1>1, <1>5, <1>7, <2>1, <2>2, <2>3, <2>4, WorkerStep
<1>11. CASE call.answer # "failed" /\ call.pc = "new"
  <2>1. Bot!SetsChat(b, bot, call.chat, call.answer) /\ state' = state /\ stale' = stale
    BY <1>11 DEF Bot!Returns
  <2>2. ~Delivered(bot)
    BY <1>11 DEF Delivered
  <2>5. PICK c \in Chats, s \in Names : c = call.chat /\ s = call.answer
    BY <1>3
  <2>6. Bot!SetsChat(b, bot, c, s)
    BY <2>1, <2>5
  <2> HIDE DEF call
  <2>3. PICK f : SetTo(b, f) /\ Waiting' /\ cmds' \in Seq(CmdType) /\ Repointed(f, bot, c)
    BY <1>1, <1>4, <2>2, <2>6, NewPointer
  <2>4. Points(f, bot)
    BY <1>11, <2>3, <2>5 DEF Points, Pends, Repointed, call
  <2>7. /\ f.offset = bot.offset /\ (f.works => bot.works)
        /\ OrderedBot(bot, handled) => OrderedBot(f, handled')
        /\ Answering(bot, runs, lost, shared) => Answering(f, runs, lost, shared)
    BY <1>5, <2>3 DEF Repointed
  <2> QED
    BY <1>1, <1>5, <2>1, <2>3, <2>4, <2>7, WorkerStep
<1>12. CASE call.answer # "failed" /\ call.pc = "create"
  <2> DEFINE bot2 == after(call.answer)
  <2>1. /\ Bot!Call(b, bot2, "inject", call.chat, call.answer, call.msg)
        /\ \/ state' = [offset |-> bot.offset, chats |-> kept(call.answer)]
           \/ state' = state /\ stale'
    BY <1>12 DEF Bot!Returns, Bot!Saves
  <2>2. /\ GoodBot(bot2, Len(inbox)) /\ bot2.works
        /\ bot2.offset = bot.offset /\ bot2.chats = kept(call.answer) /\ bot2.turns = bot.turns
        /\ (OrderedBot(bot, handled) => OrderedBot(bot2, handled))
        /\ (Answering(bot, runs, lost, shared) => Answering(bot2, runs, lost, shared))
    BY <1>3, <1>6
  <2> HIDE DEF bot2, kept
  <2>3. \A k \in DOMAIN bot2.turns : bot2.turns[k].chat # call.chat
    BY <1>1, <1>12, <2>2 DEF OneEach
  <2>7. "inject" \in CallKinds
    BY DEF CallKinds
  <2>4. PICK f : SetTo(b, f) /\ SameWork(f, bot2) /\ Waiting' /\ cmds' \in Seq(CmdType)
    BY <1>1, <1>3, <1>4, <2>1, <2>2, <2>3, <2>7, Called
  <2>5. /\ state' = [offset |-> f.offset, chats |-> f.chats] \/ (state' = state /\ stale')
        /\ f.offset = bots[b].offset
    BY <2>1, <2>2, <2>4 DEF SameWork
  <2>6. /\ OrderedBot(bots[b], handled) => OrderedBot(f, handled')
        /\ Answering(bots[b], runs, lost, shared) => Answering(f, runs, lost, shared)
    BY <1>5, <2>2, <2>4, SameWorkKeeps
  <2> QED
    BY <1>1, <1>5, <2>4, <2>5, <2>6, WorkerStep
<1>13. CASE call.answer # "failed" /\ call.pc = "inject"
  <2> DEFINE turn == [chat |-> call.chat, sess |-> call.sess]
             more == Append(bot.turns, turn)
             f == [bot EXCEPT !.call = Bot!NoCall, !.active = call.chat, !.turns = Append(@, turn)]
  <2>1. bots' = [bots EXCEPT ![b] = f] /\ state' = state /\ stale' = stale /\ cmds' = cmds
    BY <1>13 DEF Bot!Returns, Bot!SetBot
  <2>2. turn \in Turn /\ turn.chat = call.chat /\ turn.sess = call.sess
    BY <1>3 DEF Turn
  <2> HIDE DEF turn
  <2>3. /\ more \in Seq(Turn) /\ DOMAIN more = 1..(Len(bot.turns) + 1)
        /\ more[Len(bot.turns) + 1] = turn /\ Len(bot.turns) \in Nat
        /\ DOMAIN bot.turns = 1..Len(bot.turns)
        /\ \A k \in DOMAIN bot.turns : more[k] = bot.turns[k]
    BY <1>2, <2>2, AppendProperties
  <2>4. f.turns = more
        /\ f = [bot EXCEPT !.call = Bot!NoCall, !.active = call.chat, !.turns = more]
    BY <1>1 DEF BotType
  <2> HIDE DEF more, f
  <2>5. f.chats = bot.chats /\ f.call = Bot!NoCall /\ f.works /\ f.offset = bot.offset
        /\ f.events = bot.events /\ f.todo = bot.todo
        /\ f.batches = bot.batches /\ f.tool = bot.tool /\ f \in BotType
    BY <1>1, <1>3, <2>3, <2>4 DEF BotType
  <2>6. \A k \in DOMAIN more : k = Len(bot.turns) + 1 \/ k \in DOMAIN bot.turns
    BY <2>3
  <2>7. OneEach(f)
    <3>1. \A k \in DOMAIN bot.turns : bot.turns[k].chat # call.chat
      BY <1>1, <1>13 DEF OneEach
    <3>2. \A j, k \in DOMAIN more : more[j].chat = more[k].chat => j = k
      <4>1. \A j, k \in DOMAIN bot.turns : bot.turns[j].chat = bot.turns[k].chat => j = k
        BY <1>1 DEF OneEach
      <4>2. ASSUME NEW k \in DOMAIN more
            PROVE  \/ k = Len(bot.turns) + 1 /\ more[k].chat = call.chat
                   \/ k \in DOMAIN bot.turns /\ more[k].chat = bot.turns[k].chat
        BY <2>2, <2>3, <2>6
      <4> QED
        BY <3>1, <4>1, <4>2, ZenonT(30)
    <3> QED
      BY <2>4, <2>5, <3>2 DEF OneEach
  <2>8. GoodBot(f, Len(inbox)) /\ (OrderedBot(bot, handled) => OrderedBot(f, handled))
    BY <1>1, <2>5, <2>7 DEF GoodBot, Fetched, OrderedBot, Later
  <2>9. ASSUME Answering(bot, runs, lost, shared) PROVE Answering(f, runs, lost, shared)
    <3>1. Delivered(bot) /\ ~Delivered(f)
      BY <1>1, <1>13, <2>5 DEF Delivered
    <3>2. \A s, c : Claims(f, s, c) => Claims(bot, s, c)
      BY <2>2, <2>3, <2>4, <2>6, <3>1 DEF Claims
    <3>3. ASSUME NEW s \in Names, s \notin shared PROVE OneClaim(f, s)
      <4>1. OneClaim(bot, s)
        BY <2>9, <3>3 DEF Answering
      <4> QED
        BY <4>1, <2>2, <2>3, <2>4, <2>6, <3>1 DEF OneClaim
    <3>4. ASSUME NEW s \in Names, s \notin shared PROVE Faithful(f, runs, s)
      BY <2>5, <2>9, <3>2, <3>4 DEF Answering, Faithful
    <3>5. ASSUME NEW s \in Names PROVE Met(f, runs, lost \cup shared, s)
      BY <1>1, <2>5, <2>9, <3>2 DEF Answering, Met
    <3> QED
      BY <3>3, <3>4, <3>5 DEF Answering
  <2>10. SetTo(b, f)
    BY <1>1, <2>1, <2>8, OneSet
  <2>11. Waiting' /\ cmds' \in Seq(CmdType)
    BY <1>1, <1>4, <2>1, <2>10, StillWaiting
  <2>12. Points(f, bot)
    BY <1>13, <2>5, SamePoints
  <2> QED
    BY <1>1, <1>5, <2>1, <2>5, <2>8, <2>9, <2>10, <2>11, <2>12, WorkerStep
<1> QED
  BY <1>3, <1>8, <1>9, <1>10, <1>11, <1>12, <1>13 DEF CallKinds

\* use_session: the pointer changes, and the write is to follow.
LEMMA BotUsesSession == ASSUME BotInv, Bot!UsesSession PROVE BotInv'
<1> DEFINE bot == bots[slot]
<1>1. Good /\ Waiting /\ slot \in 1..Len(bots) /\ GoodBot(bot, Len(inbox)) /\ bot \in BotType
      /\ bot.works /\ bot.active # Bot!NoChat /\ bot.tool = Bot!NoChat /\ Threads(bot)
      /\ sessions \subseteq Names /\ handled \in Seq(Nat) /\ cmds \in Seq(CmdType)
  <2>1. Good /\ Waiting /\ sessions \subseteq Names /\ handled \in Seq(Nat)
        /\ cmds \in Seq(CmdType) /\ slot \in 0..Len(bots) /\ bots \in Seq(BotType)
    BY DEF BotInv, Good
  <2>2. slot # 0 /\ bot.works /\ bot.active # Bot!NoChat /\ bot.tool = Bot!NoChat
    BY DEF Bot!UsesSession
  <2>3. slot \in 1..Len(bots)
    BY <2>1, <2>2
  <2>4. GoodBot(bot, Len(inbox))
    BY <2>1, <2>3 DEF Good
  <2> QED
    BY <2>1, <2>2, <2>3, <2>4 DEF GoodBot, Threads
<1>2. PICK s \in sessions :
        bots' = [bots EXCEPT ![slot] = [bot EXCEPT !.chats[bot.active] = s, !.tool = bot.active]]
  BY DEF Bot!UsesSession, Bot!SetBot
<1>3. PICK c \in Chats : c = bot.active
  BY <1>1 DEF BotType
<1> DEFINE chats == [bot.chats EXCEPT ![c] = s]
           f == [bot EXCEPT !.chats = chats, !.tool = c]
<1>4. chats \in [Chats -> Names] /\ \A d \in Chats : d # c => chats[d] = bot.chats[d]
  BY <1>1 DEF BotType
<1>5. bots' = [bots EXCEPT ![slot] = f]
  <2>1. [bot EXCEPT !.chats[c] = s, !.tool = c] = f
    BY <1>1 DEF BotType
  <2> QED
    BY <1>2, <1>3, <2>1
<1> HIDE DEF chats
<1>6. f.chats = chats /\ f.call = bot.call /\ f.works = bot.works /\ f.offset = bot.offset
      /\ f.turns = bot.turns /\ f.events = bot.events /\ f.todo = bot.todo
      /\ f.batches = bot.batches /\ f.tool = c /\ f \in BotType
  BY <1>1, <1>4 DEF BotType
<1> HIDE DEF f
<1>7. GoodBot(f, Len(inbox)) /\ (OrderedBot(bot, handled) => OrderedBot(f, handled))
  BY <1>1, <1>6 DEF GoodBot, Fetched, OneEach, OrderedBot, Later
<1>8. Answering(bot, runs, lost, shared) => Answering(f, runs, lost, shared)
  <2>1. Delivered(f) <=> Delivered(bot)
    BY <1>6 DEF Delivered
  <2> QED
    BY <1>6, <2>1, StillAnswering
<1>9. SetTo(slot, f)
  BY <1>1, <1>5, <1>7, OneSet
<1>10. /\ inbox' = inbox /\ slot' = slot /\ tx' = tx /\ sessions' = sessions /\ runs' = runs
       /\ lost' = lost /\ shared' = shared /\ overlap' = overlap /\ wrong' = wrong
       /\ handled' = handled /\ forgot' = forgot /\ state' = state /\ stale' = stale /\ cmds' = cmds
  BY DEF Bot!UsesSession
<1>11. Waiting' /\ cmds' \in Seq(CmdType)
  BY <1>1, <1>6, <1>9, <1>10, StillWaiting
<1>12. Points(f, bot)
  <2> SUFFICES ASSUME NEW d \in Chats
               PROVE  Pends(f, d) \/ (f.chats[d] = bot.chats[d] /\ ~Pends(bot, d))
    BY DEF Points
  <2>1. d # Bot!NoChat
    BY ChatAssumption
  <2>2. CASE d = c
    BY <1>6, <2>2 DEF Pends
  <2>3. CASE d # c
    BY <1>1, <1>4, <1>6, <2>1, <2>3 DEF Pends
  <2> QED
    BY <2>2, <2>3
<1> QED
  BY <1>1, <1>6, <1>7, <1>8, <1>9, <1>10, <1>11, <1>12, WorkerStep

LEMMA BotToolSaves == ASSUME BotInv, NEW b \in 1..Len(bots), Bot!ToolSaves(b) PROVE BotInv'
<1> DEFINE bot == bots[b]
           f == [bot EXCEPT !.tool = Bot!NoChat]
<1>1. Good /\ Waiting /\ GoodBot(bot, Len(inbox)) /\ bot \in BotType /\ Threads(bot)
      /\ handled \in Seq(Nat) /\ cmds \in Seq(CmdType)
  BY DEF BotInv, Good, GoodBot, Bot!ToolSaves, Threads
<1>2. /\ bots' = [bots EXCEPT ![b] = f]
      /\ \/ state' = [offset |-> bot.offset, chats |-> bot.chats]
         \/ state' = state /\ stale'
  BY DEF Bot!ToolSaves, Bot!SetBot, Bot!Saves
<1>3. f.chats = bot.chats /\ f.call = bot.call /\ f.works = bot.works /\ f.offset = bot.offset
      /\ f.turns = bot.turns /\ f.events = bot.events /\ f.todo = bot.todo
      /\ f.batches = bot.batches /\ f \in BotType
  BY <1>1 DEF BotType
<1> HIDE DEF f
<1>4. GoodBot(f, Len(inbox)) /\ (OrderedBot(bot, handled) => OrderedBot(f, handled))
  BY <1>1, <1>3 DEF GoodBot, Fetched, OneEach, OrderedBot, Later
<1>5. Answering(bot, runs, lost, shared) => Answering(f, runs, lost, shared)
  <2>1. Delivered(f) <=> Delivered(bot)
    BY <1>3 DEF Delivered
  <2> QED
    BY <1>3, <2>1, StillAnswering
<1>6. SetTo(b, f)
  BY <1>1, <1>2, <1>4, OneSet
<1>7. /\ inbox' = inbox /\ slot' = slot /\ tx' = tx /\ sessions' = sessions /\ runs' = runs
      /\ lost' = lost /\ shared' = shared /\ overlap' = overlap /\ wrong' = wrong
      /\ handled' = handled /\ forgot' = forgot /\ cmds' = cmds
  BY DEF Bot!ToolSaves
<1>8. Waiting' /\ cmds' \in Seq(CmdType)
  BY <1>1, <1>3, <1>6, <1>7, StillWaiting
<1>9. state' = [offset |-> f.offset, chats |-> f.chats] \/ (state' = state /\ stale')
  BY <1>2, <1>3
<1> QED
  BY <1>1, <1>3, <1>4, <1>5, <1>6, <1>7, <1>8, <1>9, WorkerStep

(* The end of a run.                                                       *)

LEMMA Least ==
  ASSUME NEW T, T \subseteq Nat, T # {}
  PROVE  \E k \in T : \A j \in T : k <= j
<1>1. PICK k \in T : \A j \in T : ~(<<j, k>> \in OpToRel(<, Nat))
  BY WFMin, NatLessThanWellFounded, Zenon
<1>2. \A j \in T : ~(j < k)
  BY <1>1 DEF OpToRel
<1> QED
  BY <1>2

LEMMA OneRemoved ==
  ASSUME NEW S, NEW s \in Seq(S), NEW i \in 1..Len(s)
  PROVE  /\ Bot!RemoveAt(s, i) \in Seq(S) /\ DOMAIN Bot!RemoveAt(s, i) = 1..(Len(s) - 1)
         /\ \A k \in 1..(Len(s) - 1) : Bot!RemoveAt(s, i)[k] = s[IF k < i THEN k ELSE k + 1]
<1> DEFINE before == SubSeq(s, 1, i - 1)
           after == SubSeq(s, i + 1, Len(s))
<1>1. Len(s) \in Nat /\ i \in Int /\ i - 1 \in Int /\ i + 1 \in Int /\ Len(s) \in Int
      /\ 1 <= i /\ i <= Len(s)
  OBVIOUS
<1>2. /\ before \in Seq(S) /\ Len(before) = IF 1 <= i - 1 THEN (i - 1) - 1 + 1 ELSE 0
      /\ \A k \in 1..((i - 1) - 1 + 1) : before[k] = s[1 + k - 1]
  <2>1. \A k \in 1..(i - 1) : s[k] \in S
    BY <1>1
  <2> QED
    BY <1>1, <2>1, SubSeqProperties
<1>3. /\ after \in Seq(S) /\ Len(after) = IF i + 1 <= Len(s) THEN Len(s) - (i + 1) + 1 ELSE 0
      /\ \A k \in 1..(Len(s) - (i + 1) + 1) : after[k] = s[(i + 1) + k - 1]
  <2>1. \A k \in (i + 1)..Len(s) : s[k] \in S
    BY <1>1
  <2> QED
    BY <1>1, <2>1, SubSeqProperties
<1> HIDE DEF before, after
<1>4. Len(before) = i - 1 /\ \A k \in 1..(i - 1) : before[k] = s[k]
  BY <1>1, <1>2
<1>5. Len(after) = Len(s) - i /\ \A k \in 1..(Len(s) - i) : after[k] = s[i + k]
  BY <1>1, <1>3
<1>6. /\ before \o after \in Seq(S) /\ Len(before \o after) = Len(before) + Len(after)
      /\ \A k \in 1..(Len(before) + Len(after)) :
           (before \o after)[k] = IF k <= Len(before) THEN before[k] ELSE after[k - Len(before)]
  BY <1>2, <1>3, ConcatProperties
<1>7. Len(before) + Len(after) = Len(s) - 1
  BY <1>1, <1>4, <1>5
<1>8. DOMAIN (before \o after) = 1..(Len(s) - 1)
  BY <1>6, <1>7
<1>9. ASSUME NEW k \in 1..(Len(s) - 1)
      PROVE  (before \o after)[k] = s[IF k < i THEN k ELSE k + 1]
  <2>1. CASE k < i
    BY <2>1, <1>1, <1>4, <1>6, <1>7
  <2>2. CASE ~(k < i)
    <3>1. k - (i - 1) \in 1..(Len(s) - i) /\ i + (k - (i - 1)) = k + 1 /\ ~(k <= i - 1)
      BY <2>2, <1>1
    <3> QED
      <4>1. (before \o after)[k] = after[k - (i - 1)]
        BY <2>2, <3>1, <1>1, <1>4, <1>6, <1>7
      <4>2. after[k - (i - 1)] = s[k + 1]
        BY <3>1, <1>5
      <4> QED
        BY <2>2, <4>1, <4>2
  <2> QED
    BY <2>1, <2>2
<1> QED
  BY <1>6, <1>8, <1>9 DEF Bot!RemoveAt, before, after

LEMMA BotHandlesEnd == ASSUME BotInv, NEW b \in 1..Len(bots), Bot!HandlesEnd(b) PROVE BotInv'
<1> DEFINE bot == bots[b]
           event == Head(bot.events)
           turns == Bot!TurnsOf(bot, event.sess)
           first == CHOOSE k \in turns : \A j \in turns : k <= j
           gone == bot.turns[first]
           rest == Tail(bot.events)
           left == IF turns = {} THEN bot.turns ELSE Bot!RemoveAt(bot.turns, first)
           now == IF turns # {} /\ bot.active = gone.chat THEN Bot!NoChat ELSE bot.active
           f == [bot EXCEPT !.events = rest, !.turns = left, !.active = now]
<1>1. Good /\ Waiting /\ GoodBot(bot, Len(inbox)) /\ bot.works /\ bot.call = Bot!NoCall
      /\ bot.events # <<>> /\ handled \in Seq(Nat) /\ cmds \in Seq(CmdType)
  BY DEF BotInv, Good, Bot!HandlesEnd, Bot!Idle
<1>2. bot \in BotType /\ OneEach(bot) /\ bot.turns \in Seq(Turn) /\ bot.events \in Seq(Ended)
      /\ DOMAIN bot.turns = 1..Len(bot.turns) /\ Len(bot.turns) \in Nat
  BY <1>1 DEF GoodBot, BotType
<1>3. /\ event = bot.events[1] /\ event \in Ended /\ rest \in Seq(Ended)
      /\ 1 \in DOMAIN bot.events
      /\ \A i \in DOMAIN rest : rest[i] = bot.events[i + 1] /\ i + 1 \in DOMAIN bot.events
      /\ \A i \in DOMAIN bot.events : i = 1 \/ \E j \in DOMAIN rest : rest[j] = bot.events[i]
  <2>1. Len(bot.events) > 0 /\ Len(bot.events) \in Nat
    BY <1>1, <1>2, EmptySeq
  <2>2. /\ event = bot.events[1] /\ event \in Ended /\ rest \in Seq(Ended)
        /\ Len(rest) = Len(bot.events) - 1
        /\ \A i \in 1..Len(rest) : rest[i] = bot.events[i + 1]
    BY <1>1, <1>2, HeadTailProperties
  <2>3. DOMAIN rest = 1..(Len(bot.events) - 1) /\ DOMAIN bot.events = 1..Len(bot.events)
    BY <1>2, <2>2
  <2> HIDE DEF rest, event
  <2>4. ASSUME NEW i \in DOMAIN bot.events, i # 1
        PROVE  \E j \in DOMAIN rest : rest[j] = bot.events[i]
    <3>1. i - 1 \in 1..(Len(bot.events) - 1) /\ (i - 1) + 1 = i
      BY <2>3, <2>4
    <3> QED
      BY <3>1, <2>2, <2>3
  <2> QED
    BY <2>1, <2>2, <2>3, <2>4
<1>4. turns # {} => first \in turns
  <2>1. turns \subseteq Nat
    BY <1>2 DEF Bot!TurnsOf
  <2> QED
    BY <2>1, Least
<1>5. turns = {k \in DOMAIN bot.turns : bot.turns[k].sess = event.sess}
  BY DEF Bot!TurnsOf
<1> HIDE DEF turns, first, event, rest
<1>6. turns # {} => first \in 1..Len(bot.turns) /\ gone.sess = event.sess /\ gone \in Turn
                    /\ gone.chat \in Chats
  <2>1. turns # {} => first \in 1..Len(bot.turns) /\ gone.sess = event.sess
    BY <1>2, <1>4, <1>5
  <2>2. turns # {} => gone \in Turn
    BY <2>1, <1>2
  <2>3. \A t \in Turn : t.chat \in Chats
    BY DEF Turn
  <2> QED
    BY <2>1, <2>2, <2>3
<1> DEFINE was(k) == IF turns = {} \/ k < first THEN k ELSE k + 1
<1>7. /\ left \in Seq(Turn)
      /\ \A k \in DOMAIN left : was(k) \in DOMAIN bot.turns /\ left[k] = bot.turns[was(k)]
      /\ \A k \in DOMAIN left : turns # {} => was(k) # first
      /\ \A j, k \in DOMAIN left : was(j) = was(k) => j = k
  <2>1. CASE turns = {}
    BY <2>1, <1>2
  <2>2. CASE turns # {}
    <3>1. first \in 1..Len(bot.turns)
      BY <2>2, <1>6
    <3>2. /\ left \in Seq(Turn) /\ DOMAIN left = 1..(Len(bot.turns) - 1)
          /\ \A k \in 1..(Len(bot.turns) - 1) : left[k] = bot.turns[IF k < first THEN k ELSE k + 1]
      BY <2>2, <3>1, <1>2, OneRemoved
    <3> HIDE DEF left
    <3>3. \A k \in DOMAIN left : was(k) \in DOMAIN bot.turns /\ left[k] = bot.turns[was(k)]
      BY <2>2, <3>1, <3>2, <1>2
    <3>4. \A k \in DOMAIN left : was(k) # first
      BY <2>2, <3>1, <3>2, <1>2
    <3>5. \A j, k \in DOMAIN left : was(j) = was(k) => j = k
      BY <2>2, <3>1, <3>2, <1>2
    <3> QED
      BY <3>2, <3>3, <3>4, <3>5
  <2> QED
    BY <2>1, <2>2
<1>8. bots' = [bots EXCEPT ![b] = f]
      /\ \/ wrong' = wrong
         \/ /\ turns # {}
            /\ wrong' = (wrong \/ (event.origin # gone.chat /\ event.sess \notin shared))
  <2>1. CASE turns = {}
    <3>1. bots' = [bots EXCEPT ![b] = [bot EXCEPT !.events = Tail(@)]] /\ wrong' = wrong
      BY <2>1 DEF Bot!HandlesEnd, Bot!SetBot, turns, event
    <3>2. [bot EXCEPT !.events = Tail(@)] = f
      <4>1. left = bot.turns /\ now = bot.active
        BY <2>1
      <4>2. f = [bot EXCEPT !.events = rest, !.turns = bot.turns, !.active = bot.active]
        BY <4>1
      <4> HIDE DEF f, left, now
      <4>3. [bot EXCEPT !.events = rest, !.turns = bot.turns, !.active = bot.active]
              = [bot EXCEPT !.events = rest]
        BY <1>2, ZenonT(20) DEF BotType
      <4> QED
        BY <4>2, <4>3, <1>2 DEF BotType, rest
    <3> QED
      BY <3>1, <3>2
  <2>2. CASE turns # {}
    BY <2>2 DEF Bot!HandlesEnd, Bot!SetBot, turns, first, event, rest
  <2> QED
    BY <2>1, <2>2
<1>17. now \in Chats \cup {Bot!NoChat}
  BY <1>2 DEF BotType
<1> HIDE DEF left, now
<1>9. f.turns = left /\ f.events = rest /\ f.call = Bot!NoCall /\ f.works
      /\ f.offset = bot.offset /\ f.chats = bot.chats /\ f.todo = bot.todo
      /\ f.batches = bot.batches /\ f.tool = bot.tool /\ f \in BotType
  BY <1>1, <1>2, <1>3, <1>7, <1>17 DEF BotType
<1> HIDE DEF f
<1>10. GoodBot(f, Len(inbox)) /\ (OrderedBot(bot, handled) => OrderedBot(f, handled))
  <2>1. \A j, k \in DOMAIN left : left[j].chat = left[k].chat => j = k
    <3> SUFFICES ASSUME NEW j \in DOMAIN left, NEW k \in DOMAIN left, left[j].chat = left[k].chat
                 PROVE  j = k
      OBVIOUS
    <3> HIDE DEF was
    <3>1. was(j) = was(k)
      BY <1>2, <1>7, SMTT(40) DEF OneEach
    <3> QED
      BY <3>1, <1>7
  <2>2. OneEach(f)
    BY <2>1, <1>9 DEF OneEach
  <2> QED
    BY <2>2, <1>1, <1>9 DEF GoodBot, Fetched, OrderedBot, Later
<1>11. SetTo(b, f)
  BY <1>1, <1>8, <1>10, OneSet
<1>12. /\ inbox' = inbox /\ slot' = slot /\ tx' = tx /\ sessions' = sessions /\ runs' = runs
       /\ lost' = lost /\ shared' = shared /\ overlap' = overlap /\ handled' = handled
       /\ state' = state /\ cmds' = cmds /\ stale' = stale /\ forgot' = forgot
  BY DEF Bot!HandlesEnd
<1>13. Waiting' /\ cmds' \in Seq(CmdType)
  <2>1. Unawaited(b)
    BY <1>1, NotAwaited
  <2> QED
    BY <1>1, <1>11, <1>12, <2>1, StillWaiting
<1>14. ~Delivered(f) /\ ~Delivered(bot)
  BY <1>1, <1>9 DEF Delivered
<1>15. \A s, c : Claims(f, s, c) => Claims(bot, s, c)
  BY <1>7, <1>9, <1>14 DEF Claims
<1>16. ASSUME Answering(bot, runs, lost, shared), ~wrong
       PROVE  Answering(f, runs, lost, shared) /\ ~wrong'
  <2>1. ASSUME NEW s \in Names, s \notin shared PROVE OneClaim(f, s)
    <3>1. OneClaim(bot, s)
      BY <1>16, <2>1 DEF Answering
    <3> QED
      BY <3>1, <1>7, <1>9, <1>14 DEF OneClaim
  <2>2. ASSUME NEW s \in Names, s \notin shared PROVE Faithful(f, runs, s)
    BY <1>3, <1>9, <1>15, <1>16, <2>2 DEF Answering, Faithful
  <2>3. ASSUME NEW s \in Names, NEW c \in Chats, Claims(f, s, c), s \notin lost \cup shared,
               ~\E r \in runs : r.sess = s
        PROVE  \E k \in DOMAIN rest : rest[k].sess = s
    <3>1. Met(bot, runs, lost \cup shared, s) /\ OneClaim(bot, s)
      BY <1>1, <1>16, <2>3 DEF Answering
    <3>2. PICK i \in DOMAIN bot.events : bot.events[i].sess = s
      BY <1>15, <2>3, <3>1 DEF Met
    <3>3. PICK k \in DOMAIN left : left[k].sess = s
      BY <1>9, <1>14, <2>3 DEF Claims
    <3>4. bot.turns[was(k)].sess = s /\ was(k) \in DOMAIN bot.turns
      BY <1>7, <3>3
    <3>5. i # 1
      <4> SUFFICES ASSUME i = 1 PROVE FALSE
        OBVIOUS
      <4>1. event.sess = s
        BY <1>3, <3>2
      <4>2. was(k) \in turns
        BY <1>5, <3>4, <4>1
      <4>3. first \in turns /\ was(k) # first
        BY <1>4, <1>7, <4>2
      <4>4. first \in DOMAIN bot.turns /\ bot.turns[first].sess = s
        BY <1>5, <4>1, <4>3
      <4> QED
        BY <3>1, <3>4, <4>3, <4>4 DEF OneClaim
    <3> QED
      BY <1>3, <3>2, <3>5
  <2>4. ASSUME NEW s \in Names PROVE Met(f, runs, lost \cup shared, s)
    BY <1>9, <2>3 DEF Met
  <2>5. ~wrong'
    <3>1. CASE turns # {} /\ event.sess \notin shared
      <4>1. Claims(bot, event.sess, gone.chat) /\ gone.chat \in Chats /\ event.sess \in Names
        BY <3>1, <1>2, <1>3, <1>6 DEF Claims, Ended
      <4>2. event.origin = gone.chat
        BY <3>1, <4>1, <1>3, <1>16 DEF Answering, Faithful
      <4> QED
        BY <4>2, <1>8, <1>16
    <3> QED
      BY <3>1, <1>8, <1>16
  <2> QED
    BY <2>1, <2>2, <2>4, <2>5 DEF Answering
<1>18. Points(f, bot) /\ Threads(bot)
  BY <1>1, <1>9, SamePoints DEF Threads
<1> QED
  BY <1>1, <1>9, <1>10, <1>11, <1>12, <1>13, <1>16, <1>18, WorkerStep

LEMMA BotRunEnds == ASSUME BotInv, Bot!RunEnds PROVE BotInv'
<1>1. Good /\ Waiting /\ runs \subseteq Ended /\ tx \in 0..Len(bots)
  BY DEF BotInv, Good
<1>2. PICK r \in runs :
        /\ runs' = runs \ {r}
        /\ bots' = IF tx = 0 THEN bots
                   ELSE [bots EXCEPT ![tx].events = Append(@, [sess |-> r.sess, origin |-> r.origin])]
        /\ lost' = IF tx = 0 THEN lost \cup {r.sess} ELSE lost
  BY DEF Bot!RunEnds
<1>3. /\ inbox' = inbox /\ state' = state /\ slot' = slot /\ tx' = tx /\ sessions' = sessions
      /\ cmds' = cmds /\ shared' = shared /\ handled' = handled /\ overlap' = overlap /\ wrong' = wrong
      /\ stale' = stale /\ forgot' = forgot
  BY DEF Bot!RunEnds
<1>4. CASE tx = 0
  <2>1. bots' = bots /\ lost' = lost \cup {r.sess}
    BY <1>2, <1>4
  <2>2. runs' \subseteq runs /\ lost \subseteq lost' /\ \A q \in runs : q \in runs' \/ q.sess \in lost'
    BY <1>2, <2>1
  <2> QED
    BY <1>3, <2>1, <2>2, RunsDropped
<1>5. CASE tx # 0
  <2> DEFINE bot == bots[tx]
             event == [sess |-> r.sess, origin |-> r.origin]
             more == Append(bot.events, event)
             f == [bot EXCEPT !.events = more]
  <2>1. tx \in 1..Len(bots) /\ bots \in Seq(BotType)
    BY <1>1, <1>5 DEF Good
  <2>2. GoodBot(bot, Len(inbox)) /\ bot \in BotType
    BY <1>1, <2>1 DEF Good, GoodBot
  <2>3. event \in Ended /\ event.sess = r.sess /\ event.origin = r.origin /\ r \in Ended
    BY <1>1, <1>2 DEF Ended
  <2>4. bot.events \in Seq(Ended)
    BY <2>2 DEF BotType
  <2>5. lost' = lost /\ bots' = [bots EXCEPT ![tx] = f]
    <3>1. bots' = [bots EXCEPT ![tx].events = more]
      BY <1>2, <1>5
    <3>2. [bots EXCEPT ![tx].events = more] = [bots EXCEPT ![tx] = f]
      BY <2>1
    <3> QED
      BY <1>2, <1>5, <3>1, <3>2
  <2> HIDE DEF event
  <2>6. /\ more \in Seq(Ended) /\ DOMAIN bot.events = 1..Len(bot.events)
        /\ DOMAIN more = 1..(Len(bot.events) + 1) /\ more[Len(bot.events) + 1] = event
        /\ \A k \in DOMAIN bot.events : more[k] = bot.events[k]
        /\ Len(bot.events) \in Nat
    BY <2>3, <2>4, AppendProperties
  <2> HIDE DEF more
  <2>7. f.events = more /\ f.call = bot.call /\ f.works = bot.works /\ f.polls = bot.polls
        /\ f.offset = bot.offset /\ f.chats = bot.chats /\ f.todo = bot.todo
        /\ f.turns = bot.turns /\ f.batches = bot.batches /\ f.tool = bot.tool /\ f \in BotType
    BY <2>2, <2>6 DEF BotType
  <2> HIDE DEF f
  <2>8. GoodBot(f, Len(inbox))
    BY <2>2, <2>7 DEF GoodBot, Fetched, OneEach
  <2>9. SetTo(tx, f)
    BY <1>1, <2>1, <2>5, <2>8, OneSet
  <2>10. Waiting'
    BY <1>1, <1>3, <2>1, <2>7, <2>9, StillWaiting
  <2>11. Good'
    <3>1. /\ state' \in [offset : Nat \ {0}, chats : [Chats -> Names]]
          /\ state'.offset <= Len(inbox) + 1 /\ inbox' = inbox
          /\ slot' \in 0..Len(bots) /\ tx' \in 0..Len(bots) /\ sessions' \subseteq Names
          /\ cmds' \in Seq(CmdType) /\ runs' \subseteq Ended /\ handled' \in Seq(Nat)
          /\ overlap' \in BOOLEAN
      BY <1>1, <1>2, <1>3 DEF Good
    <3> QED
      BY <1>1, <2>1, <2>9, <3>1, GoodAfter
  <2>12. ASSUME ~overlap PROVE Alone' /\ Kept' /\ Ordered' /\ ~wrong' /\ Answered'
    <3>1. Alone /\ Kept /\ Ordered /\ ~wrong /\ Answered
      BY <2>12 DEF BotInv
    <3>2. tx = Len(bots) /\ Len(bots) > 0
      BY <1>5, <2>1, <3>1 DEF Alone
    <3>3. bots'[Len(bots)] = f /\ Len(bots') = Len(bots)
          /\ \A x \in 1..Len(bots) : x # Len(bots) => bots'[x] = bots[x]
      BY <2>9, <3>2 DEF SetTo
    <3>4. Alone'
      BY <1>3, <3>1, <3>2, <3>3 DEF Alone
    <3>13. Kept'
      <4>1. Points(f, bot)
        BY <2>7, SamePoints
      <4> QED
        BY <1>1, <1>3, <2>1, <2>7, <2>9, <3>1, <4>1, StillKept
    <3>5. Ordered'
      BY <1>1, <1>3, <2>1, <2>7, <2>9, <3>1, StillOrdered
    <3>6. Answering(bot, runs, lost, shared)
      BY <3>1, <3>2 DEF Answered
    <3>7. Delivered(f) <=> Delivered(bot)
      BY <2>7 DEF Delivered
    <3>8. \A s, c : Claims(f, s, c) <=> Claims(bot, s, c)
      BY <2>7, <3>7 DEF Claims
    <3>9. ASSUME NEW s \in Names, s \notin shared PROVE OneClaim(f, s) /\ Faithful(f, runs', s)
      <4>1. OneClaim(bot, s) /\ Faithful(bot, runs, s)
        BY <3>6, <3>9 DEF Answering
      <4>2. OneClaim(f, s)
        BY <2>7, <3>7, <4>1 DEF OneClaim
      <4>3. ASSUME NEW c \in Chats, Claims(f, s, c), NEW k \in DOMAIN more, more[k].sess = s
            PROVE  more[k].origin = c
        <5>1. Claims(bot, s, c)
          BY <3>8, <4>3
        <5>2. CASE k = Len(bot.events) + 1
          BY <1>2, <2>3, <2>6, <4>1, <4>3, <5>1, <5>2 DEF Faithful
        <5>3. CASE k # Len(bot.events) + 1
          BY <2>6, <4>1, <4>3, <5>1, <5>3 DEF Faithful
        <5> QED
          BY <5>2, <5>3
      <4>4. Faithful(f, runs', s)
        BY <1>2, <2>7, <3>8, <4>1, <4>3 DEF Faithful
      <4> QED
        BY <4>2, <4>4
    <3>10. ASSUME NEW s \in Names, f.works PROVE Met(f, runs', lost \cup shared, s)
      <4> SUFFICES ASSUME NEW c \in Chats, Claims(f, s, c), s \notin lost \cup shared,
                          ~\E q \in runs' : q.sess = s
                   PROVE  \E k \in DOMAIN more : more[k].sess = s
        BY <2>7 DEF Met
      <4>1. \/ \E q \in runs : q.sess = s
            \/ \E k \in DOMAIN bot.events : bot.events[k].sess = s
        BY <2>7, <3>6, <3>8, <3>10 DEF Answering, Met
      <4>2. CASE \E q \in runs : q.sess = s
        <5>1. r.sess = s
          BY <1>2, <4>2
        <5>2. Len(bot.events) + 1 \in DOMAIN more /\ more[Len(bot.events) + 1].sess = s
          BY <2>3, <2>6, <5>1
        <5> QED
          BY <5>2
      <4>3. CASE \E k \in DOMAIN bot.events : bot.events[k].sess = s
        <5>1. PICK k \in DOMAIN bot.events : bot.events[k].sess = s
          BY <4>3
        <5>2. k \in DOMAIN more /\ more[k].sess = s
          BY <2>6, <5>1
        <5> QED
          BY <5>2
      <4> QED
        BY <4>1, <4>2, <4>3
    <3>11. Answering(f, runs', lost, shared)
      BY <3>9, <3>10 DEF Answering
    <3>12. Answered'
      BY <1>3, <2>5, <3>3, <3>11 DEF Answered
    <3> QED
      BY <1>3, <3>1, <3>4, <3>5, <3>12, <3>13
  <2> QED
    BY <1>3, <2>10, <2>11, <2>12 DEF BotInv
<1> QED
  BY <1>4, <1>5

(* The start of a run.                                                     *)

\* A run starts, and a bot's call changes at most: a session that is not shared had no claim.
Begins(bot, now, sess, origin) ==
  /\ now.turns = bot.turns /\ now.events = bot.events /\ (now.works => bot.works)
  /\ Delivered(now) /\ now.call.sess # sess
       => Delivered(bot) /\ now.call.sess = bot.call.sess /\ now.call.chat = bot.call.chat
  /\ runs' = {r \in runs : r.sess # sess} \cup {[sess |-> sess, origin |-> origin]}
  /\ lost \subseteq lost' /\ shared \subseteq shared'
  /\ sess \notin shared' =>
       /\ \A k \in DOMAIN bot.turns : bot.turns[k].sess # sess
       /\ \A k \in DOMAIN bot.events : bot.events[k].sess # sess
       /\ Delivered(now) /\ now.call.sess = sess => now.call.chat = origin

LEMMA RunStarted ==
  ASSUME NEW bot, NEW now, NEW sess, NEW origin, Answering(bot, runs, lost, shared),
         Begins(bot, now, sess, origin)
  PROVE  Answering(now, runs', lost', shared')
<1> USE DEF Begins
<1>1. \A s, c : s # sess /\ Claims(now, s, c) => Claims(bot, s, c)
  BY DEF Claims
<1>2. \A r \in runs' : (r \in runs /\ r.sess # sess) \/ (r.sess = sess /\ r.origin = origin)
  OBVIOUS
<1>3. \A r \in runs : r.sess # sess => r \in runs'
  OBVIOUS
<1>4. \E r \in runs' : r.sess = sess
  <2>1. [sess |-> sess, origin |-> origin] \in runs'
        /\ [sess |-> sess, origin |-> origin].sess = sess
    OBVIOUS
  <2> QED
    BY <2>1
<1>5. ASSUME NEW s \in Names, s \notin shared', s # sess
      PROVE  OneClaim(now, s) /\ Faithful(now, runs', s)
  <2>1. OneClaim(bot, s) /\ Faithful(bot, runs, s)
    BY <1>5 DEF Answering
  <2>2. OneClaim(now, s)
    BY <1>5, <2>1 DEF OneClaim
  <2>3. Faithful(now, runs', s)
    BY <1>1, <1>2, <1>5, <2>1 DEF Faithful
  <2> QED
    BY <2>2, <2>3
<1>6. ASSUME sess \notin shared' PROVE OneClaim(now, sess) /\ Faithful(now, runs', sess)
  <2>1. OneClaim(now, sess)
    BY <1>6 DEF OneClaim
  <2>2. \A c : Claims(now, sess, c) => c = origin
    BY <1>6 DEF Claims
  <2>3. Faithful(now, runs', sess)
    BY <1>2, <1>6, <2>2 DEF Faithful
  <2> QED
    BY <2>1, <2>3
<1>7. ASSUME NEW s \in Names, now.works, s # sess PROVE Met(now, runs', lost' \cup shared', s)
  BY <1>1, <1>3, <1>7 DEF Answering, Met
<1>8. Met(now, runs', lost' \cup shared', sess)
  BY <1>4 DEF Met
<1> QED
  BY <1>5, <1>6, <1>7, <1>8 DEF Answering

\* All of a bot but the answer of its call.
SameBotBut(f, bot) ==
  /\ f.works = bot.works /\ f.polls = bot.polls /\ f.offset = bot.offset /\ f.chats = bot.chats
  /\ f.turns = bot.turns /\ f.events = bot.events /\ f.todo = bot.todo /\ f.batches = bot.batches
  /\ f.tool = bot.tool /\ f.call # Bot!NoCall /\ bot.call # Bot!NoCall
  /\ f.call.pc = bot.call.pc /\ f.call.chat = bot.call.chat

LEMMA SameBotPoints == ASSUME NEW bot, NEW f, SameBotBut(f, bot) PROVE Points(f, bot)
BY DEF SameBotBut, Points, Pends

LEMMA DesktopStep ==
  ASSUME BotInv, Waiting', cmds' \in Seq(CmdType), sessions' \subseteq Names, runs' \subseteq Ended,
         inbox' = inbox, state' = state, slot' = slot, tx' = tx, handled' = handled,
         overlap' = overlap, wrong' = wrong, stale' = stale, forgot' = forgot,
         \/ bots' = bots
         \/ \E b \in 1..Len(bots) : \E f :
              SetTo(b, f) /\ bots[b].works /\ SameBotBut(f, bots[b]),
         ~overlap => Answered'
  PROVE  BotInv'
<1>1. Good /\ Waiting
  BY DEF BotInv
<1>2. CASE bots' = bots
  <2>1. Good'
    BY <1>1, <1>2 DEF Good
  <2>2. ~overlap => Alone' /\ Kept' /\ Ordered' /\ ~wrong'
    BY <1>2 DEF BotInv, Alone, Kept, Ordered
  <2> QED
    BY <2>1, <2>2 DEF BotInv
<1>3. ASSUME NEW b \in 1..Len(bots), NEW f, SetTo(b, f), bots[b].works, SameBotBut(f, bots[b])
      PROVE  BotInv'
  <2>1. /\ state' \in [offset : Nat \ {0}, chats : [Chats -> Names]]
        /\ state'.offset <= Len(inbox) + 1
        /\ slot' \in 0..Len(bots) /\ tx' \in 0..Len(bots)
        /\ handled' \in Seq(Nat) /\ overlap' \in BOOLEAN
    BY <1>1 DEF Good
  <2>2. Good'
    BY <1>1, <1>3, <2>1, GoodAfter
  <2>3. ASSUME ~overlap PROVE Alone' /\ Kept' /\ Ordered' /\ ~wrong'
    <3>1. Alone /\ Kept /\ Ordered /\ ~wrong /\ Threads(bots[b])
      BY <1>3, <2>3 DEF BotInv, Threads
    <3>2. Points(f, bots[b])
      BY <1>3, SameBotPoints
    <3>3. Alone'
      BY <1>1, <1>3, <3>1, StillAlone
    <3>4. Kept'
      BY <1>1, <1>3, <3>1, <3>2, StillKept DEF SameBotBut
    <3>5. Ordered'
      BY <1>1, <1>3, <3>1, StillOrdered DEF SameBotBut
    <3> QED
      BY <3>1, <3>3, <3>4, <3>5
  <2> QED
    BY <2>2, <2>3 DEF BotInv
<1> QED
  BY <1>2, <1>3

LEMMA CommandAnswered ==
  ASSUME Good, Waiting, cmds # <<>>, cmds' = Tail(cmds), inbox' = inbox, NEW answer \in Names,
         Bot!Answer(Head(cmds), answer)
  PROVE  /\ cmds' \in Seq(CmdType) /\ Waiting' /\ Head(cmds) \in CmdType
         /\ \/ ~Head(cmds).waited /\ bots' = bots
            \/ /\ Head(cmds).waited /\ Awaits(Head(cmds))
               /\ \E f : /\ SetTo(Head(cmds).bot, f) /\ SameBotBut(f, bots[Head(cmds).bot])
                         /\ f.call # Bot!NoCall /\ f.call.answer = answer
                         /\ f.call.pc = Head(cmds).kind /\ f.call.chat = Head(cmds).chat
                         /\ f.call.sess = Head(cmds).sess
<1> DEFINE cmd == Head(cmds)
           b == cmd.bot
<1>1. /\ cmd = cmds[1] /\ cmd \in CmdType /\ cmds' \in Seq(CmdType) /\ 1 \in DOMAIN cmds
      /\ \A i \in DOMAIN cmds' : /\ i + 1 \in DOMAIN cmds /\ i + 1 # 1 /\ cmds'[i] = cmds[i + 1]
      /\ \A i, j \in DOMAIN cmds' : i + 1 = j + 1 => i = j
  <2>1. cmds \in Seq(CmdType) /\ Len(cmds) > 0 /\ Len(cmds) \in Nat
    BY EmptySeq DEF Good
  <2>2. /\ cmd = cmds[1] /\ cmd \in CmdType /\ Tail(cmds) \in Seq(CmdType)
        /\ Len(Tail(cmds)) = Len(cmds) - 1
        /\ \A i \in 1..Len(Tail(cmds)) : Tail(cmds)[i] = cmds[i + 1]
    BY <2>1, HeadTailProperties
  <2>3. DOMAIN cmds' = 1..(Len(cmds) - 1) /\ DOMAIN cmds = 1..Len(cmds)
    BY <2>1, <2>2
  <2> QED
    BY <2>1, <2>2, <2>3
<1> HIDE DEF cmd
<1>2. \A j, k \in DOMAIN cmds' :
        cmds'[j].waited /\ cmds'[k].waited /\ cmds'[j].bot = cmds'[k].bot => j = k
  BY <1>1 DEF Waiting
<1>3. CASE ~cmd.waited
  <2>1. bots' = bots
    BY <1>3 DEF Bot!Answer, cmd
  <2>2. Waiting'
    BY <1>1, <1>2, <2>1 DEF Waiting, Awaits
  <2> QED
    BY <1>1, <1>3, <2>1, <2>2 DEF cmd
<1>4. CASE cmd.waited
  <2> DEFINE bot == bots[b]
             f == [bot EXCEPT !.call.answer = answer]
  <2>1. Awaits(cmd)
    BY <1>1, <1>4 DEF Waiting
  <2>2. b \in 1..Len(bots) /\ bots \in Seq(BotType) /\ GoodBot(bot, Len(inbox)) /\ bot \in BotType
        /\ bot.call # Bot!NoCall /\ bot.call.pc = cmd.kind /\ bot.call.chat = cmd.chat
        /\ bot.call.sess = cmd.sess
    BY <2>1 DEF Awaits, Good, GoodBot
  <2>3. bot.call \in Asked
    BY <2>2 DEF BotType
  <2>4. bots' = [bots EXCEPT ![b] = f]
    <3>1. bots' = [bots EXCEPT ![b].call.answer = answer]
      BY <1>4 DEF Bot!Answer, cmd
    <3> QED
      BY <2>2, <3>1
  <2>5. f = [bot EXCEPT !.call = f.call] /\ f.call = [bot.call EXCEPT !.answer = answer]
    BY <2>2 DEF BotType
  <2>6. f.call \in Asked /\ f.call.answer = answer /\ f.call.pc = bot.call.pc
        /\ f.call.chat = bot.call.chat /\ f.call.sess = bot.call.sess
    BY <2>3, <2>5 DEF Asked
  <2> HIDE DEF f
  <2>8. f.call # Bot!NoCall
    <3>1. Bot!NoCall.pc = "idle"
      BY DEF Bot!NoCall
    <3> QED
      BY <2>6, <3>1 DEF Asked, CallKinds
  <2>7. f \in BotType /\ SameBotBut(f, bot)
    BY <2>2, <2>5, <2>6, <2>8 DEF BotType, SameBotBut
  <2>9. GoodBot(f, Len(inbox))
    <3>1. OneEach(f)
      BY <2>2, <2>6, <2>7 DEF GoodBot, OneEach, SameBotBut
    <3>2. Fetched(f, Len(inbox))
      BY <2>2, <2>7 DEF GoodBot, Fetched, SameBotBut
    <3> QED
      BY <2>7, <3>1, <3>2 DEF GoodBot
  <2>10. SetTo(b, f)
    BY <2>2, <2>4, <2>9, OneSet
  <2>11. Waiting'
    <3>1. ASSUME NEW i \in DOMAIN cmds', cmds'[i].waited PROVE Awaits(cmds[i])'
      <4>1. i + 1 \in DOMAIN cmds /\ i + 1 # 1 /\ cmds'[i] = cmds[i + 1] /\ cmds[i + 1].waited
        BY <1>1, <3>1
      <4>2. Awaits(cmds[i + 1]) /\ cmds[i + 1].bot # b
        BY <4>1, <1>1, <1>4 DEF Waiting
      <4>3. cmds'[i].bot # b /\ cmds'[i].bot \in 1..Len(bots) /\ bots'[cmds'[i].bot] = bots[cmds'[i].bot]
            /\ Len(bots') = Len(bots)
        BY <4>1, <4>2, <2>10 DEF Awaits, SetTo
      <4> QED
        BY <4>1, <4>2, <4>3 DEF Awaits
    <3> QED
      BY <1>2, <3>1 DEF Waiting
  <2>12. \E g : /\ SetTo(b, g) /\ SameBotBut(g, bots[b])
                /\ g.call # Bot!NoCall /\ g.call.answer = answer
                /\ g.call.pc = cmd.kind /\ g.call.chat = cmd.chat /\ g.call.sess = cmd.sess
    BY <2>2, <2>6, <2>7, <2>8, <2>10
  <2> QED
    BY <1>1, <1>4, <2>1, <2>11, <2>12 DEF cmd
<1> QED
  BY <1>3, <1>4

LEMMA StartedShape ==
  ASSUME Good, NEW sess \in Names, NEW origin \in Chats \cup {"desktop"}, NEW ofCall,
         Bot!Started(sess, origin, ofCall)
  PROVE  /\ runs' = {r \in runs : r.sess # sess} \cup {[sess |-> sess, origin |-> origin]}
         /\ runs' \subseteq Ended /\ lost \subseteq lost' /\ shared \subseteq shared'
         /\ sess \notin shared' =>
              /\ ofCall
              /\ \A b \in 1..Len(bots) : \A k \in DOMAIN bots[b].turns :
                   bots[b].turns[k].sess = sess => bots[b].turns[k].chat = origin
              /\ \A b \in 1..Len(bots) : \A k \in DOMAIN bots[b].events : bots[b].events[k].sess # sess
<1>1. runs' = {r \in runs : r.sess # sess} \cup {[sess |-> sess, origin |-> origin]}
      /\ lost \subseteq lost' /\ shared \subseteq shared'
  BY DEF Bot!Started
<1>2. runs' \subseteq Ended
  BY <1>1 DEF Good, Ended
<1>3. ASSUME sess \notin shared'
      PROVE  /\ ofCall
             /\ \A b \in 1..Len(bots) : \A k \in DOMAIN bots[b].turns :
                  bots[b].turns[k].sess = sess => bots[b].turns[k].chat = origin
             /\ \A b \in 1..Len(bots) : \A k \in DOMAIN bots[b].events : bots[b].events[k].sess # sess
  BY <1>3 DEF Bot!Started, Bot!Bots
<1> QED
  BY <1>1, <1>2, <1>3

LEMMA BotDesktopSends == ASSUME BotInv, Bot!DesktopSends PROVE BotInv'
<1>1. PICK s \in sessions : Bot!Started(s, "desktop", FALSE)
  BY DEF Bot!DesktopSends
<1>2. Good /\ Waiting /\ s \in Names /\ sessions \subseteq Names /\ cmds \in Seq(CmdType)
  BY DEF BotInv, Good
<1>3. /\ inbox' = inbox /\ state' = state /\ slot' = slot /\ tx' = tx /\ sessions' = sessions
      /\ cmds' = cmds /\ handled' = handled /\ overlap' = overlap /\ wrong' = wrong /\ bots' = bots
      /\ stale' = stale /\ forgot' = forgot
  BY DEF Bot!DesktopSends
<1>4. /\ runs' = {r \in runs : r.sess # s} \cup {[sess |-> s, origin |-> "desktop"]}
      /\ runs' \subseteq Ended /\ lost \subseteq lost' /\ shared \subseteq shared' /\ s \in shared'
  BY <1>1, <1>2, StartedShape
<1>5. Waiting'
  BY <1>2, <1>3 DEF Waiting, Awaits
<1>6. ASSUME ~overlap PROVE Answered'
  <2>1. ASSUME Len(bots) > 0 PROVE Answering(bots[Len(bots)], runs', lost', shared')
    <3>1. Answering(bots[Len(bots)], runs, lost, shared)
      BY <1>6, <2>1 DEF BotInv, Answered
    <3>2. Begins(bots[Len(bots)], bots[Len(bots)], s, "desktop")
      BY <1>4 DEF Begins
    <3> QED
      BY <3>1, <3>2, RunStarted
  <2> QED
    BY <1>3, <2>1 DEF Answered
<1> QED
  BY <1>2, <1>3, <1>4, <1>5, <1>6, DesktopStep

LEMMA BotRunsCommand == ASSUME BotInv, Bot!RunsCommand PROVE BotInv'
<1> DEFINE cmd == Head(cmds)
           b == cmd.bot
<1>1. /\ Good /\ Waiting /\ cmds # <<>> /\ cmds' = Tail(cmds) /\ runs \subseteq Ended
      /\ sessions \subseteq Names
      /\ inbox' = inbox /\ state' = state /\ slot' = slot /\ tx' = tx
      /\ handled' = handled /\ overlap' = overlap /\ wrong' = wrong
      /\ stale' = stale /\ forgot' = forgot
  BY DEF BotInv, Good, Bot!RunsCommand
<1>2. \/ \E answer \in Names :
           /\ Bot!Answer(cmd, answer) /\ (cmd.kind = "inject" => answer = "failed")
           /\ sessions' \subseteq Names /\ runs' = runs /\ lost' = lost /\ shared' = shared
      \/ /\ Bot!Answer(cmd, "ok") /\ Bot!Started(cmd.sess, cmd.chat, cmd.waited) /\ cmd.kind = "inject"
         /\ sessions' = sessions
  <2>1. cmd \in CmdType
    <3>1. cmds \in Seq(CmdType) /\ cmds # <<>>
      BY <1>1 DEF Good
    <3> QED
      BY <3>1, HeadTailProperties
  <2>2. "failed" \in Names /\ "ok" \in Names
    BY DEF Names, Words
  <2>3. ASSUME cmd.kind # "inject"
        PROVE  \E answer \in Names :
                 /\ Bot!Answer(cmd, answer) /\ (cmd.kind = "inject" => answer = "failed")
                 /\ sessions' \subseteq Names /\ runs' = runs /\ lost' = lost /\ shared' = shared
    <3>3. cmd.kind = "switch" \/ cmd.kind \in {"new", "create"}
      <4> HIDE DEF cmd
      <4> QED
        BY <2>1, <2>3 DEF CmdType, CallKinds
    <3>1. \/ Bot!Answer(cmd, "failed") /\ sessions' = sessions
          \/ Bot!Answer(cmd, "ok") /\ sessions' = sessions
          \/ \E s \in Sessions : Bot!Answer(cmd, s) /\ sessions' = sessions \cup {s}
      <4>1. CASE cmd.kind = "switch"
        BY <4>1 DEF Bot!RunsCommand
      <4>2. CASE cmd.kind \in {"new", "create"}
        BY <4>2 DEF Bot!RunsCommand
      <4> QED
        BY <3>3, <4>1, <4>2
    <3>2. runs' = runs /\ lost' = lost /\ shared' = shared
      <4>1. CASE cmd.kind = "switch"
        BY <4>1 DEF Bot!RunsCommand
      <4>2. CASE cmd.kind \in {"new", "create"}
        BY <4>2 DEF Bot!RunsCommand
      <4> QED
        BY <3>3, <4>1, <4>2
    <3> HIDE DEF cmd
    <3> QED
      BY <1>1, <2>2, <2>3, <3>1, <3>2 DEF Names
  <2>4. ASSUME cmd.kind = "inject", cmd.empty \/ cmd.sess \notin sessions
        PROVE  /\ Bot!Answer(cmd, "failed")
               /\ sessions' \subseteq Names /\ runs' = runs /\ lost' = lost /\ shared' = shared
    <3>1. /\ Bot!Answer(cmd, "failed") /\ runs' = runs /\ lost' = lost /\ shared' = shared
          /\ (sessions' = sessions \/ \E s \in Sessions : sessions' = sessions \cup {s})
      BY <2>4 DEF Bot!RunsCommand
    <3> HIDE DEF cmd
    <3> QED
      BY <1>1, <3>1 DEF Names
  <2>5. ASSUME cmd.kind = "inject", ~cmd.empty, cmd.sess \in sessions
        PROVE  /\ Bot!Answer(cmd, "ok") /\ Bot!Started(cmd.sess, cmd.chat, cmd.waited)
               /\ sessions' = sessions
    BY <2>5 DEF Bot!RunsCommand
  <2> HIDE DEF cmd
  <2> QED
    BY <2>2, <2>3, <2>4, <2>5
<1> HIDE DEF cmd
<1>3. ASSUME NEW answer \in Names, Bot!Answer(cmd, answer)
      PROVE  /\ cmds' \in Seq(CmdType) /\ Waiting' /\ cmd \in CmdType
             /\ \/ ~cmd.waited /\ bots' = bots
                \/ /\ cmd.waited /\ b \in 1..Len(bots) /\ bots[b].works
                   /\ bots[b].call # Bot!NoCall /\ bots[b].call.pc = cmd.kind
                   /\ bots[b].call.chat = cmd.chat
                   /\ \E f : /\ SetTo(b, f) /\ SameBotBut(f, bots[b])
                             /\ f.call # Bot!NoCall /\ f.call.answer = answer
                             /\ f.call.pc = cmd.kind /\ f.call.chat = cmd.chat
                             /\ f.call.sess = cmd.sess
  BY <1>1, <1>3, CommandAnswered DEF cmd, Awaits
<1>4. ASSUME NEW answer \in Names, Bot!Answer(cmd, answer), cmd.kind = "inject" => answer = "failed",
             sessions' \subseteq Names, runs' = runs, lost' = lost, shared' = shared
      PROVE  BotInv'
  <2>1. CASE bots' = bots
    <3>1. ~overlap => Answered'
      BY <1>4, <2>1 DEF BotInv, Answered
    <3> QED
      BY <1>1, <1>3, <1>4, <2>1, <3>1, DesktopStep
  <2>2. ASSUME NEW f, SetTo(b, f), SameBotBut(f, bots[b]), b \in 1..Len(bots), bots[b].works,
               f.call.answer = answer, f.call.pc = cmd.kind
        PROVE  BotInv'
    <3>1. ~Delivered(f)
      BY <1>4, <2>2 DEF Delivered
    <3>2. ~overlap => Answered'
      BY <1>1, <1>4, <2>2, <3>1, StillAnswered DEF BotInv, SameBotBut
    <3> QED
      BY <1>1, <1>3, <1>4, <2>2, <3>2, DesktopStep
  <2> QED
    BY <1>3, <1>4, <2>1, <2>2
<1>5. ASSUME Bot!Answer(cmd, "ok"), Bot!Started(cmd.sess, cmd.chat, cmd.waited), cmd.kind = "inject",
             sessions' = sessions
      PROVE  BotInv'
  <2>1. "ok" \in Names
    BY DEF Names, Words
  <2>2. cmd \in CmdType /\ cmd.sess \in Names /\ cmd.chat \in Chats
        /\ cmds' \in Seq(CmdType) /\ Waiting'
    BY <1>3, <1>5, <2>1 DEF CmdType
  <2> DEFINE sess == cmd.sess
             origin == cmd.chat
  <2>3. /\ runs' = {r \in runs : r.sess # sess} \cup {[sess |-> sess, origin |-> origin]}
        /\ runs' \subseteq Ended /\ lost \subseteq lost' /\ shared \subseteq shared'
        /\ sess \notin shared' =>
             /\ cmd.waited
             /\ \A x \in 1..Len(bots) : \A k \in DOMAIN bots[x].turns :
                  bots[x].turns[k].sess = sess => bots[x].turns[k].chat = origin
             /\ \A x \in 1..Len(bots) : \A k \in DOMAIN bots[x].events : bots[x].events[k].sess # sess
    BY <1>1, <1>5, <2>2, StartedShape
  <2>4. CASE ~cmd.waited /\ bots' = bots
    <3>1. ASSUME ~overlap, Len(bots) > 0 PROVE Answering(bots[Len(bots)], runs', lost', shared')
      <4>1. Answering(bots[Len(bots)], runs, lost, shared)
        BY <3>1 DEF BotInv, Answered
      <4>2. Begins(bots[Len(bots)], bots[Len(bots)], sess, origin)
        BY <2>3, <2>4 DEF Begins
      <4> QED
        BY <4>1, <4>2, RunStarted
    <3>2. ~overlap => Answered'
      BY <2>4, <3>1 DEF Answered
    <3> QED
      BY <1>1, <1>5, <2>2, <2>3, <2>4, <3>2, DesktopStep
  <2>5. ASSUME NEW f, cmd.waited, b \in 1..Len(bots), bots[b].works, bots[b].call # Bot!NoCall,
               bots[b].call.pc = cmd.kind, bots[b].call.chat = cmd.chat, SetTo(b, f),
               SameBotBut(f, bots[b]), f.call.chat = cmd.chat, f.call.sess = cmd.sess
        PROVE  BotInv'
    <3>1. ASSUME ~overlap PROVE Answered'
      <4>1. b = Len(bots) /\ Answered
        BY <2>5, <3>1 DEF BotInv, Alone, Threads
      <4>2. Answering(bots[b], runs, lost, shared)
        BY <2>5, <4>1 DEF Answered
      <4>3. \A k \in DOMAIN bots[b].turns : bots[b].turns[k].chat # origin
        <5>1. OneEach(bots[b])
          BY <1>1, <2>5 DEF Good, GoodBot
        <5> QED
          BY <1>5, <2>5, <5>1 DEF OneEach
      <4>4. sess \notin shared' =>
              /\ \A k \in DOMAIN bots[b].turns : bots[b].turns[k].sess # sess
              /\ \A k \in DOMAIN bots[b].events : bots[b].events[k].sess # sess
              /\ Delivered(f) /\ f.call.sess = sess => f.call.chat = origin
        BY <2>3, <2>5, <4>3
      <4>5. Begins(bots[b], f, sess, origin)
        BY <2>3, <2>5, <4>4 DEF Begins, SameBotBut
      <4>6. Answering(f, runs', lost', shared')
        BY <4>2, <4>5, RunStarted
      <4> QED
        BY <2>5, <4>1, <4>6 DEF Answered, SetTo
    <3> QED
      BY <1>1, <1>5, <2>2, <2>3, <2>5, <3>1, DesktopStep
  <2> QED
    BY <1>3, <1>5, <2>1, <2>4, <2>5
<1> QED
  BY <1>2, <1>4, <1>5

(* The invariant.                                                          *)

LEMMA BotInitSound == ASSUME Bot!Init PROVE BotInv
<1>1. bots = <<>> /\ cmds = <<>> /\ handled = <<>> /\ inbox = <<>> /\ runs = {} /\ sessions = {}
      /\ slot = 0 /\ tx = 0 /\ overlap = FALSE /\ wrong = FALSE
      /\ stale = FALSE /\ forgot = FALSE
      /\ state = [offset |-> 1, chats |-> [c \in Chats |-> Bot!NoSession]]
  BY DEF Bot!Init
<1>2. state \in [offset : Nat \ {0}, chats : [Chats -> Names]] /\ state.offset = 1
  BY <1>1 DEF Bot!NoSession, Names, Words
<1>3. Len(bots) = 0 /\ Len(inbox) = 0
  BY <1>1
<1>4. Good
  <2>1. /\ inbox \in Seq([chat : Chats, kind : Bot!Kinds]) /\ bots \in Seq(BotType)
        /\ cmds \in Seq(CmdType) /\ handled \in Seq(Nat)
    BY <1>1, EmptySeq
  <2>2. state.offset <= Len(inbox) + 1 /\ slot \in 0..Len(bots) /\ tx \in 0..Len(bots)
    BY <1>1, <1>2, <1>3
  <2>3. \A b \in 1..Len(bots) : GoodBot(bots[b], Len(inbox))
    BY <1>3
  <2> QED
    BY <1>1, <1>2, <2>1, <2>2, <2>3 DEF Good
<1>5. Waiting
  BY <1>1 DEF Waiting
<1>6. Alone /\ Kept /\ Answered
  BY <1>1, <1>3 DEF Alone, Kept, Answered
<1>7. Ordered
  BY <1>1, <1>3 DEF Ordered, InOrder
<1> QED
  BY <1>1, <1>4, <1>5, <1>6, <1>7 DEF BotInv

LEMMA BotStepSound == ASSUME BotInv, [Bot!Next]_(telegramVars) PROVE BotInv'
<1>1. CASE UNCHANGED telegramVars
  <2>1. /\ inbox' = inbox /\ state' = state /\ slot' = slot /\ tx' = tx /\ bots' = bots
        /\ sessions' = sessions /\ cmds' = cmds /\ runs' = runs /\ lost' = lost /\ shared' = shared
        /\ handled' = handled /\ overlap' = overlap /\ wrong' = wrong
        /\ stale' = stale /\ forgot' = forgot
    BY <1>1 DEF telegramVars
  <2> QED
    BY <2>1, RunsDropped
<1>2. ASSUME NEW b \in 1..Len(bots),
             \/ Bot!Polls(b) \/ Bot!PollerEnds(b) \/ Bot!WorkerEnds(b) \/ Bot!TimesOut(b)
             \/ Bot!TakesBatch(b) \/ Bot!HandlesUpdate(b) \/ Bot!Drains(b) \/ Bot!Returns(b)
             \/ Bot!HandlesEnd(b) \/ Bot!ToolSaves(b)
      PROVE  BotInv'
  BY <1>2, BotPolls, BotPollerEnds, BotWorkerEnds, BotTimesOut, BotTakesBatch, BotHandlesUpdate,
     BotDrains, BotReturns, BotHandlesEnd, BotToolSaves
<1>3. ASSUME \/ Bot!Writes \/ Bot!Starts \/ Bot!Stops \/ Bot!RunsCommand \/ Bot!RunEnds
             \/ Bot!DesktopStops \/ Bot!DesktopSends \/ Bot!DesktopDeletes \/ Bot!Crashes
             \/ Bot!SessionMade \/ Bot!UsesSession
      PROVE  BotInv'
  BY <1>3, BotWrites, BotStarts, BotStops, BotRunsCommand, BotRunEnds, BotDesktopStops,
     BotDesktopSends, BotDesktopDeletes, BotCrashes, BotSessionMade, BotUsesSession
<1> QED
  BY <1>1, <1>2, <1>3 DEF Bot!Next, Bot!Bots

LEMMA BotInvSound == ASSUME BotInv PROVE Bot!BotSound
<1>1. Good
  BY DEF BotInv
<1>2. Bot!OneTurn
  BY <1>1 DEF Good, GoodBot, OneEach, Bot!OneTurn, Bot!Bots
<1>3. Bot!HandledOnce /\ Bot!RepliesToAsker
  BY DEF BotInv, Ordered, OrderedBot, InOrder, Bot!HandledOnce, Bot!RepliesToAsker
<1>4. Bot!StateKept
  <2>1. ASSUME ~overlap, ~stale, NEW b \in 1..Len(bots), bots[b].works, NEW c \in Chats
        PROVE  bots[b].chats[c] = state.chats[c] \/ Bot!Pointing(b, c)
    <3>1. b = Len(bots) /\ Len(bots) > 0
      BY <2>1 DEF BotInv, Alone, Threads
    <3> QED
      BY <2>1, <3>1 DEF BotInv, Kept, Recorded, Pends, Bot!Pointing
  <2> QED
    BY <2>1 DEF Bot!StateKept, Bot!Bots
<1>5. Bot!TurnsEnd
  <2> SUFFICES ASSUME NEW b \in 1..Len(bots), NEW k \in DOMAIN bots[b].turns,
                      ~overlap, bots[b].works, bots[b].turns[k].sess \notin lost \cup shared,
                      ~\E r \in runs : r.sess = bots[b].turns[k].sess
               PROVE  \E j \in DOMAIN bots[b].events : bots[b].events[j].sess = bots[b].turns[k].sess
    BY DEF Bot!TurnsEnd, Bot!Bots
  <2> DEFINE s == bots[b].turns[k].sess
  <2>1. b = Len(bots) /\ Len(bots) > 0 /\ Answered
    BY DEF BotInv, Alone, Threads
  <2>2. bots[b].turns[k] \in Turn
    <3>1. bots[b].turns \in Seq(Turn)
      BY <1>1 DEF Good, GoodBot, BotType
    <3> QED
      BY <3>1
  <2>3. s \in Names /\ bots[b].turns[k].chat \in Chats
    BY <2>2 DEF Turn
  <2>4. Met(bots[b], runs, lost \cup shared, s)
    BY <2>1, <2>3 DEF Answered, Answering
  <2>5. Claims(bots[b], s, bots[b].turns[k].chat)
    BY DEF Claims
  <2> QED
    BY <2>3, <2>4, <2>5 DEF Met
<1> QED
  BY <1>2, <1>3, <1>4, <1>5 DEF Bot!BotSound

\* A Telegram message is handled at most once, in order and across restarts; a chat has one
\* turn, the turn ends, and its reply goes to the chat that asked; what the bot knows of the
\* chats is in its file once no set_chat is at work. A write of that file may fail, and what
\* rests on it is promised again from the next one that succeeds. For any number of chats,
\* sessions, messages, starts, failures and crashes; where a start met threads of the one
\* before, a chat still has one turn.
THEOREM BotKeepsItsPromises == Spec => []BotSound
<1> DEFINE Held == part = "telegram" => BotInv
<1>1. Init => Held
  BY BotInitSound DEF Init
<1>2. ASSUME Held, [Next]_vars PROVE Held'
  <2>1. CASE part # "telegram"
    BY <2>1, <1>2 DEF Next, vars
  <2>2. CASE part = "telegram"
    <3>1. [Bot!Next]_(telegramVars)
      BY <2>2, <1>2 DEF Next, vars
    <3>2. BotInv'
      BY <3>1, <2>2, <1>2, BotStepSound
    <3> QED
      BY <3>2
  <2> QED
    BY <2>1, <2>2
<1>3. Held => BotSound
  BY BotInvSound DEF BotSound
<1> QED
  BY <1>1, <1>2, <1>3, PTL DEF Spec

=============================================================================

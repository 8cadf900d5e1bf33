---------------------------- MODULE ChatTurn_proofs ----------------------------
(***************************************************************************)
(* Theorems about ChatTurn for any set of messages. The invariants are     *)
(* proved action by action; the effects of cancel() and of starting a run  *)
(* are lemmas, since six handlers share them.                              *)
(***************************************************************************)
EXTENDS ChatTurn, SequenceTheorems, FiniteSetTheorems, TLAPS

USE NoRunAssumption, SourceAssumption

\* A UserMessageDrained or AgentHandBack event carries a message, a terminal
\* event a run: the channel's element type is closed under the constructors.
LEMMA EventTypes ==
  ASSUME NEW m \in Messages
  PROVE  /\ Drained(m) \in Events /\ HandBack(m) \in Events
         /\ \A k \in {"complete", "error", "cancelled"} : Terminal(k, m) \in Events
  BY DEF Drained, HandBack, Terminal, Events, TerminalEvents, MessageEvents

\* What cancel() appends to the event channel is a sequence of events.
LEMMA HandedBackType == Types => HandedBack \in Seq(Events)
<1> SUFFICES ASSUME Types PROVE HandedBack \in Seq(Events)
  OBVIOUS
<1>1. CASE handle = NoRun
  BY <1>1 DEF HandedBack
<1>2. CASE handle # NoRun
  <2>1. handle \in Messages /\ channel[handle] \in Seq(Messages)
    BY <1>2 DEF Types
  <2>2. \A i \in DOMAIN channel[handle] : Drained(channel[handle][i]) \in Events
    BY <2>1, EventTypes
  <2>3. QED BY <1>2, <2>1, <2>2 DEF HandedBack
<1>3. QED BY <1>1, <1>2

\* Starting a run keeps the types, whatever run it cancels.
LEMMA StartType ==
  ASSUME Types, NEW m \in Messages, StartPipeline(m)
  PROVE  /\ gen' \in BOOLEAN
         /\ events' \in Seq(Events)
         /\ handle' \in Messages \cup {NoRun}
         /\ phase' \in [Messages -> Phases]
         /\ aborted' \in [Messages -> BOOLEAN]
         /\ result' \in [Messages -> Results]
         /\ channel' \in [Messages -> Seq(Messages)]
<1>1. HandedBack \in Seq(Events)
  BY HandedBackType
<1>2. QED BY <1>1 DEF Types, StartPipeline, Cancel, Phases

\* The two handlers that may start a run keep the types.
LEMMA DrainNextType ==
  ASSUME Types, DrainNextQueued
  PROVE  /\ gen' \in BOOLEAN /\ queued' \in Seq(Messages)
         /\ events' \in Seq(Events)
         /\ handle' \in Messages \cup {NoRun}
         /\ phase' \in [Messages -> Phases]
         /\ aborted' \in [Messages -> BOOLEAN]
         /\ result' \in [Messages -> Results]
         /\ channel' \in [Messages -> Seq(Messages)]
<1>1. CASE queued # <<>>
  <2>1. Head(queued) \in Messages /\ Tail(queued) \in Seq(Messages)
    BY <1>1 DEF Types
  <2>2. StartPipeline(Head(queued)) /\ queued' = Tail(queued)
    BY <1>1 DEF DrainNextQueued
  <2>3. QED BY <2>1, <2>2, StartType
<1>2. CASE queued = <<>>
  <2>1. gen' = FALSE /\ queued' = queued /\ events' = events /\ handle' = handle
        /\ channel' = channel /\ phase' = phase /\ aborted' = aborted /\ result' = result
    BY <1>2 DEF DrainNextQueued, runVars
  <2>2. QED BY <2>1 DEF Types
<1>3. QED BY <1>1, <1>2

LEMMA QueueOrStartType ==
  ASSUME Types, NEW m \in Messages, QueueOrStart(m)
  PROVE  /\ gen' \in BOOLEAN /\ queued' \in Seq(Messages)
         /\ events' \in Seq(Events)
         /\ handle' \in Messages \cup {NoRun}
         /\ phase' \in [Messages -> Phases]
         /\ aborted' \in [Messages -> BOOLEAN]
         /\ result' \in [Messages -> Results]
         /\ channel' \in [Messages -> Seq(Messages)]
<1>1. CASE gen
  <2>1. gen' = gen /\ queued' = Append(queued, m) /\ events' = events
        /\ handle' = handle /\ channel' = channel
        /\ phase' = phase /\ aborted' = aborted /\ result' = result
    BY <1>1 DEF QueueOrStart, runVars
  <2>2. QED BY <2>1 DEF Types
<1>2. CASE ~gen
  BY <1>2, StartType DEF QueueOrStart, Types
<1>3. QED BY <1>1, <1>2 DEF Types

\* The initial state is well formed.
LEMMA InitTypeOK == Init => TypeOK
<1>1. Init => Types
  <2> SUFFICES ASSUME Init PROVE Types
    OBVIOUS
  <2>1. gen \in BOOLEAN /\ handle \in Messages \cup {NoRun} /\ used \subseteq Messages
    BY DEF Init
  <2>2. queued \in Seq(Messages) /\ store \in Seq(Messages)
        /\ batch \in Seq(Events) /\ events \in Seq(Events)
    BY DEF Init
  <2>3. /\ frame \in Frames
        /\ phase \in [Messages -> Phases]
        /\ aborted \in [Messages -> BOOLEAN]
        /\ result \in [Messages -> Results]
        /\ channel \in [Messages -> Seq(Messages)]
    BY DEF Init, Frames, Phases, Results
  <2>4. QED BY <2>1, <2>2, <2>3 DEF Types
<1>2. Init => ResultKnown
  BY DEF Init, ResultKnown
<1>3. QED BY <1>1, <1>2 DEF TypeOK

\* Every step keeps the types. A finishing run needs ResultKnown: what it sends
\* is a StreamError only if it has failed.
LEMMA TypesStep == TypeOK /\ [Next]_vars => Types'
  <2> SUFFICES ASSUME Types, ResultKnown, [Next]_vars PROVE Types'
    BY DEF TypeOK
  <2>1. CASE TakeBatch
    BY <2>1 DEF TakeBatch, Types, Frames, runVars
  <2>2. CASE HandleEvent
    <3>1. Head(batch) \in Events /\ Tail(batch) \in Seq(Events)
      BY <2>2 DEF HandleEvent, Types
    <3>2. batch' \in Seq(Events) /\ frame' = frame /\ store' = store /\ used' = used
      BY <2>2, <3>1 DEF HandleEvent
    <3>3. CASE HandleTerminal
      BY <3>2, <3>3, DrainNextType DEF HandleTerminal, Types
    <3>4. CASE HandleCancelled
      <4>1. gen' = FALSE /\ queued' = queued /\ events' = events /\ handle' = handle
            /\ channel' = channel /\ phase' = phase /\ aborted' = aborted /\ result' = result
        BY <3>4 DEF HandleCancelled, runVars
      <4>2. QED BY <3>2, <4>1 DEF Types
    <3>5. CASE HandleMessage
      <4>1. Head(batch).msg \in Messages
        BY <3>1, <3>5 DEF HandleMessage, Events, TerminalEvents, MessageEvents
      <4>2. QueueOrStart(Head(batch).msg)
        BY <3>5 DEF HandleMessage
      <4>3. QED BY <3>2, <4>1, <4>2, QueueOrStartType DEF Types
    <3>6. QED BY <2>2, <3>3, <3>4, <3>5 DEF HandleEvent
  <2>3. CASE EndEvents \/ EndHost \/ SweepNothing \/ EndFrame
    BY <2>3 DEF EndEvents, EndHost, SweepNothing, EndFrame, Types, Frames, runVars
  <2>4. CASE SweepStuck
    BY <2>4, DrainNextType DEF SweepStuck, Types, Frames
  <2>5. CASE Stop
    <3>1. events' \in Seq(Events) /\ channel' \in [Messages -> Seq(Messages)]
          /\ aborted' \in [Messages -> BOOLEAN]
      BY <2>5, HandedBackType DEF Stop, Cancel, Types
    <3>2. gen' = FALSE /\ handle' = NoRun /\ frame' = "poll" /\ queued' = queued
          /\ batch' = batch /\ phase' = phase /\ result' = result
          /\ store' = store /\ used' = used
      BY <2>5 DEF Stop
    <3>3. QED BY <3>1, <3>2 DEF Types, Frames
  <2>6. ASSUME NEW m \in Messages, SendIdle(m) \/ HostInject(m) PROVE Types'
    BY <2>6, StartType DEF SendIdle, HostInject, Types, Frames
  <2>7. ASSUME NEW m \in Messages, SendBusy(m) PROVE Types'
    <3>1. gen' = gen /\ batch' = batch /\ events' = events /\ handle' = handle
          /\ store' = store /\ phase' = phase /\ aborted' = aborted /\ result' = result
          /\ frame' = "poll" /\ used' = used \cup {m}
      BY <2>7 DEF SendBusy, runVars
    <3>2. CASE handle # NoRun
      <4>1. handle \in Messages
        BY <3>2 DEF Types
      <4>2. queued' = queued /\ channel' = [channel EXCEPT ![handle] = Append(@, m)]
        BY <2>7, <3>2 DEF SendBusy
      <4>3. channel' \in [Messages -> Seq(Messages)]
        BY <4>1, <4>2 DEF Types
      <4>4. QED BY <3>1, <4>2, <4>3 DEF Types, Frames
    <3>3. CASE handle = NoRun
      <4>1. queued' = Append(queued, m) /\ channel' = channel
        BY <2>7, <3>3 DEF SendBusy
      <4>2. QED BY <3>1, <4>1 DEF Types, Frames
    <3>4. QED BY <3>2, <3>3
  <2>8. ASSUME NEW m \in Messages, HandBackArrives(m) PROVE Types'
    BY <2>8, EventTypes DEF HandBackArrives, Types, runVars
  <2>9. ASSUME NEW r \in Messages, RunStep(r) PROVE Types'
    <3>1. CASE Begin(r)
      BY <3>1 DEF Begin, Types, Phases, uiVars
    <3>2. CASE Refuse(r)
      BY <3>2, EventTypes DEF Refuse, Types, Phases, Results, uiVars
    <3>3. CASE Round(r)
      BY <3>3 DEF Round, Types, Phases, uiVars
    <3>4. CASE ControlEnds(r)
      BY <3>4, EventTypes DEF ControlEnds, Types, Phases, Results, uiVars
    <3>5. CASE CancelSeen(r) \/ ToolRound(r) \/ Answer(r) \/ Nudge(r) \/ Fail(r)
      <4>1. \E p \in Phases : phase' = [phase EXCEPT ![r] = p]
        BY <3>5 DEF CancelSeen, ToolRound, Answer, Nudge, Fail, Phases
      <4>2. result' = result \/ \E v \in Results : result' = [result EXCEPT ![r] = v]
        BY <3>5 DEF CancelSeen, ToolRound, Answer, Nudge, Fail, Results
      <4>3. phase' \in [Messages -> Phases]
        BY <4>1 DEF Types
      <4>4. result' \in [Messages -> Results]
        BY <4>2 DEF Types
      <4>5. aborted' = aborted /\ events' = events /\ handle' = handle
            /\ channel' = channel /\ store' = store /\ used' = used /\ gen' = gen
            /\ queued' = queued /\ frame' = frame /\ batch' = batch
        BY <3>5 DEF CancelSeen, ToolRound, Answer, Nudge, Fail, uiVars
      <4>6. QED BY <4>3, <4>4, <4>5 DEF Types
    <3>6. CASE Complete(r)
      BY <3>6, EventTypes DEF Complete, Types, Phases, Results, uiVars
    <3>7. CASE DrainOne(r)
      <4>1. Head(channel[r]) \in Messages /\ Tail(channel[r]) \in Seq(Messages)
        BY <3>7 DEF DrainOne, Types
      <4>2. events' \in Seq(Events) /\ channel' \in [Messages -> Seq(Messages)]
        BY <3>7, <4>1, EventTypes DEF DrainOne, Types
      <4>3. handle' = handle /\ store' = store /\ used' = used /\ phase' = phase
            /\ aborted' = aborted /\ result' = result /\ gen' = gen
            /\ queued' = queued /\ frame' = frame /\ batch' = batch
        BY <3>7 DEF DrainOne, uiVars, runVars
      <4>4. QED BY <4>2, <4>3 DEF Types
    <3>8. CASE DrainEnd(r) \/ Dropped(r) \/ Panic(r)
      BY <3>8 DEF DrainEnd, Dropped, Panic, Types, Phases, uiVars
    <3>9. CASE Finish(r)
      <4>1. phase' \in [Messages -> Phases]
        BY <3>9 DEF Finish, Types, Phases
      <4>2. result[r] \in Results
        BY DEF Types
      <4>3. events' \in Seq(Events)
        <5>1. CASE result[r] = "ok"
          BY <3>9, <5>1 DEF Finish, Types
        <5>2. CASE result[r] # "ok"
          <6>1. Terminal(result[r], r) \in Events
            BY <3>9, <4>2, <5>2, EventTypes DEF Finish, ResultKnown, Results
          <6>2. events' = Append(events, Terminal(result[r], r))
            BY <3>9, <5>2 DEF Finish
          <6>3. QED BY <6>1, <6>2 DEF Types
        <5>3. QED BY <5>1, <5>2
      <4>4. QED BY <3>9, <4>1, <4>3 DEF Finish, Types, uiVars
    <3>10. QED BY <2>9, <3>1, <3>2, <3>3, <3>4, <3>5, <3>6, <3>7, <3>8, <3>9 DEF RunStep
  <2>10. CASE UNCHANGED vars
    BY <2>10 DEF vars, Types
  <2>11. QED
    BY <2>1, <2>2, <2>3, <2>4, <2>5, <2>6, <2>7, <2>8, <2>9, <2>10
    DEF Next, FrameStep, UserStep

\* Every step keeps ResultKnown: a run enters "drain" with its result.
LEMMA ResultKnownStep == TypeOK /\ [Next]_vars => ResultKnown'
<1> SUFFICES ASSUME Types, ResultKnown, [Next]_vars PROVE ResultKnown'
  BY DEF TypeOK
<1>1. ASSUME NEW m \in Messages, StartPipeline(m) PROVE ResultKnown'
  BY <1>1 DEF StartPipeline, ResultKnown, Types
<1>2. ASSUME phase' = phase, result' = result PROVE ResultKnown'
  BY <1>2 DEF ResultKnown
<1>3. ASSUME DrainNextQueued PROVE ResultKnown'
  <2>1. CASE queued # <<>>
    <3>1. Head(queued) \in Messages
      BY <2>1 DEF Types
    <3>2. QED BY <1>1, <1>3, <2>1, <3>1 DEF DrainNextQueued
  <2>2. CASE queued = <<>>
    BY <1>2, <1>3, <2>2 DEF DrainNextQueued, runVars
  <2>3. QED BY <2>1, <2>2
<1>4. ASSUME NEW m \in Messages, QueueOrStart(m) PROVE ResultKnown'
  <2>1. CASE gen
    BY <1>2, <1>4, <2>1 DEF QueueOrStart, runVars
  <2>2. CASE ~gen
    BY <1>1, <1>4, <2>2 DEF QueueOrStart
  <2>3. QED BY <2>1, <2>2
<1>5. CASE HandleEvent
  <2>1. Head(batch) \in Events
    BY <1>5 DEF HandleEvent, Types
  <2>2. CASE HandleTerminal
    BY <1>3, <2>2 DEF HandleTerminal
  <2>3. CASE HandleCancelled
    BY <1>2, <2>3 DEF HandleCancelled, runVars
  <2>4. CASE HandleMessage
    <3>1. Head(batch).msg \in Messages
      BY <2>1, <2>4 DEF HandleMessage, Events, TerminalEvents, MessageEvents
    <3>2. QED BY <1>4, <2>4, <3>1 DEF HandleMessage
  <2>5. QED BY <1>5, <2>2, <2>3, <2>4 DEF HandleEvent
<1>6. CASE TakeBatch \/ EndEvents \/ EndHost \/ SweepNothing \/ EndFrame
  BY <1>2, <1>6 DEF TakeBatch, EndEvents, EndHost, SweepNothing, EndFrame, runVars
<1>7. CASE SweepStuck
  BY <1>3, <1>7 DEF SweepStuck
<1>8. CASE UserStep
  <2>1. CASE Stop
    BY <1>2, <2>1 DEF Stop
  <2>2. ASSUME NEW m \in Messages, SendIdle(m) \/ HostInject(m) PROVE ResultKnown'
    BY <1>1, <2>2 DEF SendIdle, HostInject
  <2>3. ASSUME NEW m \in Messages, SendBusy(m) \/ HandBackArrives(m) PROVE ResultKnown'
    BY <1>2, <2>3 DEF SendBusy, HandBackArrives, runVars
  <2>4. QED BY <1>8, <2>1, <2>2, <2>3 DEF UserStep
<1>9. ASSUME NEW r \in Messages, RunStep(r) PROVE ResultKnown'
  <2>1. CASE Begin(r) \/ Round(r) \/ ToolRound(r) \/ Answer(r) \/ Nudge(r)
             \/ DrainEnd(r) \/ Finish(r) \/ Dropped(r) \/ Panic(r)
    BY <2>1 DEF Begin, Round, ToolRound, Answer, Nudge, DrainEnd, Finish, Dropped,
                Panic, ResultKnown, Types
  <2>2. CASE Refuse(r) \/ ControlEnds(r) \/ CancelSeen(r) \/ Complete(r) \/ Fail(r)
    BY ZenonT(40), <2>2 DEF Refuse, ControlEnds, CancelSeen, Complete, Fail, ResultKnown, Types
  <2>3. CASE DrainOne(r)
    BY <1>2, <2>3 DEF DrainOne, runVars
  <2>4. QED BY <1>9, <2>1, <2>2, <2>3 DEF RunStep
<1>10. CASE UNCHANGED vars
  BY <1>2, <1>10 DEF vars
<1>11. QED BY <1>5, <1>6, <1>7, <1>8, <1>9, <1>10 DEF Next, FrameStep

\* The session's state is well formed in every behaviour.
THEOREM TypeCorrect == Spec => []TypeOK
<1>1. TypeOK /\ [Next]_vars => TypeOK'
  BY TypesStep, ResultKnownStep DEF TypeOK
<1>2. QED BY <1>1, InitTypeOK, PTL DEF Spec
-------------------------------------------------------------------------------
(* Ownership: one live run, one channel in use, one writer. *)

Owned == SingleLiveRun /\ OnlyOwnedChannel

\* Starting a run: whatever was live or injected before belonged to the owned
\* run, and cancel() has aborted it and emptied its channel.
LEMMA StartOwned ==
  ASSUME TypeOK, Owned, NEW m \in Messages, StartPipeline(m)
  PROVE  Owned'
<1>1. /\ handle' = m
      /\ phase' = [phase EXCEPT ![m] = "spawned"]
      /\ aborted' = [r \in Messages |-> r = handle \/ aborted[r]]
      /\ channel' = [r \in Messages |-> IF r = handle THEN <<>> ELSE channel[r]]
  BY DEF StartPipeline, Cancel
<1>2. SingleLiveRun'
  BY <1>1 DEF Owned, SingleLiveRun, Live, TypeOK, Types
<1>3. OnlyOwnedChannel'
  BY <1>1 DEF Owned, OnlyOwnedChannel
<1>4. QED BY <1>2, <1>3 DEF Owned

\* A step that leaves the runs, the pipeline and the channels alone.
LEMMA SameOwned ==
  ASSUME Owned, phase' = phase, aborted' = aborted, handle' = handle, channel' = channel
  PROVE  Owned'
BY DEF Owned, SingleLiveRun, OnlyOwnedChannel, Live

\* A run's own step: it was live before, no other run changes, and its channel
\* only shrinks.
LEMMA RunOwned ==
  ASSUME TypeOK, Owned, NEW r \in Messages, NEW p \in Phases, Live(r),
         phase' = [phase EXCEPT ![r] = p], aborted' = aborted, handle' = handle,
         channel' = channel \/ channel' = [channel EXCEPT ![r] = <<>>]
  PROVE  Owned'
<1>1. SingleLiveRun'
  BY DEF Owned, SingleLiveRun, Live, TypeOK, Types
<1>2. OnlyOwnedChannel'
  BY DEF Owned, OnlyOwnedChannel, TypeOK, Types
<1>3. QED BY <1>1, <1>2 DEF Owned

\* Every step keeps the ownership.
LEMMA OwnedStep == TypeOK /\ Owned /\ [Next]_vars => Owned'
<1> SUFFICES ASSUME TypeOK, Owned, [Next]_vars PROVE Owned'
  OBVIOUS
<1>1. ASSUME DrainNextQueued PROVE Owned'
  <2>1. CASE queued # <<>>
    <3>1. Head(queued) \in Messages
      BY <2>1 DEF TypeOK, Types
    <3>2. QED BY <1>1, <2>1, <3>1, StartOwned DEF DrainNextQueued
  <2>2. CASE queued = <<>>
    BY <1>1, <2>2, SameOwned DEF DrainNextQueued, runVars
  <2>3. QED BY <2>1, <2>2
<1>2. ASSUME NEW m \in Messages, QueueOrStart(m) PROVE Owned'
  <2>1. CASE gen
    BY <1>2, <2>1, SameOwned DEF QueueOrStart, runVars
  <2>2. CASE ~gen
    BY <1>2, <2>2, StartOwned DEF QueueOrStart
  <2>3. QED BY <2>1, <2>2
<1>3. CASE HandleEvent
  <2>1. Head(batch) \in Events
    BY <1>3 DEF HandleEvent, TypeOK, Types
  <2>2. CASE HandleTerminal
    BY <1>1, <2>2 DEF HandleTerminal
  <2>3. CASE HandleCancelled
    BY <2>3, SameOwned DEF HandleCancelled, runVars
  <2>4. CASE HandleMessage
    <3>1. Head(batch).msg \in Messages
      BY <2>1, <2>4 DEF HandleMessage, Events, TerminalEvents, MessageEvents
    <3>2. QED BY <1>2, <2>4, <3>1 DEF HandleMessage
  <2>5. QED BY <1>3, <2>2, <2>3, <2>4 DEF HandleEvent
<1>4. CASE TakeBatch \/ EndEvents \/ EndHost \/ SweepNothing \/ EndFrame
  BY <1>4, SameOwned DEF TakeBatch, EndEvents, EndHost, SweepNothing, EndFrame, runVars
<1>5. CASE SweepStuck
  BY <1>1, <1>5 DEF SweepStuck
<1>6. CASE Stop
  <2>1. /\ handle' = NoRun /\ phase' = phase
        /\ aborted' = [r \in Messages |-> r = handle \/ aborted[r]]
        /\ channel' = [r \in Messages |-> IF r = handle THEN <<>> ELSE channel[r]]
    BY <1>6 DEF Stop, Cancel
  <2>2. QED BY <2>1 DEF Owned, SingleLiveRun, OnlyOwnedChannel, Live
<1>7. ASSUME NEW m \in Messages, SendIdle(m) \/ HostInject(m) PROVE Owned'
  BY <1>7, StartOwned DEF SendIdle, HostInject
<1>8. ASSUME NEW m \in Messages, SendBusy(m) PROVE Owned'
  <2>1. phase' = phase /\ aborted' = aborted /\ handle' = handle
        /\ channel' \in {channel, [channel EXCEPT ![handle] = Append(@, m)]}
    BY <1>8 DEF SendBusy, runVars
  <2>2. \A r \in Messages : r # handle => channel'[r] = channel[r]
    BY <2>1 DEF TypeOK, Types
  <2>3. QED BY <2>1, <2>2 DEF Owned, SingleLiveRun, OnlyOwnedChannel, Live
<1>9. ASSUME NEW m \in Messages, HandBackArrives(m) PROVE Owned'
  BY <1>9, SameOwned DEF HandBackArrives, runVars
<1>10. ASSUME NEW r \in Messages, RunStep(r) PROVE Owned'
  <2>1. CASE DrainOne(r)
    <3>1. channel[r] # <<>> /\ channel' = [channel EXCEPT ![r] = Tail(@)]
          /\ phase' = phase /\ aborted' = aborted /\ handle' = handle
      BY <2>1 DEF DrainOne, runVars
    <3>2. \A q \in Messages : q # r => channel'[q] = channel[q]
      BY <3>1 DEF TypeOK, Types
    <3>3. QED BY <3>1, <3>2 DEF Owned, SingleLiveRun, OnlyOwnedChannel, Live
  <2>2. CASE Round(r) \/ ControlEnds(r)
    <3>1. Live(r) /\ aborted' = aborted /\ handle' = handle
          /\ channel' = [channel EXCEPT ![r] = <<>>]
          /\ \E p \in Phases : phase' = [phase EXCEPT ![r] = p]
      BY <2>2 DEF Round, ControlEnds, Live, Phases
    <3>2. QED BY <3>1, RunOwned
  <2>3. CASE Begin(r) \/ Refuse(r) \/ CancelSeen(r) \/ ToolRound(r) \/ Answer(r)
             \/ Nudge(r) \/ Complete(r) \/ Fail(r) \/ DrainEnd(r) \/ Finish(r)
             \/ Dropped(r) \/ Panic(r)
    <3>1. Live(r) /\ aborted' = aborted /\ handle' = handle /\ channel' = channel
          /\ \E p \in Phases : phase' = [phase EXCEPT ![r] = p]
      BY <2>3 DEF Begin, Refuse, CancelSeen, ToolRound, Answer, Nudge, Complete, Fail,
                  DrainEnd, Finish, Dropped, Panic, Live, Phases
    <3>2. QED BY <3>1, RunOwned
  <2>4. QED BY <1>10, <2>1, <2>2, <2>3 DEF RunStep
<1>11. CASE UNCHANGED vars
  BY <1>11, SameOwned DEF vars
<1>12. QED
  BY <1>3, <1>4, <1>5, <1>6, <1>7, <1>8, <1>9, <1>10, <1>11
  DEF Next, FrameStep, UserStep

LEMMA OwnedAlways == Spec => [](TypeOK /\ Owned)
<1>1. Init => Owned
  BY DEF Init, Owned, SingleLiveRun, OnlyOwnedChannel, Live
<1>2. QED BY <1>1, OwnedStep, TypeCorrect, PTL DEF Spec

\* At most one run that was not aborted works on a session, the pipeline's.
THEOREM OneLiveRun == Spec => []SingleLiveRun
<1>1. Owned => SingleLiveRun
  BY DEF Owned
<1>2. QED BY <1>1, OwnedAlways, PTL

\* What is injected waits only in the channel of the run the pipeline owns.
THEOREM ChannelOwnership == Spec => []OnlyOwnedChannel
<1>1. Owned => OnlyOwnedChannel
  BY DEF Owned
<1>2. QED BY <1>1, OwnedAlways, PTL

\* The conversation has one writer: only the owned run records in it, in every
\* step, whatever an aborted run still executes.
THEOREM SingleWriter == Spec => OnlyOwnedRunRecords
<1>1. ASSUME TypeOK, Owned, Next, store' # store
      PROVE  /\ handle # NoRun
             /\ store' \in {Append(store, handle), store \o channel[handle]}
  <2>1. PICK r \in Messages : Begin(r) \/ Round(r) \/ ControlEnds(r)
    BY <1>1 DEF Next, FrameStep, UserStep, RunStep, TakeBatch, HandleEvent, EndEvents,
       EndHost, SweepStuck, SweepNothing, EndFrame, Stop, SendIdle, SendBusy,
       HostInject, HandBackArrives, Refuse, CancelSeen, ToolRound, Answer, Nudge,
       Complete, Fail, DrainOne, DrainEnd, Finish, Dropped, Panic
  <2>2. CASE Begin(r)
    <3>1. r = handle
      BY <1>1, <2>2 DEF Begin, Owned, SingleLiveRun, Live
    <3>2. QED BY <2>2, <3>1, NoRunAssumption DEF Begin
  <2>3. CASE Round(r) \/ ControlEnds(r)
    <3>1. store' = store \o channel[r]
      BY <2>3 DEF Round, ControlEnds
    <3>2. channel[r] # <<>>
      BY <1>1, <3>1 DEF TypeOK, Types
    <3>3. r = handle
      BY <1>1, <3>2 DEF Owned, OnlyOwnedChannel
    <3>4. QED BY <3>1, <3>3, NoRunAssumption
  <2>4. QED BY <2>1, <2>2, <2>3
<1>2. TypeOK /\ Owned /\ [Next]_vars
        => [store' # store => /\ handle # NoRun
                              /\ store' \in {Append(store, handle), store \o channel[handle]}]_vars
  BY <1>1 DEF vars
<1>3. QED BY <1>2, OwnedAlways, PTL DEF Spec, OnlyOwnedRunRecords

-------------------------------------------------------------------------------
(* Conservation: where each message is. *)

Occurs(q, E) == \E i \in DOMAIN q : q[i] \in E
OnceIn(q, E) == \A i, j \in DOMAIN q : q[i] \in E /\ q[j] \in E => i = j

\* The events that carry m.
Carriers(m) == {e \in MessageEvents : e.msg = m}

Waits(m)    == Occurs(queued, {m})
Taken(m)    == Occurs(batch, Carriers(m))
Sent(m)     == Occurs(events, Carriers(m))
Injected(m) == \E r \in Messages : Occurs(channel[r], {m})
Stored(m)   == Occurs(store, {m})
Started(m)  == phase[m] # "none" /\ ~Stored(m)

Known(m) == Waits(m) \/ Taken(m) \/ Sent(m) \/ Injected(m) \/ Stored(m) \/ Started(m)

Apart(m) ==
  /\ Waits(m) => ~Taken(m) /\ ~Sent(m) /\ ~Injected(m) /\ ~Stored(m) /\ ~Started(m)
  /\ Taken(m) => ~Sent(m) /\ ~Injected(m) /\ ~Stored(m) /\ ~Started(m)
  /\ Sent(m) => ~Injected(m) /\ ~Stored(m) /\ ~Started(m)
  /\ Injected(m) => ~Stored(m) /\ ~Started(m)

OnceEach(m) ==
  /\ OnceIn(queued, {m}) /\ OnceIn(store, {m})
  /\ OnceIn(batch, Carriers(m)) /\ OnceIn(events, Carriers(m))
  /\ \A r \in Messages : OnceIn(channel[r], {m})

\* A message that entered is in one of the six kinds of places and there once.
Conserved(m) == Apart(m) /\ OnceEach(m) /\ (Known(m) <=> m \in used)

\* A run that began has recorded its message.
Recorded ==
  \A r \in Messages : /\ phase[r] = "spawned" => ~Stored(r)
                      /\ phase[r] \notin {"none", "spawned", "done"} => Stored(r)

\* No batch outlives its frame.
BatchDone == frame # "handle" => batch = <<>>

Keeping == BatchDone /\ Recorded /\ \A m \in Messages : Conserved(m)

\* Appending, taking the first and concatenating: what occurs, and how often.
LEMMA AppendOccurs ==
  ASSUME NEW S, NEW q \in Seq(S), NEW x \in S, NEW E
  PROVE  /\ Occurs(Append(q, x), E) <=> Occurs(q, E) \/ x \in E
         /\ OnceIn(q, E) /\ ~(Occurs(q, E) /\ x \in E) => OnceIn(Append(q, x), E)
<1> DEFINE n == Len(q)
           t == Append(q, x)
<1>1. /\ n \in Nat /\ DOMAIN q = 1..n /\ DOMAIN t = 1..(n + 1)
      /\ t[n + 1] = x /\ \A i \in 1..n : t[i] = q[i]
  BY AppendProperties, LenProperties
<1> HIDE DEF n, t
<1>2. \A i \in 1..(n + 1) : i \in 1..n \/ i = n + 1
  BY <1>1
<1>3. n + 1 \in 1..(n + 1) /\ 1..n \subseteq 1..(n + 1)
  BY <1>1
<1>4. Occurs(t, E) <=> Occurs(q, E) \/ x \in E
  BY <1>1, <1>2, <1>3 DEF Occurs
<1>5. OnceIn(q, E) /\ ~(Occurs(q, E) /\ x \in E) => OnceIn(t, E)
  BY <1>1, <1>2, <1>3 DEF Occurs, OnceIn
<1> QED BY <1>4, <1>5 DEF t

LEMMA TailOccurs ==
  ASSUME NEW S, NEW q \in Seq(S), q # <<>>, NEW E
  PROVE  /\ Occurs(q, E) <=> Head(q) \in E \/ Occurs(Tail(q), E)
         /\ OnceIn(q, E) => OnceIn(Tail(q), E) /\ ~(Head(q) \in E /\ Occurs(Tail(q), E))
<1> DEFINE n == Len(q)
           t == Tail(q)
<1>1. /\ n \in Nat \ {0} /\ DOMAIN q = 1..n /\ DOMAIN t = 1..(n - 1)
      /\ Head(q) = q[1] /\ \A i \in 1..(n - 1) : t[i] = q[i + 1]
  BY HeadTailProperties, EmptySeq, LenProperties
<1> HIDE DEF n, t
<1>2. /\ 1 \in 1..n /\ \A i \in 1..(n - 1) : i + 1 \in 1..n /\ i + 1 # 1
      /\ \A i \in 1..n : i = 1 \/ (i - 1 \in 1..(n - 1) /\ (i - 1) + 1 = i)
  BY <1>1
<1>3. Occurs(q, E) => Head(q) \in E \/ Occurs(t, E)
  BY <1>1, <1>2 DEF Occurs
<1>4. Head(q) \in E \/ Occurs(t, E) => Occurs(q, E)
  BY SMTT(40), <1>1, <1>2 DEF Occurs
<1>5. OnceIn(q, E) => OnceIn(t, E)
  <2> SUFFICES ASSUME OnceIn(q, E), NEW i \in 1..(n - 1), NEW j \in 1..(n - 1),
                      t[i] \in E, t[j] \in E
               PROVE  i = j
    BY <1>1 DEF OnceIn
  <2>1. q[i + 1] \in E /\ q[j + 1] \in E /\ i + 1 \in 1..n /\ j + 1 \in 1..n
    BY <1>1, <1>2
  <2>2. i + 1 = j + 1
    BY <1>1, <2>1 DEF OnceIn
  <2> QED BY <2>2
<1>6. OnceIn(q, E) => ~(Head(q) \in E /\ Occurs(t, E))
  BY SMTT(40), <1>1, <1>2 DEF OnceIn, Occurs
<1> QED BY <1>3, <1>4, <1>5, <1>6 DEF t

LEMMA ConcatOccurs ==
  ASSUME NEW S, NEW q \in Seq(S), NEW s \in Seq(S), NEW E
  PROVE  /\ Occurs(q \o s, E) <=> Occurs(q, E) \/ Occurs(s, E)
         /\ OnceIn(q, E) /\ OnceIn(s, E) /\ ~(Occurs(q, E) /\ Occurs(s, E)) => OnceIn(q \o s, E)
<1> DEFINE n == Len(q)
           k == Len(s)
           t == q \o s
<1>1. /\ n \in Nat /\ k \in Nat /\ DOMAIN q = 1..n /\ DOMAIN s = 1..k /\ DOMAIN t = 1..(n + k)
      /\ \A i \in 1..(n + k) : t[i] = IF i <= n THEN q[i] ELSE s[i - n]
  BY ConcatProperties, LenProperties
<1> HIDE DEF n, k, t
<1>2. \A i \in 1..(n + k) : i \in 1..n \/ (~(i <= n) /\ i - n \in 1..k)
  BY <1>1
<1>3. \A i \in 1..n : i \in 1..(n + k) /\ t[i] = q[i]
  BY <1>1
<1>4. \A i \in 1..k : n + i \in 1..(n + k) /\ t[n + i] = s[i]
  <2> TAKE i \in 1..k
  <2>1. n + i \in 1..(n + k) /\ ~(n + i <= n) /\ (n + i) - n = i
    BY <1>1
  <2> QED BY <1>1, <2>1
<1>5. \A i \in 1..(n + k) : (i \in 1..n /\ t[i] = q[i]) \/ (i - n \in 1..k /\ t[i] = s[i - n])
  BY <1>1, <1>2
<1>6. Occurs(t, E) <=> Occurs(q, E) \/ Occurs(s, E)
  BY <1>1, <1>3, <1>4, <1>5 DEF Occurs
<1>7. ASSUME OnceIn(q, E), OnceIn(s, E), ~(Occurs(q, E) /\ Occurs(s, E))
      PROVE  OnceIn(t, E)
  <2> SUFFICES ASSUME NEW i \in 1..(n + k), NEW j \in 1..(n + k), t[i] \in E, t[j] \in E
               PROVE  i = j
    BY <1>1 DEF OnceIn
  <2>1. CASE i \in 1..n /\ t[i] = q[i] /\ j \in 1..n /\ t[j] = q[j]
    BY <1>1, <1>7, <2>1 DEF OnceIn
  <2>2. CASE i - n \in 1..k /\ t[i] = s[i - n] /\ j - n \in 1..k /\ t[j] = s[j - n]
    <3>1. i - n = j - n
      BY <1>1, <1>7, <2>2 DEF OnceIn
    <3> QED BY <1>1, <3>1
  <2>3. (i \in 1..n /\ t[i] = q[i]) => Occurs(q, E)
    BY <1>1 DEF Occurs
  <2>4. (j \in 1..n /\ t[j] = q[j]) => Occurs(q, E)
    BY <1>1 DEF Occurs
  <2>5. (i - n \in 1..k /\ t[i] = s[i - n]) => Occurs(s, E)
    BY <1>1 DEF Occurs
  <2>6. (j - n \in 1..k /\ t[j] = s[j - n]) => Occurs(s, E)
    BY <1>1 DEF Occurs
  <2> QED BY <1>5, <1>7, <2>1, <2>2, <2>3, <2>4, <2>5, <2>6
<1> QED BY <1>6, <1>7 DEF t

LEMMA NothingOccurs == ASSUME NEW E PROVE ~Occurs(<<>>, E) /\ OnceIn(<<>>, E)
BY DEF Occurs, OnceIn

\* Which events carry which message.
LEMMA Carried ==
  ASSUME NEW m \in Messages
  PROVE  /\ \A x \in Messages : /\ Drained(x) \in Carriers(m) <=> x = m
                                /\ HandBack(x) \in Carriers(m) <=> x = m
         /\ \A r, k : k \notin {"drained", "handback"} => Terminal(k, r) \notin Carriers(m)
         /\ \A e \in Events : e \in Carriers(m) <=> e.kind \in {"drained", "handback"} /\ e.msg = m
<1>1. \A x \in Messages : /\ Drained(x) \in Carriers(m) <=> x = m
                          /\ HandBack(x) \in Carriers(m) <=> x = m
  BY DEF Drained, HandBack, Carriers, MessageEvents
<1>2. \A r, k : k \notin {"drained", "handback"} => Terminal(k, r) \notin Carriers(m)
  BY DEF Terminal, Carriers, MessageEvents
<1>3. \A e \in Events : e \in Carriers(m) <=> e.kind \in {"drained", "handback"} /\ e.msg = m
  BY DEF Carriers, Events, MessageEvents, TerminalEvents
<1> QED BY <1>1, <1>2, <1>3

\* What cancel() hands back is what the channel held, in the same positions.
LEMMA HandedBackOccurs ==
  ASSUME TypeOK, Owned, Keeping, NEW m \in Messages
  PROVE  /\ Occurs(HandedBack, Carriers(m)) <=> Injected(m)
         /\ OnceIn(HandedBack, Carriers(m))
<1>1. CASE handle = NoRun
  <2>1. HandedBack = <<>> /\ \A r \in Messages : channel[r] = <<>>
    BY <1>1 DEF HandedBack, Owned, OnlyOwnedChannel
  <2> QED BY <2>1, NothingOccurs DEF Injected
<1>2. CASE handle # NoRun
  <2> DEFINE c == channel[handle]
  <2>1. handle \in Messages /\ c \in Seq(Messages)
    BY <1>2 DEF TypeOK, Types
  <2>2. \A r \in Messages : r # handle => channel[r] = <<>>
    BY DEF Owned, OnlyOwnedChannel
  <2>3. Injected(m) <=> Occurs(c, {m})
    BY <2>1, <2>2, NothingOccurs DEF Injected
  <2>4. OnceIn(c, {m})
    BY <2>1 DEF Keeping, Conserved, OnceEach
  <2>5. HandedBack = [i \in DOMAIN c |-> Drained(c[i])]
    BY <1>2 DEF HandedBack
  <2>6. \A i \in DOMAIN c : c[i] \in Messages
    BY <2>1
  <2> HIDE DEF c
  <2>7. DOMAIN HandedBack = DOMAIN c
        /\ \A i \in DOMAIN c : HandedBack[i] \in Carriers(m) <=> c[i] \in {m}
    BY <2>5, <2>6, Carried
  <2> QED BY <2>3, <2>4, <2>7 DEF Occurs, OnceIn
<1> QED BY <1>1, <1>2

\* cancel() moves what was injected to the event channel.
LEMMA CancelMoves ==
  ASSUME TypeOK, Owned, Keeping, Cancel, NEW m \in Messages
  PROVE  /\ Sent(m)' <=> Sent(m) \/ Injected(m)
         /\ ~Injected(m)'
         /\ OnceIn(events', Carriers(m))
         /\ \A r \in Messages : OnceIn(channel'[r], {m})
<1>1. /\ events' = events \o HandedBack
      /\ channel' = [r \in Messages |-> IF r = handle THEN <<>> ELSE channel[r]]
  BY DEF Cancel
<1>2. \A r \in Messages : channel'[r] = <<>>
  BY <1>1 DEF Owned, OnlyOwnedChannel
<1>3. events \in Seq(Events) /\ HandedBack \in Seq(Events)
  BY HandedBackType DEF TypeOK, Types
<1>4. OnceIn(events, Carriers(m)) /\ ~(Sent(m) /\ Injected(m))
  BY DEF Keeping, Conserved, OnceEach, Apart
<1>5. Sent(m)' <=> Occurs(events \o HandedBack, Carriers(m))
  BY <1>1 DEF Sent, Carriers
<1>6. Sent(m)' <=> Sent(m) \/ Injected(m)
  BY <1>3, <1>5, HandedBackOccurs, ConcatOccurs DEF Sent
<1>7. OnceIn(events', Carriers(m))
  BY <1>1, <1>3, <1>4, HandedBackOccurs, ConcatOccurs DEF Sent
<1>8. ~Injected(m)'
  BY <1>2, NothingOccurs DEF Injected
<1> QED BY <1>2, <1>6, <1>7, <1>8, NothingOccurs

\* Starting the run of x, which is not stored: whatever place x has left, from now
\* on it is the started run, and the rest stays where it was or is sent back.
LEMMA StartMoves ==
  ASSUME TypeOK, Owned, Keeping, NEW x \in Messages, StartPipeline(x), store' = store, ~Stored(x)
  PROVE  /\ Recorded'
         /\ \A m \in Messages :
              /\ Sent(m)' <=> Sent(m) \/ Injected(m)
              /\ ~Injected(m)'
              /\ OnceIn(events', Carriers(m))
              /\ \A r \in Messages : OnceIn(channel'[r], {m})
              /\ Stored(m)' <=> Stored(m)
              /\ Started(m)' <=> Started(m) \/ m = x
<1>1. Cancel /\ phase' = [phase EXCEPT ![x] = "spawned"]
  BY DEF StartPipeline
<1>2. \A m \in Messages : Stored(m)' <=> Stored(m)
  BY DEF Stored
<1>3. phase'[x] = "spawned" /\ \A m \in Messages : m # x => phase'[m] = phase[m]
  BY <1>1 DEF TypeOK, Types
<1>4. \A m \in Messages : Started(m)' <=> Started(m) \/ m = x
  <2> TAKE m \in Messages
  <2>1. Started(m)' <=> phase'[m] # "none" /\ ~Stored(m)
    BY <1>2 DEF Started
  <2> QED BY <1>3, <2>1 DEF Started
<1>5. Recorded'
  <2> SUFFICES ASSUME NEW r \in Messages
               PROVE  /\ phase'[r] = "spawned" => ~Stored(r)'
                      /\ phase'[r] \notin {"none", "spawned", "done"} => Stored(r)'
    BY DEF Recorded
  <2>1. CASE r = x
    BY <1>2, <1>3, <2>1
  <2>2. CASE r # x
    BY <1>2, <1>3, <2>2 DEF Keeping, Recorded
  <2> QED BY <2>1, <2>2
<1> QED BY <1>1, <1>2, <1>4, <1>5, CancelMoves

\* The run of the queue's head is started, or there is none.
LEMMA DrainNextMoves ==
  ASSUME TypeOK, Owned, Keeping, DrainNextQueued, store' = store, used' = used,
         \A m \in Messages : (Taken(m)' <=> Taken(m)) /\ OnceIn(batch', Carriers(m))
  PROVE  Recorded' /\ \A m \in Messages : Conserved(m)'
<1>1. CASE queued = <<>>
  <2>1. UNCHANGED <<queued, events, channel, store, phase, used>>
    BY <1>1 DEF DrainNextQueued, runVars
  <2>2. Recorded'
    BY <2>1 DEF Keeping, Recorded, Stored
  <2>3. ASSUME NEW m \in Messages PROVE Conserved(m)'
    <3>1. /\ Waits(m)' <=> Waits(m)
          /\ Sent(m)' <=> Sent(m)
          /\ Injected(m)' <=> Injected(m)
          /\ Stored(m)' <=> Stored(m)
          /\ Started(m)' <=> Started(m)
      BY <2>1 DEF Waits, Sent, Injected, Stored, Started, Carriers
    <3>2. OnceEach(m)'
      BY <2>1 DEF Keeping, Conserved, OnceEach, Carriers
    <3> QED BY <2>1, <3>1, <3>2 DEF Keeping, Conserved, Apart, Known
  <2> QED BY <2>2, <2>3
<1>2. CASE queued # <<>>
  <2> DEFINE x == Head(queued)
  <2>1. queued' = Tail(queued) /\ StartPipeline(x)
    BY <1>2 DEF DrainNextQueued
  <2>2. x \in Messages /\ queued \in Seq(Messages)
    BY <1>2 DEF TypeOK, Types
  <2>3. \A m \in Messages :
          /\ Waits(m) <=> m = x \/ Waits(m)'
          /\ ~(m = x /\ Waits(m)')
          /\ OnceIn(queued', {m})
    <3> TAKE m \in Messages
    <3>1. OnceIn(queued, {m})
      BY DEF Keeping, Conserved, OnceEach
    <3> QED BY <1>2, <2>1, <2>2, <3>1, TailOccurs DEF Waits
  <2> HIDE DEF x
  <2>4. ~Stored(x)
    BY <2>2, <2>3 DEF Keeping, Conserved, Apart
  <2>5. Recorded' /\ \A m \in Messages :
              /\ Sent(m)' <=> Sent(m) \/ Injected(m)
              /\ ~Injected(m)'
              /\ OnceIn(events', Carriers(m))
              /\ \A r \in Messages : OnceIn(channel'[r], {m})
              /\ Stored(m)' <=> Stored(m)
              /\ Started(m)' <=> Started(m) \/ m = x
    BY <2>1, <2>2, <2>4, StartMoves
  <2>6. ASSUME NEW m \in Messages PROVE Conserved(m)'
    <3>1. OnceEach(m)'
      BY <2>3, <2>5 DEF Keeping, Conserved, OnceEach, Carriers
    <3>2. Conserved(m)
      BY DEF Keeping
    <3>3. Apart(m)'
      BY <2>3, <2>5, <3>2 DEF Conserved, Apart
    <3>4. Known(m)' <=> Known(m)
      BY <2>3, <2>5, <3>2 DEF Known
    <3> QED BY <3>1, <3>2, <3>3, <3>4 DEF Conserved
  <2> QED BY <2>5, <2>6
<1> QED BY <1>1, <1>2

\* A new run for x, wherever else x was before: in the batch, or outside.
LEMMA StartFresh ==
  ASSUME TypeOK, Owned, Keeping, NEW x \in Messages, StartPipeline(x), store' = store,
         queued' = queued, ~Waits(x), ~Sent(x), ~Injected(x), ~Stored(x), ~Started(x),
         \A m \in Messages : OnceIn(batch', Carriers(m)),
         ~Taken(x)', \A m \in Messages : m # x => (Taken(m)' <=> Taken(m)),
         used' = used \cup {x}
  PROVE  Recorded' /\ \A m \in Messages : Conserved(m)'
<1>1. Recorded' /\ \A m \in Messages :
            /\ Sent(m)' <=> Sent(m) \/ Injected(m)
            /\ ~Injected(m)'
            /\ OnceIn(events', Carriers(m))
            /\ \A r \in Messages : OnceIn(channel'[r], {m})
            /\ Stored(m)' <=> Stored(m)
            /\ Started(m)' <=> Started(m) \/ m = x
  BY StartMoves
<1>2. ASSUME NEW m \in Messages PROVE Conserved(m)'
  <2>1. Conserved(m)
    BY DEF Keeping
  <2>2. (Waits(m)' <=> Waits(m)) /\ OnceIn(queued', {m}) /\ OnceIn(store', {m})
    BY <2>1 DEF Waits, Conserved, OnceEach
  <2>3. OnceEach(m)'
    BY <1>1, <2>2 DEF OnceEach, Carriers
  <2>4. CASE m = x
    BY <1>1, <2>2, <2>3, <2>4 DEF Conserved, Apart, Known
  <2>5. CASE m # x
    <3>1. Apart(m)' /\ (Known(m)' <=> Known(m))
      BY <1>1, <2>1, <2>2, <2>5 DEF Conserved, Apart, Known
    <3> QED BY <2>1, <2>3, <2>5, <3>1 DEF Conserved
  <2> QED BY <2>4, <2>5
<1> QED BY <1>1, <1>2

\* A step that moves no message.
LEMMA SameKept ==
  ASSUME Keeping, UNCHANGED <<queued, batch, events, channel, store, phase, used>>, BatchDone'
  PROVE  Keeping'
<1>1. Recorded'
  BY DEF Keeping, Recorded, Stored
<1>2. ASSUME NEW m \in Messages PROVE Conserved(m)'
  <2>1. /\ Waits(m)' <=> Waits(m)
        /\ Taken(m)' <=> Taken(m)
        /\ Sent(m)' <=> Sent(m)
        /\ Injected(m)' <=> Injected(m)
        /\ Stored(m)' <=> Stored(m)
        /\ Started(m)' <=> Started(m)
    BY DEF Waits, Taken, Sent, Injected, Stored, Started, Carriers
  <2>2. OnceEach(m)'
    BY DEF Keeping, Conserved, OnceEach, Carriers
  <2> QED BY <2>1, <2>2 DEF Keeping, Conserved, Apart, Known
<1> QED BY <1>1, <1>2 DEF Keeping

\* process_pending_events takes all events; its last batch is used up.
LEMMA TakeBatchKept == ASSUME Keeping, TakeBatch PROVE Keeping'
<1>1. /\ batch = <<>> /\ batch' = events /\ events' = <<>> /\ frame' = "handle"
      /\ UNCHANGED <<queued, channel, store, phase, used>>
  BY DEF TakeBatch, Keeping, BatchDone, runVars
<1>2. Recorded'
  BY <1>1 DEF Keeping, Recorded, Stored
<1>3. ASSUME NEW m \in Messages PROVE Conserved(m)'
  <2>1. /\ Waits(m)' <=> Waits(m)
        /\ Taken(m)' <=> Sent(m)
        /\ Injected(m)' <=> Injected(m)
        /\ Stored(m)' <=> Stored(m)
        /\ Started(m)' <=> Started(m)
    BY <1>1 DEF Waits, Taken, Sent, Injected, Stored, Started, Carriers
  <2>2. ~Sent(m)' /\ ~Taken(m)
    BY <1>1, NothingOccurs DEF Sent, Taken
  <2>3. OnceEach(m)'
    BY <1>1, NothingOccurs DEF Keeping, Conserved, OnceEach, Carriers
  <2> QED BY <1>1, <2>1, <2>2, <2>3 DEF Keeping, Conserved, Apart, Known
<1> QED BY <1>1, <1>2, <1>3 DEF Keeping, BatchDone

\* The event handled leaves the batch.
LEMMA BatchMoves ==
  ASSUME TypeOK, Keeping, batch # <<>>, batch' = Tail(batch)
  PROVE  /\ Head(batch) \in Events
         /\ \A m \in Messages :
              /\ Taken(m) <=> Head(batch) \in Carriers(m) \/ Taken(m)'
              /\ ~(Head(batch) \in Carriers(m) /\ Taken(m)')
              /\ OnceIn(batch', Carriers(m))
<1>1. batch \in Seq(Events)
  BY DEF TypeOK, Types
<1>2. ASSUME NEW m \in Messages
      PROVE  /\ Taken(m) <=> Head(batch) \in Carriers(m) \/ Taken(m)'
             /\ ~(Head(batch) \in Carriers(m) /\ Taken(m)')
             /\ OnceIn(batch', Carriers(m))
  <2>1. OnceIn(batch, Carriers(m))
    BY DEF Keeping, Conserved, OnceEach
  <2>2. Taken(m)' <=> Occurs(Tail(batch), Carriers(m))
    BY DEF Taken, Carriers
  <2> QED BY <1>1, <2>1, <2>2, TailOccurs DEF Taken
<1> QED BY <1>1, <1>2

\* A message is queued behind a run, from the batch or from outside.
LEMMA QueueMoves ==
  ASSUME TypeOK, Keeping, NEW x \in Messages, queued' = Append(queued, x),
         UNCHANGED <<events, channel, store, phase>>, used' = used \cup {x},
         ~Waits(x), ~Sent(x), ~Injected(x), ~Stored(x), ~Started(x),
         \A m \in Messages : OnceIn(batch', Carriers(m)),
         ~Taken(x)', \A m \in Messages : m # x => (Taken(m)' <=> Taken(m))
  PROVE  Recorded' /\ \A m \in Messages : Conserved(m)'
<1>1. Recorded'
  BY DEF Keeping, Recorded, Stored
<1>2. ASSUME NEW m \in Messages PROVE Conserved(m)'
  <2>1. Conserved(m)
    BY DEF Keeping
  <2>2. /\ Waits(m)' <=> Waits(m) \/ m = x
        /\ OnceIn(queued', {m})
    <3>1. queued \in Seq(Messages) /\ OnceIn(queued, {m}) /\ (x \in {m} <=> m = x)
      BY <2>1 DEF TypeOK, Types, Conserved, OnceEach
    <3>2. m = x => ~Occurs(queued, {m})
      BY DEF Waits
    <3>3. Waits(m)' <=> Occurs(Append(queued, x), {m})
      BY DEF Waits
    <3> QED BY <3>1, <3>2, <3>3, AppendOccurs DEF Waits
  <2>3. /\ Sent(m)' <=> Sent(m)
        /\ Injected(m)' <=> Injected(m)
        /\ Stored(m)' <=> Stored(m)
        /\ Started(m)' <=> Started(m)
    BY DEF Sent, Injected, Stored, Started, Carriers
  <2>4. OnceEach(m)'
    BY <2>1, <2>2 DEF Conserved, OnceEach, Carriers
  <2>5. CASE m = x
    BY <2>2, <2>3, <2>4, <2>5 DEF Conserved, Apart, Known
  <2>6. CASE m # x
    <3>1. Apart(m)' /\ (Known(m)' <=> Known(m))
      BY <2>1, <2>2, <2>3, <2>6 DEF Conserved, Apart, Known
    <3> QED BY <2>1, <2>4, <2>6, <3>1 DEF Conserved
  <2> QED BY <2>5, <2>6
<1> QED BY <1>1, <1>2

LEMMA HandleKept == ASSUME TypeOK, Owned, Keeping, HandleEvent PROVE Keeping'
<1>1. batch # <<>> /\ batch' = Tail(batch) /\ frame = "handle" /\ frame' = frame
      /\ store' = store /\ used' = used
  BY DEF HandleEvent
<1>2. BatchDone'
  BY <1>1 DEF BatchDone
<1> DEFINE e == Head(batch)
<1>3. e \in Events /\ \A m \in Messages :
        /\ Taken(m) <=> e \in Carriers(m) \/ Taken(m)'
        /\ ~(e \in Carriers(m) /\ Taken(m)')
        /\ OnceIn(batch', Carriers(m))
  BY <1>1, BatchMoves
<1>4. \A m \in Messages : e \in Carriers(m) <=> e.kind \in {"drained", "handback"} /\ e.msg = m
  BY <1>3, Carried
<1>5. CASE HandleTerminal
  <2>1. e.kind \notin {"drained", "handback"} /\ DrainNextQueued
    BY <1>5 DEF HandleTerminal
  <2>2. \A m \in Messages : (Taken(m)' <=> Taken(m)) /\ OnceIn(batch', Carriers(m))
    BY <1>3, <1>4, <2>1
  <2> HIDE DEF e
  <2> QED BY <1>1, <1>2, <2>1, <2>2, DrainNextMoves DEF Keeping
<1>6. CASE HandleCancelled
  <2>1. e.kind \notin {"drained", "handback"}
        /\ UNCHANGED <<queued, events, channel, store, phase, used>>
    BY <1>1, <1>6 DEF HandleCancelled, runVars
  <2>2. \A m \in Messages : (Taken(m)' <=> Taken(m)) /\ OnceIn(batch', Carriers(m))
    BY <1>3, <1>4, <2>1
  <2> HIDE DEF e
  <2>3. Recorded'
    BY <2>1 DEF Keeping, Recorded, Stored
  <2>4. ASSUME NEW m \in Messages PROVE Conserved(m)'
    <3>1. /\ Waits(m)' <=> Waits(m)
          /\ Sent(m)' <=> Sent(m)
          /\ Injected(m)' <=> Injected(m)
          /\ Stored(m)' <=> Stored(m)
          /\ Started(m)' <=> Started(m)
      BY <2>1 DEF Waits, Sent, Injected, Stored, Started, Carriers
    <3>2. OnceEach(m)'
      BY <2>1, <2>2 DEF Keeping, Conserved, OnceEach, Carriers
    <3> QED BY <2>1, <2>2, <3>1, <3>2 DEF Keeping, Conserved, Apart, Known
  <2> QED BY <1>2, <2>3, <2>4 DEF Keeping
<1>7. CASE HandleMessage
  <2>1. e.kind \in {"drained", "handback"} /\ QueueOrStart(e.msg)
    BY <1>7 DEF HandleMessage
  <2>2. PICK x \in Messages : x = e.msg
    BY <1>3, <2>1 DEF Events, TerminalEvents, MessageEvents
  <2> HIDE DEF e
  <2>3. /\ Taken(x) /\ ~Taken(x)'
        /\ \A m \in Messages : OnceIn(batch', Carriers(m))
        /\ \A m \in Messages : m # x => (Taken(m)' <=> Taken(m))
    <3>1. \A m \in Messages : e \in Carriers(m) <=> m = x
      BY <1>4, <2>1, <2>2
    <3> QED BY <1>3, <3>1
  <2>4. /\ ~Waits(x) /\ ~Sent(x) /\ ~Injected(x) /\ ~Stored(x) /\ ~Started(x) /\ x \in used
    BY <2>2, <2>3 DEF Keeping, Conserved, Apart, Known
  <2>5. used' = used \cup {x}
    BY <1>1, <2>4
  <2>6. CASE gen
    <3>1. queued' = Append(queued, x) /\ UNCHANGED <<events, channel, store, phase>>
      BY <1>1, <2>1, <2>2, <2>6 DEF QueueOrStart, runVars
    <3>2. Recorded' /\ \A m \in Messages : Conserved(m)'
      BY <2>3, <2>4, <2>5, <3>1, QueueMoves
    <3> QED BY <1>2, <3>2 DEF Keeping
  <2>7. CASE ~gen
    <3>1. queued' = queued /\ StartPipeline(x)
      BY <2>1, <2>2, <2>7 DEF QueueOrStart
    <3>2. Recorded' /\ \A m \in Messages : Conserved(m)'
      BY <1>1, <2>3, <2>4, <2>5, <3>1, StartFresh
    <3> QED BY <1>2, <3>2 DEF Keeping
  <2> QED BY <2>6, <2>7
<1> QED BY <1>5, <1>6, <1>7 DEF HandleEvent

\* A message that has not entered is nowhere.
LEMMA FreshNowhere ==
  ASSUME Keeping, NEW m \in Messages, Fresh(m)
  PROVE  ~Waits(m) /\ ~Taken(m) /\ ~Sent(m) /\ ~Injected(m) /\ ~Stored(m) /\ ~Started(m)
BY DEF Keeping, Conserved, Known, Fresh

LEMMA BatchStays ==
  ASSUME Keeping, batch' = batch, NEW m \in Messages
  PROVE  (Taken(m)' <=> Taken(m)) /\ OnceIn(batch', Carriers(m))
BY DEF Taken, Carriers, Keeping, Conserved, OnceEach

LEMMA UserKept == ASSUME TypeOK, Owned, Keeping, UserStep PROVE Keeping'
<1>1. CASE Stop
  <2>1. frame' = "poll" /\ frame = "input" /\ Cancel
        /\ UNCHANGED <<queued, batch, phase, store, used>>
    BY <1>1 DEF Stop
  <2>2. BatchDone'
    BY <2>1 DEF Keeping, BatchDone
  <2>3. Recorded'
    BY <2>1 DEF Keeping, Recorded, Stored
  <2>4. ASSUME NEW m \in Messages PROVE Conserved(m)'
    <3>1. /\ Sent(m)' <=> Sent(m) \/ Injected(m)
          /\ ~Injected(m)'
          /\ OnceIn(events', Carriers(m))
          /\ \A r \in Messages : OnceIn(channel'[r], {m})
      BY <2>1, CancelMoves
    <3>2. /\ Waits(m)' <=> Waits(m)
          /\ Taken(m)' <=> Taken(m)
          /\ Stored(m)' <=> Stored(m)
          /\ Started(m)' <=> Started(m)
      BY <2>1 DEF Waits, Taken, Stored, Started, Carriers
    <3>3. OnceEach(m)'
      BY <2>1, <3>1 DEF Keeping, Conserved, OnceEach, Carriers
    <3>4. Conserved(m)
      BY DEF Keeping
    <3>5. Apart(m)' /\ (Known(m)' <=> Known(m))
      BY <3>1, <3>2, <3>4 DEF Conserved, Apart, Known
    <3> QED BY <2>1, <3>3, <3>4, <3>5 DEF Conserved
  <2> QED BY <2>2, <2>3, <2>4 DEF Keeping
<1>2. ASSUME NEW m \in Messages, SendIdle(m) \/ HostInject(m) PROVE Keeping'
  <2>1. /\ StartPipeline(m) /\ Fresh(m) /\ used' = used \cup {m} /\ frame # "handle"
        /\ UNCHANGED <<queued, batch, store>>
    BY <1>2 DEF SendIdle, HostInject
  <2>2. BatchDone'
    BY <2>1 DEF Keeping, BatchDone
  <2> QED BY <2>1, <2>2, FreshNowhere, BatchStays, StartFresh DEF Keeping
<1>3. ASSUME NEW m \in Messages, SendBusy(m) PROVE Keeping'
  <2>1. /\ Fresh(m) /\ used' = used \cup {m} /\ frame # "handle"
        /\ UNCHANGED <<batch, events, store, phase>>
    BY <1>3 DEF SendBusy, runVars
  <2>2. BatchDone'
    BY <2>1 DEF Keeping, BatchDone
  <2>3. CASE handle = NoRun
    <3>1. queued' = Append(queued, m) /\ channel' = channel
      BY <1>3, <2>3 DEF SendBusy
    <3> QED BY <2>1, <2>2, <3>1, FreshNowhere, BatchStays, QueueMoves DEF Keeping
  <2>4. CASE handle # NoRun
    <3>1. /\ queued' = queued /\ handle \in Messages
          /\ channel' = [channel EXCEPT ![handle] = Append(channel[handle], m)]
      BY <1>3, <2>4 DEF SendBusy, TypeOK, Types
    <3>2. /\ channel'[handle] = Append(channel[handle], m)
          /\ \A r \in Messages : r # handle => channel'[r] = channel[r]
          /\ channel[handle] \in Seq(Messages)
      BY <3>1 DEF TypeOK, Types
    <3>3. Recorded'
      BY <2>1 DEF Keeping, Recorded, Stored
    <3>4. ASSUME NEW x \in Messages PROVE Conserved(x)'
      <4>1. Conserved(x)
        BY DEF Keeping
      <4>2. /\ Waits(x)' <=> Waits(x)
            /\ Taken(x)' <=> Taken(x)
            /\ Sent(x)' <=> Sent(x)
            /\ Stored(x)' <=> Stored(x)
            /\ Started(x)' <=> Started(x)
        BY <2>1, <3>1 DEF Waits, Taken, Sent, Stored, Started, Carriers
      <4>3. Occurs(channel'[handle], {x}) <=> Occurs(channel[handle], {x}) \/ x = m
        BY <3>2, AppendOccurs
      <4>4. Injected(x)' <=> Injected(x) \/ x = m
        <5>1. Injected(x)' <=> \E r \in Messages : Occurs(channel'[r], {x})
          BY DEF Injected
        <5> QED BY <3>1, <3>2, <4>3, <5>1 DEF Injected
      <4>5. OnceIn(channel[handle], {x}) /\ (x = m => ~Occurs(channel[handle], {x}))
        BY <2>1, <3>1, <4>1, FreshNowhere DEF Conserved, OnceEach, Injected
      <4>6. OnceIn(channel'[handle], {x})
        BY <3>2, <4>5, AppendOccurs
      <4>7. OnceEach(x)'
        BY <2>1, <3>1, <3>2, <4>1, <4>6 DEF Conserved, OnceEach, Carriers
      <4>8. CASE x = m
        BY <2>1, <4>2, <4>4, <4>7, <4>8, FreshNowhere DEF Conserved, Apart, Known
      <4>9. CASE x # m
        <5>1. Apart(x)' /\ (Known(x)' <=> Known(x))
          BY <4>1, <4>2, <4>4, <4>9 DEF Conserved, Apart, Known
        <5> QED BY <2>1, <4>1, <4>7, <4>9, <5>1 DEF Conserved
      <4> QED BY <4>8, <4>9
    <3> QED BY <2>2, <3>3, <3>4 DEF Keeping
  <2> QED BY <2>3, <2>4
<1>4. ASSUME NEW m \in Messages, HandBackArrives(m) PROVE Keeping'
  <2>1. /\ Fresh(m) /\ used' = used \cup {m} /\ frame' = frame
        /\ events' = Append(events, HandBack(m)) /\ events \in Seq(Events)
        /\ UNCHANGED <<queued, batch, channel, store, phase>>
    BY <1>4 DEF HandBackArrives, runVars, TypeOK, Types
  <2>2. BatchDone'
    BY <2>1 DEF Keeping, BatchDone
  <2>3. Recorded'
    BY <2>1 DEF Keeping, Recorded, Stored
  <2>4. ASSUME NEW x \in Messages PROVE Conserved(x)'
    <3>1. Conserved(x)
      BY DEF Keeping
    <3>2. HandBack(m) \in Events /\ (HandBack(m) \in Carriers(x) <=> m = x)
      BY EventTypes, Carried
    <3>3. /\ Waits(x)' <=> Waits(x)
          /\ Taken(x)' <=> Taken(x)
          /\ Injected(x)' <=> Injected(x)
          /\ Stored(x)' <=> Stored(x)
          /\ Started(x)' <=> Started(x)
      BY <2>1 DEF Waits, Taken, Injected, Stored, Started, Carriers
    <3>4. Sent(x)' <=> Occurs(Append(events, HandBack(m)), Carriers(x))
      BY <2>1 DEF Sent, Carriers
    <3>5. Sent(x)' <=> Sent(x) \/ x = m
      BY <2>1, <3>2, <3>4, AppendOccurs DEF Sent
    <3>6. OnceIn(events', Carriers(x))
      BY <2>1, <3>1, <3>2, AppendOccurs, FreshNowhere DEF Conserved, OnceEach, Sent
    <3>7. OnceEach(x)'
      BY <2>1, <3>1, <3>6 DEF Conserved, OnceEach, Carriers
    <3>8. CASE x = m
      BY <2>1, <3>3, <3>5, <3>7, <3>8, FreshNowhere DEF Conserved, Apart, Known
    <3>9. CASE x # m
      <4>1. Apart(x)' /\ (Known(x)' <=> Known(x))
        BY <3>1, <3>3, <3>5, <3>9 DEF Conserved, Apart, Known
      <4> QED BY <2>1, <3>1, <3>7, <3>9, <4>1 DEF Conserved
    <3> QED BY <3>8, <3>9
  <2> QED BY <2>2, <2>3, <2>4 DEF Keeping
<1> QED BY <1>1, <1>2, <1>3, <1>4 DEF UserStep

\* A run goes on, or ends, without touching a message: it says no more than how it
\* ended.
LEMMA QuietRun ==
  ASSUME TypeOK, Keeping, NEW r \in Messages, NEW p \in Phases \ {"none", "spawned"},
         phase' = [phase EXCEPT ![r] = p],
         phase[r] \notin {"none", "spawned", "done"} \/ (phase[r] = "spawned" /\ p = "done"),
         UNCHANGED <<queued, frame, batch, channel, store, used>>,
         NEW k, k \notin {"drained", "handback"}, Terminal(k, r) \in Events \/ events' = events,
         events' = events \/ events' = Append(events, Terminal(k, r))
  PROVE  Keeping'
<1>1. phase'[r] = p /\ \A q \in Messages : q # r => phase'[q] = phase[q]
  BY DEF TypeOK, Types
<1>2. \A m \in Messages : Stored(m)' <=> Stored(m)
  BY DEF Stored
<1>3. Recorded'
  <2> SUFFICES ASSUME NEW q \in Messages
               PROVE  /\ phase'[q] = "spawned" => ~Stored(q)'
                      /\ phase'[q] \notin {"none", "spawned", "done"} => Stored(q)'
    BY DEF Recorded
  <2>1. CASE q = r
    BY <1>1, <1>2, <2>1 DEF Keeping, Recorded
  <2>2. CASE q # r
    BY <1>1, <1>2, <2>2 DEF Keeping, Recorded
  <2> QED BY <2>1, <2>2
<1>4. ASSUME NEW m \in Messages PROVE Conserved(m)'
  <2>1. Conserved(m)
    BY DEF Keeping
  <2>2. Started(m)' <=> Started(m)
    <3>1. Started(m)' <=> phase'[m] # "none" /\ ~Stored(m)
      BY <1>2 DEF Started
    <3>2. phase[r] # "none"
      OBVIOUS
    <3>3. phase'[m] # "none" <=> phase[m] # "none"
      BY <1>1, <3>2
    <3> QED BY <3>1, <3>3 DEF Started
  <2>3. (Sent(m)' <=> Sent(m)) /\ OnceIn(events', Carriers(m))
    <3>1. CASE events' = events
      BY <2>1, <3>1 DEF Sent, Carriers, Conserved, OnceEach
    <3>2. CASE events' # events
      <4>1. /\ events \in Seq(Events) /\ Terminal(k, r) \in Events
            /\ events' = Append(events, Terminal(k, r))
        BY <3>2 DEF TypeOK, Types
      <4>2. Terminal(k, r) \notin Carriers(m) /\ OnceIn(events, Carriers(m))
        BY <2>1, Carried DEF Conserved, OnceEach
      <4>3. Sent(m)' <=> Occurs(Append(events, Terminal(k, r)), Carriers(m))
        BY <4>1 DEF Sent, Carriers
      <4> QED BY <4>1, <4>2, <4>3, AppendOccurs DEF Sent
    <3> QED BY <3>1, <3>2
  <2>4. /\ Waits(m)' <=> Waits(m)
        /\ Taken(m)' <=> Taken(m)
        /\ Injected(m)' <=> Injected(m)
    BY DEF Waits, Taken, Injected, Carriers
  <2>5. OnceEach(m)'
    BY <2>1, <2>3 DEF Conserved, OnceEach, Carriers
  <2> QED BY <1>2, <2>1, <2>2, <2>3, <2>4, <2>5 DEF Conserved, Apart, Known
<1> QED BY <1>3, <1>4 DEF Keeping, BatchDone

\* The first poll of a run records its message.
LEMMA BeginKept == ASSUME TypeOK, Keeping, NEW r \in Messages, Begin(r) PROVE Keeping'
<1>1. /\ phase[r] = "spawned" /\ phase' = [phase EXCEPT ![r] = "round"]
      /\ store' = Append(store, r) /\ store \in Seq(Messages)
      /\ UNCHANGED <<queued, frame, batch, events, channel, used>>
  BY DEF Begin, uiVars, TypeOK, Types
<1>2. phase'[r] = "round" /\ \A q \in Messages : q # r => phase'[q] = phase[q]
  BY <1>1 DEF TypeOK, Types
<1>3. ~Stored(r)
  BY <1>1 DEF Keeping, Recorded
<1>4. \A m \in Messages : Stored(m)' <=> Stored(m) \/ m = r
  <2> TAKE m \in Messages
  <2>1. Stored(m)' <=> Occurs(Append(store, r), {m})
    BY <1>1 DEF Stored
  <2>2. r \in {m} <=> m = r
    OBVIOUS
  <2> QED BY <1>1, <2>1, <2>2, AppendOccurs DEF Stored
<1>5. Recorded'
  <2> SUFFICES ASSUME NEW q \in Messages
               PROVE  /\ phase'[q] = "spawned" => ~Stored(q)'
                      /\ phase'[q] \notin {"none", "spawned", "done"} => Stored(q)'
    BY DEF Recorded
  <2>1. CASE q = r
    BY <1>2, <1>4, <2>1
  <2>2. CASE q # r
    BY <1>2, <1>4, <2>2 DEF Keeping, Recorded
  <2> QED BY <2>1, <2>2
<1>6. ASSUME NEW m \in Messages PROVE Conserved(m)'
  <2>1. Conserved(m)
    BY DEF Keeping
  <2>2. /\ Waits(m)' <=> Waits(m)
        /\ Taken(m)' <=> Taken(m)
        /\ Sent(m)' <=> Sent(m)
        /\ Injected(m)' <=> Injected(m)
    BY <1>1 DEF Waits, Taken, Sent, Injected, Carriers
  <2>3. Started(m)' <=> Started(m) /\ m # r
    <3>1. Started(m)' <=> phase'[m] # "none" /\ ~Stored(m)'
      BY DEF Started
    <3> QED BY <1>2, <1>4, <3>1 DEF Started
  <2>4. Started(r)
    BY <1>1, <1>3 DEF Started
  <2>5. OnceIn(store', {m})
    <3>1. OnceIn(store, {m}) /\ ~(Occurs(store, {m}) /\ r \in {m})
      BY <1>3, <2>1 DEF Conserved, OnceEach, Stored
    <3> QED BY <1>1, <3>1, AppendOccurs
  <2>6. OnceEach(m)'
    BY <1>1, <2>1, <2>5 DEF Conserved, OnceEach, Carriers
  <2>7. CASE m = r
    BY <1>1, <1>4, <2>1, <2>2, <2>3, <2>4, <2>6, <2>7 DEF Conserved, Apart, Known
  <2>8. CASE m # r
    BY <1>1, <1>4, <2>1, <2>2, <2>3, <2>6, <2>8 DEF Conserved, Apart, Known
  <2> QED BY <2>7, <2>8
<1> QED BY <1>1, <1>5, <1>6 DEF Keeping, BatchDone

\* At its loop top a run records what was injected.
LEMMA LoopTopKept ==
  ASSUME TypeOK, Owned, Keeping, NEW r \in Messages, Round(r) \/ ControlEnds(r)
  PROVE  Keeping'
<1>1. /\ phase[r] = "round" /\ \E p \in {"llm", "drain"} : phase' = [phase EXCEPT ![r] = p]
      /\ store' = store \o channel[r] /\ channel' = [channel EXCEPT ![r] = <<>>]
      /\ UNCHANGED <<queued, frame, batch, used>>
      /\ events' = events \/ events' = Append(events, Terminal("complete", r))
  BY DEF Round, ControlEnds, uiVars
<1>2. phase'[r] \in {"llm", "drain"} /\ \A q \in Messages : q # r => phase'[q] = phase[q]
  BY <1>1 DEF TypeOK, Types
<1>3. /\ store \in Seq(Messages) /\ channel[r] \in Seq(Messages)
      /\ channel'[r] = <<>> /\ \A q \in Messages : q # r => channel'[q] = channel[q]
  BY <1>1 DEF TypeOK, Types
<1>4. Stored(r)
  BY <1>1 DEF Keeping, Recorded
<1>5. \A q \in Messages : channel[r] # <<>> /\ q # r => channel[q] = <<>>
  BY DEF Owned, OnlyOwnedChannel
<1> DEFINE Had(m) == Occurs(channel[r], {m})
<1>6. ASSUME NEW m \in Messages
      PROVE  /\ Injected(m)' <=> Injected(m) /\ ~Had(m)
             /\ Had(m) => Injected(m)
  <2>1. Had(m) => channel[r] # <<>>
    BY NothingOccurs
  <2>2. Injected(m)' <=> \E q \in Messages : Occurs(channel'[q], {m})
    BY DEF Injected
  <2>3. ~Occurs(channel'[r], {m})
    BY <1>3, NothingOccurs
  <2>4. Injected(m)' <=> \E q \in Messages \ {r} : Occurs(channel[q], {m})
    BY <1>3, <2>2, <2>3
  <2>5. Injected(m) <=> Had(m) \/ \E q \in Messages \ {r} : Occurs(channel[q], {m})
    BY DEF Injected
  <2>6. Had(m) => \A q \in Messages \ {r} : ~Occurs(channel[q], {m})
    BY <1>5, <2>1, NothingOccurs
  <2> QED BY <2>4, <2>5, <2>6
<1>7. ASSUME NEW m \in Messages PROVE Stored(m)' <=> Stored(m) \/ Had(m)
  <2>1. Stored(m)' <=> Occurs(store \o channel[r], {m})
    BY <1>1 DEF Stored
  <2> QED BY <1>3, <2>1, ConcatOccurs DEF Stored
<1>8. \A m \in Messages : Had(m) => ~Stored(m) /\ ~Started(m)
  BY <1>6 DEF Keeping, Conserved, Apart
<1>9. ASSUME NEW m \in Messages PROVE OnceIn(store', {m})
  <2>1. OnceIn(store, {m}) /\ OnceIn(channel[r], {m})
    BY DEF Keeping, Conserved, OnceEach
  <2> QED BY <1>1, <1>3, <1>8, <2>1, ConcatOccurs DEF Stored
<1>10. \A m \in Messages : phase'[m] # "none" <=> phase[m] # "none"
  BY <1>1, <1>2
<1> HIDE DEF Had
<1>11. Recorded'
  <2> SUFFICES ASSUME NEW q \in Messages
               PROVE  /\ phase'[q] = "spawned" => ~Stored(q)'
                      /\ phase'[q] \notin {"none", "spawned", "done"} => Stored(q)'
    BY DEF Recorded
  <2>1. CASE q = r
    BY <1>2, <1>4, <1>7, <2>1
  <2>2. CASE q # r
    <3>1. phase[q] = "spawned" => Started(q)
      BY DEF Keeping, Recorded, Started
    <3> QED BY <1>2, <1>7, <1>8, <2>2, <3>1 DEF Keeping, Recorded
  <2> QED BY <2>1, <2>2
<1>12. ASSUME NEW m \in Messages PROVE Conserved(m)'
  <2>1. Conserved(m)
    BY DEF Keeping
  <2>2. (Waits(m)' <=> Waits(m)) /\ (Taken(m)' <=> Taken(m))
    BY <1>1 DEF Waits, Taken, Carriers
  <2>3. (Sent(m)' <=> Sent(m)) /\ OnceIn(events', Carriers(m))
    <3>1. CASE events' = events
      BY <2>1, <3>1 DEF Sent, Carriers, Conserved, OnceEach
    <3>2. CASE events' = Append(events, Terminal("complete", r))
      <4>1. events \in Seq(Events) /\ Terminal("complete", r) \in Events
        BY EventTypes DEF TypeOK, Types
      <4>2. Terminal("complete", r) \notin Carriers(m) /\ OnceIn(events, Carriers(m))
        BY <2>1, Carried DEF Conserved, OnceEach
      <4>3. Sent(m)' <=> Occurs(Append(events, Terminal("complete", r)), Carriers(m))
        BY <3>2 DEF Sent, Carriers
      <4> QED BY <3>2, <4>1, <4>2, <4>3, AppendOccurs DEF Sent
    <3> QED BY <1>1, <3>1, <3>2
  <2>4. Started(m)' <=> Started(m)
    <3>1. Started(m)' <=> phase[m] # "none" /\ ~Stored(m)'
      BY <1>10 DEF Started
    <3> QED BY <1>7, <1>8, <3>1 DEF Started
  <2>5. \A q \in Messages : OnceIn(channel'[q], {m})
    <3> TAKE q \in Messages
    <3>1. channel'[q] = <<>> \/ channel'[q] = channel[q]
      BY <1>3
    <3> QED BY <2>1, <3>1, NothingOccurs DEF Conserved, OnceEach
  <2>6. OnceEach(m)'
    BY <1>1, <1>9, <2>1, <2>3, <2>5 DEF Conserved, OnceEach, Carriers
  <2>7. Apart(m)' /\ (Known(m)' <=> Known(m))
    BY <1>6, <1>7, <2>1, <2>2, <2>3, <2>4 DEF Conserved, Apart, Known
  <2> QED BY <1>1, <2>1, <2>6, <2>7 DEF Conserved
<1> QED BY <1>1, <1>11, <1>12 DEF Keeping, BatchDone

\* What is left in its channel the engine hands back, one by one.
LEMMA DrainOneKept ==
  ASSUME TypeOK, Owned, Keeping, NEW r \in Messages, DrainOne(r)
  PROVE  Keeping'
<1>1. /\ channel[r] # <<>> /\ channel' = [channel EXCEPT ![r] = Tail(channel[r])]
      /\ events' = Append(events, Drained(Head(channel[r])))
      /\ UNCHANGED <<queued, frame, batch, store, phase, used>>
  BY DEF DrainOne, runVars, uiVars
<1>2. PICK h \in Messages : h = Head(channel[r])
  BY <1>1 DEF TypeOK, Types
<1>3. /\ channel[r] \in Seq(Messages) /\ events \in Seq(Events)
      /\ channel'[r] = Tail(channel[r])
      /\ \A q \in Messages : q # r => channel'[q] = channel[q] /\ channel[q] = <<>>
  BY <1>1 DEF TypeOK, Types, Owned, OnlyOwnedChannel
<1>4. Recorded'
  BY <1>1 DEF Keeping, Recorded, Stored
<1>5. ASSUME NEW m \in Messages PROVE Conserved(m)'
  <2>1. Conserved(m)
    BY DEF Keeping
  <2>2. /\ Waits(m)' <=> Waits(m)
        /\ Taken(m)' <=> Taken(m)
        /\ Stored(m)' <=> Stored(m)
        /\ Started(m)' <=> Started(m)
    BY <1>1 DEF Waits, Taken, Stored, Started, Carriers
  <2>3. OnceIn(channel[r], {m})
    BY <2>1 DEF Conserved, OnceEach
  <2>4. /\ Occurs(channel[r], {m}) <=> m = h \/ Occurs(channel'[r], {m})
        /\ ~(m = h /\ Occurs(channel'[r], {m})) /\ OnceIn(channel'[r], {m})
    <3>1. h \in {m} <=> m = h
      OBVIOUS
    <3> QED BY <1>1, <1>2, <1>3, <2>3, <3>1, TailOccurs
  <2>5. Injected(m) <=> Occurs(channel[r], {m})
    BY <1>3, NothingOccurs DEF Injected
  <2>6. Injected(m)' <=> Occurs(channel'[r], {m})
    <3>1. Injected(m)' <=> \E q \in Messages : Occurs(channel'[q], {m})
      BY DEF Injected
    <3>2. \A q \in Messages : q # r => ~Occurs(channel'[q], {m})
      BY <1>3, NothingOccurs
    <3> QED BY <3>1, <3>2
  <2>7. Drained(h) \in Events /\ (Drained(h) \in Carriers(m) <=> m = h)
    BY EventTypes, Carried
  <2>8. Sent(m)' <=> Sent(m) \/ m = h
    <3>1. Sent(m)' <=> Occurs(Append(events, Drained(h)), Carriers(m))
      BY <1>1, <1>2 DEF Sent, Carriers
    <3> QED BY <1>3, <2>7, <3>1, AppendOccurs DEF Sent
  <2>9. OnceIn(events', Carriers(m))
    <3>1. OnceIn(events, Carriers(m)) /\ ~(Occurs(events, Carriers(m)) /\ m = h)
      BY <2>1, <2>4, <2>5 DEF Conserved, OnceEach, Apart, Sent
    <3> QED BY <1>1, <1>2, <1>3, <2>7, <3>1, AppendOccurs
  <2>10. \A q \in Messages : OnceIn(channel'[q], {m})
    <3> TAKE q \in Messages
    <3>1. CASE q = r
      BY <2>4, <3>1
    <3>2. CASE q # r
      BY <1>3, <3>2, NothingOccurs
    <3> QED BY <3>1, <3>2
  <2>11. OnceEach(m)'
    BY <1>1, <2>1, <2>9, <2>10 DEF Conserved, OnceEach, Carriers
  <2>12. Apart(m)' /\ (Known(m)' <=> Known(m))
    BY <2>1, <2>2, <2>4, <2>5, <2>6, <2>8 DEF Conserved, Apart, Known
  <2> QED BY <1>1, <2>1, <2>11, <2>12 DEF Conserved
<1> QED BY <1>1, <1>4, <1>5 DEF Keeping, BatchDone

LEMMA RunKept == ASSUME TypeOK, Owned, Keeping, NEW r \in Messages, RunStep(r) PROVE Keeping'
<1>1. CASE Refuse(r) \/ CancelSeen(r) \/ ToolRound(r) \/ Answer(r) \/ Nudge(r) \/ Complete(r)
           \/ Fail(r) \/ DrainEnd(r) \/ Dropped(r) \/ Panic(r)
  <2>1. /\ \E p \in Phases \ {"none", "spawned"} :
             /\ phase' = [phase EXCEPT ![r] = p]
             /\ phase[r] \notin {"none", "spawned", "done"} \/ (phase[r] = "spawned" /\ p = "done")
        /\ UNCHANGED <<queued, frame, batch, channel, store, used>>
        /\ \E k \in {"cancelled", "complete"} :
             events' = events \/ events' = Append(events, Terminal(k, r))
    BY <1>1 DEF Refuse, CancelSeen, ToolRound, Answer, Nudge, Complete, Fail, DrainEnd,
                Dropped, Panic, Phases, uiVars
  <2>2. PICK k \in {"cancelled", "complete"} :
           events' = events \/ events' = Append(events, Terminal(k, r))
    BY <2>1
  <2>3. Terminal(k, r) \in Events
    BY EventTypes
  <2> QED BY <2>1, <2>2, <2>3, QuietRun
<1>2. CASE Finish(r)
  <2>1. /\ phase' = [phase EXCEPT ![r] = "done"] /\ phase[r] = "post"
        /\ UNCHANGED <<queued, frame, batch, channel, store, used>>
        /\ events' = IF result[r] = "ok" THEN events ELSE Append(events, Terminal(result[r], r))
    BY <1>2 DEF Finish, uiVars
  <2>2. PICK k \in Results : k = result[r]
    BY DEF TypeOK, Types
  <2>3. k # "none"
    BY <2>1, <2>2 DEF TypeOK, ResultKnown
  <2>4. k \notin {"drained", "handback"} /\ (Terminal(k, r) \in Events \/ events' = events)
    BY <2>1, <2>2, <2>3, EventTypes DEF Results
  <2> QED BY <2>1, <2>2, <2>4, QuietRun DEF Phases
<1> QED BY <1>1, <1>2, BeginKept, LoopTopKept, DrainOneKept DEF RunStep

LEMMA KeepingStep == ASSUME TypeOK, Owned, Keeping, [Next]_vars PROVE Keeping'
<1>1. CASE EndEvents \/ EndHost \/ SweepNothing \/ EndFrame
  <2>1. /\ UNCHANGED <<queued, batch, events, channel, store, phase, used>>
        /\ batch = <<>>
    BY <1>1 DEF EndEvents, EndHost, SweepNothing, EndFrame, runVars, Keeping, BatchDone
  <2> QED BY <2>1, SameKept DEF BatchDone
<1>2. CASE SweepStuck
  <2>1. /\ DrainNextQueued /\ UNCHANGED <<batch, store, used>> /\ batch = <<>>
    BY <1>2 DEF SweepStuck, Keeping, BatchDone
  <2> QED BY <2>1, BatchStays, DrainNextMoves DEF Keeping, BatchDone
<1>3. CASE UNCHANGED vars
  <2>1. UNCHANGED <<queued, frame, batch, events, channel, store, phase, used>>
    BY <1>3 DEF vars
  <2> QED BY <2>1, SameKept DEF Keeping, BatchDone
<1> QED BY <1>1, <1>2, <1>3, TakeBatchKept, HandleKept, UserKept, RunKept
        DEF Next, FrameStep

LEMMA KeepingInit == Init => Keeping
<1> SUFFICES ASSUME Init PROVE Keeping
  OBVIOUS
<1>1. /\ queued = <<>> /\ batch = <<>> /\ events = <<>> /\ store = <<>> /\ used = {}
      /\ \A r \in Messages : channel[r] = <<>> /\ phase[r] = "none"
  BY DEF Init
<1>2. ASSUME NEW m \in Messages PROVE Conserved(m)
  <2>1. ~Waits(m) /\ ~Taken(m) /\ ~Sent(m) /\ ~Injected(m) /\ ~Stored(m) /\ ~Started(m)
    BY <1>1, NothingOccurs DEF Waits, Taken, Sent, Injected, Stored, Started
  <2>2. OnceEach(m)
    BY <1>1, NothingOccurs DEF OnceEach
  <2> QED BY <1>1, <2>1, <2>2 DEF Conserved, Apart, Known
<1> QED BY <1>1, <1>2 DEF Keeping, BatchDone, Recorded

LEMMA KeepingAlways == Spec => [](TypeOK /\ Owned /\ Keeping)
BY KeepingInit, KeepingStep, OwnedAlways, PTL DEF Spec

\* The places of a message, one kind after the other.
LEMMA PlacesAre ==
  ASSUME NEW m \in Messages, NEW x
  PROVE  x \in PlacesOf(m) <=>
           \/ \E i \in DOMAIN queued : x = <<"queued", i>> /\ queued[i] = m
           \/ \E i \in DOMAIN batch : x = <<"batch", i>> /\ batch[i] \in Carriers(m)
           \/ \E i \in DOMAIN events : x = <<"events", i>> /\ events[i] \in Carriers(m)
           \/ \E r \in Messages : \E i \in DOMAIN channel[r] : x = <<r, i>> /\ channel[r][i] = m
           \/ \E i \in DOMAIN store : x = <<"store", i>> /\ store[i] = m
           \/ x = <<"started", 0>> /\ Started(m)
<1> DEFINE Q == {<<"queued", i>> : i \in {j \in DOMAIN queued : queued[j] = m}}
           B == {<<"batch", i>> : i \in {j \in DOMAIN batch :
                   batch[j] \in MessageEvents /\ batch[j].msg = m}}
           E == {<<"events", i>> : i \in {j \in DOMAIN events :
                   events[j] \in MessageEvents /\ events[j].msg = m}}
           C == UNION {{<<r, i>> : i \in {j \in DOMAIN channel[r] : channel[r][j] = m}} :
                   r \in Messages}
           S == {<<"store", i>> : i \in {j \in DOMAIN store : store[j] = m}}
           T == {<<"started", 0>> : y \in {z \in {m} : phase[m] # "none" /\ m \notin Range(store)}}
<1>1. x \in PlacesOf(m) <=> x \in Q \/ x \in B \/ x \in E \/ x \in C \/ x \in S \/ x \in T
  <2>1. PlacesOf(m) = Q \cup B \cup E \cup C \cup S \cup T
    BY DEF PlacesOf
  <2> HIDE DEF Q, B, E, C, S, T
  <2> QED BY <2>1
<1>2. x \in Q <=> \E i \in DOMAIN queued : x = <<"queued", i>> /\ queued[i] = m
  OBVIOUS
<1>3. x \in B <=> \E i \in DOMAIN batch : x = <<"batch", i>> /\ batch[i] \in Carriers(m)
  BY DEF Carriers
<1>4. x \in E <=> \E i \in DOMAIN events : x = <<"events", i>> /\ events[i] \in Carriers(m)
  BY DEF Carriers
<1>5. x \in C <=> \E r \in Messages : \E i \in DOMAIN channel[r] : x = <<r, i>> /\ channel[r][i] = m
  OBVIOUS
<1>6. x \in S <=> \E i \in DOMAIN store : x = <<"store", i>> /\ store[i] = m
  OBVIOUS
<1>7. x \in T <=> x = <<"started", 0>> /\ Started(m)
  <2>1. m \notin Range(store) <=> ~Stored(m)
    BY DEF Range, Stored, Occurs
  <2> QED BY <2>1 DEF Started
<1> HIDE DEF Q, B, E, C, S, T
<1> QED BY <1>1, <1>2, <1>3, <1>4, <1>5, <1>6, <1>7

\* Two places of a message are one: they are of one kind, and in that kind it is once.
LEMMA OnePlace ==
  ASSUME TypeOK, Owned, Keeping, NEW m \in Messages, NEW p \in PlacesOf(m), NEW q \in PlacesOf(m)
  PROVE  p = q
<1> DEFINE Pq(i) == i \in DOMAIN queued /\ queued[i] = m
           Pb(i) == i \in DOMAIN batch /\ batch[i] \in Carriers(m)
           Pe(i) == i \in DOMAIN events /\ events[i] \in Carriers(m)
           Ps(i) == i \in DOMAIN store /\ store[i] = m
           Pc(r, i) == r \in Messages /\ i \in DOMAIN channel[r] /\ channel[r][i] = m
<1>1. /\ \A i : Pq(i) => Waits(m)
      /\ \A i : Pb(i) => Taken(m)
      /\ \A i : Pe(i) => Sent(m)
      /\ \A i : Ps(i) => Stored(m)
      /\ \A r, i : Pc(r, i) => Injected(m) /\ r = handle
  <2>1. \A r, i : Pc(r, i) => Injected(m)
    BY DEF Injected, Occurs
  <2>2. \A r, i : Pc(r, i) => r = handle
    <3> SUFFICES ASSUME NEW r, NEW i, Pc(r, i) PROVE r = handle
      OBVIOUS
    <3>1. Occurs(channel[r], {m})
      BY DEF Occurs
    <3> QED BY <3>1, NothingOccurs DEF Owned, OnlyOwnedChannel
  <2> QED BY <2>1, <2>2 DEF Waits, Taken, Sent, Stored, Occurs
<1>2. Apart(m) /\ OnceEach(m)
  BY DEF Keeping, Conserved
<1>3. /\ \A i, j : Pq(i) /\ Pq(j) => i = j
      /\ \A i, j : Pb(i) /\ Pb(j) => i = j
      /\ \A i, j : Pe(i) /\ Pe(j) => i = j
      /\ \A i, j : Ps(i) /\ Ps(j) => i = j
      /\ \A r, i, j : Pc(r, i) /\ Pc(r, j) => i = j
  BY <1>2 DEF OnceEach, OnceIn
<1>4. \A x \in PlacesOf(m) :
        \/ \E i : x = <<"queued", i>> /\ Pq(i)
        \/ \E i : x = <<"batch", i>> /\ Pb(i)
        \/ \E i : x = <<"events", i>> /\ Pe(i)
        \/ \E i : x = <<"store", i>> /\ Ps(i)
        \/ \E r, i : x = <<r, i>> /\ Pc(r, i)
        \/ x = <<"started", 0>> /\ Started(m)
  BY PlacesAre
<1> HIDE DEF Pq, Pb, Pe, Ps, Pc
<1>5. ~(Stored(m) /\ Started(m))
  BY DEF Started
<1>6. CASE Waits(m)
  BY <1>1, <1>2, <1>3, <1>4, <1>6 DEF Apart
<1>7. CASE Taken(m)
  BY <1>1, <1>2, <1>3, <1>4, <1>7 DEF Apart
<1>8. CASE Sent(m)
  BY <1>1, <1>2, <1>3, <1>4, <1>8 DEF Apart
<1>9. CASE Injected(m)
  BY <1>1, <1>2, <1>3, <1>4, <1>9 DEF Apart
<1>10. CASE Stored(m)
  BY <1>1, <1>2, <1>3, <1>4, <1>5, <1>10 DEF Apart
<1>11. CASE Started(m)
  BY <1>1, <1>2, <1>3, <1>4, <1>5, <1>11 DEF Apart
<1> QED BY <1>1, <1>4, <1>6, <1>7, <1>8, <1>9, <1>10, <1>11

\* A message has a place exactly if it is known.
LEMMA SomePlace ==
  ASSUME NEW m \in Messages
  PROVE  PlacesOf(m) # {} <=> Known(m)
<1>1. PlacesOf(m) # {} <=> \E x : x \in PlacesOf(m)
  OBVIOUS
<1>2. (\E x : x \in PlacesOf(m)) <=>
        \/ \E i \in DOMAIN queued : queued[i] = m
        \/ \E i \in DOMAIN batch : batch[i] \in Carriers(m)
        \/ \E i \in DOMAIN events : events[i] \in Carriers(m)
        \/ \E r \in Messages : \E i \in DOMAIN channel[r] : channel[r][i] = m
        \/ \E i \in DOMAIN store : store[i] = m
        \/ Started(m)
  BY PlacesAre
<1> QED BY <1>1, <1>2 DEF Known, Waits, Taken, Sent, Injected, Stored, Occurs

\* A user's message is never lost and never delivered twice, wherever it travels:
\* input box, injection channel, event channel, queue, started run, conversation.
THEOREM NoMessageLost == Spec => []MessageConserved
<1>1. ASSUME TypeOK, Owned, Keeping, NEW m \in Messages
      PROVE  Cardinality(PlacesOf(m)) = IF m \in used THEN 1 ELSE 0
  <2>1. PlacesOf(m) # {} <=> m \in used
    BY <1>1, SomePlace DEF Keeping, Conserved
  <2>2. CASE m \in used
    <3>1. PICK p : p \in PlacesOf(m)
      BY <2>1, <2>2
    <3>2. PlacesOf(m) = {p}
      BY <1>1, <3>1, OnePlace
    <3> QED BY <2>2, <3>2, FS_Singleton
  <2>3. CASE m \notin used
    BY <2>1, <2>3, FS_EmptySet
  <2> QED BY <2>2, <2>3
<1>2. TypeOK /\ Owned /\ Keeping => MessageConserved
  BY <1>1 DEF MessageConserved
<1> QED BY <1>2, KeepingAlways, PTL

-------------------------------------------------------------------------------
(* What starts, and the promise kept. *)

\* A frame and a user start at most one run, of a message that was neither recorded
\* nor started before.
LEMMA WhatStarts ==
  ASSUME TypeOK, Owned, Keeping, FrameStep \/ UserStep
  PROVE  \/ phase' = phase
         \/ \E x \in Messages : /\ phase[x] = "none" /\ ~Stored(x)
                                /\ phase' = [phase EXCEPT ![x] = "spawned"]
<1> DEFINE Goal == \/ phase' = phase
                   \/ \E x \in Messages : /\ phase[x] = "none" /\ ~Stored(x)
                                          /\ phase' = [phase EXCEPT ![x] = "spawned"]
<1>1. ASSUME NEW x \in Messages, StartPipeline(x), ~Stored(x), ~Started(x) PROVE Goal
  BY <1>1 DEF StartPipeline, Started
<1>2. ASSUME phase' = phase PROVE Goal
  BY <1>2
<1> SUFFICES Goal
  OBVIOUS
<1> HIDE DEF Goal
<1>3. ASSUME DrainNextQueued PROVE Goal
  <2>1. CASE queued = <<>>
    BY <1>2, <1>3, <2>1 DEF DrainNextQueued, runVars
  <2>2. CASE queued # <<>>
    <3>1. PICK x \in Messages : x = Head(queued)
      BY <2>2 DEF TypeOK, Types
    <3>2. Waits(x)
      BY <2>2, <3>1, TailOccurs DEF TypeOK, Types, Waits
    <3>3. ~Stored(x) /\ ~Started(x)
      BY <3>2 DEF Keeping, Conserved, Apart
    <3> QED BY <1>1, <1>3, <2>2, <3>1, <3>3 DEF DrainNextQueued
  <2> QED BY <2>1, <2>2
<1>4. CASE HandleEvent
  <2>1. CASE HandleTerminal
    BY <1>3, <2>1 DEF HandleTerminal
  <2>2. CASE HandleCancelled
    BY <1>2, <2>2 DEF HandleCancelled, runVars
  <2>3. CASE HandleMessage
    <3>1. Head(batch).kind \in {"drained", "handback"} /\ QueueOrStart(Head(batch).msg)
      BY <2>3 DEF HandleMessage
    <3>2. batch # <<>> /\ batch \in Seq(Events) /\ Head(batch) \in Events
      BY <1>4 DEF HandleEvent, TypeOK, Types
    <3>3. PICK x \in Messages : x = Head(batch).msg
      BY <3>1, <3>2 DEF Events, TerminalEvents, MessageEvents
    <3>4. Head(batch) \in Carriers(x)
      BY <3>1, <3>2, <3>3, Carried
    <3>5. Taken(x)
      BY <3>2, <3>4, TailOccurs DEF Taken
    <3>6. ~Stored(x) /\ ~Started(x)
      BY <3>5 DEF Keeping, Conserved, Apart
    <3>7. QueueOrStart(x)
      BY <3>1, <3>3
    <3>8. StartPipeline(x) \/ phase' = phase
      BY <3>7 DEF QueueOrStart, runVars
    <3> QED BY <1>1, <1>2, <3>6, <3>8
  <2> QED BY <1>4, <2>1, <2>2, <2>3 DEF HandleEvent
<1>5. CASE TakeBatch \/ EndEvents \/ EndHost \/ SweepNothing \/ EndFrame
  BY <1>2, <1>5 DEF TakeBatch, EndEvents, EndHost, SweepNothing, EndFrame, runVars
<1>6. CASE SweepStuck
  BY <1>3, <1>6 DEF SweepStuck
<1>7. CASE Stop
  BY <1>2, <1>7 DEF Stop
<1>8. ASSUME NEW m \in Messages, SendIdle(m) \/ HostInject(m) PROVE Goal
  BY <1>1, <1>8, FreshNowhere DEF SendIdle, HostInject
<1>9. ASSUME NEW m \in Messages, SendBusy(m) \/ HandBackArrives(m) PROVE Goal
  BY <1>2, <1>9 DEF SendBusy, HandBackArrives, runVars
<1> QED BY <1>4, <1>5, <1>6, <1>7, <1>8, <1>9 DEF FrameStep, UserStep

\* What a run's own step does to its phase.
LEMMA RunPhase ==
  ASSUME NEW r \in Messages, RunStep(r)
  PROVE  \/ phase' = phase
         \/ \E p \in Phases \ {"none", "spawned"} : phase' = [phase EXCEPT ![r] = p]
BY DEF RunStep, Begin, Refuse, Round, ControlEnds, CancelSeen, ToolRound, Answer, Nudge,
       Complete, Fail, DrainOne, DrainEnd, Finish, Dropped, Panic, Phases, runVars

\* A message starts at most one run, however it comes to be started: sent, drained
\* from the queue, handed back after a race with the end of a run.
THEOREM OneRunEach == Spec => StartsOnce
<1>1. ASSUME TypeOK, Owned, Keeping, Next, NEW m \in Messages, phase'[m] = "spawned"
      PROVE  phase[m] \in {"none", "spawned"}
  <2>1. CASE FrameStep \/ UserStep
    <3>1. CASE phase' = phase
      BY <1>1, <3>1
    <3>2. CASE \E x \in Messages : /\ phase[x] = "none" /\ ~Stored(x)
                                   /\ phase' = [phase EXCEPT ![x] = "spawned"]
      BY <1>1, <3>2 DEF TypeOK, Types
    <3> QED BY <1>1, <2>1, <3>1, <3>2, WhatStarts
  <2>2. ASSUME NEW r \in Messages, RunStep(r) PROVE phase[m] \in {"none", "spawned"}
    BY <1>1, <2>2, RunPhase DEF TypeOK, Types
  <2> QED BY <1>1, <2>1, <2>2 DEF Next
<1>2. TypeOK /\ Owned /\ Keeping /\ [Next]_vars
        => [\A m \in Messages : phase'[m] = "spawned" => phase[m] \in {"none", "spawned"}]_vars
  BY <1>1 DEF vars
<1> QED BY <1>2, KeepingAlways, PTL DEF Spec, StartsOnce

\* Messages whose run ended without recording them.
Gone == {m \in Messages : phase[m] = "done" /\ m \notin Range(store)}

LEMMA StoredRange == ASSUME NEW m \in Messages PROVE m \in Range(store) <=> Stored(m)
BY DEF Range, Stored, Occurs

\* A step that records nothing and ends no unrecorded run.
LEMMA GoneStays ==
  ASSUME store' = store,
         \A m \in Messages : ~Stored(m) => (phase'[m] = "done" <=> phase[m] = "done")
  PROVE  Gone' = Gone
<1>1. \A m \in Messages : m \in Range(store)' <=> m \in Range(store)
  OBVIOUS
<1>2. \A m \in Messages : m \in Gone' <=> m \in Gone
  BY <1>1, StoredRange DEF Gone
<1> QED BY <1>2 DEF Gone

\* Appending pending messages is a delivery of the abstract session.
LEMMA Delivers ==
  ASSUME TypeOK, NEW t \in Seq(Messages), store' = t, t # store,
         Len(store) <= Len(t), \A i \in 1..Len(store) : t[i] = store[i],
         \A m \in Messages : OnceIn(t, {m}),
         \A i \in 1..Len(t) : Occurs(store, {t[i]}) \/ (t[i] \in used /\ phase[t[i]] # "done"),
         used' = used, Gone' = Gone
  PROVE  Promise!Deliver
<1>1. store \in Seq(Messages) /\ DOMAIN t = 1..Len(t) /\ Len(t) \in Nat /\ Len(store) \in Nat
  BY DEF TypeOK, Types
<1>2. SubSeq(store, 1, Len(store)) = store
  BY <1>1, SubSeqFull
<1>3. SubSeq(t, 1, Len(store)) = store
  <2>1. \A i \in 1..Len(store) : t[i] \in Messages
    BY <1>1
  <2>2. /\ SubSeq(t, 1, Len(store)) \in Seq(Messages)
        /\ Len(SubSeq(t, 1, Len(store))) = IF 1 <= Len(store) THEN Len(store) - 1 + 1 ELSE 0
        /\ \A i \in 1..(Len(store) - 1 + 1) : SubSeq(t, 1, Len(store))[i] = t[1 + i - 1]
    BY <1>1, <2>1, SubSeqProperties
  <2>3. /\ Len(SubSeq(t, 1, Len(store))) = Len(store)
        /\ \A i \in 1..Len(store) : SubSeq(t, 1, Len(store))[i] = store[i]
    BY <1>1, <2>2
  <2> QED BY <1>1, <2>2, <2>3, SeqEqual
<1>4. Promise!IsStrictPrefix(store, t)
  BY <1>2, <1>3 DEF Promise!IsStrictPrefix, Promise!IsPrefix
<1>5. Promise!IsInjective(t)
  <2> SUFFICES ASSUME NEW i \in 1..Len(t), NEW j \in 1..Len(t), t[i] = t[j] PROVE i = j
    BY <1>1 DEF Promise!IsInjective
  <2>1. t[i] \in Messages
    OBVIOUS
  <2>2. OnceIn(t, {t[i]})
    BY <2>1
  <2> QED BY <1>1, <2>2 DEF OnceIn
<1>6. Promise!Range(t) \ Promise!Range(store) \subseteq Promise!Pending
  <2> SUFFICES ASSUME NEW i \in 1..Len(t), t[i] \notin Promise!Range(store)
               PROVE  t[i] \in Promise!Pending
    BY <1>1 DEF Promise!Range
  <2>1. ~Occurs(store, {t[i]})
    BY DEF Occurs, Promise!Range
  <2>2. t[i] \in used /\ phase[t[i]] # "done"
    BY <2>1
  <2> QED BY <2>2 DEF Promise!Pending, Promise!Range
<1> QED BY <1>4, <1>5, <1>6 DEF Promise!Deliver, Gone

\* Every step of the session is a step of the abstract one, or none.
LEMMA PromiseStep ==
  ASSUME TypeOK, Owned, Keeping, TypeOK', Keeping', [Next]_vars
  PROVE  [Promise!Next]_(Promise!vars)
<1> DEFINE Goal == [Promise!Next]_(Promise!vars)
<1>1. ASSUME used' = used, store' = store, Gone' = Gone PROVE Goal
  BY <1>1 DEF Promise!vars, Gone
<1>2. ASSUME NEW m \in Messages, Fresh(m), used' = used \cup {m}, store' = store, Gone' = Gone
      PROVE  Goal
  BY <1>2 DEF Promise!Next, Promise!Accept, Gone, Fresh
<1>3. ASSUME NEW m \in Messages, m \in used, ~Stored(m), phase[m] # "done",
             used' = used, store' = store, Gone' = Gone \cup {m}
      PROVE  Goal
  <2>1. m \in Promise!Pending
    BY <1>3, StoredRange DEF Promise!Pending, Promise!Range, Range
  <2>2. Promise!Drop(m)
    BY <1>3, <2>1 DEF Promise!Drop, Gone
  <2> QED BY <2>2 DEF Promise!Next
<1>4. ASSUME Promise!Deliver PROVE Goal
  BY <1>4 DEF Promise!Next
<1> SUFFICES Goal
  OBVIOUS
<1> HIDE DEF Goal
<1>5. CASE FrameStep
  <2>1. used' = used /\ store' = store
    BY <1>5 DEF FrameStep, TakeBatch, HandleEvent, EndEvents, EndHost, SweepStuck,
                SweepNothing, EndFrame
  <2>2. \A m \in Messages : phase'[m] = "done" <=> phase[m] = "done"
    BY <1>5, WhatStarts DEF TypeOK, Types
  <2>3. Gone' = Gone
    BY <2>1, <2>2, GoneStays
  <2> QED BY <1>1, <2>1, <2>3
<1>6. CASE UserStep
  <2>1. store' = store /\ (used' = used \/ \E m \in Messages : Fresh(m) /\ used' = used \cup {m})
    BY <1>6 DEF UserStep, Stop, SendIdle, SendBusy, HostInject, HandBackArrives
  <2>2. \A m \in Messages : phase'[m] = "done" <=> phase[m] = "done"
    BY <1>6, WhatStarts DEF TypeOK, Types
  <2>3. Gone' = Gone
    BY <2>1, <2>2, GoneStays
  <2> QED BY <1>1, <1>2, <2>1, <2>3
<1>7. ASSUME NEW r \in Messages, RunStep(r) PROVE Goal
  <2>1. used' = used
    BY <1>7 DEF RunStep, Begin, Refuse, Round, ControlEnds, CancelSeen, ToolRound, Answer,
                Nudge, Complete, Fail, DrainOne, DrainEnd, Finish, Dropped, Panic
  <2>2. CASE Begin(r)
    <3>1. /\ phase[r] = "spawned" /\ phase' = [phase EXCEPT ![r] = "round"]
          /\ store' = Append(store, r) /\ store \in Seq(Messages)
      BY <2>2 DEF Begin, TypeOK, Types
    <3>2. ~Stored(r) /\ r \in used
      BY <3>1 DEF Keeping, Recorded, Conserved, Known, Started
    <3>3. PICK t \in Seq(Messages) : t = store'
      BY DEF TypeOK, Types
    <3>4. /\ Len(t) = Len(store) + 1 /\ t[Len(store) + 1] = r /\ Len(store) \in Nat
          /\ \A i \in 1..Len(store) : t[i] = store[i]
      BY <3>1, <3>3, AppendProperties
    <3>5. \A m \in Messages : OnceIn(t, {m})
      BY <3>3 DEF Keeping, Conserved, OnceEach
    <3>6. \A i \in 1..Len(t) : Occurs(store, {t[i]}) \/ t[i] = r
      <4> TAKE i \in 1..Len(t)
      <4>1. i \in 1..Len(store) \/ i = Len(store) + 1
        BY <3>4
      <4>2. ASSUME i \in 1..Len(store) PROVE Occurs(store, {t[i]})
        BY <3>1, <3>4, <4>2 DEF Occurs
      <4> QED BY <3>4, <4>1, <4>2
    <3>7. Gone' = Gone
      <4>1. \A m \in Messages : m \in Range(store') <=> m \in Range(store) \/ m = r
        <5> TAKE m \in Messages
        <5>1. Occurs(store', {m}) <=> Occurs(store, {m}) \/ m = r
          BY <3>1, AppendOccurs
        <5>2. m \in Range(store') <=> Occurs(store', {m})
          BY DEF Range, Occurs
        <5>3. m \in Range(store) <=> Occurs(store, {m})
          BY DEF Range, Occurs
        <5> QED BY <5>1, <5>2, <5>3
      <4>2. \A m \in Messages : m # r => phase'[m] = phase[m]
        BY <3>1 DEF TypeOK, Types
      <4>3. phase[r] # "done" /\ phase'[r] # "done"
        BY <3>1 DEF TypeOK, Types
      <4>4. \A m \in Messages : m \in Gone' <=> m \in Gone
        BY <4>1, <4>2, <4>3 DEF Gone
      <4> QED BY <4>4 DEF Gone
    <3>8. t # store /\ Len(store) <= Len(t)
      BY <3>4
    <3>9. Promise!Deliver
      BY <2>1, <3>1, <3>2, <3>3, <3>4, <3>5, <3>6, <3>7, <3>8, Delivers
    <3> QED BY <1>4, <3>9
  <2>3. CASE Round(r) \/ ControlEnds(r)
    <3>1. /\ phase[r] = "round" /\ \E p \in {"llm", "drain"} : phase' = [phase EXCEPT ![r] = p]
          /\ store' = store \o channel[r]
          /\ store \in Seq(Messages) /\ channel[r] \in Seq(Messages)
      BY <2>3 DEF Round, ControlEnds, TypeOK, Types
    <3>2. \A m \in Messages : phase'[m] = "done" <=> phase[m] = "done"
      BY <3>1 DEF TypeOK, Types
    <3>3. CASE channel[r] = <<>>
      <4>1. store' = store
        BY <3>1, <3>3, ConcatEmptySeq
      <4> QED BY <1>1, <2>1, <3>2, <4>1, GoneStays
    <3>4. CASE channel[r] # <<>>
      <4>1. PICK t \in Seq(Messages) : t = store'
        BY DEF TypeOK, Types
      <4> DEFINE n == Len(store)
                 k == Len(channel[r])
      <4>2. /\ Len(t) = n + k /\ n \in Nat /\ k \in Nat \ {0}
            /\ \A i \in 1..(n + k) : t[i] = IF i <= n THEN store[i] ELSE channel[r][i - n]
            /\ DOMAIN store = 1..n /\ DOMAIN channel[r] = 1..k
        BY <3>1, <3>4, <4>1, ConcatProperties, EmptySeq, LenProperties
      <4>3. \A i \in 1..n : t[i] = store[i]
        BY <4>2
      <4>4. \A i \in 1..Len(t) : Occurs(store, {t[i]}) \/ Occurs(channel[r], {t[i]})
        <5> TAKE i \in 1..Len(t)
        <5> HIDE DEF n, k
        <5>1. CASE i <= n
          BY SMTT(40), <4>2, <5>1 DEF Occurs
        <5>2. CASE ~(i <= n)
          <6>1. i - n \in 1..k /\ t[i] = channel[r][i - n]
            BY <4>2, <5>2
          <6> QED BY <4>2, <6>1 DEF Occurs
        <5> QED BY <5>1, <5>2
      <4>5. ASSUME NEW m \in Messages, Occurs(channel[r], {m})
            PROVE  m \in used /\ phase[m] # "done" /\ ~Stored(m)
        <5>1. Injected(m)
          BY <4>5 DEF Injected
        <5> QED BY <5>1 DEF Keeping, Conserved, Apart, Known, Started
      <4>6. \A m \in Messages : OnceIn(t, {m})
        BY <4>1 DEF Keeping, Conserved, OnceEach
      <4>7. Gone' = Gone
        <5>1. ASSUME NEW m \in Messages
              PROVE  m \in Range(store') <=> m \in Range(store) \/ Occurs(channel[r], {m})
          <6>1. Occurs(store', {m}) <=> Occurs(store, {m}) \/ Occurs(channel[r], {m})
            BY <3>1, ConcatOccurs
          <6>2. m \in Range(store') <=> Occurs(store', {m})
            BY DEF Range, Occurs
          <6>3. m \in Range(store) <=> Occurs(store, {m})
            BY DEF Range, Occurs
          <6> QED BY <6>1, <6>2, <6>3
        <5>2. \A m \in Messages : m \in Gone' <=> m \in Gone
          BY <3>2, <4>5, <5>1 DEF Gone
        <5> QED BY <5>2 DEF Gone
      <4>8. n <= Len(t) /\ t # store
        BY <4>2
      <4>9. \A i \in 1..Len(t) : Occurs(store, {t[i]}) \/ (t[i] \in used /\ phase[t[i]] # "done")
        <5> TAKE i \in 1..Len(t)
        <5>1. t[i] \in Messages
          OBVIOUS
        <5> QED BY <4>4, <4>5, <5>1
      <4>10. Promise!Deliver
        BY <2>1, <4>1, <4>3, <4>6, <4>7, <4>8, <4>9, Delivers
      <4> QED BY <1>4, <4>10
    <3> QED BY <3>3, <3>4
  <2>4. CASE Refuse(r) \/ (Dropped(r) /\ phase[r] = "spawned")
    <3>1. /\ phase[r] = "spawned" /\ phase' = [phase EXCEPT ![r] = "done"] /\ store' = store
      BY <2>4 DEF Refuse, Dropped
    <3>2. ~Stored(r) /\ r \in used
      BY <3>1 DEF Keeping, Recorded, Conserved, Known, Started
    <3>3. Gone' = Gone \cup {r}
      <4>1. phase'[r] = "done" /\ \A m \in Messages : m # r => phase'[m] = phase[m]
        BY <3>1 DEF TypeOK, Types
      <4>2. \A m : m \in Gone' <=> m \in Gone \/ m = r
        BY <3>1, <3>2, <4>1, StoredRange DEF Gone
      <4> QED BY <4>2
    <3> QED BY <1>3, <2>1, <3>1, <3>2, <3>3
  <2>5. CASE \/ CancelSeen(r) \/ ToolRound(r) \/ Answer(r) \/ Nudge(r) \/ Complete(r) \/ Fail(r)
             \/ DrainEnd(r) \/ Finish(r) \/ Panic(r) \/ (Dropped(r) /\ phase[r] # "spawned")
    <3>1. /\ store' = store /\ phase[r] \notin {"none", "spawned", "done"}
          /\ \E p : phase' = [phase EXCEPT ![r] = p]
      BY <2>5 DEF CancelSeen, ToolRound, Answer, Nudge, Complete, Fail, DrainEnd, Finish,
                  Panic, Dropped
    <3>2. Stored(r)
      BY <3>1 DEF Keeping, Recorded
    <3>3. \A m \in Messages : m # r => phase'[m] = phase[m]
      BY <3>1 DEF TypeOK, Types
    <3>4. Gone' = Gone
      BY <3>1, <3>2, <3>3, GoneStays
    <3> QED BY <1>1, <2>1, <3>1, <3>4
  <2>6. CASE DrainOne(r)
    <3>1. store' = store /\ phase' = phase
      BY <2>6 DEF DrainOne, runVars
    <3>2. Gone' = Gone
      BY <3>1, GoneStays
    <3> QED BY <1>1, <2>1, <3>1, <3>2
  <2> QED BY <1>7, <2>2, <2>3, <2>4, <2>5, <2>6 DEF RunStep
<1>8. CASE UNCHANGED vars
  <2>1. used' = used /\ store' = store /\ phase' = phase
    BY <1>8 DEF vars
  <2>2. Gone' = Gone
    BY <2>1, GoneStays
  <2> QED BY <1>1, <2>1, <2>2
<1> QED BY <1>5, <1>6, <1>7, <1>8 DEF Next

\* The session implements MessageDelivery, step by step: a message enters once, is
\* appended to a conversation that only grows, or is dropped and never seen again.
THEOREM PromiseKept == Spec => DeliversAsPromised
<1>1. Init => Promise!Init
  BY DEF Init, Promise!Init
<1>2. TypeOK /\ Owned /\ Keeping /\ (TypeOK /\ Owned /\ Keeping)' /\ [Next]_vars
        => [Promise!Next]_(Promise!vars)
  BY PromiseStep
<1> QED BY <1>1, <1>2, KeepingAlways, PTL DEF Spec, DeliversAsPromised, Promise!Spec
================================================================================

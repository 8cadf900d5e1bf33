--------------------------- MODULE Services_proofs ---------------------------
(***************************************************************************)
(* Theorems about the background services and the shell tool. The parts of *)
(* MC_Services share no state, so each invariant is proved of its part     *)
(* alone: it holds at first, every step of the part keeps it, and the      *)
(* steps of the other parts leave its variables as they are.               *)
(***************************************************************************)
EXTENDS MC_Services, SequenceTheorems, FiniteSetTheorems, TLAPS

-----------------------------------------------------------------------------
(* Calls over stdio (McpTransport).                                        *)

\* What a waiter is sent is its own answer or the news that the server closed.
OnlyOwn == \A c \in Calls : got[c] \in {None, "closed", c}

\* The reader takes a call's id out of the map when it sends it something, and a
\* call that has not begun was sent nothing.
SentOnce ==
  /\ \A c \in Calls : got[c] # None => c \notin pending
  /\ \A c \in Calls : rpc[c] = "new" => got[c] = None

\* A call dropped by the tool's own limit is over.
DroppedIsOver == \A c \in dropped : rpc[c] = "timeout"

\* A call that is about to write is in the map like one that waits, unless it has
\* already been told that the server closed.
Reachable == \A c \in Calls : rpc[c] = "writes" => c \in pending \/ got[c] # None

TransportInv ==
  /\ Transport!TypeOK /\ OnlyOwn /\ SentOnce /\ DroppedIsOver /\ Reachable
  /\ Transport!OwnAnswer /\ Transport!PendingMeansWaiting /\ Transport!EndToldWaiters

LEMMA TransportInit == ASSUME Transport!Init PROVE TransportInv
BY NoneAssumption, EmptySeq
   DEF Transport!Init, TransportInv, Transport!TypeOK, OnlyOwn, SentOnce, DroppedIsOver,
       Reachable, Transport!OwnAnswer, Transport!PendingMeansWaiting, Transport!EndToldWaiters,
       Transport!Waiting

\* Every step of a call, the server and the reader keeps it.
LEMMA TransportStep == ASSUME TransportInv, Transport!Next PROVE TransportInv'
<1> USE NoneAssumption
       DEF TransportInv, Transport!TypeOK, OnlyOwn, SentOnce, DroppedIsOver,
           Reachable, Transport!OwnAnswer, Transport!PendingMeansWaiting,
           Transport!EndToldWaiters, Transport!Waiting, Transport!Ends
<1>1. ASSUME NEW c \in Calls, Transport!Request(c) PROVE TransportInv'
  BY <1>1 DEF Transport!Request
<1>2. ASSUME NEW c \in Calls, Transport!Write(c) PROVE TransportInv'
  <2>1. CASE output # "up" /\ rpc' = [rpc EXCEPT ![c] = "failed"]
             /\ pending' = pending \ {c} /\ UNCHANGED written
    BY <1>2, <2>1 DEF Transport!Write
  <2>2. CASE rpc' = [rpc EXCEPT ![c] = "waits"] /\ UNCHANGED pending
             /\ written' = IF output = "up" THEN written \cup {c} ELSE written
    BY <1>2, <2>2 DEF Transport!Write
  <2> QED BY <1>2, <2>1, <2>2 DEF Transport!Write
<1>3. ASSUME NEW c \in Calls, Transport!ServerAnswers(c) PROVE TransportInv'
  BY <1>3, AppendProperties DEF Transport!ServerAnswers
<1>4. ASSUME NEW c \in Calls, Transport!Receive(c) PROVE TransportInv'
  BY <1>4 DEF Transport!Receive
<1>5. ASSUME NEW c \in Calls, Transport!TimeOut(c) PROVE TransportInv'
  BY <1>5 DEF Transport!TimeOut
<1>6. ASSUME NEW c \in Calls, Transport!OuterTimeOut(c) PROVE TransportInv'
  BY <1>6 DEF Transport!OuterTimeOut
<1>7. ASSUME Transport!ReadAnswer PROVE TransportInv'
  <2>1. Head(answers) \in Calls /\ Tail(answers) \in Seq(Calls)
    BY <1>7, HeadTailProperties DEF Transport!ReadAnswer
  <2> QED BY <1>7, <2>1 DEF Transport!ReadAnswer
<1>8. ASSUME Transport!ServerCloses PROVE TransportInv'
  BY <1>8 DEF Transport!ServerCloses
<1>9. ASSUME Transport!KillServer PROVE TransportInv'
  BY <1>9 DEF Transport!KillServer
<1>10. ASSUME Transport!ReadEnd PROVE TransportInv'
  BY <1>10 DEF Transport!ReadEnd
<1> QED BY <1>1, <1>2, <1>3, <1>4, <1>5, <1>6, <1>7, <1>8, <1>9, <1>10 DEF Transport!Next

LEMMA TransportStays == ASSUME TransportInv, UNCHANGED transportVars PROVE TransportInv'
BY DEF TransportInv, transportVars, Transport!TypeOK, OnlyOwn, SentOnce, DroppedIsOver,
       Reachable, Transport!OwnAnswer, Transport!PendingMeansWaiting, Transport!EndToldWaiters,
       Transport!Waiting

\* A call over stdio gets the answer to its own request or an error, and waits only
\* while somebody can answer it (StdioTransport::spawn, request), for any number of
\* calls.
THEOREM OwnAnswers == Spec => []OwnAnswerOrError
<1>1. Init => TransportInv
  BY TransportInit DEF Init
<1>2. TransportInv /\ [Next]_vars => TransportInv'
  BY TransportStep, TransportStays DEF Next, vars
<1>3. TransportInv => OwnAnswerOrError
  BY DEF TransportInv, OwnAnswerOrError
<1> QED BY <1>1, <1>2, <1>3, PTL DEF Spec

-----------------------------------------------------------------------------
(* The status monitor (LocalServer).                                       *)

\* The last snapshot under way, or else the one shown, says what the last poll saw.
LastIsPolled ==
  IF snapshots = <<>> THEN shown.reachable = prev
  ELSE snapshots[Len(snapshots)].reachable = prev

\* Taking the first element of a sequence leaves the last one last.
LEMMA LastStays ==
  ASSUME NEW S, NEW q \in Seq(S), q # <<>>
  PROVE  IF Tail(q) = <<>> THEN Head(q) = q[Len(q)] ELSE Tail(q)[Len(Tail(q))] = q[Len(q)]
<1>1. Len(q) \in Nat \ {0} /\ Head(q) = q[1]
  OBVIOUS
<1>2. /\ Tail(q) \in Seq(S) /\ Len(Tail(q)) = Len(q) - 1
      /\ \A i \in 1..(Len(q) - 1) : Tail(q)[i] = q[i + 1]
  BY HeadTailProperties
<1>3. CASE Len(q) = 1
  <2>1. Tail(q) = <<>>
    <3>1. Len(Tail(q)) = 0
      BY <1>2, <1>3
    <3> QED BY <1>2, <3>1, EmptySeq
  <2> QED BY <1>1, <1>3, <2>1
<1>4. CASE Len(q) # 1
  <2>1. Tail(q) # <<>> /\ Len(Tail(q)) \in 1..(Len(q) - 1)
    BY <1>1, <1>2, <1>4, EmptySeq
  <2>2. Tail(q)[Len(Tail(q))] = q[Len(Tail(q)) + 1] /\ Len(Tail(q)) + 1 = Len(q)
    BY <1>1, <1>2, <2>1
  <2> QED BY <2>1, <2>2
<1> QED BY <1>3, <1>4

MonitorInv == Local!MonitorTypeOK /\ LastIsPolled

LEMMA MonitorInit == ASSUME Local!MonitorInit PROVE MonitorInv
<1> USE BoundAssumption, EmptySeq
    DEF Local!MonitorInit, Local!Snapshot
<1>1. {active, ticked, prev} \subseteq BOOLEAN
  OBVIOUS
<1>2. shown \in Local!Snapshot
  OBVIOUS
<1>3. snapshots \in Seq(Local!Snapshot) /\ Len(snapshots) = 0
  OBVIOUS
<1>4. process \in 0..MaxProcesses /\ spawned \in 1..MaxProcesses /\ train \in 0..MaxProcesses
  OBVIOUS
<1>5. LastIsPolled
  BY DEF LastIsPolled
<1>6. 0 <= MaxSnapshots
  OBVIOUS
<1> QED BY <1>1, <1>2, <1>3, <1>4, <1>5, <1>6 DEF MonitorInv, Local!MonitorTypeOK, LastIsPolled

\* The monitor is silent only when it saw the same as before: nothing.
LEMMA MonitorStep == ASSUME MonitorInv, Local!MonitorNext PROVE MonitorInv'
<1> USE BoundAssumption
        DEF MonitorInv, Local!MonitorTypeOK, LastIsPolled, Local!Snapshot
<1>1. CASE Local!ServerStops
  BY <1>1 DEF Local!ServerStops
<1>2. CASE Local!ServerStarts
  BY <1>2 DEF Local!ServerStarts
<1>3. CASE Local!Tick
  BY <1>3 DEF Local!Tick
<1>4. CASE Local!Poll
  <2>1. /\ Len(snapshots) < MaxSnapshots
        /\ ticked' = FALSE /\ prev' = (process # 0)
        /\ train' = train \/ train' = process
        /\ snapshots' = IF process # 0 \/ prev
                        THEN Append(snapshots, [reachable |-> process # 0, train |-> train'])
                        ELSE snapshots
        /\ UNCHANGED <<process, spawned, active, shown>>
    BY <1>4 DEF Local!Poll, Local!Sends
  <2>2. [reachable |-> process # 0, train |-> train'] \in Local!Snapshot
    BY <2>1
  <2>3. CASE process # 0 \/ prev
    <3>1. PICK new \in Local!Snapshot : new.reachable = prev' /\ snapshots' = Append(snapshots, new)
      BY <2>1, <2>2, <2>3
    <3>2. /\ snapshots' \in Seq(Local!Snapshot)
          /\ Len(snapshots') = Len(snapshots) + 1
          /\ snapshots'[Len(snapshots')] = new
      BY <3>1, AppendProperties
    <3>3. LastIsPolled'
      <4>1. Len(snapshots) \in Nat
        BY LenProperties
      <4>2. Len(<<>>) = 0
        BY EmptySeq
      <4>3. snapshots' # <<>>
        BY <3>2, <4>1, <4>2, SMT
      <4> QED BY <3>1, <3>2, <4>3, Zenon
    <3>4. Len(snapshots') <= MaxSnapshots
      BY <2>1, <3>2
    <3>5. {active', ticked', prev'} \subseteq BOOLEAN
      BY <2>1
    <3>6. /\ process' \in 0..MaxProcesses /\ spawned' \in 1..MaxProcesses
          /\ train' \in 0..MaxProcesses /\ shown' \in Local!Snapshot
      BY <2>1
    <3> QED BY <3>2, <3>3, <3>4, <3>5, <3>6
  <2>4. CASE process = 0 /\ ~prev
    BY <2>1, <2>4
  <2> QED BY <2>3, <2>4
<1>5. CASE Local!Deactivate
  BY <1>5 DEF Local!Deactivate
<1>6. CASE Local!Shown
  <2>1. /\ snapshots # <<>> /\ shown' = Head(snapshots) /\ snapshots' = Tail(snapshots)
        /\ UNCHANGED <<process, spawned, active, ticked, prev, train>>
    BY <1>6 DEF Local!Shown
  <2>2. /\ shown' \in Local!Snapshot /\ snapshots' \in Seq(Local!Snapshot)
        /\ Len(snapshots') = Len(snapshots) - 1
    BY <2>1, HeadTailProperties
  <2>3. Local!MonitorTypeOK'
    BY <2>1, <2>2
  <2>4. snapshots[Len(snapshots)].reachable = prev
    BY <2>1
  <2>5. IF snapshots' = <<>> THEN shown' = snapshots[Len(snapshots)]
        ELSE snapshots'[Len(snapshots')] = snapshots[Len(snapshots)]
    BY <2>1, LastStays, Zenon
  <2>6. LastIsPolled'
    BY <2>1, <2>4, <2>5
  <2> QED BY <2>3, <2>6
<1> QED BY <1>1, <1>2, <1>3, <1>4, <1>5, <1>6 DEF Local!MonitorNext

LEMMA MonitorStays == ASSUME MonitorInv, UNCHANGED monitorVars PROVE MonitorInv'
BY DEF MonitorInv, monitorVars, Local!MonitorTypeOK, LastIsPolled, Local!Snapshot

-----------------------------------------------------------------------------
(* LLM calls in flight (Activity).                                         *)

\* Two snapshots list the same calls.
SameCalls(a, b) == \A c \in Calls : a[c] = "none" <=> b[c] = "none"

Sends(c) == thread[c] \in {"sends", "ends"}

\* A call has an entry from its beginning until its last handle goes.
EntryWhileOn ==
  \A c \in Calls : entry[c] # "none" <=> thread[c] \in {"runs", "decided", "sends"}

\* Without crossed snapshots one thread at a time has one to send, and the newest of
\* the snapshot that is about to be sent, the events under way and the bar lists the
\* calls in flight.
NewestLists ==
  ~crossed =>
    /\ \A c, d \in Calls : Sends(c) /\ Sends(d) => c = d
    /\ \A c \in Calls : Sends(c) => SameCalls(taken[c], entry)
    /\ (\A c \in Calls : ~Sends(c)) =>
         IF events = <<>> THEN SameCalls(bar, entry) ELSE SameCalls(events[Len(events)], entry)

ActivityInv == Active!TypeOK /\ EntryWhileOn /\ NewestLists

LEMMA ActivityInit == ASSUME Active!Init PROVE ActivityInv
<1> USE EmptySeq DEF Active!Init, Active!Nothing
<1>1. Active!TypeOK
  <2>1. MaxEvents \in Nat
    BY BoundAssumption
  <2>2. entry \in Active!Snapshots /\ bar \in Active!Snapshots /\ taken \in [Calls -> Active!Snapshots]
    BY DEF Active!Snapshots
  <2>3. events \in Seq(Active!Snapshots) /\ Len(events) = 0
    OBVIOUS
  <2>4. thread \in [Calls -> {"new", "runs", "decided", "sends", "ends", "over"}] /\ crossed \in BOOLEAN
    OBVIOUS
  <2>5. Len(events) <= MaxEvents
    BY <2>1, <2>3
  <2> QED BY <2>2, <2>3, <2>4, <2>5, Zenon DEF Active!TypeOK
<1>2. EntryWhileOn
  BY DEF EntryWhileOn
<1>3. NewestLists
  BY DEF NewestLists, SameCalls, Sends
<1> QED BY <1>1, <1>2, <1>3 DEF ActivityInv

LEMMA ActivityStep == ASSUME ActivityInv, Active!Next PROVE ActivityInv'
<1> USE DEF ActivityInv
<1>1. MaxEvents \in Nat
  BY BoundAssumption
\* A thread takes a snapshot of the entries as they become.
<1>2. ASSUME NEW c \in Calls, NEW how \in {"sends", "ends"},
             entry' \in Active!Snapshots, Active!Takes(c, entry', how), UNCHANGED <<events, bar>>
      PROVE Active!TypeOK' /\ NewestLists'
  <2>1. Active!TypeOK'
    BY <1>1, <1>2 DEF Active!TypeOK, Active!Takes
  <2>2. /\ taken' = [taken EXCEPT ![c] = entry'] /\ thread' = [thread EXCEPT ![c] = how]
        /\ ~crossed' => ~crossed /\ \A d \in Calls : d # c => ~Sends(d)
    BY <1>2 DEF Active!Takes, Sends
  <2>3. Sends(c)' /\ \A d \in Calls : d # c => Sends(d)' = Sends(d)
    BY <1>2, <2>2 DEF Sends, Active!TypeOK
  <2>4. NewestLists'
    BY <2>1, <2>2, <2>3 DEF NewestLists, SameCalls, Active!TypeOK
  <2> QED BY <2>1, <2>4
\* A step that takes and sends nothing and keeps the set of entries.
<1>3. ASSUME UNCHANGED <<taken, events, bar, crossed>>, SameCalls(entry', entry),
             \A d \in Calls : Sends(d)' = Sends(d)
      PROVE NewestLists'
  BY <1>3 DEF NewestLists, SameCalls
<1>4. ASSUME NEW c \in Calls, Active!Begin(c) PROVE ActivityInv'
  <2>1. thread[c] = "new" /\ entry' = [entry EXCEPT ![c] = "thinking"] /\ Active!Takes(c, entry', "sends")
    BY <1>4 DEF Active!Begin
  <2>2. entry' \in Active!Snapshots
    BY <2>1 DEF Active!TypeOK, Active!Snapshots, Active!Phases
  <2>3. EntryWhileOn'
    BY <2>1 DEF EntryWhileOn, Active!Takes, Active!TypeOK, Active!Snapshots
  <2> QED BY <1>2, <1>4, <2>1, <2>2, <2>3 DEF Active!Begin
<1>5. ASSUME NEW c \in Calls, Active!Snap(c) PROVE ActivityInv'
  <2>1. /\ thread[c] = "decided" /\ Active!Takes(c, entry', "sends")
        /\ UNCHANGED <<entry, events, bar>>
    BY <1>5 DEF Active!Snap, Active!Takes
  <2>2. entry' \in Active!Snapshots
    BY <2>1 DEF Active!TypeOK
  <2>3. EntryWhileOn'
    BY <2>1 DEF EntryWhileOn, Active!Takes, Active!TypeOK, Active!Snapshots
  <2> QED BY <1>2, <2>1, <2>2, <2>3
<1>6. ASSUME NEW c \in Calls, Active!DropHandle(c) PROVE ActivityInv'
  <2>1. thread[c] = "runs" /\ entry' = [entry EXCEPT ![c] = "none"] /\ Active!Takes(c, entry', "ends")
    BY <1>6 DEF Active!DropHandle
  <2>2. entry' \in Active!Snapshots
    BY <2>1 DEF Active!TypeOK, Active!Snapshots, Active!Phases
  <2>3. EntryWhileOn'
    BY <2>1 DEF EntryWhileOn, Active!Takes, Active!TypeOK, Active!Snapshots
  <2> QED BY <1>2, <1>6, <2>1, <2>2, <2>3 DEF Active!DropHandle
<1>7. ASSUME NEW c \in Calls, Active!Finish(c) PROVE ActivityInv'
  <2>1. /\ thread[c] = "runs" /\ thread' = [thread EXCEPT ![c] = "decided"]
        /\ UNCHANGED <<entry, taken, events, bar, crossed>>
    BY <1>7 DEF Active!Finish
  <2>2. Active!TypeOK' /\ EntryWhileOn'
    BY <2>1 DEF Active!TypeOK, EntryWhileOn
  <2>3. \A d \in Calls : Sends(d)' = Sends(d)
    BY <2>1 DEF Active!TypeOK, Sends
  <2> QED BY <1>3, <2>1, <2>2, <2>3 DEF SameCalls
<1>8. ASSUME NEW c \in Calls, NEW to \in {"prompt", "generating"}, Active!Update(c, to)
      PROVE ActivityInv'
  <2>1. /\ thread[c] = "runs"
        /\ entry' = [entry EXCEPT ![c] = Active!PhaseAfter(@, to)]
        /\ thread' = thread \/ thread' = [thread EXCEPT ![c] = "decided"]
        /\ UNCHANGED <<taken, events, bar, crossed>>
    BY <1>8 DEF Active!Update
  <2>2. entry[c] # "none"
    BY <2>1 DEF EntryWhileOn
  <2>3. Active!PhaseAfter(entry[c], to) \in Active!Phases
    BY <2>2 DEF Active!PhaseAfter, Active!Phases, Active!TypeOK, Active!Snapshots
  <2>4. entry' \in Active!Snapshots /\ SameCalls(entry', entry)
    BY <2>1, <2>2, <2>3 DEF Active!TypeOK, Active!Snapshots, Active!Phases, SameCalls
  <2>5. Active!TypeOK' /\ EntryWhileOn'
    BY <2>1, <2>4 DEF Active!TypeOK, EntryWhileOn, SameCalls
  <2>6. \A d \in Calls : Sends(d)' = Sends(d)
    BY <2>1 DEF Active!TypeOK, Sends
  <2> QED BY <1>3, <2>1, <2>4, <2>5, <2>6
<1>9. ASSUME NEW c \in Calls, Active!Send(c) PROVE ActivityInv'
  <2>1. /\ Sends(c) /\ Len(events) < MaxEvents
        /\ events' = Append(events, taken[c])
        /\ taken' = [taken EXCEPT ![c] = Active!Nothing]
        /\ thread' = [thread EXCEPT ![c] = IF @ = "sends" THEN "runs" ELSE "over"]
        /\ UNCHANGED <<entry, bar, crossed>>
    BY <1>9 DEF Active!Send, Sends
  <2>2. /\ events' \in Seq(Active!Snapshots) /\ Len(events') = Len(events) + 1
        /\ events' # <<>> /\ events'[Len(events')] = taken[c]
    BY <2>1, AppendProperties DEF Active!TypeOK
  <2>3. taken' \in [Calls -> Active!Snapshots]
    BY <2>1 DEF Active!TypeOK, Active!Nothing, Active!Snapshots
  <2>4. Active!TypeOK'
    BY <1>1, <2>1, <2>2, <2>3 DEF Active!TypeOK
  <2>5. EntryWhileOn'
    BY <2>1 DEF EntryWhileOn, Active!TypeOK, Sends
  <2>6. ~Sends(c)' /\ \A d \in Calls : d # c => Sends(d)' = Sends(d)
    BY <2>1 DEF Active!TypeOK, Sends
  <2>7. NewestLists'
    BY <2>1, <2>2, <2>6 DEF NewestLists, SameCalls
  <2> QED BY <2>4, <2>5, <2>7
<1>10. CASE Active!Show
  <2>1. /\ events # <<>> /\ bar' = Head(events) /\ events' = Tail(events)
        /\ UNCHANGED <<entry, thread, taken, crossed>>
    BY <1>10 DEF Active!Show
  <2>2. /\ bar' \in Active!Snapshots /\ events' \in Seq(Active!Snapshots)
        /\ Len(events') = Len(events) - 1
    BY <2>1, HeadTailProperties DEF Active!TypeOK
  <2>3. Active!TypeOK' /\ EntryWhileOn'
    BY <1>1, <2>1, <2>2 DEF Active!TypeOK, EntryWhileOn
  <2>4. IF events' = <<>> THEN bar' = events[Len(events)]
                          ELSE events'[Len(events')] = events[Len(events)]
    BY <2>1, LastStays, Zenon DEF Active!TypeOK
  <2>5. NewestLists'
    BY <2>1, <2>4 DEF NewestLists, SameCalls, Sends
  <2> QED BY <2>3, <2>5
<1> QED BY <1>4, <1>5, <1>6, <1>7, <1>8, <1>9, <1>10 DEF Active!Next

LEMMA ActivityStays == ASSUME ActivityInv, UNCHANGED activityVars PROVE ActivityInv'
BY DEF ActivityInv, activityVars, Active!TypeOK, EntryWhileOn, NewestLists, SameCalls, Sends

LEMMA ActivityShown == ASSUME ActivityInv PROVE Active!TypeOK /\ Active!BarListsInFlight
BY DEF ActivityInv, NewestLists, SameCalls, Sends, Active!BarListsInFlight, Active!Live

-----------------------------------------------------------------------------
(* The local server (LocalServer).                                         *)

CallsTyped ==
  call \in [Callers -> [op: {"none", "start", "stop"}, pc: {"idle", "store", "lock", "kill"},
                        child: 0..MaxChildren]]
WaitersTyped ==
  waiter \in [Local!Children -> [pc: {"none", "ready", "waits", "reaped"}, took: 0..MaxChildren]]

\* A task that took a handle has the mutex, and leaves none in it; so does a
\* stop_server that is about to look for one.
OneHolder ==
  /\ \A c \in Local!Children :
       waiter[c].pc \in {"waits", "reaped"} => holder = Local!Task(c) /\ slot = 0
  /\ \A k \in Callers : call[k].pc = "kill" => holder = Local!By(k)

\* A handle is that of a child that was spawned.
HandlesSpawned ==
  /\ \A k \in Callers : call[k].op = "start" =>
       call[k].child \in Local!Children /\ child[call[k].child] # "none"
  /\ slot # 0 => child[slot] # "none"
  /\ \A c \in Local!Children : waiter[c].pc = "waits" =>
       waiter[c].took # 0 /\ child[waiter[c].took] # "none"

\* HeldChildShown, by where the handle is.
HeldShown ==
  /\ slot # 0 /\ child[slot] = "up" => running
  /\ \A c \in Local!Children :
       waiter[c].pc = "waits" /\ child[waiter[c].took] = "up" => running

LocalInv ==
  Local!TypeOK /\ CallsTyped /\ WaitersTyped /\ OneHolder /\ HandlesSpawned /\ HeldShown

LEMMA Holders ==
  /\ \A c : Local!Task(c) # Local!Free
  /\ \A k : Local!By(k) # Local!Free
  /\ \A c, k : Local!Task(c) # Local!By(k)
  /\ \A c, d : Local!Task(c) = Local!Task(d) => c = d
  /\ \A k, l : Local!By(k) = Local!By(l) => k = l
BY DEF Local!Task, Local!By, Local!Free

LEMMA Bounds == MaxChildren \in Nat /\ MaxCalls \in Nat
BY BoundAssumption

LEMMA LocalInit == ASSUME Local!Init PROVE LocalInv
<1> USE Bounds DEF Local!Init, Local!NoCall, Local!Children
<1>1. Local!TypeOK
  <2>1. {running, attached, failed, foreign} \subseteq BOOLEAN
    OBVIOUS
  <2>2. \A c \in Local!Children : waiter[c].pc \in {"none", "ready", "waits", "reaped"}
    OBVIOUS
  <2> QED BY <2>1, <2>2 DEF Local!TypeOK
<1>2. CallsTyped /\ WaitersTyped
  BY DEF CallsTyped, WaitersTyped
<1>3. OneHolder /\ HandlesSpawned /\ HeldShown
  BY DEF OneHolder, HandlesSpawned, HeldShown
<1> QED BY <1>1, <1>2, <1>3 DEF LocalInv

LEMMA LocalStays == ASSUME LocalInv, UNCHANGED localVars PROVE LocalInv'
BY DEF LocalInv, localVars, Local!TypeOK, CallsTyped, WaitersTyped, OneHolder, HandlesSpawned,
       HeldShown

LEMMA LocalShown == ASSUME LocalInv PROVE Local!TypeOK /\ Local!HeldChildShown
BY DEF LocalInv, HeldShown, Local!HeldChildShown, Local!Held

\* The calls' steps.
LEMMA LocalCallStep ==
  ASSUME LocalInv, NEW k \in Callers,
         \/ Local!StartBegins(k) \/ Local!StartStores(k) \/ Local!StopBegins(k)
         \/ Local!StopLocks(k) \/ Local!StopKills(k)
  PROVE  LocalInv'
<1> USE Bounds, Holders DEF LocalInv, Local!Children
<1>1. CASE Local!StartBegins(k)
  <2>1. /\ call[k] = Local!NoCall /\ calls < MaxCalls /\ calls' = calls + 1
        /\ attached' = Local!Listening /\ running' = (Local!Listening \/ running)
        /\ UNCHANGED <<slot, holder, waiter, failed, foreign>>
    BY <1>1 DEF Local!StartBegins, Local!Attach
  <2>2. attached' \in BOOLEAN /\ running' \in BOOLEAN /\ (running => running')
    BY <2>1 DEF Local!TypeOK, Local!Listening
  <2>3. CASE UNCHANGED <<call, child>>
    BY <2>1, <2>2, <2>3 DEF Local!TypeOK, CallsTyped, WaitersTyped, OneHolder, HandlesSpawned, HeldShown
  <2>4. CASE \E c \in Local!Children :
               /\ child[c] = "none"
               /\ child' = [child EXCEPT ![c] = "up"]
               /\ call' = [call EXCEPT ![k] = [op |-> "start", pc |-> "store", child |-> c]]
    <3>1. PICK c \in Local!Children :
               /\ child[c] = "none"
               /\ child' = [child EXCEPT ![c] = "up"]
               /\ call' = [call EXCEPT ![k] = [op |-> "start", pc |-> "store", child |-> c]]
      BY <2>4
    <3>2. Local!TypeOK'
      BY <2>1, <2>2, <3>1 DEF Local!TypeOK
    <3>3. CallsTyped' /\ WaitersTyped'
      BY <2>1, <3>1 DEF CallsTyped, WaitersTyped
    <3>4. OneHolder'
      BY <2>1, <3>1 DEF OneHolder, CallsTyped
    <3>5. HandlesSpawned' /\ HeldShown'
      BY <2>1, <2>2, <3>1 DEF HandlesSpawned, HeldShown, CallsTyped, WaitersTyped, Local!TypeOK
    <3> QED BY <3>2, <3>3, <3>4, <3>5
  <2> QED BY <1>1, <2>3, <2>4 DEF Local!StartBegins
<1>2. CASE Local!StartStores(k)
  <2>1. /\ call[k].op = "start" /\ holder = Local!Free
        /\ slot' = call[k].child /\ running' = TRUE
        /\ waiter' = [waiter EXCEPT ![call[k].child] = [pc |-> "ready", took |-> 0]]
        /\ call' = [call EXCEPT ![k] = Local!NoCall]
        /\ UNCHANGED <<child, holder, attached, failed, foreign, calls>>
    BY <1>2 DEF Local!StartStores
  <2>2. call[k].child \in Local!Children /\ child[call[k].child] # "none"
    BY <2>1 DEF HandlesSpawned
  <2>3. CallsTyped' /\ WaitersTyped'
    BY <2>1, <2>2 DEF CallsTyped, WaitersTyped, Local!NoCall
  <2>4. Local!TypeOK'
    BY <2>1, <2>2, <2>3 DEF Local!TypeOK, WaitersTyped
  <2>5. \A c \in Local!Children : waiter'[c].pc \notin {"waits", "reaped"}
    BY <2>1, <2>2 DEF OneHolder, WaitersTyped
  <2>6. OneHolder' /\ HandlesSpawned' /\ HeldShown'
    BY <2>1, <2>2, <2>5 DEF OneHolder, HandlesSpawned, HeldShown, CallsTyped, Local!NoCall
  <2> QED BY <2>3, <2>4, <2>6
<1>3. CASE Local!StopBegins(k)
  <2>1. /\ call[k] = Local!NoCall /\ running /\ calls < MaxCalls /\ calls' = calls + 1
        /\ call' = [call EXCEPT ![k].op = "stop", ![k].pc = "lock"]
        /\ UNCHANGED <<child, slot, holder, waiter, running, attached, failed, foreign>>
    BY <1>3 DEF Local!StopBegins
  <2>2. CallsTyped' /\ WaitersTyped'
    BY <2>1 DEF CallsTyped, WaitersTyped, Local!NoCall
  <2>3. Local!TypeOK'
    BY <2>1 DEF Local!TypeOK
  <2>4. OneHolder' /\ HandlesSpawned' /\ HeldShown'
    BY <2>1 DEF OneHolder, HandlesSpawned, HeldShown, CallsTyped, Local!NoCall
  <2> QED BY <2>2, <2>3, <2>4
<1>4. CASE Local!StopLocks(k)
  <2>1. /\ call[k].pc = "lock" /\ holder = Local!Free
        /\ holder' = Local!By(k)
        /\ call' = [call EXCEPT ![k].pc = "kill"]
        /\ UNCHANGED <<child, slot, waiter, running, attached, failed, foreign, calls>>
    BY <1>4 DEF Local!StopLocks
  <2>2. CallsTyped' /\ WaitersTyped'
    BY <2>1 DEF CallsTyped, WaitersTyped
  <2>3. Local!TypeOK'
    BY <2>1 DEF Local!TypeOK
  <2>4. OneHolder' /\ HandlesSpawned' /\ HeldShown'
    BY <2>1 DEF OneHolder, HandlesSpawned, HeldShown, CallsTyped
  <2> QED BY <2>2, <2>3, <2>4
<1>5. CASE Local!StopKills(k)
  <2>1. /\ call[k].pc = "kill"
        /\ child' = IF slot # 0 /\ child[slot] = "up" THEN [child EXCEPT ![slot] = "bad"] ELSE child
        /\ slot' = 0 /\ running' = FALSE /\ holder' = Local!Free
        /\ call' = [call EXCEPT ![k] = Local!NoCall]
        /\ UNCHANGED <<waiter, attached, failed, foreign, calls>>
    BY <1>5 DEF Local!StopKills
  <2>2. holder = Local!By(k) /\ \A c \in Local!Children : waiter[c].pc \notin {"waits", "reaped"}
    BY <2>1 DEF OneHolder
  <2>3. CallsTyped' /\ WaitersTyped'
    BY <2>1 DEF CallsTyped, WaitersTyped, Local!NoCall
  <2>4. Local!TypeOK'
    <3>1. child' \in [Local!Children -> {"none", "up", "ok", "bad"}]
      BY <2>1 DEF Local!TypeOK
    <3>2. {running', attached', failed', foreign'} \subseteq BOOLEAN
      BY <2>1 DEF Local!TypeOK
    <3>3. slot' \in 0..MaxChildren /\ holder' = Local!Free
      BY <2>1
    <3> QED BY <2>1, <3>1, <3>2, <3>3 DEF Local!TypeOK
  <2>5. \A c \in Local!Children : child'[c] = "none" => child[c] = "none"
    BY <2>1 DEF Local!TypeOK
  <2>6. OneHolder' /\ HandlesSpawned' /\ HeldShown'
    BY <2>1, <2>2, <2>5 DEF OneHolder, HandlesSpawned, HeldShown, CallsTyped, Local!NoCall
  <2> QED BY <2>3, <2>4, <2>6
<1> QED BY <1>1, <1>2, <1>3, <1>4, <1>5

\* The steps of the children and of the tasks that wait for their exit.
LEMMA LocalChildStep ==
  ASSUME LocalInv, NEW c \in Local!Children,
         \/ Local!WaiterTakes(c) \/ Local!WaiterReaps(c) \/ Local!WaiterEnds(c) \/ Local!ChildExits(c)
  PROVE  LocalInv'
<1> USE Bounds, Holders DEF LocalInv, Local!Children
<1>1. CASE Local!WaiterTakes(c)
  <2>1. /\ waiter[c].pc = "ready" /\ holder = Local!Free
        /\ UNCHANGED <<child, running, attached, failed, foreign, call, calls>>
    BY <1>1 DEF Local!WaiterTakes
  <2>2. \A d \in Local!Children : waiter[d].pc \notin {"waits", "reaped"}
    BY <2>1 DEF OneHolder
  <2>3. CASE slot = 0 /\ waiter' = [waiter EXCEPT ![c].pc = "none"] /\ UNCHANGED <<slot, holder>>
    BY <2>1, <2>3 DEF Local!TypeOK, CallsTyped, WaitersTyped, OneHolder, HandlesSpawned, HeldShown
  <2>4. CASE /\ slot # 0 /\ waiter' = [waiter EXCEPT ![c] = [pc |-> "waits", took |-> slot]]
             /\ slot' = 0 /\ holder' = Local!Task(c)
    <3>1. CallsTyped' /\ WaitersTyped'
      BY <2>1, <2>4 DEF CallsTyped, WaitersTyped, Local!TypeOK
    <3>2. Local!TypeOK'
      BY <2>1, <2>4, <3>1 DEF Local!TypeOK, WaitersTyped
    <3>3. \A d \in Local!Children : waiter'[d].pc \in {"waits", "reaped"} =>
                                      d = c /\ waiter'[d].took = slot
      BY <2>2, <2>4 DEF WaitersTyped
    <3>4. \A k \in Callers : call[k].pc # "kill"
      BY <2>1 DEF OneHolder
    <3>5. OneHolder' /\ HandlesSpawned' /\ HeldShown'
      BY <2>1, <2>4, <3>3, <3>4 DEF OneHolder, HandlesSpawned, HeldShown
    <3> QED BY <3>1, <3>2, <3>5
  <2> QED BY <1>1, <2>3, <2>4 DEF Local!WaiterTakes
<1>2. CASE Local!WaiterReaps(c)
  <2>1. /\ waiter[c].pc = "waits" /\ waiter' = [waiter EXCEPT ![c].pc = "reaped"]
        /\ UNCHANGED <<child, slot, holder, running, attached, failed, foreign, call, calls>>
    BY <1>2 DEF Local!WaiterReaps
  <2> QED
    BY <2>1 DEF Local!TypeOK, CallsTyped, WaitersTyped, OneHolder, HandlesSpawned, HeldShown
<1>3. CASE Local!WaiterEnds(c)
  <2>1. /\ waiter[c].pc = "reaped" /\ running' = FALSE
        /\ failed' = (failed \/ child[waiter[c].took] = "bad")
        /\ waiter' = [waiter EXCEPT ![c] = [pc |-> "none", took |-> 0]]
        /\ holder' = IF holder = Local!Task(c) THEN Local!Free ELSE holder
        /\ UNCHANGED <<child, slot, attached, foreign, call, calls>>
    BY <1>3 DEF Local!WaiterEnds
  <2>2. holder = Local!Task(c) /\ slot = 0 /\ holder' = Local!Free
    BY <2>1 DEF OneHolder
  <2>3. failed' \in BOOLEAN
    BY <2>1 DEF Local!TypeOK
  <2>4. CallsTyped' /\ WaitersTyped'
    BY <2>1 DEF CallsTyped, WaitersTyped
  <2>5. Local!TypeOK'
    BY <2>1, <2>2, <2>3, <2>4 DEF Local!TypeOK, WaitersTyped
  <2>6. \A d \in Local!Children : waiter'[d].pc \notin {"waits", "reaped"}
    BY <2>1, <2>2 DEF OneHolder, WaitersTyped
  <2>7. \A k \in Callers : call[k].pc # "kill"
    BY <2>2 DEF OneHolder
  <2>8. OneHolder' /\ HandlesSpawned' /\ HeldShown'
    BY <2>1, <2>2, <2>6, <2>7 DEF OneHolder, HandlesSpawned, HeldShown
  <2> QED BY <2>4, <2>5, <2>8
<1>4. CASE Local!ChildExits(c)
  <2>1. PICK how \in {"ok", "bad"} : child' = [child EXCEPT ![c] = how]
    BY <1>4 DEF Local!ChildExits
  <2>2. UNCHANGED <<slot, holder, waiter, running, attached, failed, foreign, call, calls>>
    BY <1>4 DEF Local!ChildExits
  <2> QED
    BY <2>1, <2>2 DEF Local!TypeOK, CallsTyped, WaitersTyped, OneHolder, HandlesSpawned, HeldShown
<1> QED BY <1>1, <1>2, <1>3, <1>4

LEMMA LocalStep == ASSUME LocalInv, Local!Next PROVE LocalInv'
<1>1. CASE Local!ForeignChanges
  BY <1>1 DEF Local!ForeignChanges, LocalInv, Local!TypeOK, CallsTyped, WaitersTyped, OneHolder,
              HandlesSpawned, HeldShown
<1> QED BY <1>1, LocalCallStep, LocalChildStep DEF Local!Next

-----------------------------------------------------------------------------
\* What the status bar shows of the local server and of the calls in flight is true
\* (ServerManager, spawn_server_monitor, ActivityTracker): the child that is held is
\* shown as running, the indicator shows what the last poll saw, and the bar lists the
\* calls in flight unless two snapshots crossed.
THEOREM StatusBarTrue == Spec => []StatusBarTruthful
<1>1. Init => LocalInv /\ MonitorInv /\ ActivityInv
  BY LocalInit, MonitorInit, ActivityInit DEF Init
<1>2. LocalInv /\ [Next]_vars => LocalInv'
  BY LocalStep, LocalStays DEF Next, vars
<1>3. MonitorInv /\ [Next]_vars => MonitorInv'
  BY MonitorStep, MonitorStays DEF Next, vars
<1>4. ActivityInv /\ [Next]_vars => ActivityInv'
  BY ActivityStep, ActivityStays DEF Next, vars
<1>5. LocalInv /\ MonitorInv /\ ActivityInv => StatusBarTruthful
  <2>1. MonitorInv => Local!MonitorTypeOK /\ Local!ShownIsPolled
    BY DEF MonitorInv, LastIsPolled, Local!ShownIsPolled
  <2> QED BY <2>1, LocalShown, ActivityShown DEF StatusBarTruthful
<1> QED BY <1>1, <1>2, <1>3, <1>4, <1>5, PTL DEF Spec

-----------------------------------------------------------------------------
(* The shell tool (ShellTool).                                             *)

Chunks(q, s) == {i \in DOMAIN q : q[i] = s}
Count(q, s) == Cardinality(Chunks(q, s))
Capped(n) == IF n > MAX_OUTPUT_SIZE THEN MAX_OUTPUT_SIZE ELSE n

Counters ==
  /\ wrote \in [Shell!Streams -> Nat] /\ inPipe \in [Shell!Streams -> Nat]
  /\ kept \in [Shell!Streams -> Nat]
  /\ reader \in [Shell!Streams -> {"reads", "ended"}]

\* Until the call returns, what the command wrote is in a pipe, under way or kept.
Accounted ==
  step # "done" =>
    \A s \in Shell!Streams :
      /\ inPipe[s] + Count(channel, s) <= wrote[s]
      /\ kept[s] = Capped(wrote[s] - inPipe[s] - Count(channel, s))

\* Nobody writes any more: the command and what it left behind are gone.
Silent == worker # "runs" /\ ~heir

\* A reader ends at the end of its pipe.
ReadersEnd ==
  step \in {"loop", "drain"} =>
    \A s \in Shell!Streams : reader[s] = "ended" => Silent /\ inPipe[s] = 0

\* How far the loop is tells what is left of the command.
LoopKnows ==
  /\ step = "check" => worker = "none" /\ ~heir
  /\ step = "drain" => worker # "runs"
  /\ outcome = "ok" => step = "done" /\ Silent

ShellInv ==
  Shell!ShellSound /\ Counters /\ Accounted /\ ReadersEnd /\ LoopKnows

LEMMA Caps == MAX_OUTPUT_SIZE \in Nat /\ MaxChunks \in Nat
BY BoundAssumption

LEMMA CountEmpty == ASSUME NEW s PROVE Count(<<>>, s) = 0
<1>1. Chunks(<<>>, s) = {}
  BY DEF Chunks
<1> QED BY <1>1, FS_EmptySet DEF Count

LEMMA CountFinite ==
  ASSUME NEW q \in Seq(Shell!Streams), NEW s
  PROVE  IsFiniteSet(Chunks(q, s)) /\ Count(q, s) \in Nat
<1>1. Len(q) \in Nat /\ DOMAIN q = 1..Len(q)
  OBVIOUS
<1>2. IsFiniteSet(1..Len(q))
  BY <1>1, FS_Interval
<1>3. Chunks(q, s) \subseteq 1..Len(q)
  BY <1>1 DEF Chunks
<1> QED BY <1>2, <1>3, FS_Subset, FS_CardinalityType DEF Count

\* A chunk more of one stream.
LEMMA CountAppend ==
  ASSUME NEW q \in Seq(Shell!Streams), NEW t \in Shell!Streams, NEW s
  PROVE  Count(Append(q, t), s) = IF s = t THEN Count(q, s) + 1 ELSE Count(q, s)
<1> DEFINE r == Append(q, t)
           n == Len(q) + 1
<1>1. /\ r \in Seq(Shell!Streams) /\ Len(r) = n /\ r[n] = t
      /\ \A i \in 1..Len(q) : r[i] = q[i]
  BY AppendProperties
<1>2. DOMAIN r = 1..n /\ DOMAIN q = 1..Len(q) /\ Len(q) \in Nat
  BY <1>1
<1>3. CASE s = t
  <2>1. Chunks(r, s) = Chunks(q, s) \cup {n} /\ n \notin Chunks(q, s)
    BY <1>1, <1>2, <1>3 DEF Chunks
  <2> QED BY ZenonT(40), <1>3, <2>1, CountFinite, FS_AddElement DEF Count
<1>4. CASE s # t
  <2>1. Chunks(r, s) = Chunks(q, s)
    BY <1>1, <1>2, <1>4 DEF Chunks
  <2> QED BY <1>4, <2>1 DEF Count
<1> QED BY <1>3, <1>4

LEMMA ShellInit == ASSUME Shell!Init PROVE ShellInv
<1> USE Caps DEF Shell!Init, Shell!Streams
<1>1. channel \in Seq(Shell!Streams) /\ \A s \in Shell!Streams : Count(channel, s) = 0
  BY EmptySeq, CountEmpty
<1>2. {heir, elapsed, stop} \subseteq BOOLEAN
  OBVIOUS
<1>3. Shell!TypeOK
  BY <1>1, <1>2 DEF Shell!TypeOK
<1>4. Counters /\ Accounted
  BY <1>1 DEF Counters, Accounted, Capped
<1> QED BY <1>3, <1>4
        DEF ShellInv, Shell!ShellSound, Shell!OutputWhole, Shell!NoChildLeft, ReadersEnd, LoopKnows

LEMMA ShellStays == ASSUME ShellInv, UNCHANGED shellVars PROVE ShellInv'
BY DEF ShellInv, shellVars, Shell!ShellSound, Shell!TypeOK, Shell!OutputWhole, Shell!NoChildLeft,
       Counters, Accounted, ReadersEnd, LoopKnows, Silent

\* The command and what it leaves behind.
LEMMA CommandStep ==
  ASSUME ShellInv,
         \/ \E s \in Shell!Streams : Shell!Writes(s)
         \/ Shell!Forks \/ Shell!Exits \/ Shell!HeirExits
         \/ Shell!TimePasses \/ Shell!StopPressed
  PROVE  ShellInv'
<1> USE DEF ShellInv, Shell!ShellSound, Shell!OutputWhole, Shell!NoChildLeft, ReadersEnd, LoopKnows,
            Silent
<1>1. ASSUME NEW s \in Shell!Streams, Shell!Writes(s) PROVE ShellInv'
  <2>1. /\ worker = "runs" \/ heir
        /\ wrote[s] < MaxChunks
        /\ wrote' = [wrote EXCEPT ![s] = @ + 1] /\ inPipe' = [inPipe EXCEPT ![s] = @ + 1]
        /\ UNCHANGED <<policy, worker, heir, reader, channel, kept, step, elapsed, stop, outcome>>
    BY <1>1 DEF Shell!Writes
  <2>2. Counters'
    BY <2>1 DEF Counters
  <2>3. Shell!TypeOK'
    BY Caps, <2>1, <2>2 DEF Shell!TypeOK, Counters
  <2>4. Accounted'
    <3>1. \A t \in Shell!Streams : Count(channel, t) \in Nat
      BY CountFinite DEF Shell!TypeOK
    <3>2. \A t \in Shell!Streams : wrote'[t] - inPipe'[t] = wrote[t] - inPipe[t]
                                   /\ wrote'[t] >= wrote[t] /\ inPipe'[t] - wrote'[t] = inPipe[t] - wrote[t]
      BY <2>1 DEF Counters
    <3> QED BY <2>1, <2>2, <3>1, <3>2 DEF Accounted, Counters
  <2> QED BY <2>1, <2>2, <2>3, <2>4 DEF Counters
<1>2. ASSUME /\ UNCHANGED <<policy, wrote, inPipe, reader, channel, kept, step, outcome>>
             /\ worker' = worker \/ (worker = "runs" /\ worker' = "exited")
             /\ heir' \in BOOLEAN /\ (heir' => heir \/ worker = "runs")
             /\ elapsed' \in BOOLEAN /\ stop' \in BOOLEAN
      PROVE  ShellInv'
  <2>1. Shell!TypeOK'
    BY <1>2 DEF Shell!TypeOK
  <2>2. Counters' /\ Accounted'
    BY <1>2 DEF Counters, Accounted
  <2> QED BY <1>2, <2>1, <2>2
<1>3. heir \in BOOLEAN /\ elapsed \in BOOLEAN /\ stop \in BOOLEAN
  BY DEF Shell!TypeOK
<1>4. CASE Shell!Forks
  BY <1>2, <1>3, <1>4 DEF Shell!Forks
<1>5. CASE Shell!Exits
  BY <1>2, <1>3, <1>5 DEF Shell!Exits
<1>6. CASE Shell!HeirExits
  BY <1>2, <1>3, <1>6 DEF Shell!HeirExits
<1>7. CASE Shell!TimePasses
  BY <1>2, <1>3, <1>7 DEF Shell!TimePasses
<1>8. CASE Shell!StopPressed
  BY <1>2, <1>3, <1>8 DEF Shell!StopPressed
<1> QED BY <1>1, <1>4, <1>5, <1>6, <1>7, <1>8

\* The two reader threads.
LEMMA ReaderStep ==
  ASSUME ShellInv, NEW s \in Shell!Streams, Shell!Reads(s) \/ Shell!ReaderEnds(s)
  PROVE  ShellInv'
<1> USE DEF ShellInv, Shell!ShellSound, Shell!OutputWhole, Shell!NoChildLeft, ReadersEnd, LoopKnows,
            Silent
<1>1. CASE Shell!Reads(s)
  <2>1. /\ reader[s] = "reads" /\ inPipe[s] > 0
        /\ inPipe' = [inPipe EXCEPT ![s] = @ - 1]
        /\ UNCHANGED <<policy, worker, heir, wrote, kept, step, elapsed, stop, outcome>>
    BY <1>1 DEF Shell!Reads
  <2>2. CASE step = "done" /\ reader' = [reader EXCEPT ![s] = "ended"] /\ UNCHANGED channel
    <3>1. Counters'
      BY <2>1, <2>2 DEF Counters
    <3>2. Shell!TypeOK'
      BY <2>1, <2>2, <3>1 DEF Shell!TypeOK, Counters
    <3> QED BY <2>1, <2>2, <3>1, <3>2 DEF Accounted
  <2>3. CASE step # "done" /\ channel' = Append(channel, s) /\ UNCHANGED reader
    <3>1. Counters'
      BY <2>1, <2>3 DEF Counters
    <3>2. channel' \in Seq(Shell!Streams)
      BY <2>3, AppendProperties DEF Shell!TypeOK
    <3>3. Shell!TypeOK'
      BY <2>1, <2>3, <3>1, <3>2 DEF Shell!TypeOK, Counters
    <3>4. \A t \in Shell!Streams :
            /\ Count(channel, t) \in Nat
            /\ Count(channel', t) = IF t = s THEN Count(channel, t) + 1 ELSE Count(channel, t)
      BY <2>3, CountFinite, CountAppend DEF Shell!TypeOK
    <3>5. \A t \in Shell!Streams :
            inPipe'[t] + Count(channel', t) = inPipe[t] + Count(channel, t)
      BY <2>1, <3>4 DEF Counters
    <3>6. Accounted'
      BY <2>1, <3>1, <3>4, <3>5 DEF Accounted, Counters
    <3>7. ReadersEnd' /\ LoopKnows' /\ Shell!OutputWhole' /\ Shell!NoChildLeft'
      BY <2>1, <2>3 DEF Counters
    <3> QED BY <3>1, <3>3, <3>6, <3>7
  <2> QED BY <1>1, <2>2, <2>3 DEF Shell!Reads
<1>2. CASE Shell!ReaderEnds(s)
  <2>1. /\ inPipe[s] = 0 /\ worker # "runs" /\ ~heir
        /\ reader' = [reader EXCEPT ![s] = "ended"]
        /\ UNCHANGED <<policy, worker, heir, wrote, inPipe, channel, kept, step, elapsed, stop, outcome>>
    BY <1>2 DEF Shell!ReaderEnds
  <2>2. Counters' /\ Accounted'
    BY <2>1 DEF Counters, Accounted
  <2>3. Shell!TypeOK'
    BY <2>1, <2>2 DEF Shell!TypeOK, Counters
  <2> QED BY <2>1, <2>2, <2>3 DEF Counters
<1> QED BY <1>1, <1>2

\* Taking in what the channel holds.
LEMMA Feeding ==
  ASSUME ShellInv, step # "done", kept' = Shell!Fed(channel), channel' = <<>>,
         UNCHANGED <<wrote, inPipe>>
  PROVE  /\ kept' \in [Shell!Streams -> Nat] /\ channel' \in Seq(Shell!Streams)
         /\ \A s \in Shell!Streams : /\ kept'[s] = Capped(wrote[s] - inPipe[s])
                                     /\ kept'[s] \in 0..MAX_OUTPUT_SIZE
                                     /\ Count(channel', s) = 0
<1> USE Caps DEF ShellInv
<1>1. \A s \in Shell!Streams :
        /\ Count(channel, s) \in Nat
        /\ inPipe[s] + Count(channel, s) <= wrote[s]
        /\ kept[s] = Capped(wrote[s] - inPipe[s] - Count(channel, s))
  BY CountFinite DEF Accounted, Shell!ShellSound, Shell!TypeOK
<1>2. kept' = [s \in Shell!Streams |-> Capped(kept[s] + Count(channel, s))]
  <2>1. \A S : Shell!Cardinality(S) = Cardinality(S)
    BY Zenon DEF Shell!Cardinality, Cardinality
  <2> QED BY <2>1, Zenon DEF Shell!Fed, Capped, Count, Chunks
<1>3. \A s \in Shell!Streams : kept'[s] = Capped(wrote[s] - inPipe[s]) /\ kept'[s] \in 0..MAX_OUTPUT_SIZE
  <2> TAKE s \in Shell!Streams
  <2>1. wrote[s] \in Nat /\ inPipe[s] \in Nat /\ Count(channel, s) \in Nat
    BY <1>1 DEF Counters
  <2>2. kept'[s] = Capped(kept[s] + Count(channel, s))
    BY <1>2
  <2> HIDE DEF ShellInv
  <2>3. \A n, c \in Nat : Capped(Capped(n) + c) = Capped(n + c) /\ Capped(n) \in 0..MAX_OUTPUT_SIZE
    BY DEF Capped
  <2>4. PICK n \in Nat : n + Count(channel, s) = wrote[s] - inPipe[s] /\ kept[s] = Capped(n)
    BY <1>1, <2>1
  <2> DEFINE m == n + Count(channel, s)
  <2>6. m \in Nat
    BY <2>1
  <2>5. Capped(Capped(n) + Count(channel, s)) = Capped(n + Count(channel, s))
        /\ Capped(n + Count(channel, s)) \in 0..MAX_OUTPUT_SIZE
    BY <2>1, <2>3, <2>4, <2>6
  <2> QED BY <2>2, <2>4, <2>5
<1>4. kept' \in [Shell!Streams -> Nat]
  BY <1>2, <1>3
<1>5. channel' \in Seq(Shell!Streams) /\ \A s \in Shell!Streams : Count(channel', s) = 0
  BY EmptySeq, CountEmpty
<1> QED BY <1>3, <1>4, <1>5

\* The loop.
LEMMA LoopStep ==
  ASSUME ShellInv,
         \/ \E up \in BOOLEAN : Shell!Start(up)
         \/ Shell!EndsEarly \/ Shell!Pass \/ Shell!WaitFails \/ Shell!Drained
  PROVE  ShellInv'
<1> USE Caps DEF ShellInv, Shell!ShellSound, Shell!OutputWhole, Shell!NoChildLeft, ReadersEnd,
                 LoopKnows, Silent
<1>1. ASSUME NEW up \in BOOLEAN, Shell!Start(up) PROVE ShellInv'
  <2>1. step = "check" /\ UNCHANGED <<policy, heir, wrote, inPipe, channel, kept, elapsed, stop>>
    BY <1>1 DEF Shell!Start
  <2>2. \/ /\ step' = "done" /\ outcome' \in {"refused", "failed"} /\ UNCHANGED <<worker, reader>>
        \/ /\ worker' = "runs" /\ step' = "loop" /\ reader' = [s \in Shell!Streams |-> "reads"]
           /\ UNCHANGED outcome
    BY <1>1 DEF Shell!Start, Shell!Return
  <2>3. Counters' /\ Accounted'
    BY <2>1, <2>2 DEF Counters, Accounted
  <2>4. Shell!TypeOK'
    BY <2>1, <2>2 DEF Shell!TypeOK
  <2> QED BY <2>1, <2>2, <2>3, <2>4
<1>2. CASE Shell!EndsEarly
  <2>1. /\ step = "loop" /\ step' = "done" /\ outcome' \in {"timeout", "cancelled"}
        /\ worker' = IF worker = "runs" THEN "killed" ELSE worker
        /\ UNCHANGED <<policy, heir, wrote, inPipe, reader, channel, kept, elapsed, stop>>
    BY <1>2 DEF Shell!EndsEarly, Shell!Return
  <2>2. Counters' /\ Accounted'
    BY <2>1 DEF Counters, Accounted
  <2>3. Shell!TypeOK'
    BY <2>1 DEF Shell!TypeOK
  <2> QED BY <2>1, <2>2, <2>3
<1>3. CASE Shell!Pass
  <2>1. /\ step = "loop" /\ kept' = Shell!Fed(channel) /\ channel' = <<>>
        /\ step' = IF worker = "runs" THEN "loop" ELSE "drain"
        /\ UNCHANGED <<policy, worker, heir, wrote, inPipe, reader, elapsed, stop, outcome>>
    BY <1>3 DEF Shell!Pass
  <2>2. /\ kept' \in [Shell!Streams -> Nat] /\ channel' \in Seq(Shell!Streams)
        /\ \A s \in Shell!Streams : /\ kept'[s] = Capped(wrote[s] - inPipe[s])
                                    /\ kept'[s] \in 0..MAX_OUTPUT_SIZE
                                    /\ Count(channel', s) = 0
    BY <2>1, Feeding
  <2>3. Counters'
    BY <2>1, <2>2 DEF Counters
  <2>4. Accounted'
    BY <2>1, <2>2 DEF Accounted, Counters, Shell!TypeOK
  <2>5. Shell!TypeOK'
    BY <2>1, <2>2 DEF Shell!TypeOK
  <2> QED BY <2>1, <2>3, <2>4, <2>5
<1>4. CASE Shell!WaitFails
  <2>1. /\ step = "loop" /\ kept' = Shell!Fed(channel) /\ channel' = <<>>
        /\ worker' = "killed" /\ step' = "done" /\ outcome' = "failed"
        /\ UNCHANGED <<policy, heir, wrote, inPipe, reader, elapsed, stop>>
    BY <1>4 DEF Shell!WaitFails, Shell!Return
  <2>2. /\ kept' \in [Shell!Streams -> Nat] /\ channel' \in Seq(Shell!Streams)
        /\ \A s \in Shell!Streams : kept'[s] \in 0..MAX_OUTPUT_SIZE
    BY <2>1, Feeding
  <2>3. Counters' /\ Accounted'
    BY <2>1, <2>2 DEF Counters, Accounted
  <2>4. Shell!TypeOK'
    BY <2>1, <2>2 DEF Shell!TypeOK
  <2> QED BY <2>1, <2>3, <2>4
<1>5. CASE Shell!Drained
  <2>1. /\ step = "drain" /\ \A s \in Shell!Streams : reader[s] = "ended"
        /\ kept' = Shell!Fed(channel) /\ channel' = <<>>
        /\ step' = "done" /\ outcome' = "ok"
        /\ UNCHANGED <<policy, worker, heir, wrote, inPipe, reader, elapsed, stop>>
    BY <1>5 DEF Shell!Drained, Shell!Return
  <2>2. /\ kept' \in [Shell!Streams -> Nat] /\ channel' \in Seq(Shell!Streams)
        /\ \A s \in Shell!Streams : /\ kept'[s] = Capped(wrote[s] - inPipe[s])
                                    /\ kept'[s] \in 0..MAX_OUTPUT_SIZE
    BY <2>1, Feeding
  <2>3. Silent /\ \A s \in Shell!Streams : inPipe[s] = 0
    BY <2>1 DEF Shell!Streams
  <2>4. \A s \in Shell!Streams :
          kept'[s] = IF wrote[s] < MAX_OUTPUT_SIZE THEN wrote[s] ELSE MAX_OUTPUT_SIZE
    BY <2>2, <2>3 DEF Capped, Counters
  <2>5. Counters' /\ Accounted'
    BY <2>1, <2>2 DEF Counters, Accounted
  <2>6. Shell!TypeOK'
    BY <2>1, <2>2 DEF Shell!TypeOK
  <2> QED BY <2>1, <2>3, <2>4, <2>5, <2>6
<1> QED BY <1>1, <1>2, <1>3, <1>4, <1>5

\* A shell command's output is complete up to the cap, and a call that has returned
\* leaves no child running (ShellTool::run_command), for any cap and any number of
\* chunks.
THEOREM CommandsOutput == Spec => []CommandsSound
<1>1. Init => ShellInv
  BY ShellInit DEF Init
<1>2. ShellInv /\ [Next]_vars => ShellInv'
  <2>1. ASSUME ShellInv, Shell!Next PROVE ShellInv'
    BY <2>1, CommandStep, ReaderStep, LoopStep DEF Shell!Next
  <2> QED BY <2>1, ShellStays DEF Next, vars
<1>3. ShellInv => CommandsSound
  BY DEF ShellInv, CommandsSound
<1> QED BY <1>1, <1>2, <1>3, PTL DEF Spec

-----------------------------------------------------------------------------
(* One MCP server (McpServers).                                            *)

Pcs == {"idle", "begin", "dial", "list", "swap", "register", "finish", "unregister", "take",
        "kill", "status", "erase"}

OpType == [kind: Mcp!Kinds \cup {"none"}, pc: Pcs, client: 0..MaxClients,
           tools: SUBSET Tools, off: SUBSET Tools]
ServerType == [known: BOOLEAN, enabled: BOOLEAN, status: Mcp!Statuses,
               tools: SUBSET Tools, off: SUBSET Tools, client: 0..MaxClients]
ProcsType == [Mcp!Clients -> {"none", "up", "mute", "killed"}]

OpsTyped == op \in [Slots -> OpType]

\* Without an entry there are no flags, no client and no connection.
Absent ==
  ~server.known => server.off = {} /\ server.client = 0 /\ server.status = "configured"

McpTyped ==
  /\ server \in ServerType /\ registry \subseteq Tools /\ procs \in ProcsType
  /\ OpsTyped /\ Absent
  /\ toggle = None \/ toggle \in [tool: Tools, on: BOOLEAN]
  /\ job \in Slots \cup {None} /\ down \in BOOLEAN
  /\ clash \in {"none", "some", "flags"} /\ started \in 0..MaxOps + 1

Loading(s) == op[s].kind \in Mcp!Loads /\ op[s].pc # "idle"

\* A connect has the flags from its swap to its end.
HasFlags(s) == op[s].kind \in Mcp!Connects /\ op[s].pc \in {"register", "finish"}

\* The tools that are off, wherever the flags are kept, are registered only while
\* the toggle that switched one off has yet to take it out.
Kept(off) ==
  /\ \A t \in registry \cap off : toggle # None /\ toggle.tool = t /\ ~toggle.on
  /\ toggle # None /\ toggle.on => toggle.tool \notin off

FlagsKept ==
  clash # "flags" =>
    /\ \A s, r \in Slots : Loading(s) /\ Loading(r) => s = r
    /\ \A s \in Slots : HasFlags(s) => Kept(op[s].off)
    /\ (\A s \in Slots : ~HasFlags(s)) => Kept(server.off)

\* The operations that have a process in hand besides the entry's.
Holding(s) ==
  \/ op[s].kind \in Mcp!Connects /\ op[s].pc \in {"list", "swap", "register", "finish"}
  \/ op[s].kind \in Mcp!Disconnects /\ op[s].pc = "kill"

\* What is known of the processes when at most the operation of s is under way, by
\* the point it has reached.
Sole(s) ==
  /\ \A c \in Mcp!Clients : procs[c] = "up" =>
       server.client = c \/ (Holding(s) /\ op[s].client = c)
  /\ server.client # 0 => procs[server.client] = "up"
  /\ server.status = "connected" =>
       server.client # 0 \/ (op[s].kind \in Mcp!Disconnects /\ op[s].pc \in {"kill", "status"})
  /\ op[s].kind \in Mcp!Connects =>
       /\ op[s].pc \in {"dial", "list", "swap", "register", "finish"} =>
            server.known /\ server.status # "connected"
       /\ op[s].pc \in {"list", "swap", "register", "finish"} =>
            op[s].client # 0 /\ procs[op[s].client] = "up" /\ op[s].client # server.client
       /\ op[s].pc \in {"register", "finish"} => server.client = 0
  /\ op[s].kind \in Mcp!Disconnects =>
       /\ op[s].pc \in {"unregister", "take"} => server.known
       /\ op[s].pc \in {"kill", "status", "erase"} => server.client = 0
  /\ op[s].kind = "refresh" /\ op[s].pc \in {"list", "swap"} => server.client # 0

\* As long as operations have not overlapped, that of the one under way holds.
ProcsOwned ==
  clash = "none" =>
    /\ \A s, r \in Slots : op[s].pc # "idle" /\ op[r].pc # "idle" => s = r
    /\ \A s \in Slots : (\A r \in Slots \ {s} : op[r].pc = "idle") => Sole(s)

McpInv == McpTyped /\ FlagsKept /\ ProcsOwned

LEMMA McpBounds == MaxClients \in Nat /\ MaxOps \in Nat /\ None \notin Slots
BY BoundAssumption, NoneAssumption

LEMMA Records ==
  /\ Mcp!Idle \in OpType /\ Mcp!NoServer \in ServerType
  /\ Mcp!Idle.pc = "idle" /\ Mcp!Idle.kind = "none"
  /\ ~Mcp!NoServer.known /\ Mcp!NoServer.off = {} /\ Mcp!NoServer.client = 0
  /\ Mcp!NoServer.status = "configured"
  /\ \A on \in BOOLEAN : /\ Mcp!NewServer(on) \in ServerType /\ Mcp!NewServer(on).off = {}
                         /\ Mcp!NewServer(on).client = 0 /\ Mcp!NewServer(on).status = "configured"
                         /\ Mcp!NewServer(on).known
<1>1. Mcp!Idle \in OpType /\ Mcp!Idle.pc = "idle" /\ Mcp!Idle.kind = "none"
  BY McpBounds DEF OpType, Mcp!Idle, Pcs
<1>2. \A on \in BOOLEAN : /\ Mcp!NewServer(on) \in ServerType /\ Mcp!NewServer(on).off = {}
                         /\ Mcp!NewServer(on).client = 0 /\ Mcp!NewServer(on).status = "configured"
                         /\ Mcp!NewServer(on).known
  BY McpBounds DEF ServerType, Mcp!NewServer, Mcp!Statuses
<1>3. Mcp!NoServer = [Mcp!NewServer(FALSE) EXCEPT !.known = FALSE]
  BY DEF Mcp!NoServer
<1> QED BY <1>1, <1>2, <1>3 DEF ServerType

LEMMA TypedIsOK == McpTyped => Mcp!TypeOK
BY DEF McpTyped, Mcp!TypeOK, ServerType, ProcsType, OpsTyped, OpType, Mcp!Kinds, Mcp!Statuses

\* Only the operation of s moves, to o.
LEMMA Moved ==
  ASSUME OpsTyped, NEW s \in Slots, NEW o \in OpType, op' = [op EXCEPT ![s] = o]
  PROVE  OpsTyped' /\ op'[s] = o /\ \A r \in Slots \ {s} : op'[r] = op[r]
BY DEF OpsTyped

\* A step that neither adds flags nor registers a tool.
LEMMA FlagsLess ==
  ASSUME FlagsKept, UNCHANGED <<toggle, clash>>, NEW s \in Slots,
         \A r \in Slots \ {s} : op'[r] = op[r],
         Loading(s)' => Loading(s), ~HasFlags(s), ~HasFlags(s)',
         registry' \subseteq registry, server'.off \subseteq server.off
  PROVE  FlagsKept'
<1>1. \A r \in Slots \ {s} : Loading(r)' = Loading(r) /\ HasFlags(r)' = HasFlags(r)
  BY DEF Loading, HasFlags
<1>2. \A off : Kept(off) => Kept(off)'
  BY DEF Kept
<1>3. Kept(server.off) => Kept(server.off)'
  BY DEF Kept
<1> QED BY <1>1, <1>2, <1>3 DEF FlagsKept

\* The operation of s is under way alone: what it knows before it knows after.
LEMMA AloneStep ==
  ASSUME ProcsOwned, NEW s \in Slots, op[s].pc # "idle", clash' = clash,
         \A r \in Slots \ {s} : op'[r] = op[r],
         clash = "none" /\ Sole(s) => Sole(s)'
  PROVE  ProcsOwned'
<1> SUFFICES ASSUME clash' = "none" 
                PROVE  /\ \A q, r \in Slots : op'[q].pc # "idle" /\ op'[r].pc # "idle" => q = r
                       /\ \A q \in Slots : (\A r \in Slots \ {q} : op'[r].pc = "idle") => Sole(q)'
  BY DEF ProcsOwned
<1>1. \A r \in Slots \ {s} : op[r].pc = "idle"
  BY DEF ProcsOwned
<1>2. Sole(s)'
  BY <1>1 DEF ProcsOwned
<1>3. \A r \in Slots \ {s} : op'[r].pc = "idle" /\ op'[r] = op[r]
  BY <1>1
<1>4. ASSUME op'[s].pc = "idle", NEW r \in Slots PROVE Sole(r)'
  BY <1>2, <1>3, <1>4 DEF Sole, Holding
<1> QED BY <1>2, <1>3, <1>4

\* connect_async
LEMMA ConnectStep ==
  ASSUME McpInv, NEW s \in Slots,
         \/ Mcp!ConnectBegin(s) \/ Mcp!Dial(s) \/ Mcp!DialFails(s) \/ Mcp!ListTools(s) \/ Mcp!ListFails(s) \/ Mcp!Swap(s) \/ Mcp!Register(s) \/ Mcp!Finish(s)
  PROVE  McpInv'
<1> USE DEF McpInv
<1>1. CASE Mcp!ConnectBegin(s)
  <2>1. /\ op[s].kind \in Mcp!Connects
        /\ op[s].pc = "begin"
        /\ UNCHANGED <<registry, procs, toggle, job, down, started, clash>>
    BY <1>1 DEF Mcp!ConnectBegin, Mcp!At, Mcp!Goto, Mcp!End, Mcp!WithStatus, Mcp!Kill
  <2>0. op[s] \in OpType /\ server \in ServerType /\ procs \in ProcsType
    BY DEF McpTyped, OpsTyped
  <2>2. CASE /\ op' = [op EXCEPT ![s] = Mcp!Idle]
             /\ server' = server
    <3>1. Mcp!Idle \in OpType
      BY <2>0, <2>1, <2>2, Records DEF OpType, Pcs, ServerType
    <3>2. /\ OpsTyped'
          /\ op'[s].kind = "none"
          /\ op'[s].pc = "idle"
          /\ \A r \in Slots \ {s} : op'[r] = op[r]
      <4>1. OpsTyped' /\ op'[s] = Mcp!Idle /\ \A r \in Slots \ {s} : op'[r] = op[r]
        BY <2>2, <3>1, Moved DEF McpTyped
      <4> QED BY <2>0, <4>1, Records DEF OpType
    <3>3. /\ server' \in ServerType
          /\ server' = server
      BY <2>0, <2>1, <2>2, Records DEF ServerType, OpType, Mcp!Statuses
    <3>4. McpTyped'
      BY <2>1, <2>2, <3>2, <3>3 DEF McpTyped, Absent, ProcsType
    <3>5. FlagsKept'
      <4>1. (Loading(s)' => Loading(s)) /\ ~HasFlags(s) /\ ~HasFlags(s)'
        BY <2>1, <3>2 DEF Loading, HasFlags
      <4>2. registry' \subseteq registry /\ server'.off \subseteq server.off
        BY <2>1, <2>2, <3>3
      <4> QED BY <2>1, <3>2, <4>1, <4>2, FlagsLess
    <3>6. clash = "none" /\ Sole(s) => Sole(s)'
      BY <2>0, <2>1, <2>2, <3>2, <3>3 DEF Sole, Holding, ServerType, ProcsType
    <3> QED BY <2>1, <3>2, <3>4, <3>5, <3>6, AloneStep
  <2>3. CASE /\ server.known
             /\ op' = [op EXCEPT ![s] = [op[s] EXCEPT !.pc = "dial"]]
             /\ server' = [server EXCEPT !.status = "connecting"]
    <3>1. [op[s] EXCEPT !.pc = "dial"] \in OpType
      BY <2>0, <2>1, <2>3, Records DEF OpType, Pcs, ServerType
    <3>2. /\ OpsTyped'
          /\ op'[s].kind = op[s].kind
          /\ op'[s].pc = "dial"
          /\ op'[s].client = op[s].client
          /\ op'[s].off = op[s].off
          /\ \A r \in Slots \ {s} : op'[r] = op[r]
      <4>1. OpsTyped' /\ op'[s] = [op[s] EXCEPT !.pc = "dial"] /\ \A r \in Slots \ {s} : op'[r] = op[r]
        BY <2>3, <3>1, Moved DEF McpTyped
      <4> QED BY <2>0, <4>1, Records DEF OpType
    <3>3. /\ server' \in ServerType
          /\ server'.status = "connecting"
          /\ server'.known = server.known
          /\ server'.off = server.off
          /\ server'.client = server.client
      BY <2>0, <2>1, <2>3, Records DEF ServerType, OpType, Mcp!Statuses
    <3>4. McpTyped'
      BY <2>1, <2>3, <3>2, <3>3 DEF McpTyped, Absent, ProcsType
    <3>5. FlagsKept'
      <4>1. (Loading(s)' => Loading(s)) /\ ~HasFlags(s) /\ ~HasFlags(s)'
        BY <2>1, <3>2 DEF Loading, HasFlags
      <4>2. registry' \subseteq registry /\ server'.off \subseteq server.off
        BY <2>1, <2>3, <3>3
      <4> QED BY <2>1, <3>2, <4>1, <4>2, FlagsLess
    <3>6. clash = "none" /\ Sole(s) => Sole(s)'
      BY <2>0, <2>1, <2>3, <3>2, <3>3 DEF Sole, Holding, ServerType, ProcsType
    <3> QED BY <2>1, <3>2, <3>4, <3>5, <3>6, AloneStep
  <2> QED BY <1>1, <2>1, <2>2, <2>3 DEF Mcp!ConnectBegin, Mcp!At, Mcp!Goto, Mcp!End, Mcp!WithStatus, Mcp!Kill, McpTyped, OpsTyped
<1>2. CASE Mcp!Dial(s)
  <2>1. /\ op[s].kind \in Mcp!Connects
        /\ op[s].pc = "dial"
        /\ UNCHANGED <<registry, toggle, job, down, started, clash>>
    BY <1>2 DEF Mcp!Dial, Mcp!At, Mcp!Goto, Mcp!End, Mcp!WithStatus, Mcp!Kill
  <2>0. op[s] \in OpType /\ server \in ServerType /\ procs \in ProcsType
    BY DEF McpTyped, OpsTyped
  <2>2. ASSUME NEW c \in Mcp!Clients,
              /\ procs[c] = "none"
              /\ op' = [op EXCEPT ![s] = [op[s] EXCEPT !.pc = "list", !.client = c]]
              /\ server' = server
              /\ procs' = [procs EXCEPT ![c] = "up"]
       PROVE  McpInv'
    <3>0. c \in 0..MaxClients
      BY McpBounds DEF Mcp!Clients
    <3>1. [op[s] EXCEPT !.pc = "list", !.client = c] \in OpType
      BY <2>0, <2>1, <2>2, Records, <3>0 DEF OpType, Pcs, ServerType
    <3>2. /\ OpsTyped'
          /\ op'[s].kind = op[s].kind
          /\ op'[s].pc = "list"
          /\ op'[s].client = c
          /\ op'[s].off = op[s].off
          /\ \A r \in Slots \ {s} : op'[r] = op[r]
      <4>1. OpsTyped' /\ op'[s] = [op[s] EXCEPT !.pc = "list", !.client = c] /\ \A r \in Slots \ {s} : op'[r] = op[r]
        BY <2>2, <3>1, Moved DEF McpTyped
      <4> QED BY <2>0, <4>1, Records DEF OpType
    <3>3. /\ server' \in ServerType
          /\ server' = server
      BY <2>0, <2>1, <2>2, Records DEF ServerType, OpType, Mcp!Statuses
    <3>4. McpTyped'
      BY <2>1, <2>2, <3>2, <3>3 DEF McpTyped, Absent, ProcsType, Mcp!Clients
    <3>5. FlagsKept'
      <4>1. (Loading(s)' => Loading(s)) /\ ~HasFlags(s) /\ ~HasFlags(s)'
        BY <2>1, <3>2 DEF Loading, HasFlags
      <4>2. registry' \subseteq registry /\ server'.off \subseteq server.off
        BY <2>1, <2>2, <3>3
      <4> QED BY <2>1, <3>2, <4>1, <4>2, FlagsLess
    <3>6. clash = "none" /\ Sole(s) => Sole(s)'
      BY <2>0, <2>1, <2>2, <3>2, <3>3 DEF Sole, Holding, ServerType, ProcsType, Mcp!Clients, Mcp!Connects, Mcp!Disconnects
    <3> QED BY <2>1, <3>2, <3>4, <3>5, <3>6, AloneStep
  <2> QED BY <1>2, <2>1, <2>2 DEF Mcp!Dial, Mcp!At, Mcp!Goto, Mcp!End, Mcp!WithStatus, Mcp!Kill, McpTyped, OpsTyped
<1>3. CASE Mcp!DialFails(s)
  <2>1. /\ op[s].kind \in Mcp!Connects
        /\ op[s].pc = "dial"
        /\ UNCHANGED <<registry, toggle, job, down, started, clash>>
    BY <1>3 DEF Mcp!DialFails, Mcp!At, Mcp!Goto, Mcp!End, Mcp!WithStatus, Mcp!Kill
  <2>0. op[s] \in OpType /\ server \in ServerType /\ procs \in ProcsType
    BY DEF McpTyped, OpsTyped
  <2>2. CASE /\ procs' = procs
             /\ server.known
             /\ op' = [op EXCEPT ![s] = Mcp!Idle]
             /\ server' = [server EXCEPT !.status = "error"]
    <3>1. Mcp!Idle \in OpType
      BY <2>0, <2>1, <2>2, Records DEF OpType, Pcs, ServerType
    <3>2. /\ OpsTyped'
          /\ op'[s].kind = "none"
          /\ op'[s].pc = "idle"
          /\ \A r \in Slots \ {s} : op'[r] = op[r]
      <4>1. OpsTyped' /\ op'[s] = Mcp!Idle /\ \A r \in Slots \ {s} : op'[r] = op[r]
        BY <2>2, <3>1, Moved DEF McpTyped
      <4> QED BY <2>0, <4>1, Records DEF OpType
    <3>3. /\ server' \in ServerType
          /\ server'.status = "error"
          /\ server'.known = server.known
          /\ server'.off = server.off
          /\ server'.client = server.client
      BY <2>0, <2>1, <2>2, Records DEF ServerType, OpType, Mcp!Statuses
    <3>4. McpTyped'
      BY <2>1, <2>2, <3>2, <3>3 DEF McpTyped, Absent, ProcsType
    <3>5. FlagsKept'
      <4>1. (Loading(s)' => Loading(s)) /\ ~HasFlags(s) /\ ~HasFlags(s)'
        BY <2>1, <3>2 DEF Loading, HasFlags
      <4>2. registry' \subseteq registry /\ server'.off \subseteq server.off
        BY <2>1, <2>2, <3>3
      <4> QED BY <2>1, <3>2, <4>1, <4>2, FlagsLess
    <3>6. clash = "none" /\ Sole(s) => Sole(s)'
      BY <2>0, <2>1, <2>2, <3>2, <3>3 DEF Sole, Holding, ServerType, ProcsType
    <3> QED BY <2>1, <3>2, <3>4, <3>5, <3>6, AloneStep
  <2>3. CASE /\ procs' = procs
             /\ ~server.known
             /\ op' = [op EXCEPT ![s] = Mcp!Idle]
             /\ server' = server
    <3>1. Mcp!Idle \in OpType
      BY <2>0, <2>1, <2>3, Records DEF OpType, Pcs, ServerType
    <3>2. /\ OpsTyped'
          /\ op'[s].kind = "none"
          /\ op'[s].pc = "idle"
          /\ \A r \in Slots \ {s} : op'[r] = op[r]
      <4>1. OpsTyped' /\ op'[s] = Mcp!Idle /\ \A r \in Slots \ {s} : op'[r] = op[r]
        BY <2>3, <3>1, Moved DEF McpTyped
      <4> QED BY <2>0, <4>1, Records DEF OpType
    <3>3. /\ server' \in ServerType
          /\ server' = server
      BY <2>0, <2>1, <2>3, Records DEF ServerType, OpType, Mcp!Statuses
    <3>4. McpTyped'
      BY <2>1, <2>3, <3>2, <3>3 DEF McpTyped, Absent, ProcsType
    <3>5. FlagsKept'
      <4>1. (Loading(s)' => Loading(s)) /\ ~HasFlags(s) /\ ~HasFlags(s)'
        BY <2>1, <3>2 DEF Loading, HasFlags
      <4>2. registry' \subseteq registry /\ server'.off \subseteq server.off
        BY <2>1, <2>3, <3>3
      <4> QED BY <2>1, <3>2, <4>1, <4>2, FlagsLess
    <3>6. clash = "none" /\ Sole(s) => Sole(s)'
      BY <2>0, <2>1, <2>3, <3>2, <3>3 DEF Sole, Holding, ServerType, ProcsType, McpTyped, Absent
    <3> QED BY <2>1, <3>2, <3>4, <3>5, <3>6, AloneStep
  <2>4. ASSUME NEW c \in Mcp!Clients,
              /\ procs[c] = "none"
              /\ server.known
              /\ op' = [op EXCEPT ![s] = Mcp!Idle]
              /\ server' = [server EXCEPT !.status = "error"]
              /\ procs' = [procs EXCEPT ![c] = "mute"]
       PROVE  McpInv'
    <3>0. c \in 0..MaxClients
      BY McpBounds DEF Mcp!Clients
    <3>1. Mcp!Idle \in OpType
      BY <2>0, <2>1, <2>4, Records DEF OpType, Pcs, ServerType
    <3>2. /\ OpsTyped'
          /\ op'[s].kind = "none"
          /\ op'[s].pc = "idle"
          /\ \A r \in Slots \ {s} : op'[r] = op[r]
      <4>1. OpsTyped' /\ op'[s] = Mcp!Idle /\ \A r \in Slots \ {s} : op'[r] = op[r]
        BY <2>4, <3>1, Moved DEF McpTyped
      <4> QED BY <2>0, <4>1, Records DEF OpType
    <3>3. /\ server' \in ServerType
          /\ server'.status = "error"
          /\ server'.known = server.known
          /\ server'.off = server.off
          /\ server'.client = server.client
      BY <2>0, <2>1, <2>4, Records DEF ServerType, OpType, Mcp!Statuses
    <3>4. McpTyped'
      BY <2>1, <2>4, <3>2, <3>3 DEF McpTyped, Absent, ProcsType
    <3>5. FlagsKept'
      <4>1. (Loading(s)' => Loading(s)) /\ ~HasFlags(s) /\ ~HasFlags(s)'
        BY <2>1, <3>2 DEF Loading, HasFlags
      <4>2. registry' \subseteq registry /\ server'.off \subseteq server.off
        BY <2>1, <2>4, <3>3
      <4> QED BY <2>1, <3>2, <4>1, <4>2, FlagsLess
    <3>6. clash = "none" /\ Sole(s) => Sole(s)'
      BY <2>0, <2>1, <2>4, <3>2, <3>3 DEF Sole, Holding, ServerType, ProcsType
    <3> QED BY <2>1, <3>2, <3>4, <3>5, <3>6, AloneStep
  <2>5. ASSUME NEW c \in Mcp!Clients,
              /\ procs[c] = "none"
              /\ ~server.known
              /\ op' = [op EXCEPT ![s] = Mcp!Idle]
              /\ server' = server
              /\ procs' = [procs EXCEPT ![c] = "mute"]
       PROVE  McpInv'
    <3>0. c \in 0..MaxClients
      BY McpBounds DEF Mcp!Clients
    <3>1. Mcp!Idle \in OpType
      BY <2>0, <2>1, <2>5, Records DEF OpType, Pcs, ServerType
    <3>2. /\ OpsTyped'
          /\ op'[s].kind = "none"
          /\ op'[s].pc = "idle"
          /\ \A r \in Slots \ {s} : op'[r] = op[r]
      <4>1. OpsTyped' /\ op'[s] = Mcp!Idle /\ \A r \in Slots \ {s} : op'[r] = op[r]
        BY <2>5, <3>1, Moved DEF McpTyped
      <4> QED BY <2>0, <4>1, Records DEF OpType
    <3>3. /\ server' \in ServerType
          /\ server' = server
      BY <2>0, <2>1, <2>5, Records DEF ServerType, OpType, Mcp!Statuses
    <3>4. McpTyped'
      BY <2>1, <2>5, <3>2, <3>3 DEF McpTyped, Absent, ProcsType
    <3>5. FlagsKept'
      <4>1. (Loading(s)' => Loading(s)) /\ ~HasFlags(s) /\ ~HasFlags(s)'
        BY <2>1, <3>2 DEF Loading, HasFlags
      <4>2. registry' \subseteq registry /\ server'.off \subseteq server.off
        BY <2>1, <2>5, <3>3
      <4> QED BY <2>1, <3>2, <4>1, <4>2, FlagsLess
    <3>6. clash = "none" /\ Sole(s) => Sole(s)'
      BY <2>0, <2>1, <2>5, <3>2, <3>3 DEF Sole, Holding, ServerType, ProcsType, McpTyped, Absent
    <3> QED BY <2>1, <3>2, <3>4, <3>5, <3>6, AloneStep
  <2> QED BY <1>3, <2>1, <2>2, <2>3, <2>4, <2>5 DEF Mcp!DialFails, Mcp!At, Mcp!Goto, Mcp!End, Mcp!WithStatus, Mcp!Kill, McpTyped, OpsTyped
<1>4. CASE Mcp!ListTools(s)
  <2>1. /\ op[s].kind \in Mcp!Connects \cup {"refresh"}
        /\ op[s].pc = "list"
        /\ UNCHANGED <<registry, procs, toggle, job, down, started, clash>>
    BY <1>4 DEF Mcp!ListTools, Mcp!At, Mcp!Goto, Mcp!End, Mcp!WithStatus, Mcp!Kill
  <2>0. op[s] \in OpType /\ server \in ServerType /\ procs \in ProcsType
    BY DEF McpTyped, OpsTyped
  <2>2. ASSUME NEW found \in SUBSET Tools,
              /\ op' = [op EXCEPT ![s] = [op[s] EXCEPT !.pc = "swap", !.tools = found]]
              /\ server' = server
       PROVE  McpInv'
    <3>1. [op[s] EXCEPT !.pc = "swap", !.tools = found] \in OpType
      BY <2>0, <2>1, <2>2, Records DEF OpType, Pcs, ServerType
    <3>2. /\ OpsTyped'
          /\ op'[s].kind = op[s].kind
          /\ op'[s].pc = "swap"
          /\ op'[s].tools = found
          /\ op'[s].client = op[s].client
          /\ op'[s].off = op[s].off
          /\ \A r \in Slots \ {s} : op'[r] = op[r]
      <4>1. OpsTyped' /\ op'[s] = [op[s] EXCEPT !.pc = "swap", !.tools = found] /\ \A r \in Slots \ {s} : op'[r] = op[r]
        BY <2>2, <3>1, Moved DEF McpTyped
      <4> QED BY <2>0, <4>1, Records DEF OpType
    <3>3. /\ server' \in ServerType
          /\ server' = server
      BY <2>0, <2>1, <2>2, Records DEF ServerType, OpType, Mcp!Statuses
    <3>4. McpTyped'
      BY <2>1, <2>2, <3>2, <3>3 DEF McpTyped, Absent, ProcsType
    <3>5. FlagsKept'
      <4>1. (Loading(s)' => Loading(s)) /\ ~HasFlags(s) /\ ~HasFlags(s)'
        BY <2>1, <3>2 DEF Loading, HasFlags
      <4>2. registry' \subseteq registry /\ server'.off \subseteq server.off
        BY <2>1, <2>2, <3>3
      <4> QED BY <2>1, <3>2, <4>1, <4>2, FlagsLess
    <3>6. clash = "none" /\ Sole(s) => Sole(s)'
      BY <2>0, <2>1, <2>2, <3>2, <3>3 DEF Sole, Holding, ServerType, ProcsType, Mcp!Connects, Mcp!Disconnects
    <3> QED BY <2>1, <3>2, <3>4, <3>5, <3>6, AloneStep
  <2> QED BY <1>4, <2>1, <2>2 DEF Mcp!ListTools, Mcp!At, Mcp!Goto, Mcp!End, Mcp!WithStatus, Mcp!Kill, McpTyped, OpsTyped
<1>5. CASE Mcp!ListFails(s)
  <2>1. /\ op[s].kind \in Mcp!Connects
        /\ op[s].pc = "list"
        /\ UNCHANGED <<registry, toggle, job, down, started, clash>>
    BY <1>5 DEF Mcp!ListFails, Mcp!At, Mcp!Goto, Mcp!End, Mcp!WithStatus, Mcp!Kill
  <2>0. op[s] \in OpType /\ server \in ServerType /\ procs \in ProcsType
    BY DEF McpTyped, OpsTyped
  <2>2. CASE /\ server.known
             /\ procs' = IF op[s].client = 0 THEN procs ELSE [procs EXCEPT ![op[s].client] = "killed"]
             /\ op' = [op EXCEPT ![s] = Mcp!Idle]
             /\ server' = [server EXCEPT !.status = "error"]
    <3>1. Mcp!Idle \in OpType
      BY <2>0, <2>1, <2>2, Records DEF OpType, Pcs, ServerType
    <3>2. /\ OpsTyped'
          /\ op'[s].kind = "none"
          /\ op'[s].pc = "idle"
          /\ \A r \in Slots \ {s} : op'[r] = op[r]
      <4>1. OpsTyped' /\ op'[s] = Mcp!Idle /\ \A r \in Slots \ {s} : op'[r] = op[r]
        BY <2>2, <3>1, Moved DEF McpTyped
      <4> QED BY <2>0, <4>1, Records DEF OpType
    <3>3. /\ server' \in ServerType
          /\ server'.status = "error"
          /\ server'.known = server.known
          /\ server'.off = server.off
          /\ server'.client = server.client
      BY <2>0, <2>1, <2>2, Records DEF ServerType, OpType, Mcp!Statuses
    <3>4. McpTyped'
      BY <2>1, <2>2, <3>2, <3>3 DEF McpTyped, Absent, ProcsType
    <3>5. FlagsKept'
      <4>1. (Loading(s)' => Loading(s)) /\ ~HasFlags(s) /\ ~HasFlags(s)'
        BY <2>1, <3>2 DEF Loading, HasFlags
      <4>2. registry' \subseteq registry /\ server'.off \subseteq server.off
        BY <2>1, <2>2, <3>3
      <4> QED BY <2>1, <3>2, <4>1, <4>2, FlagsLess
    <3>6. clash = "none" /\ Sole(s) => Sole(s)'
      BY <2>0, <2>1, <2>2, <3>2, <3>3 DEF Sole, Holding, ServerType, ProcsType, Mcp!Connects, Mcp!Disconnects, Mcp!Clients
    <3> QED BY <2>1, <3>2, <3>4, <3>5, <3>6, AloneStep
  <2>3. CASE /\ ~server.known
             /\ procs' = IF op[s].client = 0 THEN procs ELSE [procs EXCEPT ![op[s].client] = "killed"]
             /\ op' = [op EXCEPT ![s] = Mcp!Idle]
             /\ server' = server
    <3>1. Mcp!Idle \in OpType
      BY <2>0, <2>1, <2>3, Records DEF OpType, Pcs, ServerType
    <3>2. /\ OpsTyped'
          /\ op'[s].kind = "none"
          /\ op'[s].pc = "idle"
          /\ \A r \in Slots \ {s} : op'[r] = op[r]
      <4>1. OpsTyped' /\ op'[s] = Mcp!Idle /\ \A r \in Slots \ {s} : op'[r] = op[r]
        BY <2>3, <3>1, Moved DEF McpTyped
      <4> QED BY <2>0, <4>1, Records DEF OpType
    <3>3. /\ server' \in ServerType
          /\ server' = server
      BY <2>0, <2>1, <2>3, Records DEF ServerType, OpType, Mcp!Statuses
    <3>4. McpTyped'
      BY <2>1, <2>3, <3>2, <3>3 DEF McpTyped, Absent, ProcsType
    <3>5. FlagsKept'
      <4>1. (Loading(s)' => Loading(s)) /\ ~HasFlags(s) /\ ~HasFlags(s)'
        BY <2>1, <3>2 DEF Loading, HasFlags
      <4>2. registry' \subseteq registry /\ server'.off \subseteq server.off
        BY <2>1, <2>3, <3>3
      <4> QED BY <2>1, <3>2, <4>1, <4>2, FlagsLess
    <3>6. clash = "none" /\ Sole(s) => Sole(s)'
      BY <2>0, <2>1, <2>3, <3>2, <3>3 DEF Sole, Holding, ServerType, ProcsType, Mcp!Connects, Mcp!Disconnects, Mcp!Clients, McpTyped, Absent
    <3> QED BY <2>1, <3>2, <3>4, <3>5, <3>6, AloneStep
  <2> QED BY <1>5, <2>1, <2>2, <2>3 DEF Mcp!ListFails, Mcp!At, Mcp!Goto, Mcp!End, Mcp!WithStatus, Mcp!Kill, McpTyped, OpsTyped
<1>6. CASE Mcp!Swap(s)
  <2>1. /\ op[s].kind \in Mcp!Connects
        /\ op[s].pc = "swap"
        /\ UNCHANGED <<registry, toggle, job, down, started, clash>>
    BY <1>6 DEF Mcp!Swap, Mcp!At, Mcp!Goto, Mcp!End, Mcp!WithStatus, Mcp!Kill
  <2>0. op[s] \in OpType /\ server \in ServerType /\ procs \in ProcsType
    BY DEF McpTyped, OpsTyped
  <2>2. CASE /\ ~server.known
             /\ procs' = procs
             /\ op' = [op EXCEPT ![s] = Mcp!Idle]
             /\ server' = server
    <3>1. Mcp!Idle \in OpType
      BY <2>0, <2>1, <2>2, Records DEF OpType, Pcs, ServerType
    <3>2. /\ OpsTyped'
          /\ op'[s].kind = "none"
          /\ op'[s].pc = "idle"
          /\ \A r \in Slots \ {s} : op'[r] = op[r]
      <4>1. OpsTyped' /\ op'[s] = Mcp!Idle /\ \A r \in Slots \ {s} : op'[r] = op[r]
        BY <2>2, <3>1, Moved DEF McpTyped
      <4> QED BY <2>0, <4>1, Records DEF OpType
    <3>3. /\ server' \in ServerType
          /\ server' = server
      BY <2>0, <2>1, <2>2, Records DEF ServerType, OpType, Mcp!Statuses
    <3>4. McpTyped'
      BY <2>1, <2>2, <3>2, <3>3 DEF McpTyped, Absent, ProcsType
    <3>5. FlagsKept'
      <4>1. (Loading(s)' => Loading(s)) /\ ~HasFlags(s) /\ ~HasFlags(s)'
        BY <2>1, <3>2 DEF Loading, HasFlags
      <4>2. registry' \subseteq registry /\ server'.off \subseteq server.off
        BY <2>1, <2>2, <3>3
      <4> QED BY <2>1, <3>2, <4>1, <4>2, FlagsLess
    <3>6. clash = "none" /\ Sole(s) => Sole(s)'
      BY <2>0, <2>1, <2>2, <3>2, <3>3 DEF Sole, Holding, ServerType, ProcsType, McpTyped, Absent
    <3> QED BY <2>1, <3>2, <3>4, <3>5, <3>6, AloneStep
  <2>3. CASE /\ server.known
             /\ procs' = IF server.client = 0 THEN procs ELSE [procs EXCEPT ![server.client] = "killed"]
             /\ op' = [op EXCEPT ![s] = [op[s] EXCEPT !.pc = "register", !.off = server.off]]
             /\ server' = [server EXCEPT !.client = 0, !.off = {}]
    <3>1. [op[s] EXCEPT !.pc = "register", !.off = server.off] \in OpType
      BY <2>0, <2>1, <2>3, Records DEF OpType, Pcs, ServerType
    <3>2. /\ OpsTyped'
          /\ op'[s].kind = op[s].kind
          /\ op'[s].pc = "register"
          /\ op'[s].off = server.off
          /\ op'[s].client = op[s].client
          /\ \A r \in Slots \ {s} : op'[r] = op[r]
      <4>1. OpsTyped' /\ op'[s] = [op[s] EXCEPT !.pc = "register", !.off = server.off] /\ \A r \in Slots \ {s} : op'[r] = op[r]
        BY <2>3, <3>1, Moved DEF McpTyped
      <4> QED BY <2>0, <4>1, Records DEF OpType
    <3>3. /\ server' \in ServerType
          /\ server'.client = 0
          /\ server'.off = {}
          /\ server'.known = server.known
          /\ server'.status = server.status
      BY <2>0, <2>1, <2>3, Records DEF ServerType, OpType, Mcp!Statuses
    <3>4. McpTyped'
      BY <2>1, <2>3, <3>2, <3>3 DEF McpTyped, Absent, ProcsType
    <3>5. FlagsKept'
      <4>1. Loading(s) /\ Loading(s)' /\ ~HasFlags(s) /\ HasFlags(s)'
        BY <2>1, <3>2 DEF Loading, HasFlags, Mcp!Loads
      <4>2. \A r \in Slots \ {s} : Loading(r)' = Loading(r) /\ HasFlags(r)' = HasFlags(r)
        BY <3>2 DEF Loading, HasFlags
      <4>3. \A r \in Slots : HasFlags(r) => Loading(r)
        BY DEF Loading, HasFlags, Mcp!Loads
      <4>4. \A off : Kept(off)' = Kept(off)
        BY <2>1 DEF Kept
      <4> QED BY <2>1, <3>2, <4>1, <4>2, <4>3, <4>4 DEF FlagsKept
    <3>6. clash = "none" /\ Sole(s) => Sole(s)'
      BY <2>0, <2>1, <2>3, <3>2, <3>3 DEF Sole, Holding, ServerType, ProcsType, Mcp!Connects, Mcp!Disconnects, Mcp!Clients
    <3> QED BY <2>1, <3>2, <3>4, <3>5, <3>6, AloneStep
  <2> QED BY <1>6, <2>1, <2>2, <2>3 DEF Mcp!Swap, Mcp!At, Mcp!Goto, Mcp!End, Mcp!WithStatus, Mcp!Kill, McpTyped, OpsTyped
<1>7. CASE Mcp!Register(s)
  <2>1. /\ op[s].kind \in Mcp!Connects
        /\ op[s].pc = "register"
        /\ UNCHANGED <<procs, toggle, job, down, started, clash>>
    BY <1>7 DEF Mcp!Register, Mcp!At, Mcp!Goto, Mcp!End, Mcp!WithStatus, Mcp!Kill
  <2>0. op[s] \in OpType /\ server \in ServerType /\ procs \in ProcsType
    BY DEF McpTyped, OpsTyped
  <2>2. CASE /\ op' = [op EXCEPT ![s] = [op[s] EXCEPT !.pc = "finish"]]
             /\ server' = server
             /\ registry' = registry \cup (op[s].tools \ op[s].off)
    <3>1. [op[s] EXCEPT !.pc = "finish"] \in OpType
      BY <2>0, <2>1, <2>2, Records DEF OpType, Pcs, ServerType
    <3>2. /\ OpsTyped'
          /\ op'[s].kind = op[s].kind
          /\ op'[s].pc = "finish"
          /\ op'[s].client = op[s].client
          /\ op'[s].off = op[s].off
          /\ \A r \in Slots \ {s} : op'[r] = op[r]
      <4>1. OpsTyped' /\ op'[s] = [op[s] EXCEPT !.pc = "finish"] /\ \A r \in Slots \ {s} : op'[r] = op[r]
        BY <2>2, <3>1, Moved DEF McpTyped
      <4> QED BY <2>0, <4>1, Records DEF OpType
    <3>3. /\ server' \in ServerType
          /\ server' = server
      BY <2>0, <2>1, <2>2, Records DEF ServerType, OpType, Mcp!Statuses
    <3>7. registry' \subseteq Tools
      BY <2>0, <2>1, <2>2 DEF OpType, McpTyped
    <3>4. McpTyped'
      BY <2>1, <2>2, <3>2, <3>3, <3>7 DEF McpTyped, Absent, ProcsType
    <3>5. FlagsKept'
      <4>1. Loading(s) /\ Loading(s)' /\ HasFlags(s) /\ HasFlags(s)'
        BY <2>1, <3>2 DEF Loading, HasFlags, Mcp!Loads
      <4>2. \A r \in Slots \ {s} : Loading(r)' = Loading(r) /\ HasFlags(r)' = HasFlags(r)
        BY <3>2 DEF Loading, HasFlags
      <4>3. \A r \in Slots : HasFlags(r) => Loading(r)
        BY DEF Loading, HasFlags, Mcp!Loads
      <4>4. Kept(op[s].off) => Kept(op[s].off)'
        BY <2>1, <2>2, <3>2 DEF Kept
      <4> QED BY <2>1, <3>2, <4>1, <4>2, <4>3, <4>4 DEF FlagsKept
    <3>6. clash = "none" /\ Sole(s) => Sole(s)'
      BY <2>0, <2>1, <2>2, <3>2, <3>3 DEF Sole, Holding, ServerType, ProcsType, Mcp!Connects, Mcp!Disconnects
    <3> QED BY <2>1, <3>2, <3>4, <3>5, <3>6, AloneStep
  <2> QED BY <1>7, <2>1, <2>2 DEF Mcp!Register, Mcp!At, Mcp!Goto, Mcp!End, Mcp!WithStatus, Mcp!Kill, McpTyped, OpsTyped
<1>8. CASE Mcp!Finish(s)
  <2>1. /\ op[s].kind \in Mcp!Connects
        /\ op[s].pc = "finish"
        /\ UNCHANGED <<registry, procs, toggle, job, down, started, clash>>
    BY <1>8 DEF Mcp!Finish, Mcp!At, Mcp!Goto, Mcp!End, Mcp!WithStatus, Mcp!Kill
  <2>0. op[s] \in OpType /\ server \in ServerType /\ procs \in ProcsType
    BY DEF McpTyped, OpsTyped
  <2>2. CASE /\ ~server.known
             /\ op' = [op EXCEPT ![s] = Mcp!Idle]
             /\ server' = server
    <3>1. Mcp!Idle \in OpType
      BY <2>0, <2>1, <2>2, Records DEF OpType, Pcs, ServerType
    <3>2. /\ OpsTyped'
          /\ op'[s].kind = "none"
          /\ op'[s].pc = "idle"
          /\ \A r \in Slots \ {s} : op'[r] = op[r]
      <4>1. OpsTyped' /\ op'[s] = Mcp!Idle /\ \A r \in Slots \ {s} : op'[r] = op[r]
        BY <2>2, <3>1, Moved DEF McpTyped
      <4> QED BY <2>0, <4>1, Records DEF OpType
    <3>3. /\ server' \in ServerType
          /\ server' = server
      BY <2>0, <2>1, <2>2, Records DEF ServerType, OpType, Mcp!Statuses
    <3>4. McpTyped'
      BY <2>1, <2>2, <3>2, <3>3 DEF McpTyped, Absent, ProcsType
    <3>5. FlagsKept'
      <4>1. Loading(s) /\ ~Loading(s)' /\ HasFlags(s) /\ ~HasFlags(s)'
        BY <2>1, <3>2 DEF Loading, HasFlags, Mcp!Loads, Mcp!Connects
      <4>2. \A r \in Slots \ {s} : Loading(r)' = Loading(r) /\ HasFlags(r)' = HasFlags(r)
        BY <3>2 DEF Loading, HasFlags
      <4>3. \A r \in Slots : HasFlags(r) => Loading(r)
        BY DEF Loading, HasFlags, Mcp!Loads
      <4>4. server'.off \subseteq op[s].off
        BY <2>2, <3>3 DEF McpTyped, Absent
      <4>5. Kept(op[s].off) => Kept(server.off)'
        BY <2>1, <4>4 DEF Kept
      <4> QED BY <2>1, <3>2, <4>1, <4>2, <4>3, <4>5 DEF FlagsKept
    <3>6. clash = "none" /\ Sole(s) => Sole(s)'
      BY <2>0, <2>1, <2>2, <3>2, <3>3 DEF Sole, Holding, ServerType, ProcsType, McpTyped, Absent
    <3> QED BY <2>1, <3>2, <3>4, <3>5, <3>6, AloneStep
  <2>3. CASE /\ server.known
             /\ op' = [op EXCEPT ![s] = Mcp!Idle]
             /\ server' = [server EXCEPT !.tools = op[s].tools, !.off = op[s].off \cap op[s].tools, !.client = op[s].client, !.status = "connected"]
    <3>1. Mcp!Idle \in OpType
      BY <2>0, <2>1, <2>3, Records DEF OpType, Pcs, ServerType
    <3>2. /\ OpsTyped'
          /\ op'[s].kind = "none"
          /\ op'[s].pc = "idle"
          /\ \A r \in Slots \ {s} : op'[r] = op[r]
      <4>1. OpsTyped' /\ op'[s] = Mcp!Idle /\ \A r \in Slots \ {s} : op'[r] = op[r]
        BY <2>3, <3>1, Moved DEF McpTyped
      <4> QED BY <2>0, <4>1, Records DEF OpType
    <3>3. /\ server' \in ServerType
          /\ server'.tools = op[s].tools
          /\ server'.off = op[s].off \cap op[s].tools
          /\ server'.client = op[s].client
          /\ server'.status = "connected"
          /\ server'.known = server.known
      BY <2>0, <2>1, <2>3, Records DEF ServerType, OpType, Mcp!Statuses
    <3>4. McpTyped'
      BY <2>1, <2>3, <3>2, <3>3 DEF McpTyped, Absent, ProcsType
    <3>5. FlagsKept'
      <4>1. Loading(s) /\ ~Loading(s)' /\ HasFlags(s) /\ ~HasFlags(s)'
        BY <2>1, <3>2 DEF Loading, HasFlags, Mcp!Loads, Mcp!Connects
      <4>2. \A r \in Slots \ {s} : Loading(r)' = Loading(r) /\ HasFlags(r)' = HasFlags(r)
        BY <3>2 DEF Loading, HasFlags
      <4>3. \A r \in Slots : HasFlags(r) => Loading(r)
        BY DEF Loading, HasFlags, Mcp!Loads
      <4>4. server'.off \subseteq op[s].off
        BY <2>3, <3>3 DEF McpTyped, Absent
      <4>5. Kept(op[s].off) => Kept(server.off)'
        BY <2>1, <4>4 DEF Kept
      <4> QED BY <2>1, <3>2, <4>1, <4>2, <4>3, <4>5 DEF FlagsKept
    <3>6. clash = "none" /\ Sole(s) => Sole(s)'
      BY <2>0, <2>1, <2>3, <3>2, <3>3 DEF Sole, Holding, ServerType, ProcsType, Mcp!Connects, Mcp!Disconnects, Mcp!Clients
    <3> QED BY <2>1, <3>2, <3>4, <3>5, <3>6, AloneStep
  <2> QED BY <1>8, <2>1, <2>2, <2>3 DEF Mcp!Finish, Mcp!At, Mcp!Goto, Mcp!End, Mcp!WithStatus, Mcp!Kill, McpTyped, OpsTyped
<1> QED BY <1>1, <1>2, <1>3, <1>4, <1>5, <1>6, <1>7, <1>8

\* disconnect_async, remove_server_sync
LEMMA DisconnectStep ==
  ASSUME McpInv, NEW s \in Slots,
         \/ Mcp!DisconnectBegin(s) \/ Mcp!Unregister(s) \/ Mcp!TakeClient(s) \/ Mcp!KillClient(s) \/ Mcp!Disconnected(s) \/ Mcp!Erase(s)
  PROVE  McpInv'
<1> USE DEF McpInv
<1>1. CASE Mcp!DisconnectBegin(s)
  <2>1. /\ op[s].kind \in Mcp!Disconnects
        /\ op[s].pc = "begin"
        /\ UNCHANGED <<registry, procs, toggle, job, down, started, clash>>
    BY <1>1 DEF Mcp!DisconnectBegin, Mcp!At, Mcp!Goto, Mcp!End, Mcp!WithStatus, Mcp!Kill
  <2>0. op[s] \in OpType /\ server \in ServerType /\ procs \in ProcsType
    BY DEF McpTyped, OpsTyped
  <2>2. CASE /\ server.known
             /\ op' = [op EXCEPT ![s] = [op[s] EXCEPT !.pc = "unregister", !.tools = server.tools]]
             /\ server' = server
    <3>1. [op[s] EXCEPT !.pc = "unregister", !.tools = server.tools] \in OpType
      BY <2>0, <2>1, <2>2, Records DEF OpType, Pcs, ServerType
    <3>2. /\ OpsTyped'
          /\ op'[s].kind = op[s].kind
          /\ op'[s].pc = "unregister"
          /\ op'[s].tools = server.tools
          /\ op'[s].client = op[s].client
          /\ op'[s].off = op[s].off
          /\ \A r \in Slots \ {s} : op'[r] = op[r]
      <4>1. OpsTyped' /\ op'[s] = [op[s] EXCEPT !.pc = "unregister", !.tools = server.tools] /\ \A r \in Slots \ {s} : op'[r] = op[r]
        BY <2>2, <3>1, Moved DEF McpTyped
      <4> QED BY <2>0, <4>1, Records DEF OpType
    <3>3. /\ server' \in ServerType
          /\ server' = server
      BY <2>0, <2>1, <2>2, Records DEF ServerType, OpType, Mcp!Statuses
    <3>4. McpTyped'
      BY <2>1, <2>2, <3>2, <3>3 DEF McpTyped, Absent, ProcsType
    <3>5. FlagsKept'
      <4>1. (Loading(s)' => Loading(s)) /\ ~HasFlags(s) /\ ~HasFlags(s)'
        BY <2>1, <3>2 DEF Loading, HasFlags
      <4>2. registry' \subseteq registry /\ server'.off \subseteq server.off
        BY <2>1, <2>2, <3>3
      <4> QED BY <2>1, <3>2, <4>1, <4>2, FlagsLess
    <3>6. clash = "none" /\ Sole(s) => Sole(s)'
      BY <2>0, <2>1, <2>2, <3>2, <3>3 DEF Sole, Holding, ServerType, ProcsType, Mcp!Connects, Mcp!Disconnects
    <3> QED BY <2>1, <3>2, <3>4, <3>5, <3>6, AloneStep
  <2>3. CASE /\ ~server.known
             /\ op' = [op EXCEPT ![s] = [op[s] EXCEPT !.pc = "erase"]]
             /\ server' = server
    <3>1. [op[s] EXCEPT !.pc = "erase"] \in OpType
      BY <2>0, <2>1, <2>3, Records DEF OpType, Pcs, ServerType
    <3>2. /\ OpsTyped'
          /\ op'[s].kind = op[s].kind
          /\ op'[s].pc = "erase"
          /\ op'[s].client = op[s].client
          /\ op'[s].off = op[s].off
          /\ \A r \in Slots \ {s} : op'[r] = op[r]
      <4>1. OpsTyped' /\ op'[s] = [op[s] EXCEPT !.pc = "erase"] /\ \A r \in Slots \ {s} : op'[r] = op[r]
        BY <2>3, <3>1, Moved DEF McpTyped
      <4> QED BY <2>0, <4>1, Records DEF OpType
    <3>3. /\ server' \in ServerType
          /\ server' = server
      BY <2>0, <2>1, <2>3, Records DEF ServerType, OpType, Mcp!Statuses
    <3>4. McpTyped'
      BY <2>1, <2>3, <3>2, <3>3 DEF McpTyped, Absent, ProcsType
    <3>5. FlagsKept'
      <4>1. (Loading(s)' => Loading(s)) /\ ~HasFlags(s) /\ ~HasFlags(s)'
        BY <2>1, <3>2 DEF Loading, HasFlags
      <4>2. registry' \subseteq registry /\ server'.off \subseteq server.off
        BY <2>1, <2>3, <3>3
      <4> QED BY <2>1, <3>2, <4>1, <4>2, FlagsLess
    <3>6. clash = "none" /\ Sole(s) => Sole(s)'
      BY <2>0, <2>1, <2>3, <3>2, <3>3 DEF Sole, Holding, ServerType, ProcsType, Mcp!Connects, Mcp!Disconnects, McpTyped, Absent
    <3> QED BY <2>1, <3>2, <3>4, <3>5, <3>6, AloneStep
  <2>4. CASE /\ ~server.known
             /\ op' = [op EXCEPT ![s] = Mcp!Idle]
             /\ server' = server
    <3>1. Mcp!Idle \in OpType
      BY <2>0, <2>1, <2>4, Records DEF OpType, Pcs, ServerType
    <3>2. /\ OpsTyped'
          /\ op'[s].kind = "none"
          /\ op'[s].pc = "idle"
          /\ \A r \in Slots \ {s} : op'[r] = op[r]
      <4>1. OpsTyped' /\ op'[s] = Mcp!Idle /\ \A r \in Slots \ {s} : op'[r] = op[r]
        BY <2>4, <3>1, Moved DEF McpTyped
      <4> QED BY <2>0, <4>1, Records DEF OpType
    <3>3. /\ server' \in ServerType
          /\ server' = server
      BY <2>0, <2>1, <2>4, Records DEF ServerType, OpType, Mcp!Statuses
    <3>4. McpTyped'
      BY <2>1, <2>4, <3>2, <3>3 DEF McpTyped, Absent, ProcsType
    <3>5. FlagsKept'
      <4>1. (Loading(s)' => Loading(s)) /\ ~HasFlags(s) /\ ~HasFlags(s)'
        BY <2>1, <3>2 DEF Loading, HasFlags
      <4>2. registry' \subseteq registry /\ server'.off \subseteq server.off
        BY <2>1, <2>4, <3>3
      <4> QED BY <2>1, <3>2, <4>1, <4>2, FlagsLess
    <3>6. clash = "none" /\ Sole(s) => Sole(s)'
      BY <2>0, <2>1, <2>4, <3>2, <3>3 DEF Sole, Holding, ServerType, ProcsType, Mcp!Connects, Mcp!Disconnects, McpTyped, Absent
    <3> QED BY <2>1, <3>2, <3>4, <3>5, <3>6, AloneStep
  <2> QED BY <1>1, <2>1, <2>2, <2>3, <2>4 DEF Mcp!DisconnectBegin, Mcp!At, Mcp!Goto, Mcp!End, Mcp!WithStatus, Mcp!Kill, McpTyped, OpsTyped
<1>2. CASE Mcp!Unregister(s)
  <2>1. /\ op[s].kind \in Mcp!Disconnects
        /\ op[s].pc = "unregister"
        /\ UNCHANGED <<procs, toggle, job, down, started, clash>>
    BY <1>2 DEF Mcp!Unregister, Mcp!At, Mcp!Goto, Mcp!End, Mcp!WithStatus, Mcp!Kill
  <2>0. op[s] \in OpType /\ server \in ServerType /\ procs \in ProcsType
    BY DEF McpTyped, OpsTyped
  <2>2. CASE /\ op' = [op EXCEPT ![s] = [op[s] EXCEPT !.pc = "take"]]
             /\ server' = server
             /\ registry' = registry \ op[s].tools
    <3>1. [op[s] EXCEPT !.pc = "take"] \in OpType
      BY <2>0, <2>1, <2>2, Records DEF OpType, Pcs, ServerType
    <3>2. /\ OpsTyped'
          /\ op'[s].kind = op[s].kind
          /\ op'[s].pc = "take"
          /\ op'[s].client = op[s].client
          /\ op'[s].off = op[s].off
          /\ \A r \in Slots \ {s} : op'[r] = op[r]
      <4>1. OpsTyped' /\ op'[s] = [op[s] EXCEPT !.pc = "take"] /\ \A r \in Slots \ {s} : op'[r] = op[r]
        BY <2>2, <3>1, Moved DEF McpTyped
      <4> QED BY <2>0, <4>1, Records DEF OpType
    <3>3. /\ server' \in ServerType
          /\ server' = server
      BY <2>0, <2>1, <2>2, Records DEF ServerType, OpType, Mcp!Statuses
    <3>7. registry' \subseteq Tools
      BY <2>0, <2>1, <2>2 DEF OpType, McpTyped
    <3>4. McpTyped'
      BY <2>1, <2>2, <3>2, <3>3, <3>7 DEF McpTyped, Absent, ProcsType
    <3>5. FlagsKept'
      <4>1. (Loading(s)' => Loading(s)) /\ ~HasFlags(s) /\ ~HasFlags(s)'
        BY <2>1, <3>2 DEF Loading, HasFlags
      <4>2. registry' \subseteq registry /\ server'.off \subseteq server.off
        BY <2>1, <2>2, <3>3
      <4> QED BY <2>1, <3>2, <4>1, <4>2, FlagsLess
    <3>6. clash = "none" /\ Sole(s) => Sole(s)'
      BY <2>0, <2>1, <2>2, <3>2, <3>3 DEF Sole, Holding, ServerType, ProcsType, Mcp!Connects, Mcp!Disconnects
    <3> QED BY <2>1, <3>2, <3>4, <3>5, <3>6, AloneStep
  <2> QED BY <1>2, <2>1, <2>2 DEF Mcp!Unregister, Mcp!At, Mcp!Goto, Mcp!End, Mcp!WithStatus, Mcp!Kill, McpTyped, OpsTyped
<1>3. CASE Mcp!TakeClient(s)
  <2>1. /\ op[s].kind \in Mcp!Disconnects
        /\ op[s].pc = "take"
        /\ UNCHANGED <<registry, procs, toggle, job, down, started, clash>>
    BY <1>3 DEF Mcp!TakeClient, Mcp!At, Mcp!Goto, Mcp!End, Mcp!WithStatus, Mcp!Kill
  <2>0. op[s] \in OpType /\ server \in ServerType /\ procs \in ProcsType
    BY DEF McpTyped, OpsTyped
  <2>2. CASE /\ server.known
             /\ op' = [op EXCEPT ![s] = [op[s] EXCEPT !.pc = "kill", !.client = server.client]]
             /\ server' = [server EXCEPT !.client = 0]
    <3>1. [op[s] EXCEPT !.pc = "kill", !.client = server.client] \in OpType
      BY <2>0, <2>1, <2>2, Records DEF OpType, Pcs, ServerType
    <3>2. /\ OpsTyped'
          /\ op'[s].kind = op[s].kind
          /\ op'[s].pc = "kill"
          /\ op'[s].client = server.client
          /\ op'[s].off = op[s].off
          /\ \A r \in Slots \ {s} : op'[r] = op[r]
      <4>1. OpsTyped' /\ op'[s] = [op[s] EXCEPT !.pc = "kill", !.client = server.client] /\ \A r \in Slots \ {s} : op'[r] = op[r]
        BY <2>2, <3>1, Moved DEF McpTyped
      <4> QED BY <2>0, <4>1, Records DEF OpType
    <3>3. /\ server' \in ServerType
          /\ server'.client = 0
          /\ server'.known = server.known
          /\ server'.off = server.off
          /\ server'.status = server.status
      BY <2>0, <2>1, <2>2, Records DEF ServerType, OpType, Mcp!Statuses
    <3>4. McpTyped'
      BY <2>1, <2>2, <3>2, <3>3 DEF McpTyped, Absent, ProcsType
    <3>5. FlagsKept'
      <4>1. (Loading(s)' => Loading(s)) /\ ~HasFlags(s) /\ ~HasFlags(s)'
        BY <2>1, <3>2 DEF Loading, HasFlags
      <4>2. registry' \subseteq registry /\ server'.off \subseteq server.off
        BY <2>1, <2>2, <3>3
      <4> QED BY <2>1, <3>2, <4>1, <4>2, FlagsLess
    <3>6. clash = "none" /\ Sole(s) => Sole(s)'
      BY <2>0, <2>1, <2>2, <3>2, <3>3 DEF Sole, Holding, ServerType, ProcsType, Mcp!Connects, Mcp!Disconnects
    <3> QED BY <2>1, <3>2, <3>4, <3>5, <3>6, AloneStep
  <2>3. CASE /\ ~server.known
             /\ op' = [op EXCEPT ![s] = [op[s] EXCEPT !.pc = "kill", !.client = 0]]
             /\ server' = server
    <3>1. [op[s] EXCEPT !.pc = "kill", !.client = 0] \in OpType
      BY <2>0, <2>1, <2>3, Records DEF OpType, Pcs, ServerType
    <3>2. /\ OpsTyped'
          /\ op'[s].kind = op[s].kind
          /\ op'[s].pc = "kill"
          /\ op'[s].client = 0
          /\ op'[s].off = op[s].off
          /\ \A r \in Slots \ {s} : op'[r] = op[r]
      <4>1. OpsTyped' /\ op'[s] = [op[s] EXCEPT !.pc = "kill", !.client = 0] /\ \A r \in Slots \ {s} : op'[r] = op[r]
        BY <2>3, <3>1, Moved DEF McpTyped
      <4> QED BY <2>0, <4>1, Records DEF OpType
    <3>3. /\ server' \in ServerType
          /\ server' = server
      BY <2>0, <2>1, <2>3, Records DEF ServerType, OpType, Mcp!Statuses
    <3>4. McpTyped'
      BY <2>1, <2>3, <3>2, <3>3 DEF McpTyped, Absent, ProcsType
    <3>5. FlagsKept'
      <4>1. (Loading(s)' => Loading(s)) /\ ~HasFlags(s) /\ ~HasFlags(s)'
        BY <2>1, <3>2 DEF Loading, HasFlags
      <4>2. registry' \subseteq registry /\ server'.off \subseteq server.off
        BY <2>1, <2>3, <3>3
      <4> QED BY <2>1, <3>2, <4>1, <4>2, FlagsLess
    <3>6. clash = "none" /\ Sole(s) => Sole(s)'
      BY <2>0, <2>1, <2>3, <3>2, <3>3 DEF Sole, Holding, ServerType, ProcsType, Mcp!Connects, Mcp!Disconnects, McpTyped, Absent
    <3> QED BY <2>1, <3>2, <3>4, <3>5, <3>6, AloneStep
  <2> QED BY <1>3, <2>1, <2>2, <2>3 DEF Mcp!TakeClient, Mcp!At, Mcp!Goto, Mcp!End, Mcp!WithStatus, Mcp!Kill, McpTyped, OpsTyped
<1>4. CASE Mcp!KillClient(s)
  <2>1. /\ op[s].kind \in Mcp!Disconnects
        /\ op[s].pc = "kill"
        /\ UNCHANGED <<registry, toggle, job, down, started, clash>>
    BY <1>4 DEF Mcp!KillClient, Mcp!At, Mcp!Goto, Mcp!End, Mcp!WithStatus, Mcp!Kill
  <2>0. op[s] \in OpType /\ server \in ServerType /\ procs \in ProcsType
    BY DEF McpTyped, OpsTyped
  <2>2. CASE /\ op' = [op EXCEPT ![s] = [op[s] EXCEPT !.pc = "status"]]
             /\ server' = server
             /\ procs' = IF op[s].client = 0 THEN procs ELSE [procs EXCEPT ![op[s].client] = "killed"]
    <3>1. [op[s] EXCEPT !.pc = "status"] \in OpType
      BY <2>0, <2>1, <2>2, Records DEF OpType, Pcs, ServerType
    <3>2. /\ OpsTyped'
          /\ op'[s].kind = op[s].kind
          /\ op'[s].pc = "status"
          /\ op'[s].client = op[s].client
          /\ op'[s].off = op[s].off
          /\ \A r \in Slots \ {s} : op'[r] = op[r]
      <4>1. OpsTyped' /\ op'[s] = [op[s] EXCEPT !.pc = "status"] /\ \A r \in Slots \ {s} : op'[r] = op[r]
        BY <2>2, <3>1, Moved DEF McpTyped
      <4> QED BY <2>0, <4>1, Records DEF OpType
    <3>3. /\ server' \in ServerType
          /\ server' = server
      BY <2>0, <2>1, <2>2, Records DEF ServerType, OpType, Mcp!Statuses
    <3>4. McpTyped'
      BY <2>1, <2>2, <3>2, <3>3 DEF McpTyped, Absent, ProcsType
    <3>5. FlagsKept'
      <4>1. (Loading(s)' => Loading(s)) /\ ~HasFlags(s) /\ ~HasFlags(s)'
        BY <2>1, <3>2 DEF Loading, HasFlags
      <4>2. registry' \subseteq registry /\ server'.off \subseteq server.off
        BY <2>1, <2>2, <3>3
      <4> QED BY <2>1, <3>2, <4>1, <4>2, FlagsLess
    <3>6. clash = "none" /\ Sole(s) => Sole(s)'
      BY <2>0, <2>1, <2>2, <3>2, <3>3 DEF Sole, Holding, ServerType, ProcsType, Mcp!Connects, Mcp!Disconnects, Mcp!Clients
    <3> QED BY <2>1, <3>2, <3>4, <3>5, <3>6, AloneStep
  <2> QED BY <1>4, <2>1, <2>2 DEF Mcp!KillClient, Mcp!At, Mcp!Goto, Mcp!End, Mcp!WithStatus, Mcp!Kill, McpTyped, OpsTyped
<1>5. CASE Mcp!Disconnected(s)
  <2>1. /\ op[s].kind \in Mcp!Disconnects
        /\ op[s].pc = "status"
        /\ UNCHANGED <<registry, procs, toggle, job, down, started, clash>>
    BY <1>5 DEF Mcp!Disconnected, Mcp!At, Mcp!Goto, Mcp!End, Mcp!WithStatus, Mcp!Kill
  <2>0. op[s] \in OpType /\ server \in ServerType /\ procs \in ProcsType
    BY DEF McpTyped, OpsTyped
  <2>2. CASE /\ server.known
             /\ op' = [op EXCEPT ![s] = [op[s] EXCEPT !.pc = "erase"]]
             /\ server' = [server EXCEPT !.status = "configured"]
    <3>1. [op[s] EXCEPT !.pc = "erase"] \in OpType
      BY <2>0, <2>1, <2>2, Records DEF OpType, Pcs, ServerType
    <3>2. /\ OpsTyped'
          /\ op'[s].kind = op[s].kind
          /\ op'[s].pc = "erase"
          /\ op'[s].client = op[s].client
          /\ op'[s].off = op[s].off
          /\ \A r \in Slots \ {s} : op'[r] = op[r]
      <4>1. OpsTyped' /\ op'[s] = [op[s] EXCEPT !.pc = "erase"] /\ \A r \in Slots \ {s} : op'[r] = op[r]
        BY <2>2, <3>1, Moved DEF McpTyped
      <4> QED BY <2>0, <4>1, Records DEF OpType
    <3>3. /\ server' \in ServerType
          /\ server'.status = "configured"
          /\ server'.known = server.known
          /\ server'.off = server.off
          /\ server'.client = server.client
      BY <2>0, <2>1, <2>2, Records DEF ServerType, OpType, Mcp!Statuses
    <3>4. McpTyped'
      BY <2>1, <2>2, <3>2, <3>3 DEF McpTyped, Absent, ProcsType
    <3>5. FlagsKept'
      <4>1. (Loading(s)' => Loading(s)) /\ ~HasFlags(s) /\ ~HasFlags(s)'
        BY <2>1, <3>2 DEF Loading, HasFlags
      <4>2. registry' \subseteq registry /\ server'.off \subseteq server.off
        BY <2>1, <2>2, <3>3
      <4> QED BY <2>1, <3>2, <4>1, <4>2, FlagsLess
    <3>6. clash = "none" /\ Sole(s) => Sole(s)'
      BY <2>0, <2>1, <2>2, <3>2, <3>3 DEF Sole, Holding, ServerType, ProcsType, Mcp!Connects, Mcp!Disconnects
    <3> QED BY <2>1, <3>2, <3>4, <3>5, <3>6, AloneStep
  <2>3. CASE /\ ~server.known
             /\ op' = [op EXCEPT ![s] = [op[s] EXCEPT !.pc = "erase"]]
             /\ server' = server
    <3>1. [op[s] EXCEPT !.pc = "erase"] \in OpType
      BY <2>0, <2>1, <2>3, Records DEF OpType, Pcs, ServerType
    <3>2. /\ OpsTyped'
          /\ op'[s].kind = op[s].kind
          /\ op'[s].pc = "erase"
          /\ op'[s].client = op[s].client
          /\ op'[s].off = op[s].off
          /\ \A r \in Slots \ {s} : op'[r] = op[r]
      <4>1. OpsTyped' /\ op'[s] = [op[s] EXCEPT !.pc = "erase"] /\ \A r \in Slots \ {s} : op'[r] = op[r]
        BY <2>3, <3>1, Moved DEF McpTyped
      <4> QED BY <2>0, <4>1, Records DEF OpType
    <3>3. /\ server' \in ServerType
          /\ server' = server
      BY <2>0, <2>1, <2>3, Records DEF ServerType, OpType, Mcp!Statuses
    <3>4. McpTyped'
      BY <2>1, <2>3, <3>2, <3>3 DEF McpTyped, Absent, ProcsType
    <3>5. FlagsKept'
      <4>1. (Loading(s)' => Loading(s)) /\ ~HasFlags(s) /\ ~HasFlags(s)'
        BY <2>1, <3>2 DEF Loading, HasFlags
      <4>2. registry' \subseteq registry /\ server'.off \subseteq server.off
        BY <2>1, <2>3, <3>3
      <4> QED BY <2>1, <3>2, <4>1, <4>2, FlagsLess
    <3>6. clash = "none" /\ Sole(s) => Sole(s)'
      BY <2>0, <2>1, <2>3, <3>2, <3>3 DEF Sole, Holding, ServerType, ProcsType, Mcp!Connects, Mcp!Disconnects, McpTyped, Absent
    <3> QED BY <2>1, <3>2, <3>4, <3>5, <3>6, AloneStep
  <2>4. CASE /\ server.known
             /\ op' = [op EXCEPT ![s] = Mcp!Idle]
             /\ server' = [server EXCEPT !.status = "configured"]
    <3>1. Mcp!Idle \in OpType
      BY <2>0, <2>1, <2>4, Records DEF OpType, Pcs, ServerType
    <3>2. /\ OpsTyped'
          /\ op'[s].kind = "none"
          /\ op'[s].pc = "idle"
          /\ \A r \in Slots \ {s} : op'[r] = op[r]
      <4>1. OpsTyped' /\ op'[s] = Mcp!Idle /\ \A r \in Slots \ {s} : op'[r] = op[r]
        BY <2>4, <3>1, Moved DEF McpTyped
      <4> QED BY <2>0, <4>1, Records DEF OpType
    <3>3. /\ server' \in ServerType
          /\ server'.status = "configured"
          /\ server'.known = server.known
          /\ server'.off = server.off
          /\ server'.client = server.client
      BY <2>0, <2>1, <2>4, Records DEF ServerType, OpType, Mcp!Statuses
    <3>4. McpTyped'
      BY <2>1, <2>4, <3>2, <3>3 DEF McpTyped, Absent, ProcsType
    <3>5. FlagsKept'
      <4>1. (Loading(s)' => Loading(s)) /\ ~HasFlags(s) /\ ~HasFlags(s)'
        BY <2>1, <3>2 DEF Loading, HasFlags
      <4>2. registry' \subseteq registry /\ server'.off \subseteq server.off
        BY <2>1, <2>4, <3>3
      <4> QED BY <2>1, <3>2, <4>1, <4>2, FlagsLess
    <3>6. clash = "none" /\ Sole(s) => Sole(s)'
      BY <2>0, <2>1, <2>4, <3>2, <3>3 DEF Sole, Holding, ServerType, ProcsType, Mcp!Connects, Mcp!Disconnects
    <3> QED BY <2>1, <3>2, <3>4, <3>5, <3>6, AloneStep
  <2>5. CASE /\ ~server.known
             /\ op' = [op EXCEPT ![s] = Mcp!Idle]
             /\ server' = server
    <3>1. Mcp!Idle \in OpType
      BY <2>0, <2>1, <2>5, Records DEF OpType, Pcs, ServerType
    <3>2. /\ OpsTyped'
          /\ op'[s].kind = "none"
          /\ op'[s].pc = "idle"
          /\ \A r \in Slots \ {s} : op'[r] = op[r]
      <4>1. OpsTyped' /\ op'[s] = Mcp!Idle /\ \A r \in Slots \ {s} : op'[r] = op[r]
        BY <2>5, <3>1, Moved DEF McpTyped
      <4> QED BY <2>0, <4>1, Records DEF OpType
    <3>3. /\ server' \in ServerType
          /\ server' = server
      BY <2>0, <2>1, <2>5, Records DEF ServerType, OpType, Mcp!Statuses
    <3>4. McpTyped'
      BY <2>1, <2>5, <3>2, <3>3 DEF McpTyped, Absent, ProcsType
    <3>5. FlagsKept'
      <4>1. (Loading(s)' => Loading(s)) /\ ~HasFlags(s) /\ ~HasFlags(s)'
        BY <2>1, <3>2 DEF Loading, HasFlags
      <4>2. registry' \subseteq registry /\ server'.off \subseteq server.off
        BY <2>1, <2>5, <3>3
      <4> QED BY <2>1, <3>2, <4>1, <4>2, FlagsLess
    <3>6. clash = "none" /\ Sole(s) => Sole(s)'
      BY <2>0, <2>1, <2>5, <3>2, <3>3 DEF Sole, Holding, ServerType, ProcsType, Mcp!Connects, Mcp!Disconnects, McpTyped, Absent
    <3> QED BY <2>1, <3>2, <3>4, <3>5, <3>6, AloneStep
  <2> QED BY <1>5, <2>1, <2>2, <2>3, <2>4, <2>5 DEF Mcp!Disconnected, Mcp!At, Mcp!Goto, Mcp!End, Mcp!WithStatus, Mcp!Kill, McpTyped, OpsTyped
<1>6. CASE Mcp!Erase(s)
  <2>1. /\ op[s].kind = "remove"
        /\ op[s].pc = "erase"
        /\ UNCHANGED <<registry, procs, toggle, job, down, started, clash>>
    BY <1>6 DEF Mcp!Erase, Mcp!At, Mcp!Goto, Mcp!End, Mcp!WithStatus, Mcp!Kill
  <2>0. op[s] \in OpType /\ server \in ServerType /\ procs \in ProcsType
    BY DEF McpTyped, OpsTyped
  <2>2. CASE /\ op' = [op EXCEPT ![s] = Mcp!Idle]
             /\ server' = Mcp!NoServer
    <3>1. Mcp!Idle \in OpType
      BY <2>0, <2>1, <2>2, Records DEF OpType, Pcs, ServerType
    <3>2. /\ OpsTyped'
          /\ op'[s].kind = "none"
          /\ op'[s].pc = "idle"
          /\ \A r \in Slots \ {s} : op'[r] = op[r]
      <4>1. OpsTyped' /\ op'[s] = Mcp!Idle /\ \A r \in Slots \ {s} : op'[r] = op[r]
        BY <2>2, <3>1, Moved DEF McpTyped
      <4> QED BY <2>0, <4>1, Records DEF OpType
    <3>3. /\ server' \in ServerType
          /\ ~server'.known
          /\ server'.off = {}
          /\ server'.client = 0
          /\ server'.status = "configured"
      BY <2>0, <2>1, <2>2, Records DEF ServerType, OpType, Mcp!Statuses
    <3>4. McpTyped'
      BY <2>1, <2>2, <3>2, <3>3 DEF McpTyped, Absent, ProcsType
    <3>5. FlagsKept'
      <4>1. (Loading(s)' => Loading(s)) /\ ~HasFlags(s) /\ ~HasFlags(s)'
        BY <2>1, <3>2 DEF Loading, HasFlags
      <4>2. registry' \subseteq registry /\ server'.off \subseteq server.off
        BY <2>1, <2>2, <3>3
      <4> QED BY <2>1, <3>2, <4>1, <4>2, FlagsLess
    <3>6. clash = "none" /\ Sole(s) => Sole(s)'
      BY <2>0, <2>1, <2>2, <3>2, <3>3 DEF Sole, Holding, ServerType, ProcsType, Mcp!Connects, Mcp!Disconnects, Mcp!Clients
    <3> QED BY <2>1, <3>2, <3>4, <3>5, <3>6, AloneStep
  <2> QED BY <1>6, <2>1, <2>2 DEF Mcp!Erase, Mcp!At, Mcp!Goto, Mcp!End, Mcp!WithStatus, Mcp!Kill, McpTyped, OpsTyped
<1> QED BY <1>1, <1>2, <1>3, <1>4, <1>5, <1>6

\* refresh_tools_async
LEMMA RefreshStep ==
  ASSUME McpInv, NEW s \in Slots,
         \/ Mcp!RefreshBegin(s) \/ Mcp!RefreshFails(s) \/ Mcp!Replace(s)
  PROVE  McpInv'
<1> USE DEF McpInv
<1>1. CASE Mcp!RefreshBegin(s)
  <2>1. /\ op[s].kind = "refresh"
        /\ op[s].pc = "begin"
        /\ UNCHANGED <<registry, procs, toggle, job, down, started, clash>>
    BY <1>1 DEF Mcp!RefreshBegin, Mcp!At, Mcp!Goto, Mcp!End, Mcp!WithStatus, Mcp!Kill
  <2>0. op[s] \in OpType /\ server \in ServerType /\ procs \in ProcsType
    BY DEF McpTyped, OpsTyped
  <2>2. CASE /\ server.known
             /\ server.client # 0
             /\ op' = [op EXCEPT ![s] = [op[s] EXCEPT !.pc = "list", !.client = server.client]]
             /\ server' = server
    <3>1. [op[s] EXCEPT !.pc = "list", !.client = server.client] \in OpType
      BY <2>0, <2>1, <2>2, Records DEF OpType, Pcs, ServerType
    <3>2. /\ OpsTyped'
          /\ op'[s].kind = op[s].kind
          /\ op'[s].pc = "list"
          /\ op'[s].client = server.client
          /\ op'[s].off = op[s].off
          /\ \A r \in Slots \ {s} : op'[r] = op[r]
      <4>1. OpsTyped' /\ op'[s] = [op[s] EXCEPT !.pc = "list", !.client = server.client] /\ \A r \in Slots \ {s} : op'[r] = op[r]
        BY <2>2, <3>1, Moved DEF McpTyped
      <4> QED BY <2>0, <4>1, Records DEF OpType
    <3>3. /\ server' \in ServerType
          /\ server' = server
      BY <2>0, <2>1, <2>2, Records DEF ServerType, OpType, Mcp!Statuses
    <3>4. McpTyped'
      BY <2>1, <2>2, <3>2, <3>3 DEF McpTyped, Absent, ProcsType
    <3>5. FlagsKept'
      <4>1. (Loading(s)' => Loading(s)) /\ ~HasFlags(s) /\ ~HasFlags(s)'
        BY <2>1, <3>2 DEF Loading, HasFlags
      <4>2. registry' \subseteq registry /\ server'.off \subseteq server.off
        BY <2>1, <2>2, <3>3
      <4> QED BY <2>1, <3>2, <4>1, <4>2, FlagsLess
    <3>6. clash = "none" /\ Sole(s) => Sole(s)'
      BY <2>0, <2>1, <2>2, <3>2, <3>3 DEF Sole, Holding, ServerType, ProcsType, Mcp!Connects, Mcp!Disconnects
    <3> QED BY <2>1, <3>2, <3>4, <3>5, <3>6, AloneStep
  <2>3. CASE /\ op' = [op EXCEPT ![s] = Mcp!Idle]
             /\ server' = server
    <3>1. Mcp!Idle \in OpType
      BY <2>0, <2>1, <2>3, Records DEF OpType, Pcs, ServerType
    <3>2. /\ OpsTyped'
          /\ op'[s].kind = "none"
          /\ op'[s].pc = "idle"
          /\ \A r \in Slots \ {s} : op'[r] = op[r]
      <4>1. OpsTyped' /\ op'[s] = Mcp!Idle /\ \A r \in Slots \ {s} : op'[r] = op[r]
        BY <2>3, <3>1, Moved DEF McpTyped
      <4> QED BY <2>0, <4>1, Records DEF OpType
    <3>3. /\ server' \in ServerType
          /\ server' = server
      BY <2>0, <2>1, <2>3, Records DEF ServerType, OpType, Mcp!Statuses
    <3>4. McpTyped'
      BY <2>1, <2>3, <3>2, <3>3 DEF McpTyped, Absent, ProcsType
    <3>5. FlagsKept'
      <4>1. (Loading(s)' => Loading(s)) /\ ~HasFlags(s) /\ ~HasFlags(s)'
        BY <2>1, <3>2 DEF Loading, HasFlags
      <4>2. registry' \subseteq registry /\ server'.off \subseteq server.off
        BY <2>1, <2>3, <3>3
      <4> QED BY <2>1, <3>2, <4>1, <4>2, FlagsLess
    <3>6. clash = "none" /\ Sole(s) => Sole(s)'
      BY <2>0, <2>1, <2>3, <3>2, <3>3 DEF Sole, Holding, ServerType, ProcsType, Mcp!Connects, Mcp!Disconnects
    <3> QED BY <2>1, <3>2, <3>4, <3>5, <3>6, AloneStep
  <2> QED BY <1>1, <2>1, <2>2, <2>3 DEF Mcp!RefreshBegin, Mcp!At, Mcp!Goto, Mcp!End, Mcp!WithStatus, Mcp!Kill, McpTyped, OpsTyped
<1>2. CASE Mcp!RefreshFails(s)
  <2>1. /\ op[s].kind = "refresh"
        /\ op[s].pc = "list"
        /\ UNCHANGED <<registry, procs, toggle, job, down, started, clash>>
    BY <1>2 DEF Mcp!RefreshFails, Mcp!At, Mcp!Goto, Mcp!End, Mcp!WithStatus, Mcp!Kill
  <2>0. op[s] \in OpType /\ server \in ServerType /\ procs \in ProcsType
    BY DEF McpTyped, OpsTyped
  <2>2. CASE /\ op' = [op EXCEPT ![s] = Mcp!Idle]
             /\ server' = server
    <3>1. Mcp!Idle \in OpType
      BY <2>0, <2>1, <2>2, Records DEF OpType, Pcs, ServerType
    <3>2. /\ OpsTyped'
          /\ op'[s].kind = "none"
          /\ op'[s].pc = "idle"
          /\ \A r \in Slots \ {s} : op'[r] = op[r]
      <4>1. OpsTyped' /\ op'[s] = Mcp!Idle /\ \A r \in Slots \ {s} : op'[r] = op[r]
        BY <2>2, <3>1, Moved DEF McpTyped
      <4> QED BY <2>0, <4>1, Records DEF OpType
    <3>3. /\ server' \in ServerType
          /\ server' = server
      BY <2>0, <2>1, <2>2, Records DEF ServerType, OpType, Mcp!Statuses
    <3>4. McpTyped'
      BY <2>1, <2>2, <3>2, <3>3 DEF McpTyped, Absent, ProcsType
    <3>5. FlagsKept'
      <4>1. (Loading(s)' => Loading(s)) /\ ~HasFlags(s) /\ ~HasFlags(s)'
        BY <2>1, <3>2 DEF Loading, HasFlags
      <4>2. registry' \subseteq registry /\ server'.off \subseteq server.off
        BY <2>1, <2>2, <3>3
      <4> QED BY <2>1, <3>2, <4>1, <4>2, FlagsLess
    <3>6. clash = "none" /\ Sole(s) => Sole(s)'
      BY <2>0, <2>1, <2>2, <3>2, <3>3 DEF Sole, Holding, ServerType, ProcsType, Mcp!Connects, Mcp!Disconnects
    <3> QED BY <2>1, <3>2, <3>4, <3>5, <3>6, AloneStep
  <2> QED BY <1>2, <2>1, <2>2 DEF Mcp!RefreshFails, Mcp!At, Mcp!Goto, Mcp!End, Mcp!WithStatus, Mcp!Kill, McpTyped, OpsTyped
<1>3. CASE Mcp!Replace(s)
  <2>1. /\ op[s].kind = "refresh"
        /\ op[s].pc = "swap"
        /\ UNCHANGED <<procs, toggle, job, down, started, clash>>
    BY <1>3 DEF Mcp!Replace, Mcp!At, Mcp!Goto, Mcp!End, Mcp!WithStatus, Mcp!Kill
  <2>0. op[s] \in OpType /\ server \in ServerType /\ procs \in ProcsType
    BY DEF McpTyped, OpsTyped
  <2>2. CASE /\ ~server.known
             /\ registry' = registry
             /\ op' = [op EXCEPT ![s] = Mcp!Idle]
             /\ server' = server
    <3>1. Mcp!Idle \in OpType
      BY <2>0, <2>1, <2>2, Records DEF OpType, Pcs, ServerType
    <3>2. /\ OpsTyped'
          /\ op'[s].kind = "none"
          /\ op'[s].pc = "idle"
          /\ \A r \in Slots \ {s} : op'[r] = op[r]
      <4>1. OpsTyped' /\ op'[s] = Mcp!Idle /\ \A r \in Slots \ {s} : op'[r] = op[r]
        BY <2>2, <3>1, Moved DEF McpTyped
      <4> QED BY <2>0, <4>1, Records DEF OpType
    <3>3. /\ server' \in ServerType
          /\ server' = server
      BY <2>0, <2>1, <2>2, Records DEF ServerType, OpType, Mcp!Statuses
    <3>7. registry' \subseteq Tools
      BY <2>0, <2>1, <2>2 DEF OpType, McpTyped
    <3>4. McpTyped'
      BY <2>1, <2>2, <3>2, <3>3, <3>7 DEF McpTyped, Absent, ProcsType
    <3>5. FlagsKept'
      <4>1. (Loading(s)' => Loading(s)) /\ ~HasFlags(s) /\ ~HasFlags(s)'
        BY <2>1, <3>2 DEF Loading, HasFlags
      <4>2. registry' \subseteq registry /\ server'.off \subseteq server.off
        BY <2>1, <2>2, <3>3
      <4> QED BY <2>1, <3>2, <4>1, <4>2, FlagsLess
    <3>6. clash = "none" /\ Sole(s) => Sole(s)'
      BY <2>0, <2>1, <2>2, <3>2, <3>3 DEF Sole, Holding, ServerType, ProcsType, Mcp!Connects, Mcp!Disconnects, McpTyped, Absent
    <3> QED BY <2>1, <3>2, <3>4, <3>5, <3>6, AloneStep
  <2>3. CASE /\ server.known
             /\ registry' = (registry \ server.tools) \cup (op[s].tools \ server.off)
             /\ op' = [op EXCEPT ![s] = Mcp!Idle]
             /\ server' = [server EXCEPT !.tools = op[s].tools, !.off = @ \cap op[s].tools, !.status = "connected"]
    <3>1. Mcp!Idle \in OpType
      BY <2>0, <2>1, <2>3, Records DEF OpType, Pcs, ServerType
    <3>2. /\ OpsTyped'
          /\ op'[s].kind = "none"
          /\ op'[s].pc = "idle"
          /\ \A r \in Slots \ {s} : op'[r] = op[r]
      <4>1. OpsTyped' /\ op'[s] = Mcp!Idle /\ \A r \in Slots \ {s} : op'[r] = op[r]
        BY <2>3, <3>1, Moved DEF McpTyped
      <4> QED BY <2>0, <4>1, Records DEF OpType
    <3>3. /\ server' \in ServerType
          /\ server'.tools = op[s].tools
          /\ server'.off = server.off \cap op[s].tools
          /\ server'.status = "connected"
          /\ server'.known = server.known
          /\ server'.client = server.client
      BY <2>0, <2>1, <2>3, Records DEF ServerType, OpType, Mcp!Statuses
    <3>7. registry' \subseteq Tools
      BY <2>0, <2>1, <2>3 DEF OpType, McpTyped
    <3>4. McpTyped'
      BY <2>1, <2>3, <3>2, <3>3, <3>7 DEF McpTyped, Absent, ProcsType
    <3>5. FlagsKept'
      <4>1. Loading(s) /\ ~Loading(s)' /\ ~HasFlags(s) /\ ~HasFlags(s)'
        BY <2>1, <3>2 DEF Loading, HasFlags, Mcp!Loads, Mcp!Connects
      <4>2. \A r \in Slots \ {s} : Loading(r)' = Loading(r) /\ HasFlags(r)' = HasFlags(r)
        BY <3>2 DEF Loading, HasFlags
      <4>3. \A r \in Slots : HasFlags(r) => Loading(r)
        BY DEF Loading, HasFlags, Mcp!Loads
      <4>4. Kept(server.off) => Kept(server.off)'
        BY <2>1, <2>3, <3>3 DEF Kept
      <4> QED BY <2>1, <3>2, <4>1, <4>2, <4>3, <4>4 DEF FlagsKept
    <3>6. clash = "none" /\ Sole(s) => Sole(s)'
      BY <2>0, <2>1, <2>3, <3>2, <3>3 DEF Sole, Holding, ServerType, ProcsType, Mcp!Connects, Mcp!Disconnects
    <3> QED BY <2>1, <3>2, <3>4, <3>5, <3>6, AloneStep
  <2> QED BY <1>3, <2>1, <2>2, <2>3 DEF Mcp!Replace, Mcp!At, Mcp!Goto, Mcp!End, Mcp!WithStatus, Mcp!Kill, McpTyped, OpsTyped
<1> QED BY <1>1, <1>2, <1>3

\* set_tool_enabled: the flag, then the registry.
LEMMA ToggleStep ==
  ASSUME McpInv,
         \/ \E t \in Tools, on \in BOOLEAN : Mcp!ToggleFlag(t, on)
         \/ Mcp!ToggleRegister
  PROVE  McpInv'
<1> USE DEF McpInv
<1>1. ASSUME NEW t \in Tools, NEW on \in BOOLEAN, Mcp!ToggleFlag(t, on) PROVE McpInv'
  <2>1. /\ toggle = None /\ server.known /\ on = (t \in server.off)
        /\ server' = [server EXCEPT !.off = IF on THEN @ \ {t} ELSE @ \cup {t}]
        /\ toggle' = [tool |-> t, on |-> on]
        /\ clash' = Mcp!Clash("toggle")
        /\ UNCHANGED <<registry, procs, op, job, down, started>>
    BY <1>1 DEF Mcp!ToggleFlag
  <2>2. /\ server' \in ServerType /\ server'.known = server.known
        /\ server'.client = server.client /\ server'.status = server.status
        /\ server'.off = IF on THEN server.off \ {t} ELSE server.off \cup {t}
    BY <2>1 DEF McpTyped, ServerType
  <2>3. clash' \in {"none", "some", "flags"} /\ (clash' = "none" => clash = "none")
        /\ (clash' # "flags" => clash # "flags" /\ \A s \in Slots : ~HasFlags(s))
    BY <2>1 DEF Mcp!Clash, Mcp!Busy, McpTyped, HasFlags
  <2>4. toggle' \in [tool: Tools, on: BOOLEAN]
    BY <2>1
  <2>5. McpTyped'
    BY <2>1, <2>2, <2>3, <2>4 DEF McpTyped, OpsTyped, Absent
  <2>6. toggle'.tool = t /\ toggle'.on = on /\ toggle' # None
    BY <2>1, <2>4, NoneAssumption
  <2>7. clash' # "flags" => Kept(server.off)'
    BY <2>1, <2>2, <2>3, <2>6 DEF FlagsKept, Kept
  <2>8. \A s \in Slots : Loading(s)' = Loading(s) /\ HasFlags(s)' = HasFlags(s)
    BY <2>1 DEF Loading, HasFlags
  <2>9. FlagsKept'
    BY <2>1, <2>3, <2>7, <2>8 DEF FlagsKept
  <2>10. \A s \in Slots : Sole(s) => Sole(s)'
    BY <2>1, <2>2 DEF Sole, Holding
  <2>11. ProcsOwned'
    BY <2>1, <2>3, <2>10 DEF ProcsOwned
  <2> QED BY <2>5, <2>9, <2>11
<1>2. CASE Mcp!ToggleRegister
  <2>1. /\ toggle # None /\ toggle' = None
        /\ registry' = IF toggle.on THEN registry \cup {toggle.tool} ELSE registry \ {toggle.tool}
        /\ UNCHANGED <<server, procs, op, job, down, started, clash>>
    BY <1>2 DEF Mcp!ToggleRegister
  <2>2. toggle.tool \in Tools /\ toggle.on \in BOOLEAN
    BY <2>1 DEF McpTyped
  <2>3. McpTyped'
    BY <2>1, <2>2 DEF McpTyped, OpsTyped, Absent
  <2>4. \A off : Kept(off) => Kept(off)'
    BY <2>1, <2>2 DEF Kept
  <2>5. Kept(server.off) => Kept(server.off)'
    BY <2>1, <2>2 DEF Kept
  <2>6. \A s \in Slots : Kept(op[s].off) => Kept(op[s].off)'
    BY <2>1, <2>2 DEF Kept
  <2>7. \A s \in Slots : Loading(s)' = Loading(s) /\ HasFlags(s)' = HasFlags(s) /\ Sole(s)' = Sole(s)
    BY <2>1 DEF Loading, HasFlags, Sole, Holding
  <2>8. FlagsKept'
    BY <2>1, <2>5, <2>6, <2>7 DEF FlagsKept
  <2>9. ProcsOwned'
    BY <2>1, <2>7 DEF ProcsOwned
  <2> QED BY <2>3, <2>8, <2>9
<1> QED BY <1>1, <1>2

\* A thread takes up an operation; its user may have changed the entry's enabled flag,
\* or stored an entry where there was none.
LEMMA LaunchStep ==
  ASSUME McpInv, NEW s \in Slots, NEW kind \in Mcp!Kinds,
         op[s].pc = "idle", op' = [op EXCEPT ![s].kind = kind, ![s].pc = "begin"],
         clash' = Mcp!Clash(kind), UNCHANGED <<registry, procs, toggle>>,
         job' \in Slots \cup {None}, down' \in BOOLEAN, started' \in 0..MaxOps + 1,
         server' \in ServerType,
         /\ server'.client = server.client /\ server'.off = server.off
         /\ server'.status = server.status /\ (server.known => server'.known)
  PROVE  McpInv'
<1> USE DEF McpInv
<1>1. op[s] \in OpType /\ [op[s] EXCEPT !.kind = kind, !.pc = "begin"] \in OpType
  BY DEF McpTyped, OpsTyped, OpType, Pcs
<1>2. op' = [op EXCEPT ![s] = [op[s] EXCEPT !.kind = kind, !.pc = "begin"]]
  BY DEF McpTyped, OpsTyped
<1>3. /\ OpsTyped' /\ \A r \in Slots \ {s} : op'[r] = op[r]
      /\ op'[s].kind = kind /\ op'[s].pc = "begin"
  <2>1. OpsTyped' /\ op'[s] = [op[s] EXCEPT !.kind = kind, !.pc = "begin"]
        /\ \A r \in Slots \ {s} : op'[r] = op[r]
    BY <1>1, <1>2, Moved DEF McpTyped
  <2>2. LET o == [op[s] EXCEPT !.kind = kind, !.pc = "begin"] IN o.kind = kind /\ o.pc = "begin"
    BY <1>1 DEF OpType
  <2> QED BY <2>1, <2>2
<1>4. /\ clash' \in {"none", "some", "flags"}
      /\ clash' # "flags" => clash # "flags" /\ (kind \in Mcp!Loads => \A r \in Slots : ~Loading(r))
      /\ clash' = "none" => clash = "none" /\ \A r \in Slots : op[r].pc = "idle"
  BY DEF Mcp!Clash, Mcp!Busy, McpTyped, Loading
<1>5. McpTyped'
  BY <1>3, <1>4 DEF McpTyped, Absent
<1>6. FlagsKept'
  <2>1. \A r \in Slots \ {s} : Loading(r)' = Loading(r) /\ HasFlags(r)' = HasFlags(r)
    BY <1>3 DEF Loading, HasFlags
  <2>2. (Loading(s)' => kind \in Mcp!Loads) /\ ~HasFlags(s) /\ ~HasFlags(s)' /\ ~Loading(s)
    BY <1>3 DEF Loading, HasFlags
  <2>3. \A r \in Slots \ {s} : Kept(op[r].off) => Kept(op[r].off)'
    BY <1>3 DEF Kept
  <2>4. Kept(server.off) => Kept(server.off)'
    BY DEF Kept
  <2> QED BY <1>3, <1>4, <2>1, <2>2, <2>3, <2>4 DEF FlagsKept
<1>7. ProcsOwned'
  <2>1. SUFFICES ASSUME clash' = "none"
                 PROVE  /\ \A q, r \in Slots : op'[q].pc # "idle" /\ op'[r].pc # "idle" => q = r
                        /\ \A q \in Slots : (\A r \in Slots \ {q} : op'[r].pc = "idle") => Sole(q)'
    BY DEF ProcsOwned
  <2>2. clash = "none" /\ \A r \in Slots : op[r].pc = "idle"
    BY <1>4, <2>1
  <2>3. Sole(s)
    BY <2>2 DEF ProcsOwned
  <2>4. Sole(s)'
    BY <1>3, <2>2, <2>3 DEF Sole, Holding
  <2>5. \A q \in Slots \ {s} : op'[q].pc = "idle"
    BY <1>3, <2>2
  <2>6. \A q \in Slots : op'[q].pc # "idle" => q = s
    BY <2>5
  <2>7. op'[s].pc # "idle"
    BY <1>3
  <2>8. \A q \in Slots : (\A r \in Slots \ {q} : op'[r].pc = "idle") => q = s
    BY <2>7
  <2> QED BY <2>4, <2>6, <2>8
<1> QED BY <1>5, <1>6, <1>7

\* A step that changes no more than the entry's enabled flag, or stores an entry where
\* there was none.
LEMMA EntryStep ==
  ASSUME McpInv, UNCHANGED <<op, clash, registry, procs, toggle, down, started>>,
         job' \in Slots \cup {None}, server' \in ServerType,
         /\ server'.client = server.client /\ server'.off = server.off
         /\ server'.status = server.status /\ (server.known => server'.known)
  PROVE  McpInv'
<1> USE DEF McpInv
<1>1. McpTyped'
  BY DEF McpTyped, OpsTyped, Absent
<1>2. Kept(server.off) => Kept(server.off)'
  BY DEF Kept
<1>3. \A s \in Slots : Kept(op[s].off) => Kept(op[s].off)'
  BY DEF Kept
<1>4. \A s \in Slots : Loading(s)' = Loading(s) /\ HasFlags(s)' = HasFlags(s) /\ (Sole(s) => Sole(s)')
  BY DEF Loading, HasFlags, Sole, Holding
<1>5. FlagsKept'
  BY <1>2, <1>3, <1>4 DEF FlagsKept
<1>6. ProcsOwned'
  BY <1>4 DEF ProcsOwned
<1> QED BY <1>1, <1>5, <1>6

\* What the panel and the agents do to the entry when they save, add, enable or disable.
LEMMA EntrySaved ==
  ASSUME McpTyped, NEW on \in BOOLEAN,
         \/ server' = server
         \/ server.known /\ server' = [server EXCEPT !.enabled = on]
         \/ ~server.known /\ server' = Mcp!NewServer(on)
  PROVE  /\ server' \in ServerType
         /\ server'.client = server.client /\ server'.off = server.off
         /\ server'.status = server.status /\ (server.known => server'.known)
<1>1. CASE server' = server
  BY <1>1 DEF McpTyped
<1>2. CASE server.known /\ server' = [server EXCEPT !.enabled = on]
  BY <1>2 DEF McpTyped, ServerType
<1>3. CASE ~server.known /\ server' = Mcp!NewServer(on)
  BY <1>3, Records DEF McpTyped, Absent
<1> QED BY <1>1, <1>2, <1>3

LEMMA UserStep ==
  ASSUME McpInv,
         \/ \E s \in Slots, kind \in Mcp!Kinds : Mcp!PanelOp(s, kind) \/ Mcp!AgentOp(s, kind)
         \/ \E s \in Slots, on \in BOOLEAN : Mcp!PanelSave(s, on) \/ Mcp!AgentAdd(s, on)
         \/ \E s \in Slots : Mcp!AgentRemove(s) \/ Mcp!Shutdown(s)
         \/ Mcp!PanelDone
  PROVE  McpInv'
<1> USE DEF McpInv
<1>1. started \in 0..MaxOps + 1 /\ job \in Slots \cup {None} /\ down \in BOOLEAN
      /\ (started < MaxOps => started + 1 \in 0..MaxOps + 1)
  BY McpBounds DEF McpTyped
<1>2. ASSUME NEW s \in Slots, NEW kind \in Mcp!Kinds, Mcp!PanelOp(s, kind) PROVE McpInv'
  <2>1. /\ server.known /\ op[s].pc = "idle" /\ started < MaxOps
        /\ op' = [op EXCEPT ![s].kind = kind, ![s].pc = "begin"]
        /\ started' = started + 1 /\ clash' = Mcp!Clash(kind) /\ job' = s
        /\ UNCHANGED <<registry, procs, toggle, down>>
    BY <1>2 DEF Mcp!PanelOp, Mcp!Launch
  <2>2. server' = server \/ \E on \in BOOLEAN : server' = [server EXCEPT !.enabled = on]
    BY <1>2, <2>1 DEF Mcp!PanelOp, Mcp!Enabling, Mcp!Kinds
  <2>3. /\ server' \in ServerType
        /\ server'.client = server.client /\ server'.off = server.off
        /\ server'.status = server.status /\ (server.known => server'.known)
        /\ (~server'.known => ~server.known)
    BY <2>1, <2>2, EntrySaved
  <2> QED BY <1>1, <2>1, <2>3, LaunchStep
<1>3. ASSUME NEW s \in Slots, NEW kind \in Mcp!Kinds, Mcp!AgentOp(s, kind) PROVE McpInv'
  <2>1. /\ op[s].pc = "idle" /\ started < MaxOps
        /\ op' = [op EXCEPT ![s].kind = kind, ![s].pc = "begin"]
        /\ started' = started + 1 /\ clash' = Mcp!Clash(kind)
        /\ UNCHANGED <<server, registry, procs, toggle, job, down>>
    BY <1>3 DEF Mcp!AgentOp, Mcp!Launch
  <2> QED BY <1>1, <2>1, LaunchStep DEF McpTyped
<1>4. ASSUME NEW s \in Slots, NEW on \in BOOLEAN, Mcp!PanelSave(s, on) \/ Mcp!AgentAdd(s, on)
      PROVE  McpInv'
  <2>1. /\ server' = IF server.known THEN [server EXCEPT !.enabled = on] ELSE Mcp!NewServer(on)
        /\ UNCHANGED <<registry, procs, toggle, down>>
        /\ \/ Mcp!Launch(s, "connect") /\ job' \in {s, job}
           \/ UNCHANGED <<op, started, clash, job>>
    BY <1>4 DEF Mcp!PanelSave, Mcp!AgentAdd
  <2>2. /\ server' \in ServerType
        /\ server'.client = server.client /\ server'.off = server.off
        /\ server'.status = server.status /\ (server.known => server'.known)
        /\ (~server'.known => ~server.known)
    BY <2>1, EntrySaved
  <2>3. CASE Mcp!Launch(s, "connect") /\ job' \in {s, job}
    <3>1. /\ op[s].pc = "idle" /\ started < MaxOps
          /\ op' = [op EXCEPT ![s].kind = "connect", ![s].pc = "begin"]
          /\ started' = started + 1 /\ clash' = Mcp!Clash("connect") /\ "connect" \in Mcp!Kinds
      BY <2>3 DEF Mcp!Launch, Mcp!Kinds
    <3> QED BY <1>1, <2>1, <2>2, <2>3, <3>1, LaunchStep
  <2>4. CASE UNCHANGED <<op, started, clash, job>>
    BY <1>1, <2>1, <2>2, <2>4, EntryStep
  <2> QED BY <2>1, <2>3, <2>4
<1>5. ASSUME NEW s \in Slots, Mcp!AgentRemove(s) PROVE McpInv'
  <2>1. /\ op[s].pc = "idle" /\ started < MaxOps
        /\ op' = [op EXCEPT ![s].kind = "remove", ![s].pc = "begin"]
        /\ started' = started + 1 /\ clash' = Mcp!Clash("remove") /\ "remove" \in Mcp!Kinds
        /\ UNCHANGED <<server, registry, procs, toggle, job, down>>
    BY <1>5 DEF Mcp!AgentRemove, Mcp!Launch, Mcp!Kinds
  <2> QED BY <1>1, <2>1, LaunchStep DEF McpTyped
<1>6. ASSUME NEW s \in Slots, Mcp!Shutdown(s) PROVE McpInv'
  <2>1. /\ op[s].pc = "idle" /\ down' = TRUE
        /\ op' = [op EXCEPT ![s].kind = "shutdown", ![s].pc = "begin"]
        /\ clash' = Mcp!Clash("shutdown") /\ "shutdown" \in Mcp!Kinds
        /\ UNCHANGED <<server, registry, procs, toggle, job, started>>
    BY <1>6 DEF Mcp!Shutdown, Mcp!Kinds
  <2> QED BY <1>1, <2>1, LaunchStep DEF McpTyped
<1>7. CASE Mcp!PanelDone
  <2>1. job' = None /\ UNCHANGED <<server, registry, procs, op, toggle, down, started, clash>>
    BY <1>7 DEF Mcp!PanelDone
  <2> QED BY <2>1, EntryStep DEF McpTyped
<1> QED BY <1>2, <1>3, <1>4, <1>5, <1>6, <1>7

LEMMA McpStep == ASSUME McpInv, Mcp!Next PROVE McpInv'
<1>1. ASSUME NEW s \in Slots, Mcp!Advance(s) PROVE McpInv'
  BY <1>1, ConnectStep, DisconnectStep, RefreshStep DEF Mcp!Advance
<1>2. CASE Mcp!User
  BY <1>2, UserStep, ToggleStep DEF Mcp!User
<1>3. CASE Mcp!ToggleRegister
  BY <1>3, ToggleStep
<1>4. CASE Mcp!PanelDone
  BY <1>4, UserStep
<1> QED BY <1>1, <1>2, <1>3, <1>4 DEF Mcp!Next

LEMMA McpStays == ASSUME McpInv, UNCHANGED mcpVars PROVE McpInv'
<1>1. UNCHANGED <<op, clash, registry, procs, toggle, down, started>> /\ job' = job /\ server' = server
  BY DEF mcpVars
<1> QED BY <1>1, EntryStep DEF McpInv, McpTyped

\* At startup nothing is registered and at most one connect is under way.
LEMMA McpInit == ASSUME Mcp!Init PROVE McpInv
<1> DEFINE first == {s \in Slots : op[s] # Mcp!Idle}
<1>1. /\ server \in {Mcp!NoServer, Mcp!NewServer(TRUE), Mcp!NewServer(FALSE)}
      /\ registry = {} /\ procs = [c \in Mcp!Clients |-> "none"]
      /\ op \in [Slots -> {Mcp!Idle, [Mcp!Idle EXCEPT !.kind = "connect", !.pc = "begin"]}]
      /\ toggle = None /\ job = None /\ down = FALSE /\ clash = "none"
      /\ started = Cardinality(first) /\ Cardinality(first) \in {0, 1}
  <2>1. \A S : Mcp!Cardinality(S) = Cardinality(S)
    BY Zenon DEF Mcp!Cardinality, Cardinality
  <2> QED BY <2>1 DEF Mcp!Init
<1>2. IsFiniteSet(first)
  BY SlotsAssumption, FS_Subset
<1>3. \A s, r \in first : s = r
  <2> HIDE DEF first
  <2>1. ASSUME Cardinality(first) = 0 PROVE first = {}
    BY <1>2, <2>1, FS_EmptySet
  <2>2. ASSUME Cardinality(first) = 1 PROVE \E x : first = {x}
    BY <1>2, <2>2, FS_Singleton
  <2> QED BY <1>1, <2>1, <2>2
<1>4. /\ [Mcp!Idle EXCEPT !.kind = "connect", !.pc = "begin"] \in OpType
      /\ [Mcp!Idle EXCEPT !.kind = "connect", !.pc = "begin"].pc = "begin"
  <2>1. Mcp!Idle \in OpType /\ "connect" \in Mcp!Kinds /\ "begin" \in Pcs
    BY Records DEF Mcp!Kinds, Pcs
  <2> QED BY <2>1 DEF OpType
<1>5. /\ server \in ServerType /\ server.off = {} /\ server.client = 0
      /\ server.status = "configured"
  BY <1>1, Records
<1>6. OpsTyped /\ procs \in ProcsType
  BY <1>1, <1>4, Records DEF OpsTyped, ProcsType
<1>7. McpTyped
  <2> HIDE DEF first
  <2>1. started \in 0..MaxOps + 1
    BY <1>1, McpBounds
  <2>2. Absent
    BY <1>5 DEF Absent
  <2>3. registry \subseteq Tools /\ down \in BOOLEAN
    BY <1>1
  <2> QED BY <1>1, <1>5, <1>6, <2>1, <2>2, <2>3 DEF McpTyped
<1>8. \A s \in Slots : op[s].pc # "idle" => s \in first /\ op[s].pc = "begin"
  BY <1>1, <1>4, Records
<1>9. FlagsKept
  BY <1>1, <1>3, <1>8 DEF FlagsKept, Kept, Loading, HasFlags
<1>10. \A s \in Slots : op[s].pc \in {"idle", "begin"}
  BY <1>8
<1>11. \A s \in Slots : Sole(s)
  BY <1>1, <1>5, <1>10 DEF Sole, Holding
<1>12. ProcsOwned
  BY <1>3, <1>8, <1>11 DEF ProcsOwned
<1> QED BY <1>7, <1>9, <1>12 DEF McpInv

\* One MCP server stays consistent: a tool switched off is offered to nobody, and
\* the processes that run belong to the entry's client (McpManager's
\* connect_async, disconnect_async, refresh_tools_async, set_tool_enabled), for any
\* tools, threads and numbers of operations and connections.
THEOREM ServerConsistent == Spec => []McpConsistent
<1>1. Init => McpInv
  BY McpInit DEF Init
<1>2. McpInv /\ [Next]_vars => McpInv'
  BY McpStep, McpStays DEF Next, vars
<1>3. McpInv => McpConsistent
  <2> SUFFICES ASSUME McpInv PROVE McpConsistent
    OBVIOUS
  <2>1. Mcp!Quiet => \A s \in Slots : op[s].pc = "idle" /\ toggle = None
    BY DEF Mcp!Quiet, Mcp!Busy
  <2>2. Mcp!DisabledStaysOut
    <3>1. Mcp!Quiet => \A s \in Slots : ~HasFlags(s)
      BY <2>1 DEF HasFlags
    <3> QED BY <3>1 DEF Mcp!DisabledStaysOut, Mcp!Quiet, McpInv, FlagsKept, Kept
  <2>3. Mcp!ProcessesOwned
    <3>1. PICK s \in Slots : TRUE
      BY SlotsAssumption
    <3>2. Mcp!Quiet /\ clash = "none" => Sole(s) /\ op[s].pc = "idle"
      BY <2>1 DEF McpInv, ProcsOwned
    <3> QED BY <3>2 DEF Mcp!ProcessesOwned, Sole, Holding
  <2> QED BY <2>2, <2>3, TypedIsOK DEF McpInv, McpConsistent
<1> QED BY <1>1, <1>2, <1>3, PTL DEF Spec
================================================================================

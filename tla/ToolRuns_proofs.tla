---------------------------- MODULE ToolRuns_proofs ----------------------------
(***************************************************************************)
(* Proofs about ToolRuns, for any ids, rounds and calls per round. The     *)
(* invariant follows a call from the slot it has in its round: as long as  *)
(* pass 2 has not reached it, PendingToolRuns.map holds it under its id,   *)
(* the first call of the round with that id, and what is in flight is in   *)
(* the map or is what pass 2 awaits.                                       *)
(***************************************************************************)
EXTENDS ToolRuns, SequenceTheorems, TLAPS

-----------------------------------------------------------------------------
(* The inductive invariant. *)

CallExists(c) == c[1] \in 1..round /\ c[2] \in 1..Len(calls[c[1]])

\* No call before c in its round has the id of c.
First(c) == \A k \in 1..(c[2] - 1) : calls[c[1]][k].id # CallOf(c).id

\* Pass 2 has not reached c, or is at it and has not taken its handle.
Ahead(c) ==
  /\ pc = "collect" => c[2] >= pos
  /\ pc \in {"await", "inline"} => c[2] > pos

\* Rounds hold at most MaxCalls calls, and the ones to come hold none.
Bounded ==
  /\ \A r \in 1..MaxRounds : Len(calls[r]) <= MaxCalls /\ (r > round => calls[r] = <<>>)
  /\ pc \in {"await", "inline"} => pos <= Len(Streamed)

\* Only calls of the run have a task, a tool or a token.
Begun ==
  \A c \in Slots : /\ task[c] # "none" => CallExists(c)
                   /\ body[c] # "none" \/ cancelled[c] => task[c] # "none"

\* A stream reports an id once.
StreamedOnce ==
  pc = "stream" => \A i, j \in DOMAIN Streamed : Streamed[i].id = Streamed[j].id => i = j

\* The map holds started calls of this round under their ids, each the first
\* with its id, none that pass 2 has passed.
MapSound ==
  \A id \in Ids, c \in Slots : map[id] = c =>
    /\ c[1] = round /\ CallExists(c) /\ CallOf(c).id = id
    /\ task[c] # "none" /\ First(c) /\ Ahead(c) /\ pc # "loop"

\* A token is registered under the id of its call.
RegistrySound ==
  \A id \in Ids, c \in Slots : registry[id] = c =>
    CallExists(c) /\ CallOf(c).id = id /\ task[c] # "none"

\* A started call of this round that pass 2 has not reached is in the map.
Placed ==
  pc \in {"stream", "start", "collect", "await", "inline"} =>
    \A c \in Slots : c[1] = round /\ task[c] # "none" /\ Ahead(c)
                       => CallOf(c).id # NoId /\ map[CallOf(c).id] = c

\* Until the run ends, what is in flight is in the map or is being awaited.
InFlightPlaced ==
  pc # "ended" =>
    \A c \in Slots : InFlight(c) =>
      \/ pc \in {"await", "inline"} /\ c = Cur
      \/ c[1] = round /\ CallOf(c).id # NoId /\ map[CallOf(c).id] = c

\* The token of a call in flight is cancelled only because the user said so.
CancelAsked == \A c \in Slots : cancelled[c] /\ InFlight(c) => c \in asked \/ stopped

\* A background call in flight has an id, and the id's token is its own.
Addressed ==
  \A c \in Slots : InFlight(c) /\ ~(pc = "inline" /\ c = Cur)
                      => CallOf(c).id # NoId /\ registry[CallOf(c).id] = c

Sound ==
  /\ Bounded /\ Begun /\ StreamedOnce /\ MapSound /\ RegistrySound /\ Placed
  /\ InFlightPlaced /\ CancelAsked /\ Addressed

IInv == TypeOK /\ Sound /\ RightTask /\ QuietAfterEnd

-----------------------------------------------------------------------------
(* Lemmas about the operators. *)

LEMMA SlotParts ==
  /\ \A c \in Slots : c = <<c[1], c[2]>> /\ c[1] \in 1..MaxRounds /\ c[2] \in 1..MaxCalls
  /\ \A r \in 1..MaxRounds, i \in 1..MaxCalls :
       <<r, i>> \in Slots /\ <<r, i>>[1] = r /\ <<r, i>>[2] = i
BY DEF Slots

LEMMA CallTypes ==
  ASSUME TypeOK, NEW c \in Slots, CallExists(c)
  PROVE  CallOf(c) \in Calls /\ CallOf(c).id \in Ids \cup {NoId}
<1>1. calls[c[1]] \in Seq(Calls)
  BY SlotParts DEF TypeOK
<1>2. c[2] \in 1..Len(calls[c[1]])
  BY DEF CallExists
<1>3. calls[c[1]][c[2]] \in Calls
  BY <1>1, <1>2, ElementOfSeq
<1> QED
  BY <1>3 DEF CallOf, Calls

\* What PendingToolRuns::start is called for: calls of this round that have an
\* id the map does not hold, the first of the round with that id.
Fresh(S) ==
  \A c \in S : /\ c \in Slots /\ c[1] = round /\ CallExists(c)
               /\ CallOf(c).id \in Ids /\ map[CallOf(c).id] = None /\ First(c)

\* Two first calls of a round with one id are one call.
LEMMA FirstUnique ==
  ASSUME TypeOK, NEW c \in Slots, NEW d \in Slots, c[1] = d[1], First(c), First(d),
         CallOf(c).id = CallOf(d).id
  PROVE  c = d
<1>1. c = <<c[1], c[2]>> /\ d = <<d[1], d[2]>> /\ c[2] \in Nat \ {0} /\ d[2] \in Nat \ {0}
  BY SlotParts
<1>2. ~(c[2] < d[2])
  BY <1>1 DEF First, CallOf
<1>3. ~(d[2] < c[2])
  BY <1>1 DEF First, CallOf
<1> QED
  BY <1>1, <1>2, <1>3

\* Inserting fresh calls gives each of them its id, and leaves other ids alone.
LEMMA InsertedFresh ==
  ASSUME TypeOK, NEW S, Fresh(S), NEW f \in [Ids -> Slots \cup {None}]
  PROVE  /\ Inserted(S, f) \in [Ids -> Slots \cup {None}]
         /\ \A c \in S : Inserted(S, f)[CallOf(c).id] = c
         /\ \A id \in Ids : (\A c \in S : CallOf(c).id # id) => Inserted(S, f)[id] = f[id]
<1> DEFINE Mine(id) == {c \in S : CallOf(c).id = id}
           Pick(id) == CHOOSE c \in Mine(id) : \A d \in Mine(id) : d[2] <= c[2]
<1>1. Inserted(S, f) = [id \in Ids |-> IF Mine(id) = {} THEN f[id] ELSE Pick(id)]
  BY DEF Inserted
<1>2. \A c \in S, d \in S : CallOf(c).id = CallOf(d).id => c = d
  BY FirstUnique DEF Fresh
<1>3. ASSUME NEW c \in S PROVE Pick(CallOf(c).id) = c /\ c \in Mine(CallOf(c).id)
  <2>1. Mine(CallOf(c).id) = {c}
    BY <1>2
  <2>2. c[2] <= c[2]
    BY <1>3, SlotParts DEF Fresh
  <2> QED
    BY <2>1, <2>2
<1>4. \A c \in S : Inserted(S, f)[CallOf(c).id] = c
  <2>1. \A c \in S : CallOf(c).id \in Ids /\ Mine(CallOf(c).id) # {}
    BY <1>3 DEF Fresh
  <2> HIDE DEF Mine, Pick
  <2> QED
    BY <1>1, <1>3, <2>1
<1>5. \A id \in Ids : (\A c \in S : CallOf(c).id # id) => Inserted(S, f)[id] = f[id]
  BY <1>1
<1>6. ASSUME NEW id \in Ids, Mine(id) # {} PROVE Pick(id) \in Slots
  <2>1. PICK c \in S : CallOf(c).id = id
    BY <1>6
  <2>2. Pick(id) = c
    BY ZenonT(40), <1>3, <2>1
  <2> QED
    BY <2>2 DEF Fresh
<1>7. Inserted(S, f) \in [Ids -> Slots \cup {None}]
  <2> HIDE DEF Mine, Pick
  <2> QED
    BY <1>1, <1>6
<1> QED
  BY <1>4, <1>5, <1>7

LEMMA StartEffect ==
  ASSUME TypeOK, NEW S, Fresh(S), Start(S)
  PROVE  /\ map' \in [Ids -> Slots \cup {None}]
         /\ registry' \in [Ids -> Slots \cup {None}]
         /\ task' \in [Slots -> {"none", "queued", "running", "over", "dropped"}]
         /\ \A c \in S : map'[CallOf(c).id] = c /\ registry'[CallOf(c).id] = c
         /\ \A id \in Ids : (\A c \in S : CallOf(c).id # id)
                              => map'[id] = map[id] /\ registry'[id] = registry[id]
         /\ \A c \in Slots : task'[c] = IF c \in S THEN "queued" ELSE task[c]
<1>1. map \in [Ids -> Slots \cup {None}] /\ registry \in [Ids -> Slots \cup {None}]
      /\ task \in [Slots -> {"none", "queued", "running", "over", "dropped"}]
  BY DEF TypeOK
<1>2. map' = Inserted(S, map) /\ registry' = Inserted(S, registry)
  BY DEF Start, Register
<1>3. task' = [c \in Slots |-> IF c \in S THEN "queued" ELSE task[c]]
  BY DEF Start
<1> QED
  BY <1>1, <1>2, <1>3, InsertedFresh

-----------------------------------------------------------------------------
(* The steps that start calls: StreamCall, MovePast, StartRest. *)

LEMMA LastReadyFresh ==
  ASSUME IInv, pc = "stream"
  PROVE  Fresh(LastReady)
<1> SUFFICES ASSUME NEW c \in LastReady
             PROVE  /\ c \in Slots /\ c[1] = round /\ CallExists(c)
                    /\ CallOf(c).id \in Ids /\ map[CallOf(c).id] = None /\ First(c)
  BY DEF Fresh
<1> DEFINE n == Len(Streamed)
<1>1. n # 0 /\ Ready(n) /\ c = <<round, n>>
  BY DEF LastReady
<1>2. round \in 1..MaxRounds /\ Streamed \in Seq(Calls)
  BY DEF IInv, TypeOK, Streamed
<1>3. n \in 1..MaxCalls /\ n \in DOMAIN Streamed /\ DOMAIN Streamed = 1..n
  BY <1>1, <1>2, BoundAssumption DEF IInv, Sound, Bounded, Streamed
<1>4. c \in Slots /\ c[1] = round /\ c[2] = n
  BY <1>1, <1>2, <1>3, SlotParts
<1>5. CallExists(c)
  BY <1>2, <1>3, <1>4, BoundAssumption DEF CallExists, Streamed
<1>6. CallOf(c).id \in Ids /\ map[CallOf(c).id] = None
  BY <1>1, <1>4, <1>5, CallTypes DEF Ready, Startable, IInv
<1>7. First(c)
  <2> SUFFICES ASSUME NEW k \in 1..(n - 1), Streamed[k].id = Streamed[n].id PROVE FALSE
    BY <1>4 DEF First, CallOf, Streamed
  <2>1. k \in DOMAIN Streamed /\ k # n
    <3> HIDE DEF n
    <3>1. n \in Nat /\ k \in 1..n /\ k # n
      BY <1>3, BoundAssumption
    <3> QED
      BY <1>3, <3>1
  <2> QED
    BY <2>1, <1>3 DEF IInv, Sound, StreamedOnce
<1> QED
  BY <1>4, <1>5, <1>6, <1>7

LEMMA RestFresh ==
  ASSUME IInv
  PROVE  Fresh({<<round, i>> : i \in {j \in DOMAIN Streamed :
                  /\ ~Truncated(j)
                  /\ Startable(<<round, j>>)
                  /\ \A k \in 1..(j - 1) : Streamed[k].id # Streamed[j].id}})
<1> SUFFICES ASSUME NEW j \in DOMAIN Streamed, Startable(<<round, j>>),
                    \A k \in 1..(j - 1) : Streamed[k].id # Streamed[j].id
             PROVE  LET c == <<round, j>> IN
                    /\ c \in Slots /\ c[1] = round /\ CallExists(c)
                    /\ CallOf(c).id \in Ids /\ map[CallOf(c).id] = None /\ First(c)
  BY DEF Fresh
<1> DEFINE c == <<round, j>>
<1>1. round \in 1..MaxRounds /\ Streamed \in Seq(Calls) /\ Len(Streamed) <= MaxCalls
  BY DEF IInv, TypeOK, Sound, Bounded, Streamed
<1>2. j \in 1..Len(Streamed) /\ j \in 1..MaxCalls
  BY <1>1, BoundAssumption
<1>3. c \in Slots /\ c[1] = round /\ c[2] = j
  BY <1>1, <1>2, SlotParts
<1>4. CallExists(c)
  BY <1>1, <1>2, <1>3, BoundAssumption DEF CallExists, Streamed
<1>5. CallOf(c).id \in Ids /\ map[CallOf(c).id] = None
  BY <1>3, <1>4, CallTypes DEF Startable, IInv
<1>6. First(c)
  BY <1>3 DEF First, CallOf, Streamed
<1> QED
  BY <1>3, <1>4, <1>5, <1>6

\* Starting fresh calls keeps what is claimed of calls, the map and the tokens.
LEMMA StartSound ==
  ASSUME IInv, NEW S, Fresh(S), Start(S),
         pc \in {"stream", "start"}, pc' \in {"stream", "collect"},
         pc' = "collect" => pos' = 1,
         round' = round, body' = body, cancelled' = cancelled, result' = result,
         asked' = asked, stopped' = stopped,
         \A c \in Slots : CallExists(c) =>
           CallExists(c)' /\ CallOf(c)' = CallOf(c) /\ (First(c) => First(c)')
  PROVE  /\ Begun' /\ MapSound' /\ RegistrySound' /\ Placed' /\ InFlightPlaced'
         /\ CancelAsked' /\ RightTask' /\ Addressed' /\ QuietAfterEnd'
         /\ \A c \in Slots : task'[c] = "queued" => task[c] \in {"none", "queued"}
<1> USE DEF IInv, Sound
<1>1. TypeOK /\ map \in [Ids -> Slots \cup {None}] /\ registry \in [Ids -> Slots \cup {None}]
  BY DEF TypeOK
<1>2. /\ \A c \in S : map'[CallOf(c).id] = c /\ registry'[CallOf(c).id] = c
      /\ \A id \in Ids : (\A c \in S : CallOf(c).id # id)
                           => map'[id] = map[id] /\ registry'[id] = registry[id]
      /\ \A c \in Slots : task'[c] = IF c \in S THEN "queued" ELSE task[c]
  BY StartEffect
<1>3. \A c \in S : c \in Slots /\ c[1] = round /\ CallExists(c) /\ CallOf(c).id \in Ids
                   /\ map[CallOf(c).id] = None /\ First(c) /\ c # None
  BY NoneAssumption DEF Fresh, Slots
<1>4. \A c \in S : task[c] = "none"
  BY <1>3 DEF Placed, Ahead
<1>5. Begun'
  BY <1>2, <1>3 DEF Begun
<1>6. MapSound'
  <2> SUFFICES ASSUME NEW id \in Ids, NEW c \in Slots, map'[id] = c
               PROVE  /\ c[1] = round' /\ CallExists(c)' /\ CallOf(c)'.id = id
                      /\ task'[c] # "none" /\ First(c)' /\ Ahead(c)' /\ pc' # "loop"
    BY DEF MapSound
  <2>1. Ahead(c)'
    BY SlotParts DEF Ahead
  <2>2. CASE \E d \in S : CallOf(d).id = id
    BY <1>2, <1>3, <2>1, <2>2
  <2>3. CASE \A d \in S : CallOf(d).id # id
    <3>1. map[id] = c
      BY <1>2, <2>3
    <3> QED
      BY <1>2, <2>1, <3>1 DEF MapSound
  <2> QED
    BY <2>2, <2>3
<1>7. RegistrySound'
  <2> SUFFICES ASSUME NEW id \in Ids, NEW c \in Slots, registry'[id] = c
               PROVE  CallExists(c)' /\ CallOf(c)'.id = id /\ task'[c] # "none"
    BY DEF RegistrySound
  <2>1. CASE \E d \in S : CallOf(d).id = id
    BY <1>2, <1>3, <2>1
  <2>2. CASE \A d \in S : CallOf(d).id # id
    BY <1>2, <2>2 DEF RegistrySound
  <2> QED
    BY <2>1, <2>2
<1>8. Placed'
  <2> SUFFICES ASSUME NEW c \in Slots, c[1] = round, task'[c] # "none"
               PROVE  CallOf(c)'.id # NoId /\ map'[CallOf(c)'.id] = c
    BY DEF Placed
  <2>1. CASE c \in S
    BY <1>2, <1>3, <2>1, IdAssumption
  <2>2. CASE c \notin S
    <3>1. task[c] # "none" /\ CallExists(c)
      BY <1>2, <2>2 DEF Begun
    <3>2. CallOf(c).id # NoId /\ map[CallOf(c).id] = c
      BY <3>1 DEF Placed, Ahead
    <3>3. CallOf(c).id \in Ids
      BY <1>1, <3>1, <3>2, CallTypes
    <3>4. \A d \in S : CallOf(d).id # CallOf(c).id
      BY <1>3, <3>2, NoneAssumption DEF Slots
    <3> QED
      BY <1>2, <3>1, <3>2, <3>3, <3>4
  <2> QED
    BY <2>1, <2>2
<1>9. InFlightPlaced'
  <2> SUFFICES ASSUME NEW c \in Slots, InFlight(c)'
               PROVE  c[1] = round /\ CallOf(c)'.id # NoId /\ map'[CallOf(c)'.id] = c
    BY DEF InFlightPlaced
  <2>1. task'[c] # "none"
    BY DEF InFlight
  <2>2. c[1] = round
    BY <1>2, <1>3 DEF InFlightPlaced, InFlight
  <2>3. Ahead(c)'
    BY <2>2, SlotParts DEF Ahead
  <2> QED
    BY <1>8, <2>1, <2>2, <2>3 DEF Placed
<1>10. CancelAsked'
  BY <1>2, <1>4, <1>3 DEF CancelAsked, InFlight, Begun
<1>11. RightTask'
  <2>1. AwaitsOwnTask'
    BY DEF AwaitsOwnTask
  <2>2. OnlyParsedRun'
    BY DEF OnlyParsedRun, RightTask, Begun
  <2>3. NoStrayAbort'
    BY DEF NoStrayAbort, RightTask
  <2> QED
    BY <2>1, <2>2, <2>3 DEF RightTask
<1>12. Addressed'
  <2> SUFFICES ASSUME NEW c \in Slots, InFlight(c)'
               PROVE  CallOf(c)'.id # NoId /\ registry'[CallOf(c)'.id] = c
    BY DEF Addressed
  <2>1. CASE c \in S
    BY <1>2, <1>3, <2>1, IdAssumption
  <2>2. CASE c \notin S
    <3>1. InFlight(c) /\ task[c] # "none" /\ CallExists(c)
      BY <1>2, <2>2 DEF InFlight, Begun
    <3>2. registry[CallOf(c).id] = c
      BY <3>1 DEF Addressed
    <3>3. CallOf(c).id # NoId /\ map[CallOf(c).id] = c
      BY <3>1 DEF InFlightPlaced
    <3>4. CallOf(c).id \in Ids
      BY <1>1, <3>1, <3>3, CallTypes
    <3>5. \A d \in S : CallOf(d).id # CallOf(c).id
      BY <1>3, <3>3, NoneAssumption DEF Slots
    <3> QED
      BY <1>2, <3>1, <3>2, <3>3, <3>4, <3>5
  <2> QED
    BY <2>1, <2>2
<1>13. QuietAfterEnd'
  BY DEF QuietAfterEnd
<1>14. \A c \in Slots : task'[c] = "queued" => task[c] \in {"none", "queued"}
  BY <1>2, <1>4
<1> QED
  BY <1>5, <1>6, <1>7, <1>8, <1>9, <1>10, <1>11, <1>12, <1>13, <1>14

-----------------------------------------------------------------------------
(* Where nothing is in flight. *)

\* Before a round reports its first call, no call of it exists.
LEMMA EmptyRound ==
  ASSUME IInv, pc = "stream", Streamed = <<>>
  PROVE  /\ \A c \in Slots : CallExists(c) => c[1] < round
         /\ \A id \in Ids : map[id] = None
         /\ \A c \in Slots : ~InFlight(c)
<1>1. ASSUME NEW c \in Slots, CallExists(c) PROVE c[1] < round
  BY <1>1, SlotParts, BoundAssumption DEF CallExists, Streamed, IInv, TypeOK
<1>2. round \in Nat
  BY BoundAssumption DEF IInv, TypeOK
<1>3. ASSUME NEW id \in Ids, map[id] # None PROVE FALSE
  <2>1. PICK c \in Slots : map[id] = c
    BY <1>3 DEF IInv, TypeOK
  <2>2. c[1] = round /\ CallExists(c)
    BY <2>1 DEF IInv, Sound, MapSound
  <2> QED
    BY <1>1, <1>2, <2>2
<1>4. ASSUME NEW c \in Slots, InFlight(c) PROVE FALSE
  <2>1. c[1] = round /\ CallExists(c)
    BY <1>4 DEF IInv, Sound, InFlightPlaced, InFlight, Begun
  <2> QED
    BY <1>1, <1>2, <2>1
<1> QED
  BY <1>1, <1>3, <1>4

\* Once pass 2 is through, the map is empty.
LEMMA CollectedIdle ==
  ASSUME IInv, (pc = "collect" /\ pos > Len(Streamed)) \/ pc = "loop"
  PROVE  /\ \A id \in Ids : map[id] = None
         /\ \A c \in Slots : ~InFlight(c)
<1>1. ASSUME NEW id \in Ids, map[id] # None PROVE FALSE
  <2>1. PICK c \in Slots : map[id] = c
    BY <1>1 DEF IInv, TypeOK
  <2>2. c[1] = round /\ CallExists(c) /\ Ahead(c) /\ pc # "loop"
    BY <2>1 DEF IInv, Sound, MapSound
  <2>3. Len(Streamed) \in Nat /\ pos \in Nat
    BY BoundAssumption DEF IInv, TypeOK, Streamed
  <2> QED
    BY <2>2, <2>3, SlotParts DEF CallExists, Ahead, Streamed
<1>2. ASSUME NEW c \in Slots, InFlight(c) PROVE FALSE
  <2>1. CallOf(c).id # NoId /\ map[CallOf(c).id] = c /\ CallExists(c)
    BY <1>2 DEF IInv, Sound, InFlightPlaced, InFlight, Begun
  <2>2. CallOf(c).id \in Ids /\ c # None
    BY <2>1, CallTypes, NoneAssumption DEF IInv, Slots
  <2> QED
    BY <1>1, <2>1, <2>2
<1> QED
  BY <1>1, <1>2

-----------------------------------------------------------------------------
(* The steps of the tasks: TaskBegin, TaskDone, TaskCancelled, BodyEnds. *)

\* A poll of one task moves that task on, and may remove the token its id has.
LEMMA PollSound ==
  ASSUME IInv, NEW c \in Slots, InFlight(c),
         UNCHANGED <<loopVars, map, cancelled, userVars>>,
         NEW x \in {"running", "over"}, task' = [task EXCEPT ![c] = x],
         body' \in [Slots -> {"none", "running", "over"}],
         \A d \in Slots : d # c => body'[d] = body[d],
         registry' = registry \/ (x = "over" /\ Deregister(c))
  PROVE  /\ Bounded' /\ Begun' /\ StreamedOnce' /\ MapSound' /\ RegistrySound' /\ Placed'
         /\ InFlightPlaced' /\ CancelAsked' /\ AwaitsOwnTask' /\ Addressed'
         /\ QuietAfterEnd'
<1> USE DEF IInv, Sound
<1>1. /\ pc' = pc /\ round' = round /\ calls' = calls /\ pos' = pos /\ handle' = handle
      /\ outcome' = outcome /\ map' = map /\ cancelled' = cancelled /\ stopped' = stopped
      /\ asked' = asked
  BY DEF loopVars, userVars
<1>2. \A d \in Slots : /\ task'[d] = IF d = c THEN x ELSE task[d]
                       /\ InFlight(d)' => InFlight(d)
                       /\ task'[d] # "none" <=> task[d] # "none"
  BY DEF TypeOK, InFlight
<1>3. Bounded' /\ StreamedOnce' /\ AwaitsOwnTask'
  BY <1>1 DEF Bounded, StreamedOnce, Streamed, AwaitsOwnTask, RightTask, Cur
<1>4. Begun'
  BY <1>1, <1>2 DEF Begun, CallExists, InFlight
<1>5. MapSound'
  BY SMTT(40), <1>1, <1>2 DEF MapSound, CallExists, CallOf, First, Ahead
<1>6. Placed'
  BY <1>1, <1>2 DEF Placed, CallOf, Ahead
<1>7. InFlightPlaced'
  BY <1>1, <1>2 DEF InFlightPlaced, CallOf, Cur
<1>8. CancelAsked'
  BY <1>1, <1>2 DEF CancelAsked
<1>9. QuietAfterEnd'
  BY <1>1, <1>2 DEF QuietAfterEnd, Cancelled
<1>10. registry' = registry \/ (x = "over" /\ registry' = [registry EXCEPT ![CallOf(c).id] = None])
  BY DEF Deregister
<1>11. RegistrySound'
  <2>1. \A id \in Ids, d \in Slots : registry'[id] = d => registry[id] = d
    BY <1>10, NoneAssumption DEF TypeOK, Slots
  <2> QED
    BY <1>1, <1>2, <2>1 DEF RegistrySound, CallExists, CallOf
<1>12. Addressed'
  <2> SUFFICES ASSUME NEW d \in Slots, InFlight(d)', ~(pc = "inline" /\ d = Cur)
               PROVE  CallOf(d).id # NoId /\ registry'[CallOf(d).id] = d
    BY <1>1 DEF Addressed, CallOf, Cur
  <2>1. InFlight(d) /\ CallOf(d).id # NoId /\ registry[CallOf(d).id] = d
    BY <1>2 DEF Addressed
  <2>4. CallOf(d).id \in Ids
    BY <2>1, CallTypes DEF Begun, InFlight
  <2>2. CASE registry' = registry
    BY <2>1, <2>2
  <2>3. CASE x = "over" /\ Deregister(c)
    <3>1. d # c
      BY <1>2, <2>3 DEF InFlight
    <3>2. CASE pc = "inline" /\ c = Cur
      BY <2>1, <2>3, <3>2 DEF Deregister
    <3>3. CASE ~(pc = "inline" /\ c = Cur)
      <4>1. registry[CallOf(c).id] = c
        BY <3>3 DEF Addressed
      <4>2. CallOf(c).id # CallOf(d).id
        BY <2>1, <3>1, <4>1
      <4> QED
        BY <1>10, <2>1, <2>4, <4>2 DEF TypeOK
    <3> QED
      BY <3>2, <3>3
  <2> QED
    BY <2>2, <2>3
<1> QED
  BY <1>3, <1>4, <1>5, <1>6, <1>7, <1>8, <1>9, <1>11, <1>12

LEMMA TaskBeginKeeps ==
  ASSUME IInv, NEW c \in Slots, TaskBegin(c)
  PROVE  IInv'
<1> USE DEF IInv, Sound
<1>1. InFlight(c)
  BY DEF TaskBegin, InFlight
<1>2. UNCHANGED <<loopVars, map, cancelled, userVars, stored>>
  BY DEF TaskBegin
<1>3. CASE CallOf(c).args = "complete"
  <2>1. /\ task' = [task EXCEPT ![c] = "running"] /\ body' = [body EXCEPT ![c] = "running"]
        /\ result' = result /\ registry' = registry
    BY <1>3 DEF TaskBegin
  <2>2. /\ Bounded' /\ Begun' /\ StreamedOnce' /\ MapSound' /\ RegistrySound' /\ Placed'
        /\ InFlightPlaced' /\ CancelAsked' /\ AwaitsOwnTask' /\ Addressed'
        /\ QuietAfterEnd'
    BY <1>1, <1>2, <2>1, PollSound DEF TypeOK
  <2>3. TypeOK'
    BY <1>2, <2>1 DEF TypeOK, loopVars, userVars
  <2>4. OnlyParsedRun'
    BY <1>2, <1>3, <2>1 DEF OnlyParsedRun, RightTask, TypeOK, CallOf, loopVars
  <2>5. NoStrayAbort'
    BY <1>2, <2>1 DEF NoStrayAbort, RightTask, userVars
  <2> QED
    BY <2>2, <2>3, <2>4, <2>5 DEF RightTask
<1>4. CASE CallOf(c).args # "complete"
  <2>1. /\ task' = [task EXCEPT ![c] = "over"] /\ body' = body
        /\ result' = [result EXCEPT ![c] = "bad_args"] /\ Deregister(c)
    BY <1>4 DEF TaskBegin
  <2>2. /\ Bounded' /\ Begun' /\ StreamedOnce' /\ MapSound' /\ RegistrySound' /\ Placed'
        /\ InFlightPlaced' /\ CancelAsked' /\ AwaitsOwnTask' /\ Addressed'
        /\ QuietAfterEnd'
    BY <1>1, <1>2, <2>1, PollSound DEF TypeOK
  <2>3. TypeOK'
    BY <1>2, <2>1 DEF TypeOK, loopVars, userVars, Deregister, Resulted
  <2>4. OnlyParsedRun'
    BY <1>2, <2>1 DEF OnlyParsedRun, RightTask, CallOf, loopVars
  <2>5. NoStrayAbort'
    BY <1>2, <2>1 DEF NoStrayAbort, RightTask, TypeOK, userVars
  <2> QED
    BY <2>2, <2>3, <2>4, <2>5 DEF RightTask
<1> QED
  BY <1>3, <1>4

LEMMA TaskEndsKeeps ==
  ASSUME IInv, NEW c \in Slots, TaskDone(c) \/ TaskCancelled(c)
  PROVE  IInv'
<1> USE DEF IInv, Sound
<1>1. InFlight(c)
  BY DEF TaskDone, TaskCancelled, InFlight
<1>2. /\ UNCHANGED <<loopVars, map, body, cancelled, userVars, stored>>
      /\ task' = [task EXCEPT ![c] = "over"] /\ Deregister(c)
      /\ \/ result' = [result EXCEPT ![c] = "output"]
         \/ result' = [result EXCEPT ![c] = "aborted"] /\ Cancelled(c)
  BY DEF TaskDone, TaskCancelled
<1>3. /\ Bounded' /\ Begun' /\ StreamedOnce' /\ MapSound' /\ RegistrySound' /\ Placed'
      /\ InFlightPlaced' /\ CancelAsked' /\ AwaitsOwnTask' /\ Addressed'
      /\ QuietAfterEnd'
  BY <1>1, <1>2, PollSound DEF TypeOK
<1>4. TypeOK'
  BY <1>2 DEF TypeOK, loopVars, userVars, Deregister, Resulted
<1>5. OnlyParsedRun'
  BY <1>2 DEF OnlyParsedRun, RightTask, CallOf, loopVars
<1>6. NoStrayAbort'
  <2>1. Cancelled(c) => c \in asked \/ stopped
    BY <1>1 DEF Cancelled, CancelAsked
  <2> QED
    BY <1>2, <2>1 DEF NoStrayAbort, RightTask, TypeOK, userVars
<1> QED
  BY <1>3, <1>4, <1>5, <1>6 DEF RightTask

LEMMA BodyEndsKeeps ==
  ASSUME IInv, NEW c \in Slots, BodyEnds(c)
  PROVE  IInv'
<1> USE DEF IInv, Sound
<1>1. /\ body[c] = "running" /\ body' = [body EXCEPT ![c] = "over"]
      /\ UNCHANGED <<loopVars, map, task, result, tokenVars, userVars, stored>>
  BY DEF BodyEnds
<1>2. TypeOK'
  BY <1>1 DEF TypeOK, loopVars, tokenVars, userVars
<1>3. Bounded' /\ StreamedOnce' /\ Placed' /\ InFlightPlaced' /\ CancelAsked'
  BY <1>1 DEF Bounded, StreamedOnce, Placed, InFlightPlaced, CancelAsked, Streamed, CallOf,
              Ahead, InFlight, Cur, loopVars, tokenVars, userVars
<1>4. Begun'
  BY <1>1 DEF Begun, CallExists, TypeOK, loopVars, tokenVars
<1>5. MapSound' /\ RegistrySound'
  BY <1>1 DEF MapSound, RegistrySound, CallExists, CallOf, First, Ahead, loopVars, tokenVars
<1>6. RightTask'
  BY <1>1 DEF RightTask, AwaitsOwnTask, OnlyParsedRun, NoStrayAbort, CallOf, Cur, TypeOK,
              loopVars, userVars
<1>7. Addressed' /\ QuietAfterEnd'
  BY <1>1 DEF Addressed, QuietAfterEnd, InFlight, Cancelled, CallOf, Cur, loopVars,
              tokenVars, userVars
<1> QED
  BY <1>2, <1>3, <1>4, <1>5, <1>6, <1>7

-----------------------------------------------------------------------------
(* The steps that end the run. *)

LEMMA AbortAllEffect ==
  ASSUME TypeOK, AbortAll
  PROVE  /\ task' \in [Slots -> {"none", "queued", "running", "over", "dropped"}]
         /\ cancelled' \in [Slots -> BOOLEAN]
         /\ \A c \in Slots : task'[c] = task[c] \/ (InFlight(c) /\ task'[c] = "dropped")
         /\ \A c \in Slots : cancelled'[c] => cancelled[c] \/ \E id \in Ids : registry[id] = c
<1>1. task \in [Slots -> {"none", "queued", "running", "over", "dropped"}]
      /\ cancelled \in [Slots -> BOOLEAN]
  BY DEF TypeOK
<1>2. /\ task' \in [Slots -> {"none", "queued", "running", "over", "dropped"}]
      /\ \A c \in Slots : task'[c] = task[c] \/ (InFlight(c) /\ task'[c] = "dropped")
  <2>1. task' = [c \in Slots |->
           IF InFlight(c) /\ \E id \in Ids : map[id] = c THEN "dropped" ELSE task[c]]
    BY DEF AbortAll
  <2>2. \A c \in Slots : task'[c] \in {task[c], "dropped"}
                         /\ (task'[c] # task[c] => InFlight(c))
    BY <2>1
  <2> QED
    BY <1>1, <2>1, <2>2
<1>3. cancelled' \in [Slots -> BOOLEAN]
  BY <1>1 DEF AbortAll
<1>4. \A c \in Slots : cancelled'[c] => cancelled[c] \/ \E id \in Ids : registry[id] = c
  BY <1>1 DEF AbortAll
<1> QED
  BY <1>2, <1>3, <1>4

\* During the stream all that is in flight is in the map, and abort_all ends it.
LEMMA AbortAllDropsAll ==
  ASSUME IInv, pc = "stream", AbortAll
  PROVE  \A c \in Slots : ~InFlight(c)'
<1> SUFFICES ASSUME NEW c \in Slots, InFlight(c)' PROVE FALSE
  OBVIOUS
<1>1. InFlight(c)
  BY AbortAllEffect DEF IInv, InFlight
<1>2. CallOf(c).id # NoId /\ map[CallOf(c).id] = c /\ CallExists(c)
  BY <1>1 DEF IInv, Sound, InFlightPlaced, InFlight, Begun
<1>3. CallOf(c).id \in Ids
  BY <1>2, CallTypes DEF IInv
<1> QED
  BY <1>1, <1>2, <1>3 DEF AbortAll, InFlight

\* Whatever the run ended with, a step that ends it keeps what is claimed of calls.
LEMMA EndSound ==
  ASSUME IInv, pc # "ended", pc' = "ended",
         UNCHANGED <<round, calls, map, body, result, registry, stopped, asked>>,
         \A c \in Slots : task'[c] = task[c] \/ (InFlight(c) /\ task'[c] = "dropped"),
         \A c \in Slots : cancelled'[c] => cancelled[c] \/ \E id \in Ids : registry[id] = c,
         cancelled' = cancelled \/ stopped \/ \A c \in Slots : ~InFlight(c)',
         pc = "inline" => task'[Cur] \notin {"queued", "running"}
  PROVE  Sound' /\ RightTask'
<1> USE DEF IInv, Sound
<1>1. \A c \in Slots : /\ InFlight(c)' => InFlight(c) /\ task'[c] = task[c]
                       /\ task'[c] # "none" <=> task[c] # "none"
  BY DEF InFlight
<1>2. Bounded' /\ StreamedOnce' /\ Placed' /\ InFlightPlaced'
  BY DEF Bounded, StreamedOnce, Placed, InFlightPlaced
<1>3. Begun'
  <2>1. \A c \in Slots : (\E id \in Ids : registry[id] = c) => task[c] # "none"
    BY DEF RegistrySound
  <2> QED
    BY <1>1, <2>1 DEF Begun, CallExists
<1>4. MapSound' /\ RegistrySound'
  BY <1>1 DEF MapSound, RegistrySound, CallExists, CallOf, First, Ahead
<1>5. CancelAsked'
  BY <1>1 DEF CancelAsked
<1>6. Addressed'
  <2> SUFFICES ASSUME NEW c \in Slots, InFlight(c)'
               PROVE  CallOf(c).id # NoId /\ registry[CallOf(c).id] = c
    BY DEF Addressed, CallOf
  <2>1. ~(pc = "inline" /\ c = Cur)
    BY DEF InFlight
  <2> QED
    BY <1>1, <2>1 DEF Addressed
<1>7. RightTask'
  BY DEF RightTask, AwaitsOwnTask, OnlyParsedRun, NoStrayAbort, CallOf
<1> QED
  BY <1>2, <1>3, <1>4, <1>5, <1>6, <1>7

\* A final answer, the failure of the first request, a stop between rounds.
LEMMA PlainEndKeeps ==
  ASSUME IInv, Answer \/ FirstFails \/ LoopStopped
  PROVE  IInv'
<1>1. /\ pc \in {"stream", "loop"} /\ pc' = "ended"
      /\ UNCHANGED <<round, attempt, text, calls, pos, handle, map, taskVars, tokenVars,
                     userVars, stored>>
      /\ outcome' \in {"answered", "first_failed", "cancelled"}
  BY DEF Answer, FirstFails, LoopStopped
<1>2. TypeOK'
  BY <1>1 DEF IInv, TypeOK, Pcs, Outcomes, taskVars, tokenVars, userVars
<1>3. Sound' /\ RightTask'
  <2>1. /\ round' = round /\ calls' = calls /\ map' = map /\ body' = body /\ result' = result
        /\ registry' = registry /\ stopped' = stopped /\ asked' = asked
        /\ task' = task /\ cancelled' = cancelled
    BY <1>1 DEF taskVars, tokenVars, userVars
  <2>2. \A c \in Slots : task'[c] = task[c] /\ cancelled'[c] = cancelled[c]
    BY <2>1
  <2> QED
    BY <1>1, <2>1, <2>2, EndSound
<1>4. QuietAfterEnd'
  <2>1. CASE Answer
    <3>1. \A c \in Slots : ~InFlight(c)
      BY <2>1, EmptyRound DEF Answer
    <3> QED
      BY <1>1, <3>1 DEF QuietAfterEnd, InFlight, taskVars
  <2>2. CASE FirstFails
    BY <2>2 DEF FirstFails, QuietAfterEnd
  <2>3. CASE LoopStopped
    BY <2>3 DEF LoopStopped, QuietAfterEnd, Cancelled, userVars
  <2> QED
    BY <2>1, <2>2, <2>3
<1> QED
  BY <1>2, <1>3, <1>4 DEF IInv

\* The ends that abort what runs in the background.
LEMMA AbortingEndKeeps ==
  ASSUME IInv, RetryFails \/ StreamStopped \/ CollectStopped
  PROVE  IInv'
<1>1. /\ pc \in {"stream", "collect"} /\ pc' = "ended"
      /\ AbortAll /\ outcome' \in {"retry_failed", "cancelled"}
      /\ UNCHANGED <<round, attempt, text, calls, pos, handle, map, body, result, registry,
                     userVars, stored>>
      /\ stopped \/ pc = "stream"
  BY DEF RetryFails, StreamStopped, CollectStopped
<1>2. TypeOK'
  <2>1. task' \in [Slots -> {"none", "queued", "running", "over", "dropped"}]
        /\ cancelled' \in [Slots -> BOOLEAN]
    BY <1>1, AbortAllEffect DEF IInv
  <2> QED
    BY <1>1, <2>1 DEF IInv, TypeOK, Pcs, Outcomes, userVars
<1>3. stopped \/ \A c \in Slots : ~InFlight(c)'
  BY <1>1, AbortAllDropsAll
<1>4. Sound' /\ RightTask'
  BY <1>1, <1>3, AbortAllEffect, EndSound DEF IInv, userVars
<1>5. QuietAfterEnd'
  BY <1>1, <1>3 DEF QuietAfterEnd, Cancelled, userVars
<1> QED
  BY <1>2, <1>4, <1>5 DEF IInv

LEMMA RunDroppedKeeps ==
  ASSUME IInv, RunDropped
  PROVE  IInv'
<1>1. /\ pc \in {"stream", "await", "inline", "loop"} /\ stopped /\ pc' = "ended"
      /\ outcome' = "dropped"
      /\ task' = IF pc = "inline" /\ InFlight(Cur)
                 THEN [task EXCEPT ![Cur] = "dropped"] ELSE task
      /\ UNCHANGED <<round, attempt, text, calls, pos, handle, map, body, result,
                     tokenVars, userVars, stored>>
  BY DEF RunDropped
<1>2. TypeOK'
  BY <1>1 DEF IInv, TypeOK, Pcs, Outcomes, tokenVars, userVars
<1>3. \A c \in Slots : task'[c] = task[c] \/ (InFlight(c) /\ task'[c] = "dropped")
  <2>1. CASE pc = "inline" /\ InFlight(Cur)
    <3>1. task' = [task EXCEPT ![Cur] = "dropped"] /\ task \in [Slots -> {"none", "queued", "running", "over", "dropped"}]
      BY <1>1, <2>1 DEF IInv, TypeOK
    <3> QED
      BY <2>1, <3>1
  <2>2. CASE ~(pc = "inline" /\ InFlight(Cur))
    BY <1>1, <2>2
  <2> QED
    BY <2>1, <2>2
<1>4. pc = "inline" => task'[Cur] \notin {"queued", "running"}
  <2>1. pc = "inline" => Cur \in Slots
    BY DEF IInv, RightTask, AwaitsOwnTask, TypeOK
  <2> QED
    BY <1>1, <2>1 DEF IInv, TypeOK, InFlight
<1>5. Sound' /\ RightTask'
  BY <1>1, <1>3, <1>4, EndSound DEF tokenVars, userVars
<1>6. QuietAfterEnd'
  BY <1>1 DEF QuietAfterEnd, Cancelled, userVars
<1> QED
  BY <1>2, <1>5, <1>6 DEF IInv

-----------------------------------------------------------------------------
(* The other steps of the stream. *)

LEMMA StreamCallKeeps ==
  ASSUME IInv, NEW call \in Calls, StreamCall(call)
  PROVE  IInv' /\ \A c \in Slots : task'[c] = "queued" => task[c] \in {"none", "queued"}
<1> USE DEF IInv, Sound
<1>1. /\ pc = "stream" /\ Len(Streamed) < MaxCalls /\ Start(LastReady)
      /\ \A i \in DOMAIN Streamed : Streamed[i].id # call.id
      /\ calls' = [calls EXCEPT ![round] = Append(@, call)]
      /\ UNCHANGED <<pc, round, attempt, outcome, text, pos, handle, body, result,
                     cancelled, userVars, stored>>
  BY DEF StreamCall
<1>2. Fresh(LastReady)
  BY <1>1, LastReadyFresh
<1>3. /\ round \in 1..MaxRounds /\ Streamed \in Seq(Calls) /\ calls \in [1..MaxRounds -> Seq(Calls)]
      /\ calls[round] = Streamed
  BY DEF TypeOK, Streamed
<1>4. /\ Append(Streamed, call) \in Seq(Calls)
      /\ Len(Append(Streamed, call)) = Len(Streamed) + 1
      /\ \A i \in 1..Len(Streamed) : Append(Streamed, call)[i] = Streamed[i]
      /\ Append(Streamed, call)[Len(Streamed) + 1] = call
  BY <1>3, AppendProperties
<1>5. /\ calls'[round] = Append(Streamed, call)
      /\ \A r \in 1..MaxRounds : r # round => calls'[r] = calls[r]
  BY <1>1, <1>3
<1>6. TypeOK'
  <2>1. calls' \in [1..MaxRounds -> Seq(Calls)]
    BY <1>1, <1>3, <1>4
  <2>2. /\ map' \in [Ids -> Slots \cup {None}] /\ registry' \in [Ids -> Slots \cup {None}]
        /\ task' \in [Slots -> {"none", "queued", "running", "over", "dropped"}]
    BY <1>1, <1>2, StartEffect
  <2> QED
    BY <1>1, <2>1, <2>2 DEF TypeOK, userVars
<1>7. Bounded'
  <2>1. Len(Streamed) + 1 <= MaxCalls
    BY <1>1, <1>3, BoundAssumption
  <2> QED
    BY <1>1, <1>3, <1>4, <1>5, <2>1, BoundAssumption DEF Bounded
<1>8. StreamedOnce'
  <2>1. Streamed' = Append(Streamed, call)
    BY <1>1, <1>5 DEF Streamed
  <2>2. DOMAIN Streamed' = 1..(Len(Streamed) + 1) /\ DOMAIN Streamed = 1..Len(Streamed)
        /\ Len(Streamed) \in Nat
    BY <1>3, <1>4, <2>1
  <2>3. \A i \in 1..(Len(Streamed) + 1) : i \in 1..Len(Streamed) \/ i = Len(Streamed) + 1
    BY <2>2
  <2> QED
    BY <1>1, <1>4, <2>1, <2>2, <2>3 DEF StreamedOnce
<1>9. ASSUME NEW c \in Slots, CallExists(c)
      PROVE  CallExists(c)' /\ CallOf(c)' = CallOf(c) /\ (First(c) => First(c)')
  <2>1. c[1] \in 1..MaxRounds /\ c[1] \in 1..round /\ c[2] \in 1..Len(calls[c[1]])
        /\ c[2] \in Nat
    BY <1>9, SlotParts, BoundAssumption DEF CallExists
  <2>2. Len(calls'[c[1]]) >= Len(calls[c[1]]) /\ Len(calls[c[1]]) \in Nat
        /\ Len(calls'[c[1]]) \in Nat
    BY SMTT(40), <1>3, <1>4, <1>5, <2>1
  <2>3. \A k \in 1..Len(calls[c[1]]) : calls'[c[1]][k] = calls[c[1]][k]
    BY <1>3, <1>4, <1>5, <2>1
  <2>4. \A k \in 1..(c[2] - 1) : k \in 1..Len(calls[c[1]])
    BY <2>1, <2>2
  <2> QED
    BY SMTT(40), <1>1, <2>1, <2>2, <2>3, <2>4 DEF CallExists, CallOf, First
<1>10. /\ Begun' /\ MapSound' /\ RegistrySound' /\ Placed' /\ InFlightPlaced'
       /\ CancelAsked' /\ RightTask' /\ Addressed' /\ QuietAfterEnd'
       /\ \A c \in Slots : task'[c] = "queued" => task[c] \in {"none", "queued"}
  BY <1>1, <1>2, <1>9, StartSound DEF userVars
<1> QED
  BY <1>6, <1>7, <1>8, <1>10

LEMMA MovePastKeeps ==
  ASSUME IInv, MovePast
  PROVE  IInv' /\ \A c \in Slots : task'[c] = "queued" => task[c] \in {"none", "queued"}
<1> USE DEF IInv, Sound
<1>1. /\ pc = "stream" /\ Start(LastReady)
      /\ UNCHANGED <<loopVars, body, result, cancelled, userVars, stored>>
  BY DEF MovePast
<1>2. Fresh(LastReady)
  BY <1>1, LastReadyFresh
<1>3. TypeOK'
  BY <1>1, <1>2, StartEffect DEF TypeOK, loopVars, userVars
<1>4. Bounded' /\ StreamedOnce'
  BY <1>1 DEF Bounded, StreamedOnce, Streamed, loopVars
<1>5. \A c \in Slots : /\ CallExists(c)' <=> CallExists(c) 
                       /\ CallOf(c)' = CallOf(c) /\ (First(c) => First(c)')
  BY <1>1 DEF CallExists, CallOf, First, loopVars
<1>6. /\ Begun' /\ MapSound' /\ RegistrySound' /\ Placed' /\ InFlightPlaced'
      /\ CancelAsked' /\ RightTask' /\ Addressed' /\ QuietAfterEnd'
      /\ \A c \in Slots : task'[c] = "queued" => task[c] \in {"none", "queued"}
  BY <1>1, <1>2, <1>5, StartSound DEF loopVars, userVars
<1> QED
  BY <1>3, <1>4, <1>6

LEMMA StartRestKeeps ==
  ASSUME IInv, StartRest
  PROVE  IInv' /\ \A c \in Slots : task'[c] = "queued" => task[c] \in {"none", "queued"}
<1> USE DEF IInv, Sound
<1> DEFINE Rest == {<<round, i>> : i \in {j \in DOMAIN Streamed :
                      /\ ~Truncated(j)
                      /\ Startable(<<round, j>>)
                      /\ \A k \in 1..(j - 1) : Streamed[k].id # Streamed[j].id}}
<1>1. /\ pc = "start" /\ pc' = "collect" /\ pos' = 1 /\ Start(Rest)
      /\ UNCHANGED <<round, attempt, outcome, text, calls, handle, body, result,
                     cancelled, userVars, stored>>
  BY DEF StartRest
<1>2. Fresh(Rest)
  BY RestFresh
<1> HIDE DEF Rest
<1>3. TypeOK'
  <2>1. /\ map' \in [Ids -> Slots \cup {None}] /\ registry' \in [Ids -> Slots \cup {None}]
        /\ task' \in [Slots -> {"none", "queued", "running", "over", "dropped"}]
    BY <1>1, <1>2, StartEffect
  <2> QED
    BY <1>1, <2>1, BoundAssumption DEF TypeOK, Pcs, userVars
<1>4. Bounded' /\ StreamedOnce'
  BY <1>1 DEF Bounded, StreamedOnce, Streamed
<1>5. \A c \in Slots : /\ CallExists(c)' <=> CallExists(c)
                       /\ CallOf(c)' = CallOf(c) /\ (First(c) => First(c)')
  BY <1>1 DEF CallExists, CallOf, First
<1>6. /\ Begun' /\ MapSound' /\ RegistrySound' /\ Placed' /\ InFlightPlaced'
      /\ CancelAsked' /\ RightTask' /\ Addressed' /\ QuietAfterEnd'
      /\ \A c \in Slots : task'[c] = "queued" => task[c] \in {"none", "queued"}
  BY <1>1, <1>2, <1>5, StartSound DEF userVars
<1> QED
  BY <1>3, <1>4, <1>6

LEMMA StreamEndsKeeps ==
  ASSUME IInv, StreamEnds
  PROVE  IInv'
<1> USE DEF IInv, Sound
<1>1. /\ pc = "stream" /\ pc' = "start" /\ text' = FALSE /\ stored' = stored \cup {"complete"}
      /\ UNCHANGED <<round, attempt, outcome, calls, pos, handle, map, taskVars,
                     tokenVars, userVars>>
  BY DEF StreamEnds
<1>2. TypeOK'
  BY <1>1 DEF TypeOK, Pcs, Shapes, taskVars, tokenVars, userVars
<1>3. Bounded' /\ Begun' /\ StreamedOnce' /\ RegistrySound' /\ CancelAsked'
  BY <1>1 DEF Bounded, Begun, StreamedOnce, RegistrySound, CancelAsked, Streamed, CallExists,
              CallOf, InFlight, taskVars, tokenVars, userVars
<1>4. MapSound' /\ Placed' /\ InFlightPlaced'
  BY <1>1 DEF MapSound, Placed, InFlightPlaced, CallExists, CallOf, First, Ahead, InFlight,
              taskVars
<1>5. Addressed' /\ RightTask' /\ QuietAfterEnd'
  BY <1>1 DEF Addressed, RightTask, AwaitsOwnTask, OnlyParsedRun, NoStrayAbort,
              QuietAfterEnd, InFlight, CallOf, taskVars, tokenVars, userVars
<1> QED
  BY <1>2, <1>3, <1>4, <1>5

LEMMA StreamEndsTextKeeps ==
  ASSUME IInv, NEW embedded \in TextRounds, StreamEndsText(embedded)
  PROVE  IInv'
<1> USE DEF IInv, Sound
<1>1. /\ pc = "stream" /\ Streamed = <<>> /\ pc' = "start" /\ text' = TRUE
      /\ calls' = [calls EXCEPT ![round] = embedded]
      /\ UNCHANGED <<round, attempt, outcome, pos, handle, map, taskVars, tokenVars,
                     userVars, stored>>
  BY DEF StreamEndsText
<1>2. embedded \in Seq(Calls) /\ Len(embedded) <= MaxCalls
  <2>1. PICK n \in 1..MaxCalls :
          embedded \in [1..n -> [id : Ids \cup {NoId}, args : {"complete", "malformed"}]]
    BY DEF TextRounds
  <2>2. n \in Nat /\ embedded \in [1..n -> Calls]
    BY <2>1, BoundAssumption DEF Calls, Shapes
  <2>3. embedded \in Seq(Calls) /\ Len(embedded) = n
    BY <2>2, SeqDef
  <2> QED
    BY <2>1, <2>3, BoundAssumption
<1>3. TypeOK'
  BY <1>1, <1>2 DEF TypeOK, Pcs, taskVars, tokenVars, userVars
<1>4. /\ \A r \in 1..MaxRounds : r # round => calls'[r] = calls[r]
      /\ calls'[round] = embedded
      /\ round \in 1..MaxRounds
  BY <1>1 DEF TypeOK
<1>5. Bounded'
  BY <1>1, <1>2, <1>4, BoundAssumption DEF Bounded
<1>6. \A c \in Slots : CallExists(c) => CallExists(c)' /\ CallOf(c)' = CallOf(c)
  <2> SUFFICES ASSUME NEW c \in Slots, CallExists(c)
               PROVE  CallExists(c)' /\ CallOf(c)' = CallOf(c)
    OBVIOUS
  <2>1. c[1] \in 1..MaxRounds /\ c[1] < round
    BY <1>1, EmptyRound, SlotParts
  <2>2. calls'[c[1]] = calls[c[1]]
    BY <1>4, <2>1, BoundAssumption
  <2> QED
    BY <1>1, <2>2 DEF CallExists, CallOf
<1>7. (\A id \in Ids : map'[id] = None) /\ \A c \in Slots : ~InFlight(c)'
  BY <1>1, EmptyRound DEF InFlight, taskVars
<1>8. Begun' /\ RegistrySound'
  BY <1>1, <1>6 DEF Begun, RegistrySound, taskVars, tokenVars
<1>9. StreamedOnce' /\ CancelAsked' /\ InFlightPlaced' /\ Addressed' /\ QuietAfterEnd'
  BY <1>1, <1>7 DEF StreamedOnce, CancelAsked, InFlightPlaced, Addressed, QuietAfterEnd
<1>10. MapSound'
  BY <1>7, NoneAssumption DEF MapSound, Slots
<1>11. Placed'
  <2> SUFFICES ASSUME NEW c \in Slots, c[1] = round, task[c] # "none" PROVE FALSE
    BY <1>1 DEF Placed, taskVars
  <2>1. CallExists(c)
    BY DEF Begun
  <2> QED
    BY <1>1, <1>4, <2>1, EmptyRound, BoundAssumption
<1>12. RightTask'
  <2>1. \A c \in Slots : body[c] # "none" => CallExists(c)
    BY DEF Begun
  <2> QED
    BY <1>1, <1>6, <2>1 DEF RightTask, AwaitsOwnTask, OnlyParsedRun, NoStrayAbort, taskVars,
                            userVars
<1> QED
  BY <1>3, <1>5, <1>8, <1>9, <1>10, <1>11, <1>12

LEMMA OverflowKeeps ==
  ASSUME IInv, Overflow
  PROVE  IInv'
<1> USE DEF IInv, Sound
<1>1. /\ pc = "stream" /\ Streamed = <<>> /\ attempt' = 2 /\ AbortAll
      /\ map' = [id \in Ids |-> None]
      /\ UNCHANGED <<pc, round, outcome, text, calls, pos, handle, body, result,
                     registry, userVars, stored>>
  BY DEF Overflow
<1>2. \A c \in Slots : ~InFlight(c)
  BY <1>1, EmptyRound
<1>3. task' = task
  <2>1. \A c \in Slots : task'[c] = task[c]
    BY <1>1, <1>2, AbortAllEffect
  <2> QED
    BY <1>1, <2>1, AbortAllEffect DEF TypeOK
<1>4. /\ cancelled' \in [Slots -> BOOLEAN]
      /\ \A c \in Slots : cancelled'[c] => cancelled[c] \/ \E id \in Ids : registry[id] = c
  BY <1>1, AbortAllEffect
<1>5. TypeOK'
  BY <1>1, <1>3, <1>4 DEF TypeOK, userVars
<1>6. Bounded' /\ StreamedOnce'
  BY <1>1 DEF Bounded, StreamedOnce, Streamed
<1>7. Begun'
  <2>1. \A c \in Slots : (\E id \in Ids : registry[id] = c) => task[c] # "none"
    BY DEF RegistrySound
  <2> QED
    BY <1>1, <1>3, <1>4, <2>1 DEF Begun, CallExists
<1>8. RegistrySound'
  BY <1>1, <1>3 DEF RegistrySound, CallExists, CallOf
<1>9. MapSound'
  BY <1>1, NoneAssumption DEF MapSound, Slots
<1>10. Placed'
  <2> SUFFICES ASSUME NEW c \in Slots, c[1] = round, task[c] # "none" PROVE FALSE
    BY <1>1, <1>3 DEF Placed
  <2>1. CallExists(c) /\ round \in Nat
    BY BoundAssumption DEF Begun, TypeOK
  <2> QED
    BY <1>1, <2>1, EmptyRound
<1>11. InFlightPlaced' /\ CancelAsked' /\ Addressed' /\ QuietAfterEnd'
  BY <1>1, <1>2, <1>3 DEF InFlightPlaced, CancelAsked, Addressed, QuietAfterEnd, InFlight
<1>12. RightTask'
  BY <1>1 DEF RightTask, AwaitsOwnTask, OnlyParsedRun, NoStrayAbort, CallOf, userVars
<1> QED
  BY <1>5, <1>6, <1>7, <1>8, <1>9, <1>10, <1>11, <1>12

-----------------------------------------------------------------------------
(* Pass 2 and the next round. *)

\* The call pass 2 is at.
LEMMA CurrentCall ==
  ASSUME IInv, Collecting
  PROVE  /\ pc = "collect" /\ pos \in 1..MaxCalls /\ pos <= Len(Streamed)
         /\ Cur \in Slots /\ Cur[1] = round /\ Cur[2] = pos /\ CallExists(Cur)
         /\ CallOf(Cur) = Streamed[pos] /\ Streamed[pos].id \in Ids \cup {NoId}
<1>1. pc = "collect" /\ pos <= Len(Streamed) /\ pos \in Nat \ {0} /\ round \in 1..MaxRounds
  BY BoundAssumption DEF Collecting, IInv, TypeOK
<1>2. Len(Streamed) \in Nat /\ Len(Streamed) <= MaxCalls
  BY <1>1 DEF IInv, Sound, Bounded, TypeOK, Streamed
<1>3. pos \in 1..MaxCalls
  BY <1>1, <1>2, BoundAssumption
<1>4. Cur \in Slots /\ Cur[1] = round /\ Cur[2] = pos
  BY <1>1, <1>3, SlotParts DEF Cur
<1>5. CallExists(Cur) /\ CallOf(Cur) = Streamed[pos]
  BY <1>1, <1>2, <1>4, BoundAssumption DEF CallExists, CallOf, Streamed
<1> QED
  BY <1>1, <1>3, <1>4, <1>5, CallTypes DEF IInv

\* A handle found under the id of the call pass 2 is at is the call's own: the
\* map holds no call that was passed, and of calls with one id only the first.
LEMMA TakenIsCurrent ==
  ASSUME IInv, Collecting, Taken # None
  PROVE  Taken = Cur /\ Streamed[pos].id \in Ids /\ map[Streamed[pos].id] = Cur
<1>1. Streamed[pos].id \in Ids /\ Taken = map[Streamed[pos].id]
  BY CurrentCall DEF Taken
<1>2. Taken \in Slots
  BY <1>1 DEF IInv, TypeOK
<1>3. /\ Taken[1] = round /\ CallOf(Taken).id = Streamed[pos].id /\ First(Taken)
      /\ Taken[2] >= pos
  BY <1>1, <1>2, CurrentCall DEF IInv, Sound, MapSound, Ahead
<1>4. ~(pos < Taken[2])
  <2> SUFFICES ASSUME pos < Taken[2] PROVE FALSE
    OBVIOUS
  <2>1. pos \in 1..(Taken[2] - 1)
    BY <1>2, CurrentCall, SlotParts, BoundAssumption
  <2> QED
    BY <1>3, <2>1 DEF First, Streamed
<1>5. Taken = Cur
  BY <1>2, <1>3, <1>4, CurrentCall, SlotParts, BoundAssumption DEF Cur
<1> QED
  BY <1>1, <1>5

LEMMA CollectTruncatedKeeps ==
  ASSUME IInv, CollectTruncated
  PROVE  IInv'
<1> USE DEF IInv, Sound
<1>1. /\ Collecting
      /\ map' = [id \in Ids |-> IF id = Streamed[pos].id THEN None ELSE map[id]]
      /\ task' = [c \in Slots |-> IF c = Taken /\ InFlight(c) THEN "dropped" ELSE task[c]]
      /\ result' = [result EXCEPT ![Cur] = "truncated"]
      /\ pos' = pos + 1
      /\ UNCHANGED <<pc, round, attempt, outcome, text, calls, handle, body,
                     tokenVars, userVars, stored>>
  BY DEF CollectTruncated
<1>2. /\ pc = "collect" /\ pos \in 1..MaxCalls /\ pos <= Len(Streamed)
      /\ Cur \in Slots /\ Cur[1] = round /\ Cur[2] = pos /\ CallExists(Cur)
      /\ CallOf(Cur) = Streamed[pos] /\ Streamed[pos].id \in Ids \cup {NoId}
  BY <1>1, CurrentCall
<1>3. \A c \in Slots : /\ task'[c] \in {task[c], "dropped"}
                       /\ InFlight(c)' => InFlight(c) /\ c # Taken
                       /\ task'[c] # "none" <=> task[c] # "none"
  BY <1>1 DEF InFlight
<1>4. \A c \in Slots : CallExists(c)' = CallExists(c) /\ CallOf(c)' = CallOf(c)
                       /\ First(c)' = First(c)
  BY <1>1 DEF CallExists, CallOf, First
<1>5. TypeOK'
  <2>1. task' \in [Slots -> {"none", "queued", "running", "over", "dropped"}]
    <3>1. \A c \in Slots : task[c] \in {"none", "queued", "running", "over", "dropped"}
      BY DEF TypeOK
    <3> QED
      BY <1>1, <1>3, <3>1
  <2>2. map' \in [Ids -> Slots \cup {None}]
    BY <1>1 DEF TypeOK
  <2>3. result' \in [Slots -> Resulted]
    BY <1>1 DEF TypeOK, Resulted
  <2>4. pos' \in 1..(MaxCalls + 1)
    BY <1>1, <1>2, BoundAssumption
  <2> QED
    BY <1>1, <2>1, <2>2, <2>3, <2>4 DEF TypeOK, tokenVars, userVars
<1>6. Bounded' /\ StreamedOnce'
  BY <1>1, <1>2 DEF Bounded, StreamedOnce
<1>7. Begun' /\ RegistrySound'
  BY <1>1, <1>3, <1>4 DEF Begun, RegistrySound, tokenVars
<1>8. CancelAsked' /\ QuietAfterEnd'
  BY <1>1, <1>2, <1>3 DEF CancelAsked, QuietAfterEnd, tokenVars, userVars
<1>9. MapSound'
  <2> SUFFICES ASSUME NEW id \in Ids, NEW c \in Slots, map'[id] = c
               PROVE  /\ c[1] = round /\ CallExists(c) /\ CallOf(c).id = id
                      /\ task[c] # "none" /\ First(c) /\ c[2] >= pos + 1
    BY <1>1, <1>2, <1>3, <1>4 DEF MapSound, Ahead
  <2>1. map[id] = c /\ id # Streamed[pos].id
    BY <1>1, NoneAssumption DEF Slots
  <2>2. /\ c[1] = round /\ CallExists(c) /\ CallOf(c).id = id
        /\ task[c] # "none" /\ First(c) /\ c[2] >= pos
    BY <1>2, <2>1 DEF MapSound, Ahead
  <2>3. c[2] # pos
    BY <1>2, <2>1, <2>2 DEF CallOf, Streamed
  <2> QED
    BY <1>2, <2>2, <2>3, SlotParts, BoundAssumption
<1>10. Placed'
  <2> SUFFICES ASSUME NEW c \in Slots, c[1] = round, task[c] # "none", c[2] >= pos + 1
               PROVE  CallOf(c).id # NoId /\ map'[CallOf(c).id] = c
    BY <1>1, <1>2, <1>3, <1>4 DEF Placed, Ahead
  <2>1. c[2] > pos /\ c[2] >= pos
    BY <1>2, SlotParts, BoundAssumption
  <2>2. CallOf(c).id # NoId /\ map[CallOf(c).id] = c /\ CallExists(c)
    BY <1>2, <2>1 DEF Placed, Ahead, Begun
  <2>3. CallOf(c).id \in Ids
    BY <2>2, CallTypes
  <2>4. CallOf(c).id # Streamed[pos].id
    <3>1. First(c)
      BY <2>2, <2>3 DEF MapSound
    <3>2. pos \in 1..(c[2] - 1)
      BY <1>2, <2>1, SlotParts, BoundAssumption
    <3> QED
      BY <3>1, <3>2 DEF First, Streamed
  <2> QED
    BY <1>1, <2>2, <2>3, <2>4
<1>11. InFlightPlaced'
  <2> SUFFICES ASSUME NEW c \in Slots, InFlight(c), c # Taken
               PROVE  c[1] = round /\ CallOf(c).id # NoId /\ map'[CallOf(c).id] = c
    BY <1>1, <1>2, <1>3, <1>4 DEF InFlightPlaced
  <2>1. /\ c[1] = round /\ CallOf(c).id # NoId /\ map[CallOf(c).id] = c
        /\ CallExists(c)
    BY <1>2 DEF InFlightPlaced, InFlight, Begun
  <2>2. CallOf(c).id \in Ids
    BY <2>1, CallTypes
  <2>3. CallOf(c).id # Streamed[pos].id
    BY <2>1 DEF Taken
  <2> QED
    BY <1>1, <2>1, <2>2, <2>3
<1>12. Addressed'
  BY <1>1, <1>2, <1>3, <1>4 DEF Addressed, tokenVars
<1>13. RightTask'
  <2>1. AwaitsOwnTask' /\ OnlyParsedRun'
    BY <1>1, <1>2, <1>4 DEF RightTask, AwaitsOwnTask, OnlyParsedRun
  <2>2. NoStrayAbort'
    BY <1>1 DEF RightTask, NoStrayAbort, TypeOK, userVars
  <2> QED
    BY <2>1, <2>2 DEF RightTask
<1> QED
  BY <1>5, <1>6, <1>7, <1>8, <1>9, <1>10, <1>11, <1>12, <1>13

LEMMA CollectTakeKeeps ==
  ASSUME IInv, CollectTake
  PROVE  IInv'
<1> USE DEF IInv, Sound
<1>1. /\ Collecting /\ Taken # None /\ pc' = "await" /\ handle' = Taken
      /\ map' = [map EXCEPT ![Streamed[pos].id] = None]
      /\ UNCHANGED <<round, attempt, outcome, text, calls, pos, taskVars, tokenVars,
                     userVars, stored>>
  BY DEF CollectTake
<1>2. /\ pc = "collect" /\ pos \in 1..MaxCalls /\ pos <= Len(Streamed)
      /\ Cur \in Slots /\ Cur[1] = round /\ Cur[2] = pos /\ CallOf(Cur) = Streamed[pos]
  BY <1>1, CurrentCall
<1>3. Taken = Cur /\ Streamed[pos].id \in Ids /\ map[Streamed[pos].id] = Cur
  BY <1>1, TakenIsCurrent
<1>4. \A c \in Slots : CallExists(c)' = CallExists(c) /\ CallOf(c)' = CallOf(c)
                       /\ First(c)' = First(c) /\ InFlight(c)' = InFlight(c)
  BY <1>1 DEF CallExists, CallOf, First, InFlight, taskVars
<1>5. TypeOK'
  BY <1>1, <1>2, <1>3 DEF TypeOK, Pcs, taskVars, tokenVars, userVars, Cur, Slots
<1>6. Bounded' /\ StreamedOnce'
  BY <1>1, <1>2 DEF Bounded, StreamedOnce, Streamed
<1>7. Begun' /\ RegistrySound' /\ CancelAsked' /\ QuietAfterEnd'
  BY <1>1, <1>4 DEF Begun, RegistrySound, CancelAsked, QuietAfterEnd, taskVars, tokenVars,
                    userVars
<1>8. MapSound'
  <2> SUFFICES ASSUME NEW id \in Ids, NEW c \in Slots, map'[id] = c
               PROVE  /\ c[1] = round /\ CallExists(c) /\ CallOf(c).id = id
                      /\ task[c] # "none" /\ First(c) /\ c[2] > pos
    BY <1>1, <1>4 DEF MapSound, Ahead, taskVars
  <2>1. map[id] = c /\ id # Streamed[pos].id
    BY <1>1, NoneAssumption DEF Slots, TypeOK
  <2>2. /\ c[1] = round /\ CallExists(c) /\ CallOf(c).id = id
        /\ task[c] # "none" /\ First(c) /\ c[2] >= pos
    BY <1>2, <2>1 DEF MapSound, Ahead
  <2>3. c[2] # pos
    BY <1>2, <2>1, <2>2 DEF CallOf, Streamed
  <2> QED
    BY <1>2, <2>2, <2>3, SlotParts, BoundAssumption
<1>9. Placed'
  <2> SUFFICES ASSUME NEW c \in Slots, c[1] = round, task[c] # "none", c[2] > pos
               PROVE  CallOf(c).id # NoId /\ map'[CallOf(c).id] = c
    BY <1>1, <1>4 DEF Placed, Ahead, taskVars
  <2>1. c[2] >= pos
    BY <1>2, SlotParts, BoundAssumption
  <2>2. CallOf(c).id # NoId /\ map[CallOf(c).id] = c /\ CallExists(c)
    BY <1>2, <2>1 DEF Placed, Ahead, Begun
  <2>3. CallOf(c).id \in Ids
    BY <2>2, CallTypes
  <2>4. CallOf(c).id # Streamed[pos].id
    BY <1>2, <1>3, <2>2
  <2> QED
    BY <1>1, <2>2, <2>3, <2>4 DEF TypeOK
<1>10. InFlightPlaced'
  <2> SUFFICES ASSUME NEW c \in Slots, InFlight(c), c # Cur
               PROVE  c[1] = round /\ CallOf(c).id # NoId /\ map'[CallOf(c).id] = c
    BY <1>1, <1>4 DEF InFlightPlaced, Cur
  <2>1. /\ c[1] = round /\ CallOf(c).id # NoId /\ map[CallOf(c).id] = c
        /\ CallExists(c)
    BY <1>2 DEF InFlightPlaced, InFlight, Begun
  <2>2. CallOf(c).id \in Ids /\ CallOf(c).id # Streamed[pos].id
    BY <1>3, <2>1, CallTypes
  <2> QED
    BY <1>1, <2>1, <2>2 DEF TypeOK
<1>11. Addressed'
  BY <1>1, <1>2, <1>4 DEF Addressed, tokenVars
<1>12. RightTask'
  <2>1. AwaitsOwnTask'
    BY <1>1, <1>3 DEF AwaitsOwnTask, Cur
  <2>2. OnlyParsedRun' /\ NoStrayAbort'
    BY <1>1, <1>4 DEF RightTask, OnlyParsedRun, NoStrayAbort, taskVars, userVars
  <2> QED
    BY <2>1, <2>2 DEF RightTask
<1> QED
  BY <1>5, <1>6, <1>7, <1>8, <1>9, <1>10, <1>11, <1>12

\* A call without a run of its own has no task yet, so that inline it starts
\* for the first time.
LEMMA CollectInlineKeeps ==
  ASSUME IInv, CollectInline
  PROVE  IInv' /\ \A c \in Slots : task'[c] = "queued" => task[c] \in {"none", "queued"}
<1> USE DEF IInv, Sound
<1>1. /\ Collecting /\ Taken = None /\ pc' = "inline" /\ handle' = Cur
      /\ task' = [task EXCEPT ![Cur] = "queued"]
      /\ UNCHANGED <<round, attempt, outcome, text, calls, pos, map, body, result,
                     tokenVars, userVars, stored>>
  BY DEF CollectInline
<1>2. /\ pc = "collect" /\ pos \in 1..MaxCalls /\ pos <= Len(Streamed)
      /\ Cur \in Slots /\ Cur[1] = round /\ Cur[2] = pos /\ CallExists(Cur)
      /\ CallOf(Cur) = Streamed[pos] /\ Cur' = Cur
  BY <1>1, CurrentCall DEF Cur
<1>3. \A id \in Ids : map[id] # Cur
  <2> SUFFICES ASSUME NEW id \in Ids, map[id] = Cur PROVE FALSE
    OBVIOUS
  <2>1. CallOf(Cur).id = id
    BY <1>2 DEF MapSound
  <2> QED
    BY <1>1, <1>2, <2>1, IdAssumption, NoneAssumption DEF Taken, Slots
<1>4. task[Cur] = "none"
  <2> SUFFICES ASSUME task[Cur] # "none" PROVE FALSE
    OBVIOUS
  <2>1. CallOf(Cur).id # NoId /\ map[CallOf(Cur).id] = Cur
    BY <1>2 DEF Placed, Ahead
  <2> QED
    BY <1>2, <1>3, <2>1, CallTypes
<1>5. /\ task'[Cur] = "queued"
      /\ \A c \in Slots : c # Cur => task'[c] = task[c] /\ InFlight(c)' = InFlight(c)
  BY <1>1, <1>2 DEF TypeOK, InFlight
<1>6. \A c \in Slots : CallExists(c)' = CallExists(c) /\ CallOf(c)' = CallOf(c)
                       /\ First(c)' = First(c)
  BY <1>1 DEF CallExists, CallOf, First
<1>7. TypeOK'
  BY <1>1, <1>2, NoneAssumption DEF TypeOK, Pcs, tokenVars, userVars, Slots
<1>8. Bounded' /\ StreamedOnce' /\ QuietAfterEnd'
  BY <1>1, <1>2 DEF Bounded, StreamedOnce, Streamed, QuietAfterEnd
<1>9. Begun' /\ RegistrySound'
  BY <1>1, <1>2, <1>5, <1>6 DEF Begun, RegistrySound, tokenVars
<1>10. CancelAsked'
  BY <1>1, <1>2, <1>4, <1>5 DEF CancelAsked, Begun, tokenVars, userVars
<1>11. MapSound'
  <2> SUFFICES ASSUME NEW id \in Ids, NEW c \in Slots, map[id] = c
               PROVE  /\ c[1] = round /\ CallExists(c) /\ CallOf(c).id = id
                      /\ task[c] # "none" /\ First(c) /\ c[2] > pos /\ c # Cur
    BY <1>1, <1>5, <1>6 DEF MapSound, Ahead
  <2>1. /\ c[1] = round /\ CallExists(c) /\ CallOf(c).id = id
        /\ task[c] # "none" /\ First(c) /\ c[2] >= pos
    BY <1>2 DEF MapSound, Ahead
  <2>2. c[2] # pos
    BY <1>2, <1>3, <2>1, SlotParts DEF Cur
  <2> QED
    BY <1>2, <1>3, <2>1, <2>2, SlotParts, BoundAssumption
<1>12. Placed'
  <2> SUFFICES ASSUME NEW c \in Slots, c[1] = round, task'[c] # "none", c[2] > pos
               PROVE  CallOf(c).id # NoId /\ map[CallOf(c).id] = c
    BY <1>1, <1>6 DEF Placed, Ahead
  <2>1. c # Cur /\ c[2] >= pos
    BY <1>2, SlotParts, BoundAssumption
  <2> QED
    BY <1>2, <1>5, <2>1 DEF Placed, Ahead
<1>13. InFlightPlaced'
  BY <1>1, <1>2, <1>5, <1>6 DEF InFlightPlaced
<1>14. Addressed'
  BY <1>1, <1>2, <1>5, <1>6 DEF Addressed, tokenVars
<1>15. RightTask'
  BY <1>1, <1>2, <1>6 DEF RightTask, AwaitsOwnTask, OnlyParsedRun, NoStrayAbort, userVars
<1>16. \A c \in Slots : task'[c] = "queued" => task[c] \in {"none", "queued"}
  BY <1>4, <1>5
<1> QED
  BY <1>7, <1>8, <1>9, <1>10, <1>11, <1>12, <1>13, <1>14, <1>15, <1>16

LEMMA RecordKeeps ==
  ASSUME IInv, Record
  PROVE  IInv'
<1> USE DEF IInv, Sound
<1>1. /\ pc \in {"await", "inline"} /\ task[handle] = "over" /\ pc' = "collect"
      /\ pos' = pos + 1 /\ handle' = None
      /\ stored' = IF text THEN stored \cup {Streamed[pos].args} ELSE stored
      /\ UNCHANGED <<round, attempt, outcome, text, calls, map, taskVars, tokenVars,
                     userVars>>
  BY DEF Record
<1>2. handle = Cur
  BY <1>1 DEF RightTask, AwaitsOwnTask
<1>3. pos \in 1..MaxCalls /\ pos <= Len(Streamed) /\ Streamed \in Seq(Calls)
  <2>1. Streamed \in Seq(Calls) /\ Len(Streamed) <= MaxCalls /\ pos <= Len(Streamed)
    BY <1>1 DEF TypeOK, Bounded, Streamed
  <2>2. pos \in Nat \ {0} /\ Len(Streamed) \in Nat
    BY <2>1, BoundAssumption DEF TypeOK
  <2> QED
    BY <2>1, <2>2, BoundAssumption
<1>4. ~InFlight(Cur)
  BY <1>1, <1>2 DEF InFlight
<1>5. \A c \in Slots : CallExists(c)' = CallExists(c) /\ CallOf(c)' = CallOf(c)
                       /\ First(c)' = First(c) /\ InFlight(c)' = InFlight(c)
  BY <1>1 DEF CallExists, CallOf, First, InFlight, taskVars
<1>6. \A c \in Slots : c[2] > pos <=> c[2] >= pos + 1
  BY <1>3, SlotParts, BoundAssumption
<1>7. TypeOK'
  <2>1. Streamed[pos].args \in Shapes
    <3>1. pos \in 1..Len(Streamed)
      BY <1>3, BoundAssumption
    <3>2. Streamed[pos] \in Calls
      BY <1>3, <3>1, ElementOfSeq
    <3> QED
      BY <3>2 DEF Calls
  <2>2. pos' \in 1..(MaxCalls + 1)
    BY <1>1, <1>3, BoundAssumption
  <2> QED
    BY <1>1, <2>1, <2>2 DEF TypeOK, Pcs, taskVars, tokenVars, userVars
<1>8. Bounded' /\ StreamedOnce'
  BY <1>1 DEF Bounded, StreamedOnce
<1>9. Begun' /\ RegistrySound' /\ CancelAsked' /\ QuietAfterEnd'
  BY <1>1, <1>5 DEF Begun, RegistrySound, CancelAsked, QuietAfterEnd, taskVars, tokenVars,
                    userVars
<1>10. MapSound' /\ Placed'
  BY <1>1, <1>5, <1>6 DEF MapSound, Placed, Ahead, taskVars
<1>11. InFlightPlaced' /\ Addressed'
  BY <1>1, <1>4, <1>5 DEF InFlightPlaced, Addressed, tokenVars
<1>12. RightTask'
  BY <1>1, <1>5 DEF RightTask, AwaitsOwnTask, OnlyParsedRun, NoStrayAbort, taskVars, userVars
<1> QED
  BY <1>7, <1>8, <1>9, <1>10, <1>11, <1>12

LEMMA CollectEndKeeps ==
  ASSUME IInv, CollectEnd
  PROVE  IInv'
<1> USE DEF IInv, Sound
<1>1. /\ pc = "collect" /\ pos > Len(Streamed) /\ pc' = "loop"
      /\ map' = [id \in Ids |-> None]
      /\ UNCHANGED <<round, attempt, outcome, text, calls, pos, handle, taskVars,
                     tokenVars, userVars, stored>>
  BY DEF CollectEnd
<1>2. \A c \in Slots : ~InFlight(c)
  BY <1>1, CollectedIdle
<1>3. \A c \in Slots : CallExists(c)' = CallExists(c) /\ CallOf(c)' = CallOf(c)
                       /\ InFlight(c)' = InFlight(c)
  BY <1>1 DEF CallExists, CallOf, InFlight, taskVars
<1>4. TypeOK'
  BY <1>1 DEF TypeOK, Pcs, taskVars, tokenVars, userVars
<1>5. Bounded' /\ StreamedOnce' /\ Placed'
  BY <1>1 DEF Bounded, StreamedOnce, Placed
<1>6. Begun' /\ RegistrySound'
  BY <1>1, <1>3 DEF Begun, RegistrySound, taskVars, tokenVars
<1>7. MapSound'
  BY <1>1, NoneAssumption DEF MapSound, Slots
<1>8. InFlightPlaced' /\ CancelAsked' /\ Addressed' /\ QuietAfterEnd'
  BY <1>1, <1>2, <1>3 DEF InFlightPlaced, CancelAsked, Addressed, QuietAfterEnd
<1>9. RightTask'
  BY <1>1, <1>3 DEF RightTask, AwaitsOwnTask, OnlyParsedRun, NoStrayAbort, taskVars, userVars
<1> QED
  BY <1>4, <1>5, <1>6, <1>7, <1>8, <1>9

LEMMA NextRoundKeeps ==
  ASSUME IInv, NextRound
  PROVE  IInv'
<1> USE DEF IInv, Sound
<1>1. /\ pc = "loop" /\ attempt' = 1 /\ pos' = 1
      /\ UNCHANGED <<text, calls, handle, map, taskVars, tokenVars, userVars, stored>>
  BY DEF NextRound
<1>2. (\A id \in Ids : map[id] = None) /\ \A c \in Slots : ~InFlight(c)
  BY <1>1, CollectedIdle
<1>3. CASE round < MaxRounds
  <2>1. pc' = "stream" /\ round' = round + 1 /\ outcome' = outcome
    BY <1>3 DEF NextRound
  <2>2. round \in 1..MaxRounds /\ round + 1 \in 1..MaxRounds
    BY <1>3, BoundAssumption DEF TypeOK
  <2>3. \A c \in Slots : /\ CallExists(c) => CallExists(c)' /\ c[1] # round + 1
                         /\ CallOf(c)' = CallOf(c)
                         /\ InFlight(c)' = InFlight(c)
    BY <1>1, <2>1, <2>2, SlotParts, BoundAssumption DEF CallExists, CallOf, InFlight, taskVars
  <2>4. TypeOK'
    BY <1>1, <2>1, <2>2, BoundAssumption DEF TypeOK, Pcs, taskVars, tokenVars, userVars
  <2>5. Bounded'
    BY <1>1, <2>1, <2>2, BoundAssumption DEF Bounded
  <2>6. StreamedOnce'
    <3>1. Streamed' = <<>>
      BY <1>1, <2>1, <2>2, BoundAssumption DEF Bounded, Streamed
    <3> QED
      BY <3>1 DEF StreamedOnce
  <2>7. Begun' /\ RegistrySound'
    BY <1>1, <2>3 DEF Begun, RegistrySound, taskVars, tokenVars
  <2>8. MapSound'
    BY <1>1, <1>2, NoneAssumption DEF MapSound, Slots
  <2>9. Placed'
    <3> SUFFICES ASSUME NEW c \in Slots, c[1] = round + 1, task[c] # "none" PROVE FALSE
      BY <1>1, <2>1 DEF Placed, taskVars
    <3> QED
      BY <2>3 DEF Begun
  <2>10. InFlightPlaced' /\ CancelAsked' /\ Addressed' /\ QuietAfterEnd'
    BY <1>2, <2>1, <2>3 DEF InFlightPlaced, CancelAsked, Addressed, QuietAfterEnd
  <2>11. RightTask'
    BY <1>1, <2>1, <2>3 DEF RightTask, AwaitsOwnTask, OnlyParsedRun, NoStrayAbort, taskVars,
                            userVars
  <2> QED
    BY <2>4, <2>5, <2>6, <2>7, <2>8, <2>9, <2>10, <2>11
<1>4. CASE ~(round < MaxRounds)
  <2>1. pc' = "ended" /\ outcome' = "answered" /\ round' = round
    BY <1>4 DEF NextRound
  <2>2. TypeOK'
    BY <1>1, <2>1, BoundAssumption DEF TypeOK, Pcs, Outcomes, taskVars, tokenVars, userVars
  <2>3. Sound' /\ RightTask'
    <3>1. /\ calls' = calls /\ map' = map /\ body' = body /\ result' = result
          /\ registry' = registry /\ stopped' = stopped /\ asked' = asked
          /\ task' = task /\ cancelled' = cancelled
      BY <1>1 DEF taskVars, tokenVars, userVars
    <3> QED
      BY <1>1, <2>1, <3>1, EndSound
  <2>4. QuietAfterEnd'
    BY <1>1, <1>2 DEF QuietAfterEnd, InFlight, taskVars
  <2> QED
    BY <2>2, <2>3, <2>4
<1> QED
  BY <1>3, <1>4

-----------------------------------------------------------------------------
(* The user. *)

LEMMA StopRunKeeps ==
  ASSUME IInv, StopRun
  PROVE  IInv'
<1> USE DEF IInv, Sound
<1>1. /\ pc # "ended" /\ stopped' = TRUE
      /\ UNCHANGED <<loopVars, map, taskVars, tokenVars, asked, stored>>
  BY DEF StopRun
<1>2. TypeOK'
  BY <1>1 DEF TypeOK, loopVars, taskVars, tokenVars
<1>3. Bounded' /\ Begun' /\ StreamedOnce' /\ RegistrySound' /\ CancelAsked'
  BY <1>1 DEF Bounded, Begun, StreamedOnce, RegistrySound, CancelAsked, Streamed, CallExists,
              CallOf, loopVars, taskVars, tokenVars
<1>4. MapSound' /\ Placed' /\ InFlightPlaced'
  BY <1>1 DEF MapSound, Placed, InFlightPlaced, CallExists, CallOf, First, Ahead, InFlight,
              Cur, loopVars, taskVars
<1>5. Addressed' /\ RightTask' /\ QuietAfterEnd'
  BY <1>1 DEF Addressed, RightTask, AwaitsOwnTask, OnlyParsedRun, NoStrayAbort,
              QuietAfterEnd, InFlight, CallOf, Cur, loopVars, taskVars, tokenVars
<1> QED
  BY <1>2, <1>3, <1>4, <1>5

\* Stop on a card cancels the token of one call; if that call is in flight, the
\* user asked for it.
LEMMA StopCallKeeps ==
  ASSUME IInv, NEW id \in Ids, StopCall(id)
  PROVE  IInv'
<1> USE DEF IInv, Sound
<1>1. /\ registry[id] # None
      /\ cancelled' = [cancelled EXCEPT ![registry[id]] = TRUE]
      /\ asked' = asked \cup {c \in {registry[id]} : InFlight(c)}
      /\ UNCHANGED <<loopVars, map, taskVars, registry, stopped, stored>>
  BY DEF StopCall
<1>2. registry[id] \in Slots /\ task[registry[id]] # "none"
  BY <1>1 DEF TypeOK, RegistrySound
<1>3. \A c \in Slots : cancelled'[c] => cancelled[c] \/ c = registry[id]
  BY <1>1, <1>2 DEF TypeOK
<1>4. TypeOK'
  <2>1. cancelled' \in [Slots -> BOOLEAN]
    BY <1>1, <1>2 DEF TypeOK
  <2> QED
    BY <1>1, <1>2, <2>1 DEF TypeOK, loopVars, taskVars
<1>5. Begun'
  BY <1>1, <1>2, <1>3 DEF Begun, CallExists, loopVars, taskVars
<1>6. CancelAsked'
  BY <1>1, <1>3 DEF CancelAsked, InFlight, taskVars
<1>7. Bounded' /\ StreamedOnce' /\ RegistrySound'
  BY <1>1 DEF Bounded, StreamedOnce, RegistrySound, Streamed, CallExists, CallOf, loopVars,
              taskVars
<1>8. MapSound' /\ Placed' /\ InFlightPlaced'
  BY <1>1 DEF MapSound, Placed, InFlightPlaced, CallExists, CallOf, First, Ahead, InFlight,
              Cur, loopVars, taskVars
<1>9. Addressed' /\ RightTask'
  BY <1>1 DEF Addressed, RightTask, AwaitsOwnTask, OnlyParsedRun, NoStrayAbort, InFlight,
              CallOf, Cur, loopVars, taskVars
<1>10. QuietAfterEnd'
  <2>1. \A c \in Slots : cancelled[c] => cancelled'[c]
    BY <1>1, <1>2 DEF TypeOK
  <2> QED
    BY <1>1, <2>1 DEF QuietAfterEnd, Cancelled, InFlight, loopVars, taskVars
<1> QED
  BY <1>4, <1>5, <1>6, <1>7, <1>8, <1>9, <1>10

-----------------------------------------------------------------------------
(* The invariant and what follows from it. *)

LEMMA InitSound == Init => IInv
<1> SUFFICES ASSUME Init PROVE IInv
  OBVIOUS
<1>1. TypeOK
  <2>1. [r \in 1..MaxRounds |-> <<>>] \in [1..MaxRounds -> Seq(Calls)]
    BY EmptySeq
  <2>2. 1 \in 1..MaxRounds /\ 1 \in 1..(MaxCalls + 1)
    BY BoundAssumption
  <2>3. /\ pc \in Pcs /\ round \in 1..MaxRounds /\ attempt \in {1, 2} /\ outcome \in Outcomes
        /\ text \in BOOLEAN /\ calls \in [1..MaxRounds -> Seq(Calls)]
        /\ pos \in 1..(MaxCalls + 1) /\ handle \in Slots \cup {None}
    BY <2>1, <2>2 DEF Init, Pcs, Outcomes
  <2>4. /\ map \in [Ids -> Slots \cup {None}] /\ registry \in [Ids -> Slots \cup {None}]
        /\ task \in [Slots -> {"none", "queued", "running", "over", "dropped"}]
        /\ body \in [Slots -> {"none", "running", "over"}] /\ result \in [Slots -> Resulted]
    BY DEF Init, Resulted
  <2>5. /\ cancelled \in [Slots -> BOOLEAN] /\ stopped \in BOOLEAN /\ asked \subseteq Slots
        /\ stored \subseteq Shapes /\ (pc \in {"await", "inline"} => handle # None)
    BY DEF Init
  <2> QED
    BY <2>3, <2>4, <2>5 DEF TypeOK
<1>2. Bounded /\ Begun /\ StreamedOnce
  BY BoundAssumption DEF Init, Bounded, Begun, StreamedOnce, Streamed
<1>3. MapSound /\ RegistrySound
  BY NoneAssumption DEF Init, MapSound, RegistrySound, Slots
<1>4. Placed /\ InFlightPlaced /\ CancelAsked /\ Addressed
  BY DEF Init, Placed, InFlightPlaced, CancelAsked, Addressed, InFlight
<1>5. RightTask /\ QuietAfterEnd
  BY DEF Init, RightTask, AwaitsOwnTask, OnlyParsedRun, NoStrayAbort, QuietAfterEnd
<1> QED
  BY <1>1, <1>2, <1>3, <1>4, <1>5 DEF IInv, Sound

LEMMA StepSound ==
  ASSUME IInv, [Next]_vars
  PROVE  IInv' /\ \A c \in Slots : task'[c] = "queued" => task[c] \in {"none", "queued"}
<1> DEFINE Once == \A c \in Slots : task'[c] = "queued" => task[c] \in {"none", "queued"}
<1>1. CASE StreamStep
  <2>1. ASSUME NEW call \in Calls, StreamCall(call) PROVE IInv' /\ Once
    BY <2>1, StreamCallKeeps
  <2>2. ASSUME NEW embedded \in TextRounds, StreamEndsText(embedded) PROVE IInv' /\ Once
    BY <2>2, StreamEndsTextKeeps DEF StreamEndsText, taskVars
  <2>3. CASE MovePast
    BY <2>3, MovePastKeeps
  <2>4. CASE StreamEnds
    BY <2>4, StreamEndsKeeps DEF StreamEnds, taskVars
  <2>5. CASE Answer \/ FirstFails
    BY <2>5, PlainEndKeeps DEF Answer, FirstFails, taskVars
  <2>6. CASE Overflow
    BY <2>6, OverflowKeeps, AbortAllEffect DEF Overflow, IInv
  <2>7. CASE RetryFails \/ StreamStopped
    BY <2>7, AbortingEndKeeps, AbortAllEffect DEF RetryFails, StreamStopped, IInv
  <2> QED
    BY <1>1, <2>1, <2>2, <2>3, <2>4, <2>5, <2>6, <2>7 DEF StreamStep
<1>2. CASE CollectStep
  <2>1. CASE StartRest
    BY <2>1, StartRestKeeps
  <2>2. CASE CollectStopped
    BY <2>2, AbortingEndKeeps, AbortAllEffect DEF CollectStopped, IInv
  <2>3. CASE CollectTruncated
    BY <2>3, CollectTruncatedKeeps DEF CollectTruncated
  <2>4. CASE CollectTake
    BY <2>4, CollectTakeKeeps DEF CollectTake, taskVars
  <2>5. CASE CollectInline
    BY <2>5, CollectInlineKeeps
  <2>6. CASE Record
    BY <2>6, RecordKeeps DEF Record, taskVars
  <2>7. CASE CollectEnd
    BY <2>7, CollectEndKeeps DEF CollectEnd, taskVars
  <2>8. CASE LoopStopped
    BY <2>8, PlainEndKeeps DEF LoopStopped, taskVars
  <2>9. CASE NextRound
    BY <2>9, NextRoundKeeps DEF NextRound, taskVars
  <2> QED
    BY <1>2, <2>1, <2>2, <2>3, <2>4, <2>5, <2>6, <2>7, <2>8, <2>9 DEF CollectStep
<1>3. CASE RunDropped
  BY <1>3, RunDroppedKeeps DEF RunDropped, IInv, TypeOK
<1>4. CASE StopRun
  BY <1>4, StopRunKeeps DEF StopRun, taskVars
<1>5. ASSUME NEW c \in Slots, TaskStep(c) \/ BodyEnds(c) PROVE IInv' /\ Once
  <2>1. CASE TaskBegin(c)
    BY <2>1, TaskBeginKeeps DEF TaskBegin, IInv, TypeOK
  <2>2. CASE TaskDone(c) \/ TaskCancelled(c)
    BY <2>2, TaskEndsKeeps DEF TaskDone, TaskCancelled, IInv, TypeOK
  <2>3. CASE BodyEnds(c)
    BY <2>3, BodyEndsKeeps DEF BodyEnds
  <2> QED
    BY <1>5, <2>1, <2>2, <2>3 DEF TaskStep
<1>6. ASSUME NEW id \in Ids, StopCall(id) PROVE IInv' /\ Once
  BY <1>6, StopCallKeeps DEF StopCall, taskVars
<1>7. CASE UNCHANGED vars
  <2>1. TypeOK'
    BY <1>7 DEF IInv, TypeOK, vars
  <2>2. Bounded' /\ Begun' /\ StreamedOnce' /\ RegistrySound' /\ CancelAsked'
    BY <1>7 DEF IInv, Sound, Bounded, Begun, StreamedOnce, RegistrySound, CancelAsked,
                Streamed, CallExists, CallOf, InFlight, vars
  <2>3. MapSound' /\ Placed' /\ InFlightPlaced'
    BY <1>7 DEF IInv, Sound, MapSound, Placed, InFlightPlaced, CallExists, CallOf, First,
                Ahead, InFlight, Cur, vars
  <2>4. Addressed' /\ RightTask' /\ QuietAfterEnd'
    BY <1>7 DEF IInv, Sound, Addressed, RightTask, AwaitsOwnTask, OnlyParsedRun,
                NoStrayAbort, QuietAfterEnd, InFlight, Cancelled, CallOf, Cur, vars
  <2>5. Once
    BY <1>7 DEF vars
  <2> QED
    BY <2>1, <2>2, <2>3, <2>4, <2>5 DEF IInv, Sound
<1> QED
  BY <1>1, <1>2, <1>3, <1>4, <1>5, <1>6, <1>7 DEF Next

LEMMA Invariance == Spec => []IInv
<1>1. IInv /\ [Next]_vars => IInv'
  BY StepSound
<1> QED
  BY InitSound, <1>1, PTL DEF Spec

\* The bookkeeping of PendingToolRuns and of the registry stays well formed,
\* and pass 2 awaits exactly while it holds a handle.
THEOREM TypeCorrect == Spec => []TypeOK
<1>1. IInv => TypeOK
  BY DEF IInv
<1> QED
  BY Invariance, <1>1, PTL

\* Whatever ids the model repeats, empties or truncates, and in whatever order
\* tasks, tools and Stop buttons interleave: the result recorded for a call is
\* that of its own task, no tool runs on arguments that did not parse, and
\* nothing is aborted but what the user stopped.
THEOREM OwnResult == Spec => []RightTask
<1>1. IInv => RightTask
  BY DEF IInv
<1> QED
  BY Invariance, <1>1, PTL

\* A run that ended, other than by the failure of a first request, leaves no
\* call in flight that was not told to stop.
THEOREM NoOrphans == Spec => []QuietAfterEnd
<1>1. IInv => QuietAfterEnd
  BY DEF IInv
<1> QED
  BY Invariance, <1>1, PTL

\* While a background call is in flight, the token registered under its id is
\* its own: its Stop button reaches it and no other call.
THEOREM StopReachesItsCall == Spec => []AddressedById
<1>1. IInv => AddressedById
  BY DEF IInv, Sound, Addressed, AddressedById
<1> QED
  BY Invariance, <1>1, PTL

\* No call is started twice: neither at the end of a stream that started it, nor
\* inline after it ran in the background.
THEOREM NoSecondStart == Spec => StartedOnce
<1>1. IInv /\ [Next]_vars
        => [\A c \in Slots : task'[c] = "queued" => task[c] \in {"none", "queued"}]_vars
  BY StepSound
<1> QED
  BY Invariance, <1>1, PTL DEF Spec, StartedOnce
================================================================================

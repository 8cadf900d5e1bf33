----------------------------- MODULE MC_ChatLive ------------------------------
(***************************************************************************)
(* Two instances of ChatTurn for the liveness of a session, side by side:  *)
(* the variable part says which one a behaviour is of.                     *)
(*   - "queue": one message typed, one sent by a plugin and one handed     *)
(*     back, no Stop and no run that dies silently;                        *)
(*   - "spinner": two messages from any source, Stop and panics.           *)
(***************************************************************************)
EXTENDS Sequences, FiniteSets, Naturals, Functions

CONSTANTS m1, m2, m3, NoRun

VARIABLES part, gen, queued, frame, batch, events, handle, phase, aborted, result,
          channel, store, used

turnVars == <<gen, queued, frame, batch, events, handle, phase, aborted, result,
              channel, store, used>>
vars == <<part, turnVars>>

Queue == INSTANCE ChatTurn WITH
           Messages <- {m1, m2, m3}, Typed <- {m1}, Hosted <- {m2}, Returned <- {m3},
           WithStop <- FALSE, WithPanic <- FALSE

Spinner == INSTANCE ChatTurn WITH
             Messages <- {m1, m2}, Typed <- {m1, m2}, Hosted <- {m1, m2},
             Returned <- {m1, m2}, WithStop <- TRUE, WithPanic <- TRUE

Init ==
  \/ part = "queue" /\ Queue!Init
  \/ part = "spinner" /\ Spinner!Init

Next ==
  \/ part = "queue" /\ Queue!Next /\ UNCHANGED part
  \/ part = "spinner" /\ Spinner!Next /\ UNCHANGED part

\* The fairness of ChatTurn: AwakeSpec's for the queue, where input events keep
\* coming, FairSpec's for the spinner.
Takes == IF part = "queue" THEN Queue!TakeBatch ELSE gen /\ Spinner!TakeBatch
RestOfFrame == IF part = "queue" THEN Queue!RestOfFrame ELSE Spinner!RestOfFrame
Advances(r) == IF part = "queue" THEN Queue!Advances(r) ELSE r # m3 /\ Spinner!Advances(r)
Answers(r) == IF part = "queue" THEN Queue!Answer(r) ELSE r # m3 /\ Spinner!Answer(r)
Completes(r) == IF part = "queue" THEN Queue!Complete(r) ELSE r # m3 /\ Spinner!Complete(r)

Fairness ==
  /\ WF_turnVars(Takes)
  /\ WF_turnVars(RestOfFrame)
  /\ \A r \in {m1, m2, m3} :
       WF_turnVars(Advances(r)) /\ SF_turnVars(Answers(r)) /\ SF_turnVars(Completes(r))

Spec == Init /\ [][Next]_vars /\ Fairness

-----------------------------------------------------------------------------
\* The spinner stops: a session that is generating gets out of it, whatever
\* becomes of the run's terminal event (the sweep of the frame loop).
SpinnerStops == part = "spinner" /\ gen ~> ~gen

\* A queued message gets its turn, when the user never presses Stop, which leaves
\* the queue alone on purpose, and no run dies without reporting (the UI's queue and
\* the hand-back of injected messages).
QueueFlows ==
  \A m \in {m1, m2, m3} :
    part = "queue" /\ m \in Range(queued) ~> part = "queue" /\ phase[m] # "none"

=============================================================================

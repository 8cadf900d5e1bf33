------------------------------ MODULE SseStream ------------------------------
(***************************************************************************)
(* stream_message: the response of a streamed LLM call arrives as network  *)
(* chunks, cut anywhere; the client glues them to lines, adds each line to *)
(* the message it builds, and reports a tool call as ready once the stream *)
(* has moved past it. The arguments of a call come in fragments that open  *)
(* and close the JSON object, and fragments of two calls may alternate.    *)
(***************************************************************************)
EXTENDS Naturals, Sequences, SequencesExt

CONSTANTS Ids,       \* ids of the calls the server makes
          MaxFrames, \* bound: data lines of a response
          None

VARIABLES
  dialect,  \* how the server names the call a later fragment belongs to
  asked,    \* the server's side: its calls, in order, with the fragments sent
  frames,   \* lines the server has written: all of them, in order
  unread,   \* how many of them the network still holds
  half,     \* the buffer holds the first half of the next line
  broken,   \* lines whose wide character was cut by a chunk boundary
  text,     \* content of the message, as the numbers of the lines; 0 for one with a broken character
  made,     \* tool_calls of the message
  tracked,  \* ToolCallTracker: active, ready, and how often each was reported
  outcome   \* "streams", "closed" by the server, and then the result

sseVars == <<dialect, asked, frames, unread, half, broken, text, made, tracked, outcome>>

Fragments == {"open", "close", "both"}
Frames ==
  [kind : {"text", "wide", "noise"}] \cup
  [kind : {"call"}, id : Ids \cup {None}, index : 0..2, part : Fragments]
\* The call a line is a fragment of is known by its id, its index, or both; an
\* index of 0 stands for none, i for slot i.

Init ==
  /\ dialect \in {"index", "id"}
  /\ asked = <<>> /\ frames = <<>> /\ unread = 0
  /\ half = FALSE /\ broken = {}
  /\ text = <<>> /\ made = <<>>
  /\ tracked = [active |-> None, ready |-> <<>>]
  /\ outcome = "streams"

\* Arguments look complete when what was opened has been closed.
Complete(parts) ==
  /\ parts # <<>>
  /\ Last(parts) \in {"close", "both"}
  /\ Len(SelectSeq(parts, LAMBDA p : p = "open")) = Len(SelectSeq(parts, LAMBDA p : p = "close"))

TypeOK ==
  /\ dialect \in {"index", "id"}
  /\ \A k \in 1..Len(made) : made[k].id \in Ids /\ made[k].parts \in Seq(Fragments)
  /\ frames \in Seq(Frames) /\ unread \in 0..Len(frames)
  /\ half \in BOOLEAN /\ broken \subseteq 1..MaxFrames
  /\ tracked.active \in Ids \cup {None}
  /\ outcome \in {"streams", "closed", "ok", "error", "cancelled"}

-----------------------------------------------------------------------------
\* The server.

Write(frame) ==
  /\ outcome = "streams" /\ Len(frames) < MaxFrames
  /\ frames' = Append(frames, frame)
  /\ unread' = unread + 1

WriteLine(kind) ==
  /\ Write([kind |-> kind])
  /\ UNCHANGED <<dialect, asked, half, broken, text, made, tracked, outcome>>

\* A new call carries its id, and its index where the server counts them.
WriteCall(id, part) ==
  /\ \A k \in 1..Len(asked) : asked[k].id # id
  /\ part \in {"open", "both"}
  /\ Write([kind |-> "call", id |-> id, part |-> part,
            index |-> IF dialect = "index" THEN Len(asked) + 1 ELSE 0])
  /\ asked' = Append(asked, [id |-> id, parts |-> <<part>>])
  /\ UNCHANGED <<dialect, half, broken, text, made, tracked, outcome>>

\* The rest of an open call: by its index alone, or by its id.
WriteRest(k) ==
  /\ k \in 1..Len(asked) /\ ~Complete(asked[k].parts)
  /\ Write([kind |-> "call", part |-> "close",
            id |-> IF dialect = "index" THEN None ELSE asked[k].id,
            index |-> IF dialect = "index" THEN k ELSE 0])
  /\ asked' = [asked EXCEPT ![k].parts = Append(@, "close")]
  /\ UNCHANGED <<dialect, half, broken, text, made, tracked, outcome>>

Close ==
  /\ outcome = "streams"
  /\ outcome' = "closed"
  /\ UNCHANGED <<dialect, asked, frames, unread, half, broken, text, made, tracked>>

-----------------------------------------------------------------------------
\* The client.

NextLine == Len(frames) - unread + 1

\* A chunk that ends within a line. push_utf8 decodes each chunk by itself: a
\* wide character on the boundary is replaced in both halves.
PartOfLine(cut) ==
  /\ outcome \in {"streams", "closed"} /\ unread > 0 /\ ~half
  /\ half' = TRUE
  /\ cut => frames[NextLine].kind = "wide"
  /\ broken' = IF cut THEN broken \cup {NextLine} ELSE broken
  /\ UNCHANGED <<dialect, asked, frames, unread, text, made, tracked, outcome>>

\* fire_tool_ready_if_complete
Report(tracker, id) ==
  IF id # None /\ (\A r \in 1..Len(tracker.ready) : tracker.ready[r].id # id)
     /\ \E k \in 1..Len(made) : made[k].id = id /\ Complete(made[k].parts)
  THEN [tracker EXCEPT !.ready =
          Append(@, made[CHOOSE k \in 1..Len(made) : made[k].id = id])]
  ELSE tracker

\* The id of the call a line touches; by its index when it carries no id.
Incoming(frame) ==
  CASE frame.kind # "call" -> None
    [] frame.kind = "call" /\ frame.id # None -> frame.id
    [] OTHER -> IF frame.index \in 1..Len(made) THEN made[frame.index].id ELSE None

\* The stream has moved past the active call when text or another call comes.
PastVariant(tracker, frame) ==
  LET incoming == Incoming(frame)
  IN IF incoming # None THEN [Report(tracker, incoming) EXCEPT !.active = incoming]
     ELSE tracker

Past(tracker, frame) ==
  LET incoming == Incoming(frame)
      reported == IF frame.kind \in {"text", "wide"} \/ incoming \notin {None, tracker.active}
                  THEN Report(tracker, tracker.active) ELSE tracker
  IN IF incoming = None THEN reported ELSE [reported EXCEPT !.active = incoming]

AccumulateVariant(frame) ==
  LET hit == {k \in 1..Len(made) : made[k].id = frame.id}
  IN IF hit # {} THEN [made EXCEPT ![CHOOSE k \in hit : TRUE].parts = Append(@, frame.part)]
     ELSE IF frame.id # None THEN Append(made, [id |-> frame.id, parts |-> <<frame.part>>])
     ELSE IF made # <<>> THEN [made EXCEPT ![Len(made)].parts = Append(@, frame.part)] ELSE made

\* A fragment goes to the call with its id, else to the call at its index, else it
\* begins a call; one that names neither is skipped.
Accumulate(frame) ==
  LET hit == {k \in 1..Len(made) : made[k].id = frame.id}
  IN CASE hit # {} -> [made EXCEPT ![CHOOSE k \in hit : TRUE].parts = Append(@, frame.part)]
       [] hit = {} /\ frame.index \in 1..Len(made) ->
            [made EXCEPT ![frame.index].parts = Append(@, frame.part)]
       [] hit = {} /\ frame.index \notin 1..Len(made) /\ frame.id # None ->
            Append(made, [id |-> frame.id, parts |-> <<frame.part>>])
       [] OTHER -> made

\* process_sse_line, once the line's end has come.
Line ==
  /\ outcome \in {"streams", "closed"} /\ unread > 0
  /\ LET frame == frames[NextLine]
     IN /\ tracked' = Past(tracked, frame)
        /\ text' = IF frame.kind \in {"text", "wide"}
                   THEN Append(text, IF NextLine \in broken THEN 0 ELSE NextLine) ELSE text
        /\ made' = IF frame.kind = "call" THEN Accumulate(frame) ELSE made
  /\ unread' = unread - 1 /\ half' = FALSE
  /\ UNCHANGED <<dialect, asked, frames, broken, outcome>>

\* The end of the stream. What is in the buffer without a line end is dropped.
Ended ==
  /\ outcome = "closed" /\ unread = 0
  /\ outcome' = "ok"
  /\ UNCHANGED <<dialect, asked, frames, unread, half, broken, text, made, tracked>>

\* The connection breaks, or the cancel token fires, at any point.
Aborted(how) ==
  /\ outcome \in {"streams", "closed"}
  /\ outcome' = how
  /\ UNCHANGED <<dialect, asked, frames, unread, half, broken, text, made, tracked>>

Next ==
  \/ \E kind \in {"text", "wide", "noise"} : WriteLine(kind)
  \/ \E id \in Ids, part \in Fragments : WriteCall(id, part)
  \/ \E k \in 1..Len(asked) : WriteRest(k)
  \/ Close
  \/ \E cut \in BOOLEAN : PartOfLine(cut)
  \/ Line
  \/ Ended
  \/ Aborted("error") \/ Aborted("cancelled")

Spec == Init /\ [][Next]_sseVars

-----------------------------------------------------------------------------
TextFrames(k) == SelectSeq([i \in 1..k |-> i], LAMBDA i : frames[i].kind \in {"text", "wide"})

\* However the network cuts the stream and the calls' fragments alternate, the
\* message holds the server's calls, whole and in order (process_sse_line).
CallsAsSent == outcome = "ok" => made = asked

\* A call is reported at most once, with the arguments the server gave it to the
\* end (fire_tool_ready_if_complete).
ReadyIsFinal ==
  /\ \A i, j \in 1..Len(tracked.ready) : tracked.ready[i].id = tracked.ready[j].id => i = j
  /\ \A i \in 1..Len(tracked.ready) : \E k \in 1..Len(asked) : tracked.ready[i] = asked[k]

\* Every call but the last touched has been reported by the end of the stream, so
\* that only one call is left to run inline.
PassedAreReported ==
  outcome = "ok" /\ (\A k \in 1..Len(asked) : Complete(asked[k].parts)) =>
    \A k \in 1..Len(made) :
      made[k].id # tracked.active => \E i \in 1..Len(tracked.ready) : tracked.ready[i] = made[k]

StreamFaithful == TypeOK /\ CallsAsSent /\ ReadyIsFinal /\ PassedAreReported

\* push_utf8's comment: only bytes that are no UTF-8 are replaced. The server sends
\* nothing else, so that all text should arrive as it was sent.
TextArrivesWhole == outcome = "ok" => text = TextFrames(Len(frames))

=============================================================================

------------------------------- MODULE ChatView -------------------------------
(***************************************************************************)
(* The chat column: its cached list of messages (ui/chat_area/mod.rs), the *)
(* edit, delete and rating of a message by its place in that list          *)
(* (bubbles.rs, chat_feedback.rs), and the session's two lists behind it:  *)
(* the display, which events fill, and the store, which the agent writes.  *)
(*                                                                         *)
(* A message is its number; its text is the number of the message whose    *)
(* text it carries, so that a text put into another message shows.         *)
(***************************************************************************)
EXTENDS Naturals, Sequences

CONSTANTS
  Main, Sub,   \* the selected session, and a sub-session open in a tab
  Tabs,        \* the tabs the user may show: Main, or Main and Sub
  MaxMessages, \* bound on messages of the main session
  MaxClicks    \* bound on clicks on messages

VARIABLES
  display, \* chat_state.messages of each session
  store,   \* the main session's conversation
  coming,  \* messages whose events the UI has not handled
  queued,  \* messages shown but not yet given to a run
  gen,     \* a run of the main session is under way
  born,    \* messages so far
  phase,   \* "events", or "drawn": the frame takes clicks
  tab,     \* the session displayed
  view,    \* display_snapshot and what it was built for
  dirty,   \* display_dirty
  editing, \* editing_message_index and editing_message_content of the main session
  ratings, \* message_ratings of the main session: which message was rated, by index
  comment, \* feedback_comment_for of each session, and the message it was opened for
  clicks, cut, \* clicks so far; a deletion since the last rebuild
  misfiled, torn \* a rating went astray; a click took the two lists apart

chatVars == <<display, store, coming, queued, gen, born, phase, tab, view, dirty,
              editing, ratings, comment, clicks, cut, misfiled, torn>>
lists == <<store, coming, queued, gen, born>>

Said(n) == [id |-> n, text |-> n]
Message(entries, k) == IF k \in DOMAIN entries THEN entries[k].id ELSE 0
SubMessages == <<Said(101), Said(102)>>
NotEditing == [index |-> 0, text |-> 0]
NoComment == [index |-> 0, id |-> 0]
Without(list, k) == SubSeq(list, 1, k - 1) \o SubSeq(list, k + 1, Len(list))

Init ==
  /\ display = [s \in {Main, Sub} |-> IF s = Sub THEN SubMessages ELSE <<>>]
  /\ store = <<>> /\ coming = <<>> /\ queued = <<>> /\ gen = FALSE /\ born = 0
  /\ phase = "events" /\ tab = Main
  /\ view = [session |-> "none", messages |-> <<>>] /\ dirty = FALSE
  /\ editing = NotEditing /\ ratings = [k \in {} |-> 0]
  /\ comment = [s \in {Main, Sub} |-> NoComment]
  /\ clicks = 0 /\ cut = FALSE /\ misfiled = FALSE /\ torn = FALSE

\* The store is part of the display: the same messages and texts, in the same order.
InStep == \E f \in [DOMAIN store -> DOMAIN display[Main]] :
            /\ \A i, j \in DOMAIN store : i < j => f[i] < f[j]
            /\ \A i \in DOMAIN store : display[Main][f[i]] = store[i]

Settled == ~gen /\ coming = <<>> /\ queued = <<>> /\ InStep
Tears == torn' = (torn \/ (Settled /\ store' # store /\ ~InStep'))

-----------------------------------------------------------------------------
(* Between frames: the user sends, the agent records, the UI handles events. *)

Born(n) == born < MaxMessages /\ n = born + 1 /\ born' = n
Shows(e) == display' = [display EXCEPT ![Main] = Append(@, e)]

\* A message is displayed when it is sent; during a run it is queued.
Sends ==
  /\ phase = "events"
  /\ \E n \in 1..MaxMessages : Born(n) /\ Shows(Said(n)) /\ queued' = Append(queued, n)
  /\ UNCHANGED <<store, coming, gen, phase, tab, view, dirty, editing, ratings, comment, clicks, cut, misfiled, torn>>

RunStarts ==
  /\ ~gen /\ queued # <<>>
  /\ gen' = TRUE
  /\ store' = Append(store, Said(Head(queued))) /\ queued' = Tail(queued)
  /\ UNCHANGED <<display, coming, born, phase, tab, view, dirty, editing, ratings, comment, clicks, cut, misfiled, torn>>

\* The agent's answer or a tool's result is recorded and its event sent; a thinking
\* block or a banner is only displayed, a handoff marker only recorded.
AgentSays(kind) ==
  /\ gen
  /\ \E n \in 1..MaxMessages :
       /\ Born(n)
       /\ store' = IF kind = "shown only" THEN store ELSE Append(store, Said(n))
       /\ coming' = IF kind = "stored only" THEN coming ELSE Append(coming, n)
  /\ UNCHANGED <<display, queued, gen, phase, tab, view, dirty, editing, ratings, comment, clicks, cut, misfiled, torn>>

RunEnds ==
  /\ gen /\ gen' = FALSE
  /\ UNCHANGED <<display, store, coming, queued, born, phase, tab, view, dirty, editing, ratings, comment,
                 clicks, cut, misfiled, torn>>

\* push_message, for the next event.
Handles ==
  /\ phase = "events" /\ coming # <<>>
  /\ Shows(Said(Head(coming))) /\ coming' = Tail(coming)
  /\ UNCHANGED <<store, queued, gen, born, phase, tab, view, dirty, editing, ratings, comment, clicks, cut, misfiled, torn>>

-----------------------------------------------------------------------------
(* A frame: draw_chat_area. *)

\* Wrong: an edit in place is not noticed.
LengthOnlyVariant == view.session # tab \/ Len(display[tab]) # Len(view.messages)

\* When refresh_display_snapshot rebuilds the list.
Stale == view.session # tab \/ dirty \/ Len(display[tab]) # Len(view.messages)

Draws ==
  /\ phase = "events" /\ phase' = "drawn"
  /\ IF Stale
     THEN view' = [session |-> tab, messages |-> display[tab]] /\ dirty' = FALSE /\ cut' = FALSE
     ELSE UNCHANGED <<view, dirty, cut>>
  /\ UNCHANGED <<lists, display, tab, editing, ratings, comment, clicks, misfiled, torn>>

FrameEnds ==
  /\ phase = "drawn" /\ phase' = "events"
  /\ UNCHANGED <<lists, display, tab, view, dirty, editing, ratings, comment, clicks, cut, misfiled, torn>>

\* A tab is clicked before the list is drawn.
ShowsTab(t) ==
  /\ phase = "events" /\ tab # t /\ tab' = t
  /\ UNCHANGED <<lists, display, phase, view, dirty, editing, ratings, comment, clicks, cut, misfiled, torn>>

Clicked(k) ==
  /\ phase = "drawn" /\ phase' = "events" /\ k \in DOMAIN view.messages
  /\ clicks < MaxClicks /\ clicks' = clicks + 1

\* "Edit": the text of the message shown, in the state of the selected session.
EditBegins(k) ==
  /\ Clicked(k) /\ editing.index # k
  /\ editing' = [index |-> k, text |-> view.messages[k].id]
  /\ UNCHANGED <<lists, display, tab, view, dirty, ratings, comment, cut, misfiled, torn>>

EditEnds(k) ==
  /\ Clicked(k) /\ editing.index = k
  /\ editing' = NotEditing
  /\ UNCHANGED <<lists, display, tab, view, dirty, ratings, comment, cut, misfiled, torn>>

\* Wrong: any index is taken for one of the store.
AnyIndexVariant(shown) == TRUE

\* The two lists are taken for the same when they are as long as each other.
Aligned(shown) == Len(shown) = Len(store)

\* commit_message_edit.
EditCommits(k) ==
  /\ Clicked(k) /\ editing.index = k
  /\ LET shown == display[Main] IN
       /\ display' = IF k \in DOMAIN shown THEN [display EXCEPT ![Main][k].text = editing.text] ELSE display
       /\ store' = IF Aligned(shown) /\ k \in DOMAIN store THEN [store EXCEPT ![k].text = editing.text] ELSE store
  /\ editing' = NotEditing
  /\ dirty' = TRUE
  /\ Tears
  /\ UNCHANGED <<coming, queued, gen, born, tab, view, ratings, comment, cut, misfiled>>

\* Wrong: the ratings stay where they are.
UnshiftedVariant(k) == ratings

\* The ratings above the deleted message move down; two that meet leave either.
Shifted(k) ==
  LET kept(j) == IF j < k THEN j ELSE IF j = k /\ k \in DOMAIN ratings THEN j ELSE j + 1
      places == {j \in 1..MaxMessages : (j <= k /\ j \in DOMAIN ratings) \/ (j >= k /\ j + 1 \in DOMAIN ratings)}
  IN [j \in places |-> ratings[kept(j)]]

\* Wrong: an open comment field stays at its index.
FieldStaysVariant(c, k) == c

FieldMoves(c, k) ==
  IF c.index = k THEN NoComment ELSE IF c.index > k THEN [c EXCEPT !.index = @ - 1] ELSE c

\* delete_message: of the selected session, whichever tab is shown.
Deletes(k) ==
  /\ Clicked(k) /\ (editing.index # k)
  /\ LET shown == display[Main] IN
     IF k \in DOMAIN shown
     THEN /\ display' = [display EXCEPT ![Main] = Without(@, k)]
          /\ ratings' = Shifted(k)
          /\ misfiled' = (misfiled \/ k \in DOMAIN ratings)
          /\ comment' = [comment EXCEPT ![Main] = FieldMoves(@, k)]
          /\ store' = IF Aligned(shown) /\ k \in DOMAIN store THEN Without(store, k) ELSE store
          /\ cut' = TRUE
     ELSE UNCHANGED <<display, ratings, misfiled, comment, store, cut>>
  /\ Tears
  /\ UNCHANGED <<coming, queued, gen, born, tab, view, dirty, editing>>

\* A rating, or the comment field of a bad one: the row is drawn from the tab's session,
\* the rating kept in the selected session.
Rated(k) == IF tab = Main THEN k \in DOMAIN ratings ELSE FALSE

Rates(k) ==
  /\ Clicked(k) /\ ~Rated(k)
  /\ ratings' = [j \in DOMAIN ratings \cup {k} |-> IF j = k THEN view.messages[k].id ELSE ratings[j]]
  /\ misfiled' = (misfiled \/ tab # Main \/ view.messages # display[Main])
  /\ comment' = [comment EXCEPT ![Main] = NoComment]
  /\ UNCHANGED <<lists, display, tab, view, dirty, editing, cut, torn>>

OpensComment(k) ==
  /\ Clicked(k) /\ ~Rated(k) /\ comment[tab].index # k
  /\ comment' = [comment EXCEPT ![tab] = [index |-> k, id |-> Message(display[tab], k)]]
  /\ UNCHANGED <<lists, display, tab, view, dirty, editing, ratings, cut, misfiled, torn>>

Next ==
  \/ Sends \/ RunStarts \/ RunEnds \/ Handles
  \/ \E kind \in {"both", "shown only", "stored only"} : AgentSays(kind)
  \/ Draws \/ FrameEnds \/ \E t \in Tabs : ShowsTab(t)
  \/ \E k \in 1..MaxMessages :
       EditBegins(k) \/ EditEnds(k) \/ EditCommits(k) \/ Deletes(k) \/ Rates(k) \/ OpensComment(k)

Spec == Init /\ [][Next]_chatVars

-----------------------------------------------------------------------------
\* Indexes stay inside the lists.
TypeOK ==
  /\ Len(display[Main]) <= MaxMessages /\ Len(store) <= MaxMessages
  /\ DOMAIN ratings \subseteq 1..MaxMessages
  /\ editing.index \in 0..MaxMessages

\* While nothing is under way and the store is part of the display, an edit or a
\* deletion that changes the store changes the same message in both lists, although
\* thinking blocks and banners make the display longer (commit_message_edit,
\* delete_message).
ClicksAgree == ~torn

\* A rating stays with the message it was given to through deletions of others, unless
\* a rated message was deleted, or the rating was given in a sub-session's tab or in a
\* list gone stale.
RatingsFollow == ~misfiled => \A k \in DOMAIN ratings : Message(display[Main], k) = ratings[k]

\* An open comment field stays with its message.
CommentFollows == \A s \in {Main, Sub} : comment[s].index # 0 => Message(display[s], comment[s].index) = comment[s].id

\* The list drawn is the displayed session's, also after an edit in place, unless a
\* deletion and an arrival between two frames cancel out (refresh_display_snapshot).
ViewCurrent == phase = "drawn" /\ ~cut => view = [session |-> tab, messages |-> display[tab]]

ChatShown == TypeOK /\ ClicksAgree /\ RatingsFollow /\ CommentFollows /\ ViewCurrent

\* "When misaligned, the edit applies to the display only": an edit never puts the text
\* of one message into another message of the store (commit_message_edit).
OwnText == \A k \in DOMAIN store : store[k].text = store[k].id

\* Stated, and not so: "keys below stay, the deleted one drops" (delete_message).
DeletedRatingDrops == \A k \in DOMAIN ratings : Message(display[Main], k) = ratings[k]

\* Stated, and not so: the snapshot is rebuilt whenever "it is stale"
\* (refresh_display_snapshot).
NeverStale == phase = "drawn" => view.messages = display[tab]

=============================================================================

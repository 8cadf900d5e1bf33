-------------------------------- MODULE Trimming --------------------------------
(***************************************************************************)
(* What a trim leaves of a request, in two parts that share nothing here.  *)
(*                                                                         *)
(* Reads (trimming/filestate.rs): which file reads a trim takes out.  The  *)
(* conversation is its tool rounds, each the calls of one assistant        *)
(* message with their results; ids are distinct, so that a call and its    *)
(* result are one entry.  A trim drops the rounds of reads that are out of *)
(* date, or only marks the read when its round holds another file's        *)
(* working snapshot; the rounds it leaves keep their numbers.              *)
(*                                                                         *)
(* Brief (trimming/brief.rs): what an age sweep drops is folded into one   *)
(* message that is parsed, extended, capped and rendered again at every    *)
(* trim, may be rewritten by the model, and takes the notes that exceed    *)
(* their number.  A message is its number and, for the user's, its text,   *)
(* for the assistant's, its lines, each with the section classify_line     *)
(* gives it, and the files its calls write.  The same may be said again;   *)
(* what is equal when cut to its section's length is one text.             *)
(***************************************************************************)
EXTENDS Naturals, Sequences, FiniteSets

Fold == INSTANCE SequencesExt

CONSTANTS
  Files,              \* paths that the calls name
  Large,              \* those files whose snapshot reaches PROTECTED_READ_MIN_CHARS
  MaxCalls,           \* bound: calls in the conversation
  Paths,              \* files that calls write
  LongPaths,          \* those longer than a line of the brief (FILE_MAX + 32)
  Sayings,            \* what the assistant says: [lines: <<section, text>>s, paths: Paths]
  UserTexts,          \* texts of the user and of the notes: numbers but 0
  NOTES_MAX_ITEMS, LIST_MAX_ITEMS,
  NoteIds,            \* NOTE_MAX: how much of a note the brief takes
  BriefItems,         \* BRIEF_MAX_CHARS: how many items the brief holds
  MaxMessages,        \* bound: messages and notes
  MaxTrims            \* bound: trims

VARIABLES
  rounds,      \* the tool rounds, by number
  version,     \* per file: how often it was changed
  unlogged,    \* files that a call changed and reported as failed
  judged,      \* the rounds up to this one have been through a trim since they were added
  lost,        \* working snapshots that a trim took
  called, trims,
  list,        \* the request behind the system prompt, without notes and brief
  notes,       \* the anchored notes, oldest first
  brief,
  swept,       \* all that sweeps dropped into the brief, in order
  folded,      \* all notes folded into it
  told,        \* the state line of the last refresh; 0 after a note of the agent's own
  shrunk,      \* the brief was cut to its size, or rewritten by the model
  said, sweeps

readsVars == <<rounds, version, unlogged, judged, lost, called, trims>>
briefVars == <<list, notes, brief, swept, folded, told, shrunk, said, sweeps>>

-----------------------------------------------------------------------------
(* Reads.                                                                  *)

\* A call and its result: what it names, whether the result says "Error:", and for
\* a read the version it shows, or that a marker stands in its place.
Entry(op, f, ok, seen) == [op |-> op, file |-> f, ok |-> ok, seen |-> seen, marker |-> FALSE]
IsRead(e) == e.op = "read"

\* Wrong: only what writes in place counts as a change.
TargetOnlyVariant(e) == IF e.ok /\ e.op = "write" THEN {e.file} ELSE {}

\* write, append, diff and delete change their path, a copy its destination, a move
\* both ends. "move" goes to every other file, as there are two.
Changed(e) == IF ~e.ok THEN {}
              ELSE CASE e.op = "write" -> {e.file}
                     [] e.op = "copy"  -> Files \ {e.file}
                     [] e.op = "move"  -> Files
                     [] OTHER          -> {}

Places(l) == UNION {{i} \X DOMAIN l[i] : i \in DOMAIN l}
At(l, p) == l[p[1]][p[2]]
Later(q, p) == q[1] > p[1] \/ (q[1] = p[1] /\ q[2] > p[2])
LastRound(l) == IF DOMAIN l = {} THEN 0 ELSE CHOOSE i \in DOMAIN l : \A j \in DOMAIN l : j <= i

Reads(l, f) == {p \in Places(l) : IsRead(At(l, p)) /\ At(l, p).file = f}
Stale(l, p) == \E q \in Places(l) : Later(q, p) /\ At(l, p).file \in Changed(At(l, q))
Superseded(l, p) == \E q \in Reads(l, At(l, p).file) : Later(q, p)
OutOfDate(l, p) == At(l, p).marker \/ Stale(l, p) \/ Superseded(l, p)

\* Worth keeping: read more than once, or large. A failed read has no snapshot to be large.
Protected(l, p) == Cardinality(Reads(l, At(l, p).file)) >= 2
                   \/ (At(l, p).ok /\ At(l, p).file \in Large)

\* The round holds the working snapshot of another file.
HoldsWorking(l, i, p) ==
  \E q \in Places(l) \ {p} : q[1] = i /\ IsRead(At(l, q)) /\ ~OutOfDate(l, q) /\ Protected(l, q)

\* Reads before the tail that have to go, one by one.
Due(l, tail) == {p \in Places(l) : p[1] < tail /\ IsRead(At(l, p)) /\ OutOfDate(l, p)}

\* Wrong: rounds are dropped, and the read of a round that is kept stays as it is.
UnmarkedVariant(l, tail) == {}
Marked(l, tail) == {p \in Due(l, tail) : HoldsWorking(l, p[1], p)}

\* Wrong: the round goes without a look at what else it holds.
WholesaleVariant(l, tail) == {p[1] : p \in Due(l, tail)}
Dropped(l, tail) == {p[1] : p \in Due(l, tail) \ Marked(l, tail)}

Kept(l, gone) == [i \in DOMAIN l \ gone |-> l[i]]

Freshened(l, tail) ==
  Kept([i \in DOMAIN l |-> [k \in DOMAIN l[i] |->
          IF <<i, k>> \in Marked(l, tail) THEN [l[i][k] EXCEPT !.marker = TRUE] ELSE l[i][k]]],
       Dropped(l, tail))

(* ---- the conversation goes on, and is trimmed between rounds ---- *)

ResultOf(op, f, ok) == Entry(op, f, ok, IF ok THEN version[f] ELSE 0)

\* What the file tools do to the disk.
Alters(op, f, ok, torn) ==
  {g \in Files : \/ g = f /\ ((ok /\ op \in {"write", "move"}) \/ torn)
                 \/ g # f /\ ok /\ op \in {"copy", "move"}}

Added(l, n, r) == [i \in DOMAIN l \cup {n} |-> IF i = n THEN r ELSE l[i]]

\* In the last round, or in one of its own. A failed in-place write may have changed the file.
Calls(op, f, ok, torn) ==
  LET e == ResultOf(op, f, ok) IN
  /\ called < MaxCalls /\ called' = called + 1
  /\ ok \/ op = "read" \/ (op = "write" /\ torn)   \* another failure leaves no trace here
  /\ ok => ~torn
  /\ op = "read" => ~torn
  /\ \/ rounds' = Added(rounds, LastRound(rounds) + 1, <<e>>)
     \/ /\ judged < LastRound(rounds)
        /\ rounds' = Added(rounds, LastRound(rounds), Append(rounds[LastRound(rounds)], e))
  /\ version' = [g \in Files |-> version[g] + (IF g \in Alters(op, f, ok, torn) THEN 1 ELSE 0)]
  /\ unlogged' = (IF ok THEN unlogged \ Alters(op, f, ok, torn) ELSE unlogged) \cup (IF torn THEN {f} ELSE {})
  /\ UNCHANGED <<judged, lost, trims>>

\* The tail begins with the last round, or behind it when the user wrote since.
TrimsReads(tail) ==
  LET new == Freshened(rounds, tail) IN
  /\ trims < MaxTrims /\ judged < LastRound(rounds)
  /\ trims' = trims + 1
  /\ rounds' = new
  /\ judged' = LastRound(new)
  /\ lost' = lost \cup {At(rounds, p).file : p \in {q \in Places(rounds) :
               /\ IsRead(At(rounds, q)) /\ At(rounds, q).ok
               /\ ~OutOfDate(rounds, q) /\ Protected(rounds, q)
               /\ ~\E r \in Places(new) : At(new, r) = At(rounds, q)}}
  /\ UNCHANGED <<version, unlogged, called>>

ReadsInit ==
  /\ rounds = [i \in {} |-> <<>>] /\ version = [f \in Files |-> 1] /\ unlogged = {} /\ judged = 0
  /\ lost = {} /\ called = 0 /\ trims = 0

ReadsNext ==
  \/ \E op \in {"read", "write", "copy", "move"}, f \in Files, ok, torn \in BOOLEAN :
       Calls(op, f, ok, torn)
  \/ \E tail \in {LastRound(rounds), LastRound(rounds) + 1} : TrimsReads(tail)

-----------------------------------------------------------------------------
(* Brief.                                                                  *)

Sections == {"completed", "corrections", "decisions", "files", "notes"}
NoBrief == [task |-> 0, next |-> 0, completed |-> <<>>, corrections |-> <<>>, decisions |-> <<>>,
            files |-> <<>>, notes |-> <<>>]

User(n, text) == [n |-> n, kind |-> "user", text |-> text, lines |-> <<>>, paths |-> <<>>]
Says(n, what) ==
  [n |-> n, kind |-> "assistant", text |-> 0, lines |-> what.lines, paths |-> what.paths]
Users(l) == SelectSeq(l, LAMBDA m : m.kind = "user")
Task(l) == IF Users(l) = <<>> THEN 0 ELSE Head(Users(l)).text
LastOf(s, k) == SubSeq(s, IF Len(s) > k THEN Len(s) - k + 1 ELSE 1, Len(s))

\* Wrong: at its cap a list takes nothing more.
FullVariant(l, x, cap) == IF Len(l) >= cap \/ \E i \in DOMAIN l : l[i] = x THEN l ELSE Append(l, x)

\* Wrong: an item that comes again is the newest.
MovesUpVariant(l, x, cap) == LastOf(Append(SelectSeq(l, LAMBDA y : y # x), x), cap)

\* push_capped: an item once, at the place it has; the oldest go.
Pushed(l, x, cap) == IF \E i \in DOMAIN l : l[i] = x THEN l ELSE LastOf(Append(l, x), cap)

\* Wrong: a path is listed where it was written first.
FirstPlaceVariant(l, p) == Pushed(l, p, LIST_MAX_ITEMS)
\* The newest call on a path is what the list keeps of it. A path that was cut is not
\* found by its name, and stays where it is.
FilePushed(l, p) == Pushed(IF p \in LongPaths THEN l ELSE SelectSeq(l, LAMBDA q : q # p), p, LIST_MAX_ITEMS)

LineMerged(b, line) ==
  CASE line[1] = "next" -> [b EXCEPT !.next = line[2]]
    [] line[1] \in {"completed", "decisions"} ->
         [b EXCEPT ![line[1]] = Pushed(@, line[2], LIST_MAX_ITEMS)]
    [] OTHER -> b

Merged(b, m) ==
  IF m.kind = "assistant"
  THEN [Fold!FoldLeft(LineMerged, b, m.lines) EXCEPT !.files = Fold!FoldLeft(FilePushed, @, m.paths)]
  ELSE IF b.task = 0 THEN [b EXCEPT !.task = m.text]
  ELSE [b EXCEPT !.corrections = Pushed(@, m.text, LIST_MAX_ITEMS)]

\* The task still in the list is taken only when no message that went became the task.
MergeDropped(b, seed, dropped) ==
  LET c == Fold!FoldLeft(Merged, b, dropped) IN IF c.task = 0 THEN [c EXCEPT !.task = seed] ELSE c

Items(b) == Len(b.completed) + Len(b.corrections) + Len(b.decisions) + Len(b.files) + Len(b.notes)

\* drop_oldest: the oldest of the longest list, notes last.
Priority == <<"completed", "corrections", "decisions", "files", "notes">>
DropOldest(b) ==
  LET first == CHOOSE i \in 1..5 : /\ \A j \in 1..5 : Len(b[Priority[j]]) <= Len(b[Priority[i]])
                                   /\ \A j \in 1..i-1 : Len(b[Priority[j]]) < Len(b[Priority[i]])
  IN [b EXCEPT ![Priority[first]] = Tail(@)]

\* Wrong: only the model's rewrite is cut to its size.
UncutVariant(b) == b
\* enforce_total_cap: until it fits; the bounds let no merge exceed it by more than nine.
Capped(b) == Fold!FoldLeft(LAMBDA c, i : IF Items(c) > BriefItems THEN DropOldest(c) ELSE c,
                           b, [i \in 1..9 |-> i])

(* ---- notes ---- *)

FoldsOldest(b) == Capped([b EXCEPT !.notes = Pushed(@, SubSeq(Head(notes), 1, NoteIds), 2 * NOTES_MAX_ITEMS)])

\* apply_note: an equal note is there already; at the cap the oldest goes into the brief.
AppliesNote(text, b, cut) ==
  IF \E i \in DOMAIN notes : notes[i] = text
  THEN brief' = b /\ shrunk' = cut /\ UNCHANGED <<notes, folded>>
  ELSE IF Len(notes) >= NOTES_MAX_ITEMS
  THEN /\ notes' = Append(Tail(notes), text)
       /\ brief' = FoldsOldest(b)
       /\ folded' = Append(folded, Head(notes))
       /\ shrunk' = (cut \/ Items(b) >= BriefItems)
  ELSE /\ notes' = Append(notes, text)
       /\ brief' = b /\ shrunk' = cut /\ UNCHANGED folded

\* note_refresh_line: the newest "what's next", else the newest line of the assistant.
Lines(l) == Fold!FoldLeft(LAMBDA all, m : all \o m.lines, <<>>, l)
LastText(lines) == IF lines = <<>> THEN 0 ELSE lines[Len(lines)][2]
StateLine(dropped) ==
  LET next  == SelectSeq(Lines(dropped), LAMBDA line : line[1] = "next")
  IN IF next # <<>> THEN LastText(next) ELSE LastText(Lines(dropped))

\* Wrong: the state line is put before what the note said.
InFrontVariant(line) == IF notes = <<>> THEN <<line>> ELSE <<line>> \o notes[Len(notes)]
\* refreshed_note_text: what the newest note says, and the line.
Refreshed(line) == IF notes = <<>> THEN <<line>> ELSE Append(notes[Len(notes)], line)

\* refresh_note_pre_trim: nothing when the newest note ends with the line already.
Refreshes(line, b, cut) ==
  LET newest == notes[Len(notes)] IN
  IF line = 0 \/ (notes # <<>> /\ newest[Len(newest)] = line)
  THEN brief' = b /\ shrunk' = cut /\ UNCHANGED <<notes, folded>>
  ELSE AppliesNote(Refreshed(line), b, cut)

(* ---- the conversation ---- *)

Hears == said < MaxMessages /\ said' = said + 1

UserSays(text) ==
  /\ Hears /\ list' = Append(list, User(said + 1, text))
  /\ UNCHANGED <<notes, brief, swept, folded, told, shrunk, sweeps>>

AgentSays(what) ==
  /\ Hears /\ list # <<>> /\ list' = Append(list, Says(said + 1, what))
  /\ UNCHANGED <<notes, brief, swept, folded, told, shrunk, sweeps>>

\* The session_note tool.
Notes(text) ==
  /\ Hears /\ AppliesNote(<<text>>, brief, shrunk) /\ told' = 0
  /\ UNCHANGED <<list, swept, sweeps>>

\* The first user message and the last message stay.
First(l) == IF Users(l) = <<>> THEN 0 ELSE Head(Users(l)).n
Old(l) == {i \in 1..Len(l)-1 : l[i].n # First(l)}
Swept(k) == {i \in Old(list) : Cardinality({j \in Old(list) : j <= i}) <= k}
Picked(chosen) == SelectSeq(list, LAMBDA m : \E i \in chosen : list[i] = m)

\* Wrong: what the model returns is taken as it is.
AsReturnedVariant(b, out) == out
\* polish_brief: an answer without a task keeps the old one.
Polished(b, out) == IF out.task = 0 THEN [out EXCEPT !.task = b.task] ELSE out

\* The model may leave anything out, the task included.
Answers(b) == {[b EXCEPT ![s] = <<>>, !.task = t] : s \in Sections, t \in {0, b.task}}

\* A span of fewer than BRIEF_MIN_DROPPED_CHARS goes without a trace. The sweep, the brief,
\* its polish and the refreshed note are one step: nobody else holds the list.
Sweeps(k, big, polish) ==
  LET chosen  == Swept(k)
      dropped == Picked(chosen)
      rest    == SelectSeq(list, LAMBDA m : \A i \in chosen : list[i] # m)
      merged  == MergeDropped(brief, Task(rest), dropped)
      cut     == shrunk \/ (big /\ Items(merged) > BriefItems)
      folds   == IF big THEN Capped(merged) ELSE brief IN
  /\ sweeps < MaxTrims /\ sweeps' = sweeps + 1
  /\ chosen # {} /\ list' = rest
  /\ swept' = IF big THEN swept \o dropped ELSE swept
  /\ told' = IF StateLine(dropped) = 0 THEN told ELSE StateLine(dropped)
  /\ \/ ~polish /\ Refreshes(StateLine(dropped), folds, cut)
     \/ polish /\ big /\ \E out \in Answers(folds) :
          Refreshes(StateLine(dropped), Polished(folds, out), TRUE)
  /\ UNCHANGED said

BriefInit ==
  /\ list = <<>> /\ notes = <<>> /\ brief = NoBrief /\ swept = <<>> /\ folded = <<>> /\ told = 0
  /\ shrunk = FALSE /\ said = 0 /\ sweeps = 0

BriefNext ==
  \/ \E text \in UserTexts : UserSays(text) \/ Notes(text)
  \/ \E what \in Sayings : AgentSays(what)
  \/ \E k \in 1..MaxMessages, big, polish \in BOOLEAN : k <= Cardinality(Old(list)) /\ Sweeps(k, big, polish)

-----------------------------------------------------------------------------
\* After a trim no snapshot before the last round shows a version of a file that a
\* file tool has replaced since, whichever rounds were dropped with the evidence.
OnlyFreshShown ==
  judged = LastRound(rounds) =>
    \A p \in Places(rounds) :
      (p[1] < LastRound(rounds) /\ IsRead(At(rounds, p)) /\ At(rounds, p).ok /\ ~At(rounds, p).marker)
        => At(rounds, p).seen = version[At(rounds, p).file] \/ At(rounds, p).file \in unlogged

\* A file the model works on keeps its current snapshot, although a read beside it went.
WorkingKept == lost = {}

FreshnessSound == OnlyFreshShown /\ WorkingKept

\* Stated, and not so: "a failed write_file did not change the file" (FAILURE_PREFIX).
\* An in-place write that fails half way leaves a snapshot of what is no more.
FailedChangesNothing ==
  judged = LastRound(rounds) =>
    \A p \in Places(rounds) :
      (p[1] < LastRound(rounds) /\ IsRead(At(rounds, p)) /\ At(rounds, p).ok /\ ~At(rounds, p).marker)
        => At(rounds, p).seen = version[At(rounds, p).file]

\* Stated, and not so: "so the newer read's content is the current one"
\* (superseded_marker). The newer read may have failed, and the snapshot is gone.
NewerReadShows ==
  \A p \in Places(rounds) :
    (At(rounds, p).marker /\ Superseded(rounds, p) /\ ~Stale(rounds, p))
      => \E q \in Reads(rounds, At(rounds, p).file) : Later(q, p) /\ At(rounds, q).ok

\* What the brief should say of all that went, by a definition of its own.
OfSection(section) ==
  LET lines == SelectSeq(Lines(swept), LAMBDA line : line[1] = section)
  IN [i \in DOMAIN lines |-> lines[i][2]]
Written == Fold!FoldLeft(LAMBDA all, m : all \o m.paths, <<>>, swept)
FollowUps == [i \in DOMAIN Users(swept) |-> Users(swept)[i].text]
Values(s) == {s[i] : i \in DOMAIN s}
ItemsAt(s, places) ==
  LET seq == SelectSeq([i \in DOMAIN s |-> i], LAMBDA i : i \in places) IN [i \in DOMAIN seq |-> s[seq[i]]]
FirstMentions(s) == ItemsAt(s, {i \in DOMAIN s : \A j \in 1..i-1 : s[j] # s[i]})
LastMentions(s) == ItemsAt(s, {i \in DOMAIN s : \A j \in i+1..Len(s) : s[j] # s[i]})
Newest(s) == LastOf(s, LIST_MAX_ITEMS)

\* A list of the brief against all that was dropped into it. What came last is in it; and as
\* long as nothing came again that had to go for LIST_MAX_ITEMS others, it is the newest in
\* the order in which they first came (what is said again keeps its place).
RollsUp(l, s) ==
  /\ s # <<>> => s[Len(s)] \in Values(l)
  /\ (\A i, j \in DOMAIN s : i < j /\ s[i] = s[j] =>
        Cardinality({s[k] : k \in i+1..j-1} \ {s[k] : k \in 1..i}) < LIST_MAX_ITEMS)
       => l = Newest(FirstMentions(s))

\* Unless it had to be cut to its size or was rewritten by the model, the brief rolls up what
\* sweeps dropped, however many sweeps it took; the files are the newest by their last write,
\* if no path too long for its line was written twice; a folded note is in it.
BriefRolls ==
  shrunk \/
  /\ RollsUp(brief.completed, OfSection("completed"))
  /\ RollsUp(brief.decisions, OfSection("decisions"))
  /\ \/ RollsUp(brief.corrections, FollowUps)
     \/ FollowUps # <<>> /\ Head(FollowUps) = brief.task /\ RollsUp(brief.corrections, Tail(FollowUps))
  /\ brief.next = (IF OfSection("next") = <<>> THEN 0 ELSE LastOf(OfSection("next"), 1)[1])
  /\ (\A i, j \in DOMAIN Written : i # j /\ Written[i] = Written[j] => Written[i] \notin LongPaths)
       => brief.files = Newest(LastMentions(Written))
  /\ Written # <<>> => Written[Len(Written)] \in Values(brief.files)
  /\ folded # <<>> => \E i \in DOMAIN brief.notes :
                        brief.notes[i] = SubSeq(folded[Len(folded)], 1, NoteIds)

\* The brief fits, whatever was merged, and its task is never lost, whatever the model
\* answered; a refreshed note ends with the state of the last trim.
BriefFits ==
  /\ Items(brief) <= BriefItems
  /\ swept # <<>> => brief.task # 0
  /\ told # 0 => LastOf(notes[Len(notes)], 1) = <<told>>

BriefSound == BriefRolls /\ BriefFits

\* Stated, and not so: "Task resolution order: prev.task, task_seed, first user message in
\* the dropped span" (merge_dropped): a follow-up that goes becomes the task, although
\* the task is still in the list.
TaskIsFirst == brief.task \in {0, 1}

\* Stated, and not so: "the refresh never loses state" (refresh_note_pre_trim): a note is
\* cut at its end when it is folded, and the end is the newest.
FoldKeepsNewest ==
  shrunk \/ (folded = <<>> \/ \E i \in DOMAIN brief.notes :
               folded[Len(folded)][Len(folded[Len(folded)])] \in {brief.notes[i][k] : k \in DOMAIN brief.notes[i]})

=============================================================================

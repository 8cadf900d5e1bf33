------------------------------ MODULE FileTools ------------------------------
(***************************************************************************)
(* The file tools (tools/builtin/fileio).                                  *)
(*                                                                         *)
(* What they make of one text: apply_diff with its exact and its tolerant  *)
(* match, replace_lines with its guard, append_file, write_file's line     *)
(* endings, read_file's pages. A text is the sequence of its lines, a line *)
(* a word that may have trailing blanks and ends with LF or CRLF; the last *)
(* may have no ending. Words are whole: a search text begins and ends with *)
(* one.                                                                    *)
(*                                                                         *)
(* And several at work on the same two paths at once: the calls of a round *)
(* run in parallel, and of several sessions anyway, without a lock between *)
(* them. apply_diff and replace_lines read, then write in place;           *)
(* write_file writes a temporary file and renames it; append_file appends; *)
(* copy writes in place; move renames, or copies and deletes. The content  *)
(* of a file is the set of calls whose text is in it.                      *)
(***************************************************************************)
EXTENDS Naturals, Sequences, FiniteSets

CONSTANTS Words,     \* what lines may say
          MaxLines,  \* bound: lines of a file
          MAX_LINES, \* lines of one page of read_file
          Calls, None

VARIABLES
  file, edit, result, \* of an edit: the text, the call and what it returned
  files,   \* content of each path; None for no file
  torn,    \* paths whose content was cut off by a write that is under way or broke off
  temps,   \* temporary files that exist, by call
  fcall,   \* the calls: what they do, where they are, what they read, and the path
           \* by which the file they hold open for writing is known
  owed,    \* history: by path, calls that reported their text is in it
  mixed    \* history: an edit's read and write had another call's write between them

textVars == <<file, edit, result>>
fileVars == <<files, torn, temps, fcall, owed, mixed>>

-----------------------------------------------------------------------------
(* One edit. *)

Line == [word : Words, blank : BOOLEAN, cr : BOOLEAN]
Lines(n) == UNION {[1..k -> Line] : k \in 0..n}
File == [lines : Lines(MaxLines), open : BOOLEAN]
\* open: the last line has no line ending; then it cannot have a CR either.

Bare(word) == [word |-> word, blank |-> FALSE, cr |-> FALSE]
News == {<<>>, <<Bare("new")>>, <<Bare("new"), Bare("new")>>}
Searches == {s \in UNION {[1..k -> [word : Words, blank : BOOLEAN, cr : {FALSE}]] : k \in 1..2} :
               s[1].blank => Len(s) = 2}
Untried == [op |-> "none"]

EditInit ==
  /\ file \in File
  /\ file.open => file.lines # <<>> /\ ~file.lines[Len(file.lines)].cr
  /\ edit \in [op : {"diff"}, search : Searches, with : News]
       \cup [op : {"lines"}, from : 0..MaxLines, to : 0..(MaxLines + 1), with : News, verify : {TRUE}]
       \cup [op : {"lines"}, from : {1}, to : {1}, with : News, verify : {FALSE}]
       \cup [op : {"append", "write"}, with : News \ {<<>>}]
       \cup [op : {"read"}, from : 0..MaxLines, to : 0..MaxLines]
  /\ result = Untried

-----------------------------------------------------------------------------
\* detect_eol: CRLF when more lines end with it than with LF alone.
CrlfVariant(f) == \E i \in 1..Len(f.lines) : f.lines[i].cr

Crlf(f) ==
  LET n == Len(f.lines)
      ended == IF f.open THEN n - 1 ELSE n
      crs == Len(SelectSeq(f.lines, LAMBDA l : l.cr))
  IN crs > ended - crs

WithEnding(lines, cr) == [i \in 1..Len(lines) |-> [lines[i] EXCEPT !.cr = cr]]
\* A text in CRLF: every line that has an ending.
Ended(f, cr) ==
  LET n == Len(f.lines)
  IN [f EXCEPT !.lines = [i \in 1..n |-> [f.lines[i] EXCEPT !.cr = cr /\ ~(f.open /\ i = n)]]]

Splice(lines, at, n, with) == SubSeq(lines, 1, at - 1) \o with \o SubSeq(lines, at + n, Len(lines))

\* The exact match is one of characters: all lines but the last in full, of the last
\* as far as the search text goes.
ExactAt(lines, search) ==
  LET k == Len(search)
  IN {at \in 1..(Len(lines) + 1 - k) :
        /\ \A i \in 1..(k - 1) : lines[at + i - 1] = search[i]
        /\ LET l == lines[at + k - 1]
           IN l.word = search[k].word /\ (search[k].blank => l.blank)}

\* tolerant_match_positions: whole lines, trailing blanks aside.
TolerantAt(lines, search) ==
  {at \in 1..(Len(lines) + 1 - Len(search)) :
     \A i \in 1..Len(search) : lines[at + i - 1].word = search[i].word}

\* The replacement ends where the search text ended: what its last line had beyond
\* that stays. An empty one leaves the line, now empty.
Exactly(lines, at, search, with) ==
  LET k == Len(search)
      rest == lines[at + k - 1]
      new == IF with = <<>> THEN <<Bare("")>> ELSE with
      last == [new[Len(new)] EXCEPT !.blank = rest.blank /\ ~search[k].blank, !.cr = rest.cr]
  IN Splice(lines, at, k, SubSeq(new, 1, Len(new) - 1) \o <<last>>)

DiffVariant(f, e) ==
  LET view == IF Crlf(f) THEN WithEnding(f.lines, FALSE) ELSE f.lines
      tolerant == TolerantAt(view, e.search)
  IN IF tolerant = {} THEN [ok |-> FALSE, file |-> f]
     ELSE [ok |-> TRUE, file |-> Ended([f EXCEPT !.lines =
             Splice(view, CHOOSE at \in tolerant : TRUE, Len(e.search), e.with)], Crlf(f))]

\* apply_diff with one block: on a view of the file without its CRs when they
\* dominate; a tolerant match drops all that are left. Several places, or none: an
\* error, and the file stays.
Diff(f, e) ==
  LET view == IF Crlf(f) THEN WithEnding(f.lines, FALSE) ELSE f.lines
      exact == ExactAt(view, e.search)
      tolerant == TolerantAt(view, e.search)
      restored(lines) == IF Crlf(f) THEN Ended([f EXCEPT !.lines = lines], TRUE)
                         ELSE [f EXCEPT !.lines = lines]
      one(set) == \E at \in set : set = {at}
  IN CASE one(exact) ->
            [ok |-> TRUE,
             file |-> restored(Exactly(view, CHOOSE at \in exact : TRUE, e.search, e.with))]
       [] exact = {} /\ one(tolerant) ->
            [ok |-> TRUE,
             file |-> restored(Splice(WithEnding(view, FALSE), CHOOSE at \in tolerant : TRUE,
                                      Len(e.search), e.with))]
       [] OTHER -> [ok |-> FALSE, file |-> f]

\* replace_lines: all lines get the dominant ending.
Replace(f, e) ==
  IF f.lines # <<>> /\ 1 <= e.from /\ e.from <= e.to /\ e.to <= Len(f.lines) /\ e.verify
  THEN [ok |-> TRUE,
        file |-> Ended([f EXCEPT !.lines = Splice(f.lines, e.from, e.to - e.from + 1, e.with)], Crlf(f))]
  ELSE [ok |-> FALSE, file |-> f]

\* append_file closes an open last line first; its payload takes the file's ending.
AppendTo(f, e) ==
  [ok |-> TRUE,
   file |-> [f EXCEPT !.open = FALSE, !.lines =
     LET n == Len(f.lines)
         closed == IF f.open THEN [f.lines EXCEPT ![n].cr = Crlf(f)] ELSE f.lines
     IN closed \o WithEnding(e.with, Crlf(f))]]

\* write_file keeps the BOM and the ending of the file it replaces.
Overwrite(f, e) ==
  [ok |-> TRUE, file |-> [f EXCEPT !.open = FALSE, !.lines = WithEnding(e.with, Crlf(f))]]

\* read_file: start - 1 wraps around for a start of 0, past every line.
ReadFile(f, e) ==
  LET n == Len(f.lines)
      upTo == IF e.to = 0 \/ e.to > n THEN n ELSE e.to
      asked == IF e.from = 0 THEN <<>> ELSE SubSeq(WithEnding(f.lines, FALSE), e.from, upTo)
      page == IF Len(asked) > MAX_LINES THEN SubSeq(asked, 1, MAX_LINES) ELSE asked
  IN [ok |-> TRUE, file |-> f, page |-> page, truncated |-> Len(asked) > MAX_LINES]

Apply ==
  /\ result = Untried
  /\ result' = CASE edit.op = "diff" -> Diff(file, edit)
                 [] edit.op = "lines" -> Replace(file, edit)
                 [] edit.op = "append" -> AppendTo(file, edit)
                 [] edit.op = "write" -> Overwrite(file, edit)
                 [] edit.op = "read" -> ReadFile(file, edit)
  /\ UNCHANGED <<file, edit>>

EditNext == Apply

-----------------------------------------------------------------------------
WordsOf(lines) == [i \in 1..Len(lines) |-> lines[i].word]
Uniform(f) == \A i \in 1..Len(f.lines) : f.lines[i].cr = Crlf(f) \/ (f.open /\ i = Len(f.lines))

EditTypeOK == result = Untried \/ (result.ok \in BOOLEAN /\ result.file.open \in BOOLEAN)

\* A tool that fails leaves the text, and one that succeeds leaves every line outside
\* the place it was given (apply_diff, replace_lines). The one place of a diff is
\* where the file says what the search says, trailing blanks aside.
OnlyThePlace ==
  result # Untried /\ edit.op \in {"diff", "lines"} =>
    IF ~result.ok THEN result.file = file
    ELSE LET n == IF edit.op = "diff" THEN Len(edit.search) ELSE edit.to - edit.from + 1
             places == IF edit.op = "lines" THEN {edit.from}
                       ELSE TolerantAt(file.lines, edit.search)
         IN \E at \in places :
              /\ SubSeq(WordsOf(result.file.lines), 1, at - 1) = SubSeq(WordsOf(file.lines), 1, at - 1)
              /\ LET after == SubSeq(WordsOf(file.lines), at + n, Len(file.lines))
                     all == WordsOf(result.file.lines)
                 IN after = SubSeq(all, Len(all) - Len(after) + 1, Len(all))

\* A search text that is in the file twice is refused.
AmbiguousRefused ==
  result # Untried /\ edit.op = "diff" /\ result.ok =>
    \A a, b \in TolerantAt(file.lines, edit.search) :
      (\A at \in {a, b} : \A i \in 1..Len(edit.search) :
         LET l == file.lines[at + i - 1]
         IN l.blank = edit.search[i].blank /\ l.cr = Crlf(file)) => a = b

\* A file of one ending keeps it under every tool: an edit of a CRLF file never
\* mixes in LF.
EndingsKept == result # Untried /\ result.ok /\ Uniform(file) => Uniform(result.file)

\* Pages put together are the file: a page that is not truncated holds all it was
\* asked for, a truncated one the first of it.
PagesAreTheFile ==
  result # Untried /\ edit.op = "read" /\ edit.from >= 1 =>
    LET upTo == IF edit.to = 0 \/ edit.to > Len(file.lines) THEN Len(file.lines) ELSE edit.to
        asked == IF edit.from > upTo THEN 0 ELSE upTo - edit.from + 1
    IN /\ Len(result.page) = IF result.truncated THEN MAX_LINES ELSE asked
       /\ \A i \in 1..Len(result.page) : result.page[i].word = file.lines[edit.from + i - 1].word

EditsExact == EditTypeOK /\ OnlyThePlace /\ AmbiguousRefused /\ EndingsKept /\ PagesAreTheFile

-----------------------------------------------------------------------------
(* Calls at the same time. *)

Paths == {"src", "dest"}
Ops == {"edit", "write", "append", "copy", "move", "delete"}
Content == SUBSET Calls

Init ==
  /\ \E p \in SUBSET Paths : files = [q \in Paths |-> IF q \in p THEN {} ELSE None]
  /\ torn = {} /\ temps = {}
  /\ fcall \in [Calls -> {[op |-> op, at |-> "idle", saw |-> None, on |-> None] : op \in Ops}]
  /\ owed = [p \in Paths |-> {}]
  /\ mixed = FALSE

States == {"idle", "read", "filling", "temp", "copying", "copied", "ok", "error"}

TypeOK ==
  /\ \A p \in Paths : files[p] = None \/ files[p] \in Content
  /\ torn \subseteq Paths /\ temps \subseteq Calls /\ mixed \in BOOLEAN
  /\ \A c \in Calls : fcall[c].at \in States /\ (fcall[c].saw = None \/ fcall[c].saw \in Content)
  /\ owed \in [Paths -> SUBSET Calls]

Is(c, op, at) == fcall[c].op = op /\ fcall[c].at = at
To(c, at) == fcall' = [fcall EXCEPT ![c].at = at]

\* The name from now stands for no file, or the file is called to: calls that hold
\* it open keep it, and what they write goes there.
Leaves(c, at, from, to) ==
  fcall' = [d \in Calls |->
    IF d = c THEN [fcall[d] EXCEPT !.at = at]
    ELSE IF fcall[d].at \notin {"filling", "copying"} THEN fcall[d]
    ELSE IF fcall[d].on = from THEN [fcall[d] EXCEPT !.on = to]
    ELSE IF to # None /\ fcall[d].on = to THEN [fcall[d] EXCEPT !.on = None]
    ELSE fcall[d]]

\* The path's content is what this call puts there.
Puts(p, content) == files' = [files EXCEPT ![p] = content]
\* Someone writes p while others have read it and not written yet.
Mixes(c, p) ==
  mixed' = (mixed \/ \E d \in Calls \ {c} :
              \/ fcall[d].at \in {"read", "filling"} /\ p = "src"
              \/ fcall[d].at \in {"copying", "copied"})

-----------------------------------------------------------------------------
\* apply_diff, replace_lines: read_text_file; no file, or no place for the edit, is
\* an error.
EditReads(c) ==
  /\ Is(c, "edit", "idle")
  /\ \/ /\ files["src"] # None
        /\ fcall' = [fcall EXCEPT ![c].at = "read", ![c].saw = files["src"]]
     \/ To(c, "error")
  /\ UNCHANGED <<files, torn, temps, owed, mixed>>

\* fs::write truncates the file ...
EditTruncates(c) ==
  /\ Is(c, "edit", "read")
  /\ Puts("src", {}) /\ torn' = torn \cup {"src"}
  /\ fcall' = [fcall EXCEPT ![c].at = "filling", ![c].on = "src"]
  /\ Mixes(c, "src")
  /\ UNCHANGED <<temps, owed>>

\* ... and fills it, all of it or until an error.
EditFills(c) ==
  /\ Is(c, "edit", "filling")
  /\ LET p == fcall[c].on
     IN \/ /\ files' = [q \in Paths |-> IF q = p THEN fcall[c].saw \cup {c} ELSE files[q]]
           /\ torn' = torn \ {p}
           /\ To(c, "ok")
           /\ owed' = [q \in Paths |-> IF q = p THEN owed[q] \cup {c} ELSE owed[q]]
        \/ To(c, "error") /\ UNCHANGED <<files, torn, owed>>
  /\ Mixes(c, "src")
  /\ UNCHANGED temps

WriteTempVariant(c) ==
  /\ Is(c, "write", "idle")
  /\ Puts("src", {}) /\ torn' = torn \cup {"src"}
  /\ temps' = temps \cup {c}
  /\ To(c, "temp") /\ Mixes(c, "src")
  /\ UNCHANGED <<owed>>

\* write_file: the temporary file is written and synced; an error removes it.
WriteTemp(c) ==
  /\ Is(c, "write", "idle")
  /\ \/ temps' = temps \cup {c} /\ To(c, "temp")
     \/ UNCHANGED temps /\ To(c, "error")
  /\ UNCHANGED <<files, torn, owed, mixed>>

WriteRenamesVariant(c) ==
  /\ Is(c, "write", "temp")
  /\ \/ /\ Puts("src", {c}) /\ torn' = torn \ {"src"}
        /\ temps' = temps \ {c}
        /\ owed' = [owed EXCEPT !["src"] = {c}]
        /\ To(c, "ok") /\ Mixes(c, "src")
     \/ /\ To(c, "error")
        /\ UNCHANGED <<files, torn, temps, owed, mixed>>

\* replace_over_existing: all or nothing.
WriteRenames(c) ==
  /\ Is(c, "write", "temp")
  /\ temps' = temps \ {c}
  /\ \/ /\ Puts("src", {c}) /\ torn' = torn \ {"src"}
        /\ owed' = [owed EXCEPT !["src"] = {c}]
        /\ Leaves(c, "ok", "src", None) /\ Mixes(c, "src")
     \/ To(c, "error") /\ UNCHANGED <<files, torn, owed, mixed>>

AppendVariant(c) ==
  /\ Is(c, "append", "idle")
  /\ Puts("src", {c}) /\ To(c, "ok") /\ Mixes(c, "src")
  /\ owed' = [owed EXCEPT !["src"] = @ \cup {c}]
  /\ UNCHANGED <<torn, temps>>

\* append_file: one write at the end, of a file that is created if missing.
Appends(c) ==
  /\ Is(c, "append", "idle")
  /\ \/ /\ Puts("src", (IF files["src"] = None THEN {} ELSE files["src"]) \cup {c})
        /\ To(c, "ok") /\ Mixes(c, "src")
        /\ owed' = [owed EXCEPT !["src"] = @ \cup {c}]
     \/ To(c, "error") /\ UNCHANGED <<files, owed, mixed>>
  /\ UNCHANGED <<torn, temps>>

-----------------------------------------------------------------------------
\* copy, and move where rename does not work: the destination is written in place.
CopyBegins(c) ==
  /\ Is(c, "copy", "idle") \/ Is(c, "move", "idle")
  /\ \/ /\ files["src"] # None
        /\ fcall' = [fcall EXCEPT ![c].at = "copying", ![c].saw = files["src"], ![c].on = "dest"]
        /\ Puts("dest", {}) /\ torn' = torn \cup {"dest"}
        /\ mixed' = (mixed \/ "src" \in torn \/ \E d \in Calls \ {c} : fcall[d].at \in {"copying", "copied"})
     \/ To(c, "error") /\ UNCHANGED <<files, torn, mixed>>
  /\ UNCHANGED <<temps, owed>>

CopyFills(c) ==
  /\ fcall[c].at = "copying"
  /\ \/ /\ files' = [q \in Paths |-> IF q = fcall[c].on THEN fcall[c].saw ELSE files[q]]
        /\ torn' = torn \ {fcall[c].on}
        /\ owed' = [q \in Paths |-> IF q = fcall[c].on THEN owed["src"] ELSE owed[q]]
        /\ To(c, IF fcall[c].op = "move" THEN "copied" ELSE "ok")
     \/ To(c, "error") /\ UNCHANGED <<files, torn, owed>>
  /\ Mixes(c, "dest")
  /\ UNCHANGED temps

MoveDeletesVariant(c) ==
  /\ fcall[c].op = "move" /\ fcall[c].at \in {"copying", "copied"}
  /\ Puts("src", None) /\ torn' = torn \ {"src"} /\ To(c, "ok")
  /\ Mixes(c, "src")
  /\ owed' = [owed EXCEPT !["src"] = {}]
  /\ UNCHANGED temps

\* The source goes once the copy is complete.
MoveDeletes(c) ==
  /\ Is(c, "move", "copied")
  /\ IF files["src"] = None
     THEN To(c, "error") /\ UNCHANGED <<files, torn, owed, mixed>>
     ELSE /\ Puts("src", None) /\ torn' = torn \ {"src"}
          /\ Leaves(c, "ok", "src", None) /\ Mixes(c, "src")
          /\ owed' = [owed EXCEPT !["src"] = {}]
  /\ UNCHANGED temps

\* move_item on one volume.
Renames(c) ==
  /\ Is(c, "move", "idle") /\ files["src"] # None
  /\ files' = [files EXCEPT !["dest"] = files["src"], !["src"] = None]
  /\ torn' = (torn \ Paths) \cup (IF "src" \in torn THEN {"dest"} ELSE {})
  /\ owed' = [owed EXCEPT !["dest"] = owed["src"], !["src"] = {}]
  /\ Leaves(c, "ok", "src", "dest")
  /\ mixed' = (mixed \/ \E d \in Calls \ {c} : fcall[d].at \in {"read", "filling", "copying", "copied"})
  /\ UNCHANGED temps

Deletes(c) ==
  /\ Is(c, "delete", "idle")
  /\ IF files["src"] = None
     THEN To(c, "error") /\ UNCHANGED <<files, torn, owed, mixed>>
     ELSE /\ Puts("src", None) /\ torn' = torn \ {"src"}
          /\ owed' = [owed EXCEPT !["src"] = {}]
          /\ Leaves(c, "ok", "src", None) /\ Mixes(c, "src")
  /\ UNCHANGED temps

Next ==
  \E c \in Calls :
    \/ EditReads(c) \/ EditTruncates(c) \/ EditFills(c)
    \/ WriteTemp(c) \/ WriteRenames(c) \/ Appends(c)
    \/ CopyBegins(c) \/ CopyFills(c) \/ MoveDeletes(c) \/ Renames(c) \/ Deletes(c)

Spec == Init /\ [][Next]_fileVars

-----------------------------------------------------------------------------
\* What a call reported to be in a file is there, while no two calls overlap: each
\* reads what the one before it wrote (fileio). Parallel edits of one file lose all
\* but one, and every one of them reports success.
ReportedIsThere ==
  ~mixed => \A p \in Paths :
    p \notin torn => owed[p] \subseteq (IF files[p] = None THEN {} ELSE files[p])

\* A file is cut off only by the tools that write in place: write_file, which
\* promises never to leave a truncated file, has no part in it.
OnlyInPlaceTears ==
  torn # {} => \E c \in Calls : fcall[c].op \in {"edit", "copy", "move"} /\ fcall[c].at \in {"filling", "copying", "error"}

\* write_file leaves no temporary file behind, whatever fails.
NoTempLeft == \A c \in temps : fcall[c].at = "temp"

FilesHold == TypeOK /\ ReportedIsThere /\ OnlyInPlaceTears /\ NoTempLeft

=============================================================================

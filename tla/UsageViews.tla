------------------------------ MODULE UsageViews ------------------------------
(***************************************************************************)
(* usage.jsonl and what shows it: the recorder appends a line per request, *)
(* the panel polls the file by byte offset and charts the last hours, the  *)
(* dashboard reads the metrics again; both are told when a run completes.  *)
(* A line is two pieces, so that a reader can meet half of it.             *)
(***************************************************************************)
EXTENDS Integers, Sequences, FiniteSets, SequencesExt

CONSTANTS
  Runs,        \* sessions whose runs log and complete
  Hours,       \* buckets of the chart
  MaxLines,    \* bound: requests
  MaxTicks,    \* bound: half hours that pass
  MaxCut       \* bound: times the user empties the file

VARIABLES
  usage,       \* the pieces of the file
  run,         \* per session: idle, half (its line is half written), logged, sent
  recorded,    \* runs with a metrics line
  told,        \* completions the UI has not handled
  panel,       \* the panel: its reader and its entries
  drawing,     \* what the UI thread has read so far in this frame
  dash,        \* the dashboard
  ticks, lines,
  disturbed    \* the file was emptied, or written between the reads of one frame or of a load

usageVars == <<usage, run, recorded, told, panel, drawing, dash, ticks, lines, disturbed>>

Drawn == [pc |-> "none"]
Start(n, at) == [line |-> n, at |-> at, end |-> FALSE]
End(n, at) == [line |-> n, at |-> at, end |-> TRUE]

\* The lines of some pieces that end and parse.
Whole(pieces) ==
  FoldLeftDomain(LAMBDA good, i :
    IF i > 1 /\ pieces[i].end /\ pieces[i - 1] = [pieces[i] EXCEPT !.end = FALSE]
    THEN Append(good, pieces[i]) ELSE good, <<>>, pieces)
\* What follows the last newline.
Rest(pieces) ==
  LET ends == {i \in 1..Len(pieces) : pieces[i].end}
      last == IF ends = {} THEN 0 ELSE CHOOSE i \in ends : \A j \in ends : j <= i IN
  SubSeq(pieces, last + 1, Len(pieces))

(* ---- the runs ---- *)

\* UsageRecorder::record, under its lock.
BeginsLine(s) ==
  /\ run[s] = "idle" /\ \A o \in Runs : run[o] # "half"
  /\ lines < MaxLines /\ lines' = lines + 1
  /\ usage' = Append(usage, Start(lines, ticks))
  /\ run' = [run EXCEPT ![s] = "half"]
  /\ disturbed' = (disturbed \/ drawing # Drawn)
  /\ UNCHANGED <<recorded, told, panel, drawing, dash, ticks>>

EndsLine(s) ==
  /\ run[s] = "half"
  /\ usage' = Append(usage, IF usage = <<>> THEN End(-1, ticks) ELSE End(Last(usage).line, Last(usage).at))
  /\ run' = [run EXCEPT ![s] = "logged"]
  /\ disturbed' = (disturbed \/ drawing # Drawn)
  /\ UNCHANGED <<recorded, told, panel, drawing, dash, ticks, lines>>

\* The turn completes: first the event is sent, then the run's metrics line is written.
SendsComplete(s) ==
  /\ run[s] = "logged"
  /\ told' = told + 1
  /\ run' = [run EXCEPT ![s] = "sent"]
  /\ UNCHANGED <<usage, recorded, panel, drawing, dash, ticks, lines, disturbed>>

RecordsRun(s) ==
  /\ run[s] = "sent"
  /\ recorded' = recorded + 1
  /\ run' = [run EXCEPT ![s] = "idle"]
  /\ UNCHANGED <<usage, told, panel, drawing, dash, ticks, lines, disturbed>>

\* The user empties the log.
EmptiesLog ==
  /\ usage # <<>> /\ MaxCut > 0 /\ ~disturbed
  /\ usage' = <<>> /\ disturbed' = TRUE
  /\ UNCHANGED <<run, recorded, told, panel, drawing, dash, ticks, lines>>

(* ---- the frames of the UI ---- *)

HandlesComplete ==
  /\ told > 0 /\ drawing = Drawn
  /\ told' = told - 1
  /\ panel' = [panel EXCEPT !.dirty = TRUE]
  /\ dash' = [dash EXCEPT !.dirty = TRUE]
  /\ UNCHANGED <<usage, run, recorded, drawing, ticks, lines, disturbed>>

TogglesPanel ==
  /\ drawing = Drawn
  /\ panel' = [panel EXCEPT !.open = ~@]
  /\ UNCHANGED <<usage, run, recorded, told, drawing, dash, ticks, lines, disturbed>>

DrawsDashboard ==
  /\ drawing = Drawn /\ dash.dirty
  /\ dash' = [dirty |-> FALSE, runs |-> recorded]
  /\ UNCHANGED <<usage, run, recorded, told, panel, drawing, ticks, lines, disturbed>>

\* load_all: what was read replaces the state of the reader; the panel has its entries
\* from it, or, when a poll found the file shrunk, adds them.  Half a line read here is
\* skipped, and its other half later.
LoadsAll ==
  /\ drawing' = [pc |-> "load", len |-> 0]
  /\ panel' = [panel EXCEPT !.entries = IF @ = <<>> \/ ~panel.loaded THEN Whole(usage) ELSE @ \o Whole(usage),
                            !.tail = <<>>, !.offset = 0]
  /\ disturbed' = (disturbed \/ Rest(usage) # <<>>)

\* The first read of a frame that is to refresh: all of the file, or only its length.
DrawBegins ==
  /\ drawing = Drawn /\ panel.open /\ (panel.dirty \/ ~panel.loaded)
  /\ \/ ~panel.loaded /\ LoadsAll
     \/ panel.loaded /\ Len(usage) < panel.offset /\ LoadsAll
     \/ /\ panel.loaded /\ Len(usage) = panel.offset
        /\ panel' = [panel EXCEPT !.dirty = FALSE] /\ UNCHANGED <<drawing, disturbed>>
     \/ /\ panel.loaded /\ Len(usage) > panel.offset
        /\ drawing' = [pc |-> "poll", len |-> Len(usage)] /\ UNCHANGED <<panel, disturbed>>
  /\ UNCHANGED <<usage, run, recorded, told, dash, ticks, lines>>

\* The length is asked for after the lines were read.
LoadEnds ==
  /\ drawing.pc = "load"
  /\ panel' = [panel EXCEPT !.offset = Len(usage), !.loaded = TRUE, !.dirty = FALSE]
  /\ drawing' = Drawn
  /\ UNCHANGED <<usage, run, recorded, told, dash, ticks, lines, disturbed>>

\* Wrong: a line that is not complete yet is skipped.
ForgetsVariant(text, entries, len) ==
  [open |-> TRUE, entries |-> entries \o Whole(text), tail |-> <<>>, offset |-> len,
   loaded |-> TRUE, dirty |-> FALSE]
\* What poll makes of the tail it kept and the pieces it read.
Polled(text, entries, len) ==
  [open |-> TRUE, entries |-> entries \o Whole(text), tail |-> Rest(text), offset |-> len,
   loaded |-> TRUE, dirty |-> FALSE]

PollReads ==
  /\ drawing.pc = "poll"
  /\ panel' = Polled(panel.tail \o SubSeq(usage, panel.offset + 1, Len(usage)), panel.entries, drawing.len)
  /\ drawing' = Drawn
  /\ UNCHANGED <<usage, run, recorded, told, dash, ticks, lines, disturbed>>

(* ---- the chart ---- *)

\* The start of the first bucket, in half hours.
WindowStart == 2 * ((ticks \div 2) - (Hours - 1))
\* num_hours drops the fraction, towards zero on either side.
WholeHours(halves) == IF halves >= 0 THEN halves \div 2 ELSE -((-halves) \div 2)
\* bucket_index: the bucket a line is counted in, if the window has it.
Bucket(at) == WholeHours(at - WindowStart)
\* Wrong: the current hour is not part of the window.
ExcludesNowVariant(at) == Bucket(at) \in 0..(Hours - 2)
InWindow(at) == Bucket(at) \in 0..(Hours - 1)

TimePassesHere ==
  /\ ticks < MaxTicks /\ \A s \in Runs : run[s] # "half"
  /\ ticks' = ticks + 1
  /\ UNCHANGED <<usage, run, recorded, told, panel, drawing, dash, lines, disturbed>>

Init ==
  /\ usage = <<>>
  /\ run = [s \in Runs |-> "idle"]
  /\ recorded = 0 /\ told = 0
  /\ panel = [open |-> FALSE, entries |-> <<>>, tail |-> <<>>, offset |-> 0, loaded |-> FALSE, dirty |-> TRUE]
  /\ drawing = Drawn
  /\ dash = [dirty |-> TRUE, runs |-> 0]
  /\ ticks = 0 /\ lines = 0 /\ disturbed = FALSE

Next ==
  \/ \E s \in Runs : BeginsLine(s) \/ EndsLine(s) \/ SendsComplete(s) \/ RecordsRun(s)
  \/ EmptiesLog \/ HandlesComplete \/ TogglesPanel \/ DrawsDashboard
  \/ DrawBegins \/ LoadEnds \/ PollReads \/ TimePassesHere

Spec == Init /\ [][Next]_usageVars

-----------------------------------------------------------------------------
\* When all completions are handled and the panel was drawn since, it has every line of
\* the file, each once and in order, however often it met half of one; unless the file was
\* written between two reads of one frame, emptied, or loaded with half a line.
PanelExact ==
  (/\ ~disturbed /\ told = 0 /\ panel.loaded /\ ~panel.dirty /\ drawing = Drawn
   /\ \A s \in Runs : run[s] \notin {"half", "logged"}) => panel.entries = Whole(usage)

\* Every line of the hours the chart shows is counted, in the bucket of its hour, whenever
\* within the hour it was written and the chart is drawn (bucket_index).
WindowComplete ==
  \A i \in 1..Len(usage) : LET at == usage[i].at IN
    (at >= WindowStart /\ at <= ticks) =>
      InWindow(at) /\ Bucket(at) = (at \div 2) - (WindowStart \div 2)

UsageSound == PanelExact /\ WindowComplete

\* Stated, and not so: "Entries outside the window (too old, or in the future) are ignored"
\* (stats.rs); the hour before the window is counted in its first bucket.
OldIgnored == \A i \in 1..Len(usage) : InWindow(usage[i].at) => usage[i].at >= WindowStart

\* Stated, and not so: "Fleet dashboard (3a): the run's metrics line was recorded"
\* (stream.rs); the line is recorded after the event that refreshes the dashboard.
DashboardCurrent ==
  (told = 0 /\ ~dash.dirty /\ \A s \in Runs : run[s] = "idle") => dash.runs = recorded

=============================================================================

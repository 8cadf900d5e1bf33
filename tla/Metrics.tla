-------------------------------- MODULE Metrics --------------------------------
(***************************************************************************)
(* The metrics log of one agent: lines appended by the runs of all         *)
(* sessions, the daily roll-up at the start of the program that replaces   *)
(* the run lines of old days by one file per day, and the reports computed *)
(* from both.  A report is modelled by the runs it counts: every number of *)
(* a summary is a sum over them.                                           *)
(***************************************************************************)
EXTENDS Integers, Sequences, FiniteSets, FiniteSetsExt, Functions

CONSTANTS
  Writers,        \* sessions whose runs may end at one time
  Retention,      \* metrics_retention_days
  MaxHalves,      \* bound: half days that pass
  MaxLogged,      \* bound: runs
  MaxCuts         \* bound: writes that fail, and crashes

VARIABLES
  log,      \* the lines of the file that end with a newline and parse
  tail,     \* what was written after the last newline: lines one after another
  rolled,   \* day -> the runs rolled up, and those of them that were trimmed; or torn
  marker,   \* the day of the last roll-up, -1 for none
  clock,    \* in half days
  writing,  \* per session: the pieces it still has to write
  job,      \* the roll-up in progress
  kept,     \* lines that were written completely, and not after the roll-up read the file
  logged, cuts

metricsVars == <<log, tail, rolled, marker, clock, writing, job, kept, logged, cuts>>

Newline == [kind |-> "newline"]
Line(kind, n) == [kind |-> kind, run |-> n, at |-> 0]
DayOf(at) == at \div 2
TornDay == [runs |-> {}, trimmed |-> {}, torn |-> TRUE]
NoJob == [pc |-> "idle"]
Cut == cuts < MaxCuts /\ cuts' = cuts + 1

\* read_all: a last line without its newline is read too; what does not parse is skipped.
Parsed == log \cup (IF Len(tail) = 1 THEN {tail[1]} ELSE {})
RunsIn(lines) == {l \in lines : l.kind = "run"}
\* The runs a trim line names, by the id of the run.
TrimmedIn(lines) == {l \in RunsIn(lines) : \E t \in lines : t.kind = "trim" /\ t.run = l.run}

(* ---- appending ---- *)

\* A run ends; it was trimmed before or not.  Each append opens the file, writes the text
\* and then the newline.
RunIsLogged(w) ==
  /\ writing[w] = <<>> /\ logged < MaxLogged
  /\ logged' = logged + 1
  /\ \E trimmed \in BOOLEAN :
       writing' = [writing EXCEPT ![w] =
         (IF trimmed THEN <<Line("trim", logged), Newline>> ELSE <<>>) \o <<Line("run", logged), Newline>>]
  /\ UNCHANGED <<log, tail, rolled, marker, clock, job, kept, cuts>>

\* append: a file that cannot be opened is reported and the line is gone.
Appends(w) ==
  LET piece == Head(writing[w]) IN
  /\ writing[w] # <<>>
  /\ \/ /\ piece.kind # "newline"
        /\ tail' = Append(tail, [piece EXCEPT !.at = clock])
        /\ writing' = [writing EXCEPT ![w] = Tail(@)]
        /\ UNCHANGED <<log, kept, cuts>>
     \/ /\ piece.kind # "newline" /\ Cut
        /\ writing' = [writing EXCEPT ![w] = SubSeq(@, 3, Len(@))]
        /\ UNCHANGED <<log, tail, kept>>
     \/ /\ piece.kind = "newline"
        /\ log' = Parsed /\ kept' = kept \cup (Parsed \ log)
        /\ tail' = <<>>
        /\ writing' = [writing EXCEPT ![w] = Tail(@)]
        /\ UNCHANGED cuts
  /\ UNCHANGED <<rolled, marker, clock, job, logged>>

\* An append takes no half day.
TimePasses ==
  /\ clock < MaxHalves /\ \A w \in Writers : writing[w] = <<>>
  /\ clock' = clock + 1
  /\ UNCHANGED <<log, tail, rolled, marker, writing, job, kept, logged, cuts>>

(* ---- the roll-up at the start ---- *)

Eligible(day, today) == day < today - Retention

\* maybe_daily_rollup: once a day; the lines are read before anything is written.
\* The program that starts may be the successor of one that still writes (restart).
RollUpStarts ==
  LET today == DayOf(clock) IN
  /\ job = NoJob /\ marker # today
  /\ job' = [pc |-> "days", lines |-> Parsed, today |-> today, wrote |-> FALSE,
             todo |-> {DayOf(l.at) : l \in RunsIn(Parsed)} \cap
                      {d \in 0..today : Eligible(d, today) /\ d \notin DOMAIN rolled}]
  /\ UNCHANGED <<log, tail, rolled, marker, clock, writing, kept, logged, cuts>>

RollUp(lines, day) ==
  [runs |-> {l \in RunsIn(lines) : DayOf(l.at) = day},
   trimmed |-> {l \in TrimmedIn(lines) : DayOf(l.at) = day}, torn |-> FALSE]

\* The days are written one by one, the oldest first.  A write that fails leaves no file,
\* or one that is not complete.
DayIsRolledUp ==
  LET day == Min(job.todo)
      With(content) == [d \in DOMAIN rolled \cup {day} |-> IF d = day THEN content ELSE rolled[d]] IN
  /\ job.pc = "days" /\ job.todo # {}
  /\ \/ /\ rolled' = With(RollUp(job.lines, day))
        /\ job' = [job EXCEPT !.todo = @ \ {day}, !.wrote = TRUE]
        /\ UNCHANGED cuts
     \/ /\ Cut
        /\ rolled' \in {rolled, With(TornDay)}
        /\ job' = [job EXCEPT !.todo = @ \ {day}]
  /\ UNCHANGED <<log, tail, marker, clock, writing, kept, logged>>

\* Wrong: whatever is old enough is dropped, rolled up or not.
ByAgeVariant(lines, today) == {l \in lines : ~(l.kind = "run" /\ Eligible(DayOf(l.at), today))}
\* The lines that stay: all but the runs of days that have a file.
Keep(lines, today) ==
  {l \in lines : ~(l.kind = "run" /\ Eligible(DayOf(l.at), today) /\ DayOf(l.at) \in DOMAIN rolled)}

\* Only after a file was written; what was appended since the lines were read is lost.
Prunes ==
  LET stay == Keep(job.lines, job.today) IN
  /\ job.pc = "days" /\ job.todo = {}
  /\ job' = [job EXCEPT !.pc = "mark"]
  /\ \/ /\ job.wrote /\ stay # job.lines
        /\ log' = stay /\ tail' = <<>>
        /\ kept' = job.lines \cup UNION {rolled[d].runs : d \in DOMAIN rolled}
        /\ UNCHANGED cuts
     \/ /\ ~job.wrote \/ stay = job.lines
        /\ UNCHANGED <<log, tail, kept, cuts>>
     \/ /\ job.wrote /\ stay # job.lines /\ Cut
        /\ UNCHANGED <<log, tail, kept>>
  /\ UNCHANGED <<rolled, marker, clock, writing, logged>>

Marks ==
  /\ job.pc = "mark"
  /\ marker' = job.today
  /\ job' = NoJob
  /\ UNCHANGED <<log, tail, rolled, clock, writing, kept, logged, cuts>>

\* The program ends between any two steps.
ProgramStops ==
  /\ Cut
  /\ job' = NoJob
  /\ writing' = [w \in Writers |-> <<>>]
  /\ UNCHANGED <<log, tail, rolled, marker, clock, kept, logged>>

(* ---- reports ---- *)

\* Wrong: the day the log still holds runs of counts both ways.
BoundaryVariant(since, day) ==
  /\ 2 * day >= since
  /\ \A l \in RunsIn(Parsed) : day <= DayOf(l.at)
\* load_rollups_in: the day lies in the window and before every run the log still holds.
Counts(since, day) ==
  /\ 2 * day >= since
  /\ \A l \in RunsIn(Parsed) : day < DayOf(l.at)

\* build_report and summary_between over the lines of the window and the days it counts.
FromLog(since) == {l \in RunsIn(Parsed) : l.at >= since}
CountedDays(since) == {d \in DOMAIN rolled : Counts(since, d)}
FromDays(since) == UNION {rolled[d].runs : d \in CountedDays(since)}
ReportedTrimmed(since) ==
  {l \in TrimmedIn(Parsed) : l.at >= since} \cup UNION {rolled[d].trimmed : d \in CountedDays(since)}

Init ==
  /\ log = {} /\ tail = <<>>
  /\ rolled = [d \in {} |-> TornDay]
  /\ marker = -1
  /\ clock = 0
  /\ writing = [w \in Writers |-> <<>>]
  /\ job = NoJob
  /\ kept = {}
  /\ logged = 0 /\ cuts = 0

Next ==
  \/ \E w \in Writers : RunIsLogged(w) \/ Appends(w)
  \/ TimePasses \/ RollUpStarts \/ DayIsRolledUp \/ Prunes \/ Marks \/ ProgramStops

Spec == Init /\ [][Next]_metricsVars

-----------------------------------------------------------------------------
\* A day's file was torn, or an older day could not be rolled up: reports leave out days
\* until, or for ever.
Gap ==
  \E d \in DOMAIN rolled :
    \/ rolled[d].torn
    \/ \E l \in RunsIn(Parsed) : DayOf(l.at) < d

\* No report counts a run twice, whatever was rolled up, pruned, torn or begun.
NeverTwice == \A since \in 0..MaxHalves : FromLog(since) \cap FromDays(since) = {}

\* A report over everything, or from the start of a day, counts every run whose line was
\* written completely, and knows which of them were trimmed, across
\* roll-ups that were cut short, failed or repeated.
ReportsExact ==
  ~Gap => \A since \in {2 * d : d \in 0..DayOf(MaxHalves)} :
            LET reported == FromLog(since) \cup FromDays(since)
                written == {l \in RunsIn(kept) : l.at >= since} IN
            /\ written \subseteq reported
            /\ {l \in written : l \in TrimmedIn(kept)} \subseteq ReportedTrimmed(since)

MetricsSound == NeverTwice /\ ReportsExact

\* Stated, and not so: "A day is only pruned if its rollup file exists on disk, so a failed
\* write never loses data" (log.rs).
FailedWriteLosesNothing == RunsIn(kept) \subseteq FromLog(0) \cup FromDays(0)

=============================================================================

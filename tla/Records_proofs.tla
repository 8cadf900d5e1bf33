---------------------------- MODULE Records_proofs ----------------------------
(***************************************************************************)
(* Theorems about what the agents keep. Whatever is appended, rolled up,   *)
(* pruned, torn and cut off, a report counts every run once (Metrics).     *)
(* Whatever the tool, the dialog and the panel write, no prompt is lost    *)
(* (Profiles); whatever threads overlap, each lesson gets its check        *)
(* (Improvement); and a suggestion waits until it is decided on            *)
(* (ReviewQueue). Whatever the tools, the panel, the maintenance and the   *)
(* skills' saves do at once, what was learnt is held (Memory, Skills,      *)
(* Evals), and a trim leaves no stale read unmarked (Trimming). Each part  *)
(* has an invariant of its own.                                            *)
(***************************************************************************)
EXTENDS MC_Records, SequenceTheorems, FiniteSetTheorems, WellFoundedInduction, TLAPS

-----------------------------------------------------------------------------
(* Lines, days and what a session has yet to write.                        *)

LineType == [kind : {"run", "trim"}, run : Nat, at : Nat]
DayFile == [runs : SUBSET LineType, trimmed : SUBSET LineType, torn : BOOLEAN]
RollUpType ==
  [pc : {"days", "mark"}, lines : SUBSET LineType, today : Nat, wrote : BOOLEAN,
   todo : SUBSET Nat]

RunLeft(n) == <<Log!Line("run", n), Log!Newline>>
EndAndRunLeft(n) == <<Log!Newline, Log!Line("run", n), Log!Newline>>
AllLeft(n) == <<Log!Line("trim", n), Log!Newline, Log!Line("run", n), Log!Newline>>
\* The line of run n has yet to be written, by the session w.
Leaves(s, n) == s \in {RunLeft(n), EndAndRunLeft(n), AllLeft(n)}
Owes(w, n) == Leaves(writing[w], n)

IsRun(l) == l.kind = "run"
IsTrim(l) == l.kind = "trim"
Day(l) == Log!DayOf(l.at)
Today == Log!DayOf(clock)
Parsed == Log!Parsed

LogTypeOK ==
  /\ log \in SUBSET LineType /\ kept \in SUBSET LineType
  /\ tail \in Seq(LineType)
  /\ DOMAIN rolled \subseteq Nat /\ rolled \in [DOMAIN rolled -> DayFile]
  /\ clock \in Nat /\ logged \in Nat
  /\ job \in RollUpType \cup {Log!NoJob}
  /\ DOMAIN writing = Writers
  /\ \A w \in Writers : writing[w] \in {<<>>, <<Log!Newline>>} \/ \E n \in 0..logged-1 : Owes(w, n)

\* The lines the roll-up has read and works on.
Read == IF job.pc = "days" THEN job.lines ELSE {}
\* Every line there is, but for those that only were.
Seen == log \cup {tail[i] : i \in DOMAIN tail} \cup Read \cup UNION {rolled[d].runs : d \in DOMAIN rolled}

\* Two sessions do not end one run, and a trim is written before its run is anywhere.
Numbered ==
  /\ \A l \in Seen : l.run < logged
  /\ \A w, v \in Writers : \A n \in 0..logged-1 : Owes(w, n) /\ Owes(v, n) => w = v
  /\ \A w \in Writers : \A n \in 0..logged-1 :
       writing[w] = AllLeft(n) => \A l \in Seen : IsRun(l) => l.run # n

\* A day's file has runs of the day, and the day is long over.
FiledByDay ==
  \A d \in DOMAIN rolled :
    /\ Log!Eligible(d, Today)
    /\ \A l \in rolled[d].runs : IsRun(l) /\ Day(l) = d
JobBehind ==
  /\ job # Log!NoJob => job.today <= Today
  /\ job.pc = "days" =>
       /\ \A d \in DOMAIN rolled \cup job.todo : Log!Eligible(d, job.today)
       /\ job.todo \cap DOMAIN rolled = {}

\* The run is in the file of its day, or would be if that were whole.
Filed(l) ==
  Day(l) \in DOMAIN rolled /\ (rolled[Day(l)].torn \/ l \in rolled[Day(l)].runs)
\* A run that was written is in the log or in its day, in both only while it is pruned
\* from the log, and nothing of a day is pruned before all of it is in the day's file.
RunsStay ==
  /\ \A l \in kept : IsRun(l) => l \in log \/ Filed(l)
  /\ \A l \in Parsed \cup Read : IsRun(l) /\ Day(l) \in DOMAIN rolled => Filed(l)
  /\ job.pc = "days" => \A l \in Parsed : IsRun(l) /\ Day(l) < job.today => l \in job.lines
  /\ \A l \in Parsed, k \in kept :
       IsRun(l) /\ IsRun(k) /\ Day(l) \in DOMAIN rolled /\ Day(k) = Day(l) => k \in log

\* A trim stays in the log, and a day's file knows of it.
TrimsStay ==
  /\ \A t \in kept : IsTrim(t) => t \in log
  /\ \A t \in Parsed \cup Read : IsTrim(t) =>
       \A d \in DOMAIN rolled : \A l \in rolled[d].runs : l.run = t.run => l \in rolled[d].trimmed
  /\ job.pc = "days" => \A t \in Parsed, l \in job.lines :
       IsTrim(t) /\ IsRun(l) /\ l.run = t.run => t \in job.lines

LogInv == LogTypeOK /\ Numbered /\ FiledByDay /\ JobBehind /\ RunsStay /\ TrimsStay

LEMMA DayIs ==
  ASSUME NEW at \in Nat
  PROVE  /\ Log!DayOf(at) \in Nat
         /\ 2 * Log!DayOf(at) <= at /\ at < 2 * Log!DayOf(at) + 2
BY DEF Log!DayOf

LEMMA DaysFollow ==
  ASSUME NEW at \in Nat, NEW later \in Nat, at <= later
  PROVE  Log!DayOf(at) <= Log!DayOf(later)
BY DayIs

LEMMA LinesAre ==
  ASSUME NEW n
  PROVE  /\ Log!Line("run", n).kind = "run" /\ Log!Line("trim", n).kind = "trim"
         /\ Log!Newline.kind = "newline"
         /\ \A at : /\ [Log!Line("run", n) EXCEPT !.at = at] = [kind |-> "run", run |-> n, at |-> at]
                    /\ [Log!Line("trim", n) EXCEPT !.at = at] = [kind |-> "trim", run |-> n, at |-> at]
BY DEF Log!Line, Log!Newline

\* What is left after a piece, and after a line that could not be written.
LEMMA AfterPiece ==
  ASSUME NEW n
  PROVE  /\ RunLeft(n) # <<>> /\ EndAndRunLeft(n) # <<>> /\ AllLeft(n) # <<>> /\ <<Log!Newline>> # <<>>
         /\ Head(RunLeft(n)) = Log!Line("run", n) /\ Tail(RunLeft(n)) = <<Log!Newline>>
         /\ Head(EndAndRunLeft(n)) = Log!Newline /\ Tail(EndAndRunLeft(n)) = RunLeft(n)
         /\ Head(AllLeft(n)) = Log!Line("trim", n) /\ Tail(AllLeft(n)) = EndAndRunLeft(n)
         /\ Head(<<Log!Newline>>) = Log!Newline /\ Tail(<<Log!Newline>>) = <<>>
<1>1. Head(RunLeft(n)) = Log!Line("run", n) /\ Tail(RunLeft(n)) = <<Log!Newline>>
  BY DEF RunLeft
<1>2. Head(EndAndRunLeft(n)) = Log!Newline /\ Tail(EndAndRunLeft(n)) = RunLeft(n)
  BY DEF RunLeft, EndAndRunLeft
<1>3. Head(AllLeft(n)) = Log!Line("trim", n) /\ Tail(AllLeft(n)) = EndAndRunLeft(n)
  BY DEF EndAndRunLeft, AllLeft
<1>4. Head(<<Log!Newline>>) = Log!Newline /\ Tail(<<Log!Newline>>) = <<>>
  OBVIOUS
<1>5. RunLeft(n) # <<>> /\ EndAndRunLeft(n) # <<>> /\ AllLeft(n) # <<>> /\ <<Log!Newline>> # <<>>
  BY DEF RunLeft, EndAndRunLeft, AllLeft
<1> QED
  BY <1>1, <1>2, <1>3, <1>4, <1>5

LEMMA AfterFailure ==
  ASSUME NEW n
  PROVE  /\ SubSeq(RunLeft(n), 3, Len(RunLeft(n))) = <<>>
         /\ SubSeq(AllLeft(n), 3, Len(AllLeft(n))) = RunLeft(n)
<1> DEFINE A == {Log!Line("trim", n), Log!Line("run", n), Log!Newline}
<1>1. RunLeft(n) \in Seq(A) /\ Len(RunLeft(n)) = 2
  BY DEF RunLeft
<1>2. AllLeft(n) \in Seq(A) /\ Len(AllLeft(n)) = 4 /\ AllLeft(n) # <<>>
  BY DEF AllLeft
<1>3. SubSeq(RunLeft(n), 3, 2) = <<>>
  BY <1>1, SubSeqEmpty
<1>4. Tail(AllLeft(n)) = SubSeq(AllLeft(n), 2, 4)
  BY <1>2, TailIsSubSeq, Zenon
<1>5. Tail(SubSeq(AllLeft(n), 2, 4)) = SubSeq(AllLeft(n), 3, 4)
  BY <1>2, HeadTailOfSubSeq
<1> QED
  BY <1>1, <1>2, <1>3, <1>4, <1>5, AfterPiece, Zenon

LEMMA OneRunLeft ==
  ASSUME NEW s, NEW n, NEW m
  PROVE  /\ Leaves(s, n) /\ Leaves(s, m) => n = m
         /\ ~Leaves(<<>>, n) /\ ~Leaves(<<Log!Newline>>, n)
<1>1. Len(RunLeft(n)) = 2 /\ Len(EndAndRunLeft(n)) = 3 /\ Len(AllLeft(n)) = 4
  BY DEF RunLeft, EndAndRunLeft, AllLeft
<1>2. Len(RunLeft(m)) = 2 /\ Len(EndAndRunLeft(m)) = 3 /\ Len(AllLeft(m)) = 4
  BY DEF RunLeft, EndAndRunLeft, AllLeft
<1>3. RunLeft(n)[1].run = n /\ EndAndRunLeft(n)[2].run = n /\ AllLeft(n)[1].run = n
  BY DEF RunLeft, EndAndRunLeft, AllLeft, Log!Line
<1>4. RunLeft(m)[1].run = m /\ EndAndRunLeft(m)[2].run = m /\ AllLeft(m)[1].run = m
  BY DEF RunLeft, EndAndRunLeft, AllLeft, Log!Line
<1>5. Len(<<>>) = 0 /\ Len(<<Log!Newline>>) = 1
  OBVIOUS
<1>6. Leaves(s, n) /\ Leaves(s, m) => n = m
  BY <1>1, <1>2, <1>3, <1>4 DEF Leaves
<1>7. ~Leaves(<<>>, n)
  BY <1>1, <1>5 DEF Leaves
<1>8. ~Leaves(<<Log!Newline>>, n)
  BY <1>1, <1>5 DEF Leaves
<1> QED
  BY <1>6, <1>7, <1>8

LEMMA LinesHave ==
  ASSUME LogTypeOK
  PROVE  /\ Parsed \in SUBSET LineType /\ Read \in SUBSET LineType /\ log \subseteq Parsed
         /\ Parsed \subseteq Seen /\ Read \subseteq Seen
         /\ Parsed \subseteq log \cup {tail[i] : i \in DOMAIN tail}
         /\ \A i \in DOMAIN tail : tail[i] \in LineType
         /\ \A d \in DOMAIN rolled : rolled[d].runs \in SUBSET LineType
         /\ job.pc = "days" => job \in RollUpType /\ Read = job.lines
<1>1. \A i \in DOMAIN tail : tail[i] \in LineType
  BY DEF LogTypeOK
<1>2. Parsed \subseteq log \cup {tail[i] : i \in DOMAIN tail} /\ log \subseteq Parsed
  BY DEF Parsed, Log!Parsed, LogTypeOK
<1>3. job.pc = "days" => job \in RollUpType /\ Read = job.lines
  BY DEF LogTypeOK, Log!NoJob, Read
<1>4. Read \in SUBSET LineType
  BY <1>3 DEF Read, RollUpType
<1>5. \A d \in DOMAIN rolled : rolled[d].runs \in SUBSET LineType
  BY DEF LogTypeOK, DayFile
<1>6. Parsed \in SUBSET LineType
  BY <1>1, <1>2 DEF LogTypeOK
<1>7. Parsed \subseteq Seen /\ Read \subseteq Seen
  BY <1>2 DEF Seen
<1> QED
  BY <1>1, <1>2, <1>3, <1>4, <1>5, <1>6, <1>7

\* A line that is written now is of no day that is rolled up.
LEMMA TodayIsOpen ==
  ASSUME LogTypeOK, FiledByDay
  PROVE  Today \notin DOMAIN rolled
<1>1. Today \in Nat /\ Retention \in Nat
  BY DayIs, BoundAssumption DEF LogTypeOK, Today
<1>2. ~Log!Eligible(Today, Today)
  BY <1>1 DEF Log!Eligible
<1> QED
  BY <1>2 DEF FiledByDay

\* A session writes a piece, or gives up a line: it owes what it owed, or less.
LEMMA FewerLeft ==
  ASSUME LogTypeOK, NEW w \in Writers, NEW s, writing' = [writing EXCEPT ![w] = s], logged' = logged,
         \/ s \in {<<>>, <<Log!Newline>>}
         \/ \E n \in 0..logged-1 : Leaves(s, n) /\ Owes(w, n) /\ s # AllLeft(n)
  PROVE  /\ DOMAIN writing' = Writers
         /\ \A v \in Writers : \/ writing'[v] \in {<<>>, <<Log!Newline>>}
                               \/ \E n \in 0..logged'-1 : Leaves(writing'[v], n)
         /\ \A v \in Writers : \A n \in 0..logged-1 : Leaves(writing'[v], n) => Owes(v, n)
         /\ \A v \in Writers : \A n \in 0..logged-1 :
              writing'[v] = AllLeft(n) => v # w /\ writing[v] = AllLeft(n)
<1>1. DOMAIN writing' = Writers /\ writing'[w] = s /\ \A v \in Writers : v # w => writing'[v] = writing[v]
  BY DEF LogTypeOK
<1>2. \A v \in Writers : \/ writing'[v] \in {<<>>, <<Log!Newline>>}
                         \/ \E n \in 0..logged'-1 : Leaves(writing'[v], n)
  <2> TAKE v \in Writers
  <2>1. CASE v = w
    BY <1>1, <2>1
  <2>2. CASE v # w
    BY <1>1, <2>2 DEF LogTypeOK, Owes
  <2> QED
    BY <2>1, <2>2
<1>3. ASSUME NEW v \in Writers, NEW n \in 0..logged-1, Leaves(writing'[v], n) PROVE Owes(v, n)
  <2>1. CASE v # w
    BY <1>1, <1>3, <2>1 DEF Owes
  <2>2. CASE v = w
    <3>1. Leaves(s, n)
      BY <1>1, <1>3, <2>2
    <3>2. PICK m \in 0..logged-1 : Leaves(s, m) /\ Owes(w, m)
      BY <3>1, OneRunLeft
    <3>3. n = m
      BY <3>1, <3>2, OneRunLeft
    <3> QED
      BY <2>2, <3>2, <3>3
  <2> QED
    BY <2>1, <2>2
<1>4. ASSUME NEW v \in Writers, NEW n \in 0..logged-1, writing'[v] = AllLeft(n)
      PROVE  v # w /\ writing[v] = AllLeft(n)
  <2>1. Leaves(writing'[v], n)
    BY <1>4 DEF Leaves
  <2>2. CASE v # w
    BY <1>1, <1>4, <2>2
  <2>3. CASE v = w
    <3>1. Leaves(s, n) /\ s = AllLeft(n)
      BY <1>1, <1>4, <2>1, <2>3
    <3>2. PICK m \in 0..logged-1 : Leaves(s, m) /\ s # AllLeft(m)
      BY <3>1, OneRunLeft
    <3>3. n = m
      BY <3>1, <3>2, OneRunLeft
    <3> QED
      BY <3>1, <3>2, <3>3
  <2> QED
    BY <2>2, <2>3
<1> QED
  BY <1>1, <1>2, <1>3, <1>4

(* Appending.                                                              *)

\* What a run or a trim writes.
LEMMA PieceIs ==
  ASSUME LogInv, NEW w \in Writers, writing[w] # <<>>, Head(writing[w]).kind # "newline"
  PROVE  \E n \in 0..logged-1 :
           LET new == [Head(writing[w]) EXCEPT !.at = clock]
               s == Tail(writing[w])
               t == SubSeq(writing[w], 3, Len(writing[w])) IN
           /\ Owes(w, n) /\ new \in LineType /\ new.run = n /\ new.at = clock
           /\ IsTrim(new) => writing[w] = AllLeft(n)
           /\ s \in {<<>>, <<Log!Newline>>} \/ (Leaves(s, n) /\ s # AllLeft(n))
           /\ t \in {<<>>, <<Log!Newline>>} \/ (Leaves(t, n) /\ t # AllLeft(n))
<1>1. PICK n \in 0..logged-1 : Owes(w, n)
  BY AfterPiece, LinesAre, Zenon DEF LogInv, LogTypeOK
<1>2. writing[w] # EndAndRunLeft(n)
  BY AfterPiece, LinesAre
<1>3. n \in Nat /\ clock \in Nat
  BY DEF LogInv, LogTypeOK
<1>4. RunLeft(n) # AllLeft(n) /\ EndAndRunLeft(n) # AllLeft(n)
  BY DEF RunLeft, EndAndRunLeft, AllLeft
<1>5. CASE writing[w] = RunLeft(n)
  <2>1. [Head(writing[w]) EXCEPT !.at = clock] = [kind |-> "run", run |-> n, at |-> clock]
    <3>1. Head(writing[w]) = Log!Line("run", n)
      BY <1>5, AfterPiece
    <3> QED
      BY <3>1 DEF Log!Line
  <2>2. Tail(writing[w]) = <<Log!Newline>> /\ SubSeq(writing[w], 3, Len(writing[w])) = <<>>
    BY <1>5, AfterPiece, AfterFailure
  <2> QED
    BY <1>1, <1>3, <2>1, <2>2 DEF LineType, IsTrim
<1>6. CASE writing[w] = AllLeft(n)
  <2>1. [Head(writing[w]) EXCEPT !.at = clock] = [kind |-> "trim", run |-> n, at |-> clock]
    <3>1. Head(writing[w]) = Log!Line("trim", n)
      BY <1>6, AfterPiece
    <3> QED
      BY <3>1 DEF Log!Line
  <2>2. Tail(writing[w]) = EndAndRunLeft(n) /\ SubSeq(writing[w], 3, Len(writing[w])) = RunLeft(n)
    BY <1>6, AfterPiece, AfterFailure
  <2>3. Leaves(EndAndRunLeft(n), n) /\ Leaves(RunLeft(n), n)
    BY DEF Leaves
  <2> QED
    BY <1>1, <1>3, <1>4, <1>6, <2>1, <2>2, <2>3, Zenon DEF LineType, IsTrim
<1> QED
  BY <1>1, <1>2, <1>5, <1>6, Zenon DEF Owes, Leaves

LEMMA AppendedIs ==
  ASSUME NEW S, NEW u \in Seq(S), NEW x \in S, NEW v, v = Append(u, x)
  PROVE  /\ v \in Seq(S) /\ Len(v) = Len(u) + 1 /\ v[Len(v)] = x
         /\ \A i \in DOMAIN u : v[i] = u[i]
         /\ DOMAIN v = DOMAIN u \cup {Len(v)}
OBVIOUS

LEMMA PieceGoesOut ==
  ASSUME LogInv, NEW w \in Writers, writing[w] # <<>>, Head(writing[w]).kind # "newline",
         tail' = Append(tail, [Head(writing[w]) EXCEPT !.at = clock]),
         writing' = [writing EXCEPT ![w] = Tail(@)],
         UNCHANGED <<log, kept, rolled, clock, job, logged>>
  PROVE  LogInv'
<1> USE DEF LogInv
<1>0. PICK n \in 0..logged-1 : \E new, s :
        /\ new = [Head(writing[w]) EXCEPT !.at = clock] /\ s = Tail(writing[w])
        /\ Owes(w, n) /\ new \in LineType /\ new.run = n /\ new.at = clock
        /\ IsTrim(new) => writing[w] = AllLeft(n)
        /\ s \in {<<>>, <<Log!Newline>>} \/ (Leaves(s, n) /\ s # AllLeft(n))
  BY PieceIs, Zenon
<1>1. PICK new, s :
        /\ new = [Head(writing[w]) EXCEPT !.at = clock] /\ s = Tail(writing[w])
        /\ Owes(w, n) /\ new \in LineType /\ new.run = n /\ new.at = clock
        /\ IsTrim(new) => writing[w] = AllLeft(n)
        /\ s \in {<<>>, <<Log!Newline>>} \/ (Leaves(s, n) /\ s # AllLeft(n))
  BY <1>0, Zenon
<1>2. writing' = [writing EXCEPT ![w] = s]
  BY <1>1
<1>3. /\ DOMAIN writing' = Writers
      /\ \A v \in Writers : \/ writing'[v] \in {<<>>, <<Log!Newline>>}
                            \/ \E m \in 0..logged'-1 : Leaves(writing'[v], m)
      /\ \A v \in Writers : \A m \in 0..logged-1 : Leaves(writing'[v], m) => Owes(v, m)
      /\ \A v \in Writers : \A m \in 0..logged-1 :
           writing'[v] = AllLeft(m) => v # w /\ writing[v] = AllLeft(m)
  BY <1>1, <1>2, FewerLeft, Zenon
<1>4. Day(new) = Today /\ Today \notin DOMAIN rolled
  BY <1>1, TodayIsOpen DEF Day, Today
<1>5. /\ tail' \in Seq(LineType) /\ Len(tail') = Len(tail) + 1 /\ tail'[Len(tail')] = new
      /\ {tail'[i] : i \in DOMAIN tail'} = {tail[i] : i \in DOMAIN tail} \cup {new}
  <2>1. PICK u \in Seq(LineType) : u = tail
    BY DEF LogTypeOK
  <2>2. PICK v : v = tail'
    BY Zenon
  <2>3. new \in LineType
    BY <1>1
  <2>4. v = Append(u, new)
    BY <1>1, <2>1, <2>2
  <2>5. /\ v \in Seq(LineType) /\ Len(v) = Len(u) + 1 /\ v[Len(v)] = new
        /\ \A i \in DOMAIN u : v[i] = u[i]
        /\ DOMAIN v = DOMAIN u \cup {Len(v)}
    BY <2>3, <2>4, AppendedIs
  <2>6. {v[i] : i \in DOMAIN v} = {u[i] : i \in DOMAIN u} \cup {new}
    BY <2>5
  <2> QED
    BY <2>1, <2>2, <2>5, <2>6
<1>6. Parsed' \subseteq log \cup {new} /\ Parsed' \subseteq Parsed \cup {new}
  BY <1>5 DEF Parsed, Log!Parsed
<1>7. Read' = Read
  BY DEF Read
<1>8. Seen' = Seen \cup {new}
  <2>1. (UNION {rolled[d].runs : d \in DOMAIN rolled})' = UNION {rolled[d].runs : d \in DOMAIN rolled}
    OBVIOUS
  <2>2. {tail[i] : i \in DOMAIN tail}' = {tail[i] : i \in DOMAIN tail} \cup {new}
    BY <1>5, Zenon
  <2> QED
    BY <1>7, <2>1, <2>2, Zenon DEF Seen
<1>9. LogTypeOK'
  BY <1>3, <1>5, Zenon DEF LogTypeOK, Owes
<1>10. Numbered'
  <2>1. \A l \in Seen' : l.run < logged'
    <3>1. n < logged
      BY DEF LogTypeOK
    <3> QED
      BY <1>1, <1>8, <3>1, Zenon DEF Numbered
  <2>2. \A u, v \in Writers : \A m \in 0..logged'-1 : Owes(u, m)' /\ Owes(v, m)' => u = v
    BY <1>3 DEF Numbered, Owes
  <2>3. ASSUME NEW v \in Writers, NEW m \in 0..logged-1, writing'[v] = AllLeft(m),
               NEW l \in Seen', IsRun(l)
        PROVE  l.run # m
    <3>1. v # w /\ writing[v] = AllLeft(m) /\ Owes(v, m)
      BY <1>3, <2>3 DEF Owes, Leaves
    <3>2. CASE l \in Seen
      BY <2>3, <3>1, <3>2 DEF Numbered
    <3>3. CASE l = new
      BY <1>1, <3>1, <3>3 DEF Numbered
    <3> QED
      BY <1>8, <3>2, <3>3
  <2> QED
    BY <2>1, <2>2, <2>3 DEF Numbered
<1>11. FiledByDay' /\ JobBehind'
  BY DEF FiledByDay, JobBehind, Today
<1>12. RunsStay'
  <2>1. \A l \in kept' : IsRun(l) => l \in log' \/ Filed(l)'
    BY DEF RunsStay, Filed
  <2>2. \A l \in (Parsed \cup Read)' : IsRun(l) /\ Day(l) \in DOMAIN rolled' => Filed(l)'
    BY <1>4, <1>6, <1>7 DEF RunsStay, Filed
  <2>3. job'.pc = "days" => \A l \in Parsed' : IsRun(l) /\ Day(l) < job'.today => l \in job'.lines
    <3>1. job.pc = "days" => job.today <= Today /\ job.today \in Nat
      BY LinesHave DEF JobBehind, Log!NoJob, RollUpType
    <3>2. Today \in Nat
      BY DayIs DEF LogTypeOK, Today
    <3>3. job.pc = "days" => ~(Day(new) < job.today)
      BY <1>4, <3>1, <3>2
    <3> QED
      BY <1>6, <3>3 DEF RunsStay
  <2>4. \A l \in Parsed', k \in kept' :
          IsRun(l) /\ IsRun(k) /\ Day(l) \in DOMAIN rolled' /\ Day(k) = Day(l) => k \in log'
    BY <1>4, <1>6 DEF RunsStay
  <2> QED
    BY <2>1, <2>2, <2>3, <2>4 DEF RunsStay, Day
<1>13. TrimsStay'
  <2>1. \A t \in kept' : IsTrim(t) => t \in log'
    BY DEF TrimsStay
  <2>2. IsTrim(new) => \A l \in Seen : IsRun(l) => l.run # n
    BY <1>1 DEF Numbered
  <2>3. \A d \in DOMAIN rolled : \A l \in rolled[d].runs : IsRun(l) /\ l \in Seen
    BY DEF FiledByDay, Seen
  <2>4. \A t \in (Parsed \cup Read)' : IsTrim(t) =>
          \A d \in DOMAIN rolled' : \A l \in rolled'[d].runs : l.run = t.run => l \in rolled'[d].trimmed
    BY <1>1, <1>6, <1>7, <2>2, <2>3, Zenon DEF TrimsStay
  <2>5. job.pc = "days" => job.lines \subseteq Seen
    BY DEF Seen, Read
  <2>6. job'.pc = "days" => \A t \in Parsed', l \in job'.lines :
          IsTrim(t) /\ IsRun(l) /\ l.run = t.run => t \in job'.lines
    BY <1>1, <1>6, <2>2, <2>5, Zenon DEF TrimsStay
  <2> QED
    BY <2>1, <2>4, <2>6 DEF TrimsStay
<1> QED
  BY <1>9, <1>10, <1>11, <1>12, <1>13

\* No line moves: only what sessions owe, and how many runs there were.
LEMMA LinesRest ==
  ASSUME LogInv, LogTypeOK', Numbered', UNCHANGED <<log, tail, kept, rolled, clock, job>>
  PROVE  LogInv'
<1>1. Parsed' = Parsed /\ Read' = Read
  BY DEF Parsed, Log!Parsed, Read
<1>2. FiledByDay' /\ JobBehind'
  BY DEF LogInv, FiledByDay, JobBehind, Today
<1>3. RunsStay'
  <2>1. \A l : Filed(l)' <=> Filed(l)
    BY DEF Filed, Day
  <2> QED
    BY <1>1, <2>1 DEF LogInv, RunsStay, Day
<1>4. TrimsStay'
  BY <1>1 DEF LogInv, TrimsStay
<1> QED
  BY <1>2, <1>3, <1>4 DEF LogInv

\* A line that cannot be written.
LEMMA LineIsGivenUp ==
  ASSUME LogInv, NEW w \in Writers, writing[w] # <<>>, Head(writing[w]).kind # "newline",
         writing' = [writing EXCEPT ![w] = SubSeq(@, 3, Len(@))],
         UNCHANGED <<log, tail, kept, rolled, clock, job, logged>>
  PROVE  LogInv'
<1>0. PICK n \in 0..logged-1 : \E s :
        /\ s = SubSeq(writing[w], 3, Len(writing[w])) /\ Owes(w, n)
        /\ s \in {<<>>, <<Log!Newline>>} \/ (Leaves(s, n) /\ s # AllLeft(n))
  BY PieceIs, Zenon
<1>1. PICK s :
        /\ s = SubSeq(writing[w], 3, Len(writing[w])) /\ Owes(w, n)
        /\ s \in {<<>>, <<Log!Newline>>} \/ (Leaves(s, n) /\ s # AllLeft(n))
  BY <1>0, Zenon
<1>2. writing' = [writing EXCEPT ![w] = s]
  BY <1>1
<1>3. LogTypeOK
  BY DEF LogInv
<1>4. /\ DOMAIN writing' = Writers
      /\ \A v \in Writers : \/ writing'[v] \in {<<>>, <<Log!Newline>>}
                            \/ \E m \in 0..logged'-1 : Leaves(writing'[v], m)
      /\ \A v \in Writers : \A m \in 0..logged-1 : Leaves(writing'[v], m) => Owes(v, m)
      /\ \A v \in Writers : \A m \in 0..logged-1 :
           writing'[v] = AllLeft(m) => v # w /\ writing[v] = AllLeft(m)
  BY <1>1, <1>2, <1>3, FewerLeft, Zenon
<1>5. LogTypeOK'
  BY <1>3, <1>4, Zenon DEF LogTypeOK, Owes
<1>6. Numbered'
  <2>1. Seen' = Seen
    BY DEF Seen, Read
  <2> QED
    BY <1>4, <2>1 DEF LogInv, Numbered, Owes
<1> QED
  BY <1>5, <1>6, LinesRest

LEMMA TwoAndTwo ==
  ASSUME NEW a, NEW b, NEW c
  PROVE  <<a, b>> \o <<c, b>> = <<a, b, c, b>>
<1> DEFINE A == {a, b, c}
<1>1. <<a, b>> \in Seq(A) /\ Len(<<a, b>>) = 2 /\ <<a, b>>[1] = a /\ <<a, b>>[2] = b
  OBVIOUS
<1>2. <<c, b>> \in Seq(A) /\ Len(<<c, b>>) = 2 /\ <<c, b>>[1] = c /\ <<c, b>>[2] = b
  OBVIOUS
<1>3. PICK u, v : u = <<a, b>> /\ v = <<c, b>>
  BY Zenon
<1>4. PICK x, y : x = u \o v /\ y = <<a, b, c, b>>
  BY Zenon
<1>5. x \in Seq(A) /\ Len(x) = 4 /\ x[1] = a /\ x[2] = b /\ x[3] = c /\ x[4] = b
  BY <1>1, <1>2, <1>3, <1>4
<1>6. y \in Seq(A) /\ Len(y) = 4 /\ y[1] = a /\ y[2] = b /\ y[3] = c /\ y[4] = b
  BY <1>4
<1>7. \A i \in 1..4 : x[i] = y[i]
  BY <1>5, <1>6
<1>8. x = y
  BY <1>5, <1>6, <1>7, SeqEqual
<1> QED
  BY <1>3, <1>4, <1>8, Zenon

\* A run ends.
LEMMA RunEnds ==
  ASSUME LogInv, NEW w \in Writers, Log!RunIsLogged(w)
  PROVE  LogInv'
<1>1. logged \in Nat /\ logged' = logged + 1 /\ writing[w] = <<>>
  BY DEF Log!RunIsLogged, LogInv, LogTypeOK
<1>2. PICK s \in {RunLeft(logged), AllLeft(logged)} : writing' = [writing EXCEPT ![w] = s]
  <2>1. <<Log!Line("trim", logged), Log!Newline>> \o <<Log!Line("run", logged), Log!Newline>> = AllLeft(logged)
    BY TwoAndTwo DEF AllLeft
  <2>2. <<>> \o <<Log!Line("run", logged), Log!Newline>> = RunLeft(logged)
    BY DEF RunLeft
  <2> QED
    BY <2>1, <2>2, Zenon DEF Log!RunIsLogged
<1>3. UNCHANGED <<log, tail, kept, rolled, clock, job>>
  BY DEF Log!RunIsLogged
<1>4. DOMAIN writing' = Writers /\ writing'[w] = s /\ \A v \in Writers : v # w => writing'[v] = writing[v]
  BY <1>2 DEF LogInv, LogTypeOK
<1>5. Leaves(s, logged)
  BY <1>2 DEF Leaves
<1>6. Seen' = Seen
  BY <1>3 DEF Seen, Read
<1>7. LogTypeOK'
  <2>1. ASSUME NEW v \in Writers
        PROVE  writing'[v] \in {<<>>, <<Log!Newline>>} \/ \E n \in 0..logged'-1 : Leaves(writing'[v], n)
    <3>1. CASE v = w
      BY <1>1, <1>4, <1>5, <3>1
    <3>2. CASE v # w
      <4>1. writing[v] \in {<<>>, <<Log!Newline>>} \/ \E n \in 0..logged-1 : Leaves(writing[v], n)
        BY DEF LogInv, LogTypeOK, Owes
      <4> QED
        BY <1>1, <1>4, <3>2, <4>1
    <3> QED
      BY <3>1, <3>2
  <2> QED
    BY <1>1, <1>3, <1>4, <2>1 DEF LogInv, LogTypeOK, Owes
<1>8. ASSUME NEW v \in Writers, v # w, NEW n \in 0..logged, Leaves(writing'[v], n)
      PROVE  Owes(v, n) /\ n \in 0..logged-1
  <2>1. Leaves(writing[v], n)
    BY <1>4, <1>8
  <2>2. PICK m \in 0..logged-1 : Leaves(writing[v], m)
    BY <2>1, OneRunLeft DEF LogInv, LogTypeOK, Owes
  <2>3. n = m
    BY <2>1, <2>2, OneRunLeft
  <2> QED
    BY <2>1, <2>2, <2>3 DEF Owes
<1>9. ASSUME NEW n, Leaves(writing'[w], n) PROVE n = logged
  BY <1>4, <1>5, <1>9, OneRunLeft
<1>10. Numbered'
  <2>1. \A l \in Seen' : l.run < logged'
    <3>1. \A l \in Seen : l.run < logged
      BY DEF LogInv, Numbered
    <3>2. \A l \in Seen : l.run \in Int
      BY LinesHave DEF Seen, LogInv, LogTypeOK, LineType
    <3> QED
      BY <1>1, <1>6, <3>1, <3>2
  <2>2. ASSUME NEW u \in Writers, NEW v \in Writers, NEW n \in 0..logged, Owes(u, n)', Owes(v, n)'
        PROVE  u = v
    <3>1. CASE u # w /\ v # w
      BY <1>8, <2>2, <3>1 DEF LogInv, Numbered, Owes
    <3>2. CASE u = w /\ v # w
      <4>1. n = logged
        BY <1>9, <2>2, <3>2 DEF Owes
      <4>2. n \in 0..logged-1
        BY <1>8, <2>2, <3>2 DEF Owes
      <4> QED
        BY <1>1, <4>1, <4>2
    <3>3. CASE u # w /\ v = w
      <4>1. n = logged
        BY <1>9, <2>2, <3>3 DEF Owes
      <4>2. n \in 0..logged-1
        BY <1>8, <2>2, <3>3 DEF Owes
      <4> QED
        BY <1>1, <4>1, <4>2
    <3> QED
      BY <3>1, <3>2, <3>3
  <2>3. ASSUME NEW v \in Writers, NEW n \in 0..logged, writing'[v] = AllLeft(n), NEW l \in Seen, IsRun(l)
        PROVE  l.run # n
    <3>1. Leaves(writing'[v], n)
      BY <2>3 DEF Leaves
    <3>2. CASE v = w
      <4>1. n = logged
        BY <1>9, <3>1, <3>2
      <4>2. l.run < logged
        BY DEF LogInv, Numbered
      <4> QED
        BY <1>1, <4>1, <4>2
    <3>3. CASE v # w
      BY <1>4, <1>8, <2>3, <3>1, <3>3 DEF LogInv, Numbered
    <3> QED
      BY <3>2, <3>3
  <2>4. logged' - 1 = logged
    BY <1>1
  <2> QED
    BY <1>6, <2>1, <2>2, <2>3, <2>4 DEF Numbered
<1> QED
  BY <1>3, <1>7, <1>10, LinesRest

\* A newline ends the line before it, if that is one line.
LEMMA LineEnds ==
  ASSUME LogInv, NEW w \in Writers, writing[w] # <<>>, Head(writing[w]).kind = "newline",
         log' = Parsed, kept' = kept \cup (Parsed \ log), tail' = <<>>,
         writing' = [writing EXCEPT ![w] = Tail(@)],
         UNCHANGED <<rolled, clock, job, logged>>
  PROVE  LogInv'
<1> USE DEF LogInv
<1>1. PICK s : s = Tail(writing[w])
  BY Zenon
<1>2. \/ s \in {<<>>, <<Log!Newline>>}
      \/ \E n \in 0..logged-1 : Leaves(s, n) /\ Owes(w, n) /\ s # AllLeft(n)
  <2>1. CASE writing[w] = <<Log!Newline>>
    BY <1>1, <2>1, AfterPiece
  <2>2. CASE \E n \in 0..logged-1 : Owes(w, n)
    <3>1. PICK n \in 0..logged-1 : Owes(w, n)
      BY <2>2
    <3>2. writing[w] = EndAndRunLeft(n)
      BY <3>1, AfterPiece, LinesAre DEF Owes, Leaves
    <3>3. s = RunLeft(n)
      BY <1>1, <3>2, AfterPiece
    <3>4. RunLeft(n) # AllLeft(n)
      BY DEF RunLeft, AllLeft
    <3> QED
      BY <3>1, <3>3, <3>4 DEF Leaves
  <2> QED
    BY <2>1, <2>2 DEF LogTypeOK
<1>3. writing' = [writing EXCEPT ![w] = s]
  BY <1>1
<1>4. /\ DOMAIN writing' = Writers
      /\ \A v \in Writers : \/ writing'[v] \in {<<>>, <<Log!Newline>>}
                            \/ \E m \in 0..logged'-1 : Leaves(writing'[v], m)
      /\ \A v \in Writers : \A m \in 0..logged-1 : Leaves(writing'[v], m) => Owes(v, m)
      /\ \A v \in Writers : \A m \in 0..logged-1 :
           writing'[v] = AllLeft(m) => v # w /\ writing[v] = AllLeft(m)
  BY <1>2, <1>3, FewerLeft, Zenon
<1>5. Parsed' = Parsed /\ log \subseteq Parsed /\ Parsed \in SUBSET LineType
  BY LinesHave DEF Parsed, Log!Parsed
<1>6. Read' = Read
  BY DEF Read
<1>7. Seen' \subseteq Seen
  <2>1. (UNION {rolled[d].runs : d \in DOMAIN rolled})' = UNION {rolled[d].runs : d \in DOMAIN rolled}
    OBVIOUS
  <2>2. {tail[i] : i \in DOMAIN tail}' = {}
    OBVIOUS
  <2> QED
    BY <1>6, <2>1, <2>2, LinesHave DEF Seen
<1>8. LogTypeOK'
  BY <1>4, <1>5 DEF LogTypeOK, Owes
<1>9. Numbered'
  BY <1>4, <1>7 DEF Numbered, Owes
<1>10. FiledByDay' /\ JobBehind'
  BY DEF FiledByDay, JobBehind, Today
<1>11. RunsStay'
  <2>1. \A l : Filed(l)' <=> Filed(l)
    BY DEF Filed, Day
  <2>2. \A l \in kept' : IsRun(l) => l \in log' \/ Filed(l)'
    BY <1>5, <2>1 DEF RunsStay
  <2>3. \A l \in (Parsed \cup Read)' : IsRun(l) /\ Day(l) \in DOMAIN rolled' => Filed(l)'
    BY <1>5, <1>6, <2>1 DEF RunsStay
  <2>4. job'.pc = "days" => \A l \in Parsed' : IsRun(l) /\ Day(l) < job'.today => l \in job'.lines
    BY <1>5 DEF RunsStay
  <2>5. \A l \in Parsed', k \in kept' :
          IsRun(l) /\ IsRun(k) /\ Day(l) \in DOMAIN rolled' /\ Day(k) = Day(l) => k \in log'
    BY <1>5 DEF RunsStay
  <2> QED
    BY <2>2, <2>3, <2>4, <2>5 DEF RunsStay, Day
<1>12. TrimsStay'
  BY <1>5, <1>6 DEF TrimsStay
<1> QED
  BY <1>8, <1>9, <1>10, <1>11, <1>12

LEMMA TimeGoesOn ==
  ASSUME LogInv, Log!TimePasses
  PROVE  LogInv'
<1> USE DEF LogInv
<1>1. UNCHANGED <<log, tail, rolled, writing, job, kept, logged>> /\ clock \in Nat /\ clock' = clock + 1
  BY DEF Log!TimePasses, LogTypeOK
<1>2. Today \in Nat /\ Today' \in Nat /\ Today <= Today'
  BY <1>1, DayIs, DaysFollow DEF Today
<1>3. Parsed' = Parsed /\ Read' = Read /\ Seen' = Seen
  BY <1>1 DEF Parsed, Log!Parsed, Read, Seen
<1>4. LogTypeOK'
  BY <1>1 DEF LogTypeOK, Owes
<1>5. Numbered'
  BY <1>1, <1>3 DEF Numbered, Owes
<1>6. FiledByDay'
  <2>1. ASSUME NEW d \in DOMAIN rolled PROVE Log!Eligible(d, Today')
    <3>1. d \in Nat /\ Retention \in Nat /\ d < Today - Retention
      BY BoundAssumption DEF FiledByDay, Log!Eligible, LogTypeOK
    <3> QED
      BY <1>2, <3>1 DEF Log!Eligible
  <2> QED
    BY <1>1, <2>1 DEF FiledByDay, Day
<1>7. JobBehind'
  <2>1. job # Log!NoJob => job.today \in Nat /\ job.today <= Today
    BY DEF LogTypeOK, RollUpType, JobBehind
  <2> QED
    BY <1>1, <1>2, <2>1 DEF JobBehind
<1>8. RunsStay'
  <2>1. \A l : Filed(l)' <=> Filed(l)
    BY <1>1 DEF Filed, Day
  <2> QED
    BY <1>1, <1>3, <2>1 DEF RunsStay, Day
<1>9. TrimsStay'
  BY <1>1, <1>3 DEF TrimsStay
<1> QED
  BY <1>4, <1>5, <1>6, <1>7, <1>8, <1>9

(* The roll-up.                                                            *)

LEMMA RollUpBegins ==
  ASSUME LogInv, Log!RollUpStarts
  PROVE  LogInv'
<1> USE DEF LogInv
<1>1. /\ UNCHANGED <<log, tail, rolled, clock, writing, kept, logged>> /\ job = Log!NoJob
      /\ job'.pc = "days" /\ job'.lines = Parsed /\ job'.today = Today /\ job' # Log!NoJob
      /\ job'.wrote = FALSE
      /\ \A d \in job'.todo : d \in Nat /\ Log!Eligible(d, Today) /\ d \notin DOMAIN rolled
  BY DEF Log!RollUpStarts, Today, Parsed, Log!NoJob
<1>2. Today \in Nat
  BY DayIs DEF LogTypeOK, Today
<1>3. job' \in RollUpType
  <2>1. DOMAIN job' = {"pc", "lines", "today", "wrote", "todo"}
    BY DEF Log!RollUpStarts
  <2>2. job' = [pc |-> job'.pc, lines |-> job'.lines, today |-> job'.today, wrote |-> job'.wrote, todo |-> job'.todo]
    BY <2>1 DEF Log!RollUpStarts
  <2> QED
    BY <1>1, <1>2, <2>2, LinesHave, Zenon DEF RollUpType
<1>4. Read = {} /\ Parsed' = Parsed /\ Read' = Parsed
  BY <1>1 DEF Parsed, Log!Parsed, Read, Log!NoJob
<1>5. Seen' = Seen
  <2>1. (UNION {rolled[d].runs : d \in DOMAIN rolled})' = UNION {rolled[d].runs : d \in DOMAIN rolled}
    BY <1>1
  <2>2. {tail[i] : i \in DOMAIN tail}' = {tail[i] : i \in DOMAIN tail}
    BY <1>1
  <2>3. Parsed \subseteq log \cup {tail[i] : i \in DOMAIN tail}
    BY LinesHave
  <2> QED
    BY <1>1, <1>4, <2>1, <2>2, <2>3 DEF Seen
<1>6. LogTypeOK'
  BY <1>1, <1>3 DEF LogTypeOK, Owes
<1>7. Numbered'
  BY <1>1, <1>5 DEF Numbered, Owes
<1>8. FiledByDay'
  BY <1>1 DEF FiledByDay, Today, Day
<1>9. JobBehind'
  <2>1. Today' = Today
    BY <1>1 DEF Today
  <2>2. job'.today <= Today'
    BY <1>1, <1>2, <2>1
  <2>3. \A d \in (DOMAIN rolled \cup job.todo)' : Log!Eligible(d, job'.today)
    BY <1>1 DEF FiledByDay
  <2>4. (job.todo \cap DOMAIN rolled)' = {}
    BY <1>1
  <2> QED
    BY <2>2, <2>3, <2>4 DEF JobBehind
<1>10. RunsStay'
  <2>1. \A l : Filed(l)' <=> Filed(l)
    BY <1>1 DEF Filed, Day
  <2> QED
    BY <1>1, <1>4, <2>1 DEF RunsStay, Day
<1>11. TrimsStay'
  BY <1>1, <1>4 DEF TrimsStay
<1> QED
  BY <1>6, <1>7, <1>8, <1>9, <1>10, <1>11

\* What is put into a day's file: the runs of the day that the job has read, and which of
\* them were trimmed; or a part of it.
LEMMA ContentIs ==
  ASSUME NEW lines \in SUBSET LineType, NEW day, NEW content,
         content = Log!RollUp(lines, day) \/ content = Log!TornDay
  PROVE  /\ content \in DayFile
         /\ \A l \in content.runs : l \in lines /\ IsRun(l) /\ Day(l) = day
         /\ content.torn \/ \A l \in lines : IsRun(l) /\ Day(l) = day => l \in content.runs
         /\ \A l \in content.runs, t \in lines : IsTrim(t) /\ l.run = t.run => l \in content.trimmed
<1>1. CASE content = Log!TornDay
  BY <1>1 DEF Log!TornDay, DayFile
<1>2. CASE content = Log!RollUp(lines, day)
  <2>1. content = [runs |-> {l \in lines : IsRun(l) /\ Day(l) = day},
                   trimmed |-> {l \in lines : /\ IsRun(l) /\ Day(l) = day
                                              /\ \E t \in lines : IsTrim(t) /\ t.run = l.run},
                   torn |-> FALSE]
    BY <1>2, Zenon DEF Log!RollUp, Log!RunsIn, Log!TrimmedIn, IsRun, IsTrim, Day
  <2>2. content \in DayFile
    BY <2>1 DEF DayFile
  <2> QED
    BY <2>1, <2>2
<1> QED
  BY <1>1, <1>2

LEMMA DayIsFiled ==
  ASSUME LogInv, job.pc = "days", NEW day \in job.todo,
         NEW content \in {Log!RollUp(job.lines, day), Log!TornDay},
         rolled' = [d \in DOMAIN rolled \cup {day} |-> IF d = day THEN content ELSE rolled[d]],
         job' \in RollUpType, job'.pc = "days", job'.lines = job.lines, job'.today = job.today,
         job'.todo = job.todo \ {day},
         UNCHANGED <<log, tail, kept, clock, logged, writing>>
  PROVE  LogInv'
<1> USE DEF LogInv
<1>1. job \in RollUpType /\ Read = job.lines /\ job.lines \in SUBSET LineType
  BY LinesHave DEF RollUpType
<1>2. /\ content \in DayFile
      /\ \A l \in content.runs : l \in job.lines /\ IsRun(l) /\ Day(l) = day
      /\ content.torn \/ \A l \in job.lines : IsRun(l) /\ Day(l) = day => l \in content.runs
      /\ \A l \in content.runs, t \in job.lines : IsTrim(t) /\ l.run = t.run => l \in content.trimmed
  <2>1. PICK lines \in SUBSET LineType : lines = job.lines
    BY <1>1
  <2>2. content = Log!RollUp(lines, day) \/ content = Log!TornDay
    BY <2>1
  <2>3. /\ content \in DayFile
        /\ \A l \in content.runs : l \in lines /\ IsRun(l) /\ Day(l) = day
        /\ content.torn \/ \A l \in lines : IsRun(l) /\ Day(l) = day => l \in content.runs
        /\ \A l \in content.runs, t \in lines : IsTrim(t) /\ l.run = t.run => l \in content.trimmed
    BY <2>2, ContentIs, Zenon
  <2> QED
    BY <2>1, <2>3
<1>3. day \notin DOMAIN rolled /\ day \in Nat /\ Log!Eligible(day, job.today)
  BY <1>1 DEF JobBehind, RollUpType
<1>4. job.today \in Nat /\ Today \in Nat /\ job.today <= Today /\ Retention \in Nat
  BY <1>1, DayIs, BoundAssumption DEF JobBehind, RollUpType, Log!NoJob, LogTypeOK, Today
<1>5. day < job.today /\ Log!Eligible(day, Today)
  BY <1>3, <1>4 DEF Log!Eligible
<1>6. /\ DOMAIN rolled' = DOMAIN rolled \cup {day} /\ rolled'[day] = content
      /\ \A d \in DOMAIN rolled : rolled'[d] = rolled[d]
  BY <1>3
<1>7. Parsed' = Parsed /\ Read' = job.lines
  BY DEF Parsed, Log!Parsed, Read
<1>8. Seen' \subseteq Seen
  <2>1. {tail[i] : i \in DOMAIN tail}' = {tail[i] : i \in DOMAIN tail}
    OBVIOUS
  <2>2. (UNION {rolled[d].runs : d \in DOMAIN rolled})' \subseteq
          job.lines \cup UNION {rolled[d].runs : d \in DOMAIN rolled}
    BY <1>2, <1>6, Zenon
  <2> QED
    BY <1>1, <1>7, <2>1, <2>2, Zenon DEF Seen
<1>9. LogTypeOK'
  <2>1. rolled' \in [DOMAIN rolled' -> DayFile] /\ DOMAIN rolled' \subseteq Nat
    BY <1>2, <1>3, <1>6 DEF LogTypeOK
  <2> QED
    BY <2>1, Zenon DEF LogTypeOK, Owes
<1>10. Numbered'
  BY <1>8 DEF Numbered, Owes
<1>11. FiledByDay'
  <2>1. Today' = Today
    BY DEF Today
  <2> QED
    BY <1>2, <1>5, <1>6, <2>1 DEF FiledByDay, Day
<1>12. JobBehind'
  <2>1. Today' = Today
    BY DEF Today
  <2>2. job'.today <= Today'
    BY <1>4, <2>1
  <2>3. \A d \in (DOMAIN rolled \cup job.todo)' : Log!Eligible(d, job'.today)
    BY <1>3, <1>6 DEF JobBehind
  <2>4. (job.todo \cap DOMAIN rolled)' = {}
    BY <1>6 DEF JobBehind
  <2> QED
    BY <2>2, <2>3, <2>4 DEF JobBehind
<1>13. RunsStay'
  <2>1. ASSUME NEW l, Filed(l) PROVE Filed(l)'
    BY <1>6, <2>1 DEF Filed, Day
  <2>2. \A l \in kept' : IsRun(l) => l \in log' \/ Filed(l)'
    BY <2>1 DEF RunsStay
  <2>3. ASSUME NEW l \in Parsed \cup job.lines, IsRun(l), Day(l) \in DOMAIN rolled' PROVE Filed(l)'
    <3>1. CASE Day(l) \in DOMAIN rolled
      BY <1>1, <2>1, <2>3, <3>1 DEF RunsStay
    <3>2. CASE Day(l) = day
      <4>1. l \in job.lines
        BY <1>5, <2>3, <3>2 DEF RunsStay
      <4>2. content.torn \/ l \in content.runs
        BY <1>2, <2>3, <3>2, <4>1
      <4> QED
        BY <1>6, <3>2, <4>2 DEF Filed, Day
    <3> QED
      BY <1>6, <2>3, <3>1, <3>2
  <2>4. job'.pc = "days" => \A l \in Parsed' : IsRun(l) /\ Day(l) < job'.today => l \in job'.lines
    BY <1>7 DEF RunsStay
  <2>5. ASSUME NEW l \in Parsed, NEW k \in kept, IsRun(l), IsRun(k), Day(l) \in DOMAIN rolled', Day(k) = Day(l)
        PROVE  k \in log
    <3>1. CASE Day(l) \in DOMAIN rolled
      BY <2>5, <3>1 DEF RunsStay
    <3>2. CASE Day(l) = day
      BY <1>3, <2>5, <3>2 DEF RunsStay, Filed
    <3> QED
      BY <1>6, <2>5, <3>1, <3>2
  <2> QED
    BY <1>7, <2>2, <2>3, <2>4, <2>5 DEF RunsStay, Day
<1>14. TrimsStay'
  <2>1. \A t \in kept' : IsTrim(t) => t \in log'
    BY DEF TrimsStay
  <2>2. ASSUME NEW t \in Parsed \cup job.lines, IsTrim(t), NEW d \in DOMAIN rolled',
               NEW l \in rolled'[d].runs, l.run = t.run
        PROVE  l \in rolled'[d].trimmed
    <3>1. CASE d \in DOMAIN rolled
      BY <1>1, <1>6, <2>2, <3>1 DEF TrimsStay
    <3>2. CASE d = day
      <4>1. l \in content.runs /\ l \in job.lines /\ IsRun(l)
        BY <1>2, <1>6, <2>2, <3>2
      <4>2. t \in job.lines
        BY <2>2, <4>1 DEF TrimsStay
      <4> QED
        BY <1>2, <1>6, <2>2, <3>2, <4>1, <4>2
    <3> QED
      BY <1>6, <3>1, <3>2
  <2>3. job'.pc = "days" => \A t \in Parsed', l \in job'.lines :
          IsTrim(t) /\ IsRun(l) /\ l.run = t.run => t \in job'.lines
    BY <1>7 DEF TrimsStay
  <2> QED
    BY <1>7, <2>1, <2>2, <2>3, Zenon DEF TrimsStay
<1> QED
  BY <1>9, <1>10, <1>11, <1>12, <1>13, <1>14

\* A day that could not be written.
LEMMA DayIsSkipped ==
  ASSUME LogInv, job.pc = "days",
         job' \in RollUpType, job'.pc = "days", job'.lines = job.lines, job'.today = job.today,
         job'.todo \subseteq job.todo,
         UNCHANGED <<log, tail, kept, rolled, clock, logged, writing>>
  PROVE  LogInv'
<1> USE DEF LogInv
<1>1. Parsed' = Parsed /\ Read' = Read /\ Seen' = Seen
  BY DEF Parsed, Log!Parsed, Read, Seen
<1>2. LogTypeOK'
  BY DEF LogTypeOK, Owes
<1>3. Numbered'
  BY <1>1 DEF Numbered, Owes
<1>4. FiledByDay'
  BY DEF FiledByDay, Today, Day
<1>5. JobBehind'
  <2>1. Today' = Today /\ job # Log!NoJob
    BY DEF Today, Log!NoJob
  <2>2. job'.today <= Today'
    BY <2>1 DEF JobBehind
  <2>3. \A d \in (DOMAIN rolled \cup job.todo)' : Log!Eligible(d, job'.today)
    BY DEF JobBehind
  <2>4. (job.todo \cap DOMAIN rolled)' = {}
    BY DEF JobBehind
  <2> QED
    BY <2>2, <2>3, <2>4 DEF JobBehind
<1>6. RunsStay'
  <2>1. \A l : Filed(l)' <=> Filed(l)
    BY DEF Filed, Day
  <2> QED
    BY <1>1, <2>1 DEF RunsStay, Day
<1>7. TrimsStay'
  BY <1>1 DEF TrimsStay
<1> QED
  BY <1>2, <1>3, <1>4, <1>5, <1>6, <1>7

LEMMA Least ==
  ASSUME NEW T, T \subseteq Nat, T # {}
  PROVE  Log!Min(T) \in T
<1>1. PICK k \in T : \A j \in T : ~(<<j, k>> \in OpToRel(<, Nat))
  BY WFMin, NatLessThanWellFounded, Zenon
<1>2. \A j \in T : ~(j < k)
  BY <1>1, Zenon DEF OpToRel
<1>3. \E x \in T : \A y \in T : x <= y
  BY <1>2
<1> QED
  BY <1>3, Zenon DEF Log!Min

LEMMA DayGoesBy ==
  ASSUME LogInv, Log!DayIsRolledUp
  PROVE  LogInv'
<1>1. PICK day : day = Log!Min(job.todo)
  OBVIOUS
<1>2. job.pc = "days" /\ job.todo # {} /\ UNCHANGED <<log, tail, clock, writing, kept, logged>>
  BY DEF Log!DayIsRolledUp
<1>3. job \in RollUpType
  BY <1>2, LinesHave DEF LogInv
<1>4. day \in job.todo
  <2>1. PICK T : T = job.todo
    OBVIOUS
  <2>2. T \subseteq Nat /\ T # {} /\ day = Log!Min(T)
    BY <1>1, <1>2, <1>3, <2>1 DEF RollUpType
  <2> QED
    BY <2>1, <2>2, Least
<1>5. \/ job' = [job EXCEPT !.todo = @ \ {day}, !.wrote = TRUE]
      \/ job' = [job EXCEPT !.todo = @ \ {day}]
  BY <1>1 DEF Log!DayIsRolledUp
<1>6. /\ job' \in RollUpType /\ job'.pc = "days" /\ job'.lines = job.lines /\ job'.today = job.today
      /\ job'.todo = job.todo \ {day}
  BY <1>2, <1>3, <1>5, Zenon DEF RollUpType
<1>7. \/ rolled' = rolled
      \/ \E content \in {Log!RollUp(job.lines, day), Log!TornDay} :
           rolled' = [d \in DOMAIN rolled \cup {day} |-> IF d = day THEN content ELSE rolled[d]]
  BY <1>1 DEF Log!DayIsRolledUp
<1>8. CASE rolled' = rolled
  BY <1>2, <1>6, <1>8, DayIsSkipped
<1>9. CASE \E content \in {Log!RollUp(job.lines, day), Log!TornDay} :
             rolled' = [d \in DOMAIN rolled \cup {day} |-> IF d = day THEN content ELSE rolled[d]]
  BY <1>2, <1>4, <1>6, <1>9, DayIsFiled
<1> QED
  BY <1>7, <1>8, <1>9

\* The job leaves its lines, and the log is as it was.
LEMMA JobIsOver ==
  ASSUME LogInv, LogTypeOK', Numbered', JobBehind', job'.pc # "days",
         UNCHANGED <<log, tail, kept, rolled, clock>>
  PROVE  LogInv'
<1> USE DEF LogInv
<1>1. Parsed' = Parsed /\ Read' = {}
  BY DEF Parsed, Log!Parsed, Read
<1>2. FiledByDay'
  BY DEF FiledByDay, Today, Day
<1>3. RunsStay'
  <2>1. \A l : Filed(l)' <=> Filed(l)
    BY DEF Filed, Day
  <2> QED
    BY <1>1, <2>1 DEF RunsStay, Day
<1>4. TrimsStay'
  BY <1>1 DEF TrimsStay
<1> QED
  BY <1>2, <1>3, <1>4

LEMMA FewerSeen ==
  ASSUME LogInv, job'.pc # "days", UNCHANGED <<log, tail, rolled>>
  PROVE  Seen' \subseteq Seen
BY DEF Seen, Read

\* Written in time, or nothing to write, or it failed.
LEMMA JobIsMarked ==
  ASSUME LogInv, job \in RollUpType, job' = [job EXCEPT !.pc = "mark"],
         UNCHANGED <<log, tail, kept, rolled, clock, writing, logged>>
  PROVE  LogInv'
<1>1. job' \in RollUpType /\ job'.pc # "days" /\ job'.today = job.today
  BY DEF RollUpType
<1>2. LogTypeOK'
  BY <1>1 DEF LogInv, LogTypeOK, Owes
<1>3. Numbered'
  BY <1>1, FewerSeen DEF LogInv, Numbered, Owes
<1>4. JobBehind'
  <2>1. job # Log!NoJob
    BY DEF RollUpType, Log!NoJob
  <2> QED
    BY <1>1, <2>1 DEF LogInv, JobBehind, Today
<1> QED
  BY <1>1, <1>2, <1>3, <1>4, JobIsOver

LEMMA JobStops ==
  ASSUME LogInv, job' = Log!NoJob, logged' = logged,
         UNCHANGED <<log, tail, kept, rolled, clock>>,
         writing' = writing \/ writing' = [w \in Writers |-> <<>>]
  PROVE  LogInv'
<1>1. job'.pc # "days" /\ JobBehind'
  BY DEF JobBehind, Log!NoJob
<1>2. LogTypeOK'
  <2>1. DOMAIN writing' = Writers
    BY DEF LogInv, LogTypeOK
  <2>2. \A w \in Writers : \/ writing'[w] \in {<<>>, <<Log!Newline>>}
                           \/ \E n \in 0..logged-1 : Leaves(writing'[w], n)
    BY DEF LogInv, LogTypeOK, Owes
  <2> QED
    BY <2>1, <2>2 DEF LogInv, LogTypeOK, Owes
<1>3. Numbered'
  <2>1. Seen' \subseteq Seen
    BY <1>1, FewerSeen
  <2>2. \A w \in Writers : \A n \in 0..logged-1 : Leaves(writing'[w], n) => Leaves(writing[w], n) /\ writing' = writing
    BY OneRunLeft
  <2>3. \A w \in Writers : \A n \in 0..logged-1 : writing'[w] = AllLeft(n) => writing[w] = AllLeft(n)
    BY <2>2 DEF Leaves
  <2> QED
    BY <2>1, <2>2, <2>3 DEF LogInv, Numbered, Owes
<1> QED
  BY <1>1, <1>2, <1>3, JobIsOver

\* The log is replaced by what the job has read, without the runs of the days filed.
LEMMA LogIsPruned ==
  ASSUME LogInv, job.pc = "days", log' = Log!Keep(job.lines, job.today), tail' = <<>>,
         kept' = job.lines \cup UNION {rolled[d].runs : d \in DOMAIN rolled},
         job' = [job EXCEPT !.pc = "mark"],
         UNCHANGED <<rolled, clock, writing, logged>>
  PROVE  LogInv'
<1> USE DEF LogInv
<1>1. job \in RollUpType /\ Read = job.lines /\ job.lines \in SUBSET LineType
  BY LinesHave DEF RollUpType
<1>2. job' \in RollUpType /\ job'.pc = "mark" /\ job'.today = job.today
  BY <1>1 DEF RollUpType
<1>3. log' = {l \in job.lines : ~(IsRun(l) /\ Log!Eligible(Day(l), job.today) /\ Day(l) \in DOMAIN rolled)}
  BY DEF Log!Keep, IsRun, Day
<1>4. \A d \in DOMAIN rolled : Log!Eligible(d, job.today)
  BY DEF JobBehind
<1>5. log' = {l \in job.lines : ~(IsRun(l) /\ Day(l) \in DOMAIN rolled)}
  BY <1>3, <1>4
<1>6. Parsed' = log' /\ Read' = {}
  BY <1>2 DEF Parsed, Log!Parsed, Read
<1>7. \A d \in DOMAIN rolled : rolled[d].runs \in SUBSET LineType /\ \A l \in rolled[d].runs : IsRun(l) /\ Day(l) = d
  BY LinesHave DEF FiledByDay
<1>8. Seen' \subseteq Seen
  <2>1. {tail[i] : i \in DOMAIN tail}' = {}
    OBVIOUS
  <2>2. (UNION {rolled[d].runs : d \in DOMAIN rolled})' = UNION {rolled[d].runs : d \in DOMAIN rolled}
    OBVIOUS
  <2> QED
    BY <1>1, <1>5, <1>6, <2>1, <2>2 DEF Seen
<1>9. LogTypeOK'
  <2>1. kept' \in SUBSET LineType /\ log' \in SUBSET LineType /\ tail' \in Seq(LineType)
    BY <1>1, <1>5, <1>7
  <2> QED
    BY <1>2, <2>1 DEF LogTypeOK, Owes
<1>10. Numbered'
  BY <1>8 DEF Numbered, Owes
<1>11. FiledByDay'
  BY DEF FiledByDay, Today, Day
<1>12. JobBehind'
  <2>1. job # Log!NoJob
    BY <1>1 DEF RollUpType, Log!NoJob
  <2> QED
    BY <1>2, <2>1 DEF JobBehind, Today
<1>13. RunsStay'
  <2>1. \A l : Filed(l)' <=> Filed(l)
    BY DEF Filed, Day
  <2>2. ASSUME NEW l \in kept', IsRun(l) PROVE l \in log' \/ Filed(l)
    <3>1. CASE l \in job.lines
      BY <1>1, <1>5, <2>2, <3>1 DEF RunsStay
    <3>2. CASE \E d \in DOMAIN rolled : l \in rolled[d].runs
      BY <1>7, <3>2 DEF Filed
    <3> QED
      BY <2>2, <3>1, <3>2
  <2>3. \A l \in (Parsed \cup Read)' : IsRun(l) /\ Day(l) \in DOMAIN rolled' => Filed(l)'
    BY <1>5, <1>6
  <2>4. \A l \in Parsed', k \in kept' :
          IsRun(l) /\ IsRun(k) /\ Day(l) \in DOMAIN rolled' /\ Day(k) = Day(l) => k \in log'
    BY <1>5, <1>6
  <2> QED
    BY <1>2, <2>1, <2>2, <2>3, <2>4 DEF RunsStay, Day
<1>14. TrimsStay'
  <2>1. \A l : IsTrim(l) => ~IsRun(l)
    BY DEF IsTrim, IsRun
  <2>2. \A t \in kept' : IsTrim(t) => t \in log'
    BY <1>5, <1>7, <2>1
  <2>3. \A t \in (Parsed \cup Read)' : IsTrim(t) =>
          \A d \in DOMAIN rolled' : \A l \in rolled'[d].runs : l.run = t.run => l \in rolled'[d].trimmed
    BY <1>1, <1>5, <1>6 DEF TrimsStay
  <2> QED
    BY <1>2, <2>2, <2>3 DEF TrimsStay
<1> QED
  BY <1>9, <1>10, <1>11, <1>12, <1>13, <1>14

LEMMA JobPrunes ==
  ASSUME LogInv, Log!Prunes
  PROVE  LogInv'
<1>1. /\ job.pc = "days" /\ job' = [job EXCEPT !.pc = "mark"]
      /\ UNCHANGED <<rolled, clock, writing, logged>>
  BY DEF Log!Prunes
<1>2. job \in RollUpType
  BY <1>1, LinesHave DEF LogInv
<1>3. \/ /\ log' = Log!Keep(job.lines, job.today) /\ tail' = <<>>
         /\ kept' = job.lines \cup UNION {rolled[d].runs : d \in DOMAIN rolled}
      \/ UNCHANGED <<log, tail, kept>>
  BY DEF Log!Prunes
<1>4. CASE UNCHANGED <<log, tail, kept>>
  BY <1>1, <1>2, <1>4, JobIsMarked
<1>5. CASE /\ log' = Log!Keep(job.lines, job.today) /\ tail' = <<>>
           /\ kept' = job.lines \cup UNION {rolled[d].runs : d \in DOMAIN rolled}
  BY <1>1, <1>5, LogIsPruned
<1> QED
  BY <1>3, <1>4, <1>5

LEMMA SessionAppends ==
  ASSUME LogInv, NEW w \in Writers, Log!Appends(w)
  PROVE  LogInv'
<1>1. writing[w] # <<>> /\ UNCHANGED <<rolled, clock, job, logged>>
  BY DEF Log!Appends
<1>2. \/ /\ Head(writing[w]).kind # "newline"
         /\ tail' = Append(tail, [Head(writing[w]) EXCEPT !.at = clock])
         /\ writing' = [writing EXCEPT ![w] = Tail(@)]
         /\ UNCHANGED <<log, kept>>
      \/ /\ Head(writing[w]).kind # "newline"
         /\ writing' = [writing EXCEPT ![w] = SubSeq(@, 3, Len(@))]
         /\ UNCHANGED <<log, tail, kept>>
      \/ /\ Head(writing[w]).kind = "newline"
         /\ log' = Parsed /\ kept' = kept \cup (Parsed \ log)
         /\ tail' = <<>>
         /\ writing' = [writing EXCEPT ![w] = Tail(@)]
  BY DEF Log!Appends, Parsed
<1>3. CASE /\ Head(writing[w]).kind # "newline"
           /\ tail' = Append(tail, [Head(writing[w]) EXCEPT !.at = clock])
           /\ writing' = [writing EXCEPT ![w] = Tail(@)]
           /\ UNCHANGED <<log, kept>>
  BY <1>1, <1>3, PieceGoesOut, Zenon
<1>4. CASE /\ Head(writing[w]).kind # "newline"
           /\ writing' = [writing EXCEPT ![w] = SubSeq(@, 3, Len(@))]
           /\ UNCHANGED <<log, tail, kept>>
  BY <1>1, <1>4, LineIsGivenUp, Zenon
<1>5. CASE /\ Head(writing[w]).kind = "newline"
           /\ log' = Parsed /\ kept' = kept \cup (Parsed \ log)
           /\ tail' = <<>>
           /\ writing' = [writing EXCEPT ![w] = Tail(@)]
  BY <1>1, <1>5, LineEnds, Zenon
<1> QED
  BY <1>2, <1>3, <1>4, <1>5

LEMMA LogInit ==
  ASSUME Log!Init
  PROVE  LogInv
<1> USE DEF Log!Init
<1>1. Parsed = {} /\ Read = {} /\ Seen = {}
  BY DEF Parsed, Log!Parsed, Read, Seen, Log!NoJob
<1>2. LogTypeOK
  BY DEF LogTypeOK
<1>3. Numbered
  BY <1>1, OneRunLeft DEF Numbered, Owes
<1>4. FiledByDay /\ JobBehind
  BY DEF FiledByDay, JobBehind, Log!NoJob
<1>5. RunsStay /\ TrimsStay
  BY <1>1 DEF RunsStay, TrimsStay, Log!NoJob
<1> QED
  BY <1>2, <1>3, <1>4, <1>5 DEF LogInv

LEMMA LogStep ==
  ASSUME LogInv, [Log!Next]_(Log!metricsVars)
  PROVE  LogInv'
<1>1. CASE Log!Next
  <2>1. ASSUME NEW w \in Writers, Log!RunIsLogged(w) PROVE LogInv'
    BY <2>1, RunEnds
  <2>2. ASSUME NEW w \in Writers, Log!Appends(w) PROVE LogInv'
    BY <2>2, SessionAppends
  <2>3. CASE Log!TimePasses
    BY <2>3, TimeGoesOn
  <2>4. CASE Log!RollUpStarts
    BY <2>4, RollUpBegins
  <2>5. CASE Log!DayIsRolledUp
    BY <2>5, DayGoesBy
  <2>6. CASE Log!Prunes
    BY <2>6, JobPrunes
  <2>7. CASE Log!Marks
    BY <2>7, JobStops DEF Log!Marks
  <2>8. CASE Log!ProgramStops
    BY <2>8, JobStops DEF Log!ProgramStops
  <2> QED
    BY <1>1, <2>1, <2>2, <2>3, <2>4, <2>5, <2>6, <2>7, <2>8 DEF Log!Next
<1>2. CASE UNCHANGED Log!metricsVars
  <2>1. UNCHANGED <<log, tail, rolled, clock, writing, job, kept, logged>>
    BY <1>2 DEF Log!metricsVars
  <2>2. LogTypeOK'
    BY <2>1 DEF LogInv, LogTypeOK, Owes
  <2>3. Seen' = Seen
    BY <2>1 DEF Seen, Read
  <2>4. Numbered'
    BY <2>1, <2>3 DEF LogInv, Numbered, Owes
  <2> QED
    BY <2>1, <2>2, <2>4, LinesRest
<1> QED
  BY <1>1, <1>2

(* The reports.                                                            *)

LEMMA NeverCountedTwice ==
  ASSUME LogInv
  PROVE  Log!NeverTwice
<1>1. ASSUME NEW since, NEW l, l \in Log!FromLog(since), l \in Log!FromDays(since) PROVE FALSE
  <2>1. l \in Log!RunsIn(Parsed)
    BY <1>1 DEF Log!FromLog, Parsed
  <2>2. PICK d \in DOMAIN rolled : Log!Counts(since, d) /\ l \in rolled[d].runs
    BY <1>1 DEF Log!FromDays, Log!CountedDays
  <2>3. d < Day(l)
    BY <2>1, <2>2 DEF Log!Counts, Parsed, Day
  <2>4. Day(l) = d /\ d \in Nat
    BY <2>2 DEF LogInv, FiledByDay, LogTypeOK
  <2> QED
    BY <2>3, <2>4
<1> QED
  BY <1>1 DEF Log!NeverTwice

LEMMA EveryRunReported ==
  ASSUME LogInv, ~Log!Gap, NEW d \in Nat, NEW since, since = 2 * d,
         NEW l \in kept, IsRun(l), l.at >= since
  PROVE  \/ l \in log /\ l \in Log!FromLog(since)
         \/ /\ Day(l) \in Log!CountedDays(since) /\ Day(l) \in DOMAIN rolled
            /\ l \in rolled[Day(l)].runs
<1>1. CASE l \in log
  BY <1>1, LinesHave DEF LogInv, Log!FromLog, Log!RunsIn, Parsed, IsRun
<1>2. CASE l \notin log
  <2>1. Filed(l)
    BY <1>2 DEF LogInv, RunsStay
  <2>2. Day(l) \in DOMAIN rolled /\ l \in rolled[Day(l)].runs
    BY <2>1 DEF Filed, Log!Gap
  <2>3. l.at \in Nat /\ Day(l) \in Nat /\ l.at < 2 * Day(l) + 2
    BY DayIs DEF LogInv, LogTypeOK, LineType, Day
  <2>4. 2 * Day(l) >= since
    BY <2>3
  <2>5. ASSUME NEW m \in Log!RunsIn(Parsed) PROVE Day(l) < Log!DayOf(m.at)
    <3>1. m \in Parsed /\ IsRun(m) /\ m.at \in Nat
      BY <2>5, LinesHave DEF Log!RunsIn, IsRun, LogInv, LineType
    <3>2. Day(m) \in Nat
      BY <3>1, DayIs, Zenon DEF Day
    <3>3. ~(Day(m) < Day(l))
      BY <2>2, <2>5 DEF Log!Gap, Parsed, Day
    <3>4. Day(m) # Day(l)
      BY <1>2, <2>2, <3>1 DEF LogInv, RunsStay
    <3> QED
      BY <2>3, <3>2, <3>3, <3>4 DEF Day
  <2>6. Log!Counts(since, Day(l))
    BY <2>4, <2>5 DEF Log!Counts, Parsed
  <2> QED
    BY <2>2, <2>6 DEF Log!CountedDays
<1> QED
  BY <1>1, <1>2

LEMMA ReportsAreExact ==
  ASSUME LogInv
  PROVE  Log!ReportsExact
<1>1. \A d \in 0..Log!DayOf(MaxHalves) : d \in Nat
  BY DayIs, BoundAssumption
<1>2. ASSUME ~Log!Gap, NEW d \in Nat, NEW since, since = 2 * d,
             NEW l \in Log!RunsIn(kept), l.at >= since
      PROVE  /\ l \in Log!FromLog(since) \cup Log!FromDays(since)
             /\ l \in Log!TrimmedIn(kept) => l \in Log!ReportedTrimmed(since)
  <2>1. l \in kept /\ IsRun(l)
    BY <1>2 DEF Log!RunsIn, IsRun
  <2>2. \/ l \in log /\ l \in Log!FromLog(since)
        \/ /\ Day(l) \in Log!CountedDays(since) /\ Day(l) \in DOMAIN rolled
           /\ l \in rolled[Day(l)].runs
    BY <1>2, <2>1, EveryRunReported
  <2>3. l \in Log!FromLog(since) \cup Log!FromDays(since)
    BY <2>2 DEF Log!FromDays
  <2>4. ASSUME l \in Log!TrimmedIn(kept) PROVE l \in Log!ReportedTrimmed(since)
    <3>1. PICK t \in kept : IsTrim(t) /\ t.run = l.run
      BY <2>4 DEF Log!TrimmedIn, IsTrim
    <3>2. t \in log /\ t \in Parsed
      BY <3>1, LinesHave DEF LogInv, TrimsStay
    <3>3. CASE l \in log
      <4>1. l \in Parsed
        BY <3>3, LinesHave DEF LogInv
      <4>2. l \in Log!TrimmedIn(Parsed)
        BY <2>1, <3>1, <3>2, <4>1 DEF Log!TrimmedIn, Log!RunsIn, IsRun, IsTrim
      <4> QED
        BY <1>2, <4>2 DEF Log!ReportedTrimmed, Parsed
    <3>4. CASE Day(l) \in Log!CountedDays(since) /\ Day(l) \in DOMAIN rolled /\ l \in rolled[Day(l)].runs
      <4>1. l \in rolled[Day(l)].trimmed
        BY <3>1, <3>2, <3>4 DEF LogInv, TrimsStay
      <4> QED
        BY <3>4, <4>1 DEF Log!ReportedTrimmed
    <3> QED
      BY <2>2, <3>3, <3>4
  <2> QED
    BY <2>3, <2>4
<1>3. ASSUME ~Log!Gap, NEW d \in 0..Log!DayOf(MaxHalves)
      PROVE  LET since == 2 * d
                 reported == Log!FromLog(since) \cup Log!FromDays(since)
                 written == {l \in Log!RunsIn(kept) : l.at >= since} IN
             /\ written \subseteq reported
             /\ {l \in written : l \in Log!TrimmedIn(kept)} \subseteq Log!ReportedTrimmed(since)
  <2>1. PICK since : since = 2 * d
    OBVIOUS
  <2>2. d \in Nat
    BY <1>1
  <2>3. \A l \in Log!RunsIn(kept) : l.at >= since =>
          /\ l \in Log!FromLog(since) \cup Log!FromDays(since)
          /\ l \in Log!TrimmedIn(kept) => l \in Log!ReportedTrimmed(since)
    BY <1>2, <1>3, <2>1, <2>2
  <2> QED
    BY <2>1, <2>3
<1> QED
  BY <1>3 DEF Log!ReportsExact

-----------------------------------------------------------------------------
(* The profiles: directories, and what the writers may do to one.          *)

Prof == Prompts!Profile
Snapshots == [of : Prompts!Names, at : 1..MaxStamps, was : Prof]
Directory == [files : [Prompts!FileNames -> Prof \cup {NoProfile}], hist : SUBSET Snapshots]
ToolCall ==
  [at : {"found", "moved"}, name : Prompts!Names, new : Prompts!Names, dir : Prompts!Dirs,
   file : Prompts!FileNames, cfg : Prof]

\* The snapshots are from times that were.
TakenBy(dir, time) == \A s \in dir.hist : s.at <= time
\* The odd file of the directory comes first in it and has the name.
OddShows(dir, n) == oddFirst /\ dir.files["odd"] # NoProfile /\ dir.files["odd"].name = n

ProfilesTyped ==
  /\ disk \in [Prompts!Dirs -> Directory]
  /\ texts \in 0..MaxTexts /\ stamps \in 0..MaxStamps
  /\ ptool = Prompts!NoTool \/ (ptool \in ToolCall /\ ptool.cfg.name = ptool.new)
  /\ editor \in [list : SUBSET Prompts!Names, old : Prompts!Names \cup {"new", NoProfile}]
  /\ panel \in [list : [Prompts!Names -> Prof \cup {NoProfile}], old : BOOLEAN]

\* The tool that found the odd file moves it away; nobody else makes one.
OddMoves ==
  /\ ptool.at = "found" /\ OddShows(disk[ptool.dir], ptool.new) => ptool.file = "odd"
  /\ ptool.at = "moved" => ~OddShows(disk[ptool.dir], ptool.new)

ProfilesInv ==
  /\ ProfilesTyped
  /\ \A d \in Prompts!Dirs : TakenBy(disk[d], stamps)
  /\ OddMoves
  /\ Prompts!EditsReversible /\ Prompts!ToolEditShows /\ Prompts!PanelListFresh

LEMMA NoneApart ==
  /\ NoProfile \notin Prof /\ NoProfile \notin Prompts!FileNames /\ NoProfile \notin Prompts!Dirs
  /\ Prompts!Names \subseteq Prompts!FileNames /\ "odd" \in Prompts!FileNames
  /\ "odd" \notin Prompts!Names
BY NoProfileAssumption DEF Prof, Prompts!FileNames, Prompts!Names

LEMMA CardinalityOfProfiles == \A S : Prompts!Cardinality(S) = Cardinality(S)
BY Zenon DEF Prompts!Cardinality, Cardinality

\* What a pruning keeps: the newest of the name, and all that it does not take for one.
LEMMA PruneKeeps ==
  \A hist \in SUBSET Snapshots, n \in Prompts!Names :
    /\ Prompts!Prune(hist, n) \subseteq hist
    /\ \A s \in hist : s.of # n /\ (n = "a" => s.of # "a2") => s \in Prompts!Prune(hist, n)
    /\ \A s \in hist : s.of = n /\ (\A t \in hist : t.at <= s.at) => s \in Prompts!Prune(hist, n)
<1> SUFFICES ASSUME NEW hist \in SUBSET Snapshots, NEW n \in Prompts!Names
             PROVE  /\ Prompts!Prune(hist, n) \subseteq hist
                    /\ \A s \in hist : s.of # n /\ (n = "a" => s.of # "a2") => s \in Prompts!Prune(hist, n)
                    /\ \A s \in hist : s.of = n /\ (\A t \in hist : t.at <= s.at) =>
                         s \in Prompts!Prune(hist, n)
  OBVIOUS
<1>1. Prompts!Prune(hist, n) \subseteq hist
  BY DEF Prompts!Prune
<1>2. ASSUME NEW s \in hist, s.of # n, n = "a" => s.of # "a2" PROVE s \in Prompts!Prune(hist, n)
  BY <1>2 DEF Prompts!Prune, Prompts!TakenFor
<1>3. ASSUME NEW s \in hist, s.of = n, \A t \in hist : t.at <= s.at PROVE s \in Prompts!Prune(hist, n)
  <2> DEFINE newer == {t \in Prompts!TakenFor(hist, n) : Prompts!Older(n, s, t)}
  <2>1. newer = {}
    <3>1. ASSUME NEW t \in Prompts!TakenFor(hist, n), Prompts!Older(n, s, t) PROVE FALSE
      <4>1. t \in hist /\ t.at <= s.at
        BY <1>3, <3>1 DEF Prompts!TakenFor
      <4>2. s.at < t.at
        BY <1>3, <3>1 DEF Prompts!Older
      <4>3. s.at \in Int /\ t.at \in Int
        BY <4>1, BoundAssumption DEF Snapshots
      <4> QED
        BY <4>1, <4>2, <4>3
    <3> QED
      BY <3>1
  <2> HIDE DEF newer
  <2>2. Cardinality(newer) = 0
    BY <2>1, FS_EmptySet
  <2>3. Prompts!Cardinality(newer) < HISTORY_SNAPSHOTS_KEEP
    BY <2>2, KeepAssumption, CardinalityOfProfiles
  <2> QED
    BY <2>3 DEF Prompts!Prune, newer
<1> QED
  BY <1>1, <1>2, <1>3

\* A snapshot changes no file, and has what it is of.
SnapshotOf(dir, new, n, f, at, works) ==
  /\ new \in Directory /\ new.files = dir.files
  /\ TakenBy(dir, at - 1) => TakenBy(new, at)
  /\ works /\ dir.files[f] # NoProfile /\ TakenBy(dir, at - 1) =>
       \E s \in new.hist : s.of = n /\ s.was = dir.files[f]
  /\ \A s \in dir.hist : s.of # n /\ (n = "a" => s.of # "a2") => s \in new.hist

LEMMA SnapshotIs ==
  \A dir \in Directory, n \in Prompts!Names, f \in Prompts!FileNames, at \in 1..MaxStamps,
     works \in BOOLEAN :
    SnapshotOf(dir, Prompts!Snapshot(dir, n, f, at, works), n, f, at, works)
<1> SUFFICES ASSUME NEW dir \in Directory, NEW n \in Prompts!Names, NEW f \in Prompts!FileNames,
                    NEW at \in 1..MaxStamps, NEW works \in BOOLEAN
             PROVE  SnapshotOf(dir, Prompts!Snapshot(dir, n, f, at, works), n, f, at, works)
  OBVIOUS
<1>0. /\ at \in Nat /\ dir.files \in [Prompts!FileNames -> Prof \cup {NoProfile}]
      /\ dir.hist \in SUBSET Snapshots
  BY BoundAssumption DEF Directory
<1>1. ASSUME TakenBy(dir, at - 1) PROVE TakenBy(dir, at)
  <2>1. \A s \in dir.hist : s.at \in Nat
    BY <1>0, BoundAssumption DEF Snapshots
  <2> QED
    BY <1>0, <1>1, <2>1 DEF TakenBy
<1>2. CASE dir.files[f] = NoProfile \/ ~works
  <2>1. Prompts!Snapshot(dir, n, f, at, works) = dir
    BY <1>2 DEF Prompts!Snapshot
  <2> QED
    BY <1>1, <1>2, <2>1 DEF SnapshotOf
<1>3. CASE ~(dir.files[f] = NoProfile \/ ~works)
  <2> DEFINE s == [of |-> n, at |-> at, was |-> dir.files[f]]
             h == dir.hist \cup {s}
             new == [dir EXCEPT !.hist = Prompts!Prune(h, n)]
  <2>1. Prompts!Snapshot(dir, n, f, at, works) = new
    BY <1>3 DEF Prompts!Snapshot
  <2>2. s \in Snapshots /\ s.of = n /\ s.at = at /\ s.was = dir.files[f]
    BY <1>0, <1>3 DEF Snapshots
  <2>3. h \in SUBSET Snapshots
    BY <1>0, <2>2
  <2>4. new.files = dir.files /\ new.hist = Prompts!Prune(h, n) /\ s \in h /\ dir.hist \subseteq h
    BY DEF Directory
  <2>5. Prompts!Prune(h, n) \subseteq h
    BY <2>3, PruneKeeps
  <2>6. new \in Directory
    BY <2>3, <2>5, Zenon DEF Directory
  <2>7. \A t \in dir.hist : t.of # n /\ (n = "a" => t.of # "a2") => t \in Prompts!Prune(h, n)
    BY <2>3, <2>4, PruneKeeps
  <2>8. ASSUME TakenBy(dir, at - 1) PROVE TakenBy(new, at) /\ s \in new.hist
    <3>1. \A t \in h : t.at <= s.at
      <4>1. \A t \in dir.hist : t.at <= at
        BY <1>1, <2>8 DEF TakenBy
      <4> QED
        BY <1>0, <2>2, <4>1
    <3>2. s \in Prompts!Prune(h, n)
      BY <2>2, <2>3, <2>4, <3>1, PruneKeeps
    <3>3. TakenBy(new, at)
      BY <2>2, <2>4, <2>5, <3>1 DEF TakenBy
    <3> QED
      BY <2>4, <3>2, <3>3
  <2> HIDE DEF new, h, s
  <2> QED
    BY <1>3, <2>1, <2>2, <2>4, <2>6, <2>7, <2>8 DEF SnapshotOf
<1> QED
  BY <1>2, <1>3

\* Nothing of the files is lost but what the file f had, and the odd file is as it was.
Keeps(dir, new, f) ==
  \A g \in Prompts!FileNames \ {f} : dir.files[g] \in Prompts!Held(new) \cup {NoProfile}

LEMMA HeldHas ==
  \A dir \in Directory :
    /\ \A f \in Prompts!FileNames : dir.files[f] \in Prompts!Held(dir)
    /\ \A s \in dir.hist : s.was \in Prompts!Held(dir)
BY DEF Prompts!Held

\* What a file of a directory becomes.
LEMMA FilesAre ==
  \A dir \in Directory, f \in Prompts!FileNames, p \in Prof \cup {NoProfile} :
    LET new == [dir EXCEPT !.files[f] = p] IN
    /\ new \in Directory /\ new.hist = dir.hist
    /\ new.files[f] = p /\ \A g \in Prompts!FileNames \ {f} : new.files[g] = dir.files[g]
BY DEF Directory

\* What any writer does to a directory from a snapshot at the time t to one at t + 1.
WriterDoes(dir, new, t) ==
  /\ new \in Directory
  /\ TakenBy(dir, t - 1) => TakenBy(new, t + 1)

LEMMA EditIs ==
  \A dir \in Directory, old \in Prompts!Names, p \in Prof, at \in 1..MaxStamps,
     works \in BOOLEAN, saved \in BOOLEAN :
    LET new == Prompts!Edit(dir, old, p, at, works, saved) IN
    at + 1 <= MaxStamps /\ TakenBy(dir, at - 1) =>
      /\ WriterDoes(dir, new, at)
      /\ new.files["odd"] = dir.files["odd"]
      /\ saved => new.files[p.name] = p
      /\ works => Keeps(dir, new, "a2")
<1> SUFFICES ASSUME NEW dir \in Directory, NEW old \in Prompts!Names, NEW p \in Prof,
                    NEW at \in 1..MaxStamps, NEW works \in BOOLEAN, NEW saved \in BOOLEAN,
                    at + 1 <= MaxStamps, TakenBy(dir, at - 1)
             PROVE  LET new == Prompts!Edit(dir, old, p, at, works, saved) IN
                    /\ WriterDoes(dir, new, at)
                    /\ new.files["odd"] = dir.files["odd"]
                    /\ saved => new.files[p.name] = p
                    /\ works => Keeps(dir, new, "a2")
  OBVIOUS
<1>0. /\ at \in Nat /\ at + 1 \in 1..MaxStamps /\ (at + 1) - 1 = at
      /\ p.name \in Prompts!Names /\ p.name \in Prompts!FileNames /\ old \in Prompts!FileNames
      /\ p.name # "odd" /\ old # "odd"
  BY BoundAssumption, NoneApart DEF Prof, Prompts!Profile
<1>1. PICK first : first = Prompts!Snapshot(dir, old, Prompts!Conventional(old), at, works)
  OBVIOUS
<1>2. SnapshotOf(dir, first, old, old, at, works)
  BY <1>0, <1>1, SnapshotIs DEF Prompts!Conventional
<1>3. PICK cleared : cleared = IF p.name = old THEN dir ELSE Prompts!Without(first, Prompts!Conventional(old))
  OBVIOUS
<1>4. /\ cleared \in Directory /\ TakenBy(cleared, at) /\ cleared.files["odd"] = dir.files["odd"]
      /\ \A f \in Prompts!FileNames : (f = old /\ p.name # old) \/ cleared.files[f] = dir.files[f]
      /\ p.name # old => cleared.hist = first.hist
  <2>1. CASE p.name = old
    <3>1. cleared = dir
      BY <1>3, <2>1
    <3>2. TakenBy(dir, at)
      BY <1>0 DEF TakenBy, Directory, Snapshots
    <3> QED
      BY <2>1, <3>1, <3>2
  <2>2. CASE p.name # old
    <3>1. first \in Directory /\ first.files = dir.files /\ TakenBy(first, at)
      BY <1>2 DEF SnapshotOf
    <3>2. cleared = [first EXCEPT !.files[old] = NoProfile]
      BY <1>3, <2>2 DEF Prompts!Without, Prompts!Conventional
    <3>3. /\ cleared \in Directory /\ cleared.hist = first.hist
          /\ \A g \in Prompts!FileNames \ {old} : cleared.files[g] = first.files[g]
      BY <1>0, <3>1, <3>2, FilesAre
    <3>4. TakenBy(cleared, at)
      BY <3>1, <3>3 DEF TakenBy
    <3> QED
      BY <1>0, <2>2, <3>1, <3>3, <3>4, NoneApart
  <2> QED
    BY <2>1, <2>2
<1>5. PICK dup : dup = Prompts!Snapshot(cleared, p.name, Prompts!Conventional(p.name), at + 1, works)
  OBVIOUS
<1>6. SnapshotOf(cleared, dup, p.name, p.name, at + 1, works)
  BY <1>0, <1>4, <1>5, SnapshotIs DEF Prompts!Conventional
<1>7. PICK new : new = IF saved THEN Prompts!With(dup, Prompts!Conventional(p.name), p) ELSE dup
  OBVIOUS
<1>8. new = Prompts!Edit(dir, old, p, at, works, saved)
  BY <1>1, <1>3, <1>5, <1>7 DEF Prompts!Edit
<1>9. /\ new \in Directory /\ new.hist = dup.hist
      /\ saved => new.files[p.name] = p
      /\ \A g \in Prompts!FileNames \ {p.name} : new.files[g] = dup.files[g]
      /\ ~saved => new.files = dup.files
  <2>1. dup \in Directory
    BY <1>6 DEF SnapshotOf
  <2>2. CASE saved
    <3>1. new = [dup EXCEPT !.files[p.name] = p]
      BY <1>7, <2>2 DEF Prompts!With, Prompts!Conventional
    <3> QED
      BY <1>0, <2>1, <2>2, <3>1, FilesAre
  <2>3. CASE ~saved
    BY <1>7, <2>1, <2>3
  <2> QED
    BY <2>2, <2>3
<1>10. WriterDoes(dir, new, at)
  <2>1. TakenBy(dup, at + 1)
    BY <1>0, <1>4, <1>6 DEF SnapshotOf
  <2> QED
    BY <1>9, <2>1 DEF WriterDoes, TakenBy
<1>11. new.files["odd"] = dir.files["odd"]
  BY <1>0, <1>4, <1>6, <1>9, NoneApart DEF SnapshotOf
<1>12. ASSUME works, NEW f \in Prompts!FileNames \ {"a2"}, dir.files[f] # NoProfile
       PROVE  dir.files[f] \in Prompts!Held(new)
  <2>1. CASE f = old /\ p.name # old
    <3>1. PICK s \in first.hist : s.of = old /\ s.was = dir.files[f]
      BY <1>2, <1>12, <2>1 DEF SnapshotOf
    <3>2. s \in cleared.hist
      BY <1>4, <2>1, <3>1
    <3>3. s.of # p.name /\ s.of # "a2"
      BY <1>12, <2>1, <3>1
    <3>4. s \in dup.hist
      BY <1>6, <3>2, <3>3 DEF SnapshotOf
    <3> QED
      BY <1>9, <3>1, <3>4, HeldHas
  <2>2. CASE ~(f = old /\ p.name # old) /\ f = p.name
    <3>1. cleared.files[f] = dir.files[f] /\ cleared.files[f] # NoProfile
      BY <1>4, <1>12, <2>2
    <3>2. PICK s \in dup.hist : s.was = cleared.files[f]
      BY <1>0, <1>4, <1>6, <1>12, <2>2, <3>1 DEF SnapshotOf
    <3> QED
      BY <1>9, <3>1, <3>2, HeldHas
  <2>3. CASE ~(f = old /\ p.name # old) /\ f # p.name
    <3>1. new.files[f] = dir.files[f]
      BY <1>4, <1>6, <1>9, <2>3 DEF SnapshotOf
    <3> QED
      BY <1>9, <3>1, HeldHas
  <2> QED
    BY <2>1, <2>2, <2>3
<1>13. works => Keeps(dir, new, "a2")
  BY <1>12 DEF Keeps
<1> QED
  BY <1>8, <1>9, <1>10, <1>11, <1>13

LEMMA CanonicalizeIs ==
  \A dir \in Directory, n \in Prompts!Names, f \in Prompts!FileNames, at \in 1..MaxStamps,
     works \in BOOLEAN :
    LET new == Prompts!Canonicalize(dir, n, f, at, works) IN
    at + 1 <= MaxStamps /\ TakenBy(dir, at - 1) =>
      /\ WriterDoes(dir, new, at)
      /\ new.files["odd"] = IF f = "odd" THEN NoProfile ELSE dir.files["odd"]
      /\ works => Keeps(dir, new, "a2")
<1> SUFFICES ASSUME NEW dir \in Directory, NEW n \in Prompts!Names, NEW f \in Prompts!FileNames,
                    NEW at \in 1..MaxStamps, NEW works \in BOOLEAN,
                    at + 1 <= MaxStamps, TakenBy(dir, at - 1)
             PROVE  LET new == Prompts!Canonicalize(dir, n, f, at, works) IN
                    /\ WriterDoes(dir, new, at)
                    /\ new.files["odd"] = IF f = "odd" THEN NoProfile ELSE dir.files["odd"]
                    /\ works => Keeps(dir, new, "a2")
  OBVIOUS
<1>0. /\ at \in Nat /\ at + 1 \in 1..MaxStamps /\ (at + 1) - 1 = at
      /\ n \in Prompts!FileNames /\ n # "odd"
  BY BoundAssumption, NoneApart
<1>1. CASE f = n \/ dir.files[f] = NoProfile
  <2>1. Prompts!Canonicalize(dir, n, f, at, works) = dir
    BY <1>1 DEF Prompts!Canonicalize, Prompts!Conventional
  <2>2. TakenBy(dir, at + 1)
    BY <1>0, BoundAssumption DEF TakenBy, Directory, Snapshots
  <2>3. Keeps(dir, dir, "a2")
    BY HeldHas DEF Keeps
  <2> QED
    BY <1>0, <1>1, <2>1, <2>2, <2>3 DEF WriterDoes
<1>2. CASE f # n /\ dir.files[f] # NoProfile
  <2>1. PICK first : first = Prompts!Snapshot(dir, n, f, at, works)
    OBVIOUS
  <2>2. SnapshotOf(dir, first, n, f, at, works)
    BY <2>1, SnapshotIs
  <2>3. PICK kept1 : kept1 = Prompts!Snapshot(first, n, Prompts!Conventional(n), at + 1, works)
    OBVIOUS
  <2>4. SnapshotOf(first, kept1, n, n, at + 1, works)
    BY <1>0, <2>2, <2>3, SnapshotIs DEF SnapshotOf, Prompts!Conventional
  <2>5. PICK both : both = [kept1 EXCEPT !.files[n] = kept1.files[f]]
    BY Zenon
  <2>6. kept1 \in Directory /\ kept1.files = dir.files /\ TakenBy(kept1, at + 1)
    BY <1>0, <2>2, <2>4 DEF SnapshotOf
  <2>7. /\ both \in Directory /\ both.hist = kept1.hist /\ both.files[n] = dir.files[f]
        /\ \A g \in Prompts!FileNames \ {n} : both.files[g] = dir.files[g]
    <3>1. kept1.files[f] \in Prof \cup {NoProfile}
      BY <2>6 DEF Directory
    <3> QED
      BY <1>0, <2>5, <2>6, <3>1, FilesAre
  <2>8. PICK new : new = [both EXCEPT !.files[f] = NoProfile]
    BY Zenon
  <2>9. /\ new \in Directory /\ new.hist = kept1.hist /\ new.files[f] = NoProfile
        /\ \A g \in Prompts!FileNames \ {f} : new.files[g] = both.files[g]
    BY <2>7, <2>8, FilesAre
  <2>10. new = Prompts!Canonicalize(dir, n, f, at, works)
    BY <1>2, <2>1, <2>3, <2>5, <2>8
    DEF Prompts!Canonicalize, Prompts!Conventional, Prompts!Without, Prompts!With
  <2>11. WriterDoes(dir, new, at)
    BY <2>6, <2>9 DEF WriterDoes, TakenBy
  <2>12. new.files["odd"] = IF f = "odd" THEN NoProfile ELSE dir.files["odd"]
    BY <1>0, <2>7, <2>9, NoneApart
  <2>13. ASSUME works, NEW g \in Prompts!FileNames, dir.files[g] # NoProfile
         PROVE  dir.files[g] \in Prompts!Held(new)
    <3>1. CASE g = f
      <4>1. new.files[n] = dir.files[g]
        BY <1>0, <1>2, <2>7, <2>9, <3>1
      <4> QED
        BY <1>0, <2>9, <4>1, HeldHas
    <3>2. CASE g = n
      <4>1. first.files[n] # NoProfile /\ first.files[n] = dir.files[g]
        BY <2>2, <2>13, <3>2 DEF SnapshotOf
      <4>2. PICK s \in kept1.hist : s.was = first.files[n]
        BY <1>0, <2>2, <2>4, <2>13, <4>1 DEF SnapshotOf
      <4> QED
        BY <2>9, <4>1, <4>2, HeldHas
    <3>3. CASE g # f /\ g # n
      <4>1. new.files[g] = dir.files[g]
        BY <2>7, <2>9, <3>3
      <4> QED
        BY <2>9, <4>1, HeldHas
    <3> QED
      BY <3>1, <3>2, <3>3
  <2>14. works => Keeps(dir, new, "a2")
    BY <2>13 DEF Keeps
  <2> QED
    BY <2>10, <2>11, <2>12, <2>14
<1> QED
  BY <1>1, <1>2

LEMMA RestoreIs ==
  \A dir \in Directory, n \in Prompts!Names, s \in Snapshots, at \in 1..MaxStamps,
     works \in BOOLEAN :
    LET new == Prompts!Restore(dir, n, s, at, works) IN
    at + 1 <= MaxStamps /\ TakenBy(dir, at - 1) =>
      /\ WriterDoes(dir, new, at)
      /\ new.files["odd"] = dir.files["odd"]
      /\ ~Prompts!Restored(new, s) => new.files = dir.files
      /\ works => Keeps(dir, new, "a2")
<1> SUFFICES ASSUME NEW dir \in Directory, NEW n \in Prompts!Names, NEW s \in Snapshots,
                    NEW at \in 1..MaxStamps, NEW works \in BOOLEAN,
                    at + 1 <= MaxStamps, TakenBy(dir, at - 1)
             PROVE  LET new == Prompts!Restore(dir, n, s, at, works) IN
                    /\ WriterDoes(dir, new, at)
                    /\ new.files["odd"] = dir.files["odd"]
                    /\ ~Prompts!Restored(new, s) => new.files = dir.files
                    /\ works => Keeps(dir, new, "a2")
  OBVIOUS
<1>0. at \in Nat /\ n \in Prompts!FileNames /\ n # "odd" /\ s.was \in Prof
  BY NoneApart DEF Snapshots
<1>1. PICK dup : dup = Prompts!Snapshot(dir, n, Prompts!Conventional(n), at, works)
  OBVIOUS
<1>2. SnapshotOf(dir, dup, n, n, at, works)
  BY <1>0, <1>1, SnapshotIs DEF Prompts!Conventional
<1>3. PICK new : new = IF s \in dup.hist THEN [dup EXCEPT !.files[n] = s.was] ELSE dup
  BY Zenon
<1>4. new = Prompts!Restore(dir, n, s, at, works)
  BY <1>1, <1>3 DEF Prompts!Restore, Prompts!With, Prompts!Conventional
<1>5. /\ new \in Directory /\ new.hist = dup.hist
      /\ \A g \in Prompts!FileNames \ {n} : new.files[g] = dir.files[g]
      /\ s \notin dup.hist => new.files = dir.files
  <2>1. dup \in Directory /\ dup.files = dir.files
    BY <1>2 DEF SnapshotOf
  <2>2. CASE s \in dup.hist
    <3>1. new = [dup EXCEPT !.files[n] = s.was]
      BY <1>3, <2>2
    <3> QED
      BY <1>0, <2>1, <2>2, <3>1, FilesAre
  <2>3. CASE s \notin dup.hist
    BY <1>3, <2>1, <2>3
  <2> QED
    BY <2>2, <2>3
<1>6. WriterDoes(dir, new, at)
  <2>1. TakenBy(dup, at)
    BY <1>2 DEF SnapshotOf
  <2>2. \A t \in dup.hist : t.at \in Nat
    BY <1>2, BoundAssumption DEF SnapshotOf, Directory, Snapshots
  <2> QED
    BY <1>0, <1>5, <2>1, <2>2 DEF WriterDoes, TakenBy
<1>7. new.files["odd"] = dir.files["odd"]
  BY <1>0, <1>5, NoneApart
<1>8. ASSUME works, NEW g \in Prompts!FileNames, dir.files[g] # NoProfile
      PROVE  dir.files[g] \in Prompts!Held(new)
  <2>1. CASE g = n
    <3>1. PICK t \in dup.hist : t.was = dir.files[g]
      BY <1>2, <1>8, <2>1 DEF SnapshotOf
    <3> QED
      BY <1>5, <3>1, HeldHas
  <2>2. CASE g # n
    <3>1. new.files[g] = dir.files[g]
      BY <1>5, <2>2
    <3> QED
      BY <1>5, <3>1, HeldHas
  <2> QED
    BY <2>1, <2>2
<1>9. works => Keeps(dir, new, "a2")
  BY <1>8 DEF Keeps
<1> QED
  BY <1>4, <1>5, <1>6, <1>7, <1>9 DEF Prompts!Restored

\* What discovery takes from a directory, and overall.
LEMMA FileInIs ==
  ASSUME NEW dir \in Directory, NEW n \in Prompts!Names
  PROVE  LET f == Prompts!FileIn(dir, n) IN
         /\ f # NoProfile =>
              f \in Prompts!FileNames /\ dir.files[f] # NoProfile /\ dir.files[f] \in Prof /\ dir.files[f].name = n
         /\ OddShows(dir, n) => f = "odd"
         /\ dir.files[n] # NoProfile /\ dir.files[n].name = n /\ ~Prompts!Misfiled(dir, n) /\ ~OddShows(dir, n) =>
              f = n
<1> DEFINE fs == {f \in Prompts!FileNames : dir.files[f] # NoProfile /\ dir.files[f].name = n}
<1>1. PICK f : f = Prompts!FileIn(dir, n)
  OBVIOUS
<1>2. /\ fs = {} => f = NoProfile
      /\ fs # {} => f = IF "odd" \in fs /\ (oddFirst \/ fs = {"odd"}) THEN "odd"
                        ELSE CHOOSE g \in fs : g # "odd"
  BY <1>1 DEF Prompts!FileIn
<1>3. fs # {} => f \in fs
  <2>1. CASE fs # {} /\ "odd" \in fs /\ (oddFirst \/ fs = {"odd"})
    BY <1>2, <2>1
  <2>2. CASE fs # {} /\ ~("odd" \in fs /\ (oddFirst \/ fs = {"odd"}))
    <3>1. \E g \in fs : g # "odd"
      BY <2>2
    <3> HIDE DEF fs
    <3> QED
      BY <1>2, <2>2, <3>1
  <2> QED
    BY <2>1, <2>2
<1>4. \A g \in fs : dir.files[g] \in Prof
  BY DEF Directory
<1>5. OddShows(dir, n) => "odd" \in fs /\ oddFirst
  BY NoneApart DEF OddShows
<1>6. ASSUME dir.files[n] # NoProfile, dir.files[n].name = n, ~Prompts!Misfiled(dir, n), ~OddShows(dir, n)
      PROVE  f = n
  <2>1. n \in fs /\ n # "odd"
    BY <1>6, NoneApart
  <2>2. \A g \in fs : g = n \/ g = "odd"
    BY <1>6 DEF Prompts!Misfiled, Prompts!FileNames
  <2>3. ~("odd" \in fs /\ (oddFirst \/ fs = {"odd"}))
    BY <1>6, <2>1 DEF OddShows
  <2> HIDE DEF fs
  <2>4. f = CHOOSE g \in fs : g # "odd"
    BY <1>2, <2>1, <2>3
  <2> QED
    BY <2>1, <2>2, <2>4
<1>7. OddShows(dir, n) => f = "odd"
  BY <1>2, <1>5
<1>8. f # NoProfile => f \in fs
  BY <1>2, <1>3
<1> QED
  BY <1>1, <1>4, <1>6, <1>7, <1>8

LEMMA DiscoveredIs ==
  ASSUME ProfilesTyped, NEW n \in Prompts!Names
  PROVE  LET d == Prompts!DirOf(n) IN
         /\ d # NoProfile =>
              /\ d \in Prompts!Dirs /\ Prompts!FileOf(d, n) # NoProfile
              /\ Prompts!Discovered(n) \in Prof /\ Prompts!Discovered(n).name = n
         /\ d = NoProfile => Prompts!Discovered(n) = NoProfile
         /\ d = NoProfile => \A e \in Prompts!Dirs : Prompts!FileOf(e, n) = NoProfile
<1>1. PICK d : d = Prompts!DirOf(n)
  OBVIOUS
<1>2. d \in Prompts!Dirs \cup {NoProfile} /\ NoProfile \notin Prompts!Dirs
  BY <1>1, NoneApart DEF Prompts!DirOf, Prompts!Dirs
<1>3. d # NoProfile => Prompts!FileOf(d, n) # NoProfile
  BY <1>1 DEF Prompts!DirOf
<1>4. d = NoProfile => \A e \in Prompts!Dirs : Prompts!FileOf(e, n) = NoProfile
  BY <1>1, NoneApart DEF Prompts!DirOf, Prompts!Dirs
<1>5. ASSUME d # NoProfile PROVE Prompts!Discovered(n) \in Prof /\ Prompts!Discovered(n).name = n
  <2>1. PICK dir : dir = disk[d]
    OBVIOUS
  <2>2. dir \in Directory
    BY <1>2, <1>5, <2>1 DEF ProfilesTyped
  <2>3. PICK f : f = Prompts!FileIn(dir, n)
    OBVIOUS
  <2>4. f = Prompts!FileOf(d, n) /\ f # NoProfile
    BY <1>3, <1>5, <2>1, <2>3 DEF Prompts!FileOf
  <2>5. dir.files[f] \in Prof /\ dir.files[f].name = n
    <3>1. Prompts!FileIn(dir, n) # NoProfile =>
            /\ dir.files[Prompts!FileIn(dir, n)] \in Prof
            /\ dir.files[Prompts!FileIn(dir, n)].name = n
      BY Zenon, <2>2, FileInIs
    <3> QED
      BY <2>3, <2>4, <3>1
  <2>6. Prompts!Discovered(n) = dir.files[f]
    BY <1>1, <1>5, <2>1, <2>4 DEF Prompts!Discovered
  <2> QED
    BY <2>5, <2>6
<1>6. d = NoProfile => Prompts!Discovered(n) = NoProfile
  BY <1>1 DEF Prompts!Discovered
<1> QED
  BY <1>1, <1>2, <1>3, <1>4, <1>5, <1>6

LEMMA ListingTyped ==
  ASSUME ProfilesTyped
  PROVE  Prompts!Listing \in [Prompts!Names -> Prof \cup {NoProfile}] /\ Prompts!Known \subseteq Prompts!Names
<1>1. \A n \in Prompts!Names : Prompts!Discovered(n) \in Prof \cup {NoProfile}
  BY DiscoveredIs
<1> QED
  BY <1>1 DEF Prompts!Listing, Prompts!Known

\* Discovery depends on the files only.
LEMMA SameFilesListed ==
  ASSUME UNCHANGED oddFirst, \A d \in Prompts!Dirs : disk'[d].files = disk[d].files
  PROVE  Prompts!Listing' = Prompts!Listing
<1>1. ASSUME NEW d \in Prompts!Dirs, NEW n \in Prompts!Names
      PROVE  Prompts!FileOf(d, n)' = Prompts!FileOf(d, n)
  <2> DEFINE Of(dir) == {f \in Prompts!FileNames : dir.files[f] # NoProfile /\ dir.files[f].name = n}
             Taken(fs, first) == IF fs = {} THEN NoProfile
                                 ELSE IF "odd" \in fs /\ (first \/ fs = {"odd"}) THEN "odd"
                                 ELSE CHOOSE f \in fs : f # "odd"
  <2>1. Of(disk'[d]) = Of(disk[d])
    OBVIOUS
  <2>2. Prompts!FileOf(d, n) = Taken(Of(disk[d]), oddFirst)
    BY Zenon DEF Prompts!FileOf, Prompts!FileIn
  <2>3. Prompts!FileOf(d, n)' = Taken(Of(disk'[d]), oddFirst')
    BY Zenon DEF Prompts!FileOf, Prompts!FileIn
  <2> HIDE DEF Of, Taken
  <2> QED
    BY <2>1, <2>2, <2>3
<1>2. \A n \in Prompts!Names : Prompts!DirOf(n)' = Prompts!DirOf(n)
  BY <1>1 DEF Prompts!DirOf, Prompts!Dirs
<1>3. \A n \in Prompts!Names : Prompts!DirOf(n) = NoProfile \/ Prompts!DirOf(n) \in Prompts!Dirs
  BY DEF Prompts!DirOf, Prompts!Dirs
<1>4. \A n \in Prompts!Names : Prompts!Discovered(n)' = Prompts!Discovered(n)
  BY <1>1, <1>2, <1>3 DEF Prompts!Discovered
<1> QED
  BY <1>4 DEF Prompts!Listing

\* The directories after a writer was at one.
LEMMA DirectoriesAre ==
  ASSUME ProfilesInv, NEW d \in Prompts!Dirs, NEW dir, WriterDoes(disk[d], dir, stamps + 1),
         disk' = [disk EXCEPT ![d] = dir], Prompts!Stamps
  PROVE  /\ disk' \in [Prompts!Dirs -> Directory] /\ disk'[d] = dir
         /\ \A e \in Prompts!Dirs \ {d} : disk'[e] = disk[e]
         /\ stamps' \in 0..MaxStamps
         /\ \A e \in Prompts!Dirs : TakenBy(disk'[e], stamps')
<1>1. disk \in [Prompts!Dirs -> Directory] /\ stamps \in 0..MaxStamps
  BY DEF ProfilesInv, ProfilesTyped
<1>2. stamps' = stamps + 2 /\ stamps' \in 0..MaxStamps /\ (stamps + 1) - 1 = stamps /\ stamps + 1 + 1 = stamps'
  BY <1>1, BoundAssumption DEF Prompts!Stamps
<1>3. dir \in Directory
  BY DEF WriterDoes
<1>4. disk' \in [Prompts!Dirs -> Directory] /\ disk'[d] = dir /\ \A e \in Prompts!Dirs \ {d} : disk'[e] = disk[e]
  BY <1>1, <1>3
<1>5. TakenBy(dir, stamps')
  <2>1. \A s \in disk[d].hist : s.at <= (stamps + 1) - 1
    BY <1>2 DEF ProfilesInv, TakenBy
  <2>2. TakenBy(dir, stamps + 1 + 1)
    BY <2>1 DEF WriterDoes, TakenBy
  <2> QED
    BY <1>2, <2>2 DEF TakenBy
<1>6. ASSUME NEW e \in Prompts!Dirs \ {d} PROVE TakenBy(disk'[e], stamps')
  <2>1. disk'[e] = disk[e] /\ TakenBy(disk[e], stamps)
    BY <1>4 DEF ProfilesInv
  <2>2. \A s \in disk[e].hist : s.at \in Nat
    BY <1>1, BoundAssumption DEF Directory, Snapshots
  <2> QED
    BY <1>1, <1>2, <2>1, <2>2 DEF TakenBy
<1> QED
  BY <1>2, <1>4, <1>5, <1>6

LEMMA LossesAre ==
  ASSUME ProfilesInv, NEW d \in Prompts!Dirs, NEW dir, disk' = [disk EXCEPT ![d] = dir],
         NEW works \in BOOLEAN, works => Keeps(disk[d], dir, "a2"), Prompts!LosesIf(works)
  PROVE  Prompts!EditsReversible'
<1>1. disk \in [Prompts!Dirs -> Directory] /\ gone \subseteq {"a2"}
  BY DEF ProfilesInv, ProfilesTyped, Prompts!EditsReversible
<1>2. disk'[d] = dir /\ \A e \in Prompts!Dirs \ {d} : disk'[e] = disk[e]
  BY <1>1
<1>3. PICK excused : /\ excused = IF works THEN {} ELSE Prof
                     /\ gone' = gone \cup {f \in Prompts!FileNames : \E e \in Prompts!Dirs :
                          disk[e].files[f] \notin Prompts!Held(disk'[e]) \cup excused \cup {NoProfile}}
  BY Zenon DEF Prompts!LosesIf, Prompts!Loses, Prof
<1>4. ASSUME NEW f \in Prompts!FileNames, NEW e \in Prompts!Dirs, f # "a2"
      PROVE  disk[e].files[f] \in Prompts!Held(disk'[e]) \cup excused \cup {NoProfile}
  <2>1. CASE ~works
    BY <1>1, <1>3, <2>1 DEF Directory
  <2>2. CASE works /\ e = d
    BY <1>2, <1>4, <2>2 DEF Keeps
  <2>3. CASE works /\ e # d
    <3>1. disk'[e] = disk[e] /\ disk[e] \in Directory
      BY <1>1, <1>2, <2>3
    <3>2. disk[e].files[f] \in Prompts!Held(disk[e])
      BY <3>1, HeldHas
    <3> QED
      BY <3>1, <3>2
  <2> QED
    BY <2>1, <2>2, <2>3
<1> QED
  BY <1>1, <1>3, <1>4, Zenon DEF Prompts!EditsReversible

\* The tool's call, apart from the odd file, when it does not move.
LEMMA SameTool ==
  ASSUME ProfilesInv, UNCHANGED <<ptool, oddFirst>>,
         \A d \in Prompts!Dirs : disk'[d].files["odd"] = disk[d].files["odd"]
  PROVE  OddMoves'
<1>1. CASE ptool = Prompts!NoTool
  <2>1. ptool'.at = "idle"
    BY <1>1 DEF Prompts!NoTool
  <2> QED
    BY <2>1 DEF OddMoves
<1>2. CASE ptool # Prompts!NoTool
  <2>1. ptool \in ToolCall
    BY <1>2 DEF ProfilesInv, ProfilesTyped
  <2>2. ptool.dir \in Prompts!Dirs
    BY <2>1 DEF ToolCall
  <2>3. disk'[ptool.dir].files["odd"] = disk[ptool.dir].files["odd"]
    BY <2>2
  <2> QED
    BY <2>3 DEF ProfilesInv, OddMoves, OddShows
<1> QED
  BY <1>1, <1>2

LEMMA ToolFindsKeeps ==
  ASSUME ProfilesInv, UNCHANGED oddFirst, NEW n \in Prompts!Names, NEW new \in Prompts!Names,
         Prompts!ToolFinds(n, new)
  PROVE  ProfilesInv'
<1>1. /\ ProfilesTyped /\ UNCHANGED <<disk, stamps, editor, panel, gone, unseen, oddFirst>>
      /\ texts < MaxTexts /\ texts' = texts + 1 /\ Prompts!DirOf(n) # NoProfile
      /\ new = n \/ Prompts!DirOf(new) = NoProfile
  BY DEF ProfilesInv, Prompts!ToolFinds, Prompts!Fresh
<1>2. PICK d, f : d = Prompts!DirOf(n) /\ f = Prompts!FileOf(d, n)
  OBVIOUS
<1>3. PICK p : p = Prompts!Discovered(n)
  OBVIOUS
<1>4. d \in Prompts!Dirs /\ f # NoProfile /\ p \in Prof
  BY <1>1, <1>2, <1>3, DiscoveredIs
<1>5. PICK dir : dir = disk[d]
  OBVIOUS
<1>6. dir \in Directory /\ f = Prompts!FileIn(dir, n)
  BY <1>1, <1>2, <1>4, <1>5 DEF ProfilesTyped, Prompts!FileOf
<1>7. f \in Prompts!FileNames
  BY <1>4, <1>6, FileInIs
<1>8. texts' \in 0..MaxTexts
  BY <1>1, BoundAssumption DEF ProfilesTyped
<1>9. PICK cfg : cfg = [p EXCEPT !.name = new, !.text = texts + 1]
  OBVIOUS
<1>10. cfg \in Prof /\ cfg.name = new
  BY <1>1, <1>4, <1>8, <1>9, Zenon DEF Prof, Prompts!Profile
<1>11. ptool' = [at |-> "found", name |-> n, new |-> new, dir |-> d, file |-> f, cfg |-> cfg]
  BY <1>2, <1>3, <1>9 DEF Prompts!ToolFinds
<1>12. ptool' \in ToolCall /\ ptool'.cfg.name = ptool'.new /\ ptool'.at = "found"
  BY <1>4, <1>7, <1>10, <1>11 DEF ToolCall
<1>13. ProfilesTyped'
  BY <1>1, <1>8, <1>12 DEF ProfilesTyped
<1>14. OddShows(dir, new) => f = "odd"
  <2>1. CASE new = n
    BY <1>6, <2>1, FileInIs
  <2>2. CASE Prompts!DirOf(new) = NoProfile
    <3>1. Prompts!FileIn(dir, new) = NoProfile
      BY <1>1, <1>4, <1>5, <2>2, DiscoveredIs DEF Prompts!FileOf
    <3>2. OddShows(dir, new) => Prompts!FileIn(dir, new) = "odd"
      BY <1>6, FileInIs
    <3> QED
      BY <3>1, <3>2, NoneApart
  <2> QED
    BY <1>1, <2>1, <2>2
<1>15. OddMoves'
  <2>1. ptool'.dir = d /\ ptool'.new = new /\ ptool'.file = f
    BY <1>11
  <2>2. disk'[d] = dir /\ oddFirst' = oddFirst
    BY <1>1, <1>5
  <2> QED
    BY <1>12, <1>14, <2>1, <2>2 DEF OddMoves, OddShows
<1>16. Prompts!Listing' = Prompts!Listing
  BY <1>1, SameFilesListed
<1>17. Prompts!PanelListFresh'
  <2>1. ptool.at = "idle"
    BY DEF Prompts!ToolFinds
  <2> QED
    BY <1>1, <1>16, <2>1 DEF ProfilesInv, Prompts!PanelListFresh
<1> QED
  BY <1>1, <1>13, <1>15, <1>17 DEF ProfilesInv, Prompts!EditsReversible, Prompts!ToolEditShows, TakenBy

LEMMA ToolMovesKeeps ==
  ASSUME ProfilesInv, UNCHANGED oddFirst, NEW works \in BOOLEAN, Prompts!ToolMoves(works)
  PROVE  ProfilesInv'
<1>1. /\ ProfilesTyped /\ Prompts!Stamps /\ Prompts!LosesIf(works)
      /\ UNCHANGED <<texts, editor, panel, unseen, oddFirst>>
      /\ ptool.at = "found" /\ ptool' = [ptool EXCEPT !.at = "moved"]
  BY DEF ProfilesInv, Prompts!ToolMoves
<1>2. ptool \in ToolCall /\ ptool.cfg.name = ptool.new
  BY <1>1 DEF ProfilesTyped, Prompts!NoTool
<1>3. PICK d, f, n, new : d = ptool.dir /\ f = ptool.file /\ n = ptool.name /\ new = ptool.new
  OBVIOUS
<1>4. d \in Prompts!Dirs /\ f \in Prompts!FileNames /\ n \in Prompts!Names
  BY <1>2, <1>3 DEF ToolCall
<1>5. /\ ptool' \in ToolCall /\ ptool'.cfg.name = ptool'.new /\ ptool'.at = "moved"
      /\ ptool'.dir = d /\ ptool'.new = new
  BY <1>1, <1>2, <1>3 DEF ToolCall
<1>6. PICK dir, t : dir = disk[d] /\ t = stamps + 1
  OBVIOUS
<1>7. PICK moved : moved = Prompts!Canonicalize(dir, n, f, t, works)
  OBVIOUS
<1>8. /\ dir \in Directory /\ t \in 1..MaxStamps /\ t + 1 <= MaxStamps /\ TakenBy(dir, t - 1)
  <2>1. stamps \in Nat /\ t - 1 = stamps
    BY <1>1, <1>6 DEF ProfilesTyped
  <2>2. TakenBy(dir, stamps)
    BY <1>4, <1>6 DEF ProfilesInv
  <2> QED
    BY <1>1, <1>4, <1>6, <2>1, <2>2, BoundAssumption DEF ProfilesTyped, Prompts!Stamps
<1>9. /\ WriterDoes(dir, moved, t)
      /\ works => Keeps(dir, moved, "a2")
      /\ moved.files["odd"] = IF f = "odd" THEN NoProfile ELSE dir.files["odd"]
  BY <1>4, <1>7, <1>8, CanonicalizeIs
<1>10. disk' = [disk EXCEPT ![d] = moved]
  BY <1>3, <1>6, <1>7 DEF Prompts!ToolMoves, Prompts!Change
<1>11. WriterDoes(disk[d], moved, stamps + 1) /\ (works => Keeps(disk[d], moved, "a2"))
  BY <1>6, <1>9
<1>12. /\ disk' \in [Prompts!Dirs -> Directory] /\ disk'[d] = moved
       /\ stamps' \in 0..MaxStamps /\ \A e \in Prompts!Dirs : TakenBy(disk'[e], stamps')
  BY <1>1, <1>4, <1>10, <1>11, DirectoriesAre, Zenon
<1>13. Prompts!EditsReversible'
  BY <1>1, <1>4, <1>10, <1>11, LossesAre, Zenon
<1>14. ProfilesTyped'
  BY <1>1, <1>5, <1>12 DEF ProfilesTyped
<1>15. ~OddShows(moved, new)
  <2>1. OddShows(dir, new) => f = "odd"
    BY <1>1, <1>3, <1>6 DEF ProfilesInv, OddMoves
  <2> QED
    BY <1>9, <2>1 DEF OddShows
<1>16. OddMoves'
  BY <1>1, <1>5, <1>12, <1>15 DEF OddMoves, OddShows
<1>17. Prompts!PanelListFresh' /\ Prompts!ToolEditShows'
  BY <1>1, <1>5 DEF ProfilesInv, Prompts!PanelListFresh, Prompts!ToolEditShows
<1> QED
  BY <1>12, <1>13, <1>14, <1>16, <1>17 DEF ProfilesInv, TakenBy

LEMMA ToolEditsKeeps ==
  ASSUME ProfilesInv, UNCHANGED oddFirst, NEW works \in BOOLEAN, NEW saved \in BOOLEAN,
         Prompts!ToolEdits(works, saved)
  PROVE  ProfilesInv'
<1>1. /\ ProfilesTyped /\ Prompts!Stamps /\ Prompts!LosesIf(works)
      /\ UNCHANGED <<texts, editor, oddFirst>>
      /\ ptool.at = "moved" /\ ptool' = Prompts!NoTool /\ panel' = [panel EXCEPT !.old = TRUE]
  BY DEF ProfilesInv, Prompts!ToolEdits, Prompts!Bump
<1>2. ptool \in ToolCall /\ ptool.cfg.name = ptool.new
  BY <1>1 DEF ProfilesTyped, Prompts!NoTool
<1>3. PICK d, n, p : d = ptool.dir /\ n = ptool.name /\ p = ptool.cfg
  OBVIOUS
<1>4. d \in Prompts!Dirs /\ n \in Prompts!Names /\ p \in Prof /\ p.name = ptool.new
  BY <1>2, <1>3 DEF ToolCall
<1>5. PICK dir, t : dir = disk[d] /\ t = stamps + 1
  OBVIOUS
<1>6. PICK edited : edited = Prompts!Edit(dir, n, p, t, works, saved)
  OBVIOUS
<1>7. /\ dir \in Directory /\ t \in 1..MaxStamps /\ t + 1 <= MaxStamps /\ TakenBy(dir, t - 1)
  <2>1. stamps \in Nat /\ t - 1 = stamps
    BY <1>1, <1>5 DEF ProfilesTyped
  <2>2. TakenBy(dir, stamps)
    BY <1>4, <1>5 DEF ProfilesInv
  <2> QED
    BY <1>1, <1>4, <1>5, <2>1, <2>2, BoundAssumption DEF ProfilesTyped, Prompts!Stamps
<1>8. /\ WriterDoes(dir, edited, t)
      /\ works => Keeps(dir, edited, "a2")
      /\ edited.files["odd"] = dir.files["odd"]
      /\ saved => edited.files[p.name] = p
  BY <1>4, <1>6, <1>7, EditIs
<1>9. disk' = [disk EXCEPT ![d] = edited]
  BY <1>3, <1>5, <1>6 DEF Prompts!ToolEdits, Prompts!Change
<1>10. WriterDoes(disk[d], edited, stamps + 1) /\ (works => Keeps(disk[d], edited, "a2"))
  BY <1>5, <1>8
<1>11. /\ disk' \in [Prompts!Dirs -> Directory] /\ disk'[d] = edited
       /\ stamps' \in 0..MaxStamps /\ \A e \in Prompts!Dirs : TakenBy(disk'[e], stamps')
  BY <1>1, <1>4, <1>9, <1>10, DirectoriesAre, Zenon
<1>12. Prompts!EditsReversible'
  BY <1>1, <1>4, <1>9, <1>10, LossesAre, Zenon
<1>13. panel' \in [list : [Prompts!Names -> Prof \cup {NoProfile}], old : BOOLEAN] /\ panel'.old
  BY <1>1, Zenon DEF ProfilesTyped
<1>14. ProfilesTyped'
  BY <1>1, <1>11, <1>13 DEF ProfilesTyped
<1>15. OddMoves'
  <2>1. ptool'.at = "idle"
    BY <1>1 DEF Prompts!NoTool
  <2> QED
    BY <2>1 DEF OddMoves
<1>16. ASSUME saved, ~Prompts!Misfiled(edited, p.name) PROVE Prompts!FileIn(edited, p.name) = p.name
  <2>1. ~OddShows(edited, p.name)
    <3>1. ~OddShows(dir, p.name)
      BY <1>1, <1>3, <1>4, <1>5 DEF ProfilesInv, OddMoves
    <3> QED
      BY <1>8, <3>1 DEF OddShows
  <2>2. edited \in Directory /\ p.name \in Prompts!Names
    BY <1>4, <1>8 DEF WriterDoes, Prof, Prompts!Profile
  <2>3. edited.files[p.name] # NoProfile /\ edited.files[p.name].name = p.name
    BY <1>4, <1>8, <1>16, NoneApart
  <2> QED
    BY <1>16, <2>1, <2>2, <2>3, FileInIs
<1>17. Prompts!ToolEditShows'
  <2>1. disk'[ptool.dir] = edited /\ ptool.new = p.name
    BY <1>3, <1>4, <1>11
  <2>2. unseen' = (unseen \/ (saved /\ ~Prompts!Misfiled(edited, p.name)
                              /\ Prompts!FileIn(edited, p.name) # p.name))
    BY <2>1 DEF Prompts!ToolEdits, Prompts!Conventional
  <2> QED
    BY <1>16, <2>2, Zenon DEF ProfilesInv, Prompts!ToolEditShows
<1> QED
  BY <1>11, <1>12, <1>13, <1>14, <1>15, <1>17 DEF ProfilesInv, Prompts!PanelListFresh, TakenBy

EditorType == [list : SUBSET Prompts!Names, old : Prompts!Names \cup {"new", NoProfile}]

\* The panel is told, or there is nothing to tell.
PanelTold(d, dir) ==
  panel' = [panel EXCEPT !.old = TRUE] \/ (panel' = panel /\ dir.files = disk[d].files)

LEMMA PanelKnows ==
  ASSUME ProfilesInv, UNCHANGED <<oddFirst, ptool>>, NEW d \in Prompts!Dirs, NEW dir,
         disk' = [disk EXCEPT ![d] = dir], PanelTold(d, dir)
  PROVE  /\ panel' \in [list : [Prompts!Names -> Prof \cup {NoProfile}], old : BOOLEAN]
         /\ Prompts!PanelListFresh'
<1>1. panel \in [list : [Prompts!Names -> Prof \cup {NoProfile}], old : BOOLEAN]
  BY DEF ProfilesInv, ProfilesTyped
<1>2. CASE panel' = [panel EXCEPT !.old = TRUE]
  <2>1. panel' \in [list : [Prompts!Names -> Prof \cup {NoProfile}], old : BOOLEAN] /\ panel'.old
    BY <1>1, <1>2, Zenon
  <2> QED
    BY <2>1 DEF Prompts!PanelListFresh
<1>3. CASE panel' = panel /\ dir.files = disk[d].files
  <2>1. \A e \in Prompts!Dirs : disk'[e].files = disk[e].files
    BY <1>3 DEF ProfilesInv, ProfilesTyped
  <2>2. Prompts!Listing' = Prompts!Listing
    BY <2>1, SameFilesListed
  <2> QED
    BY <1>1, <1>3, <2>2 DEF ProfilesInv, Prompts!PanelListFresh
<1> QED
  BY <1>2, <1>3 DEF PanelTold

\* A writer other than the tool leaves the invariant as it is.
LEMMA WriterKeeps ==
  ASSUME ProfilesInv, UNCHANGED <<oddFirst, ptool, unseen>>, texts' \in 0..MaxTexts,
         editor' \in EditorType, NEW d \in Prompts!Dirs, NEW dir,
         WriterDoes(disk[d], dir, stamps + 1), dir.files["odd"] = disk[d].files["odd"],
         disk' = [disk EXCEPT ![d] = dir], Prompts!Stamps, PanelTold(d, dir),
         NEW works \in BOOLEAN, works => Keeps(disk[d], dir, "a2"), Prompts!LosesIf(works)
  PROVE  ProfilesInv'
<1>1. /\ disk' \in [Prompts!Dirs -> Directory] /\ disk'[d] = dir
      /\ \A e \in Prompts!Dirs \ {d} : disk'[e] = disk[e]
      /\ stamps' \in 0..MaxStamps /\ \A e \in Prompts!Dirs : TakenBy(disk'[e], stamps')
  BY DirectoriesAre, Zenon
<1>2. Prompts!EditsReversible'
  BY LossesAre, Zenon
<1>3. /\ panel' \in [list : [Prompts!Names -> Prof \cup {NoProfile}], old : BOOLEAN]
      /\ Prompts!PanelListFresh'
  BY PanelKnows, Zenon
<1>4. \A e \in Prompts!Dirs : disk'[e].files["odd"] = disk[e].files["odd"]
  BY <1>1
<1>5. OddMoves'
  BY <1>4, SameTool
<1>6. ProfilesTyped'
  BY <1>1, <1>3 DEF ProfilesInv, ProfilesTyped, EditorType
<1>7. Prompts!ToolEditShows'
  BY DEF ProfilesInv, Prompts!ToolEditShows
<1> QED
  BY <1>1, <1>2, <1>3, <1>5, <1>6, <1>7 DEF ProfilesInv, TakenBy

\* So does one that sets one file of the primary directory and excuses what it had.
LEMMA SetterKeeps ==
  ASSUME ProfilesInv, UNCHANGED <<oddFirst, ptool, unseen, stamps>>, texts' \in 0..MaxTexts,
         editor' \in EditorType, NEW f \in Prompts!Names, NEW p \in Prof \cup {NoProfile}, NEW dir,
         dir = [disk["primary"] EXCEPT !.files[f] = p],
         disk' = [disk EXCEPT !["primary"] = dir], PanelTold("primary", dir),
         Prompts!Loses({disk["primary"].files[f]})
  PROVE  ProfilesInv'
<1>1. "primary" \in Prompts!Dirs /\ disk \in [Prompts!Dirs -> Directory] /\ gone \subseteq {"a2"}
  BY DEF ProfilesInv, ProfilesTyped, Prompts!Dirs, Prompts!EditsReversible
<1>2. PICK was : was = disk["primary"]
  OBVIOUS
<1>3. was \in Directory /\ f \in Prompts!FileNames /\ f # "odd"
  BY <1>1, <1>2, NoneApart
<1>4. /\ dir \in Directory /\ dir.hist = was.hist
      /\ \A g \in Prompts!FileNames \ {f} : dir.files[g] = was.files[g]
  <2>1. dir = [was EXCEPT !.files[f] = p]
    BY <1>2
  <2>2. dir \in Directory /\ dir.hist = was.hist
    BY <1>3, <2>1 DEF Directory
  <2>3. ASSUME NEW g \in Prompts!FileNames \ {f} PROVE dir.files[g] = was.files[g]
    BY <1>3, <2>1, <2>3 DEF Directory
  <2> QED
    BY <2>2, <2>3
<1>5. /\ disk' \in [Prompts!Dirs -> Directory] /\ disk'["primary"] = dir
      /\ \A e \in Prompts!Dirs \ {"primary"} : disk'[e] = disk[e]
  BY <1>1, <1>4
<1>6. \A e \in Prompts!Dirs : TakenBy(disk'[e], stamps')
  BY <1>1, <1>2, <1>4, <1>5 DEF ProfilesInv, TakenBy
<1>7. /\ panel' \in [list : [Prompts!Names -> Prof \cup {NoProfile}], old : BOOLEAN]
      /\ Prompts!PanelListFresh'
  BY <1>1, PanelKnows, Zenon
<1>8. \A e \in Prompts!Dirs : disk'[e].files["odd"] = disk[e].files["odd"]
  BY <1>2, <1>3, <1>4, <1>5, NoneApart
<1>9. OddMoves'
  BY <1>8, SameTool
<1>10. ProfilesTyped'
  BY <1>5, <1>7 DEF ProfilesInv, ProfilesTyped, EditorType
<1>11. ASSUME NEW g \in Prompts!FileNames, NEW e \in Prompts!Dirs
       PROVE  disk[e].files[g] \in Prompts!Held(disk'[e]) \cup {was.files[f]} \cup {NoProfile}
  <2>1. CASE e = "primary" /\ g = f
    BY <1>2, <2>1
  <2>2. CASE e = "primary" /\ g # f
    <3>1. dir.files[g] = was.files[g]
      BY <1>4, <2>2
    <3>2. dir.files[g] \in Prompts!Held(dir)
      BY <1>4, HeldHas, Zenon
    <3>3. disk[e].files[g] = dir.files[g] /\ disk'[e] = dir
      BY <1>2, <1>5, <2>2, <3>1
    <3> QED
      BY <3>2, <3>3
  <2>3. CASE e # "primary"
    <3>1. disk'[e] = disk[e] /\ disk[e] \in Directory
      BY <1>1, <1>5, <2>3
    <3>2. disk[e].files[g] \in Prompts!Held(disk[e])
      BY <3>1, HeldHas
    <3> QED
      BY <3>1, <3>2
  <2> QED
    BY <2>1, <2>2, <2>3
<1>12. Prompts!EditsReversible'
  <2>1. gone' = gone \cup {g \in Prompts!FileNames : \E e \in Prompts!Dirs :
                 disk[e].files[g] \notin Prompts!Held(disk'[e]) \cup {was.files[f]} \cup {NoProfile}}
    BY <1>2 DEF Prompts!Loses
  <2>2. gone' = gone
    BY <1>11, <2>1
  <2> QED
    BY <1>1, <2>2 DEF Prompts!EditsReversible
<1>13. Prompts!ToolEditShows'
  BY DEF ProfilesInv, Prompts!ToolEditShows
<1> QED
  BY <1>5, <1>6, <1>7, <1>9, <1>10, <1>12, <1>13 DEF ProfilesInv, TakenBy

LEMMA TimesAre ==
  ASSUME ProfilesInv, Prompts!Stamps, NEW d \in Prompts!Dirs
  PROVE  /\ disk[d] \in Directory /\ stamps + 1 \in 1..MaxStamps /\ (stamps + 1) + 1 <= MaxStamps
         /\ TakenBy(disk[d], (stamps + 1) - 1)
<1>1. stamps \in 0..MaxStamps /\ stamps + 2 <= MaxStamps /\ disk \in [Prompts!Dirs -> Directory]
  BY DEF ProfilesInv, ProfilesTyped, Prompts!Stamps
<1>2. (stamps + 1) - 1 = stamps
  BY <1>1
<1>3. \A s \in disk[d].hist : s.at <= (stamps + 1) - 1
  BY <1>2 DEF ProfilesInv, TakenBy
<1>4. TakenBy(disk[d], (stamps + 1) - 1)
  BY <1>3 DEF TakenBy
<1> QED
  BY <1>1, <1>4, BoundAssumption

LEMMA FreshTextIs ==
  ASSUME ProfilesInv, Prompts!Fresh
  PROVE  texts + 1 \in 0..MaxTexts /\ texts' = texts + 1
BY BoundAssumption DEF ProfilesInv, ProfilesTyped, Prompts!Fresh

LEMMA EditorSavesKeeps ==
  ASSUME ProfilesInv, UNCHANGED oddFirst, NEW n \in Prompts!Names, NEW works \in BOOLEAN,
         NEW saved \in BOOLEAN, Prompts!EditorSaves(n, works, saved)
  PROVE  ProfilesInv'
<1>1. /\ editor.old \in Prompts!Names /\ Prompts!Fresh /\ Prompts!Stamps /\ Prompts!LosesIf(works)
      /\ UNCHANGED <<ptool, unseen>> /\ panel' = [panel EXCEPT !.old = TRUE]
  BY DEF Prompts!EditorSaves, Prompts!Bump
<1>2. PICK d, dir, t, p, old : /\ d = "primary" /\ dir = disk[d] /\ t = stamps + 1
                               /\ p = Prompts!FromForm(n) /\ old = editor.old
  OBVIOUS
<1>3. d \in Prompts!Dirs /\ old \in Prompts!Names
  BY <1>1, <1>2 DEF Prompts!Dirs
<1>4. p \in Prof
  BY <1>1, <1>2, FreshTextIs DEF Prof, Prompts!Profile, Prompts!FromForm
<1>5. dir \in Directory /\ t \in 1..MaxStamps /\ t + 1 <= MaxStamps /\ TakenBy(dir, t - 1)
  BY <1>1, <1>2, <1>3, TimesAre
<1>6. PICK edited : edited = Prompts!Edit(dir, old, p, t, works, saved)
  OBVIOUS
<1>7. /\ WriterDoes(dir, edited, t)
      /\ works => Keeps(dir, edited, "a2")
      /\ edited.files["odd"] = dir.files["odd"]
  BY <1>3, <1>4, <1>5, <1>6, EditIs
<1>8. disk' = [disk EXCEPT ![d] = edited]
  BY <1>2, <1>6 DEF Prompts!EditorSaves, Prompts!Change
<1>9. editor' \in EditorType
  <2>1. Prompts!Known' \subseteq Prompts!Names
    BY DEF Prompts!Known
  <2> QED
    BY <2>1 DEF EditorType, Prompts!EditorSaves, ProfilesInv, ProfilesTyped
<1>10. /\ WriterDoes(disk[d], edited, stamps + 1) /\ edited.files["odd"] = disk[d].files["odd"]
       /\ (works => Keeps(disk[d], edited, "a2")) /\ PanelTold(d, edited)
  BY <1>1, <1>2, <1>7 DEF PanelTold
<1>11. texts' \in 0..MaxTexts
  BY <1>1, FreshTextIs
<1> QED
  BY <1>1, <1>3, <1>8, <1>9, <1>10, <1>11, WriterKeeps, Zenon

LEMMA PanelApprovesKeeps ==
  ASSUME ProfilesInv, UNCHANGED oddFirst, NEW n \in Prompts!Names, NEW works \in BOOLEAN,
         NEW saved \in BOOLEAN, Prompts!PanelApproves(n, works, saved)
  PROVE  ProfilesInv'
<1>1. /\ Prompts!DirOf(n) # NoProfile /\ Prompts!Fresh /\ Prompts!Stamps /\ Prompts!LosesIf(works)
      /\ UNCHANGED <<ptool, editor, unseen>> /\ panel' = [panel EXCEPT !.old = TRUE]
  BY DEF Prompts!PanelApproves, Prompts!Bump
<1>2. PICK d, dir, t, was, p : /\ d = Prompts!DirOf(n) /\ dir = disk[d] /\ t = stamps + 1
                               /\ was = Prompts!Discovered(n)
                               /\ p = [was EXCEPT !.text = texts + 1]
  BY Zenon
<1>3. d \in Prompts!Dirs /\ was \in Prof
  BY <1>1, <1>2, DiscoveredIs DEF ProfilesInv
<1>4. p \in Prof
  BY <1>1, <1>2, <1>3, FreshTextIs DEF Prof, Prompts!Profile
<1>5. dir \in Directory /\ t \in 1..MaxStamps /\ t + 1 <= MaxStamps /\ TakenBy(dir, t - 1)
  BY <1>1, <1>2, <1>3, TimesAre
<1>6. PICK edited : edited = Prompts!Edit(dir, n, p, t, works, saved)
  OBVIOUS
<1>7. /\ WriterDoes(dir, edited, t)
      /\ works => Keeps(dir, edited, "a2")
      /\ edited.files["odd"] = dir.files["odd"]
  BY <1>4, <1>5, <1>6, EditIs
<1>8. disk' = [disk EXCEPT ![d] = edited]
  BY <1>2, <1>6 DEF Prompts!PanelApproves, Prompts!Change
<1>9. editor' \in EditorType
  BY <1>1 DEF EditorType, ProfilesInv, ProfilesTyped
<1>10. /\ WriterDoes(disk[d], edited, stamps + 1) /\ edited.files["odd"] = disk[d].files["odd"]
       /\ (works => Keeps(disk[d], edited, "a2")) /\ PanelTold(d, edited)
  BY <1>1, <1>2, <1>7 DEF PanelTold
<1>11. texts' \in 0..MaxTexts
  BY <1>1, FreshTextIs
<1> QED
  BY <1>1, <1>3, <1>8, <1>9, <1>10, <1>11, WriterKeeps, Zenon

\* A revert, by the dialog or the panel, to the snapshot s of the directory d.
LEMMA RevertKeeps ==
  ASSUME ProfilesInv, UNCHANGED <<oddFirst, ptool, unseen, texts>>, editor' \in EditorType,
         NEW n \in Prompts!Names, NEW d \in Prompts!Dirs, NEW s, s \in disk[d].hist,
         NEW works \in BOOLEAN, Prompts!Stamps, Prompts!LosesIf(works),
         Prompts!Change(d, Prompts!Restore(disk[d], n, s, stamps + 1, works)),
         Prompts!Restored(disk'[d], s) => panel' = [panel EXCEPT !.old = TRUE],
         ~Prompts!Restored(disk'[d], s) => panel' = panel
  PROVE  ProfilesInv'
<1>1. PICK dir, t : dir = disk[d] /\ t = stamps + 1
  OBVIOUS
<1>2. dir \in Directory /\ t \in 1..MaxStamps /\ t + 1 <= MaxStamps /\ TakenBy(dir, t - 1)
  BY <1>1, TimesAre
<1>3. s \in Snapshots
  BY <1>1, <1>2 DEF Directory
<1>4. PICK new : new = Prompts!Restore(dir, n, s, t, works)
  OBVIOUS
<1>5. /\ WriterDoes(dir, new, t)
      /\ new.files["odd"] = dir.files["odd"]
      /\ ~Prompts!Restored(new, s) => new.files = dir.files
      /\ works => Keeps(dir, new, "a2")
  BY <1>2, <1>3, <1>4, RestoreIs
<1>6. disk' = [disk EXCEPT ![d] = new]
  BY <1>1, <1>4 DEF Prompts!Change
<1>7. disk'[d] = new
  BY <1>6 DEF ProfilesInv, ProfilesTyped
<1>8. PanelTold(d, new)
  BY <1>1, <1>5, <1>7 DEF PanelTold
<1>9. /\ WriterDoes(disk[d], new, stamps + 1) /\ new.files["odd"] = disk[d].files["odd"]
      /\ (works => Keeps(disk[d], new, "a2"))
  BY <1>1, <1>5
<1>10. texts' \in 0..MaxTexts
  BY DEF ProfilesInv, ProfilesTyped
<1> QED
  BY <1>6, <1>8, <1>9, <1>10, WriterKeeps, Zenon

LEMMA EditorRevertsKeeps ==
  ASSUME ProfilesInv, UNCHANGED oddFirst, NEW d \in Prompts!Dirs, NEW s, s \in disk[d].hist,
         NEW works \in BOOLEAN, Prompts!EditorReverts(d, s, works)
  PROVE  ProfilesInv'
<1>1. /\ editor.old \in Prompts!Names /\ Prompts!Stamps /\ Prompts!LosesIf(works)
      /\ UNCHANGED <<texts, ptool, unseen>>
      /\ Prompts!Restored(disk'[d], s) => panel' = [panel EXCEPT !.old = TRUE]
      /\ ~Prompts!Restored(disk'[d], s) => panel' = panel
  BY DEF Prompts!EditorReverts, Prompts!Bump
<1>2. PICK n : n = editor.old
  OBVIOUS
<1>3. n \in Prompts!Names /\ Prompts!Change(d, Prompts!Restore(disk[d], n, s, stamps + 1, works))
  BY <1>1, <1>2 DEF Prompts!EditorReverts
<1>4. Prompts!Known' \subseteq Prompts!Names
  BY DEF Prompts!Known
<1>5. editor' = editor \/ \E o \in Prompts!Known' \cup {editor.old} : editor' = [list |-> Prompts!Known', old |-> o]
  BY DEF Prompts!EditorReverts
<1>6. editor' \in EditorType
  BY <1>1, <1>4, <1>5 DEF EditorType, ProfilesInv, ProfilesTyped
<1> QED
  BY <1>1, <1>3, <1>6, RevertKeeps

LEMMA PanelRevertsKeeps ==
  ASSUME ProfilesInv, UNCHANGED oddFirst, NEW n \in Prompts!Names, NEW works \in BOOLEAN,
         Prompts!PanelReverts(n, works)
  PROVE  ProfilesInv'
<1>1. /\ Prompts!Stamps /\ Prompts!LosesIf(works) /\ UNCHANGED <<texts, ptool, editor, unseen>>
  BY DEF Prompts!PanelReverts
<1>2. PICK d \in Prompts!Dirs : \E s \in Prompts!TakenFor(disk[d].hist, n) :
        /\ Prompts!Change(d, Prompts!Restore(disk[d], n, s, stamps + 1, works))
        /\ IF Prompts!Restored(disk'[d], s) THEN Prompts!Bump ELSE UNCHANGED panel
  BY DEF Prompts!PanelReverts
<1>3. PICK s \in Prompts!TakenFor(disk[d].hist, n) :
        /\ Prompts!Change(d, Prompts!Restore(disk[d], n, s, stamps + 1, works))
        /\ IF Prompts!Restored(disk'[d], s) THEN Prompts!Bump ELSE UNCHANGED panel
  BY <1>2
<1>4. s \in disk[d].hist
  BY DEF Prompts!TakenFor
<1>5. /\ Prompts!Restored(disk'[d], s) => panel' = [panel EXCEPT !.old = TRUE]
      /\ ~Prompts!Restored(disk'[d], s) => panel' = panel
  BY <1>3 DEF Prompts!Bump
<1>6. editor' \in EditorType
  BY <1>1 DEF EditorType, ProfilesInv, ProfilesTyped
<1> QED
  BY <1>1, <1>3, <1>4, <1>5, <1>6, RevertKeeps

LEMMA EditorAddsKeeps ==
  ASSUME ProfilesInv, UNCHANGED oddFirst, NEW n \in Prompts!Names, Prompts!EditorAdds(n)
  PROVE  ProfilesInv'
<1>1. /\ Prompts!Fresh /\ UNCHANGED <<stamps, ptool, unseen>>
      /\ panel' = [panel EXCEPT !.old = TRUE]
      /\ Prompts!Loses({disk["primary"].files[n]})
  BY DEF Prompts!EditorAdds, Prompts!Bump, Prompts!Conventional
<1>2. PICK p : p = Prompts!FromForm(n)
  OBVIOUS
<1>3. p \in Prof /\ texts' \in 0..MaxTexts
  BY <1>1, <1>2, FreshTextIs DEF Prof, Prompts!Profile, Prompts!FromForm
<1>4. PICK dir : dir = [disk["primary"] EXCEPT !.files[n] = p]
  BY Zenon
<1>5. disk' = [disk EXCEPT !["primary"] = dir]
  BY <1>2, <1>4 DEF Prompts!EditorAdds, Prompts!Change, Prompts!With, Prompts!Conventional
<1>6. editor' \in EditorType
  BY DEF EditorType, Prompts!EditorAdds, Prompts!Known
<1>7. PanelTold("primary", dir)
  BY <1>1 DEF PanelTold
<1> QED
  BY <1>1, <1>3, <1>4, <1>5, <1>6, <1>7, SetterKeeps, Zenon

LEMMA EditorDeletesKeeps ==
  ASSUME ProfilesInv, UNCHANGED oddFirst, Prompts!EditorDeletes
  PROVE  ProfilesInv'
<1>1. PICK n : n = editor.old
  OBVIOUS
<1>2. /\ n \in Prompts!Names /\ UNCHANGED <<texts, stamps, ptool, unseen>>
      /\ Prompts!Loses({disk["primary"].files[n]})
      /\ IF disk["primary"].files[n] = NoProfile THEN panel' = panel
         ELSE panel' = [panel EXCEPT !.old = TRUE]
  BY <1>1 DEF Prompts!EditorDeletes, Prompts!Bump, Prompts!Conventional
<1>3. PICK dir : dir = [disk["primary"] EXCEPT !.files[n] = NoProfile]
  BY Zenon
<1>4. disk' = [disk EXCEPT !["primary"] = dir]
  BY <1>1, <1>3 DEF Prompts!EditorDeletes, Prompts!Change, Prompts!Without, Prompts!Conventional
<1>5. editor' \in EditorType
  BY DEF EditorType, Prompts!EditorDeletes, ProfilesInv, ProfilesTyped
<1>6. PanelTold("primary", dir)
  <2>1. disk["primary"] \in Directory
    BY DEF ProfilesInv, ProfilesTyped, Prompts!Dirs
  <2>2. ASSUME disk["primary"].files[n] = NoProfile PROVE dir.files = disk["primary"].files
    BY <1>3, <2>1, <2>2 DEF Directory
  <2> QED
    BY <1>2, <2>2 DEF PanelTold
<1>7. texts' \in 0..MaxTexts
  BY <1>2 DEF ProfilesInv, ProfilesTyped
<1> QED
  BY <1>2, <1>3, <1>4, <1>5, <1>6, <1>7, SetterKeeps, Zenon

\* Nothing is written.
LEMMA ReaderKeeps ==
  ASSUME ProfilesInv, UNCHANGED <<oddFirst, disk, texts, stamps, ptool, gone, unseen>>,
         editor' \in EditorType,
         panel' \in {panel, [panel EXCEPT !.old = TRUE], [list |-> Prompts!Listing, old |-> FALSE]}
  PROVE  ProfilesInv'
<1>1. Prompts!Listing' = Prompts!Listing
  BY SameFilesListed
<1>2. ProfilesTyped
  BY DEF ProfilesInv
<1>3. panel' \in [list : [Prompts!Names -> Prof \cup {NoProfile}], old : BOOLEAN]
  <2>1. Prompts!Listing \in [Prompts!Names -> Prof \cup {NoProfile}]
    BY <1>2, ListingTyped
  <2>2. panel \in [list : [Prompts!Names -> Prof \cup {NoProfile}], old : BOOLEAN]
    BY <1>2 DEF ProfilesTyped
  <2>3. [panel EXCEPT !.old = TRUE] \in [list : [Prompts!Names -> Prof \cup {NoProfile}], old : BOOLEAN]
    BY <2>2, Zenon
  <2>4. [list |-> Prompts!Listing, old |-> FALSE]
          \in [list : [Prompts!Names -> Prof \cup {NoProfile}], old : BOOLEAN]
    BY <2>1
  <2> QED
    BY <2>2, <2>3, <2>4, Zenon
<1>4. Prompts!PanelListFresh'
  BY <1>1, <1>2 DEF ProfilesInv, ProfilesTyped, Prompts!PanelListFresh
<1>5. ProfilesTyped'
  BY <1>2, <1>3 DEF ProfilesTyped, EditorType
<1>6. OddMoves'
  BY SameTool
<1> QED
  BY <1>4, <1>5, <1>6 DEF ProfilesInv, TakenBy, Prompts!EditsReversible, Prompts!ToolEditShows

LEMMA ReadersKeep ==
  ASSUME ProfilesInv, UNCHANGED oddFirst,
         \/ Prompts!EditorLoads \/ Prompts!EditorStartsNew \/ Prompts!PanelRefreshes
         \/ \E n \in Prompts!Names : Prompts!EditorSelects(n)
  PROVE  ProfilesInv'
<1>1. UNCHANGED <<oddFirst, disk, texts, stamps, ptool, gone, unseen>>
  BY DEF Prompts!EditorLoads, Prompts!EditorStartsNew, Prompts!PanelRefreshes, Prompts!EditorSelects
<1>2. editor \in EditorType
  BY DEF ProfilesInv, ProfilesTyped, EditorType
<1>3. editor' \in EditorType
  BY <1>2 DEF EditorType, Prompts!Known, Prompts!EditorLoads, Prompts!EditorStartsNew,
              Prompts!PanelRefreshes, Prompts!EditorSelects
<1>4. panel' \in {panel, [panel EXCEPT !.old = TRUE], [list |-> Prompts!Listing, old |-> FALSE]}
  BY DEF Prompts!EditorLoads, Prompts!EditorStartsNew, Prompts!PanelRefreshes,
         Prompts!EditorSelects, Prompts!Bump
<1> QED
  BY <1>1, <1>3, <1>4, ReaderKeeps

LEMMA ProfilesInit ==
  ASSUME Prompts!Init
  PROVE  ProfilesInv
<1>1. disk \in [Prompts!Dirs -> Directory] /\ \A d \in Prompts!Dirs : disk[d].hist = {}
  <2>1. 0 \in 0..MaxTexts
    BY BoundAssumption
  <2>2. PICK first, second, odd \in BOOLEAN :
       disk = [d \in Prompts!Dirs |->
         [files |-> [f \in Prompts!FileNames |->
            IF d = "primary" /\ f = "a" /\ first THEN [name |-> "a", text |-> 0, hidden |-> TRUE]
            ELSE IF d = "project" /\ f = "a2" /\ second THEN [name |-> "a2", text |-> 0, hidden |-> TRUE]
            ELSE IF d = "project" /\ f = "odd" /\ odd THEN [name |-> "a", text |-> 0, hidden |-> FALSE]
            ELSE NoProfile],
          hist |-> {}]]
    BY Zenon DEF Prompts!Init
  <2>3. \A n \in Prompts!Names, h \in BOOLEAN : [name |-> n, text |-> 0, hidden |-> h] \in Prof
    BY <2>1 DEF Prof, Prompts!Profile
  <2>4. "a" \in Prompts!Names /\ "a2" \in Prompts!Names
    BY DEF Prompts!Names
  <2>5. \A d \in Prompts!Dirs : disk[d] \in Directory /\ disk[d].hist = {}
    BY <2>2, <2>3, <2>4, Zenon DEF Directory
  <2> QED
    BY <2>2, <2>5
<1>2. ProfilesTyped
  <2>1. Prompts!Known \subseteq Prompts!Names
    BY DEF Prompts!Known
  <2>2. editor \in EditorType
    BY <2>1 DEF Prompts!Init, EditorType
  <2>3. texts \in 0..MaxTexts /\ stamps \in 0..MaxStamps /\ ptool = Prompts!NoTool
    BY BoundAssumption DEF Prompts!Init
  <2>4. \A n \in Prompts!Names : Prompts!Discovered(n) \in Prof \cup {NoProfile}
    <3>1. ASSUME NEW n \in Prompts!Names, Prompts!DirOf(n) # NoProfile
          PROVE  Prompts!Discovered(n) \in Prof
      <4>1. PICK d : d = Prompts!DirOf(n)
        OBVIOUS
      <4>2. PICK dir : dir = disk[d]
        OBVIOUS
      <4>3. d \in Prompts!Dirs /\ dir \in Directory
        BY <1>1, <3>1, <4>1, <4>2 DEF Prompts!DirOf, Prompts!Dirs
      <4>4. PICK f : f = Prompts!FileIn(dir, n)
        OBVIOUS
      <4>5. f = Prompts!FileOf(d, n) /\ f # NoProfile
        BY <3>1, <4>1, <4>2, <4>4 DEF Prompts!FileOf, Prompts!DirOf
      <4>6. Prompts!FileIn(dir, n) # NoProfile => dir.files[Prompts!FileIn(dir, n)] \in Prof
        BY <4>3, FileInIs
      <4>7. Prompts!Discovered(n) = dir.files[f]
        BY <3>1, <4>1, <4>2, <4>5 DEF Prompts!Discovered
      <4> QED
        BY <4>4, <4>5, <4>6, <4>7
    <3> QED
      BY <3>1 DEF Prompts!Discovered
  <2>5. panel \in [list : [Prompts!Names -> Prof \cup {NoProfile}], old : BOOLEAN]
    BY <2>4 DEF Prompts!Init, Prompts!Listing
  <2> QED
    BY <1>1, <2>2, <2>3, <2>5 DEF ProfilesTyped, EditorType
<1>3. OddMoves
  <2>1. ptool.at = "idle"
    BY DEF Prompts!Init, Prompts!NoTool
  <2> QED
    BY <2>1 DEF OddMoves
<1>4. Prompts!EditsReversible /\ Prompts!ToolEditShows /\ Prompts!PanelListFresh
  BY DEF Prompts!Init, Prompts!EditsReversible, Prompts!ToolEditShows, Prompts!PanelListFresh
<1> QED
  BY <1>1, <1>2, <1>3, <1>4 DEF ProfilesInv, TakenBy

LEMMA ProfilesStep ==
  ASSUME ProfilesInv, Prompts!Next
  PROVE  ProfilesInv'
<1>1. UNCHANGED oddFirst /\ Prompts!Step
  BY DEF Prompts!Next
<1>2. CASE \E n, new \in Prompts!Names : Prompts!ToolFinds(n, new)
  BY <1>1, <1>2, ToolFindsKeeps
<1>3. CASE \E works \in BOOLEAN : Prompts!ToolMoves(works)
  BY <1>1, <1>3, ToolMovesKeeps
<1>4. CASE \E works, saved \in BOOLEAN : Prompts!ToolEdits(works, saved)
  BY <1>1, <1>4, ToolEditsKeeps
<1>5. CASE \/ Prompts!EditorLoads \/ Prompts!EditorStartsNew \/ Prompts!PanelRefreshes
           \/ \E n \in Prompts!Names : Prompts!EditorSelects(n)
  BY <1>1, <1>5, ReadersKeep
<1>6. CASE Prompts!EditorDeletes
  BY <1>1, <1>6, EditorDeletesKeeps
<1>7. CASE \E n \in Prompts!Names : Prompts!EditorAdds(n)
  BY <1>1, <1>7, EditorAddsKeeps
<1>8. CASE \E n \in Prompts!Names, works \in BOOLEAN, saved \in BOOLEAN : Prompts!EditorSaves(n, works, saved)
  BY <1>1, <1>8, EditorSavesKeeps
<1>9. CASE \E n \in Prompts!Names, works \in BOOLEAN, saved \in BOOLEAN : Prompts!PanelApproves(n, works, saved)
  BY <1>1, <1>9, PanelApprovesKeeps
<1>10. CASE \E d \in Prompts!Dirs : \E s \in disk[d].hist, works \in BOOLEAN : Prompts!EditorReverts(d, s, works)
  BY <1>1, <1>10, EditorRevertsKeeps
<1>11. CASE \E n \in Prompts!Names, works \in BOOLEAN : Prompts!PanelReverts(n, works)
  BY <1>1, <1>11, PanelRevertsKeeps
<1> QED
  BY <1>1, <1>2, <1>3, <1>4, <1>5, <1>6, <1>7, <1>8, <1>9, <1>10, <1>11 DEF Prompts!Step

LEMMA ProfilesAreSafe ==
  ASSUME ProfilesInv
  PROVE  Prompts!ProfileSafe
<1>1. \A d \in Prompts!Dirs : disk[d] \in Directory
  BY DEF ProfilesInv, ProfilesTyped
<1>2. \A d \in Prompts!Dirs :
        /\ \A f \in Prompts!FileNames : disk[d].files[f] = NoProfile \/ disk[d].files[f] \in Prof
        /\ \A s \in disk[d].hist : s.of \in Prompts!Names /\ s.at \in 1..MaxStamps /\ s.was \in Prof
  BY <1>1 DEF Directory, Snapshots
<1>3. ptool.at \in {"idle", "found", "moved"}
  BY DEF ProfilesInv, ProfilesTyped, ToolCall, Prompts!NoTool
<1>4. editor.old \in Prompts!Names \cup {"new", NoProfile}
  BY DEF ProfilesInv, ProfilesTyped
<1> QED
  BY <1>2, <1>3, <1>4 DEF ProfilesInv, Prompts!ProfileSafe, Prompts!TypeOK, Prof

-----------------------------------------------------------------------------
(* The improvement loop: documents, and who is saving one.                 *)

Reviewed == {"a"}
State == [last : Nat, runs : Nat, streak : Nat, judged : BOOLEAN]
Document == [Reviewed -> State]
Kinds == {"auto", "demand"}
Operations == {"count", "judge", "found", "empty"}
Waiting == [pc : {"gate", "judging", "asking"}, agent : Reviewed, kind : Kinds]
Recording == [pc : {"recording"}, agent : Reviewed, kind : Kinds, op : {"found", "empty"}]
Loaded ==
  [pc : {"loaded"}, agent : Reviewed, kind : Kinds, op : Operations, time : Nat, copy : Document]
Writing ==
  [pc : {"writing", "filled"}, at : {"tmp", "doc", "gone"}, agent : Reviewed, kind : Kinds,
   op : Operations, time : Nat, copy : Document]

ImprovementTyped ==
  /\ doc \in Document \cup {Improve!Torn}
  /\ tmp \in Document \cup {Improve!Torn, Improve!None}
  /\ truth \in Document
  /\ now \in Nat /\ upsets \in Nat /\ raced \in BOOLEAN
  /\ lesson \in [Reviewed -> Nat] /\ news \in [Reviewed -> {"none", "new", "tried", "during"}]
  /\ actor \in [Actors -> {Improve!Idle} \cup Waiting \cup Recording \cup Loaded \cup Writing]

WritesAt(q, at) == actor[q].pc = "writing" /\ actor[q].at = at
\* Whoever emptied a file is going to fill it.
BeingFilled ==
  /\ doc = Improve!Torn => upsets > 0 \/ \E q \in Actors : WritesAt(q, "doc")
  /\ tmp = Improve!Torn => upsets > 0 \/ \E q \in Actors : WritesAt(q, "tmp")

\* A thread that saves alone has what counts, but for its own update.
SavesAlone ==
  ~raced =>
    /\ Improve!Read(doc) = truth
    /\ \A p, q \in Actors : Improve!Saving(p) /\ Improve!Saving(q) => p = q
    /\ \A p \in Actors : Improve!Saving(p) =>
         /\ actor[p].copy = [truth EXCEPT ![actor[p].agent] =
                               Improve!Changed(@, actor[p].op, actor[p].time)]
         /\ actor[p].pc = "writing" => actor[p].at = "tmp"
         /\ actor[p].pc = "filled" => tmp = actor[p].copy

\* Every document there is.
Documents ==
  {truth, Improve!Read(doc)} \cup ({tmp} \ {Improve!Torn, Improve!None})
    \cup {actor[p].copy : p \in {q \in Actors : Improve!Saving(q)}}
\* The thread is about to move the baseline of agent a.
Concludes(p, a) ==
  /\ actor[p].pc = "recording" \/ (Improve!Saving(p) /\ actor[p].op \in {"found", "empty"})
  /\ actor[p].agent = a
\* No document's baseline is past a lesson that no check has tried.
LessonsAhead ==
  \A a \in Reviewed :
    /\ lesson[a] <= now
    /\ \A D \in Documents : D[a].last <= now
    /\ news[a] = "new" =>
         /\ lesson[a] > 0
         /\ \A D \in Documents : D[a].last < lesson[a]
         /\ \A p \in Actors : ~Concludes(p, a)

ImprovementInv == ImprovementTyped /\ BeingFilled /\ SavesAlone /\ LessonsAhead

ActorType == {Improve!Idle} \cup Waiting \cup Recording \cup Loaded \cup Writing
Quiet == {Improve!Idle} \cup Waiting \cup Recording

LEMMA FilesDiffer ==
  /\ Improve!Torn \notin Document /\ Improve!None \notin Document /\ Improve!Torn # Improve!None
  /\ Improve!Default \in Document /\ \A a \in Reviewed : Improve!Default[a].last = 0
<1>1. DOMAIN Improve!Torn = {} /\ DOMAIN Improve!None = {"none"}
  BY DEF Improve!Torn, Improve!None
<1>2. \A D \in Document : DOMAIN D = {"a"}
  BY DEF Document, Reviewed
<1>3. Improve!Default \in Document /\ \A a \in Reviewed : Improve!Default[a].last = 0
  BY DEF Document, Reviewed, State, Improve!Default, Improve!Fresh
<1>4. {"a"} # {} /\ {"a"} # {"none"} /\ {"none"} # {}
  OBVIOUS
<1> QED
  BY <1>1, <1>2, <1>3, <1>4

LEMMA ReadIs ==
  \A file \in Document \cup {Improve!Torn} :
    /\ Improve!Read(file) \in Document
    /\ Improve!Read(file) \in {file, Improve!Default}
    /\ file \in Document => Improve!Read(file) = file
BY FilesDiffer DEF Improve!Read

\* An update moves the baseline to its time, or leaves it where it was.
LEMMA ChangedIs ==
  \A s \in State, op \in Operations, time \in Nat :
    /\ Improve!Changed(s, op, time) \in State
    /\ Improve!Changed(s, op, time).last = IF op \in {"found", "empty"} THEN time ELSE s.last
<1> SUFFICES ASSUME NEW s \in State, NEW op \in Operations, NEW time \in Nat
             PROVE  /\ Improve!Changed(s, op, time) \in State
                    /\ Improve!Changed(s, op, time).last = IF op \in {"found", "empty"} THEN time ELSE s.last
  OBVIOUS
<1>1. CASE op = "count"
  BY <1>1 DEF Improve!Changed, State
<1>2. CASE op = "judge"
  BY <1>2, Zenon DEF Improve!Changed, State
<1>3. CASE op = "found"
  BY <1>3, Zenon DEF Improve!Changed, State
<1>4. CASE op = "empty"
  <2>1. PICK k : k = IF s.streak < 4 THEN s.streak + 1 ELSE 4
    OBVIOUS
  <2>2. k \in Nat
    BY <2>1 DEF State
  <2>3. Improve!Changed(s, op, time) = [s EXCEPT !.last = time, !.runs = 0, !.streak = k]
    <3>1. Improve!Changed(s, op, time) =
            [s EXCEPT !.last = time, !.runs = 0, !.streak = IF @ < 4 THEN @ + 1 ELSE 4]
      BY <1>4 DEF Improve!Changed
    <3> QED
      BY <2>1, <3>1 DEF State
  <2>4. PICK c1 : c1 = [s EXCEPT !.last = time]
    BY Zenon
  <2>5. PICK c2 : c2 = [c1 EXCEPT !.runs = 0]
    BY Zenon
  <2>6. c1 \in State /\ c1.last = time
    BY <2>4 DEF State
  <2>7. c2 \in State /\ c2.last = time
    BY <2>5, <2>6 DEF State
  <2>8. Improve!Changed(s, op, time) = [c2 EXCEPT !.streak = k]
    BY <2>3, <2>4, <2>5
  <2> QED
    BY <1>4, <2>2, <2>7, <2>8 DEF State
<1> QED
  BY <1>1, <1>2, <1>3, <1>4 DEF Operations

\* What a thread is at says what it has.
LEMMA ActorIs ==
  ASSUME NEW r \in ActorType
  PROVE  /\ r.pc = "loaded" => r \in Loaded
         /\ r.pc \in {"writing", "filled"} => r \in Writing
         /\ r.pc = "recording" => r \in Recording
         /\ r.pc \in {"gate", "judging", "asking"} => r \in Waiting
         /\ r.pc = "idle" => r = Improve!Idle
         /\ r.pc \in {"loaded", "writing", "filled"} <=> r \notin Quiet
BY DEF ActorType, Quiet, Loaded, Writing, Recording, Waiting, Improve!Idle

LEMMA SaverIs ==
  ASSUME ImprovementTyped, NEW p \in Actors
  PROVE  /\ actor[p] \in ActorType
         /\ Improve!Saving(p) <=> actor[p] \notin Quiet
         /\ Improve!Saving(p) => /\ actor[p] \in Loaded \cup Writing
                                 /\ actor[p].agent \in Reviewed /\ actor[p].kind \in Kinds
                                 /\ actor[p].op \in Operations /\ actor[p].copy \in Document
<1>1. PICK r : r = actor[p]
  OBVIOUS
<1>2. r \in ActorType
  BY <1>1 DEF ImprovementTyped, ActorType
<1>3. r.pc \in {"loaded", "writing", "filled"} => r \in Loaded \cup Writing
  BY <1>2, ActorIs
<1>4. r \in Loaded \cup Writing =>
        r.agent \in Reviewed /\ r.kind \in Kinds /\ r.op \in Operations /\ r.copy \in Document
  BY DEF Loaded, Writing
<1>5. r.pc \in {"loaded", "writing", "filled"} <=> r \notin Quiet
  BY <1>2, ActorIs
<1> QED
  BY <1>1, <1>2, <1>3, <1>4, <1>5 DEF Improve!Saving

LEMMA DocumentsAre ==
  ASSUME ImprovementTyped
  PROVE  /\ Documents \subseteq Document
         /\ truth \in Documents /\ Improve!Read(doc) \in Documents
         /\ tmp \in Document => tmp \in Documents
         /\ \A p \in Actors : Improve!Saving(p) => actor[p].copy \in Documents
<1>1. truth \in Document /\ Improve!Read(doc) \in Document
  BY ReadIs DEF ImprovementTyped
<1>2. \A p \in Actors : Improve!Saving(p) => actor[p].copy \in Document
  BY SaverIs
<1>3. tmp \in Document \cup {Improve!Torn, Improve!None}
  BY DEF ImprovementTyped
<1> QED
  BY <1>1, <1>2, <1>3, FilesDiffer DEF Documents

\* Where no document is new but an empty one, no lesson is overtaken.
LEMMA LessonsStay ==
  ASSUME ImprovementInv, \A D \in Documents' : D \in Documents \cup {Improve!Default},
         UNCHANGED <<lesson, news, now>>,
         \A q \in Actors, a \in Reviewed : Concludes(q, a)' => Concludes(q, a)
  PROVE  LessonsAhead'
<1>1. now \in Nat /\ \A a \in Reviewed : Improve!Default[a].last = 0
  BY FilesDiffer DEF ImprovementInv, ImprovementTyped
<1>2. ASSUME NEW a \in Reviewed, NEW D \in Documents' PROVE D[a].last <= now
  BY <1>1, <1>2 DEF ImprovementInv, LessonsAhead
<1>3. ASSUME NEW a \in Reviewed, news[a] = "new"
      PROVE  /\ lesson[a] > 0 /\ \A D \in Documents' : D[a].last < lesson[a]
             /\ \A q \in Actors : ~Concludes(q, a)'
  <2>1. /\ lesson[a] > 0 /\ \A D \in Documents : D[a].last < lesson[a]
        /\ \A q \in Actors : ~Concludes(q, a)
    BY <1>3 DEF ImprovementInv, LessonsAhead
  <2> QED
    BY <1>1, <2>1
<1>4. \A a \in Reviewed : lesson[a] <= now
  BY DEF ImprovementInv, LessonsAhead
<1> QED
  BY <1>2, <1>3, <1>4 DEF LessonsAhead

\* A thread that saves nothing goes on to something that saves nothing.
LEMMA QuietKeeps ==
  ASSUME ImprovementInv, NEW p \in Actors, ~Improve!Saving(p), NEW r \in Quiet,
         actor' = [actor EXCEPT ![p] = r], UNCHANGED <<doc, tmp, truth, raced, upsets, lesson>>,
         now' \in Nat, now <= now', news' \in [Reviewed -> {"none", "new", "tried", "during"}],
         \A a \in Reviewed : news'[a] = "new" => /\ news[a] = "new"
                                                 /\ r.pc = "recording" => r.agent # a
  PROVE  ImprovementInv'
<1>1. ImprovementTyped /\ actor'[p] = r /\ \A q \in Actors \ {p} : actor'[q] = actor[q]
  BY DEF ImprovementInv, ImprovementTyped
<1>2. r.pc \notin {"loaded", "writing", "filled"}
  BY ActorIs DEF ActorType, Quiet
<1>3. actor[p].pc \notin {"loaded", "writing", "filled"}
  BY DEF Improve!Saving
<1>4. \A q \in Actors : Improve!Saving(q)' <=> Improve!Saving(q) /\ q # p
  BY <1>1, <1>2 DEF Improve!Saving
<1>5. \A q \in Actors : Improve!Saving(q) => q # p /\ actor'[q] = actor[q]
  BY <1>1
<1>6. ImprovementTyped'
  BY <1>1 DEF ImprovementTyped, Quiet
<1>7. BeingFilled'
  <2>1. \A q \in Actors : \A at : WritesAt(q, at) => WritesAt(q, at)'
    BY <1>1, <1>3 DEF WritesAt
  <2> QED
    BY <2>1 DEF ImprovementInv, BeingFilled
<1>8. SavesAlone'
  <2>1. Improve!Read(doc)' = Improve!Read(doc)
    BY DEF Improve!Read, Improve!Default
  <2> QED
    BY <1>4, <1>5, <2>1 DEF ImprovementInv, SavesAlone
<1>9. \A D \in Documents' : D \in Documents
  <2>1. Improve!Read(doc)' = Improve!Read(doc)
    BY DEF Improve!Read, Improve!Default
  <2> QED
    BY <1>4, <1>5, <2>1 DEF Documents
<1>10. \A q \in Actors, a \in Reviewed : Concludes(q, a)' =>
         Concludes(q, a) \/ (q = p /\ r.pc = "recording" /\ r.agent = a)
  BY <1>1, <1>2, <1>4, <1>5 DEF Concludes
<1>11. ASSUME NEW a \in Reviewed PROVE lesson[a] <= now' /\ \A D \in Documents' : D[a].last <= now'
  <2>1. lesson[a] <= now /\ \A D \in Documents : D[a].last <= now
    BY DEF ImprovementInv, LessonsAhead
  <2>2. now \in Nat /\ lesson[a] \in Nat /\ \A D \in Documents : D[a].last \in Nat
    BY <1>1, DocumentsAre DEF ImprovementTyped, Document, State
  <2> QED
    BY <1>9, <2>1, <2>2
<1>12. ASSUME NEW a \in Reviewed, news'[a] = "new"
       PROVE  /\ lesson[a] > 0 /\ \A D \in Documents' : D[a].last < lesson[a]
              /\ \A q \in Actors : ~Concludes(q, a)'
  BY <1>9, <1>10, <1>12 DEF ImprovementInv, LessonsAhead
<1>13. LessonsAhead'
  BY <1>11, <1>12 DEF LessonsAhead
<1> QED
  BY <1>6, <1>7, <1>8, <1>13 DEF ImprovementInv

\* A thread begins an update; where it moves a baseline, it was about to.
LEMMA LoadKeeps ==
  ASSUME ImprovementInv, NEW p \in Actors, NEW a \in Reviewed, NEW kind \in Kinds,
         NEW op \in Operations, Improve!Load(p, a, kind, op), ~Improve!Saving(p),
         op \in {"found", "empty"} => Concludes(p, a),
         UNCHANGED <<doc, tmp, lesson, news, now, truth, upsets>>
  PROVE  ImprovementInv'
<1>1. PICK D : D = Improve!Read(doc)
  OBVIOUS
<1>2. D \in Document /\ D \in Documents /\ now \in Nat
  BY <1>1, DocumentsAre DEF ImprovementInv, ImprovementTyped
<1>3. PICK c : c = [D EXCEPT ![a] = Improve!Changed(@, op, now)]
  BY Zenon
<1>4. c \in Document /\ c[a].last = (IF op \in {"found", "empty"} THEN now ELSE D[a].last)
  <2>1. D[a] \in State
    BY <1>2 DEF Document
  <2>2. /\ Improve!Changed(D[a], op, now) \in State
        /\ Improve!Changed(D[a], op, now).last = IF op \in {"found", "empty"} THEN now ELSE D[a].last
    BY <1>2, <2>1, ChangedIs
  <2> QED
    BY <1>2, <1>3, <2>2 DEF Document
<1>5. PICK r : r = [pc |-> "loaded", agent |-> a, kind |-> kind, op |-> op, time |-> now, copy |-> c]
  BY Zenon
<1>6. r \in Loaded
  BY <1>2, <1>4, <1>5 DEF Loaded
<1>7. actor' = [actor EXCEPT ![p] = r] /\ raced' = (raced \/ Improve!Others(p) # {})
  BY <1>1, <1>3, <1>5 DEF Improve!Load
<1>8. ImprovementTyped /\ actor'[p] = r /\ \A q \in Actors \ {p} : actor'[q] = actor[q]
  BY <1>7 DEF ImprovementInv, ImprovementTyped
<1>9. \A q \in Actors : Improve!Saving(q)' <=> Improve!Saving(q) \/ q = p
  BY <1>5, <1>8 DEF Improve!Saving
<1>10. \A q \in Actors : Improve!Saving(q) => q # p /\ actor'[q] = actor[q]
  BY <1>8
<1>11. Improve!Read(doc)' = D
  BY <1>1 DEF Improve!Read, Improve!Default
<1>12. ImprovementTyped'
  <2>1. raced' \in BOOLEAN
    BY <1>7, <1>8 DEF ImprovementTyped
  <2>2. actor' \in [Actors -> {Improve!Idle} \cup Waiting \cup Recording \cup Loaded \cup Writing]
    BY <1>6, <1>7, <1>8 DEF ImprovementTyped
  <2> QED
    BY <1>8, <2>1, <2>2 DEF ImprovementTyped
<1>13. BeingFilled'
  <2>1. \A q \in Actors : \A at : WritesAt(q, at) => WritesAt(q, at)'
    <3>1. actor[p].pc # "writing"
      BY DEF Improve!Saving
    <3> QED
      BY <1>8, <3>1 DEF WritesAt
  <2> QED
    BY <2>1 DEF ImprovementInv, BeingFilled
<1>14. SavesAlone'
  <2>1. SUFFICES ASSUME ~raced' PROVE SavesAlone'
    BY DEF SavesAlone
  <2>2. ~raced /\ Improve!Others(p) = {}
    BY <1>7, <2>1, Zenon
  <2>3. \A q \in Actors : Improve!Saving(q)' => q = p
    BY <1>9, <2>2 DEF Improve!Others
  <2>4. D = truth
    BY <1>1, <2>2 DEF ImprovementInv, SavesAlone
  <2>5. r.copy = [truth EXCEPT ![r.agent] = Improve!Changed(@, r.op, r.time)]
    BY <1>3, <1>5, <2>4
  <2>6. r.pc = "loaded"
    BY <1>5
  <2>7. \A q \in Actors : Improve!Saving(q)' =>
          /\ actor'[q].copy = [truth EXCEPT ![actor'[q].agent] =
                                 Improve!Changed(@, actor'[q].op, actor'[q].time)]
          /\ actor'[q].pc # "writing" /\ actor'[q].pc # "filled"
    BY <1>8, <2>3, <2>5, <2>6, Zenon
  <2> QED
    BY <1>11, <2>3, <2>4, <2>7 DEF SavesAlone
<1>15. \A E \in Documents' : E \in Documents \/ E = c
  <2>1. \A q \in Actors : Improve!Saving(q)' => actor'[q].copy = c \/ (Improve!Saving(q) /\ actor'[q].copy = actor[q].copy)
    BY <1>5, <1>8, <1>9
  <2> QED
    BY <1>2, <1>11, <2>1 DEF Documents
<1>16. \A q \in Actors, b \in Reviewed : Concludes(q, b)' => Concludes(q, b)
  <2>1. ASSUME NEW q \in Actors, NEW b \in Reviewed, Concludes(q, b)', q = p PROVE Concludes(q, b)
    BY <1>5, <1>8, <2>1 DEF Concludes
  <2>2. ASSUME NEW q \in Actors, NEW b \in Reviewed, Concludes(q, b)', q # p PROVE Concludes(q, b)
    BY <1>8, <1>9, <2>2 DEF Concludes
  <2> QED
    BY <2>1, <2>2
<1>17. ASSUME NEW b \in Reviewed PROVE c[b].last <= now /\ (news[b] = "new" => c[b].last < lesson[b])
  <2>1. a = b
    BY DEF Reviewed
  <2>2. D[b].last <= now /\ (news[b] = "new" => D[b].last < lesson[b] /\ ~Concludes(p, b))
    BY <1>2 DEF ImprovementInv, LessonsAhead
  <2> QED
    BY <1>2, <1>4, <2>1, <2>2
<1>18. LessonsAhead'
  BY <1>15, <1>16, <1>17 DEF ImprovementInv, LessonsAhead
<1> QED
  BY <1>12, <1>13, <1>14, <1>18 DEF ImprovementInv

LEMMA OpensKeeps ==
  ASSUME ImprovementInv, NEW p \in Actors, Improve!Opens(p)
  PROVE  ImprovementInv'
<1>1. /\ ImprovementTyped /\ actor[p].pc = "loaded" /\ tmp' = Improve!Torn
      /\ UNCHANGED <<doc, lesson, news, now, truth, raced, upsets>>
  BY DEF ImprovementInv, Improve!Opens
<1>2. PICK r : r = actor[p]
  OBVIOUS
<1>3. r \in Loaded
  BY <1>1, <1>2, SaverIs, ActorIs
<1>4. PICK s : s = [pc |-> "writing", at |-> "tmp", agent |-> r.agent, kind |-> r.kind, op |-> r.op,
                    time |-> r.time, copy |-> r.copy]
  BY Zenon
<1>5. s \in Writing
  BY <1>3, <1>4 DEF Loaded, Writing
<1>6. actor' = [actor EXCEPT ![p] = s]
  BY <1>2, <1>4 DEF Improve!Opens
<1>7. actor'[p] = s /\ \A q \in Actors \ {p} : actor'[q] = actor[q]
  BY <1>1, <1>6 DEF ImprovementTyped
<1>8. \A q \in Actors : (Improve!Saving(q)' <=> Improve!Saving(q)) /\ actor'[q].copy = actor[q].copy
  BY <1>1, <1>2, <1>4, <1>7 DEF Improve!Saving
<1>9. Improve!Read(doc)' = Improve!Read(doc)
  BY <1>1 DEF Improve!Read, Improve!Default
<1>10. ImprovementTyped'
  BY <1>1, <1>5, <1>6 DEF ImprovementTyped
<1>11. BeingFilled'
  <2>1. WritesAt(p, "tmp")'
    BY <1>4, <1>7 DEF WritesAt
  <2>2. \A q \in Actors : WritesAt(q, "doc") => WritesAt(q, "doc")'
    BY <1>1, <1>7 DEF WritesAt
  <2> QED
    BY <1>1, <2>1, <2>2 DEF ImprovementInv, BeingFilled
<1>12. SavesAlone'
  <2>1. SUFFICES ASSUME ~raced PROVE SavesAlone'
    BY <1>1 DEF SavesAlone
  <2>2. /\ Improve!Read(doc) = truth /\ \A q \in Actors : Improve!Saving(q) => q = p
        /\ r.copy = [truth EXCEPT ![r.agent] = Improve!Changed(@, r.op, r.time)]
    BY <1>1, <1>2, <2>1 DEF ImprovementInv, SavesAlone, Improve!Saving
  <2>3. s.copy = [truth EXCEPT ![s.agent] = Improve!Changed(@, s.op, s.time)] /\ s.pc = "writing" /\ s.at = "tmp"
    BY <1>4, <2>2
  <2>4. \A q \in Actors : Improve!Saving(q)' => q = p
    BY <1>8, <2>2
  <2> QED
    BY <1>1, <1>7, <1>9, <2>2, <2>3, <2>4 DEF SavesAlone
<1>13. \A D \in Documents' : D \in Documents \cup {Improve!Default}
  BY <1>1, <1>8, <1>9, FilesDiffer DEF Documents
<1>14. \A q \in Actors, a \in Reviewed : Concludes(q, a)' => Concludes(q, a)
  BY <1>1, <1>2, <1>4, <1>7, <1>8 DEF Concludes
<1>15. LessonsAhead'
  BY <1>1, <1>13, <1>14, LessonsStay
<1> QED
  BY <1>10, <1>11, <1>12, <1>15 DEF ImprovementInv

LEMMA FillsKeeps ==
  ASSUME ImprovementInv, NEW p \in Actors, Improve!Fills(p)
  PROVE  ImprovementInv'
<1>1. /\ ImprovementTyped /\ actor[p].pc = "writing"
      /\ UNCHANGED <<lesson, news, now, truth, raced, upsets>>
      /\ tmp' = IF actor[p].at = "tmp" THEN actor[p].copy ELSE tmp
      /\ doc' = IF actor[p].at = "doc" THEN actor[p].copy ELSE doc
      /\ actor' = [actor EXCEPT ![p].pc = "filled"]
  BY DEF ImprovementInv, Improve!Fills
<1>2. PICK r : r = actor[p]
  OBVIOUS
<1>3. r \in Writing
  BY <1>1, <1>2, SaverIs, ActorIs
<1>4. PICK s : s = [r EXCEPT !.pc = "filled"]
  BY Zenon
<1>5. /\ s \in Writing /\ s.pc = "filled" /\ s.agent = r.agent /\ s.op = r.op /\ s.time = r.time
      /\ s.copy = r.copy /\ r.copy \in Document
  BY <1>3, <1>4 DEF Writing
<1>6. actor' = [actor EXCEPT ![p] = s]
  BY <1>1, <1>2, <1>4 DEF ImprovementTyped
<1>7. actor'[p] = s /\ \A q \in Actors \ {p} : actor'[q] = actor[q]
  BY <1>1, <1>6 DEF ImprovementTyped
<1>8. \A q \in Actors : (Improve!Saving(q)' <=> Improve!Saving(q)) /\ actor'[q].copy = actor[q].copy
  BY <1>1, <1>2, <1>5, <1>7 DEF Improve!Saving
<1>9. Improve!Saving(p) /\ r.copy \in Documents
  BY <1>1, <1>2, DocumentsAre DEF Improve!Saving
<1>10. Improve!Read(doc)' \in {Improve!Read(doc), r.copy}
  <2>1. CASE r.at = "doc"
    <3>1. doc' = r.copy
      BY <1>1, <1>2, <2>1
    <3>2. Improve!Read(doc)' = r.copy
      BY <1>5, <3>1, FilesDiffer DEF Improve!Read
    <3> QED
      BY <3>2
  <2>2. CASE r.at # "doc"
    BY <1>1, <1>2, <2>2 DEF Improve!Read, Improve!Default
  <2> QED
    BY <2>1, <2>2
<1>11. ImprovementTyped'
  BY <1>1, <1>2, <1>5, <1>6 DEF ImprovementTyped
<1>12. BeingFilled'
  <2>1. ASSUME NEW q \in Actors, NEW at \in {"tmp", "doc"}, WritesAt(q, at), r.at # at
        PROVE  WritesAt(q, at)'
    BY <1>2, <1>7, <2>1 DEF WritesAt
  <2>2. doc' = Improve!Torn => doc = Improve!Torn /\ r.at # "doc"
    BY <1>1, <1>2, <1>5, FilesDiffer
  <2>3. tmp' = Improve!Torn => tmp = Improve!Torn /\ r.at # "tmp"
    BY <1>1, <1>2, <1>5, FilesDiffer
  <2> QED
    BY <1>1, <2>1, <2>2, <2>3 DEF ImprovementInv, BeingFilled
<1>13. SavesAlone'
  <2>1. SUFFICES ASSUME ~raced PROVE SavesAlone'
    BY <1>1 DEF SavesAlone
  <2>2. /\ Improve!Read(doc) = truth /\ \A q \in Actors : Improve!Saving(q) => q = p
        /\ r.copy = [truth EXCEPT ![r.agent] = Improve!Changed(@, r.op, r.time)]
        /\ r.at = "tmp"
    BY <1>1, <1>2, <1>9, <2>1 DEF ImprovementInv, SavesAlone
  <2>3. /\ s.copy = [truth EXCEPT ![s.agent] = Improve!Changed(@, s.op, s.time)]
        /\ s.pc # "writing" /\ tmp' = s.copy /\ doc' = doc
    BY <1>1, <1>2, <1>5, <2>2
  <2>4. \A q \in Actors : Improve!Saving(q)' => q = p
    BY <1>8, <2>2
  <2>5. Improve!Read(doc)' = truth'
    BY <1>1, <2>2, <2>3 DEF Improve!Read, Improve!Default
  <2> QED
    BY <1>1, <1>7, <2>3, <2>4, <2>5, Zenon DEF SavesAlone
<1>14. \A D \in Documents' : D \in Documents \cup {Improve!Default}
  <2>1. tmp' \in {tmp, r.copy}
    BY <1>1, <1>2
  <2> QED
    BY <1>1, <1>8, <1>9, <1>10, <2>1, FilesDiffer DEF Documents
<1>15. \A q \in Actors, a \in Reviewed : Concludes(q, a)' => Concludes(q, a)
  BY <1>1, <1>2, <1>5, <1>7, <1>8 DEF Concludes
<1>16. LessonsAhead'
  BY <1>1, <1>14, <1>15, LessonsStay
<1> QED
  BY <1>11, <1>12, <1>13, <1>16 DEF ImprovementInv

\* Where the temporary file moves, who writes it follows.
LEMMA MovedIs ==
  \A acts \in [Actors -> ActorType], from \in {"tmp", "doc", "gone"}, to \in {"tmp", "doc", "gone"} :
    LET m == Improve!Moved(acts, from, to) IN
    /\ m \in [Actors -> ActorType]
    /\ \A q \in Actors : m[q].pc = acts[q].pc
    /\ \A q \in Actors : acts[q].pc # "writing" => m[q] = acts[q]
    /\ \A q \in Actors : acts[q].pc = "writing" =>
         /\ m[q].agent = acts[q].agent /\ m[q].op = acts[q].op /\ m[q].copy = acts[q].copy
         /\ m[q].at = IF acts[q].at = from THEN to ELSE acts[q].at
<1> SUFFICES ASSUME NEW acts \in [Actors -> ActorType], NEW from \in {"tmp", "doc", "gone"},
                    NEW to \in {"tmp", "doc", "gone"}
             PROVE  LET m == Improve!Moved(acts, from, to) IN
                    /\ m \in [Actors -> ActorType]
                    /\ \A q \in Actors : m[q].pc = acts[q].pc
                    /\ \A q \in Actors : acts[q].pc # "writing" => m[q] = acts[q]
                    /\ \A q \in Actors : acts[q].pc = "writing" =>
                         /\ m[q].agent = acts[q].agent /\ m[q].op = acts[q].op /\ m[q].copy = acts[q].copy
                         /\ m[q].at = IF acts[q].at = from THEN to ELSE acts[q].at
  OBVIOUS
<1>1. PICK m : m = Improve!Moved(acts, from, to)
  OBVIOUS
<1>2. m = [q \in Actors |-> IF acts[q].pc = "writing" /\ acts[q].at = from
                            THEN [acts[q] EXCEPT !.at = to] ELSE acts[q]]
  BY <1>1 DEF Improve!Moved
<1>3. ASSUME NEW q \in Actors, acts[q].pc = "writing", acts[q].at = from
      PROVE  /\ m[q] \in Writing /\ m[q].pc = acts[q].pc /\ m[q].agent = acts[q].agent
             /\ m[q].op = acts[q].op /\ m[q].copy = acts[q].copy /\ m[q].at = to
  <2>1. PICK r : r = acts[q]
    OBVIOUS
  <2>2. r \in Writing
    BY <1>3, <2>1, ActorIs
  <2>3. m[q] = [r EXCEPT !.at = to]
    BY <1>2, <1>3, <2>1
  <2> QED
    BY <2>1, <2>2, <2>3 DEF Writing
<1>4. ASSUME NEW q \in Actors, ~(acts[q].pc = "writing" /\ acts[q].at = from)
      PROVE  m[q] = acts[q]
  BY <1>2, <1>4
<1>5. m \in [Actors -> ActorType]
  <2>1. DOMAIN m = Actors /\ m = [q \in Actors |-> m[q]]
    BY <1>2
  <2>2. \A q \in Actors : m[q] \in ActorType
    BY <1>3, <1>4 DEF ActorType
  <2> QED
    BY <2>1, <2>2
<1> QED
  BY <1>1, <1>3, <1>4, <1>5

\* Savers leave or go on as they were; when all have left, the document is what counts.
LEMMA SettleKeeps ==
  ASSUME ImprovementInv, actor' \in [Actors -> ActorType],
         \A q \in Actors : Improve!Saving(q)' =>
           /\ Improve!Saving(q) /\ actor'[q].copy = actor[q].copy
           /\ actor'[q].op = actor[q].op /\ actor'[q].agent = actor[q].agent,
         \A q \in Actors : actor'[q].pc = "recording" => actor'[q] = actor[q],
         doc' \in {doc, tmp}, doc' # Improve!None, tmp' \in {tmp, Improve!None}, upsets' \in Nat,
         BeingFilled', NEW counted, counted \in Documents, Improve!Settle(counted),
         ~raced => Improve!Read(doc') = counted /\ \A q \in Actors : ~Improve!Saving(q)',
         UNCHANGED <<lesson, news, now>>
  PROVE  ImprovementInv'
<1>1. ImprovementTyped /\ counted \in Document
  BY DocumentsAre DEF ImprovementInv
<1>2. /\ doc' \in Document \cup {Improve!Torn}
      /\ tmp' \in Document \cup {Improve!Torn, Improve!None}
  BY <1>1, FilesDiffer DEF ImprovementTyped
<1>3. Improve!Read(doc') \in Documents \cup {Improve!Default} /\ Improve!Read(doc') \in Document
  <2>1. CASE doc' = doc
    BY <1>1, <1>2, <2>1, DocumentsAre, ReadIs
  <2>2. CASE doc' = tmp /\ tmp \in Document
    BY <1>1, <1>2, <2>2, DocumentsAre, ReadIs
  <2>3. CASE doc' = Improve!Torn
    BY <2>3, FilesDiffer DEF Improve!Read
  <2> QED
    BY <1>2, <2>1, <2>2, <2>3
<1>4. Improve!Settled(actor') <=> \A q \in Actors : ~Improve!Saving(q)'
  BY DEF Improve!Settled, Improve!Saving
<1>5. /\ raced' = (raced /\ ~Improve!Settled(actor'))
      /\ truth' = IF raced /\ Improve!Settled(actor') THEN Improve!Read(doc') ELSE counted
  BY DEF Improve!Settle, Improve!Read, Improve!Default
<1>6. Improve!Read(doc)' = Improve!Read(doc')
  BY DEF Improve!Read, Improve!Default
<1>7. ImprovementTyped'
  <2>1. truth' \in Document /\ raced' \in BOOLEAN
    BY <1>1, <1>3, <1>5 DEF ImprovementTyped
  <2> QED
    BY <1>1, <1>2, <2>1 DEF ImprovementTyped, ActorType
<1>8. SavesAlone'
  <2>1. SUFFICES ASSUME ~raced' PROVE SavesAlone'
    BY Zenon DEF SavesAlone
  <2>2. Improve!Read(doc') = truth' /\ \A q \in Actors : ~Improve!Saving(q)'
    BY <1>1, <1>4, <1>5, <2>1 DEF ImprovementTyped
  <2> QED
    BY <1>6, <2>2 DEF SavesAlone
<1>9. \A D \in Documents' : D \in Documents \cup {Improve!Default}
  <2>1. truth' \in Documents \cup {Improve!Default}
    BY <1>3, <1>5
  <2>2. tmp' \in {Improve!Torn, Improve!None} \/ tmp' = tmp
    BY DEF ImprovementTyped
  <2>3. \A q \in Actors : Improve!Saving(q)' => actor'[q].copy \in Documents
    BY <1>1, DocumentsAre
  <2> QED
    BY <1>3, <1>6, <2>1, <2>2, <2>3 DEF Documents
<1>10. \A q \in Actors, a \in Reviewed : Concludes(q, a)' => Concludes(q, a)
  BY DEF Concludes
<1>11. LessonsAhead'
  BY <1>9, <1>10, LessonsStay
<1> QED
  BY <1>7, <1>8, <1>11 DEF ImprovementInv

LEMMA AfterIs ==
  ASSUME NEW r \in Loaded \cup Writing
  PROVE  /\ Improve!After(r) \in Quiet /\ Improve!After(r) \in ActorType
         /\ Improve!After(r).pc \in {"gate", "asking", "idle"}
<1>1. r.agent \in Reviewed /\ r.kind \in Kinds
  BY DEF Loaded, Writing
<1>2. CASE r.op = "count"
  BY <1>1, <1>2 DEF Improve!After, Quiet, ActorType, Waiting
<1>3. CASE r.op = "judge"
  BY <1>1, <1>3 DEF Improve!After, Quiet, ActorType, Waiting
<1>4. CASE r.op \notin {"count", "judge"}
  BY <1>4 DEF Improve!After, Quiet, ActorType, Improve!Idle
<1> QED
  BY <1>2, <1>3, <1>4

LEMMA SaveFailsKeeps ==
  ASSUME ImprovementInv, NEW p \in Actors, Improve!SaveFails(p)
  PROVE  ImprovementInv'
<1>1. /\ ImprovementTyped /\ Improve!Saving(p) /\ tmp' = Improve!None /\ upsets' = upsets + 1 /\ doc' = doc
      /\ Improve!Settle(truth) /\ UNCHANGED <<lesson, news, now>>
  BY DEF ImprovementInv, Improve!SaveFails
<1>2. PICK acts, m, r, counted : /\ acts = actor /\ m = Improve!Moved(acts, "tmp", "gone")
                                 /\ r = Improve!After(actor[p]) /\ counted = truth
  OBVIOUS
<1>3. acts \in [Actors -> ActorType]
  BY <1>1, <1>2 DEF ImprovementTyped, ActorType
<1>4. /\ m \in [Actors -> ActorType]
      /\ \A q \in Actors : m[q].pc = acts[q].pc
      /\ \A q \in Actors : acts[q].pc # "writing" => m[q] = acts[q]
      /\ \A q \in Actors : acts[q].pc = "writing" =>
           m[q].agent = acts[q].agent /\ m[q].op = acts[q].op /\ m[q].copy = acts[q].copy
  BY <1>2, <1>3, MovedIs
<1>5. r \in Quiet /\ r \in ActorType /\ r.pc \in {"gate", "asking", "idle"}
  <2>1. PICK s : s = actor[p]
    OBVIOUS
  <2>2. s \in Loaded \cup Writing
    BY <1>1, <2>1, SaverIs
  <2> QED
    BY <1>2, <2>1, <2>2, AfterIs
<1>6. actor' = [m EXCEPT ![p] = r]
  BY <1>2 DEF Improve!SaveFails
<1>7. actor' \in [Actors -> ActorType] /\ actor'[p] = r /\ \A q \in Actors \ {p} : actor'[q] = m[q]
  BY <1>4, <1>5, <1>6
<1>8. \A q \in Actors : Improve!Saving(q)' =>
        /\ q # p /\ Improve!Saving(q) /\ actor'[q].copy = actor[q].copy
        /\ actor'[q].op = actor[q].op /\ actor'[q].agent = actor[q].agent
  BY <1>2, <1>4, <1>5, <1>7 DEF Improve!Saving
<1>9. \A q \in Actors : actor'[q].pc = "recording" => actor'[q] = actor[q]
  BY <1>2, <1>4, <1>5, <1>7
<1>10. upsets' \in Nat /\ upsets' > 0 /\ doc \in Document \cup {Improve!Torn}
  BY <1>1 DEF ImprovementTyped
<1>11. BeingFilled'
  BY <1>10 DEF BeingFilled
<1>12. counted \in Documents /\ Improve!Settle(counted)
  BY <1>1, <1>2, DocumentsAre
<1>13. ~raced => Improve!Read(doc') = counted /\ \A q \in Actors : ~Improve!Saving(q)'
  <2>1. ASSUME ~raced PROVE Improve!Read(doc) = truth /\ \A q \in Actors : Improve!Saving(q) => q = p
    BY <1>1, <2>1 DEF ImprovementInv, SavesAlone
  <2> QED
    BY <1>1, <1>2, <1>8, <2>1
<1>14. doc' # Improve!None /\ doc' \in {doc, tmp} /\ tmp' \in {tmp, Improve!None}
  BY <1>1, <1>10, FilesDiffer
<1> QED
  BY <1>1, <1>7, <1>8, <1>9, <1>10, <1>11, <1>12, <1>13, <1>14, SettleKeeps

LEMMA CrashesKeeps ==
  ASSUME ImprovementInv, Improve!Crashes
  PROVE  ImprovementInv'
<1>1. /\ ImprovementTyped /\ upsets' = upsets + 1 /\ doc' = doc /\ tmp' = tmp
      /\ actor' = [q \in Actors |-> Improve!Idle]
      /\ Improve!Settle(truth) /\ UNCHANGED <<lesson, news, now>>
  BY DEF ImprovementInv, Improve!Crashes
<1>2. PICK counted : counted = truth
  OBVIOUS
<1>3. actor' \in [Actors -> ActorType]
  BY <1>1 DEF ActorType
<1>4. \A q \in Actors : actor'[q].pc = "idle"
  BY <1>1 DEF Improve!Idle
<1>5. \A q \in Actors : ~Improve!Saving(q)'
  BY <1>4 DEF Improve!Saving
<1>6. upsets' \in Nat /\ upsets' > 0 /\ doc \in Document \cup {Improve!Torn}
  BY <1>1 DEF ImprovementTyped
<1>7. BeingFilled'
  BY <1>6 DEF BeingFilled
<1>8. counted \in Documents /\ Improve!Settle(counted)
  BY <1>1, <1>2, DocumentsAre
<1>9. ~raced => Improve!Read(doc') = counted
  BY <1>1, <1>2 DEF ImprovementInv, SavesAlone
<1>10. doc' # Improve!None /\ doc' \in {doc, tmp} /\ tmp' \in {tmp, Improve!None}
  BY <1>1, <1>6, FilesDiffer
<1> QED
  BY <1>1, <1>3, <1>4, <1>5, <1>6, <1>7, <1>8, <1>9, <1>10, SettleKeeps

LEMMA RenamesKeeps ==
  ASSUME ImprovementInv, NEW p \in Actors, Improve!Renames(p)
  PROVE  ImprovementInv'
<1>1. /\ ImprovementTyped /\ actor[p].pc = "filled" /\ UNCHANGED <<lesson, news, now, upsets>>
  BY DEF ImprovementInv, Improve!Renames
<1>2. PICK acts, s, r : acts = actor /\ s = actor[p] /\ r = Improve!After(actor[p])
  OBVIOUS
<1>3. acts \in [Actors -> ActorType] /\ s \in Writing /\ Improve!Saving(p)
  BY <1>1, <1>2, SaverIs, ActorIs DEF ImprovementTyped, ActorType, Improve!Saving
<1>4. r \in Quiet /\ r \in ActorType /\ r.pc \in {"gate", "asking", "idle"}
  BY <1>2, <1>3, AfterIs
<1>5. PICK first : first = Improve!Moved(acts, "doc", "gone")
  OBVIOUS
<1>6. /\ first \in [Actors -> ActorType]
      /\ \A q \in Actors : first[q].pc = acts[q].pc
      /\ \A q \in Actors : acts[q].pc # "writing" => first[q] = acts[q]
      /\ \A q \in Actors : acts[q].pc = "writing" =>
           /\ first[q].agent = acts[q].agent /\ first[q].op = acts[q].op /\ first[q].copy = acts[q].copy
           /\ first[q].at = IF acts[q].at = "doc" THEN "gone" ELSE acts[q].at
  BY <1>3, <1>5, MovedIs
<1>7. PICK second : second = Improve!Moved(first, "tmp", "doc")
  OBVIOUS
<1>8. /\ second \in [Actors -> ActorType]
      /\ \A q \in Actors : second[q].pc = first[q].pc
      /\ \A q \in Actors : first[q].pc # "writing" => second[q] = first[q]
      /\ \A q \in Actors : first[q].pc = "writing" =>
           /\ second[q].agent = first[q].agent /\ second[q].op = first[q].op /\ second[q].copy = first[q].copy
           /\ second[q].at = IF first[q].at = "tmp" THEN "doc" ELSE first[q].at
  BY <1>6, <1>7, MovedIs
<1>9. PICK counted : counted = IF raced THEN truth
                               ELSE [truth EXCEPT ![s.agent] = Improve!Changed(@, s.op, s.time)]
  BY Zenon
<1>10. Improve!Settle(counted)
  BY <1>2, <1>9 DEF Improve!Renames
<1>11. ASSUME ~raced
       PROVE  /\ counted = s.copy /\ tmp = s.copy /\ s.copy \in Document
              /\ \A q \in Actors : Improve!Saving(q) => q = p
  <2>1. /\ s.copy = [truth EXCEPT ![s.agent] = Improve!Changed(@, s.op, s.time)] /\ tmp = s.copy
        /\ \A q \in Actors : Improve!Saving(q) => q = p
    BY <1>1, <1>2, <1>3, <1>11 DEF ImprovementInv, SavesAlone
  <2>2. s.copy \in Document
    BY <1>3 DEF Writing
  <2> QED
    BY <1>9, <1>11, <2>1, <2>2
<1>12. counted \in Documents
  <2>1. CASE raced
    BY <1>1, <1>9, <2>1, DocumentsAre
  <2>2. CASE ~raced
    BY <1>1, <1>11, <2>2, DocumentsAre
  <2> QED
    BY <2>1, <2>2
<1>13. PICK base \in {acts, second} : actor' = [base EXCEPT ![p] = r]
  BY <1>2, <1>5, <1>7 DEF Improve!Renames
<1>14. actor' \in [Actors -> ActorType] /\ actor'[p] = r /\ \A q \in Actors \ {p} : actor'[q] = base[q]
  BY <1>3, <1>4, <1>8, <1>13
<1>15. /\ \A q \in Actors : base[q].pc = acts[q].pc
       /\ \A q \in Actors : acts[q].pc # "writing" => base[q] = acts[q]
       /\ \A q \in Actors : acts[q].pc = "writing" =>
            base[q].agent = acts[q].agent /\ base[q].op = acts[q].op /\ base[q].copy = acts[q].copy
  BY <1>6, <1>8, <1>13
<1>16. \A q \in Actors : Improve!Saving(q)' =>
         /\ q # p /\ Improve!Saving(q) /\ actor'[q].copy = actor[q].copy
         /\ actor'[q].op = actor[q].op /\ actor'[q].agent = actor[q].agent
  BY <1>2, <1>4, <1>14, <1>15 DEF Improve!Saving
<1>17. \A q \in Actors : actor'[q].pc = "recording" => actor'[q] = actor[q]
  BY <1>2, <1>4, <1>14, <1>15
<1>18. \/ tmp = Improve!None /\ doc' = doc /\ tmp' = tmp /\ actor' = [acts EXCEPT ![p] = r]
       \/ tmp # Improve!None /\ doc' = tmp /\ tmp' = Improve!None /\ actor' = [second EXCEPT ![p] = r]
  BY <1>2, <1>5, <1>7 DEF Improve!Renames
<1>19. doc \in Document \cup {Improve!Torn} /\ upsets \in Nat
  BY <1>1 DEF ImprovementTyped
<1>20. BeingFilled'
  <2>1. CASE tmp = Improve!None /\ doc' = doc /\ tmp' = tmp /\ actor' = [acts EXCEPT ![p] = r]
    <3>1. \A q \in Actors : \A at : WritesAt(q, at) => WritesAt(q, at)'
      BY <1>1, <1>2, <1>3, <2>1 DEF WritesAt
    <3> QED
      BY <1>1, <2>1, <3>1 DEF ImprovementInv, BeingFilled
  <2>2. CASE tmp # Improve!None /\ doc' = tmp /\ tmp' = Improve!None /\ actor' = [second EXCEPT ![p] = r]
    <3>1. ASSUME NEW q \in Actors, WritesAt(q, "tmp") PROVE WritesAt(q, "doc")'
      <4>1. q # p /\ acts[q].pc = "writing" /\ acts[q].at = "tmp"
        BY <1>1, <1>2, <3>1 DEF WritesAt
      <4>2. actor'[q] = second[q]
        BY <1>8, <2>2, <4>1
      <4>3. second[q].pc = "writing" /\ second[q].at = "doc"
        BY <1>6, <1>8, <4>1
      <4> QED
        BY <4>2, <4>3 DEF WritesAt
    <3>2. tmp' # Improve!Torn
      BY <2>2, FilesDiffer
    <3> QED
      BY <1>1, <2>2, <3>1, <3>2 DEF ImprovementInv, BeingFilled
  <2> QED
    BY <1>18, <2>1, <2>2
<1>21. ~raced => Improve!Read(doc') = counted /\ \A q \in Actors : ~Improve!Saving(q)'
  <2>1. ASSUME ~raced PROVE doc' = s.copy
    BY <1>11, <1>18, <2>1, FilesDiffer
  <2>2. ASSUME ~raced PROVE Improve!Read(doc') = counted
    BY <1>11, <2>1, <2>2, ReadIs
  <2>3. ASSUME ~raced PROVE \A q \in Actors : ~Improve!Saving(q)'
    BY <1>11, <1>16, <2>3
  <2> QED
    BY <2>2, <2>3
<1>22. doc' # Improve!None /\ doc' \in {doc, tmp} /\ tmp' \in {tmp, Improve!None}
  BY <1>18, <1>19, FilesDiffer
<1>23. upsets' \in Nat
  BY <1>1, <1>19
<1> QED
  BY <1>1, <1>10, <1>12, <1>14, <1>16, <1>17, <1>20, <1>21, <1>22, <1>23, SettleKeeps

\* A thread that waits, and what it may be next.
LEMMA WaiterIs ==
  ASSUME ImprovementTyped, NEW p \in Actors, actor[p].pc \in {"gate", "judging", "asking"}
  PROVE  /\ ~Improve!Saving(p) /\ actor[p].agent \in Reviewed /\ actor[p].kind \in Kinds
         /\ actor[p] \in Waiting
<1>1. PICK r : r = actor[p]
  OBVIOUS
<1>2. r \in Waiting
  BY <1>1, SaverIs, ActorIs
<1>3. r.agent \in Reviewed /\ r.kind \in Kinds
  BY <1>2 DEF Waiting
<1> QED
  BY <1>1, <1>2, <1>3 DEF Improve!Saving

LEMMA GateKeeps ==
  ASSUME ImprovementInv, NEW p \in Actors, Improve!Gate(p)
  PROVE  ImprovementInv'
<1>1. /\ actor[p].pc = "gate" /\ UNCHANGED <<doc, tmp, lesson, news, now, truth, raced, upsets>>
      /\ ImprovementTyped
  BY DEF ImprovementInv, Improve!Gate
<1>2. PICK r \in {[pc |-> "judging", agent |-> actor[p].agent, kind |-> "auto"], Improve!Idle} :
        actor' = [actor EXCEPT ![p] = r]
  BY Zenon DEF Improve!Gate
<1>3. ~Improve!Saving(p) /\ actor[p].agent \in Reviewed
  BY <1>1, WaiterIs
<1>4. r \in Quiet /\ r.pc # "recording"
  BY <1>2, <1>3 DEF Quiet, Waiting, Kinds, Improve!Idle
<1>5. /\ now' \in Nat /\ now <= now' /\ news' \in [Reviewed -> {"none", "new", "tried", "during"}]
      /\ \A a \in Reviewed : news'[a] = "new" => news[a] = "new" /\ (r.pc = "recording" => r.agent # a)
  BY <1>1, <1>4 DEF ImprovementTyped
<1> QED
  BY <1>1, <1>2, <1>3, <1>4, <1>5, QuietKeeps, Zenon

LEMMA AsksForCheckKeeps ==
  ASSUME ImprovementInv, NEW p \in Actors, NEW a \in Reviewed, Improve!AsksForCheck(p, a)
  PROVE  ImprovementInv'
<1>1. /\ actor[p].pc = "idle" /\ UNCHANGED <<doc, tmp, lesson, news, now, truth, raced, upsets>>
      /\ ImprovementTyped
  BY DEF ImprovementInv, Improve!AsksForCheck
<1>2. PICK r : r = [pc |-> "judging", agent |-> a, kind |-> "demand"]
  BY Zenon
<1>3. actor' = [actor EXCEPT ![p] = r]
  BY <1>2 DEF Improve!AsksForCheck
<1>4. ~Improve!Saving(p)
  BY <1>1 DEF Improve!Saving
<1>5. r \in Quiet /\ r.pc # "recording"
  BY <1>2 DEF Quiet, Waiting, Kinds
<1>6. /\ now' \in Nat /\ now <= now' /\ news' \in [Reviewed -> {"none", "new", "tried", "during"}]
      /\ \A b \in Reviewed : news'[b] = "new" => news[b] = "new" /\ (r.pc = "recording" => r.agent # b)
  BY <1>1, <1>5 DEF ImprovementTyped
<1> QED
  BY <1>1, <1>3, <1>4, <1>5, <1>6, QuietKeeps, Zenon

LEMMA TaskEndsKeeps ==
  ASSUME ImprovementInv, NEW p \in Actors, NEW a \in Reviewed, Improve!TaskEnds(p, a)
  PROVE  ImprovementInv'
<1>1. /\ actor[p].pc = "idle" /\ Improve!Load(p, a, "auto", "count")
      /\ UNCHANGED <<doc, tmp, lesson, news, now, truth, upsets>>
  BY DEF Improve!TaskEnds
<1>2. PICK kind, op : kind = "auto" /\ op = "count"
  OBVIOUS
<1>3. /\ kind \in Kinds /\ op \in Operations /\ Improve!Load(p, a, kind, op)
      /\ op \in {"found", "empty"} => Concludes(p, a)
  BY <1>1, <1>2 DEF Kinds, Operations
<1>4. ~Improve!Saving(p)
  BY <1>1 DEF Improve!Saving
<1> QED
  BY <1>1, <1>3, <1>4, LoadKeeps

LEMMA JudgesKeeps ==
  ASSUME ImprovementInv, NEW p \in Actors, Improve!Judges(p)
  PROVE  ImprovementInv'
<1>1. /\ actor[p].pc = "judging" /\ UNCHANGED <<doc, tmp, lesson, news, now, truth, upsets>>
      /\ ImprovementTyped
  BY DEF ImprovementInv, Improve!Judges
<1>2. PICK s, a, kind, op : s = actor[p] /\ a = actor[p].agent /\ kind = actor[p].kind /\ op = "judge"
  OBVIOUS
<1>3. ~Improve!Saving(p) /\ a \in Reviewed /\ kind \in Kinds /\ s \in Waiting
  BY <1>1, <1>2, WaiterIs
<1>4. CASE Improve!Load(p, a, kind, op)
  <2>1. op \in Operations /\ (op \in {"found", "empty"} => Concludes(p, a))
    BY <1>2 DEF Operations
  <2> QED
    BY <1>1, <1>3, <1>4, <2>1, LoadKeeps
<1>5. CASE actor' = [actor EXCEPT ![p].pc = "asking"] /\ raced' = raced
  <2>1. PICK r : r = [s EXCEPT !.pc = "asking"]
    BY Zenon
  <2>2. actor' = [actor EXCEPT ![p] = r]
    BY <1>1, <1>2, <1>5, <2>1 DEF ImprovementTyped
  <2>3. r \in Waiting /\ r.pc = "asking"
    BY <1>3, <2>1 DEF Waiting
  <2>4. r \in Quiet /\ r.pc # "recording"
    BY <2>3 DEF Quiet
  <2>5. /\ now' \in Nat /\ now <= now' /\ news' \in [Reviewed -> {"none", "new", "tried", "during"}]
        /\ \A b \in Reviewed : news'[b] = "new" => news[b] = "new" /\ (r.pc = "recording" => r.agent # b)
    BY <1>1, <2>4 DEF ImprovementTyped
  <2> QED
    BY <1>1, <1>3, <1>5, <2>2, <2>4, <2>5, QuietKeeps, Zenon
<1>6. Improve!Load(p, a, kind, op) \/ (actor' = [actor EXCEPT ![p].pc = "asking"] /\ raced' = raced)
  BY <1>2 DEF Improve!Judges
<1> QED
  BY <1>4, <1>5, <1>6

LEMMA AnswersKeeps ==
  ASSUME ImprovementInv, NEW p \in Actors, NEW outcome \in {"found", "empty", "error", "panic"},
         Improve!Answers(p, outcome)
  PROVE  ImprovementInv'
<1>1. /\ actor[p].pc = "asking" /\ now' = now + 1 /\ ImprovementTyped
      /\ UNCHANGED <<doc, tmp, lesson, truth, raced, upsets>>
  BY DEF ImprovementInv, Improve!Answers
<1>2. PICK a, kind : a = actor[p].agent /\ kind = actor[p].kind
  OBVIOUS
<1>3. ~Improve!Saving(p) /\ a \in Reviewed /\ kind \in Kinds
  BY <1>1, <1>2, WaiterIs
<1>4. PICK r : r = IF Improve!Recorded(kind, outcome)
                   THEN [pc |-> "recording", agent |-> a, kind |-> kind,
                         op |-> IF outcome = "found" THEN "found" ELSE "empty"]
                   ELSE Improve!Idle
  BY Zenon
<1>5. actor' = [actor EXCEPT ![p] = r]
  BY <1>2, <1>4 DEF Improve!Answers
<1>6. r \in Quiet /\ (r.pc = "recording" => Improve!Recorded(kind, outcome) /\ r.agent = a)
  <2>1. CASE Improve!Recorded(kind, outcome)
    <3>1. PICK op \in {"found", "empty"} : op = IF outcome = "found" THEN "found" ELSE "empty"
      OBVIOUS
    <3>2. r = [pc |-> "recording", agent |-> a, kind |-> kind, op |-> op]
      BY <1>4, <2>1, <3>1
    <3> QED
      BY <1>3, <2>1, <3>2 DEF Quiet, Recording
  <2>2. CASE ~Improve!Recorded(kind, outcome)
    BY <1>4, <2>2 DEF Quiet, Improve!Idle
  <2> QED
    BY <2>1, <2>2
<1>7. news' = [news EXCEPT ![a] =
        IF @ = "new" /\ outcome # "panic" /\ (outcome = "error" => kind = "auto") THEN "tried" ELSE @]
  BY <1>2 DEF Improve!Answers
<1>8. news' \in [Reviewed -> {"none", "new", "tried", "during"}]
  BY <1>1, <1>7, Zenon DEF ImprovementTyped
<1>9. ASSUME NEW b \in Reviewed, news'[b] = "new"
      PROVE  news[b] = "new" /\ (r.pc = "recording" => r.agent # b)
  <2>1. a = b
    BY <1>3 DEF Reviewed
  <2>2. news[b] = "new" /\ ~(outcome # "panic" /\ (outcome = "error" => kind = "auto"))
    BY <1>1, <1>7, <1>9, <2>1 DEF ImprovementTyped
  <2>3. ~Improve!Recorded(kind, outcome)
    BY <1>3, <2>2 DEF Improve!Recorded, Kinds
  <2> QED
    BY <1>6, <2>2, <2>3
<1>10. now' \in Nat /\ now <= now'
  BY <1>1 DEF ImprovementTyped
<1> QED
  BY <1>1, <1>3, <1>5, <1>6, <1>8, <1>9, <1>10, QuietKeeps, Zenon

LEMMA RecordsKeeps ==
  ASSUME ImprovementInv, NEW p \in Actors, Improve!Records(p)
  PROVE  ImprovementInv'
<1>1. /\ actor[p].pc = "recording" /\ UNCHANGED <<doc, tmp, lesson, news, now, truth, upsets>>
      /\ ImprovementTyped
  BY DEF ImprovementInv, Improve!Records
<1>2. PICK s, a, kind, op : s = actor[p] /\ a = s.agent /\ kind = s.kind /\ op = s.op
  OBVIOUS
<1>3. s \in Recording
  BY <1>1, <1>2, SaverIs, ActorIs
<1>4. a \in Reviewed /\ kind \in Kinds /\ op \in Operations
  BY <1>2, <1>3 DEF Recording, Operations
<1>5. Improve!Load(p, a, kind, op)
  BY <1>2 DEF Improve!Records
<1>6. ~Improve!Saving(p) /\ Concludes(p, a)
  BY <1>1, <1>2 DEF Improve!Saving, Concludes
<1> QED
  BY <1>1, <1>4, <1>5, <1>6, LoadKeeps

LEMMA LessonKeeps ==
  ASSUME ImprovementInv, NEW a \in Reviewed, Improve!Lesson(a)
  PROVE  ImprovementInv'
<1>1. /\ ImprovementTyped /\ now' = now + 1 /\ lesson' = [lesson EXCEPT ![a] = now']
      /\ news' = [news EXCEPT ![a] = IF \E p \in Actors : Improve!Checking(p, a) THEN "during" ELSE "new"]
      /\ UNCHANGED <<doc, tmp, actor, truth, raced, upsets>>
  BY DEF ImprovementInv, Improve!Lesson
<1>2. now \in Nat /\ now' \in Nat
  BY <1>1 DEF ImprovementTyped
<1>3. ImprovementTyped'
  <2>1. lesson' \in [Reviewed -> Nat] /\ news' \in [Reviewed -> {"none", "new", "tried", "during"}]
    BY <1>1, <1>2 DEF ImprovementTyped
  <2> QED
    BY <1>1, <1>2, <2>1 DEF ImprovementTyped
<1>4. Documents' = Documents
  BY <1>1 DEF Documents, Improve!Read, Improve!Default, Improve!Saving
<1>5. BeingFilled' /\ SavesAlone'
  BY <1>1 DEF ImprovementInv, BeingFilled, SavesAlone, WritesAt, Improve!Saving, Improve!Read, Improve!Default
<1>6. ASSUME NEW b \in Reviewed, news'[b] = "new" PROVE \A p \in Actors : ~Concludes(p, b)'
  <2>1. a = b
    BY DEF Reviewed
  <2>2. \A p \in Actors : ~Improve!Checking(p, b)
    BY <1>1, <1>6, <2>1 DEF ImprovementTyped
  <2>3. \A p \in Actors : Concludes(p, b) => Improve!Checking(p, b)
    BY DEF Concludes, Improve!Checking, Improve!Saving
  <2>4. \A p \in Actors : Concludes(p, b)' <=> Concludes(p, b)
    BY <1>1 DEF Concludes, Improve!Saving
  <2> QED
    BY <2>2, <2>3, <2>4
<1>7. ASSUME NEW b \in Reviewed
      PROVE  /\ lesson'[b] = now' /\ lesson'[b] > 0
             /\ \A D \in Documents : D[b].last < lesson'[b] /\ D[b].last <= now'
  <2>1. a = b
    BY DEF Reviewed
  <2>2. lesson'[b] = now'
    BY <1>1, <2>1 DEF ImprovementTyped
  <2>3. \A D \in Documents : D[b].last <= now
    BY DEF ImprovementInv, LessonsAhead
  <2>4. \A D \in Documents : D[b].last \in Nat
    BY <1>1, DocumentsAre DEF Document, State
  <2> QED
    BY <1>1, <1>2, <2>2, <2>3, <2>4
<1>8. LessonsAhead'
  BY <1>2, <1>4, <1>6, <1>7 DEF LessonsAhead
<1> QED
  BY <1>3, <1>5, <1>8 DEF ImprovementInv

LEMMA ImprovementInit ==
  ASSUME Improve!Init
  PROVE  ImprovementInv
<1>1. /\ doc = Improve!Default /\ tmp = Improve!None /\ truth = Improve!Default /\ now = 0
      /\ lesson = [a \in Reviewed |-> 0] /\ news = [a \in Reviewed |-> "none"] /\ raced = FALSE
      /\ upsets = 0 /\ actor = [p \in Actors |-> Improve!Idle]
  BY DEF Improve!Init, Reviewed
<1>2. ImprovementTyped
  BY <1>1, FilesDiffer, Zenon DEF ImprovementTyped
<1>3. \A p \in Actors : ~Improve!Saving(p)
  BY <1>1 DEF Improve!Saving, Improve!Idle
<1>4. Improve!Read(doc) = truth
  BY <1>1 DEF Improve!Read
<1>5. BeingFilled
  BY <1>1, FilesDiffer DEF BeingFilled
<1>6. SavesAlone
  BY <1>3, <1>4 DEF SavesAlone
<1>7. Documents = {Improve!Default}
  BY <1>1, <1>3, <1>4 DEF Documents
<1>8. LessonsAhead
  BY <1>1, <1>7, FilesDiffer DEF LessonsAhead
<1> QED
  BY <1>2, <1>5, <1>6, <1>8 DEF ImprovementInv

LEMMA ImprovementStep ==
  ASSUME ImprovementInv, Improve!Next
  PROVE  ImprovementInv'
<1>1. CASE \E p \in Actors, a \in Reviewed : Improve!TaskEnds(p, a)
  BY <1>1, TaskEndsKeeps
<1>2. CASE \E p \in Actors, a \in Reviewed : Improve!AsksForCheck(p, a)
  BY <1>2, AsksForCheckKeeps
<1>3. CASE \E p \in Actors : Improve!Opens(p)
  BY <1>3, OpensKeeps
<1>4. CASE \E p \in Actors : Improve!Fills(p)
  BY <1>4, FillsKeeps
<1>5. CASE \E p \in Actors : Improve!Renames(p)
  BY <1>5, RenamesKeeps
<1>6. CASE \E p \in Actors : Improve!SaveFails(p)
  BY <1>6, SaveFailsKeeps
<1>7. CASE \E p \in Actors : Improve!Gate(p)
  BY <1>7, GateKeeps
<1>8. CASE \E p \in Actors : Improve!Judges(p)
  BY <1>8, JudgesKeeps
<1>9. CASE \E p \in Actors : Improve!Records(p)
  BY <1>9, RecordsKeeps
<1>10. CASE \E p \in Actors, o \in {"found", "empty", "error", "panic"} : Improve!Answers(p, o)
  BY <1>10, AnswersKeeps
<1>11. CASE \E a \in Reviewed : Improve!Lesson(a)
  BY <1>11, LessonKeeps
<1>12. CASE Improve!Crashes
  BY <1>12, CrashesKeeps
<1> QED
  BY <1>1, <1>2, <1>3, <1>4, <1>5, <1>6, <1>7, <1>8, <1>9, <1>10, <1>11, <1>12 DEF Improve!Next, Reviewed

LEMMA ImprovementIsSound ==
  ASSUME ImprovementInv
  PROVE  Improve!ImproveSound
<1>1. ~raced => Improve!Read(doc) = truth
  BY DEF ImprovementInv, SavesAlone
<1>2. upsets \in Nat /\ ImprovementTyped
  BY DEF ImprovementInv, ImprovementTyped
<1>3. ASSUME \A p \in Actors : ~Improve!Saving(p), doc = Improve!Torn PROVE upsets > 0
  <2>1. \A p \in Actors : ~WritesAt(p, "doc")
    BY <1>3 DEF WritesAt, Improve!Saving
  <2> QED
    BY <1>3, <2>1 DEF ImprovementInv, BeingFilled
<1>4. ASSUME NEW a \in Reviewed, truth[a].last >= lesson[a] PROVE news[a] # "new"
  <2>1. news[a] = "new" => truth[a].last < lesson[a]
    BY <1>2, DocumentsAre DEF ImprovementInv, LessonsAhead
  <2>2. truth[a].last \in Nat /\ lesson[a] \in Nat
    BY <1>2 DEF ImprovementTyped, Document, State
  <2> QED
    BY <1>4, <2>1, <2>2
<1> QED
  BY <1>1, <1>3, <1>4 DEF Improve!ImproveSound, Improve!CountsExact, Improve!LessonsGetTheirCheck, Reviewed

-----------------------------------------------------------------------------
(* The review queue: suggestions, each once.                               *)

Suggestion ==
  [agent : Agents, topic : Topics, text : Versions, change : BOOLEAN,
   proposed : Versions, armed : BOOLEAN, seen : Versions]
Once(q) == \A j, k \in DOMAIN q : Review!Key(q[j]) = Review!Key(q[k]) => j = k
Listed(q) == q \in Seq(Suggestion) /\ Once(q)

Event == [kind : {"suggested"}, item : Review!Suggestions] \cup [kind : {"finished"}]

QueueTyped ==
  /\ Listed(queue) /\ Listed(store)
  /\ damaged \in BOOLEAN /\ unsaved \in BOOLEAN
  /\ inbox \in Seq(Event)
  /\ past \subseteq Agents

Confirmed ==
  /\ \A k \in DOMAIN queue : queue[k].armed => queue[k].seen = queue[k].proposed
  /\ deciding = {} => reverted = Review!Nobody
  /\ \A k \in DOMAIN queue : queue[k].agent # reverted

QueueInv ==
  /\ QueueTyped
  /\ Review!Keys(queue) = owed
  /\ ~unsaved /\ ~damaged => Review!Keys(store) = owed \cup deciding
  /\ Confirmed

-----------------------------------------------------------------------------
(* Taking suggestions out of a list; Without is recursive, and induction   *)
(* is by the least number.                                                 *)

LEMMA LeastNumber ==
  ASSUME NEW T, T \subseteq Nat, T # {}
  PROVE  \E x \in T : \A y \in T : x <= y
<1>1. PICK k \in T : \A j \in T : ~(<<j, k>> \in OpToRel(<, Nat))
  BY WFMin, NatLessThanWellFounded, Zenon
<1>2. \A j \in T : ~(j < k)
  BY <1>1, Zenon DEF OpToRel
<1> QED
  BY <1>2

StaysStep(q, out, u, k) ==
  IF k = 0 THEN <<>>
  ELSE IF Review!Key(q[k]) \in out THEN u[k - 1] ELSE Append(u[k - 1], q[k])
Stays(q, out, u, m) == u = [k \in 0..m |-> StaysStep(q, out, u, k)]

LEMMA StaysExist == ASSUME NEW q, NEW out, NEW m \in Nat PROVE \E u : Stays(q, out, u, m)
<1> SUFFICES ASSUME ~ \E u : Stays(q, out, u, m) PROVE FALSE
  OBVIOUS
<1> DEFINE B == {k \in Nat : ~ \E u : Stays(q, out, u, k)}
<1>1. PICK l \in B : \A k \in B : l <= k
  <2>1. B \subseteq Nat /\ B # {}
    OBVIOUS
  <2> HIDE DEF B
  <2> QED
    BY <2>1, LeastNumber, Zenon
<1>2. CASE l = 0
  <2> DEFINE u == [k \in 0..0 |-> <<>>]
  <2>1. u = [k \in 0..0 |-> StaysStep(q, out, u, k)]
    BY DEF StaysStep
  <2>2. Stays(q, out, u, 0)
    BY Zenon, <2>1 DEF Stays
  <2> QED
    BY <1>1, <1>2, <2>2
<1>3. CASE l # 0
  <2>1. l - 1 \in Nat /\ l - 1 \notin B /\ l \in Nat
    BY <1>1, <1>3
  <2>2. PICK u : Stays(q, out, u, l - 1)
    BY <2>1
  <2> DEFINE w == [k \in 0..l |-> IF k = l THEN StaysStep(q, out, u, l) ELSE u[k]]
  <2>3. ASSUME NEW k \in 0..l PROVE w[k] = StaysStep(q, out, w, k)
    <3>1. k # 0 => w[k-1] = u[k-1]
      BY <2>1, <2>3
    <3>2. StaysStep(q, out, w, k) = StaysStep(q, out, u, k)
      BY <3>1 DEF StaysStep
    <3>3. ASSUME k # l PROVE u[k] = StaysStep(q, out, u, k)
      <4>1. k \in 0..(l - 1)
        BY <2>1, <2>3, <3>3
      <4> HIDE DEF B
      <4> QED
        BY <2>2, <4>1, Zenon DEF Stays
    <3> QED
      BY <3>2, <3>3
  <2>4. Stays(q, out, w, l)
    <3>1. w = [k \in 0..l |-> w[k]]
      OBVIOUS
    <3>2. w = [k \in 0..l |-> StaysStep(q, out, w, k)]
      <4> HIDE DEF w
      <4> QED
        BY <2>3, <3>1
    <3> HIDE DEF w
    <3> QED
      BY <3>2 DEF Stays
  <2> QED
    BY <2>4, <1>1
<1> QED
  BY <1>2, <1>3

StayUpto(q, out) == CHOOSE u : Stays(q, out, u, Len(q))

LEMMA WithoutUpto ==
  ASSUME NEW q, NEW out PROVE Review!Without(q, out) = StayUpto(q, out)[Len(q)]
BY Zenon DEF Review!Without, StayUpto, Stays, StaysStep

\* The suggestions of the first k that are not out, in t.
LeftUpto(q, out, t, k) ==
  /\ t \in Seq(Suggestion)
  /\ \A x \in DOMAIN t : Review!Key(t[x]) \notin out /\ \E i \in 1..k : q[i] = t[x]
  /\ \A i \in 1..k : Review!Key(q[i]) \notin out => \E x \in DOMAIN t : t[x] = q[i]
  /\ Once(t)

LEMMA OneMoreStays ==
  ASSUME NEW q, Listed(q), NEW out, NEW k \in 1..Len(q), NEW t, LeftUpto(q, out, t, k - 1)
  PROVE  LeftUpto(q, out, IF Review!Key(q[k]) \in out THEN t ELSE Append(t, q[k]), k)
<1>1. q \in Seq(Suggestion) /\ Len(q) \in Nat /\ DOMAIN q = 1..Len(q)
  BY DEF Listed
<1>2. k \in Nat /\ k - 1 \in Nat /\ k \in 1..k /\ q[k] \in Suggestion
  BY <1>1, ElementOfSeq
<1>3. \A i \in 1..k : i = k \/ i \in 1..(k - 1)
  BY <1>2
<1>4. \A i \in 1..(k - 1) : i \in 1..k /\ i # k /\ i \in DOMAIN q /\ k \in DOMAIN q
  BY <1>1, <1>2
<1>5. CASE Review!Key(q[k]) \in out
  <2>1. \A x \in DOMAIN t : Review!Key(t[x]) \notin out /\ \E i \in 1..k : q[i] = t[x]
    BY <1>4 DEF LeftUpto
  <2>2. \A i \in 1..k : Review!Key(q[i]) \notin out => \E x \in DOMAIN t : t[x] = q[i]
    BY <1>3, <1>5 DEF LeftUpto
  <2> QED
    BY <1>5, <2>1, <2>2 DEF LeftUpto
<1>6. CASE Review!Key(q[k]) \notin out
  <2> DEFINE w == Append(t, q[k])
  <2>1. t \in Seq(Suggestion)
    BY DEF LeftUpto
  <2>2. /\ w \in Seq(Suggestion) /\ Len(w) = Len(t) + 1 /\ w[Len(t) + 1] = q[k]
        /\ \A x \in 1..Len(t) : w[x] = t[x]
    BY <1>2, <2>1, AppendProperties
  <2>3. DOMAIN t = 1..Len(t) /\ Len(t) \in Nat /\ DOMAIN w = 1..(Len(t) + 1)
    BY <2>1, <2>2
  <2> HIDE DEF w
  <2>4. \A x \in DOMAIN w : x = Len(t) + 1 \/ (x \in DOMAIN t /\ w[x] = t[x])
    BY <2>2, <2>3
  <2>5. \A x \in DOMAIN t : x \in DOMAIN w /\ w[x] = t[x]
    BY <2>2, <2>3
  <2>6. \A x \in DOMAIN w : Review!Key(w[x]) \notin out /\ \E i \in 1..k : q[i] = w[x]
    BY <1>2, <1>4, <1>6, <2>2, <2>4 DEF LeftUpto
  <2>7. \A i \in 1..k : Review!Key(q[i]) \notin out => \E x \in DOMAIN w : w[x] = q[i]
    <3>1. Len(t) + 1 \in DOMAIN w
      BY <2>3
    <3> QED
      BY <1>3, <2>2, <2>5, <3>1 DEF LeftUpto
  <2>8. Once(w)
    <3>1. \A x \in DOMAIN t : Review!Key(t[x]) # Review!Key(q[k])
      <4> SUFFICES ASSUME NEW x \in DOMAIN t PROVE Review!Key(t[x]) # Review!Key(q[k])
        OBVIOUS
      <4>1. PICK i \in 1..(k - 1) : q[i] = t[x]
        BY DEF LeftUpto
      <4> QED
        BY <1>4, <4>1 DEF Listed, Once
    <3>2. Once(t)
      BY DEF LeftUpto
    <3> QED
      BY <2>2, <2>4, <3>1, <3>2 DEF Once
  <2>9. LeftUpto(q, out, w, k)
    BY <2>2, <2>6, <2>7, <2>8 DEF LeftUpto
  <2> QED
    BY <1>6, <2>9 DEF w
<1> QED
  BY <1>5, <1>6

LEMMA WithoutLeaves ==
  ASSUME NEW q, Listed(q), NEW out
  PROVE  LeftUpto(q, out, Review!Without(q, out), Len(q))
<1> DEFINE u == StayUpto(q, out)
           B == {k \in Nat : k <= Len(q) /\ ~LeftUpto(q, out, u[k], k)}
<1>0. Len(q) \in Nat
  BY DEF Listed
<1>1. Stays(q, out, u, Len(q))
  BY <1>0, StaysExist DEF StayUpto
<1> HIDE DEF u
<1>2. \A k \in 0..Len(q) : u[k] = StaysStep(q, out, u, k)
  BY <1>1 DEF Stays
<1> SUFFICES ASSUME B # {} PROVE FALSE
  BY <1>0, WithoutUpto DEF u
<1>3. PICK l \in B : \A k \in B : l <= k
  <2>1. B \subseteq Nat
    OBVIOUS
  <2> HIDE DEF B
  <2> QED
    BY <2>1, LeastNumber, Zenon
<1>4. l \in Nat /\ l <= Len(q) /\ ~LeftUpto(q, out, u[l], l)
  BY <1>3
<1>5. CASE l = 0
  <2>1. u[l] = <<>>
    BY <1>0, <1>2, <1>4, <1>5 DEF StaysStep
  <2>2. LeftUpto(q, out, <<>>, 0)
    BY DEF LeftUpto, Once
  <2> QED
    BY <1>4, <1>5, <2>1, <2>2
<1>6. CASE l # 0
  <2>1. l \in 1..Len(q) /\ l - 1 \in Nat /\ l - 1 < l /\ l - 1 <= Len(q) /\ l \in 0..Len(q)
    BY <1>0, <1>4, <1>6
  <2>2. LeftUpto(q, out, u[l - 1], l - 1)
    BY <1>3, <2>1
  <2>3. u[l] = IF Review!Key(q[l]) \in out THEN u[l-1] ELSE Append(u[l-1], q[l])
    BY <1>2, <1>6, <2>1 DEF StaysStep
  <2>4. LeftUpto(q, out, u[l], l)
    BY <2>1, <2>2, <2>3, OneMoreStays
  <2> QED
    BY <1>4, <2>4
<1> QED
  BY <1>5, <1>6

\* What is left of a list: the others, each once.
LEMMA WithoutIs ==
  ASSUME NEW q, Listed(q), NEW out
  PROVE  /\ Listed(Review!Without(q, out))
         /\ Review!Keys(Review!Without(q, out)) = Review!Keys(q) \ out
         /\ \A x \in DOMAIN Review!Without(q, out) :
              \E i \in DOMAIN q : q[i] = Review!Without(q, out)[x] /\ Review!Key(q[i]) \notin out
<1> DEFINE w == Review!Without(q, out)
<1>1. LeftUpto(q, out, w, Len(q))
  BY WithoutLeaves
<1>2. DOMAIN q = 1..Len(q)
  BY DEF Listed
<1> HIDE DEF w
<1>3. \A x \in DOMAIN w : \E i \in DOMAIN q : q[i] = w[x] /\ Review!Key(q[i]) \notin out
  BY <1>1, <1>2 DEF LeftUpto
<1>4. Review!Keys(w) = Review!Keys(q) \ out
  <2>1. \A y \in Review!Keys(w) : y \in Review!Keys(q) \ out
    BY <1>3 DEF Review!Keys
  <2>2. \A y \in Review!Keys(q) \ out : y \in Review!Keys(w)
    <3> SUFFICES ASSUME NEW i \in DOMAIN q, Review!Key(q[i]) \notin out
                 PROVE  Review!Key(q[i]) \in Review!Keys(w)
      BY DEF Review!Keys
    <3>1. PICK x \in DOMAIN w : w[x] = q[i]
      BY <1>1, <1>2 DEF LeftUpto
    <3> QED
      BY <3>1 DEF Review!Keys
  <2> QED
    BY <2>1, <2>2
<1>5. Listed(w)
  BY <1>1 DEF LeftUpto, Listed
<1> QED
  BY <1>3, <1>4, <1>5 DEF w

-----------------------------------------------------------------------------
(* Steps of the review queue.                                              *)

\* Whoever an action is for, nobody's prompt is being reverted before it.
LEMMA NobodysItems ==
  ASSUME NEW q \in Seq(Suggestion) PROVE \A k \in DOMAIN q : q[k].agent # Review!Nobody
<1> SUFFICES ASSUME NEW k \in DOMAIN q PROVE q[k].agent # Review!Nobody
  OBVIOUS
<1>1. q[k] \in Suggestion
  BY ElementOfSeq
<1> QED
  BY <1>1, NobodyAssumption DEF Suggestion

\* The same suggestions with other texts or buttons.
LEMMA SameKeys ==
  ASSUME NEW q, Listed(q), NEW w \in Seq(Suggestion), DOMAIN w = DOMAIN q,
         \A k \in DOMAIN q : Review!Key(w[k]) = Review!Key(q[k])
  PROVE  Listed(w) /\ Review!Keys(w) = Review!Keys(q)
<1>1. Once(w)
  BY DEF Listed, Once
<1>2. Review!Keys(w) = Review!Keys(q)
  BY DEF Review!Keys
<1> QED
  BY <1>1, <1>2 DEF Listed

LEMMA ItemIs ==
  ASSUME NEW s \in Review!Suggestions
  PROVE  /\ Review!Item(s) \in Suggestion /\ ~Review!Item(s).armed
         /\ Review!Key(Review!Item(s)) = Review!Key(s)
         /\ Review!Item(s).agent \in Agents
BY DEF Review!Item, Review!Suggestions, Suggestion, Review!Key

LEMMA AddedIs ==
  ASSUME NEW q, Listed(q), NEW s \in Review!Suggestions
  PROVE  /\ Listed(Review!Added(q, s))
         /\ Review!Keys(Review!Added(q, s)) = Review!Keys(q) \cup {Review!Key(s)}
         /\ \A x \in DOMAIN Review!Added(q, s) :
              \/ Review!Added(q, s)[x] = Review!Item(s)
              \/ x \in DOMAIN q /\ Review!Added(q, s)[x] = q[x]
<1> DEFINE w == Review!Added(q, s)
<1>1. PICK i : i = Review!Item(s)
  OBVIOUS
<1>2. i \in Suggestion /\ Review!Key(i) = Review!Key(s)
  BY <1>1, ItemIs
<1>3. q \in Seq(Suggestion) /\ DOMAIN q = 1..Len(q) /\ Len(q) \in Nat
  BY DEF Listed
<1>4. CASE Review!Key(s) \in Review!Keys(q)
  <2>1. PICK k \in DOMAIN q : k = CHOOSE j \in DOMAIN q : Review!Key(q[j]) = Review!Key(s)
    BY <1>4 DEF Review!Keys
  <2>2. Review!Key(q[k]) = Review!Key(s)
    BY <1>4, <2>1 DEF Review!Keys
  <2>3. w = [q EXCEPT ![k] = i]
    BY <1>1, <1>4, <2>1 DEF Review!Added
  <2> HIDE DEF w
  <2>4. w \in Seq(Suggestion) /\ DOMAIN w = DOMAIN q
    BY <1>2, <1>3, <2>3, ExceptSeq
  <2>5. \A x \in DOMAIN q : w[x] = IF x = k THEN i ELSE q[x]
    BY <2>3
  <2>6. \A x \in DOMAIN q : Review!Key(w[x]) = Review!Key(q[x])
    BY <1>2, <2>2, <2>5
  <2>7. Listed(w) /\ Review!Keys(w) = Review!Keys(q)
    BY <2>4, <2>6, SameKeys
  <2>8. Review!Keys(w) = Review!Keys(q) \cup {Review!Key(s)}
    BY <1>4, <2>7
  <2> QED
    BY <1>1, <2>4, <2>5, <2>7, <2>8 DEF w
<1>5. CASE Review!Key(s) \notin Review!Keys(q)
  <2>1. w = Append(q, i)
    BY <1>1, <1>5 DEF Review!Added
  <2> HIDE DEF w
  <2>2. /\ w \in Seq(Suggestion) /\ Len(w) = Len(q) + 1 /\ w[Len(q) + 1] = i
        /\ \A x \in 1..Len(q) : w[x] = q[x]
    BY <1>2, <1>3, <2>1, AppendProperties
  <2>3. DOMAIN w = 1..(Len(q) + 1)
    BY <2>2
  <2>4. \A x \in DOMAIN w : (x = Len(q) + 1 /\ w[x] = i) \/ (x \in DOMAIN q /\ w[x] = q[x])
    BY <1>3, <2>2, <2>3
  <2>5. \A x \in DOMAIN q : x \in DOMAIN w /\ w[x] = q[x]
    BY <1>3, <2>2, <2>3
  <2>6. Len(q) + 1 \in DOMAIN w
    BY <1>3, <2>3
  <2>7. \A x \in DOMAIN q : Review!Key(q[x]) # Review!Key(i)
    BY <1>2, <1>5 DEF Review!Keys
  <2>8. Once(w)
    BY <2>4, <2>7 DEF Once, Listed
  <2>9. Review!Keys(w) = Review!Keys(q) \cup {Review!Key(s)}
    <3>1. \A y \in Review!Keys(w) : y \in Review!Keys(q) \cup {Review!Key(s)}
      BY <1>2, <2>4 DEF Review!Keys
    <3>2. \A y \in Review!Keys(q) : y \in Review!Keys(w)
      BY <2>5 DEF Review!Keys
    <3>3. Review!Key(s) \in Review!Keys(w)
      BY <1>2, <2>2, <2>6 DEF Review!Keys
    <3> QED
      BY <3>1, <3>2, <3>3
  <2> QED
    BY <1>1, <2>2, <2>4, <2>8, <2>9 DEF w, Listed
<1> QED
  BY <1>4, <1>5

\* Both of the outcomes of a save.
LEMMA PlainIs ==
  ASSUME NEW q, Listed(q)
  PROVE  Listed(Review!Plain(q)) /\ Review!Keys(Review!Plain(q)) = Review!Keys(q)
<1> DEFINE w == Review!Plain(q)
           p(k) == [q[k] EXCEPT !.armed = FALSE, !.proposed = q[k].text, !.seen = q[k].text]
<1>1. q \in Seq(Suggestion) /\ DOMAIN q = 1..Len(q) /\ Len(q) \in Nat
  BY DEF Listed
<1>2. ASSUME NEW k \in DOMAIN q PROVE p(k) \in Suggestion /\ Review!Key(p(k)) = Review!Key(q[k])
  <2>1. q[k] \in Suggestion
    BY <1>1, ElementOfSeq
  <2>2. PICK i : i = q[k]
    OBVIOUS
  <2>3. i.text \in Versions /\ i \in Suggestion
    BY <2>1, <2>2 DEF Suggestion
  <2>4. PICK j : j = [i EXCEPT !.armed = FALSE, !.proposed = i.text, !.seen = i.text]
    OBVIOUS
  <2>5. j \in Suggestion /\ j.agent = i.agent /\ j.topic = i.topic
    BY <2>3, <2>4, Zenon DEF Suggestion
  <2> QED
    BY <2>2, <2>4, <2>5 DEF Review!Key
<1>3. w = [k \in 1..Len(q) |-> p(k)]
  BY <1>1 DEF Review!Plain
<1> HIDE DEF p
<1>4. w \in [1..Len(q) -> Suggestion]
  BY <1>1, <1>2, <1>3
<1>5. w \in Seq(Suggestion) /\ DOMAIN w = DOMAIN q
  BY <1>1, <1>4 DEF Seq
<1>6. \A k \in DOMAIN q : Review!Key(w[k]) = Review!Key(q[k])
  BY <1>1, <1>2, <1>3
<1> HIDE DEF w
<1>7. Listed(w) /\ Review!Keys(w) = Review!Keys(q)
  BY <1>5, <1>6, SameKeys
<1> QED
  BY <1>7 DEF w

Saved(q) ==
  /\ Listed(store') /\ damaged' \in BOOLEAN /\ unsaved' \in BOOLEAN
  /\ unsaved' \/ Review!Keys(store') = Review!Keys(q)

LEMMA PersistSaves ==
  \A q : QueueTyped /\ Listed(q) /\ Review!Persist(q) => Saved(q)
<1> SUFFICES ASSUME NEW q, QueueTyped, Listed(q), Review!Persist(q) PROVE Saved(q)
  OBVIOUS
<1>1. Listed(Review!Plain(q)) /\ Review!Keys(Review!Plain(q)) = Review!Keys(q)
  BY PlainIs
<1>2. CASE store' = Review!Plain(q) /\ damaged' = FALSE /\ unsaved' = FALSE
  BY <1>1, <1>2, Zenon DEF Saved
<1>3. CASE unsaved' = TRUE /\ store' = store /\ damaged' = damaged
  BY <1>3 DEF Saved, QueueTyped
<1> QED
  BY <1>2, <1>3, Zenon DEF Review!Persist

LEMMA ItemChanges ==
  ASSUME NEW q, Listed(q), NEW k \in DOMAIN q, NEW i \in Suggestion,
         Review!Key(i) = Review!Key(q[k])
  PROVE  /\ Listed([q EXCEPT ![k] = i]) /\ Review!Keys([q EXCEPT ![k] = i]) = Review!Keys(q)
         /\ DOMAIN [q EXCEPT ![k] = i] = DOMAIN q
         /\ \A x \in DOMAIN q : [q EXCEPT ![k] = i][x] = IF x = k THEN i ELSE q[x]
<1> DEFINE w == [q EXCEPT ![k] = i]
<1>1. q \in Seq(Suggestion) /\ DOMAIN q = 1..Len(q) /\ Len(q) \in Nat
  BY DEF Listed
<1>2. w \in Seq(Suggestion) /\ DOMAIN w = DOMAIN q
  BY <1>1, ExceptSeq
<1>3. \A x \in DOMAIN q : w[x] = IF x = k THEN i ELSE q[x]
  OBVIOUS
<1> HIDE DEF w
<1>4. \A x \in DOMAIN q : Review!Key(w[x]) = Review!Key(q[x])
  BY <1>3
<1>5. Listed(w) /\ Review!Keys(w) = Review!Keys(q)
  BY <1>2, <1>4, SameKeys
<1> QED
  BY <1>2, <1>3, <1>5 DEF w

\* One suggestion is edited, armed or disarmed.
LEMMA OneItemKeeps ==
  \A k \in DOMAIN queue, i \in Suggestion :
    /\ QueueInv /\ queue' = [queue EXCEPT ![k] = i]
    /\ i.agent = queue[k].agent /\ i.topic = queue[k].topic
    /\ i.armed => i.seen = i.proposed
    => /\ Listed(queue') /\ Review!Keys(queue') = Review!Keys(queue)
       /\ \A x \in DOMAIN queue' : queue'[x].armed => queue'[x].seen = queue'[x].proposed
       /\ \A x \in DOMAIN queue' : queue'[x].agent # reverted
<1> SUFFICES ASSUME NEW k \in DOMAIN queue, NEW i \in Suggestion, QueueInv,
                    queue' = [queue EXCEPT ![k] = i],
                    i.agent = queue[k].agent, i.topic = queue[k].topic,
                    i.armed => i.seen = i.proposed
             PROVE  /\ Listed(queue') /\ Review!Keys(queue') = Review!Keys(queue)
                    /\ \A x \in DOMAIN queue' : queue'[x].armed => queue'[x].seen = queue'[x].proposed
                    /\ \A x \in DOMAIN queue' : queue'[x].agent # reverted
  BY Zenon
<1>1. PICK q : q = queue
  OBVIOUS
<1>2. Listed(q) /\ k \in DOMAIN q /\ Review!Key(i) = Review!Key(q[k])
  BY <1>1 DEF QueueInv, QueueTyped, Review!Key
<1> DEFINE w == [q EXCEPT ![k] = i]
<1>3. /\ Listed(w) /\ Review!Keys(w) = Review!Keys(q) /\ DOMAIN w = DOMAIN q
      /\ \A x \in DOMAIN q : w[x] = IF x = k THEN i ELSE q[x]
  BY <1>2, ItemChanges
<1>4. queue' = w
  BY <1>1
<1> HIDE DEF w
<1>5. \A x \in DOMAIN w : w[x].armed => w[x].seen = w[x].proposed
  BY <1>1, <1>3 DEF QueueInv, Confirmed
<1>6. \A x \in DOMAIN w : w[x].agent # reverted
  BY <1>1, <1>3 DEF QueueInv, Confirmed
<1> QED
  BY <1>1, <1>3, <1>4, <1>5, <1>6, Zenon

\* Decided suggestions leave the queue and stay in the file until it is written.
LEMMA DecidesKeeps ==
  \A out :
    /\ QueueInv /\ deciding = {} /\ out \subseteq owed /\ out # {}
    /\ Review!Decides(out) /\ past' \subseteq Agents
    /\ \A x \in DOMAIN queue : Review!Key(queue[x]) \notin out => queue[x].agent # reverted'
    => QueueInv'
<1> SUFFICES ASSUME NEW out, QueueInv, deciding = {}, out \subseteq owed, out # {},
                    Review!Decides(out), past' \subseteq Agents,
                    \A x \in DOMAIN queue : Review!Key(queue[x]) \notin out => queue[x].agent # reverted'
             PROVE  QueueInv'
  OBVIOUS
<1>1. PICK q : q = queue
  OBVIOUS
<1>2. Listed(q)
  BY <1>1 DEF QueueInv, QueueTyped
<1>3. PICK w : w = Review!Without(q, out)
  OBVIOUS
<1>4. /\ Listed(w) /\ Review!Keys(w) = Review!Keys(q) \ out
      /\ \A x \in DOMAIN w : \E i \in DOMAIN q : q[i] = w[x] /\ Review!Key(q[i]) \notin out
  BY <1>2, <1>3, WithoutIs
<1>5. queue' = w /\ owed' = owed \ out /\ deciding' = out
  BY <1>1, <1>3 DEF Review!Decides
<1>6. UNCHANGED <<store, damaged, inbox, unsaved>>
  BY DEF Review!Decides
<1>7. QueueTyped'
  BY <1>4, <1>5, <1>6 DEF QueueInv, QueueTyped
<1>8. Review!Keys(w) = owed'
  BY <1>1, <1>4, <1>5 DEF QueueInv
<1>9. ~unsaved /\ ~damaged => Review!Keys(store) = owed' \cup deciding'
  BY <1>5 DEF QueueInv
<1>10. Confirmed'
  <2>1. \A x \in DOMAIN w : w[x].armed => w[x].seen = w[x].proposed
    BY <1>1, <1>4 DEF QueueInv, Confirmed
  <2>2. \A x \in DOMAIN w : w[x].agent # reverted'
    BY <1>1, <1>4
  <2> QED
    BY <1>5, <2>1, <2>2 DEF Confirmed
<1>11. Review!Keys(queue') = owed'
  BY <1>5, <1>8
<1>12. ~unsaved' /\ ~damaged' => Review!Keys(store') = owed' \cup deciding'
  BY <1>6, <1>9
<1> QED
  BY <1>7, <1>10, <1>11, <1>12 DEF QueueInv, Review!Keys

LEMMA EventsKeep ==
  ASSUME QueueInv, inbox' \in Seq(Event),
         UNCHANGED <<queue, store, damaged, past, deciding, reverted, owed, unsaved>>
  PROVE  QueueInv'
BY DEF QueueInv, QueueTyped, Confirmed, Review!Keys

LEMMA EventsArrive ==
  ASSUME QueueInv, NEW s \in Review!Suggestions,
         Review!Suggests(s) \/ Review!ThreadFinds(s) \/ Review!ThreadFindsNothing
  PROVE  QueueInv'
<1> DEFINE e == [kind |-> "suggested", item |-> s]
           f == [kind |-> "finished"]
<1>1. e \in Event /\ f \in Event
  BY DEF Event
<1>2. inbox \in Seq(Event)
  BY DEF QueueInv, QueueTyped
<1>3. inbox' \in {Append(inbox, e), Append(inbox, f), inbox \o <<e, f>>}
  BY Zenon DEF Review!Suggests, Review!ThreadFinds, Review!ThreadFindsNothing
<1> HIDE DEF e, f
<1>4. inbox' \in Seq(Event)
  <2>1. <<e, f>> \in Seq(Event)
    BY <1>1
  <2>2. PICK i : i = inbox
    OBVIOUS
  <2>3. i \in Seq(Event)
    BY <1>2, <2>2
  <2>4. Append(i, e) \in Seq(Event) /\ Append(i, f) \in Seq(Event)
    BY <1>1, <2>3, AppendProperties
  <2>5. i \o <<e, f>> \in Seq(Event)
    BY <2>1, <2>3, ConcatProperties
  <2> QED
    BY <1>3, <2>2, <2>4, <2>5, Zenon
<1> QED
  BY <1>4, EventsKeep DEF Review!Suggests, Review!ThreadFinds, Review!ThreadFindsNothing

LEMMA HandlesFinishedKeeps == ASSUME QueueInv, Review!HandlesFinished PROVE QueueInv'
<1>1. inbox' \in Seq(Event)
  BY DEF Review!HandlesFinished, QueueInv, QueueTyped
<1> QED
  BY <1>1, EventsKeep DEF Review!HandlesFinished

LEMMA HandlesSuggestionKeeps == ASSUME QueueInv, Review!HandlesSuggestion PROVE QueueInv'
<1>1. inbox \in Seq(Event) /\ inbox # <<>>
  BY DEF QueueInv, QueueTyped, Review!HandlesSuggestion
<1>2. inbox' \in Seq(Event)
  BY <1>1 DEF Review!HandlesSuggestion
<1>3. PICK s : s = Head(inbox).item
  OBVIOUS
<1>4. s \in Review!Suggestions
  <2>1. Head(inbox) \in Event /\ Head(inbox).kind = "suggested"
    BY <1>1 DEF Review!HandlesSuggestion
  <2>2. PICK h : h = Head(inbox)
    OBVIOUS
  <2>3. h \in Event /\ h.kind = "suggested"
    BY <2>1, <2>2
  <2> QED
    BY <1>3, <2>2, <2>3 DEF Event
<1>5. PICK q : q = queue
  OBVIOUS
<1>6. Listed(q)
  BY <1>5 DEF QueueInv, QueueTyped
<1>7. PICK w : w = Review!Added(q, s)
  OBVIOUS
<1>8. /\ Listed(w) /\ Review!Keys(w) = Review!Keys(q) \cup {Review!Key(s)}
      /\ \A x \in DOMAIN w : w[x] = Review!Item(s) \/ (x \in DOMAIN q /\ w[x] = q[x])
  BY <1>4, <1>6, <1>7, AddedIs
<1>9. queue' = w /\ owed' = owed \cup {Review!Key(s)}
  BY <1>3, <1>5, <1>7 DEF Review!HandlesSuggestion
<1>10. Saved(w)
  <2>1. Review!Persist(w)
    BY <1>9 DEF Review!HandlesSuggestion
  <2> QED
    BY <1>8, <2>1, PersistSaves DEF QueueInv
<1>11. UNCHANGED <<past, deciding, reverted>> /\ deciding = {}
  BY DEF Review!HandlesSuggestion
<1>12. Confirmed'
  <2>1. \A x \in DOMAIN w : w[x].armed => w[x].seen = w[x].proposed
    BY <1>4, <1>5, <1>8, ItemIs DEF QueueInv, Confirmed
  <2>2. reverted = Review!Nobody
    BY <1>11 DEF QueueInv, Confirmed
  <2>3. \A x \in DOMAIN w : w[x].agent # Review!Nobody
    BY <1>8, NobodysItems DEF Listed
  <2> QED
    BY <1>9, <1>11, <2>1, <2>2, <2>3 DEF Confirmed
<1>13. QueueTyped'
  BY <1>2, <1>8, <1>9, <1>10, <1>11 DEF QueueInv, QueueTyped, Saved
<1>14. Review!Keys(queue') = owed'
  BY <1>5, <1>8, <1>9 DEF QueueInv
<1>15. ~unsaved' /\ ~damaged' => Review!Keys(store') = owed' \cup deciding'
  BY <1>9, <1>10, <1>11, <1>14 DEF Saved
<1> QED
  BY <1>12, <1>13, <1>14, <1>15 DEF QueueInv, Review!Keys

LEMMA PersistsKeeps == ASSUME QueueInv, Review!Persists PROVE QueueInv'
<1>1. PICK q : q = queue
  OBVIOUS
<1>2. Saved(q)
  BY <1>1, PersistSaves DEF QueueInv, QueueTyped, Review!Persists
<1>3. UNCHANGED <<queue, inbox, past, owed>> /\ deciding' = {} /\ reverted' = Review!Nobody
  BY DEF Review!Persists
<1>4. QueueTyped'
  BY <1>2, <1>3 DEF QueueInv, QueueTyped, Saved
<1>5. ~unsaved' /\ ~damaged' => Review!Keys(store') = owed' \cup deciding'
  BY <1>1, <1>2, <1>3 DEF QueueInv, Saved
<1>6. \A k \in DOMAIN q : q[k].agent # Review!Nobody
  BY <1>1, NobodysItems DEF QueueInv, QueueTyped, Listed
<1>7. Confirmed'
  BY <1>1, <1>3, <1>6 DEF QueueInv, Confirmed
<1> QED
  BY <1>3, <1>4, <1>5, <1>7 DEF QueueInv, Review!Keys

\* The user's actions.

\* Whatever text or button of an item changes, it is still that suggestion.
LEMMA ItemsOf ==
  ASSUME QueueInv, NEW k \in DOMAIN queue
  PROVE  /\ queue[k] \in Suggestion /\ queue[k].agent \in Agents
         /\ Review!Key(queue[k]) \in owed
<1>1. queue \in Seq(Suggestion)
  BY DEF QueueInv, QueueTyped, Listed
<1>2. queue[k] \in Suggestion
  <2>1. PICK q : q = queue
    OBVIOUS
  <2>2. q \in Seq(Suggestion) /\ k \in DOMAIN q
    BY <1>1, <2>1
  <2>3. q[k] \in Suggestion
    BY <2>2, ElementOfSeq
  <2> QED
    BY <2>1, <2>3
<1>3. Review!Key(queue[k]) \in owed
  BY DEF QueueInv, Review!Keys
<1> QED
  BY <1>2, <1>3 DEF Suggestion

LEMMA EditsKeeps ==
  ASSUME QueueInv, NEW k \in DOMAIN queue, NEW v \in Versions, Review!Edits(k, v)
  PROVE  QueueInv'
<1>1. PICK j : j = queue[k]
  OBVIOUS
<1>2. j \in Suggestion /\ (j.armed => j.seen = j.proposed)
  BY <1>1, ItemsOf DEF QueueInv, Confirmed
<1>3. PICK i : i = [j EXCEPT !.text = v]
  BY Zenon
<1>4. /\ i \in Suggestion /\ i.agent = j.agent /\ i.topic = j.topic
      /\ i.armed => i.seen = i.proposed
  BY <1>2, <1>3 DEF Suggestion
<1>5. queue' = [queue EXCEPT ![k] = i]
  BY <1>1, <1>3 DEF Review!Edits
<1>6. /\ Listed(queue') /\ Review!Keys(queue') = Review!Keys(queue)
      /\ \A x \in DOMAIN queue' : queue'[x].armed => queue'[x].seen = queue'[x].proposed
      /\ \A x \in DOMAIN queue' : queue'[x].agent # reverted
  BY <1>1, <1>4, <1>5, OneItemKeeps, Zenon
<1>7. UNCHANGED <<store, damaged, inbox, past, deciding, reverted, owed, unsaved>>
  BY DEF Review!Edits
<1>8. QueueTyped'
  BY <1>6, <1>7 DEF QueueInv, QueueTyped
<1>9. Confirmed'
  BY <1>6, <1>7 DEF QueueInv, Confirmed
<1> QED
  BY <1>6, <1>7, <1>8, <1>9, Zenon DEF QueueInv, Review!Keys

LEMMA ArmsKeeps ==
  ASSUME QueueInv, NEW k \in DOMAIN queue, Review!Arms(k) PROVE QueueInv'
<1>1. PICK j : j = queue[k]
  OBVIOUS
<1>2. j \in Suggestion
  BY <1>1, ItemsOf
<1>3. PICK i : i = [j EXCEPT !.armed = TRUE, !.seen = j.proposed]
  OBVIOUS
<1>4. /\ i \in Suggestion /\ i.agent = j.agent /\ i.topic = j.topic
      /\ i.armed => i.seen = i.proposed
  BY <1>2, <1>3, Zenon DEF Suggestion
<1>5. queue' = [queue EXCEPT ![k] = i]
  BY <1>1, <1>3, Zenon DEF Review!Arms
<1>6. /\ Listed(queue') /\ Review!Keys(queue') = Review!Keys(queue)
      /\ \A x \in DOMAIN queue' : queue'[x].armed => queue'[x].seen = queue'[x].proposed
      /\ \A x \in DOMAIN queue' : queue'[x].agent # reverted
  BY <1>1, <1>4, <1>5, OneItemKeeps, Zenon
<1>7. UNCHANGED <<store, damaged, inbox, past, deciding, reverted, owed, unsaved>>
  BY DEF Review!Arms
<1>8. QueueTyped'
  BY <1>6, <1>7 DEF QueueInv, QueueTyped
<1>9. Confirmed'
  BY <1>6, <1>7 DEF QueueInv, Confirmed
<1> QED
  BY <1>6, <1>7, <1>8, <1>9, Zenon DEF QueueInv, Review!Keys

LEMMA ApprovesKeeps ==
  ASSUME QueueInv, NEW k \in DOMAIN queue, Review!Approves(k) \/ Review!Dismisses(k)
  PROVE  QueueInv'
<1>1. PICK out : out = {Review!Key(queue[k])}
  BY Zenon
<1>2. deciding = {} /\ Review!Decides(out) /\ reverted' = Review!Nobody
  BY <1>1 DEF Review!Approves, Review!Dismisses
<1>3. out \subseteq owed /\ out # {}
  BY <1>1, ItemsOf
<1>4. past' \subseteq Agents
  <2>1. past \subseteq Agents
    BY DEF QueueInv, QueueTyped
  <2>2. queue[k].agent \in Agents
    BY ItemsOf
  <2>3. past' \in {past, past \cup {queue[k].agent}}
    BY DEF Review!Approves, Review!Dismisses
  <2> QED
    BY <2>1, <2>2, <2>3
<1>5. \A x \in DOMAIN queue : queue[x].agent # reverted'
  BY <1>2, ItemsOf, NobodyAssumption
<1> QED
  BY <1>2, <1>3, <1>4, <1>5, DecidesKeeps

LEMMA RevertsKeeps ==
  ASSUME QueueInv, NEW k \in DOMAIN queue, Review!Reverts(k) PROVE QueueInv'
<1>0. deciding = {}
  BY DEF Review!Reverts
<1>1. CASE past' = past /\ reverted' = queue[k].agent /\ Review!Decides(Review!Dropped(queue, k))
  <2>1. PICK out : out = Review!Dropped(queue, k)
    OBVIOUS
  <2>2. out \subseteq owed
    BY <2>1, ItemsOf DEF Review!Dropped
  <2>3. out # {}
    BY <2>1 DEF Review!Dropped
  <2>4. \A x \in DOMAIN queue : Review!Key(queue[x]) \notin out => queue[x].agent # reverted'
    BY <1>1, <2>1 DEF Review!Dropped
  <2>5. past' \subseteq Agents
    BY <1>1 DEF QueueInv, QueueTyped
  <2> QED
    BY <1>0, <1>1, <2>1, <2>2, <2>3, <2>4, <2>5, DecidesKeeps
<1>2. CASE /\ queue' = [queue EXCEPT ![k].armed = FALSE]
           /\ Review!Persist(queue')
           /\ UNCHANGED <<inbox, checking, thread, past, deciding, reverted, owed, batches>>
  <2>1. PICK j : j = queue[k]
    OBVIOUS
  <2>2. j \in Suggestion
    BY <2>1, ItemsOf
  <2>3. PICK i : i = [j EXCEPT !.armed = FALSE]
    BY Zenon
  <2>4. /\ i \in Suggestion /\ i.agent = j.agent /\ i.topic = j.topic
        /\ i.armed => i.seen = i.proposed
    BY <2>2, <2>3, Zenon DEF Suggestion
  <2>5. queue' = [queue EXCEPT ![k] = i]
    BY <1>2, <2>1, <2>3
  <2>6. /\ Listed(queue') /\ Review!Keys(queue') = Review!Keys(queue)
        /\ \A x \in DOMAIN queue' : queue'[x].armed => queue'[x].seen = queue'[x].proposed
        /\ \A x \in DOMAIN queue' : queue'[x].agent # reverted
    BY <2>1, <2>4, <2>5, OneItemKeeps, Zenon
  <2>7. Saved(queue')
    BY <1>2, <2>6, PersistSaves DEF QueueInv
  <2>8. QueueTyped'
    BY <1>2, <2>6, <2>7 DEF QueueInv, QueueTyped, Saved
  <2>9. Confirmed'
    BY <1>2, <2>6 DEF QueueInv, Confirmed
  <2>10. Review!Keys(queue') = owed'
    BY <1>2, <2>6 DEF QueueInv
  <2>11. ~unsaved' /\ ~damaged' => Review!Keys(store') = owed' \cup deciding'
    BY <1>0, <1>2, <2>7, <2>10 DEF Saved
  <2> QED
    BY <2>8, <2>9, <2>10, <2>11 DEF QueueInv, Review!Keys
<1> QED
  BY <1>1, <1>2 DEF Review!Reverts

\* What a start reads: the same suggestions, no button armed.
LEMMA DisarmedIs ==
  ASSUME NEW q, Listed(q)
  PROVE  /\ Listed([k \in DOMAIN q |-> [q[k] EXCEPT !.armed = FALSE]])
         /\ Review!Keys([k \in DOMAIN q |-> [q[k] EXCEPT !.armed = FALSE]]) = Review!Keys(q)
         /\ DOMAIN [k \in DOMAIN q |-> [q[k] EXCEPT !.armed = FALSE]] = DOMAIN q
         /\ \A x \in DOMAIN q : ~[k \in DOMAIN q |-> [q[k] EXCEPT !.armed = FALSE]][x].armed
<1> DEFINE d(k) == [q[k] EXCEPT !.armed = FALSE]
           w == [k \in DOMAIN q |-> d(k)]
<1>1. q \in Seq(Suggestion) /\ DOMAIN q = 1..Len(q) /\ Len(q) \in Nat
  BY DEF Listed
<1>2. ASSUME NEW k \in DOMAIN q
      PROVE  d(k) \in Suggestion /\ Review!Key(d(k)) = Review!Key(q[k]) /\ ~d(k).armed
  <2>1. q[k] \in Suggestion
    BY <1>1, ElementOfSeq
  <2>2. PICK i : i = q[k]
    OBVIOUS
  <2>3. PICK j : j = [i EXCEPT !.armed = FALSE]
    BY Zenon
  <2>4. j \in Suggestion /\ j.agent = i.agent /\ j.topic = i.topic /\ ~j.armed
    BY <2>1, <2>2, <2>3, Zenon DEF Suggestion
  <2> QED
    BY <2>2, <2>3, <2>4 DEF Review!Key
<1>3. w = [k \in 1..Len(q) |-> d(k)]
  BY <1>1
<1> HIDE DEF d
<1>4. w \in [1..Len(q) -> Suggestion] /\ DOMAIN w = DOMAIN q
  BY <1>1, <1>2, <1>3
<1>5. w \in Seq(Suggestion)
  BY <1>1, <1>4 DEF Seq
<1>6. \A k \in DOMAIN q : Review!Key(w[k]) = Review!Key(q[k]) /\ ~w[k].armed
  BY <1>1, <1>2, <1>3
<1> HIDE DEF w
<1>7. Listed(w) /\ Review!Keys(w) = Review!Keys(q)
  BY <1>4, <1>5, <1>6, SameKeys
<1> QED
  BY <1>4, <1>6, <1>7 DEF w, d

LEMMA RestartsKeeps == ASSUME QueueInv, Review!Restarts PROVE QueueInv'
<1>1. PICK q : q = Review!Stored
  OBVIOUS
<1>2. Listed(q)
  BY <1>1 DEF QueueInv, QueueTyped, Review!Stored, Listed, Once
<1>3. PICK w : w = [k \in DOMAIN q |-> [q[k] EXCEPT !.armed = FALSE]]
  BY Zenon
<1>4. /\ Listed(w) /\ Review!Keys(w) = Review!Keys(q) /\ DOMAIN w = DOMAIN q
      /\ \A k \in DOMAIN q : ~w[k].armed
  BY <1>2, <1>3, DisarmedIs
<1>5. /\ queue' = w /\ deciding' = {} /\ reverted' = Review!Nobody /\ inbox' = <<>>
      /\ UNCHANGED <<store, damaged, past, unsaved>>
      /\ owed' = IF unsaved \/ damaged THEN Review!Keys(q) ELSE owed \cup deciding
  BY <1>1, <1>3 DEF Review!Restarts
<1>6. ~unsaved /\ ~damaged => Review!Keys(store) = owed \cup deciding /\ q = store
  BY <1>1 DEF QueueInv, Review!Stored
<1>7. Review!Keys(queue') = owed'
  <2>1. CASE unsaved \/ damaged
    BY <1>4, <1>5, <2>1
  <2>2. CASE ~unsaved /\ ~damaged
    BY <1>4, <1>5, <1>6, <2>2
  <2> QED
    BY <2>1, <2>2
<1>8. ~unsaved' /\ ~damaged' => Review!Keys(store') = owed' \cup deciding'
  BY <1>5, <1>6
<1>9. QueueTyped'
  BY <1>4, <1>5 DEF QueueInv, QueueTyped
<1>10. \A k \in DOMAIN w : w[k].agent # Review!Nobody
  BY <1>4, NobodysItems DEF Listed
<1>11. Confirmed'
  BY <1>4, <1>5, <1>10 DEF Confirmed
<1> QED
  BY <1>7, <1>8, <1>9, <1>11 DEF QueueInv, Review!Keys

LEMMA QueueInit == ASSUME Review!Init PROVE QueueInv
<1>1. Listed(<<>>)
  BY DEF Listed, Once
<1>2. QueueTyped
  <2>1. Listed(queue) /\ Listed(store) /\ past \subseteq Agents
    BY <1>1 DEF Review!Init
  <2>2. inbox = <<>> /\ damaged \in BOOLEAN /\ unsaved = FALSE
    BY DEF Review!Init
  <2>3. inbox \in Seq(Event)
    BY <2>2
  <2> QED
    BY <2>1, <2>2, <2>3, Zenon DEF QueueTyped
<1>3. Confirmed
  BY DEF Review!Init, Confirmed
<1>4. Review!Keys(<<>>) = {}
  BY DEF Review!Keys
<1> QED
  BY <1>2, <1>3, <1>4 DEF QueueInv, Review!Init

LEMMA QueueStep == ASSUME QueueInv, Review!Next PROVE QueueInv'
<1>1. ASSUME NEW s \in Review!Suggestions, Review!Suggests(s) \/ Review!ThreadFinds(s)
      PROVE  QueueInv'
  BY <1>1, EventsArrive
<1>2. CASE Review!HandlesSuggestion
  BY <1>2, HandlesSuggestionKeeps
<1>3. CASE Review!HandlesFinished
  BY <1>3, HandlesFinishedKeeps
<1>4. CASE Review!RunsCheck \/ Review!ThreadPanics
  BY <1>4, EventsKeep DEF Review!RunsCheck, Review!ThreadPanics, QueueInv, QueueTyped
<1>5. CASE Review!ThreadFindsNothing
  <2>1. inbox' \in Seq(Event)
    BY <1>5 DEF QueueInv, QueueTyped, Review!ThreadFindsNothing, Event
  <2> QED
    BY <1>5, <2>1, EventsKeep DEF Review!ThreadFindsNothing
<1>6. CASE Review!UserActs
  <2>1. PICK k \in DOMAIN queue :
          \/ \E v \in Versions : Review!Edits(k, v)
          \/ Review!Approves(k) \/ Review!Dismisses(k) \/ Review!Arms(k) \/ Review!Reverts(k)
    BY <1>6 DEF Review!UserActs
  <2>2. ASSUME NEW v \in Versions, Review!Edits(k, v) PROVE QueueInv'
    BY <2>2, EditsKeeps
  <2>3. CASE Review!Approves(k) \/ Review!Dismisses(k)
    BY <2>3, ApprovesKeeps
  <2>4. CASE Review!Arms(k)
    BY <2>4, ArmsKeeps
  <2>5. CASE Review!Reverts(k)
    BY <2>5, RevertsKeeps
  <2> QED
    BY <2>1, <2>2, <2>3, <2>4, <2>5
<1>7. CASE Review!Persists
  BY <1>7, PersistsKeeps
<1>8. CASE Review!Restarts
  BY <1>8, RestartsKeeps
<1> QED
  BY <1>1, <1>2, <1>3, <1>4, <1>5, <1>6, <1>7, <1>8 DEF Review!Next

\* As many suggestions as keys, when each is there once.
LEMMA QueueIsKept == ASSUME QueueInv PROVE Review!QueueKept /\ Review!RevertsAsConfirmed
<1>1. PICK q : q = queue
  OBVIOUS
<1>2. Listed(q)
  BY <1>1 DEF QueueInv, QueueTyped
<1>3. Len(q) \in Nat /\ DOMAIN q = 1..Len(q)
  BY <1>2 DEF Listed
<1> DEFINE S == 1..Len(q)
           T == Review!Keys(q)
           f == [k \in S |-> Review!Key(q[k])]
<1>4. IsFiniteSet(S) /\ Cardinality(S) = Len(q)
  <2>1. Len(q) = 0 => S = {}
    BY <1>3
  <2>2. IsFiniteSet(S) /\ Cardinality(S) = IF 1 > Len(q) THEN 0 ELSE Len(q) - 1 + 1
    BY <1>3, FS_Interval
  <2> QED
    BY <1>3, <2>2
<1>5. f \in Bijection(S, T)
  <2>1. f \in [S -> T]
    BY <1>3 DEF Review!Keys
  <2>2. \A j, k \in S : f[j] = f[k] => j = k
    BY <1>2, <1>3 DEF Listed, Once
  <2>3. \A y \in T : \E k \in S : f[k] = y
    BY <1>3 DEF Review!Keys
  <2> HIDE DEF f, S, T
  <2> QED
    BY <2>1, <2>2, <2>3 DEF Bijection, Injection, Surjection, IsInjective
<1> HIDE DEF S, T, f
<1>6. Cardinality(S) = Cardinality(T)
  BY <1>4, <1>5, FS_Bijection DEF ExistsBijection
<1>7. Review!Cardinality(owed) = Cardinality(owed)
  BY Zenon DEF Review!Cardinality, Cardinality
<1>8. Len(queue) = Review!Cardinality(owed)
  BY <1>1, <1>4, <1>6, <1>7 DEF QueueInv, T
<1>9. Review!QueueKept
  BY <1>8 DEF Review!QueueKept, QueueInv
<1>10. Review!RevertsAsConfirmed
  BY DEF Review!RevertsAsConfirmed, QueueInv, Confirmed
<1> QED
  BY <1>9, <1>10

-----------------------------------------------------------------------------
(* What holds while a part is looked at.                                   *)

LEMMA ProfilesStand == ASSUME ProfilesInv, UNCHANGED profilesVars PROVE ProfilesInv'
<1>1. UNCHANGED <<disk, oddFirst, texts, stamps, ptool, editor, panel, gone, unseen>>
  BY DEF profilesVars
<1>2. ProfilesTyped'
  BY <1>1 DEF ProfilesInv, ProfilesTyped
<1>3. (\A d \in Prompts!Dirs : TakenBy(disk[d], stamps))'
  BY <1>1 DEF ProfilesInv
<1>4. OddMoves'
  BY <1>1 DEF ProfilesInv, OddMoves, OddShows
<1>5. Prompts!EditsReversible' /\ Prompts!ToolEditShows' /\ Prompts!PanelListFresh'
  <2>1. Prompts!Listing' = Prompts!Listing
    BY <1>1 DEF Prompts!Listing, Prompts!Discovered, Prompts!DirOf, Prompts!FileOf, Prompts!FileIn
  <2> QED
    BY <1>1, <2>1 DEF ProfilesInv, Prompts!EditsReversible, Prompts!ToolEditShows, Prompts!PanelListFresh
<1> QED
  BY <1>2, <1>3, <1>4, <1>5 DEF ProfilesInv

LEMMA ImprovementStands == ASSUME ImprovementInv, UNCHANGED improvementVars PROVE ImprovementInv'
<1>1. UNCHANGED <<doc, tmp, lesson, news, now, actor, truth, raced, begun, upsets>>
  BY DEF improvementVars
<1>2. ImprovementTyped'
  BY <1>1 DEF ImprovementInv, ImprovementTyped
<1>3. BeingFilled'
  BY <1>1 DEF ImprovementInv, BeingFilled, WritesAt
<1>4. SavesAlone'
  BY <1>1 DEF ImprovementInv, SavesAlone, Improve!Read, Improve!Saving
<1>5. LessonsAhead'
  BY <1>1 DEF ImprovementInv, LessonsAhead, Documents, Concludes, Improve!Read, Improve!Saving
<1> QED
  BY <1>2, <1>3, <1>4, <1>5 DEF ImprovementInv

LEMMA QueueStands == ASSUME QueueInv, UNCHANGED reviewVars PROVE QueueInv'
BY EventsKeep DEF reviewVars, QueueInv, QueueTyped

\* While the profiles, the improvement loop or its queue are looked at, so is theirs.
PromptsHeld ==
  /\ part = "profiles" => ProfilesInv
  /\ part = "improvement" => ImprovementInv
  /\ part = "review" => QueueInv

\* What was made of the prompts is kept. Whatever edit, rename or revert puts into a
\* profile's file, what was there is in the history, unless the copy failed or the name
\* reads as a snapshot of another, and what the tool reports as edited is what discovery
\* finds (AgentManager). The tasks and checks counted add up while no two threads save at
\* once, and each new lesson gets its check (ImprovementState). A suggestion stays in the
\* queue, once, until the user has decided on it, and the second click on a Revert button
\* is for what the first one was for (ui/improvements). For any number of texts, stamps,
\* threads, ticks, agents, topics, checks, failed saves and restarts.
THEOREM PromptsAreKept == Spec => []PromptsKept
<1>1. Init => PromptsHeld
  BY ProfilesInit, ImprovementInit, QueueInit DEF Init, PromptsHeld
<1>2. ASSUME PromptsHeld, [Next]_vars PROVE PromptsHeld'
  <2>1. part' = part
    BY <1>2 DEF Next, vars
  <2>2. ASSUME part = "profiles" PROVE ProfilesInv'
    <3>1. Prompts!Next \/ UNCHANGED profilesVars
      BY <1>2, <2>2 DEF Next, vars
    <3> QED
      BY <1>2, <2>2, <3>1, ProfilesStep, ProfilesStand DEF PromptsHeld
  <2>3. ASSUME part = "improvement" PROVE ImprovementInv'
    <3>1. Improve!Next \/ UNCHANGED improvementVars
      BY <1>2, <2>3 DEF Next, vars
    <3> QED
      BY <1>2, <2>3, <3>1, ImprovementStep, ImprovementStands DEF PromptsHeld
  <2>4. ASSUME part = "review" PROVE QueueInv'
    <3>1. Review!Next \/ UNCHANGED reviewVars
      BY <1>2, <2>4 DEF Next, vars
    <3> QED
      BY <1>2, <2>4, <3>1, QueueStep, QueueStands DEF PromptsHeld
  <2> QED
    BY <2>1, <2>2, <2>3, <2>4 DEF PromptsHeld
<1>3. PromptsHeld => PromptsKept
  BY ProfilesAreSafe, ImprovementIsSound, QueueIsKept DEF PromptsHeld, PromptsKept
<1> QED
  BY <1>1, <1>2, <1>3, PTL DEF Spec

-----------------------------------------------------------------------------
(* The memory: what is known is held, and the file follows.                *)

EntryOf(n) == [id : 0..(n - 1), words : SUBSET (UNION Texts), expired : BOOLEAN]
SaverOf(n) ==
  [pc : {"none", "evict", "due", "writing", "sharing"}, what : SUBSET EntryOf(n)]
Asking ==
  pass = [pc |-> "asking", left |-> pass.left, total |-> pass.total, full |-> pass.full]
Applying ==
  /\ pass = [pc |-> pass.pc, chunk |-> pass.chunk, left |-> pass.left, total |-> pass.total,
             full |-> pass.full, phase |-> pass.phase, actions |-> pass.actions,
             count |-> pass.count, ids |-> pass.ids, text |-> pass.text]
  /\ pass.pc \in {"applying", "merging"} /\ pass.phase \in {"merge", "update", "delete"}

PassTyped ==
  \/ pass = Mem!NoPass
  \/ Asking /\ pass.left \subseteq EntryOf(nextId)
  \/ /\ Applying
     /\ pass.left \subseteq EntryOf(nextId) /\ pass.chunk \subseteq EntryOf(nextId)
     /\ pass.ids \subseteq 0..(nextId - 1) /\ pass.text \subseteq UNION Texts

MemoryTyped ==
  /\ nextId \in Nat
  /\ entries \subseteq EntryOf(nextId)
  /\ memfile \subseteq EntryOf(nextId)
  /\ saver \in [Mem!Sides -> SaverOf(nextId)]
  /\ PassTyped

\* What a merge has made of its sources is held without them, before they are deleted.
MergedStays ==
  pass.pc = "merging" =>
    known \cap Mem!Merged(pass.ids, pass.text) \subseteq Mem!Kept(entries)

\* A copy that is written alone is what the entries are, unless the other side has changed
\* them and has yet to copy them itself.
Contents(es) == {[id |-> e.id, words |-> e.words] : e \in es}
CopyIsLatest ==
  \A s, o \in Mem!Sides :
    s # o /\ saver[s].pc = "writing" =>
      /\ saver[o].pc \notin Mem!Busy
      /\ saver[o].pc = "none" => Contents(saver[s].what) = Contents(entries)
FileFollows ==
  /\ CopyIsLatest
  /\ (\A s \in Mem!Sides : saver[s].pc = "none") /\ ~stale =>
       Contents(memfile) = Contents(entries)

MemoryInv == MemoryTyped /\ Mem!NothingForgotten /\ MergedStays /\ FileFollows

LEMMA EntriesGrow == ASSUME NEW n \in Nat PROVE EntryOf(n) \subseteq EntryOf(n + 1)
BY DEF EntryOf

LEMMA WordsAre ==
  /\ \A es, w : w \in Mem!Words(es) <=> \E e \in es : w \in e.words
  /\ \A es, w : w \in Mem!Words(Mem!Active(es)) <=> \E e \in es : ~e.expired /\ w \in e.words
  /\ \A es, ids, e : e \in Mem!Of(es, ids) <=> e \in es /\ e.id \in ids
BY DEF Mem!Words, Mem!Active, Mem!Of

\* Kept goes by the pass of now, also where a step asks it of the entries to come.
LEMMA KeptIs ==
  \A es, w : w \in Mem!Kept(es) <=>
    \E e \in es : ~e.expired /\ w \in e.words /\ ~(pass.pc = "merging" /\ e.id \in pass.ids)
<1>1. CASE pass.pc = "merging"
  BY <1>1 DEF Mem!Kept, Mem!Words, Mem!Active, Mem!Of
<1>2. CASE pass.pc # "merging"
  BY <1>2 DEF Mem!Kept, Mem!Words, Mem!Active, Mem!Of
<1> QED
  BY <1>1, <1>2

LEMMA KeptStays == ASSUME pass' = pass PROVE Mem!Kept(entries)' = Mem!Kept(entries')
BY DEF Mem!Kept, Mem!Words, Mem!Active, Mem!Of

LEMMA KeptAreHeld == \A es : Mem!Kept(es) \subseteq Mem!Words(Mem!Active(es))
BY KeptIs, WordsAre

\* A step that leaves the pass alone: what it takes away is not known any more, unless it
\* is held elsewhere.
LEMMA LossIsMeant ==
  ASSUME MemoryInv, pass' = pass,
         \E taken : /\ \A e \in entries : e \in entries' \/ e \in taken
                   /\ known' \subseteq (known \ Mem!Words(taken)) \cup Mem!Kept(entries')
  PROVE  Mem!NothingForgotten' /\ MergedStays'
<1>1. PICK taken : /\ \A e \in entries : e \in entries' \/ e \in taken
                  /\ known' \subseteq (known \ Mem!Words(taken)) \cup Mem!Kept(entries')
  OBVIOUS
<1>2. ASSUME NEW w \in known' PROVE w \in Mem!Words(Mem!Active(entries'))
  <2>1. CASE w \in Mem!Kept(entries')
    BY <2>1, KeptAreHeld
  <2>2. CASE w \in known \ Mem!Words(taken)
    <3>1. PICK e \in entries : ~e.expired /\ w \in e.words
      BY <2>2, WordsAre DEF MemoryInv, Mem!NothingForgotten
    <3> QED
      BY <1>1, <2>2, <3>1, WordsAre
  <2> QED
    BY <1>1, <1>2, <2>1, <2>2
<1>3. Mem!NothingForgotten'
  <2>1. Mem!Words(Mem!Active(entries))' = Mem!Words(Mem!Active(entries'))
    BY DEF Mem!Words, Mem!Active
  <2> QED
    BY <1>2, <2>1 DEF Mem!NothingForgotten
<1>4. ASSUME pass.pc = "merging", NEW w \in known', w \in Mem!Merged(pass.ids, pass.text)
      PROVE  w \in Mem!Kept(entries')
  <2>1. CASE w \in known \ Mem!Words(taken)
    <3>1. w \in Mem!Kept(entries)
      BY <1>4, <2>1 DEF MemoryInv, MergedStays
    <3>2. PICK e \in entries : ~e.expired /\ w \in e.words /\ ~(pass.pc = "merging" /\ e.id \in pass.ids)
      BY <3>1, KeptIs
    <3> QED
      BY <1>1, <2>1, <3>2, WordsAre, KeptIs
  <2> QED
    BY <1>1, <1>4, <2>1
<1>5. MergedStays'
  <2>1. Mem!Merged(pass.ids, pass.text)' = Mem!Merged(pass.ids, pass.text)
    BY DEF Mem!Merged, Mem!Words, Mem!Of
  <2> QED
    BY <1>4, <2>1, KeptStays DEF MergedStays
<1> QED
  BY <1>3, <1>5

\* A step outside of a merge.
LEMMA NoMerge ==
  ASSUME pass'.pc # "merging", known' \subseteq Mem!Words(Mem!Active(entries'))
  PROVE  Mem!NothingForgotten' /\ MergedStays'
BY DEF Mem!NothingForgotten, MergedStays, Mem!Words, Mem!Active

\* A side that changes the entries has its copy still to make.
LEMMA ChangeKeepsFile ==
  ASSUME MemoryInv, NEW s \in Mem!Sides, NEW p \in {"evict", "due"},
         saver[s].pc \notin Mem!Busy,
         saver' = [saver EXCEPT ![s] = [pc |-> p, what |-> {}]],
         UNCHANGED <<memfile, stale>>
  PROVE  FileFollows'
<1>1. \A o \in Mem!Sides : saver'[o] = IF o = s THEN [pc |-> p, what |-> {}] ELSE saver[o]
  BY DEF MemoryInv, MemoryTyped
<1>2. ASSUME NEW t \in Mem!Sides, NEW o \in Mem!Sides, t # o, saver'[t].pc = "writing"
      PROVE  o = s /\ t # s
  BY <1>1, <1>2 DEF Mem!Sides
<1>3. CopyIsLatest'
  BY <1>1, <1>2 DEF CopyIsLatest, Mem!Busy
<1> QED
  BY <1>1, <1>3 DEF FileFollows

\* Nothing of the files and entries changes.
LEMMA FileStands ==
  ASSUME MemoryInv, UNCHANGED <<entries, memfile, saver, stale>>
  PROVE  FileFollows'
BY DEF MemoryInv, FileFollows, CopyIsLatest, Contents

\* Types.
LEMMA MemoryTypesStay ==
  ASSUME MemoryInv, nextId' = nextId, entries' \subseteq EntryOf(nextId),
         memfile' \subseteq EntryOf(nextId), saver' \in [Mem!Sides -> SaverOf(nextId)],
         PassTyped'
  PROVE  MemoryTyped'
BY DEF MemoryInv, MemoryTyped

LEMMA PassStands == ASSUME MemoryInv, UNCHANGED <<pass, nextId>> PROVE PassTyped'
BY DEF MemoryInv, MemoryTyped, PassTyped, Asking, Applying

LEMMA SaverIsTyped ==
  ASSUME MemoryInv, NEW s \in Mem!Sides, NEW p \in {"none", "evict", "due"},
         saver' = [saver EXCEPT ![s] = [pc |-> p, what |-> {}]]
  PROVE  saver' \in [Mem!Sides -> SaverOf(nextId)]
<1>1. [pc |-> p, what |-> {}] \in SaverOf(nextId)
  BY DEF SaverOf
<1> QED
  BY <1>1 DEF MemoryInv, MemoryTyped

-----------------------------------------------------------------------------
(* Saves.                                                                  *)

LEMMA EvictsKeeps ==
  ASSUME MemoryInv, NEW s \in Mem!Sides, Mem!Evicts(s)
  PROVE  MemoryInv'
<1>1. PICK old : /\ entries' = entries \ old
                 /\ known' = known \ (Mem!Words(old) \ Mem!Kept(entries'))
  BY DEF Mem!Evicts
<1>2. /\ saver[s].pc = "evict" /\ saver' = [saver EXCEPT ![s] = [pc |-> "due", what |-> {}]]
      /\ UNCHANGED <<memfile, stale, pass, nextId>>
  BY DEF Mem!Evicts, Mem!Due
<1>3. MemoryTyped'
  BY <1>1, <1>2, MemoryTypesStay, PassStands, SaverIsTyped, Zenon DEF MemoryInv, MemoryTyped
<1>4. Mem!NothingForgotten' /\ MergedStays'
  <2>1. \A e \in entries : e \in entries' \/ e \in old
    BY <1>1
  <2>2. known' \subseteq (known \ Mem!Words(old)) \cup Mem!Kept(entries')
    BY <1>1
  <2> QED
    BY <1>2, <2>1, <2>2, LossIsMeant
<1>5. FileFollows'
  BY <1>2, ChangeKeepsFile, Zenon DEF Mem!Busy
<1> QED
  BY <1>3, <1>4, <1>5 DEF MemoryInv

LEMMA CopiesKeeps ==
  ASSUME MemoryInv, NEW s \in Mem!Sides, Mem!Copies(s)
  PROVE  MemoryInv'
<1> DEFINE others == {o \in Mem!Sides \ {s} : saver[o].pc \in Mem!Busy}
           p == IF others = {} THEN "writing" ELSE "sharing"
<1>1. /\ saver'[s] = [pc |-> p, what |-> entries]
      /\ \A o \in others : saver'[o] = [saver[o] EXCEPT !.pc = "sharing"]
      /\ \A o \in Mem!Sides \ ({s} \cup others) : saver'[o] = saver[o]
      /\ others \subseteq Mem!Sides \ {s}
      /\ p = IF others = {} THEN "writing" ELSE "sharing"
      /\ \A o \in Mem!Sides \ {s} : o \in others <=> saver[o].pc \in Mem!Busy
  BY DEF Mem!Copies
<1> HIDE DEF others, p
<1>2. saver[s].pc = "due" /\ UNCHANGED <<entries, memfile, stale, pass, known, nextId>>
  BY DEF Mem!Copies
<1>3. saver' \in [Mem!Sides -> SaverOf(nextId)]
  <2>1. ASSUME NEW o \in Mem!Sides PROVE saver'[o] \in SaverOf(nextId)
    <3>1. saver[o] \in SaverOf(nextId) /\ entries \subseteq EntryOf(nextId)
      BY DEF MemoryInv, MemoryTyped
    <3>2. [saver[o] EXCEPT !.pc = "sharing"] \in SaverOf(nextId)
      BY <3>1 DEF SaverOf
    <3>3. [pc |-> p, what |-> entries] \in SaverOf(nextId)
      BY <1>1, <3>1 DEF SaverOf
    <3> QED
      BY <1>1, <3>1, <3>2, <3>3
  <2>2. saver' = [o \in Mem!Sides |-> saver'[o]]
    BY DEF Mem!Copies
  <2> QED
    BY <2>1, <2>2
<1>4. MemoryTyped'
  BY <1>2, <1>3, MemoryTypesStay, PassStands DEF MemoryInv, MemoryTyped
<1>5. Mem!NothingForgotten' /\ MergedStays'
  <2>1. known' \subseteq (known \ Mem!Words({})) \cup Mem!Kept(entries')
    BY <1>2, WordsAre
  <2> QED
    BY <1>2, <2>1, LossIsMeant
<1>6. CopyIsLatest'
  <2>1. ASSUME NEW t \in Mem!Sides, NEW o \in Mem!Sides, t # o, saver'[t].pc = "writing"
        PROVE  /\ saver'[o].pc \notin Mem!Busy
               /\ saver'[o].pc = "none" => Contents(saver'[t].what) = Contents(entries)
    <3>1. saver[t] \in SaverOf(nextId)
      BY DEF MemoryInv, MemoryTyped
    <3>2. t = s
      <4>1. t \in others => saver'[t].pc = "sharing"
        BY <1>1, <3>1, Zenon DEF SaverOf
      <4>2. t # s /\ t \notin others => saver[t].pc = "writing"
        BY <1>1, <2>1
      <4> QED
        BY <1>1, <2>1, <4>1, <4>2 DEF Mem!Busy
    <3>3. others = {} /\ saver'[o] = saver[o] /\ saver'[t].what = entries
      BY <1>1, <2>1, <3>2
    <3> QED
      BY <1>1, <2>1, <3>2, <3>3
  <2> QED
    BY <1>2, <2>1 DEF CopyIsLatest, Contents
<1>7. FileFollows'
  <2>1. saver'[s].pc # "none"
    BY <1>1
  <2> QED
    BY <1>6, <2>1 DEF FileFollows
<1> QED
  BY <1>4, <1>5, <1>7 DEF MemoryInv

LEMMA WritesKeeps ==
  ASSUME MemoryInv, NEW s \in Mem!Sides, Mem!Writes(s)
  PROVE  MemoryInv'
<1>1. /\ saver[s].pc \in Mem!Busy
      /\ saver' = [saver EXCEPT ![s] = [pc |-> "none", what |-> {}]]
      /\ UNCHANGED <<entries, known, nextId>>
  BY DEF Mem!Writes
<1>2. \A o \in Mem!Sides : saver'[o] = IF o = s THEN [pc |-> "none", what |-> {}] ELSE saver[o]
  BY <1>1 DEF MemoryInv, MemoryTyped
<1>3. \/ memfile' = saver[s].what /\ stale' = (saver[s].pc = "sharing") /\ pass' = pass
      \/ memfile' = memfile /\ stale' = TRUE /\ pass' = pass
      \/ /\ memfile' = memfile /\ stale' = TRUE /\ pass.pc = "merging"
         /\ pass' = [pass EXCEPT !.pc = "applying", !.ids = {}, !.text = {}]
  BY DEF Mem!Writes
<1>4. PassTyped'
  <2>1. CASE pass' = pass
    BY <1>1, <2>1, PassStands
  <2>2. CASE pass.pc = "merging" /\ pass' = [pass EXCEPT !.pc = "applying", !.ids = {}, !.text = {}]
    <3>1. Applying /\ pass.left \subseteq EntryOf(nextId) /\ pass.chunk \subseteq EntryOf(nextId)
      BY <2>2 DEF MemoryInv, MemoryTyped, PassTyped, Asking, Mem!NoPass
    <3>2. pass' = [pc |-> "applying", chunk |-> pass.chunk, left |-> pass.left, total |-> pass.total,
                   full |-> pass.full, phase |-> pass.phase, actions |-> pass.actions,
                   count |-> pass.count, ids |-> {}, text |-> {}]
      BY <2>2, <3>1, Zenon DEF Applying
    <3> QED
      BY <1>1, <3>1, <3>2 DEF PassTyped, Applying
  <2> QED
    BY <1>3, <2>1, <2>2
<1>5. MemoryTyped'
  BY <1>1, <1>3, <1>4, MemoryTypesStay, SaverIsTyped DEF MemoryInv, MemoryTyped, SaverOf
<1>6. Mem!NothingForgotten' /\ MergedStays'
  <2>1. CASE pass' = pass
    <3>1. known' \subseteq (known \ Mem!Words({})) \cup Mem!Kept(entries')
      BY <1>1, WordsAre
    <3> QED
      BY <1>1, <2>1, <3>1, LossIsMeant
  <2>2. CASE pass.pc = "merging" /\ pass' = [pass EXCEPT !.pc = "applying", !.ids = {}, !.text = {}]
    <3>1. pass'.pc = "applying"
      BY <2>2 DEF MemoryInv, MemoryTyped, PassTyped, Asking, Applying, Mem!NoPass
    <3> QED
      BY <1>1, <3>1, NoMerge DEF MemoryInv, Mem!NothingForgotten
  <2> QED
    BY <1>3, <2>1, <2>2
<1>7. FileFollows'
  <2>1. CopyIsLatest'
    <3>1. ASSUME NEW t \in Mem!Sides, NEW o \in Mem!Sides, t # o, saver'[t].pc = "writing"
          PROVE  /\ saver'[o].pc \notin Mem!Busy
                 /\ saver'[o].pc = "none" => Contents(saver'[t].what) = Contents(entries)
      <4>1. t # s /\ saver[t].pc = "writing"
        BY <1>2, <3>1
      <4>2. saver[s].pc \notin Mem!Busy
        BY <4>1 DEF MemoryInv, FileFollows, CopyIsLatest
      <4> QED
        BY <1>1, <4>2
    <3> QED
      BY <1>1, <3>1 DEF CopyIsLatest, Contents
  <2>2. ASSUME \A o \in Mem!Sides : saver'[o].pc = "none", ~stale'
        PROVE  Contents(memfile') = Contents(entries')
    <3>1. memfile' = saver[s].what /\ saver[s].pc = "writing"
      BY <1>1, <1>3, <2>2, Zenon DEF Mem!Busy
    <3>2. PICK o \in Mem!Sides : o # s
      BY DEF Mem!Sides
    <3>3. saver[o].pc = "none"
      BY <1>2, <2>2, <3>2
    <3>4. Contents(saver[s].what) = Contents(entries)
      BY <3>1, <3>2, <3>3 DEF MemoryInv, FileFollows, CopyIsLatest
    <3> QED
      BY <1>1, <3>1, <3>4
  <2>3. Contents(memfile)' = Contents(memfile') /\ Contents(entries)' = Contents(entries')
    BY DEF Contents
  <2> QED
    BY <2>1, <2>2, <2>3 DEF FileFollows
<1> QED
  BY <1>5, <1>6, <1>7 DEF MemoryInv

-----------------------------------------------------------------------------
(* Changes of the user's side.                                             *)

Rewritten(es, id, words) == {IF e.id = id THEN [e EXCEPT !.words = words] ELSE e : e \in es}

LEMMA RewrittenAre ==
  ASSUME NEW n, NEW es, NEW id, NEW words, es \subseteq EntryOf(n), words \subseteq UNION Texts
  PROVE  Rewritten(es, id, words) \subseteq EntryOf(n)
<1> SUFFICES ASSUME NEW f \in Rewritten(es, id, words) PROVE f \in EntryOf(n)
  OBVIOUS
<1>1. PICK e \in es : f = IF e.id = id THEN [e EXCEPT !.words = words] ELSE e
  BY DEF Rewritten
<1>2. e \in EntryOf(n)
  OBVIOUS
<1> QED
  BY <1>1, <1>2 DEF EntryOf

LEMMA AddsTypes ==
  ASSUME MemoryInv, NEW s \in Mem!Sides, NEW words, words \subseteq UNION Texts,
         nextId' = nextId + 1, memfile' = memfile,
         \A e \in entries' : e \in entries \/ e = [id |-> nextId, words |-> words, expired |-> FALSE],
         saver' = [saver EXCEPT ![s] = [pc |-> "evict", what |-> {}]]
  PROVE  /\ nextId' \in Nat
         /\ entries' \subseteq EntryOf(nextId')
         /\ memfile' \subseteq EntryOf(nextId')
         /\ saver' \in [Mem!Sides -> SaverOf(nextId')]
<1>1. nextId \in Nat /\ EntryOf(nextId) \subseteq EntryOf(nextId + 1)
  BY EntriesGrow DEF MemoryInv, MemoryTyped
<1>2. [id |-> nextId, words |-> words, expired |-> FALSE] \in EntryOf(nextId + 1)
  BY <1>1 DEF EntryOf
<1>3. entries' \subseteq EntryOf(nextId + 1) /\ memfile' \subseteq EntryOf(nextId + 1)
  BY <1>1, <1>2, Zenon DEF MemoryInv, MemoryTyped
<1>4. saver' \in [Mem!Sides -> SaverOf(nextId + 1)]
  <2>1. SaverOf(nextId) \subseteq SaverOf(nextId + 1)
    BY <1>1 DEF SaverOf
  <2>2. saver' \in [Mem!Sides -> SaverOf(nextId)]
    BY SaverIsTyped, Zenon
  <2> QED
    BY <2>1, <2>2
<1> QED
  BY <1>1, <1>3, <1>4

LEMMA PassGrows ==
  ASSUME MemoryInv, pass' = pass, nextId' = nextId + 1
  PROVE  PassTyped'
<1>1. nextId \in Nat /\ EntryOf(nextId) \subseteq EntryOf(nextId + 1)
  BY EntriesGrow DEF MemoryInv, MemoryTyped
<1>2. PassTyped
  BY DEF MemoryInv, MemoryTyped
<1>3. 0..(nextId - 1) \subseteq 0..(nextId' - 1)
  BY <1>1
<1>4. CASE pass = Mem!NoPass
  BY <1>4 DEF PassTyped
<1>5. CASE Asking /\ pass.left \subseteq EntryOf(nextId)
  BY <1>1, <1>5 DEF PassTyped, Asking
<1>6. CASE /\ Applying
           /\ pass.left \subseteq EntryOf(nextId) /\ pass.chunk \subseteq EntryOf(nextId)
           /\ pass.ids \subseteq 0..(nextId - 1) /\ pass.text \subseteq UNION Texts
  <2>1. Applying'
    BY <1>6 DEF Applying
  <2>2. pass.left \subseteq EntryOf(nextId') /\ pass.chunk \subseteq EntryOf(nextId')
    BY <1>1, <1>6
  <2>3. pass.ids \subseteq 0..(nextId' - 1)
    BY <1>3, <1>6
  <2> QED
    BY <1>6, <2>1, <2>2, <2>3 DEF PassTyped
<1> QED
  BY <1>2, <1>4, <1>5, <1>6 DEF PassTyped

LEMMA SavesMemoryKeeps ==
  ASSUME MemoryInv, NEW words \in Texts, Mem!SavesMemory(words)
  PROVE  MemoryInv'
<1> DEFINE new == [id |-> nextId, words |-> words, expired |-> FALSE]
<1>1. /\ saver["user"].pc = "none" /\ nextId' = nextId + 1
      /\ entries' = entries \cup {new} /\ known' = known \cup words
      /\ saver' = [saver EXCEPT !["user"] = [pc |-> "evict", what |-> {}]]
      /\ UNCHANGED <<memfile, stale, pass>>
  BY DEF Mem!SavesMemory, Mem!Free, Mem!Adds
<1>2. "user" \in Mem!Sides
  BY DEF Mem!Sides
<1>3. MemoryTyped'
  <2>1. words \subseteq UNION Texts
    OBVIOUS
  <2> QED
    BY <1>1, <1>2, <2>1, AddsTypes, PassGrows, Zenon DEF MemoryTyped
<1>4. Mem!NothingForgotten' /\ MergedStays'
  <2>1. words \subseteq Mem!Kept(entries')
    <3>1. ASSUME pass.pc = "merging" PROVE nextId \notin pass.ids
      BY <3>1 DEF MemoryInv, MemoryTyped, PassTyped, Asking, Mem!NoPass
    <3> QED
      BY <1>1, <3>1, KeptIs, Zenon
  <2>2. known' \subseteq (known \ Mem!Words({})) \cup Mem!Kept(entries')
    BY <1>1, <2>1, WordsAre, Zenon
  <2> QED
    BY <1>1, <2>2, LossIsMeant, Zenon
<1>5. FileFollows'
  BY <1>1, <1>2, ChangeKeepsFile, Zenon DEF Mem!Busy
<1> QED
  BY <1>3, <1>4, <1>5 DEF MemoryInv

LEMMA UpdatesMemoryKeeps ==
  ASSUME MemoryInv, NEW id, NEW words \in Texts, Mem!UpdatesMemory(id, words)
  PROVE  MemoryInv'
<1>1. /\ saver["user"].pc = "none"
      /\ entries' = {IF e.id = id THEN [e EXCEPT !.words = words] ELSE e : e \in entries}
      /\ known' = (known \ Mem!Words(Mem!Of(entries, {id})))
                    \cup (Mem!Kept(entries') \cap (known \cup words))
      /\ saver' = [saver EXCEPT !["user"] = [pc |-> "due", what |-> {}]]
      /\ UNCHANGED <<memfile, stale, pass, nextId>>
  BY DEF Mem!UpdatesMemory, Mem!Updates, Mem!Free, Mem!Due
<1>2. "user" \in Mem!Sides
  BY DEF Mem!Sides
<1>3. MemoryTyped'
  <2>1. PICK es, n : es = entries /\ n = nextId
    OBVIOUS
  <2>2. entries' = Rewritten(es, id, words)
    BY <1>1, <2>1 DEF Rewritten
  <2>3. es \subseteq EntryOf(n) /\ words \subseteq UNION Texts
    BY <2>1 DEF MemoryInv, MemoryTyped
  <2>4. entries' \subseteq EntryOf(nextId)
    BY <2>1, <2>2, <2>3, RewrittenAre
  <2> QED
    BY <1>1, <1>2, <2>4, MemoryTypesStay, PassStands, SaverIsTyped, Zenon DEF MemoryInv, MemoryTyped
<1>4. Mem!NothingForgotten' /\ MergedStays'
  <2>1. PICK taken : taken = Mem!Of(entries, {id})
    OBVIOUS
  <2>2. \A e \in entries : e \in entries' \/ e \in taken
    BY <1>1, <2>1, WordsAre
  <2>3. known' \subseteq (known \ Mem!Words(taken)) \cup Mem!Kept(entries')
    BY <1>1, <2>1
  <2> QED
    BY <1>1, <2>2, <2>3, LossIsMeant, Zenon
<1>5. FileFollows'
  BY <1>1, <1>2, ChangeKeepsFile, Zenon DEF Mem!Busy
<1> QED
  BY <1>3, <1>4, <1>5 DEF MemoryInv

\* What is known after the others was known, and is kept.
LEMMA OnlyKept ==
  ASSUME MemoryInv, pass' = pass, known' = known \cap Mem!Kept(entries')
  PROVE  Mem!NothingForgotten' /\ MergedStays'
<1>1. PICK taken : taken = entries
  OBVIOUS
<1> QED
  BY <1>1, LossIsMeant

LEMMA DeletesMemoryKeeps ==
  ASSUME MemoryInv, NEW id, Mem!DeletesMemory(id)
  PROVE  MemoryInv'
<1>1. /\ saver["user"].pc = "none"
      /\ entries' \subseteq entries
      /\ known' = known \cap Mem!Kept(entries')
      /\ saver' = [saver EXCEPT !["user"] = [pc |-> "due", what |-> {}]]
      /\ UNCHANGED <<memfile, stale, pass, nextId>>
  BY DEF Mem!DeletesMemory, Mem!Free, Mem!Due
<1>2. "user" \in Mem!Sides
  BY DEF Mem!Sides
<1>3. MemoryTyped'
  BY <1>1, <1>2, MemoryTypesStay, PassStands, SaverIsTyped, Zenon DEF MemoryInv, MemoryTyped
<1>4. FileFollows'
  BY <1>1, <1>2, ChangeKeepsFile, Zenon DEF Mem!Busy
<1> QED
  BY <1>1, <1>3, <1>4, OnlyKept DEF MemoryInv

LEMMA ConsolidatesKeeps ==
  ASSUME MemoryInv, NEW ids, NEW words \in Texts, Mem!Consolidates(ids, words)
  PROVE  MemoryInv'
<1> DEFINE new == [id |-> nextId, words |-> words, expired |-> FALSE]
<1>1. /\ saver["user"].pc = "none"
      /\ known' = known \cap Mem!Kept(entries')
      /\ UNCHANGED <<memfile, stale, pass>>
  BY DEF Mem!Consolidates, Mem!Free
<1>2. \/ /\ entries' \subseteq entries /\ nextId' = nextId
         /\ saver' = [saver EXCEPT !["user"] = [pc |-> "due", what |-> {}]]
      \/ /\ \A e \in entries' : e \in entries \/ e = new
         /\ nextId' = nextId + 1
         /\ saver' = [saver EXCEPT !["user"] = [pc |-> "evict", what |-> {}]]
  <2>1. CASE \E e \in entries \ Mem!Of(entries, ids) : Mem!NearDuplicate(e.words, words)
    BY <2>1 DEF Mem!Consolidates, Mem!Due
  <2>2. CASE ~\E e \in entries \ Mem!Of(entries, ids) : Mem!NearDuplicate(e.words, words)
    BY <2>2 DEF Mem!Consolidates
  <2> QED
    BY <2>1, <2>2
<1>3. "user" \in Mem!Sides
  BY DEF Mem!Sides
<1>4. MemoryTyped'
  <2>1. CASE /\ entries' \subseteq entries /\ nextId' = nextId
             /\ saver' = [saver EXCEPT !["user"] = [pc |-> "due", what |-> {}]]
    BY <1>1, <1>3, <2>1, MemoryTypesStay, PassStands, SaverIsTyped, Zenon DEF MemoryInv, MemoryTyped
  <2>2. CASE /\ \A e \in entries' : e \in entries \/ e = new
             /\ nextId' = nextId + 1
             /\ saver' = [saver EXCEPT !["user"] = [pc |-> "evict", what |-> {}]]
    <3>1. words \subseteq UNION Texts
      OBVIOUS
    <3> QED
      BY <1>1, <1>3, <2>2, <3>1, AddsTypes, PassGrows, Zenon DEF MemoryTyped
  <2> QED
    BY <1>2, <2>1, <2>2
<1>5. FileFollows'
  BY <1>1, <1>2, <1>3, ChangeKeepsFile DEF Mem!Busy
<1> QED
  BY <1>1, <1>4, <1>5, OnlyKept DEF MemoryInv

LEMMA ExpiresKeeps ==
  ASSUME MemoryInv, NEW id, Mem!Expires(id)
  PROVE  MemoryInv'
<1>1. /\ entries' = {IF e.id = id THEN [e EXCEPT !.expired = TRUE] ELSE e : e \in entries}
      /\ known' = known \cap Mem!Kept(entries')
      /\ UNCHANGED <<memfile, saver, stale, pass, nextId>>
  BY DEF Mem!Expires
<1>2. \A e \in entries : e \in EntryOf(nextId)
  BY DEF MemoryInv, MemoryTyped
<1>3. ASSUME NEW e \in entries
      PROVE  LET f == [e EXCEPT !.expired = TRUE] IN
             f \in EntryOf(nextId) /\ f.id = e.id /\ f.words = e.words
  BY <1>2, Zenon DEF EntryOf
<1>4. entries' \subseteq EntryOf(nextId)
  BY <1>1, <1>2, <1>3
<1>5. MemoryTyped'
  BY <1>1, <1>4, MemoryTypesStay, PassStands DEF MemoryInv, MemoryTyped
<1>6. Contents(entries') = Contents(entries)
  <2>1. ASSUME NEW c \in Contents(entries) PROVE c \in Contents(entries')
    <3>1. PICK e \in entries : c = [id |-> e.id, words |-> e.words]
      BY DEF Contents
    <3>2. PICK f \in entries' : f.id = e.id /\ f.words = e.words
      BY <1>1, <1>3, Zenon
    <3> QED
      BY <3>1, <3>2 DEF Contents
  <2>2. ASSUME NEW c \in Contents(entries') PROVE c \in Contents(entries)
    <3>1. PICK f \in entries' : c = [id |-> f.id, words |-> f.words]
      BY DEF Contents
    <3>2. PICK e \in entries : f.id = e.id /\ f.words = e.words
      BY <1>1, <1>3, Zenon
    <3> QED
      BY <3>1, <3>2 DEF Contents
  <2> QED
    BY <2>1, <2>2
<1>7. FileFollows'
  <2>1. Contents(entries)' = Contents(entries') /\ Contents(memfile)' = Contents(memfile)
    BY <1>1 DEF Contents
  <2>2. \A s \in Mem!Sides : Contents(saver[s].what)' = Contents(saver[s].what)
    BY <1>1 DEF Contents
  <2>3. CopyIsLatest'
    BY <1>1, <1>6, <2>1, <2>2 DEF MemoryInv, FileFollows, CopyIsLatest
  <2> QED
    BY <1>1, <1>6, <2>1, <2>3 DEF MemoryInv, FileFollows
<1> QED
  BY <1>1, <1>5, <1>7, OnlyKept DEF MemoryInv

-----------------------------------------------------------------------------
(* The pass.                                                               *)

\* A step of the pass that leaves the store alone, and is not in a merge after it.
LEMMA StoreStands ==
  ASSUME MemoryInv, UNCHANGED <<entries, memfile, saver, stale, known, nextId>>,
         PassTyped', pass'.pc # "merging"
  PROVE  MemoryInv'
<1>1. MemoryTyped'
  BY MemoryTypesStay DEF MemoryInv, MemoryTyped
<1>2. Mem!NothingForgotten' /\ MergedStays'
  BY NoMerge DEF MemoryInv, Mem!NothingForgotten
<1> QED
  BY <1>1, <1>2, FileStands DEF MemoryInv

LEMMA NoPassKeeps ==
  ASSUME MemoryInv, UNCHANGED <<entries, memfile, saver, stale, known, nextId>>,
         pass' = Mem!NoPass
  PROVE  MemoryInv'
<1>1. PassTyped' /\ pass'.pc # "merging"
  BY DEF PassTyped, Mem!NoPass
<1> QED
  BY <1>1, StoreStands

LEMMA AskingKeeps ==
  ASSUME MemoryInv, UNCHANGED <<entries, memfile, saver, stale, known, nextId>>,
         NEW left, NEW total, NEW full, left \subseteq EntryOf(nextId),
         pass' = [pc |-> "asking", left |-> left, total |-> total, full |-> full]
  PROVE  MemoryInv'
<1>1. PassTyped' /\ pass'.pc # "merging"
  BY DEF PassTyped, Asking
<1> QED
  BY <1>1, StoreStands

LEMMA PassIs ==
  ASSUME MemoryInv
  PROVE  /\ pass.pc = "asking" => Asking /\ pass.left \subseteq EntryOf(nextId)
         /\ pass.pc \in {"applying", "merging"} =>
              /\ Applying
              /\ pass.left \subseteq EntryOf(nextId) /\ pass.chunk \subseteq EntryOf(nextId)
              /\ pass.ids \subseteq 0..(nextId - 1) /\ pass.text \subseteq UNION Texts
BY DEF MemoryInv, MemoryTyped, PassTyped, Asking, Applying, Mem!NoPass

LEMMA StartsKeep ==
  ASSUME MemoryInv, Mem!StartsPass \/ Mem!StartsStep
  PROVE  MemoryInv'
<1>1. PICK left, total, full :
        /\ left = Mem!Active(entries)
        /\ pass' = [pc |-> "asking", left |-> left, total |-> total, full |-> full]
        /\ UNCHANGED <<entries, memfile, saver, stale, known, nextId>>
  BY DEF Mem!StartsPass, Mem!StartsStep
<1>2. left \subseteq EntryOf(nextId)
  BY <1>1 DEF MemoryInv, MemoryTyped, Mem!Active
<1> QED
  BY <1>1, <1>2, AskingKeeps

LEMMA CollectsJobKeeps ==
  ASSUME MemoryInv, Mem!CollectsJob
  PROVE  MemoryInv'
<1>1. pass'.pc # "merging" /\ UNCHANGED <<pass, entries, memfile, saver, stale, known, nextId>>
  BY DEF Mem!CollectsJob
<1> QED
  BY <1>1, StoreStands, PassStands

LEMMA AnswersMemoryKeeps ==
  ASSUME MemoryInv, Mem!Answers
  PROVE  MemoryInv'
<1>1. Asking /\ pass.left \subseteq EntryOf(nextId) /\ pass.pc = "asking"
      /\ UNCHANGED <<entries, memfile, saver, stale, known, nextId>>
  BY PassIs DEF Mem!Answers
<1>2. Mem!Chunk \subseteq EntryOf(nextId) /\ Mem!Later \subseteq EntryOf(nextId)
  BY <1>1 DEF Mem!Chunk, Mem!Later, Mem!Oldest
<1>3. CASE pass' = [pc |-> "applying", chunk |-> Mem!Chunk, left |-> Mem!Later, total |-> pass.total,
                    full |-> pass.full, phase |-> "merge", actions |-> MaxActions, count |-> 0,
                    ids |-> {}, text |-> {}]
  <2>1. PassTyped' /\ pass'.pc # "merging"
    BY <1>1, <1>2, <1>3 DEF PassTyped, Applying
  <2> QED
    BY <1>1, <2>1, StoreStands
<1>4. CASE pass' = Mem!NextBatch(Mem!Later)
  <2>1. CASE pass' = Mem!NoPass
    BY <1>1, <2>1, NoPassKeeps
  <2>2. CASE pass' = [pass EXCEPT !.pc = "asking", !.left = Mem!Later]
    <3>1. PICK left, total, full : left = Mem!Later /\ total = pass.total /\ full = pass.full
      OBVIOUS
    <3>2. pass' = [pc |-> "asking", left |-> left, total |-> total, full |-> full]
      BY <1>1, <2>2, <3>1, Zenon DEF Asking
    <3> QED
      BY <1>1, <1>2, <3>1, <3>2, AskingKeeps
  <2> QED
    BY <1>4, <2>1, <2>2 DEF Mem!NextBatch
<1> QED
  BY <1>3, <1>4 DEF Mem!Answers

LEMMA PassDiesKeeps ==
  ASSUME MemoryInv, Mem!PassDies
  PROVE  MemoryInv'
BY NoPassKeeps DEF Mem!PassDies

LEMMA NextPhaseKeeps ==
  ASSUME MemoryInv, Mem!NextPhase
  PROVE  MemoryInv'
<1>1. /\ Applying /\ pass.pc = "applying" /\ pass.left \subseteq EntryOf(nextId)
      /\ pass.chunk \subseteq EntryOf(nextId)
      /\ pass.ids \subseteq 0..(nextId - 1) /\ pass.text \subseteq UNION Texts
      /\ UNCHANGED <<entries, memfile, saver, stale, known, nextId>>
  BY PassIs DEF Mem!NextPhase
<1>2. CASE pass.phase = "merge"
  <2>1. pass' = [pass EXCEPT !.phase = "update"]
    BY <1>2 DEF Mem!NextPhase
  <2>2. Applying' /\ pass'.pc = "applying" /\ pass'.left = pass.left /\ pass'.chunk = pass.chunk
        /\ pass'.ids = pass.ids /\ pass'.text = pass.text
    BY <1>1, <2>1 DEF Applying
  <2> QED
    BY <1>1, <2>2, StoreStands DEF PassTyped
<1>3. CASE pass.phase = "update"
  <2>1. PICK n : pass' = [pass EXCEPT !.phase = "delete", !.count = n]
    BY <1>3, Zenon DEF Mem!NextPhase
  <2>2. Applying' /\ pass'.pc = "applying" /\ pass'.left = pass.left /\ pass'.chunk = pass.chunk
        /\ pass'.ids = pass.ids /\ pass'.text = pass.text
    BY <1>1, <2>1, Zenon DEF Applying
  <2> QED
    BY <1>1, <2>2, StoreStands DEF PassTyped
<1>4. CASE pass.phase = "delete"
  <2>1. PICK left, total : left = pass.left /\ total = pass.total
    OBVIOUS
  <2>2. \/ pass' = [pc |-> "asking", left |-> left, total |-> total, full |-> TRUE]
        \/ pass' = Mem!NoPass
    BY <1>4, <2>1 DEF Mem!NextPhase
  <2> QED
    BY <1>1, <2>1, <2>2, AskingKeeps, NoPassKeeps
<1> QED
  BY <1>1, <1>2, <1>3, <1>4 DEF Applying

\* What a merge is of.
LEMMA MergeIs ==
  ASSUME MemoryInv, NEW ids, NEW text \in Texts \cup {{}}, Mem!Merges(ids, text)
  PROVE  /\ saver["pass"].pc = "none"
         /\ ids \subseteq 0..(nextId - 1)
         /\ Mem!Merged(ids, text) \subseteq UNION Texts
         /\ pass.phase \in {"merge", "update", "delete"}
         /\ pass' = [pc |-> "merging", chunk |-> pass.chunk, left |-> pass.left, total |-> pass.total,
                     full |-> pass.full, phase |-> pass.phase, actions |-> pass.actions - 1,
                     count |-> pass.count, ids |-> ids, text |-> text]
         /\ pass.left \subseteq EntryOf(nextId) /\ pass.chunk \subseteq EntryOf(nextId)
         /\ UNCHANGED <<memfile, stale>>
<1>1. /\ pass.pc = "applying" /\ saver["pass"].pc = "none" /\ ids \subseteq Mem!Ids(pass.chunk)
      /\ pass' = [pass EXCEPT !.pc = "merging", !.actions = @ - 1, !.ids = ids, !.text = text]
      /\ UNCHANGED <<memfile, stale>>
  BY DEF Mem!Merges, Mem!Applying, Mem!Free
<1>2. Applying /\ pass.chunk \subseteq EntryOf(nextId) /\ pass.left \subseteq EntryOf(nextId)
  BY <1>1, PassIs
<1>3. ids \subseteq 0..(nextId - 1)
  BY <1>1, <1>2 DEF Mem!Ids, EntryOf
<1>4. Mem!Merged(ids, text) \subseteq UNION Texts
  BY <1>2 DEF Mem!Merged, Mem!Words, Mem!Of, EntryOf
<1>5. pass' = [pc |-> "merging", chunk |-> pass.chunk, left |-> pass.left, total |-> pass.total,
               full |-> pass.full, phase |-> pass.phase, actions |-> pass.actions - 1,
               count |-> pass.count, ids |-> ids, text |-> text]
  BY <1>1, <1>2, Zenon DEF Applying
<1> QED
  BY <1>1, <1>2, <1>3, <1>4, <1>5, Zenon DEF Applying

LEMMA MergesKeeps ==
  ASSUME MemoryInv, NEW ids, NEW text \in Texts \cup {{}}, Mem!Merges(ids, text)
  PROVE  MemoryInv'
<1>1. PICK words : words = Mem!Merged(ids, text)
  OBVIOUS
<1>2. /\ saver["pass"].pc = "none" /\ ids \subseteq 0..(nextId - 1) /\ words \subseteq UNION Texts
      /\ pass.phase \in {"merge", "update", "delete"}
      /\ pass.left \subseteq EntryOf(nextId) /\ pass.chunk \subseteq EntryOf(nextId)
      /\ pass' = [pc |-> "merging", chunk |-> pass.chunk, left |-> pass.left, total |-> pass.total,
                  full |-> pass.full, phase |-> pass.phase, actions |-> pass.actions - 1,
                  count |-> pass.count, ids |-> ids, text |-> text]
      /\ UNCHANGED <<memfile, stale>>
  BY <1>1, MergeIs
<1>3. pass'.pc = "merging" /\ pass'.ids = ids /\ Mem!Merged(pass.ids, pass.text)' = words
  <2>1. pass'.pc = "merging" /\ pass'.ids = ids /\ pass'.text = text /\ pass'.chunk = pass.chunk
    BY <1>2
  <2>2. Mem!Merged(pass.ids, pass.text)' = Mem!Merged(ids, text)
    BY <2>1 DEF Mem!Merged
  <2> QED
    BY <1>1, <2>1, <2>2
<1>4. \A w : w \in Mem!Kept(entries)' <=>
        \E e \in entries' : ~e.expired /\ w \in e.words /\ e.id \notin ids
  BY <1>3 DEF Mem!Kept, Mem!Words, Mem!Active, Mem!Of
<1>5. CASE Mem!Doubles(words) # {}
  <2>1. /\ UNCHANGED <<entries, nextId, saver>>
        /\ known' = known \ Mem!Collapsed(ids, words)
    BY <1>1, <1>5 DEF Mem!Merges
  <2>2. PassTyped'
    BY <1>2, <2>1 DEF PassTyped, Applying
  <2>3. MemoryTyped'
    BY <1>2, <2>1, <2>2, MemoryTypesStay DEF MemoryInv, MemoryTyped
  <2>4. Mem!NothingForgotten'
    BY <2>1 DEF MemoryInv, Mem!NothingForgotten, Mem!Words, Mem!Active
  <2>5. ASSUME NEW w \in known' PROVE w \in Mem!Kept(entries)'
    <3>1. PICK e \in entries : ~e.expired /\ w \in e.words
      BY <2>1, WordsAre DEF MemoryInv, Mem!NothingForgotten
    <3>2. CASE e.id \notin ids
      BY <1>4, <2>1, <3>1, <3>2
    <3>3. CASE e.id \in ids
      <4>1. w \in Mem!Words(Mem!Of(entries, ids))
        BY <3>1, <3>3, WordsAre
      <4>2. w \in Mem!Words(Mem!Active(Mem!Doubles(words) \ Mem!Of(entries, ids)))
        BY <2>1, <2>5, <4>1 DEF Mem!Collapsed
      <4>3. PICK d \in Mem!Doubles(words) \ Mem!Of(entries, ids) : ~d.expired /\ w \in d.words
        BY <4>2, WordsAre
      <4>4. d \in entries /\ d.id \notin ids
        BY <4>3, WordsAre DEF Mem!Doubles
      <4> QED
        BY <1>4, <2>1, <4>3, <4>4
    <3> QED
      BY <3>2, <3>3
  <2>6. MergedStays'
    BY <2>5 DEF MergedStays
  <2>7. FileFollows'
    BY <1>2, <2>1, FileStands
  <2> QED
    BY <2>3, <2>4, <2>6, <2>7 DEF MemoryInv
<1>6. CASE Mem!Doubles(words) = {}
  <2> DEFINE new == [id |-> nextId, words |-> words, expired |-> FALSE]
  <2>1. /\ nextId' = nextId + 1 /\ entries' = entries \cup {new} /\ known' = known
        /\ saver' = [saver EXCEPT !["pass"] = [pc |-> "evict", what |-> {}]]
    BY <1>1, <1>6 DEF Mem!Merges, Mem!Adds
  <2>2. "pass" \in Mem!Sides
    BY DEF Mem!Sides
  <2>3. nextId \in Nat /\ EntryOf(nextId) \subseteq EntryOf(nextId + 1)
    BY EntriesGrow DEF MemoryInv, MemoryTyped
  <2>4. PassTyped'
    <3>1. Applying'
      BY <1>2 DEF Applying
    <3>2. pass'.left \subseteq EntryOf(nextId') /\ pass'.chunk \subseteq EntryOf(nextId')
      BY <1>2, <2>1, <2>3
    <3>3. pass'.ids \subseteq 0..(nextId' - 1) /\ pass'.text \subseteq UNION Texts
      <4>1. 0..(nextId - 1) \subseteq 0..(nextId' - 1)
        BY <2>1, <2>3
      <4> QED
        BY <1>2, <4>1
    <3> QED
      BY <3>1, <3>2, <3>3 DEF PassTyped
  <2>5. MemoryTyped'
    BY <1>2, <2>1, <2>2, <2>4, AddsTypes, Zenon DEF MemoryTyped
  <2>6. Mem!NothingForgotten'
    BY <2>1 DEF MemoryInv, Mem!NothingForgotten, Mem!Words, Mem!Active
  <2>7. MergedStays'
    <3>1. nextId \notin ids
      BY <1>2, <2>3
    <3>2. words \subseteq Mem!Kept(entries)'
      BY <1>4, <2>1, <3>1, Zenon
    <3> QED
      BY <1>3, <3>2 DEF MergedStays
  <2>8. FileFollows'
    BY <1>2, <2>1, <2>2, ChangeKeepsFile, Zenon DEF Mem!Busy
  <2> QED
    BY <2>5, <2>6, <2>7, <2>8 DEF MemoryInv
<1> QED
  BY <1>5, <1>6

LEMMA DropsSourcesKeeps ==
  ASSUME MemoryInv, Mem!DropsSources
  PROVE  MemoryInv'
<1>1. /\ pass.pc = "merging" /\ saver["pass"].pc = "none"
      /\ entries' = entries \ Mem!Of(entries, pass.ids)
      /\ known' = known \ (Mem!GivenUp(pass.ids, pass.text) \ Mem!Words(Mem!Active(entries')))
      /\ saver' = [saver EXCEPT !["pass"] = [pc |-> "due", what |-> {}]]
      /\ pass' = [pass EXCEPT !.pc = "applying", !.ids = {}, !.text = {}]
      /\ UNCHANGED <<memfile, stale, nextId>>
  BY DEF Mem!DropsSources, Mem!Free, Mem!Due
<1>2. "pass" \in Mem!Sides
  BY DEF Mem!Sides
<1>3. /\ Applying /\ pass.left \subseteq EntryOf(nextId) /\ pass.chunk \subseteq EntryOf(nextId)
  BY <1>1, PassIs
<1>4. pass' = [pc |-> "applying", chunk |-> pass.chunk, left |-> pass.left, total |-> pass.total,
               full |-> pass.full, phase |-> pass.phase, actions |-> pass.actions,
               count |-> pass.count, ids |-> {}, text |-> {}]
  BY <1>1, <1>3, Zenon DEF Applying
<1>5. PassTyped' /\ pass'.pc # "merging"
  BY <1>1, <1>3, <1>4, Zenon DEF PassTyped, Applying
<1>6. MemoryTyped'
  BY <1>1, <1>2, <1>5, MemoryTypesStay, SaverIsTyped, Zenon DEF MemoryInv, MemoryTyped
<1>7. ASSUME NEW w \in known' PROVE w \in Mem!Words(Mem!Active(entries'))
  <2>1. CASE w \notin Mem!GivenUp(pass.ids, pass.text)
    <3>1. PICK e \in entries : ~e.expired /\ w \in e.words
      BY <1>1, <1>7, WordsAre DEF MemoryInv, Mem!NothingForgotten
    <3>2. CASE e.id \notin pass.ids
      BY <1>1, <3>1, <3>2, WordsAre
    <3>3. CASE e.id \in pass.ids
      <4>1. w \in Mem!Words(Mem!Of(entries, pass.ids))
        BY <3>1, <3>3, WordsAre
      <4>2. w \in Mem!Merged(pass.ids, pass.text)
        BY <2>1, <4>1 DEF Mem!GivenUp, Mem!Merged
      <4>3. w \in Mem!Kept(entries)
        BY <1>1, <1>7, <4>2 DEF MemoryInv, MergedStays
      <4>4. PICK d \in entries : ~d.expired /\ w \in d.words /\ d.id \notin pass.ids
        BY <1>1, <4>3, KeptIs
      <4> QED
        BY <1>1, <4>4, WordsAre
    <3> QED
      BY <3>2, <3>3
  <2> QED
    BY <1>1, <1>7, <2>1
<1>8. Mem!NothingForgotten' /\ MergedStays'
  BY <1>5, <1>7, NoMerge
<1>9. FileFollows'
  BY <1>1, <1>2, ChangeKeepsFile, Zenon DEF Mem!Busy
<1> QED
  BY <1>6, <1>8, <1>9 DEF MemoryInv

\* A change the pass makes outside of a merge; what it leaves out is given up.
LEMMA PassChangeKeeps ==
  ASSUME MemoryInv, Mem!Applying("update") \/ Mem!Applying("delete"),
         entries' \subseteq EntryOf(nextId),
         known' = known \cap Mem!Words(Mem!Active(entries')),
         saver' = [saver EXCEPT !["pass"] = [pc |-> "due", what |-> {}]],
         NEW n, NEW m, pass' = [pass EXCEPT !.actions = n, !.count = m],
         UNCHANGED <<memfile, stale, nextId>>
  PROVE  MemoryInv'
<1>1. pass.pc = "applying" /\ saver["pass"].pc = "none"
  BY DEF Mem!Applying, Mem!Free
<1>2. "pass" \in Mem!Sides
  BY DEF Mem!Sides
<1>3. /\ Applying /\ pass.left \subseteq EntryOf(nextId) /\ pass.chunk \subseteq EntryOf(nextId)
      /\ pass.ids \subseteq 0..(nextId - 1) /\ pass.text \subseteq UNION Texts
  BY <1>1, PassIs
<1>4. Applying' /\ pass'.pc = "applying" /\ pass'.left = pass.left /\ pass'.chunk = pass.chunk
      /\ pass'.ids = pass.ids /\ pass'.text = pass.text
  BY <1>1, <1>3, Zenon DEF Applying
<1>5. PassTyped' /\ pass'.pc # "merging"
  BY <1>3, <1>4 DEF PassTyped
<1>6. MemoryTyped'
  BY <1>2, <1>5, MemoryTypesStay, SaverIsTyped, Zenon DEF MemoryInv, MemoryTyped
<1>7. Mem!NothingForgotten' /\ MergedStays'
  BY <1>5, NoMerge
<1>8. FileFollows'
  BY <1>1, <1>2, ChangeKeepsFile, Zenon DEF Mem!Busy
<1> QED
  BY <1>6, <1>7, <1>8 DEF MemoryInv

LEMMA PassUpdatesKeeps ==
  ASSUME MemoryInv, NEW id, NEW words \in Texts, Mem!PassUpdates(id, words)
  PROVE  MemoryInv'
<1>1. PICK es, k : es = entries /\ k = nextId
  OBVIOUS
<1>2. entries' = Rewritten(es, id, words)
  BY <1>1 DEF Mem!PassUpdates, Rewritten
<1>3. es \subseteq EntryOf(k) /\ words \subseteq UNION Texts
  BY <1>1 DEF MemoryInv, MemoryTyped
<1>4. entries' \subseteq EntryOf(nextId)
  BY <1>1, <1>2, <1>3, RewrittenAre
<1>5. PICK n, m : n = pass.actions - 1 /\ m = pass.count
  OBVIOUS
<1>6. pass' = [pass EXCEPT !.actions = n, !.count = m]
  <2>1. Applying
    BY PassIs DEF Mem!PassUpdates, Mem!Applying
  <2>2. pass' = [pass EXCEPT !.actions = n]
    BY <1>5 DEF Mem!PassUpdates
  <2> QED
    BY <1>5, <2>1, <2>2, Zenon DEF Applying
<1> QED
  BY <1>4, <1>6, PassChangeKeeps, Zenon DEF Mem!PassUpdates, Mem!Due

LEMMA PassDeletesKeeps ==
  ASSUME MemoryInv, NEW id, Mem!PassDeletes(id)
  PROVE  MemoryInv'
<1>1. entries' \subseteq EntryOf(nextId)
  BY DEF MemoryInv, MemoryTyped, Mem!PassDeletes
<1>2. PICK n, m : n = pass.actions - 1 /\ m = pass.count - 1
  OBVIOUS
<1>3. pass' = [pass EXCEPT !.actions = n, !.count = m]
  BY <1>2 DEF Mem!PassDeletes
<1> QED
  BY <1>1, <1>3, PassChangeKeeps, Zenon DEF Mem!PassDeletes, Mem!Due

LEMMA RestartsMemoryKeeps ==
  ASSUME MemoryInv, Mem!Restarts
  PROVE  MemoryInv'
<1>1. /\ entries' = Mem!Active(memfile)
      /\ known' = known \cap Mem!Words(Mem!Active(memfile))
      /\ saver' = [s \in Mem!Sides |-> [pc |-> "none", what |-> {}]]
      /\ pass' = Mem!NoPass /\ stale' = TRUE
      /\ UNCHANGED <<memfile, nextId>>
  BY DEF Mem!Restarts
<1>2. PassTyped' /\ pass'.pc # "merging"
  BY <1>1 DEF PassTyped, Mem!NoPass
<1>3. saver' \in [Mem!Sides -> SaverOf(nextId)]
  BY <1>1 DEF SaverOf
<1>4. MemoryTyped'
  BY <1>1, <1>2, <1>3, MemoryTypesStay DEF MemoryInv, MemoryTyped, Mem!Active
<1>5. Mem!NothingForgotten' /\ MergedStays'
  <2>1. known' \subseteq Mem!Words(Mem!Active(entries'))
    BY <1>1, WordsAre DEF Mem!Active
  <2> QED
    BY <1>2, <2>1, NoMerge
<1>6. FileFollows'
  BY <1>1 DEF FileFollows, CopyIsLatest
<1> QED
  BY <1>4, <1>5, <1>6 DEF MemoryInv

LEMMA MemoryInit == ASSUME Mem!Init PROVE MemoryInv
<1>1. PICK ws \in {<<>>} \cup {q \in [1..3 -> Texts] : Mem!Cardinality({q[k] : k \in 1..3}) = 3} :
        /\ entries = {[id |-> k, words |-> ws[k], expired |-> FALSE] : k \in DOMAIN ws}
        /\ nextId = Len(ws) + 1
  BY Zenon DEF Mem!Init
<1>2. ws \in Seq(Texts)
  <2>1. CASE ws = <<>>
    BY <2>1
  <2>2. CASE ws \in [1..3 -> Texts]
    <3>1. 3 \in Nat
      OBVIOUS
    <3> QED
      BY <2>2, <3>1, SeqDef
  <2> QED
    BY <2>1, <2>2
<1>3. nextId \in Nat /\ entries \subseteq EntryOf(nextId)
  <2>1. Len(ws) \in Nat /\ DOMAIN ws = 1..Len(ws)
    BY <1>2
  <2>2. \A k \in DOMAIN ws : [id |-> k, words |-> ws[k], expired |-> FALSE] \in EntryOf(nextId)
    BY <1>1, <1>2, <2>1 DEF EntryOf
  <2> QED
    BY <1>1, <2>1, <2>2
<1>4. /\ memfile = entries /\ pass = Mem!NoPass /\ known = Mem!Words(entries)
      /\ saver = [s \in Mem!Sides |-> [pc |-> "none", what |-> {}]]
  BY DEF Mem!Init
<1>5. MemoryTyped
  BY <1>3, <1>4 DEF MemoryTyped, PassTyped, SaverOf
<1>6. Mem!NothingForgotten
  BY <1>1, <1>4 DEF Mem!NothingForgotten, Mem!Words, Mem!Active
<1>7. MergedStays /\ FileFollows
  BY <1>4 DEF MergedStays, FileFollows, CopyIsLatest, Mem!NoPass
<1> QED
  BY <1>5, <1>6, <1>7 DEF MemoryInv

LEMMA MemoryStep == ASSUME MemoryInv, Mem!Next PROVE MemoryInv'
<1>1. CASE \E s \in Mem!Sides : Mem!Evicts(s) \/ Mem!Copies(s) \/ Mem!Writes(s)
  BY <1>1, EvictsKeeps, CopiesKeeps, WritesKeeps
<1>2. CASE \E w \in Texts :
             \/ Mem!SavesMemory(w)
             \/ \E id \in 1..MaxIds : Mem!UpdatesMemory(id, w) \/ Mem!PassUpdates(id, w)
             \/ \E ids \in SUBSET (1..MaxIds) : Mem!Consolidates(ids, w)
  BY <1>2, SavesMemoryKeeps, UpdatesMemoryKeeps, PassUpdatesKeeps, ConsolidatesKeeps
<1>3. CASE \E id \in 1..MaxIds : Mem!DeletesMemory(id) \/ Mem!Expires(id) \/ Mem!PassDeletes(id)
  BY <1>3, DeletesMemoryKeeps, ExpiresKeeps, PassDeletesKeeps
<1>4. CASE Mem!StartsPass \/ Mem!StartsStep \/ Mem!CollectsJob
  BY <1>4, StartsKeep, CollectsJobKeeps
<1>5. CASE Mem!Answers \/ Mem!PassDies \/ Mem!DropsSources \/ Mem!NextPhase
  BY <1>5, AnswersMemoryKeeps, PassDiesKeeps, DropsSourcesKeeps, NextPhaseKeeps
<1>6. CASE \E ids \in SUBSET (1..MaxIds), w \in Texts \cup {{}} : Mem!Merges(ids, w)
  BY <1>6, MergesKeeps
<1>7. CASE Mem!Restarts
  BY <1>7, RestartsMemoryKeeps
<1> QED
  BY <1>1, <1>2, <1>3, <1>4, <1>5, <1>6, <1>7 DEF Mem!Next

LEMMA MemoryIsSound == ASSUME MemoryInv PROVE Mem!MemorySound
BY DEF MemoryInv, FileFollows, Contents, Mem!MemorySound, Mem!FileCatchesUp

-----------------------------------------------------------------------------
(* The skills: one writer at a time, or the name counts as met.            *)

SkillFile == [text : Nat, whole : BOOLEAN, inode : 0..saves]
SaveState ==
  [pc : {"copied", "writing", "written"}, name : Skill!SkillNames, text : 1..saves, inode : 0..saves]
RevertState == [pc : {"copying"}, name : Skill!SkillNames, text : Nat, inode : 0..saves]
SkillCopy == [of : Skill!SkillNames, at : 0..copied, was : Nat]

SkillsTyped ==
  /\ saves \in Nat /\ copied \in Nat /\ breaks \in Nat
  /\ skill \in [Skill!SkillNames -> SkillFile]
  /\ temp \in [Skill!SkillNames -> SkillFile]
  /\ copies \subseteq SkillCopy
  /\ call \in [Callers -> SaveState \cup {Skill!NotCalled}]
  /\ revert \in RevertState \cup {Skill!NotReverting}

SavesOn(c, n) == call[c].pc # "idle" /\ call[c].name = n
RevertsOn(n) == revert.pc # "idle" /\ revert.name = n
CopiedText(n) == \E h \in copies : h.of = n /\ h.was = skill[n].text

\* How far the only writer of a name has come.
Progress(c, n) ==
  /\ skill[n] = Skill!NoFile \/ CopiedText(n)
  /\ call[c].pc = "copied" => temp[n] = Skill!NoFile /\ skill[n].inode # call[c].text
  /\ call[c].pc = "writing" => temp[n].inode = call[c].inode /\ skill[n].inode # call[c].inode
  /\ call[c].pc = "written" => temp[n].whole

Alone(n) ==
  /\ \A c \in Callers : SavesOn(c, n) => Progress(c, n) /\ ~RevertsOn(n)
  /\ \A c, d \in Callers : SavesOn(c, n) /\ SavesOn(d, n) => c = d
  /\ (\A c \in Callers : ~SavesOn(c, n)) => temp[n] = Skill!NoFile
  /\ RevertsOn(n) => skill[n].inode = revert.inode
  /\ ~RevertsOn(n) => skill[n] = Skill!NoFile \/ skill[n].whole

SkillsInv ==
  /\ SkillsTyped
  /\ \A n \in Skill!SkillNames \ met : Alone(n)
  /\ dropped = {}

LEMMA SkillCopied ==
  ASSUME SkillsInv, NEW n \in Skill!SkillNames, Skill!Snapshots(n)
  PROVE  /\ copied' \in Nat /\ copied' >= copied
         /\ copies' \subseteq [of : Skill!SkillNames, at : 0..copied', was : Nat]
         /\ breaks' = breaks /\ skill[n] # Skill!NoFile =>
              \E h \in copies' : h.of = n /\ h.was = skill[n].text
<1>1. copied \in Nat /\ copies \subseteq SkillCopy /\ skill[n] \in SkillFile
  BY DEF SkillsInv, SkillsTyped
<1>2. SkillCopy \subseteq [of : Skill!SkillNames, at : 0..(copied + 1), was : Nat]
  BY <1>1 DEF SkillCopy
<1>3. CASE UNCHANGED <<copies, copied>> /\ (skill[n] = Skill!NoFile \/ breaks' # breaks)
  BY <1>1, <1>3 DEF SkillCopy
<1>4. CASE /\ copied' = copied + 1 /\ breaks' = breaks
           /\ LET all == Skill!CountsFor(n) \cup {Skill!Copy(n)} IN
              copies' = {h \in copies \cup {Skill!Copy(n)} :
                          h \in all =>
                            Skill!Cardinality({g \in all : Skill!Before(n, h, g)}) < SkillHistory}
  <2> DEFINE new == Skill!Copy(n)
             all == Skill!CountsFor(n) \cup {new}
  <2>1. /\ new \in [of : Skill!SkillNames, at : 0..(copied + 1), was : Nat]
        /\ new.of = n /\ new.at = copied + 1 /\ new.was = skill[n].text
    BY <1>1 DEF Skill!Copy, SkillFile
  <2>2. \A g \in all : ~Skill!Before(n, new, g)
    <3>1. ASSUME NEW g \in Skill!CountsFor(n) PROVE g.at <= copied /\ g.at \in Nat
      BY <1>1 DEF Skill!CountsFor, SkillCopy
    <3> HIDE DEF new
    <3> QED
      BY <1>1, <2>1, <3>1 DEF Skill!Before
  <2>3. Skill!Cardinality({g \in all : Skill!Before(n, new, g)}) < SkillHistory
    <3>1. {g \in all : Skill!Before(n, new, g)} = {}
      BY <2>2
    <3>2. Skill!Cardinality({}) = Cardinality({})
      BY Zenon DEF Skill!Cardinality, Cardinality
    <3> QED
      BY <3>1, <3>2, FS_EmptySet, KeepAssumption
  <2>4. new \in copies'
    BY <1>4, <2>3
  <2>5. copies' \subseteq SkillCopy \cup {new}
    BY <1>1, <1>4
  <2>6. copied' = copied + 1
    BY <1>4
  <2> HIDE DEF new
  <2>7. copies' \subseteq [of : Skill!SkillNames, at : 0..copied', was : Nat]
    BY <1>2, <2>1, <2>5, <2>6
  <2> QED
    BY <1>1, <2>1, <2>4, <2>6, <2>7
<1> QED
  <2>1. breaks \in Nat
    BY DEF SkillsInv, SkillsTyped
  <2>2. breaks' = breaks + 1 => breaks' # breaks
    BY <2>1
  <2> QED
    BY <1>3, <1>4, <2>2 DEF Skill!Snapshots, Skill!Break

\* Whose copies a writer of another name prunes counts as met.
LEMMA OthersCopies ==
  ASSUME NEW n, NEW m, m # n, Skill!Meets(n), m \notin met'
  PROVE  \A h \in copies : h.of = m => h \in copies'
BY DEF Skill!Meets

LEMMA NotMet ==
  ASSUME NEW n, Skill!Meets(n), n \notin met'
  PROVE  n \notin met /\ ~Skill!Busy(n) /\ breaks' = breaks
BY DEF Skill!Meets

LEMMA MetStays == ASSUME NEW n, Skill!Meets(n) PROVE met \subseteq met'
BY DEF Skill!Meets

LEMMA NotBusy ==
  ASSUME NEW n, ~Skill!Busy(n)
  PROVE  (\A c \in Callers : ~SavesOn(c, n)) /\ ~RevertsOn(n)
BY DEF Skill!Busy, SavesOn, RevertsOn

\* A step of others leaves a name alone.
LEMMA AloneStays ==
  ASSUME NEW m, Alone(m), skill'[m] = skill[m], temp'[m] = temp[m],
         \A h \in copies : h.of = m => h \in copies',
         \A c \in Callers : call'[c] = call[c] \/ (~SavesOn(c, m) /\ ~SavesOn(c, m)'),
         revert' = revert \/ (~RevertsOn(m) /\ ~RevertsOn(m)')
  PROVE  Alone(m)'
<1>1. \A c \in Callers : SavesOn(c, m)' => SavesOn(c, m) /\ call'[c] = call[c]
  BY DEF SavesOn
<1>2. \A c \in Callers : SavesOn(c, m) => SavesOn(c, m)'
  BY DEF SavesOn
<1>3. RevertsOn(m)' <=> RevertsOn(m)
  BY DEF RevertsOn
<1>4. RevertsOn(m) => revert' = revert
  OBVIOUS
<1>5. CopiedText(m) => CopiedText(m)'
  BY DEF CopiedText
<1>6. ASSUME NEW c \in Callers, SavesOn(c, m)' PROVE Progress(c, m)' /\ ~RevertsOn(m)'
  <2>1. Progress(c, m) /\ ~RevertsOn(m) /\ call'[c] = call[c]
    BY <1>1, <1>6 DEF Alone
  <2> QED
    BY <1>3, <1>5, <2>1 DEF Progress
<1> QED
  BY <1>1, <1>2, <1>3, <1>4, <1>6 DEF Alone

LEMMA SaveIs ==
  ASSUME SkillsInv, NEW c \in Callers, call[c].pc # "idle"
  PROVE  call[c] \in SaveState /\ call[c].name \in Skill!SkillNames /\ SavesOn(c, call[c].name)
<1>1. call[c] \in SaveState \cup {Skill!NotCalled}
  BY DEF SkillsInv, SkillsTyped
<1>2. call[c] \in SaveState
  BY <1>1 DEF Skill!NotCalled
<1> QED
  BY <1>2 DEF SaveState, SavesOn

LEMMA SkillsTypesStay ==
  ASSUME SkillsInv, UNCHANGED <<saves, copied, copies>>, breaks' \in Nat,
         skill' \in [Skill!SkillNames -> SkillFile], temp' \in [Skill!SkillNames -> SkillFile],
         call' \in [Callers -> SaveState \cup {Skill!NotCalled}],
         revert' \in RevertState \cup {Skill!NotReverting}
  PROVE  SkillsTyped'
BY DEF SkillsInv, SkillsTyped, SkillFile, SaveState, RevertState, SkillCopy, Skill!SkillNames, Skill!NotCalled, Skill!NotReverting

LEMMA OpensPartKeeps ==
  ASSUME SkillsInv, NEW c \in Callers, Skill!OpensPart(c)
  PROVE  SkillsInv'
<1>1. PICK n : n = call[c].name
  OBVIOUS
<1>2. PICK inode : inode = IF temp[n] = Skill!NoFile THEN call[c].text ELSE temp[n].inode
  OBVIOUS
<1>3. /\ call[c].pc = "copied"
      /\ temp' = [temp EXCEPT ![n] = [text |-> call[c].text, whole |-> FALSE, inode |-> inode]]
      /\ call' = [call EXCEPT ![c].pc = "writing", ![c].inode = inode]
      /\ UNCHANGED <<skill, copies, revert, met, dropped, saves, copied, breaks>>
  BY <1>1, <1>2 DEF Skill!OpensPart
<1>4. call[c] \in SaveState /\ n \in Skill!SkillNames /\ SavesOn(c, n)
  BY <1>1, <1>3, SaveIs
<1>5. inode \in 0..saves /\ saves \in Nat /\ call[c].text \in 1..saves
  BY <1>2, <1>4 DEF SkillsInv, SkillsTyped, SkillFile, SaveState
<1>6. call'[c] = [call[c] EXCEPT !.pc = "writing", !.inode = inode]
      /\ \A d \in Callers \ {c} : call'[d] = call[d]
  BY <1>3 DEF SkillsInv, SkillsTyped
<1>7. call'[c] \in SaveState /\ call'[c].pc = "writing" /\ call'[c].name = n /\ call'[c].inode = inode
  BY <1>1, <1>4, <1>5, <1>6, Zenon DEF SaveState
<1>8. SkillsTyped'
  <2>1. [text |-> call[c].text, whole |-> FALSE, inode |-> inode] \in SkillFile
    BY <1>5 DEF SkillFile
  <2>2. temp' \in [Skill!SkillNames -> SkillFile]
    BY <1>3, <2>1, Zenon DEF SkillsInv, SkillsTyped
  <2>3. call' \in [Callers -> SaveState \cup {Skill!NotCalled}]
    BY <1>3, <1>6, <1>7 DEF SkillsInv, SkillsTyped
  <2> QED
    BY <1>3, <2>2, <2>3, SkillsTypesStay DEF SkillsInv, SkillsTyped
<1>9. ASSUME NEW m \in Skill!SkillNames \ met' PROVE Alone(m)'
  <2>1. Alone(m)
    BY <1>3, <1>9 DEF SkillsInv
  <2>2. CASE m # n
    <3>1. temp'[m] = temp[m]
      BY <1>3, <2>2 DEF SkillsInv, SkillsTyped
    <3>2. ~SavesOn(c, m) /\ ~SavesOn(c, m)'
      BY <1>1, <1>7, <2>2 DEF SavesOn
    <3> QED
      BY <1>3, <1>6, <2>1, <3>1, <3>2, AloneStays, Zenon
  <2>3. CASE m = n
    <3>1. Progress(c, n) /\ ~RevertsOn(n) /\ \A d \in Callers : SavesOn(d, n) => d = c
      BY <1>4, <2>1, <2>3 DEF Alone
    <3>2. inode = call[c].text /\ skill[n].inode # inode
      BY <1>2, <1>3, <3>1 DEF Progress
    <3>3. temp'[n].inode = inode
      BY <1>3, <1>4 DEF SkillsInv, SkillsTyped
    <3>4. SavesOn(c, n)' /\ \A d \in Callers : SavesOn(d, n)' => d = c
      BY <1>6, <1>7, <3>1 DEF SavesOn
    <3>5. Progress(c, n)'
      BY <1>3, <1>7, <3>1, <3>2, <3>3 DEF Progress, CopiedText
    <3>6. ~RevertsOn(n)'
      BY <1>3, <3>1 DEF RevertsOn
    <3>7. skill'[n] = Skill!NoFile \/ skill'[n].whole
      BY <1>3, <2>1, <2>3, <3>1 DEF Alone
    <3> QED
      BY <2>3, <3>4, <3>5, <3>6, <3>7 DEF Alone
  <2> QED
    BY <2>2, <2>3
<1> QED
  BY <1>3, <1>8, <1>9 DEF SkillsInv

LEMMA WritesPartKeeps ==
  ASSUME SkillsInv, NEW c \in Callers, Skill!WritesPart(c)
  PROVE  SkillsInv'
<1> DEFINE Written(f) == IF f.inode = call[c].inode THEN [f EXCEPT !.whole = TRUE, !.text = call[c].text] ELSE f
<1>1. PICK n : n = call[c].name
  OBVIOUS
<1>2. /\ call[c].pc = "writing"
      /\ temp' = [temp EXCEPT ![n] = Written(@)] /\ skill' = [skill EXCEPT ![n] = Written(@)]
      /\ call' = [call EXCEPT ![c].pc = "written"]
      /\ UNCHANGED <<copies, revert, met, dropped, saves, copied, breaks>>
  BY <1>1 DEF Skill!WritesPart
<1>3. call[c] \in SaveState /\ n \in Skill!SkillNames /\ SavesOn(c, n)
  BY <1>1, <1>2, SaveIs
<1>4. call'[c] = [call[c] EXCEPT !.pc = "written"] /\ \A d \in Callers \ {c} : call'[d] = call[d]
  BY <1>2 DEF SkillsInv, SkillsTyped
<1>5. call'[c] \in SaveState /\ call'[c].pc = "written" /\ call'[c].name = n
  BY <1>1, <1>3, <1>4 DEF SaveState
<1>6. temp[n] \in SkillFile /\ skill[n] \in SkillFile /\ call[c].text \in Nat
  BY <1>3 DEF SkillsInv, SkillsTyped, SaveState
<1>7. \A f \in SkillFile : Written(f) \in SkillFile /\ (f.inode = call[c].inode => Written(f).whole)
  BY <1>6, Zenon DEF SkillFile
<1>8. /\ temp'[n] = Written(temp[n]) /\ skill'[n] = Written(skill[n])
      /\ \A m \in Skill!SkillNames \ {n} : temp'[m] = temp[m] /\ skill'[m] = skill[m]
  BY <1>2, <1>3 DEF SkillsInv, SkillsTyped
<1>9. SkillsTyped'
  <2>1. temp' \in [Skill!SkillNames -> SkillFile] /\ skill' \in [Skill!SkillNames -> SkillFile]
    BY <1>2, <1>6, <1>7, Zenon DEF SkillsInv, SkillsTyped
  <2>2. call' \in [Callers -> SaveState \cup {Skill!NotCalled}]
    BY <1>2, <1>4, <1>5 DEF SkillsInv, SkillsTyped
  <2> QED
    BY <1>2, <2>1, <2>2, SkillsTypesStay DEF SkillsInv, SkillsTyped
<1>10. ASSUME NEW m \in Skill!SkillNames \ met' PROVE Alone(m)'
  <2>1. Alone(m)
    BY <1>2, <1>10 DEF SkillsInv
  <2>2. CASE m # n
    <3>1. ~SavesOn(c, m) /\ ~SavesOn(c, m)'
      BY <1>1, <1>5, <2>2 DEF SavesOn
    <3>2. temp'[m] = temp[m] /\ skill'[m] = skill[m]
      BY <1>8, <2>2
    <3> QED
      BY <1>2, <1>4, <2>1, <3>1, <3>2, AloneStays
  <2>3. CASE m = n
    <3>1. Progress(c, n) /\ ~RevertsOn(n) /\ \A d \in Callers : SavesOn(d, n) => d = c
      BY <1>3, <2>1, <2>3 DEF Alone
    <3>2. skill'[n] = skill[n] /\ temp'[n].whole
      BY <1>2, <1>6, <1>7, <1>8, <3>1, Zenon DEF Progress
    <3>3. SavesOn(c, n)' /\ \A d \in Callers : SavesOn(d, n)' => d = c
      BY <1>4, <1>5, <3>1 DEF SavesOn
    <3>4. Progress(c, n)'
      BY <1>2, <1>5, <3>1, <3>2 DEF Progress, CopiedText
    <3>5. ~RevertsOn(n)'
      BY <1>2, <3>1 DEF RevertsOn
    <3>6. skill'[n] = Skill!NoFile \/ skill'[n].whole
      BY <2>1, <2>3, <3>1, <3>2 DEF Alone
    <3> QED
      BY <2>3, <3>3, <3>4, <3>5, <3>6 DEF Alone
  <2> QED
    BY <2>2, <2>3
<1> QED
  BY <1>2, <1>9, <1>10 DEF SkillsInv

LEMMA SkillRenamesKeeps ==
  ASSUME SkillsInv, NEW c \in Callers, Skill!Renames(c)
  PROVE  SkillsInv'
<1>1. PICK n : n = call[c].name
  OBVIOUS
<1>2. /\ call[c].pc = "written" /\ call' = [call EXCEPT ![c] = Skill!NotCalled]
      /\ UNCHANGED <<copies, revert, met, saves, copied, breaks>>
  BY DEF Skill!Renames
<1>3. \/ temp[n] = Skill!NoFile /\ UNCHANGED <<skill, temp, dropped>>
      \/ /\ temp[n] # Skill!NoFile
         /\ skill' = [skill EXCEPT ![n] = temp[n]] /\ temp' = [temp EXCEPT ![n] = Skill!NoFile]
         /\ Skill!Replaces(n)
  BY <1>1 DEF Skill!Renames
<1>4. call[c] \in SaveState /\ n \in Skill!SkillNames /\ SavesOn(c, n)
  BY <1>1, <1>2, SaveIs
<1>5. call'[c] = Skill!NotCalled /\ \A d \in Callers \ {c} : call'[d] = call[d]
  BY <1>2 DEF SkillsInv, SkillsTyped
<1>6. \A m : ~SavesOn(c, m)'
  BY <1>5 DEF SavesOn, Skill!NotCalled
<1>7. SkillsTyped'
  <2>1. Skill!NoFile \in SkillFile
    BY DEF SkillsInv, SkillsTyped, Skill!NoFile, SkillFile
  <2>2. temp' \in [Skill!SkillNames -> SkillFile] /\ skill' \in [Skill!SkillNames -> SkillFile]
    BY <1>3, <1>4, <2>1 DEF SkillsInv, SkillsTyped
  <2>3. call' \in [Callers -> SaveState \cup {Skill!NotCalled}]
    BY <1>2 DEF SkillsInv, SkillsTyped
  <2> QED
    BY <1>2, <2>2, <2>3, SkillsTypesStay DEF SkillsInv, SkillsTyped
<1>8. \A m \in Skill!SkillNames \ {n} : temp'[m] = temp[m] /\ skill'[m] = skill[m]
  BY <1>3 DEF SkillsInv, SkillsTyped
<1>9. ASSUME NEW m \in Skill!SkillNames \ met' PROVE Alone(m)'
  <2>1. Alone(m)
    BY <1>2, <1>9 DEF SkillsInv
  <2>2. CASE m # n
    <3>1. ~SavesOn(c, m)
      BY <1>1, <2>2 DEF SavesOn
    <3> QED
      BY <1>2, <1>5, <1>6, <1>8, <2>1, <2>2, <3>1, AloneStays
  <2>3. CASE m = n
    <3>1. Progress(c, n) /\ ~RevertsOn(n) /\ \A d \in Callers : SavesOn(d, n) => d = c
      BY <1>4, <2>1, <2>3 DEF Alone
    <3>2. temp[n].whole /\ temp[n] # Skill!NoFile
      BY <1>2, <3>1 DEF Progress, Skill!NoFile
    <3>3. skill'[n] = temp[n] /\ temp'[n] = Skill!NoFile
      BY <1>3, <1>4, <3>2 DEF SkillsInv, SkillsTyped
    <3>4. \A d \in Callers : ~SavesOn(d, n)'
      BY <1>5, <1>6, <3>1 DEF SavesOn
    <3>5. ~RevertsOn(n)'
      BY <1>2, <3>1 DEF RevertsOn
    <3> QED
      BY <2>3, <3>2, <3>3, <3>4, <3>5 DEF Alone
  <2> QED
    BY <2>2, <2>3
<1>10. dropped' = {}
  <2>1. CASE UNCHANGED dropped
    BY <2>1 DEF SkillsInv
  <2>2. CASE Skill!Replaces(n)
    <3>1. CASE n \in met'
      BY <2>2, <3>1 DEF SkillsInv, Skill!Replaces
    <3>2. CASE n \notin met'
      <4>1. Progress(c, n)
        BY <1>2, <1>4, <3>2 DEF SkillsInv, Alone
      <4>2. skill[n] = Skill!NoFile \/ \E h \in copies' : h.of = n /\ h.was = skill[n].text
        BY <1>2, <4>1 DEF Progress, CopiedText
      <4> QED
        BY <2>2, <4>2 DEF SkillsInv, Skill!Replaces
    <3> QED
      BY <3>1, <3>2
  <2> QED
    BY <1>3, <2>1, <2>2
<1> QED
  BY <1>7, <1>9, <1>10 DEF SkillsInv

LEMMA SkillSaveFailsKeeps ==
  ASSUME SkillsInv, NEW c \in Callers, Skill!SaveFails(c)
  PROVE  SkillsInv'
<1>1. PICK n : n = call[c].name
  OBVIOUS
<1>2. /\ call[c].pc # "idle" /\ call' = [call EXCEPT ![c] = Skill!NotCalled]
      /\ met' = met \cup {n} /\ breaks' = breaks + 1
      /\ UNCHANGED <<skill, temp, copies, revert, dropped, saves, copied>>
  BY <1>1 DEF Skill!SaveFails, Skill!Break
<1>3. call'[c] = Skill!NotCalled /\ \A d \in Callers \ {c} : call'[d] = call[d]
  BY <1>2 DEF SkillsInv, SkillsTyped
<1>4. \A m : ~SavesOn(c, m)'
  BY <1>3 DEF SavesOn, Skill!NotCalled
<1>5. SkillsTyped'
  BY <1>2, SkillsTypesStay DEF SkillsInv, SkillsTyped
<1>6. ASSUME NEW m \in Skill!SkillNames \ met' PROVE Alone(m)'
  <2>1. Alone(m) /\ m # n
    BY <1>2, <1>6 DEF SkillsInv
  <2>2. ~SavesOn(c, m)
    BY <1>1, <2>1 DEF SavesOn
  <2> QED
    BY <1>2, <1>3, <1>4, <2>1, <2>2, AloneStays
<1> QED
  BY <1>2, <1>5, <1>6 DEF SkillsInv

\* A name nobody works on, by anyone, before or after a step.
LEMMA QuietIsAlone ==
  ASSUME NEW n, \A c \in Callers : ~SavesOn(c, n)', ~RevertsOn(n)', temp'[n] = Skill!NoFile,
         skill'[n] = Skill!NoFile \/ skill'[n].whole
  PROVE  Alone(n)'
BY DEF Alone

LEMMA NobodyOn ==
  ASSUME NEW n, Alone(n), ~Skill!Busy(n)
  PROVE  /\ \A c \in Callers : ~SavesOn(c, n)
         /\ ~RevertsOn(n) /\ temp[n] = Skill!NoFile
         /\ skill[n] = Skill!NoFile \/ skill[n].whole
BY NotBusy DEF Alone

LEMMA BreakIs == ASSUME SkillsInv, Skill!Break PROVE breaks' \in Nat /\ breaks' # breaks
BY DEF SkillsInv, SkillsTyped, Skill!Break

LEMMA SnapshotBreaks == ASSUME SkillsInv, NEW n, Skill!Snapshots(n) PROVE breaks' \in Nat
BY DEF SkillsInv, SkillsTyped, Skill!Snapshots, Skill!Break

LEMMA StopsHereKeeps ==
  ASSUME SkillsInv, Skill!StopsHere
  PROVE  SkillsInv'
<1>1. /\ call' = [c \in Callers |-> Skill!NotCalled] /\ revert' = Skill!NotReverting
      /\ met' = met \cup {n \in Skill!SkillNames : Skill!Busy(n)}
      /\ UNCHANGED <<skill, temp, copies, dropped, saves, copied>>
  BY DEF Skill!StopsHere
<1>2. SkillsTyped'
  BY <1>1, BreakIs, SkillsTypesStay DEF SkillsInv, SkillsTyped, Skill!StopsHere
<1>3. ASSUME NEW m \in Skill!SkillNames \ met' PROVE Alone(m)'
  <2>1. Alone(m) /\ ~Skill!Busy(m)
    BY <1>1, <1>3 DEF SkillsInv
  <2>2. (\A c \in Callers : ~SavesOn(c, m)') /\ ~RevertsOn(m)'
    BY <1>1 DEF SavesOn, RevertsOn, Skill!NotCalled, Skill!NotReverting
  <2> QED
    BY <1>1, <2>1, <2>2, NobodyOn, QuietIsAlone
<1> QED
  BY <1>1, <1>2, <1>3 DEF SkillsInv

LEMMA RevertEndsKeeps ==
  ASSUME SkillsInv, Skill!RevertEnds
  PROVE  SkillsInv'
<1>1. PICK n, text, inode : n = revert.name /\ text = revert.text /\ inode = revert.inode
  OBVIOUS
<1>2. /\ revert.pc = "copying" /\ revert' = Skill!NotReverting
      /\ skill' = [skill EXCEPT ![n] = IF @.inode = inode THEN [@ EXCEPT !.whole = TRUE, !.text = text] ELSE @]
      /\ UNCHANGED <<temp, copies, call, met, dropped, saves, copied, breaks>>
  BY <1>1 DEF Skill!RevertEnds
<1>3. n \in Skill!SkillNames /\ text \in Nat /\ RevertsOn(n)
  BY <1>1, <1>2 DEF SkillsInv, SkillsTyped, RevertState, Skill!NotReverting, RevertsOn
<1>4. skill[n] \in SkillFile
  BY <1>3 DEF SkillsInv, SkillsTyped
<1>5. /\ skill'[n] \in SkillFile
      /\ skill[n].inode = inode => skill'[n].whole
      /\ \A m \in Skill!SkillNames \ {n} : skill'[m] = skill[m]
  <2>1. skill'[n] = IF skill[n].inode = inode THEN [skill[n] EXCEPT !.whole = TRUE, !.text = text] ELSE skill[n]
    BY <1>2, <1>3 DEF SkillsInv, SkillsTyped
  <2>2. [skill[n] EXCEPT !.whole = TRUE, !.text = text] \in SkillFile
    BY <1>3, <1>4, Zenon DEF SkillFile
  <2>3. [skill[n] EXCEPT !.whole = TRUE, !.text = text].whole
    BY <1>4 DEF SkillFile
  <2>4. \A m \in Skill!SkillNames \ {n} : skill'[m] = skill[m]
    BY <1>2 DEF SkillsInv, SkillsTyped
  <2> QED
    BY <1>4, <2>1, <2>2, <2>3, <2>4
<1>6. SkillsTyped'
  <2>1. skill' \in [Skill!SkillNames -> SkillFile]
    BY <1>2, <1>5, Zenon DEF SkillsInv, SkillsTyped
  <2> QED
    BY <1>2, <2>1, SkillsTypesStay DEF SkillsInv, SkillsTyped
<1>7. \A m : ~RevertsOn(m)'
  BY <1>2 DEF RevertsOn, Skill!NotReverting
<1>8. ASSUME NEW m \in Skill!SkillNames \ met' PROVE Alone(m)'
  <2>1. Alone(m)
    BY <1>2, <1>8 DEF SkillsInv
  <2>2. CASE m # n
    <3>1. ~RevertsOn(m)
      BY <1>1, <2>2 DEF RevertsOn
    <3> QED
      BY <1>2, <1>5, <1>7, <2>1, <2>2, <3>1, AloneStays
  <2>3. CASE m = n
    <3>1. /\ \A c \in Callers : ~SavesOn(c, n)
          /\ temp[n] = Skill!NoFile /\ skill[n].inode = revert.inode
      BY <1>3, <2>1, <2>3 DEF Alone
    <3>2. \A c \in Callers : ~SavesOn(c, n)'
      BY <1>2, <3>1 DEF SavesOn
    <3>3. skill'[n].whole
      BY <1>1, <1>5, <3>1
    <3> QED
      BY <1>2, <1>7, <2>3, <3>1, <3>2, <3>3, QuietIsAlone
  <2> QED
    BY <2>2, <2>3
<1> QED
  BY <1>2, <1>6, <1>8 DEF SkillsInv

LEMMA SaveBeginsKeeps ==
  ASSUME SkillsInv, NEW c \in Callers, NEW n \in Skill!SkillNames, Skill!SaveBegins(c, n)
  PROVE  SkillsInv'
<1>1. /\ call[c] = Skill!NotCalled /\ saves' = saves + 1 /\ Skill!Snapshots(n) /\ Skill!Meets(n)
      /\ call' = [call EXCEPT ![c] = [pc |-> "copied", name |-> n, text |-> saves + 1, inode |-> 0]]
      /\ UNCHANGED <<skill, temp, revert, dropped>>
  BY DEF Skill!SaveBegins
<1>2. call'[c] = [pc |-> "copied", name |-> n, text |-> saves + 1, inode |-> 0]
      /\ \A d \in Callers \ {c} : call'[d] = call[d]
  BY <1>1 DEF SkillsInv, SkillsTyped
<1>3. saves \in Nat /\ breaks' \in Nat
  BY <1>1, SnapshotBreaks DEF SkillsInv, SkillsTyped
<1>4. 0..saves \subseteq 0..saves' /\ 1..saves \subseteq 1..saves'
  BY <1>1, <1>3
<1>5. SkillsTyped'
  <2>1. SkillFile \subseteq SkillFile'
    BY <1>4 DEF SkillFile
  <2>2. SaveState \subseteq SaveState' /\ RevertState \subseteq RevertState'
    BY <1>4 DEF SaveState, RevertState
  <2>3. call'[c] \in SaveState'
    BY <1>1, <1>2, <1>3 DEF SaveState
  <2>4. call' \in [Callers -> SaveState' \cup {Skill!NotCalled}]
    BY <1>1, <1>2, <2>2, <2>3 DEF SkillsInv, SkillsTyped
  <2>5. skill' \in [Skill!SkillNames -> SkillFile'] /\ temp' \in [Skill!SkillNames -> SkillFile']
        /\ revert' \in RevertState' \cup {Skill!NotReverting}
    BY <1>1, <2>1, <2>2 DEF SkillsInv, SkillsTyped
  <2>6. copied' \in Nat /\ copies' \subseteq SkillCopy'
    BY <1>1, SkillCopied DEF SkillCopy
  <2> QED
    BY <1>1, <1>3, <2>4, <2>5, <2>6 DEF SkillsTyped, Skill!NotCalled, Skill!NotReverting, Skill!SkillNames
<1>6. ASSUME NEW m \in Skill!SkillNames \ met' PROVE Alone(m)'
  <2>1. Alone(m)
    BY <1>1, <1>6, MetStays DEF SkillsInv
  <2>2. CASE m # n
    <3>1. ~SavesOn(c, m) /\ ~SavesOn(c, m)'
      BY <1>1, <1>2, <2>2 DEF SavesOn, Skill!NotCalled
    <3>2. \A h \in copies : h.of = m => h \in copies'
      BY <1>1, <1>6, <2>2, OthersCopies
    <3> QED
      BY <1>1, <1>2, <2>1, <3>1, <3>2, AloneStays
  <2>3. CASE m = n
    <3>1. ~Skill!Busy(n) /\ breaks' = breaks
      BY <1>1, <1>6, <2>3, NotMet
    <3>2. /\ \A d \in Callers : ~SavesOn(d, n)
          /\ ~RevertsOn(n) /\ temp[n] = Skill!NoFile
          /\ skill[n] = Skill!NoFile \/ skill[n].whole
      BY <2>1, <2>3, <3>1, NobodyOn
    <3>3. SavesOn(c, n)' /\ \A d \in Callers : SavesOn(d, n)' => d = c
      BY <1>2, <3>2 DEF SavesOn
    <3>4. skill[n].inode # saves + 1
      BY <1>3 DEF SkillsInv, SkillsTyped, SkillFile
    <3>5. skill[n] = Skill!NoFile \/ CopiedText(n)'
      BY <1>1, <3>1, SkillCopied DEF CopiedText
    <3>6. Progress(c, n)'
      BY <1>1, <1>2, <3>2, <3>4, <3>5 DEF Progress
    <3>7. ~RevertsOn(n)'
      BY <1>1, <3>2 DEF RevertsOn
    <3> QED
      BY <1>1, <2>3, <3>2, <3>3, <3>6, <3>7 DEF Alone
  <2> QED
    BY <2>2, <2>3
<1> QED
  BY <1>1, <1>5, <1>6 DEF SkillsInv

\* What a delete or a revert replaces is in the history, or the name is met.
LEMMA ReplacedIsCopied ==
  ASSUME SkillsInv, NEW n \in Skill!SkillNames, Skill!Snapshots(n), Skill!Meets(n), Skill!Replaces(n)
  PROVE  dropped' = {}
<1>1. CASE n \in met'
  BY <1>1 DEF SkillsInv, Skill!Replaces
<1>2. CASE n \notin met'
  <2>1. skill[n] = Skill!NoFile \/ \E h \in copies' : h.of = n /\ h.was = skill[n].text
    BY <1>2, NotMet, SkillCopied
  <2> QED
    BY <2>1 DEF SkillsInv, Skill!Replaces
<1> QED
  BY <1>1, <1>2

LEMMA SnapshotTypes ==
  ASSUME SkillsInv, NEW n \in Skill!SkillNames, Skill!Snapshots(n), UNCHANGED <<temp, call, saves>>,
         skill' \in [Skill!SkillNames -> SkillFile], revert' \in RevertState \cup {Skill!NotReverting}
  PROVE  SkillsTyped'
<1>1. breaks' \in Nat /\ copied' \in Nat /\ copies' \subseteq SkillCopy'
  BY SnapshotBreaks, SkillCopied DEF SkillCopy
<1> QED
  BY <1>1 DEF SkillsInv, SkillsTyped, SkillFile, SaveState, RevertState, Skill!SkillNames, Skill!NotCalled, Skill!NotReverting

LEMMA SkillDeletesKeeps ==
  ASSUME SkillsInv, NEW n \in Skill!SkillNames, Skill!Deletes(n)
  PROVE  SkillsInv'
<1>1. /\ Skill!Snapshots(n) /\ Skill!Meets(n) /\ Skill!Replaces(n)
      /\ skill' = [skill EXCEPT ![n] = Skill!NoFile]
      /\ UNCHANGED <<temp, call, revert, saves>>
  BY DEF Skill!Deletes
<1>2. /\ skill'[n] = Skill!NoFile /\ \A m \in Skill!SkillNames \ {n} : skill'[m] = skill[m]
      /\ skill' \in [Skill!SkillNames -> SkillFile]
  <2>1. Skill!NoFile \in SkillFile
    BY DEF SkillsInv, SkillsTyped, Skill!NoFile, SkillFile
  <2> QED
    BY <1>1, <2>1 DEF SkillsInv, SkillsTyped
<1>3. SkillsTyped'
  BY <1>1, <1>2, SnapshotTypes DEF SkillsInv, SkillsTyped
<1>4. ASSUME NEW m \in Skill!SkillNames \ met' PROVE Alone(m)'
  <2>1. Alone(m)
    BY <1>1, <1>4, MetStays DEF SkillsInv
  <2>2. CASE m # n
    <3>1. \A h \in copies : h.of = m => h \in copies'
      BY <1>1, <1>4, <2>2, OthersCopies
    <3> QED
      BY <1>1, <1>2, <2>1, <2>2, <3>1, AloneStays
  <2>3. CASE m = n
    <3>1. ~Skill!Busy(n)
      BY <1>1, <1>4, <2>3, NotMet
    <3>2. (\A d \in Callers : ~SavesOn(d, n)) /\ ~RevertsOn(n) /\ temp[n] = Skill!NoFile
      BY <2>1, <2>3, <3>1, NobodyOn
    <3>3. (\A d \in Callers : ~SavesOn(d, n)') /\ ~RevertsOn(n)'
      BY <1>1, <3>2 DEF SavesOn, RevertsOn
    <3> QED
      BY <1>1, <1>2, <2>3, <3>2, <3>3, QuietIsAlone
  <2> QED
    BY <2>2, <2>3
<1> QED
  BY <1>1, <1>3, <1>4, ReplacedIsCopied DEF SkillsInv

LEMMA RevertBeginsKeeps ==
  ASSUME SkillsInv, NEW n \in Skill!SkillNames, Skill!RevertBegins(n)
  PROVE  SkillsInv'
<1>1. PICK h \in Skill!CountsFor(n) :
        /\ Skill!Snapshots(n) /\ Skill!Meets(n)
        /\ IF h \in copies'
           THEN /\ revert' = [pc |-> "copying", name |-> n, text |-> h.was, inode |-> skill[n].inode]
                /\ skill' = [skill EXCEPT ![n] = [@ EXCEPT !.whole = FALSE, !.text = h.was]]
                /\ Skill!Replaces(n)
           ELSE UNCHANGED <<revert, skill, dropped>>
  BY Zenon DEF Skill!RevertBegins
<1>2. revert = Skill!NotReverting /\ UNCHANGED <<temp, call, saves>>
  BY DEF Skill!RevertBegins
<1>3. h.was \in Nat /\ skill[n] \in SkillFile
  BY DEF SkillsInv, SkillsTyped, SkillCopy, Skill!CountsFor
<1>4. /\ skill' \in [Skill!SkillNames -> SkillFile]
      /\ revert' \in RevertState \cup {Skill!NotReverting}
      /\ \A m \in Skill!SkillNames \ {n} : skill'[m] = skill[m]
      /\ skill'[n].inode = skill[n].inode
  <2>1. CASE h \in copies'
    <3>1. [skill[n] EXCEPT !.whole = FALSE, !.text = h.was] \in SkillFile
          /\ [skill[n] EXCEPT !.whole = FALSE, !.text = h.was].inode = skill[n].inode
      BY <1>3, Zenon DEF SkillFile
    <3>2. skill' = [skill EXCEPT ![n] = [skill[n] EXCEPT !.whole = FALSE, !.text = h.was]]
      BY <1>1, <2>1
    <3>3. revert' \in RevertState
      BY <1>1, <1>3, <2>1 DEF RevertState, SkillFile
    <3> QED
      BY <3>1, <3>2, <3>3 DEF SkillsInv, SkillsTyped
  <2>2. CASE h \notin copies'
    BY <1>1, <2>2 DEF SkillsInv, SkillsTyped
  <2> QED
    BY <2>1, <2>2
<1>5. SkillsTyped'
  BY <1>1, <1>2, <1>4, SnapshotTypes
<1>6. ASSUME NEW m \in Skill!SkillNames \ met' PROVE Alone(m)'
  <2>1. Alone(m)
    BY <1>1, <1>6, MetStays DEF SkillsInv
  <2>2. CASE m # n
    <3>1. \A g \in copies : g.of = m => g \in copies'
      BY <1>1, <1>6, <2>2, OthersCopies
    <3>2. ~RevertsOn(m) /\ ~RevertsOn(m)'
      BY <1>1, <1>2, <2>2 DEF RevertsOn, Skill!NotReverting
    <3> QED
      BY <1>2, <1>4, <2>1, <2>2, <3>1, <3>2, AloneStays
  <2>3. CASE m = n
    <3>1. ~Skill!Busy(n)
      BY <1>1, <1>6, <2>3, NotMet
    <3>2. /\ \A d \in Callers : ~SavesOn(d, n)
          /\ temp[n] = Skill!NoFile /\ (skill[n] = Skill!NoFile \/ skill[n].whole)
      BY <2>1, <2>3, <3>1, NobodyOn
    <3>3. (\A d \in Callers : ~SavesOn(d, n)') /\ temp'[n] = Skill!NoFile
      BY <1>2, <3>2 DEF SavesOn
    <3>4. CASE h \in copies'
      <4>1. revert'.inode = skill[n].inode /\ RevertsOn(n)'
        BY <1>1, <3>4 DEF RevertsOn
      <4> QED
        BY <1>4, <2>3, <3>3, <4>1 DEF Alone
    <3>5. CASE h \notin copies'
      <4>1. skill' = skill /\ ~RevertsOn(n)'
        BY <1>1, <1>2, <3>5 DEF RevertsOn, Skill!NotReverting
      <4> QED
        BY <2>3, <3>2, <3>3, <4>1, QuietIsAlone
    <3> QED
      BY <3>4, <3>5
  <2> QED
    BY <2>2, <2>3
<1>7. dropped' = {}
  BY <1>1, ReplacedIsCopied DEF SkillsInv
<1> QED
  BY <1>5, <1>6, <1>7 DEF SkillsInv

LEMMA SkillsInit == ASSUME Skill!Init PROVE SkillsInv
<1>1. SkillsTyped
  BY DEF Skill!Init, SkillsTyped, SkillFile, Skill!NoFile
<1>2. \A n \in Skill!SkillNames : Alone(n)
  BY DEF Skill!Init, Alone, SavesOn, RevertsOn, Skill!NotCalled, Skill!NotReverting
<1> QED
  BY <1>1, <1>2 DEF Skill!Init, SkillsInv

LEMMA SkillsStep == ASSUME SkillsInv, Skill!Next PROVE SkillsInv'
BY SaveBeginsKeeps, OpensPartKeeps, WritesPartKeeps, SkillRenamesKeeps, SkillSaveFailsKeeps,
   SkillDeletesKeeps, RevertBeginsKeeps, RevertEndsKeeps, StopsHereKeeps DEF Skill!Next

LEMMA SkillsAreSound == ASSUME SkillsInv PROVE Skill!SkillsSound
<1>1. ASSUME NEW n \in Skill!SkillNames, skill[n] # Skill!NoFile, n \notin met,
             ~(revert.pc # "idle" /\ revert.name = n)
      PROVE  skill[n].whole
  BY <1>1 DEF SkillsInv, Alone, RevertsOn
<1> QED
  BY <1>1 DEF SkillsInv, Skill!SkillsSound, Skill!SkillsWhole, Skill!SkillsReversible

-----------------------------------------------------------------------------
(* The evals: the file, the runs and the dialog.                           *)

AnEval == Golden!Evals \cup {Golden!NoEval}
EvalFile == [EvalNames -> AnEval]
EvalSave ==
  [pc : {"idle", "read", "written"}, name : EvalNames \cup {"none"}, eval : AnEval, held : EvalFile]
EvalRound ==
  [by : {"tool", "dialog", "gone"}, of : EvalFile, todo : SUBSET EvalNames, passed : Nat, failed : Nat]
EvalLine == [run : Nat, name : EvalNames, passed : BOOLEAN]
EvalDialog ==
  [open : BOOLEAN, agent : {"none", "a", "b"}, running : BOOLEAN, status : {"none", "running", "result"}]

EvalStoreTyped ==
  /\ evals \in EvalFile /\ etemp \in EvalFile \cup {Golden!NoTemp}
  /\ esaver \in [Savers -> EvalSave]
EvalRunsTyped ==
  /\ erounds \in Seq(EvalRound)
  /\ metric \subseteq EvalLine /\ IsFiniteSet(metric)
  /\ dialog \in EvalDialog /\ done \in Seq(Nat)

\* Until two writers meet, who writes has what the file holds, but for its own eval.
StoreKept ==
  ~clashed =>
    /\ evals = eowed
    /\ \A s, o \in Savers : esaver[s].pc # "idle" /\ esaver[o].pc # "idle" => s = o
    /\ \A s \in Savers :
         /\ esaver[s].pc # "idle" =>
              esaver[s].held = [evals EXCEPT ![esaver[s].name] = esaver[s].eval]
         /\ esaver[s].pc = "written" => etemp = esaver[s].held

\* A run has a line for each eval it has done with, and counts as many.
RoundCounted(i) ==
  LET lines == {k \in metric : k.run = i}
      r == erounds[i]
  IN
  /\ r.todo \subseteq Golden!Saved(r.of)
  /\ {k.name : k \in lines} = Golden!Saved(r.of) \ r.todo
  /\ Cardinality(lines) = r.passed + r.failed
  /\ Cardinality({k \in lines : k.passed}) = r.passed
  /\ r.by = "gone" => r.todo = {}
RunsCounted ==
  /\ \A k \in metric : k.run \in DOMAIN erounds
  /\ \A i \in DOMAIN erounds : RoundCounted(i)

ByDialog == {i \in DOMAIN erounds : erounds[i].by = "dialog"}
DialogShows ==
  ~reopened =>
    /\ \/ ByDialog = {} /\ Len(done) <= 1
       \/ done = <<>> /\ \E i \in DOMAIN erounds : ByDialog = {i}
    /\ dialog.running <=> ByDialog # {} \/ done # <<>>
    /\ dialog.running => dialog.open

StoreInv == EvalStoreTyped /\ StoreKept
RunsInv == EvalRunsTyped /\ RunsCounted /\ DialogShows

LEMMA StoreStandsStill ==
  ASSUME StoreInv, UNCHANGED Golden!storeVars
  PROVE  StoreInv'
BY DEF StoreInv, EvalStoreTyped, StoreKept, Golden!storeVars

LEMMA RunsStandStill ==
  ASSUME RunsInv, UNCHANGED Golden!runVars
  PROVE  RunsInv'
BY Zenon DEF RunsInv, EvalRunsTyped, RunsCounted, RoundCounted, DialogShows, ByDialog, Golden!runVars

LEMMA EvalFilesAre ==
  /\ Golden!NoEval \in AnEval /\ Golden!Empty \in EvalFile
  /\ Golden!Resting \in EvalSave
  /\ \A f \in EvalFile, n \in EvalNames, e \in AnEval : [f EXCEPT ![n] = e] \in EvalFile
BY DEF AnEval, EvalFile, EvalSave, Golden!Empty, Golden!Resting

LEMMA WriteBeginsKeeps ==
  ASSUME StoreInv, NEW s \in Savers, NEW n \in EvalNames, NEW e \in AnEval, Golden!WriteBegins(s, n, e)
  PROVE  StoreInv'
<1>1. /\ esaver[s] = Golden!Resting /\ clashed' = (clashed \/ Golden!Busy(s))
      /\ UNCHANGED <<evals, etemp, eowed>>
  BY DEF Golden!WriteBegins
<1>2. CASE esaver' = esaver
  BY <1>1, <1>2, Zenon DEF StoreInv, EvalStoreTyped, StoreKept
<1>3. CASE esaver' = [esaver EXCEPT ![s] = [pc |-> "read", name |-> n, eval |-> e,
                                            held |-> Golden!Upserted(evals, n, e)]]
  <2> DEFINE new == [pc |-> "read", name |-> n, eval |-> e, held |-> [evals EXCEPT ![n] = e]]
  <2>1. new \in EvalSave
    BY EvalFilesAre DEF StoreInv, EvalStoreTyped, EvalSave
  <2>2. esaver' \in [Savers -> EvalSave] /\ esaver'[s] = new /\ \A o \in Savers \ {s} : esaver'[o] = esaver[o]
    BY <1>3, <2>1 DEF StoreInv, EvalStoreTyped, Golden!Upserted
  <2>3. EvalStoreTyped'
    BY <1>1, <2>2 DEF StoreInv, EvalStoreTyped
  <2>4. ASSUME ~clashed' PROVE ~clashed /\ \A o \in Savers \ {s} : esaver[o].pc = "idle"
    BY <1>1, <2>4, Zenon DEF Golden!Busy
  <2>5. StoreKept'
    BY <1>1, <2>2, <2>4 DEF StoreInv, StoreKept
  <2> QED
    BY <2>3, <2>5 DEF StoreInv
<1> QED
  BY <1>2, <1>3 DEF Golden!WriteBegins

LEMMA WritesTempKeeps ==
  ASSUME StoreInv, NEW s \in Savers, Golden!WritesTemp(s)
  PROVE  StoreInv'
<1>1. /\ esaver[s].pc = "read" /\ etemp' = esaver[s].held
      /\ esaver' = [esaver EXCEPT ![s].pc = "written"] /\ UNCHANGED <<evals, eowed, clashed>>
  BY DEF Golden!WritesTemp
<1>2. esaver[s] \in EvalSave
  BY DEF StoreInv, EvalStoreTyped
<1>3. LET new == [esaver[s] EXCEPT !.pc = "written"] IN
      /\ new \in EvalSave /\ new.pc = "written" /\ new.name = esaver[s].name
      /\ new.eval = esaver[s].eval /\ new.held = esaver[s].held
  BY <1>2 DEF EvalSave
<1>4. esaver' \in [Savers -> EvalSave] /\ esaver'[s] = [esaver[s] EXCEPT !.pc = "written"]
      /\ \A o \in Savers \ {s} : esaver'[o] = esaver[o]
  BY <1>1, <1>3 DEF StoreInv, EvalStoreTyped
<1>5. EvalStoreTyped'
  BY <1>1, <1>2, <1>4 DEF StoreInv, EvalStoreTyped, EvalSave
<1>6. \A o \in Savers : ~clashed /\ esaver[o].pc # "idle" => o = s
  BY <1>1 DEF StoreInv, StoreKept
<1>7. StoreKept'
  BY <1>1, <1>3, <1>4, <1>6 DEF StoreInv, StoreKept
<1> QED
  BY <1>5, <1>7 DEF StoreInv

LEMMA EvalRenamesKeeps ==
  ASSUME StoreInv, NEW s \in Savers, Golden!Renames(s)
  PROVE  StoreInv'
<1>1. esaver[s].pc = "written" /\ esaver' = [esaver EXCEPT ![s] = Golden!Resting] /\ clashed' = clashed
  BY DEF Golden!Renames
<1>2. esaver' \in [Savers -> EvalSave] /\ esaver'[s] = Golden!Resting
      /\ \A o \in Savers \ {s} : esaver'[o] = esaver[o]
  BY <1>1, EvalFilesAre DEF StoreInv, EvalStoreTyped
<1>3. \A o \in Savers : ~clashed => esaver'[o].pc = "idle"
  BY <1>1, <1>2 DEF StoreInv, StoreKept, Golden!Resting
<1>4. CASE UNCHANGED <<evals, etemp, eowed>>
  BY <1>1, <1>2, <1>3, <1>4 DEF StoreInv, EvalStoreTyped, StoreKept
<1>5. CASE /\ etemp # Golden!NoTemp /\ evals' = etemp /\ etemp' = Golden!NoTemp
           /\ eowed' = [eowed EXCEPT ![esaver[s].name] = esaver[s].eval]
  <2>1. EvalStoreTyped'
    BY <1>2, <1>5 DEF StoreInv, EvalStoreTyped
  <2>2. ~clashed => evals' = eowed'
    BY <1>1, <1>5 DEF StoreInv, StoreKept
  <2> QED
    BY <1>1, <1>3, <2>1, <2>2 DEF StoreInv, StoreKept
<1> QED
  BY <1>4, <1>5 DEF Golden!Renames

LEMMA WriteFailsKeeps ==
  ASSUME StoreInv, NEW s \in Savers, Golden!WriteFails(s)
  PROVE  StoreInv'
<1>1. /\ esaver[s].pc = "read" /\ esaver' = [esaver EXCEPT ![s] = Golden!Resting]
      /\ etemp' = Golden!NoTemp /\ UNCHANGED <<evals, eowed, clashed>>
  BY DEF Golden!WriteFails
<1>2. esaver' \in [Savers -> EvalSave] /\ esaver'[s] = Golden!Resting
      /\ \A o \in Savers \ {s} : esaver'[o] = esaver[o]
  BY <1>1, EvalFilesAre DEF StoreInv, EvalStoreTyped
<1>3. \A o \in Savers : ~clashed => esaver'[o].pc = "idle"
  BY <1>1, <1>2 DEF StoreInv, StoreKept, Golden!Resting
<1>4. EvalStoreTyped'
  BY <1>1, <1>2 DEF StoreInv, EvalStoreTyped
<1> QED
  BY <1>1, <1>3, <1>4 DEF StoreInv, StoreKept

-----------------------------------------------------------------------------
(* Runs of the evals.                                                      *)

\* A run that begins has no line yet.
LEMMA RoundBegins ==
  ASSUME StoreInv, RunsInv, NEW by \in {"tool", "dialog"}, NEW chosen, chosen \subseteq Golden!Saved(evals),
         erounds' = Append(erounds, Golden!Round(by, chosen)), metric' = metric
  PROVE  /\ erounds' \in Seq(EvalRound)
         /\ DOMAIN erounds' = DOMAIN erounds \cup {Len(erounds) + 1}
         /\ Len(erounds) + 1 \notin DOMAIN erounds
         /\ erounds'[Len(erounds) + 1].by = by
         /\ \A i \in DOMAIN erounds : erounds'[i] = erounds[i]
         /\ RunsCounted'
<1> DEFINE r == Golden!Round(by, chosen)
<1>0. PICK new : new = Len(erounds) + 1
  OBVIOUS
<1>1. r \in EvalRound /\ r.by = by /\ r.todo = chosen /\ r.passed = 0 /\ r.failed = 0
      /\ r.of = [n \in EvalNames |-> IF n \in chosen THEN evals[n] ELSE Golden!NoEval]
  <2>1. [n \in EvalNames |-> IF n \in chosen THEN evals[n] ELSE Golden!NoEval] \in EvalFile
    BY EvalFilesAre DEF StoreInv, EvalStoreTyped, EvalFile
  <2>2. chosen \subseteq EvalNames
    BY DEF Golden!Saved
  <2> QED
    BY <2>1, <2>2 DEF Golden!Round, EvalRound
<1>2. Golden!Saved(r.of) = chosen
  <2>1. chosen \subseteq EvalNames /\ \A n \in chosen : evals[n] # Golden!NoEval
    BY DEF Golden!Saved
  <2> HIDE DEF r
  <2> QED
    BY <1>1, <2>1 DEF Golden!Saved
<1> HIDE DEF r
<1>3. erounds \in Seq(EvalRound) /\ Len(erounds) \in Nat /\ DOMAIN erounds = 1..Len(erounds)
  BY DEF RunsInv, EvalRunsTyped
<1>4. /\ erounds' \in Seq(EvalRound) /\ Len(erounds') = new
      /\ erounds'[new] = r /\ \A i \in 1..Len(erounds) : erounds'[i] = erounds[i]
  BY <1>0, <1>1, <1>3, AppendProperties DEF r
<1>5. DOMAIN erounds' = 1..new
  BY <1>4
<1>6. \A k \in metric : k.run \in DOMAIN erounds
  BY DEF RunsInv, RunsCounted
<1>7. ASSUME NEW i \in DOMAIN erounds PROVE RoundCounted(i)'
  <2>1. RoundCounted(i)
    BY DEF RunsInv, RunsCounted
  <2>2. erounds'[i] = erounds[i]
    BY <1>3, <1>4
  <2> QED
    BY <2>1, <2>2 DEF RoundCounted
<1>8. RoundCounted(new)'
  <2>1. {k \in metric : k.run = new} = {}
    BY <1>0, <1>3, <1>6
  <2>2. Cardinality({}) = 0
    BY FS_EmptySet
  <2>3. {k \in metric' : k.run = new} = {} /\ erounds'[new] = r
    BY <1>4, <2>1
  <2>4. {k \in {k \in metric' : k.run = new} : k.passed} = {} /\ {k.name : k \in {k \in metric' : k.run = new}} = {}
    BY <2>3
  <2>5. /\ r.by # "gone" /\ r.todo \subseteq Golden!Saved(r.of) /\ Golden!Saved(r.of) \ r.todo = {}
        /\ r.passed = 0 /\ r.failed = 0 /\ r.passed + r.failed = 0
    BY <1>1, <1>2
  <2>6. /\ {k.name : k \in {k \in metric' : k.run = new}} = Golden!Saved(r.of) \ r.todo
        /\ Cardinality({k \in metric' : k.run = new}) = r.passed + r.failed
        /\ Cardinality({k \in {k \in metric' : k.run = new} : k.passed}) = r.passed
    BY <2>2, <2>3, <2>4, <2>5, Zenon
  <2> QED
    BY <2>3, <2>5, <2>6 DEF RoundCounted
<1>9. RunsCounted'
  BY <1>0, <1>3, <1>5, <1>6, <1>7, <1>8 DEF RunsCounted
<1> QED
  BY <1>0, <1>1, <1>3, <1>4, <1>5, <1>9

LEMMA ToolRunsKeeps ==
  ASSUME StoreInv, RunsInv, NEW chosen, Golden!ToolRuns(chosen)
  PROVE  RunsInv'
<1>1. /\ erounds' = Append(erounds, Golden!Round("tool", chosen)) /\ chosen \subseteq Golden!Saved(evals)
      /\ UNCHANGED <<metric, dialog, done, reopened>>
  BY DEF Golden!ToolRuns
<1>2. PICK new : new = Len(erounds) + 1
  OBVIOUS
<1>3. /\ erounds' \in Seq(EvalRound) /\ DOMAIN erounds' = DOMAIN erounds \cup {new}
      /\ new \notin DOMAIN erounds /\ erounds'[new].by = "tool"
      /\ \A i \in DOMAIN erounds : erounds'[i] = erounds[i]
      /\ RunsCounted'
  BY <1>1, <1>2, RoundBegins
<1>4. ByDialog' = ByDialog
  BY <1>3 DEF ByDialog
<1>5. DialogShows'
  BY <1>1, <1>3, <1>4 DEF RunsInv, DialogShows
<1>6. EvalRunsTyped'
  BY <1>1, <1>3 DEF RunsInv, EvalRunsTyped
<1> QED
  BY <1>3, <1>5, <1>6 DEF RunsInv

LEMMA ButtonRunsKeeps ==
  ASSUME StoreInv, RunsInv, Golden!ButtonRuns
  PROVE  RunsInv'
<1>1. /\ dialog.open /\ ~dialog.running
      /\ erounds' = Append(erounds, Golden!Round("dialog", Golden!Saved(evals)))
      /\ dialog' = [dialog EXCEPT !.running = TRUE, !.status = "running"]
      /\ UNCHANGED <<metric, done, reopened>>
  BY DEF Golden!ButtonRuns, Golden!Started
<1>2. PICK new, chosen : new = Len(erounds) + 1 /\ chosen = Golden!Saved(evals)
  OBVIOUS
<1>3. /\ erounds' \in Seq(EvalRound) /\ DOMAIN erounds' = DOMAIN erounds \cup {new}
      /\ new \notin DOMAIN erounds /\ erounds'[new].by = "dialog"
      /\ \A i \in DOMAIN erounds : erounds'[i] = erounds[i]
      /\ RunsCounted'
  BY <1>1, <1>2, RoundBegins
<1>4. dialog \in EvalDialog
  BY DEF RunsInv, EvalRunsTyped
<1>5. dialog' \in EvalDialog /\ dialog'.running /\ dialog'.open
  BY <1>1, <1>4, Zenon DEF EvalDialog
<1>6. ByDialog' = ByDialog \cup {new}
  BY <1>3 DEF ByDialog
<1>7. DialogShows'
  <2>1. ASSUME ~reopened PROVE ByDialog = {} /\ done = <<>>
    BY <1>1, <2>1 DEF RunsInv, DialogShows
  <2> QED
    BY <1>1, <1>3, <1>5, <1>6, <2>1 DEF DialogShows
<1>8. EvalRunsTyped'
  BY <1>1, <1>3, <1>5 DEF RunsInv, EvalRunsTyped
<1> QED
  BY <1>3, <1>7, <1>8 DEF RunsInv

\* An eval that ends has its line, and the run its count.
Ended(r, n, p) == [r EXCEPT !.todo = @ \ {n}, !.passed = @ + (IF p THEN 1 ELSE 0),
                            !.failed = @ + (IF p THEN 0 ELSE 1)]

LEMMA EndedIs ==
  ASSUME NEW r \in EvalRound, NEW n, NEW p \in BOOLEAN
  PROVE  LET q == Ended(r, n, p) IN
         /\ q \in EvalRound /\ q.by = r.by /\ q.of = r.of /\ q.todo = r.todo \ {n}
         /\ q.passed = r.passed + (IF p THEN 1 ELSE 0) /\ q.failed = r.failed + (IF p THEN 0 ELSE 1)
<1> DEFINE q == [by |-> r.by, of |-> r.of, todo |-> r.todo \ {n},
                 passed |-> r.passed + (IF p THEN 1 ELSE 0), failed |-> r.failed + (IF p THEN 0 ELSE 1)]
<1>1. Ended(r, n, p) = q
  <2>1. ASSUME NEW s, NEW a, NEW b
        PROVE  [r EXCEPT !.todo = s, !.passed = a, !.failed = b]
               = [by |-> r.by, of |-> r.of, todo |-> s, passed |-> a, failed |-> b]
    <3>1. PICK q1, q2 : q1 = [r EXCEPT !.todo = s] /\ q2 = [q1 EXCEPT !.passed = a]
      BY Zenon
    <3>2. q1 = [by |-> r.by, of |-> r.of, todo |-> s, passed |-> r.passed, failed |-> r.failed]
      BY <3>1 DEF EvalRound
    <3>3. q2 = [by |-> r.by, of |-> r.of, todo |-> s, passed |-> a, failed |-> r.failed]
      BY <3>1, <3>2, Zenon
    <3>4. [q2 EXCEPT !.failed = b]
          = [by |-> r.by, of |-> r.of, todo |-> s, passed |-> a, failed |-> b]
      BY <3>3
    <3> QED
      BY <3>1, <3>4, Zenon
  <2>2. PICK s, a, b : /\ s = r.todo \ {n} /\ a = r.passed + (IF p THEN 1 ELSE 0)
                       /\ b = r.failed + (IF p THEN 0 ELSE 1)
    BY Zenon
  <2>3. Ended(r, n, p) = [r EXCEPT !.todo = s, !.passed = a, !.failed = b]
    BY <2>2, Zenon DEF Ended
  <2> QED
    BY <2>1, <2>2, <2>3, Zenon
<1>2. q \in EvalRound
  <2>1. r.passed \in Nat /\ r.failed \in Nat
    BY DEF EvalRound
  <2>2. r.passed + (IF p THEN 1 ELSE 0) \in Nat /\ r.failed + (IF p THEN 0 ELSE 1) \in Nat
    BY <2>1
  <2> QED
    BY <2>2 DEF EvalRound
<1>3. /\ q.by = r.by /\ q.of = r.of /\ q.todo = r.todo \ {n}
      /\ q.passed = r.passed + (IF p THEN 1 ELSE 0) /\ q.failed = r.failed + (IF p THEN 0 ELSE 1)
  OBVIOUS
<1> QED
  BY <1>1, <1>2, <1>3, Zenon

EndedIn(f, i, n, p) == [f EXCEPT ![i].todo = @ \ {n}, ![i].passed = @ + (IF p THEN 1 ELSE 0),
                                ![i].failed = @ + (IF p THEN 0 ELSE 1)]

LEMMA EndedInPlace ==
  ASSUME NEW f \in Seq(EvalRound), NEW i \in DOMAIN f, NEW n, NEW p \in BOOLEAN
  PROVE  EndedIn(f, i, n, p) = [f EXCEPT ![i] = Ended(f[i], n, p)]
BY Zenon DEF Ended, EndedIn

LEMMA EvalEndsIs ==
  ASSUME RunsInv, NEW i \in DOMAIN erounds, Golden!EvalEnds(i)
  PROVE  \E n, p : /\ p \in BOOLEAN /\ n \in erounds[i].todo
                   /\ metric' = metric \cup {[run |-> i, name |-> n, passed |-> p]}
                   /\ erounds' = [erounds EXCEPT ![i] = Ended(erounds[i], n, p)]
<1> DEFINE x == CHOOSE y \in Golden!Left(erounds[i]) : TRUE
<1>1. PICK end \in {"answer", "error", "timeout"}, calls \in {0, 2} :
        \E verified \in (IF end = "answer" THEN Golden!Judged(calls) ELSE {FALSE}) :
          /\ Golden!Left(erounds[i]) # {} /\ (end # "answer" => calls = 0)
          /\ metric' = Golden!Logged(metric, [run |-> i, name |-> x, passed |->
                                              Golden!Passes(erounds[i].of[x], verified, calls)], end)
          /\ erounds' = [erounds EXCEPT
               ![i].todo = @ \ {x},
               ![i].passed = @ + (IF Golden!Passes(erounds[i].of[x], verified, calls) THEN 1 ELSE 0),
               ![i].failed = @ + (IF Golden!Passes(erounds[i].of[x], verified, calls) THEN 0 ELSE 1)]
          /\ UNCHANGED <<dialog, done, reopened, Golden!storeVars>>
  BY Zenon DEF Golden!EvalEnds
<1>2. PICK verified :
          /\ Golden!Left(erounds[i]) # {}
          /\ metric' = Golden!Logged(metric, [run |-> i, name |-> x, passed |->
                                              Golden!Passes(erounds[i].of[x], verified, calls)], end)
          /\ erounds' = [erounds EXCEPT
               ![i].todo = @ \ {x},
               ![i].passed = @ + (IF Golden!Passes(erounds[i].of[x], verified, calls) THEN 1 ELSE 0),
               ![i].failed = @ + (IF Golden!Passes(erounds[i].of[x], verified, calls) THEN 0 ELSE 1)]
  BY <1>1, Zenon
<1>3. PICK n, p : n = x /\ p = Golden!Passes(erounds[i].of[x], verified, calls)
  BY Zenon
<1>4. p \in BOOLEAN
  BY <1>3 DEF Golden!Passes
<1>5. n \in erounds[i].todo
  BY <1>2, <1>3, Zenon DEF Golden!Left
<1>6. metric' = metric \cup {[run |-> i, name |-> n, passed |-> p]}
  BY <1>2, <1>3, Zenon DEF Golden!Logged
<1> HIDE DEF x
<1>7. erounds' = EndedIn(erounds, i, n, p)
  BY <1>2, <1>3, Zenon DEF EndedIn
<1>8. erounds' = [erounds EXCEPT ![i] = Ended(erounds[i], n, p)]
  <2>1. PICK f, k : f = erounds /\ k = i
    OBVIOUS
  <2>2. f \in Seq(EvalRound) /\ k \in DOMAIN f
    BY <2>1 DEF RunsInv, EvalRunsTyped
  <2>3. EndedIn(f, k, n, p) = [f EXCEPT ![k] = Ended(f[k], n, p)]
    BY <1>4, <2>2, EndedInPlace
  <2> QED
    BY <1>7, <2>1, <2>3, Zenon
<1> QED
  BY <1>4, <1>5, <1>6, <1>8, Zenon

LEMMA EvalEndsKeeps ==
  ASSUME RunsInv, NEW i \in DOMAIN erounds, Golden!EvalEnds(i)
  PROVE  RunsInv'
<1>1. PICK n, p : /\ p \in BOOLEAN /\ n \in erounds[i].todo
                  /\ metric' = metric \cup {[run |-> i, name |-> n, passed |-> p]}
                  /\ erounds' = [erounds EXCEPT ![i] = Ended(erounds[i], n, p)]
  BY EvalEndsIs
<1>2. UNCHANGED <<dialog, done, reopened>>
  BY Zenon DEF Golden!EvalEnds
<1>3. /\ erounds \in Seq(EvalRound) /\ erounds[i] \in EvalRound /\ i \in Nat
      /\ metric \subseteq EvalLine /\ IsFiniteSet(metric)
  BY DEF RunsInv, EvalRunsTyped
<1> DEFINE r == erounds[i]
           q == Ended(r, n, p)
           line == [run |-> i, name |-> n, passed |-> p]
<1>4. /\ q \in EvalRound /\ q.by = r.by /\ q.of = r.of /\ q.todo = r.todo \ {n}
      /\ q.passed = r.passed + (IF p THEN 1 ELSE 0) /\ q.failed = r.failed + (IF p THEN 0 ELSE 1)
  BY <1>1, <1>3, EndedIs
<1>5. /\ erounds' \in Seq(EvalRound) /\ DOMAIN erounds' = DOMAIN erounds /\ erounds'[i] = q
      /\ \A j \in DOMAIN erounds \ {i} : erounds'[j] = erounds[j]
  <2>1. erounds' = [erounds EXCEPT ![i] = q]
    BY <1>1
  <2> HIDE DEF q
  <2> QED
    BY <1>3, <1>4, <2>1, ExceptSeq
<1>6. line \in EvalLine
  BY <1>1, <1>3 DEF EvalLine, EvalRound
<1>7. metric' \subseteq EvalLine /\ IsFiniteSet(metric')
  BY <1>1, <1>3, <1>6, FS_AddElement, Zenon
<1>8. EvalRunsTyped'
  BY <1>2, <1>5, <1>7 DEF RunsInv, EvalRunsTyped
<1>9. ByDialog' = ByDialog
  <2>1. \A j \in DOMAIN erounds : erounds'[j].by = erounds[j].by
    BY <1>4, <1>5
  <2> QED
    BY <1>5, <2>1 DEF ByDialog
<1>10. DialogShows'
  BY <1>2, <1>5, <1>9 DEF RunsInv, DialogShows
<1>11. ASSUME NEW j \in DOMAIN erounds, j # i PROVE RoundCounted(j)'
  <2>1. RoundCounted(j)
    BY DEF RunsInv, RunsCounted
  <2>2. {k \in metric' : k.run = j} = {k \in metric : k.run = j}
    BY <1>1, <1>11
  <2>3. erounds'[j] = erounds[j]
    BY <1>5, <1>11
  <2> QED
    BY <2>1, <2>2, <2>3, Zenon DEF RoundCounted
<1>12. RoundCounted(i)'
  <2> DEFINE lines == {k \in metric : k.run = i}
             passing == {k \in lines : k.passed}
  <2>1. /\ r.todo \subseteq Golden!Saved(r.of) /\ {k.name : k \in lines} = Golden!Saved(r.of) \ r.todo
        /\ Cardinality(lines) = r.passed + r.failed /\ Cardinality(passing) = r.passed
        /\ r.by = "gone" => r.todo = {}
    BY Zenon DEF RunsInv, RunsCounted, RoundCounted
  <2>2. line \notin lines /\ IsFiniteSet(lines) /\ IsFiniteSet(passing)
    <3>1. n \notin {k.name : k \in lines}
      BY <1>1, <2>1
    <3>2. lines \subseteq metric /\ passing \subseteq metric
      OBVIOUS
    <3> QED
      BY <1>3, <3>1, <3>2, FS_Subset
  <2>3. {k \in metric' : k.run = i} = lines \cup {line}
    BY <1>1
  <2>4. {k \in lines \cup {line} : k.passed} = IF p THEN passing \cup {line} ELSE passing
    OBVIOUS
  <2>5. Cardinality(lines \cup {line}) = Cardinality(lines) + 1
    BY <2>2, FS_AddElement, Zenon
  <2>6. line \notin passing
    BY <2>2
  <2>7. Cardinality(IF p THEN passing \cup {line} ELSE passing) = Cardinality(passing) + IF p THEN 1 ELSE 0
    <3>1. Cardinality(passing \cup {line}) = Cardinality(passing) + 1
      BY <2>2, <2>6, FS_AddElement, Zenon
    <3>2. Cardinality(passing) \in Nat
      BY <2>2, FS_CardinalityType
    <3> HIDE DEF passing, line
    <3> QED
      BY <3>1, <3>2
  <2>8. {k.name : k \in lines \cup {line}} = Golden!Saved(r.of) \ (r.todo \ {n})
    <3>1. {k.name : k \in lines \cup {line}} = {k.name : k \in lines} \cup {n}
      <4>1. line.name = n
        OBVIOUS
      <4> HIDE DEF lines, line
      <4> QED
        BY <4>1
    <3> QED
      BY <1>1, <2>1, <3>1
  <2>9. r.passed \in Nat /\ r.failed \in Nat
    BY <1>3 DEF EvalRound
  <2>10. r.by # "gone"
    BY <1>1, <2>1
  <2> HIDE DEF lines, passing, line, q, r
  <2>11. (q.todo \subseteq Golden!Saved(q.of)) /\ q.by # "gone"
    BY <1>4, <2>1, <2>10
  <2>12. Cardinality(lines \cup {line}) = q.passed + q.failed
    BY <1>4, <2>1, <2>5, <2>9
  <2>13. Cardinality({k \in lines \cup {line} : k.passed}) = q.passed
    BY <1>4, <2>1, <2>4, <2>7, <2>9, Zenon
  <2>14. {k.name : k \in lines \cup {line}} = Golden!Saved(q.of) \ q.todo
    BY <1>4, <2>8
  <2> QED
    BY <1>5, <2>3, <2>11, <2>12, <2>13, <2>14, Zenon DEF RoundCounted
<1>13. \A k \in metric' : k.run \in DOMAIN erounds'
  BY <1>1, <1>5 DEF RunsInv, RunsCounted
<1>14. RunsCounted'
  BY <1>5, <1>11, <1>12, <1>13 DEF RunsCounted
<1> QED
  BY <1>8, <1>10, <1>14 DEF RunsInv

LEMMA RoundEndsKeeps ==
  ASSUME RunsInv, NEW i \in DOMAIN erounds, Golden!RoundEnds(i)
  PROVE  RunsInv'
<1>1. /\ erounds[i].by # "gone" /\ erounds[i].todo = {}
      /\ erounds' = [erounds EXCEPT ![i].by = "gone"]
      /\ done' = IF erounds[i].by = "dialog" THEN Append(done, i) ELSE done
      /\ UNCHANGED <<metric, dialog, reopened>>
  BY DEF Golden!RoundEnds, Golden!Left
<1>2. erounds \in Seq(EvalRound) /\ erounds[i] \in EvalRound /\ i \in Nat /\ done \in Seq(Nat)
  BY DEF RunsInv, EvalRunsTyped
<1> DEFINE r == erounds[i]
           q == [r EXCEPT !.by = "gone"]
<1>3. /\ q \in EvalRound /\ q.by = "gone" /\ q.of = r.of /\ q.todo = r.todo
      /\ q.passed = r.passed /\ q.failed = r.failed
  BY <1>2, Zenon DEF EvalRound
<1>4. /\ erounds' \in Seq(EvalRound) /\ DOMAIN erounds' = DOMAIN erounds /\ erounds'[i] = q
      /\ \A j \in DOMAIN erounds \ {i} : erounds'[j] = erounds[j]
  <2>1. erounds' = [erounds EXCEPT ![i] = q]
    BY <1>1, <1>2
  <2> HIDE DEF q
  <2> QED
    BY <1>2, <1>3, <2>1, ExceptSeq
<1>5. done' \in Seq(Nat)
  BY <1>1, <1>2
<1>6. EvalRunsTyped'
  BY <1>1, <1>4, <1>5 DEF RunsInv, EvalRunsTyped
<1>7. RunsCounted'
  <2>1. ASSUME NEW j \in DOMAIN erounds PROVE RoundCounted(j)'
    <3>1. RoundCounted(j)
      BY DEF RunsInv, RunsCounted
    <3>2. CASE j = i
      BY <1>1, <1>3, <1>4, <3>1, <3>2, Zenon DEF RoundCounted
    <3>3. CASE j # i
      BY <1>1, <1>4, <3>1, <3>3 DEF RoundCounted
    <3> QED
      BY <3>2, <3>3
  <2> QED
    BY <1>1, <1>4, <2>1 DEF RunsInv, RunsCounted
<1>8. ByDialog' = ByDialog \ {i}
  BY <1>3, <1>4, Zenon DEF ByDialog
<1>9. DialogShows'
  <2>1. CASE r.by = "dialog"
    <3>1. i \in ByDialog
      BY <2>1 DEF ByDialog
    <3>2. ASSUME ~reopened
          PROVE  ByDialog = {i} /\ done = <<>> /\ dialog.running /\ dialog.open
      BY <3>1, <3>2 DEF RunsInv, DialogShows
    <3>3. done = <<>> => done' # <<>> /\ Len(done') = 1
      <4>1. done' = Append(done, i)
        BY <1>1, <2>1
      <4> QED
        BY <1>2, <4>1, AppendProperties
    <3>4. ~reopened => ByDialog' = {}
      BY <1>8, <3>2
    <3> QED
      BY <1>1, <3>2, <3>3, <3>4 DEF DialogShows
  <2>2. CASE r.by # "dialog"
    <3>1. ByDialog' = ByDialog /\ done' = done
      BY <1>1, <1>8, <2>2 DEF ByDialog
    <3> QED
      BY <1>1, <1>4, <3>1 DEF RunsInv, DialogShows
  <2> QED
    BY <2>1, <2>2
<1> QED
  BY <1>6, <1>7, <1>9 DEF RunsInv

LEMMA DialogKeeps ==
  ASSUME RunsInv, Golden!Finished \/ Golden!OpensOrCloses \/ \E a \in {"a", "b"} : Golden!Selects(a)
  PROVE  RunsInv'
<1>1. UNCHANGED <<erounds, metric>>
  BY DEF Golden!Finished, Golden!OpensOrCloses, Golden!Selects
<1>2. RunsCounted' /\ ByDialog' = ByDialog
  BY <1>1, Zenon DEF RunsInv, RunsCounted, RoundCounted, ByDialog
<1>3. dialog \in EvalDialog /\ done \in Seq(Nat)
  BY DEF RunsInv, EvalRunsTyped
<1>4. CASE Golden!Finished
  <2>1. /\ done # <<>> /\ done' = Tail(done) /\ reopened' = reopened
        /\ dialog' = IF dialog.open THEN [dialog EXCEPT !.running = FALSE, !.status = "result"] ELSE dialog
    BY <1>4 DEF Golden!Finished
  <2>2. dialog' \in EvalDialog /\ dialog'.open = dialog.open /\ (dialog.open => ~dialog'.running)
    BY <1>3, <2>1, Zenon DEF EvalDialog
  <2>3. done' \in Seq(Nat) /\ (Len(done) <= 1 => done' = <<>>)
    BY <1>3, <2>1
  <2>4. DialogShows'
    <3>1. ASSUME ~reopened PROVE ByDialog = {} /\ done' = <<>> /\ ~dialog'.running
      BY <2>1, <2>2, <2>3, <3>1 DEF RunsInv, DialogShows
    <3>2. Len(<<>>) <= 1
      OBVIOUS
    <3> QED
      BY <1>2, <2>1, <3>1, <3>2, Zenon DEF DialogShows
  <2> QED
    BY <1>1, <1>2, <2>2, <2>3, <2>4 DEF RunsInv, EvalRunsTyped
<1>5. CASE Golden!OpensOrCloses
  <2>1. /\ dialog' = IF dialog.open THEN Golden!Closed ELSE Golden!Opened
        /\ reopened' = (reopened \/ Golden!Working # {} \/ done # <<>>) /\ done' = done
    BY <1>5 DEF Golden!OpensOrCloses
  <2>2. Golden!Working = ByDialog
    BY DEF Golden!Working, ByDialog
  <2>3. dialog' \in EvalDialog /\ ~dialog'.running
    BY <2>1 DEF Golden!Closed, Golden!Opened, EvalDialog
  <2>4. DialogShows'
    <3>1. ASSUME ~reopened' PROVE ByDialog' = {} /\ done' = <<>> /\ ~dialog'.running
      BY <1>2, <2>1, <2>2, <2>3, <3>1, Zenon
    <3>2. Len(<<>>) <= 1
      OBVIOUS
    <3> QED
      BY <3>1, <3>2 DEF DialogShows
  <2> QED
    BY <1>1, <1>2, <2>1, <2>3, <2>4 DEF RunsInv, EvalRunsTyped
<1>6. ASSUME NEW a \in {"a", "b"}, Golden!Selects(a) PROVE RunsInv'
  <2>1. dialog' = [dialog EXCEPT !.agent = a, !.status = "none"] /\ UNCHANGED <<done, reopened>>
    BY <1>6 DEF Golden!Selects
  <2>2. dialog' \in EvalDialog /\ dialog'.open = dialog.open /\ dialog'.running = dialog.running
    BY <1>3, <2>1, Zenon DEF EvalDialog
  <2>3. DialogShows'
    BY <1>1, <1>2, <2>1, <2>2 DEF RunsInv, DialogShows
  <2> QED
    BY <1>1, <1>2, <2>1, <2>2, <2>3 DEF RunsInv, EvalRunsTyped
<1> QED
  BY <1>4, <1>5, <1>6

LEMMA EvalsInit == ASSUME Golden!Init PROVE StoreInv /\ RunsInv
<1>1. StoreInv
  BY EvalFilesAre DEF Golden!Init, StoreInv, EvalStoreTyped, StoreKept, Golden!Resting
<1>2. erounds = <<>> /\ metric = {} /\ done = <<>> /\ dialog = Golden!Closed
  BY DEF Golden!Init
<1>3. EvalRunsTyped
  BY <1>2, FS_EmptySet DEF EvalRunsTyped, Golden!Closed, EvalDialog
<1>4. RunsCounted
  BY <1>2 DEF RunsCounted
<1>5. DialogShows
  <2>1. ByDialog = {} /\ ~dialog.running
    BY <1>2 DEF ByDialog, Golden!Closed
  <2>2. Len(<<>>) <= 1
    OBVIOUS
  <2> QED
    BY <1>2, <2>1, <2>2 DEF DialogShows
<1> QED
  BY <1>1, <1>3, <1>4, <1>5 DEF RunsInv

LEMMA EvalsStep == ASSUME StoreInv, RunsInv, Golden!Next PROVE StoreInv' /\ RunsInv'
<1>1. ASSUME NEW s \in Savers,
             \/ \E n \in EvalNames, e \in {Golden!NoEval} \cup {x \in Golden!Evals : x.text = writes + 1} :
                  Golden!WriteBegins(s, n, e)
             \/ Golden!WritesTemp(s) \/ Golden!Renames(s) \/ Golden!WriteFails(s)
      PROVE  StoreInv' /\ RunsInv'
  <2>1. UNCHANGED Golden!runVars
    BY <1>1 DEF Golden!WriteBegins, Golden!WritesTemp, Golden!Renames, Golden!WriteFails
  <2>2. StoreInv'
    BY <1>1, WriteBeginsKeeps, WritesTempKeeps, EvalRenamesKeeps, WriteFailsKeeps DEF AnEval
  <2> QED
    BY <2>1, <2>2, RunsStandStill
<1>2. ASSUME \/ \E chosen \in SUBSET EvalNames : Golden!ToolRuns(chosen)
             \/ \E i \in DOMAIN erounds : Golden!EvalEnds(i) \/ Golden!RoundEnds(i)
             \/ Golden!ButtonRuns \/ Golden!Finished \/ Golden!OpensOrCloses
             \/ \E a \in {"a", "b"} : Golden!Selects(a)
      PROVE  StoreInv' /\ RunsInv'
  <2>1. UNCHANGED Golden!storeVars
    <3>1. ASSUME NEW chosen, Golden!ToolRuns(chosen) PROVE UNCHANGED Golden!storeVars
      BY <3>1 DEF Golden!ToolRuns
    <3>2. ASSUME NEW i, Golden!EvalEnds(i) PROVE UNCHANGED Golden!storeVars
      BY <3>2, Zenon DEF Golden!EvalEnds
    <3>3. ASSUME NEW i, Golden!RoundEnds(i) PROVE UNCHANGED Golden!storeVars
      BY <3>3 DEF Golden!RoundEnds
    <3>4. ASSUME Golden!ButtonRuns \/ Golden!Finished \/ Golden!OpensOrCloses PROVE UNCHANGED Golden!storeVars
      BY <3>4 DEF Golden!ButtonRuns, Golden!Finished, Golden!OpensOrCloses
    <3>5. ASSUME NEW a, Golden!Selects(a) PROVE UNCHANGED Golden!storeVars
      BY <3>5 DEF Golden!Selects
    <3> QED
      BY <1>2, <3>1, <3>2, <3>3, <3>4, <3>5
  <2>2. RunsInv'
    BY <1>2, ToolRunsKeeps, EvalEndsKeeps, RoundEndsKeeps, ButtonRunsKeeps, DialogKeeps
  <2> QED
    BY <2>1, <2>2, StoreStandsStill
<1> QED
  BY <1>1, <1>2 DEF Golden!Next

LEMMA EvalsAreSound == ASSUME StoreInv, RunsInv PROVE Golden!EvalsSound
<1>1. Golden!EvalsKept
  BY DEF StoreInv, StoreKept, Golden!EvalsKept
<1>2. \A S : Golden!Cardinality(S) = Cardinality(S)
  BY Zenon DEF Golden!Cardinality, Cardinality
<1>3. Golden!RunsAccounted
  <2>1. ASSUME NEW i \in DOMAIN erounds, erounds[i].by = "gone"
        PROVE  LET passing == {k \in Golden!LinesOf(i) : k.passed} IN
               /\ {k.name : k \in Golden!LinesOf(i)} = Golden!Saved(erounds[i].of)
               /\ Golden!Cardinality(Golden!LinesOf(i)) = erounds[i].passed + erounds[i].failed
               /\ Golden!Cardinality(passing) = erounds[i].passed
    <3>1. RoundCounted(i)
      BY DEF RunsInv, RunsCounted
    <3>2. Golden!LinesOf(i) = {k \in metric : k.run = i}
      BY DEF Golden!LinesOf
    <3> QED
      BY <1>2, <2>1, <3>1, <3>2 DEF RoundCounted
  <2> QED
    BY <2>1, Zenon DEF Golden!RunsAccounted
<1>4. Golden!ButtonHonest
  <2>1. Golden!Working = ByDialog
    BY DEF Golden!Working, ByDialog
  <2>2. Cardinality({}) = 0 /\ \A i : Cardinality({i}) = 1
    BY FS_EmptySet, FS_Singleton
  <2>3. ASSUME ~reopened PROVE Cardinality(ByDialog) + Len(done) <= 1
    <3>1. CASE ByDialog = {} /\ Len(done) <= 1
      <4>1. Len(done) \in Nat
        BY DEF RunsInv, EvalRunsTyped
      <4> QED
        BY <2>2, <3>1, <4>1
    <3>2. CASE done = <<>> /\ \E i \in DOMAIN erounds : ByDialog = {i}
      <4>1. Cardinality(ByDialog) = 1
        BY <2>2, <3>2, Zenon
      <4>2. Len(done) = 0
        BY <3>2
      <4> QED
        BY <4>1, <4>2
    <3> QED
      BY <2>3, <3>1, <3>2 DEF RunsInv, DialogShows
  <2>4. dialog.running \in BOOLEAN
    BY DEF RunsInv, EvalRunsTyped, EvalDialog
  <2>5. ~reopened => dialog.running = (ByDialog # {} \/ done # <<>>)
    BY <2>4 DEF RunsInv, DialogShows
  <2> QED
    BY <1>2, <2>1, <2>3, <2>5 DEF Golden!ButtonHonest
<1> QED
  BY <1>1, <1>3, <1>4 DEF Golden!EvalsSound

-----------------------------------------------------------------------------
(* The reads a trim leaves: what is shown is fresh, or seen to be stale.   *)

ReadEntry ==
  [op : {"read", "write", "copy", "move"}, file : ReadFiles, ok : BOOLEAN, seen : Nat, marker : BOOLEAN]
Conversation(l) ==
  /\ l = [i \in DOMAIN l |-> l[i]] /\ \E n \in Nat : DOMAIN l \subseteq 1..n
  /\ \A i \in DOMAIN l : l[i] \in Seq(ReadEntry)

Shows(l, p) == Trim!IsRead(Trim!At(l, p)) /\ ~Trim!At(l, p).marker
\* A snapshot that is not of now has the call behind it that changed the file.
Dated(l, v, u) ==
  \A p \in Trim!Places(l) :
    Shows(l, p) /\ Trim!At(l, p).ok =>
      \/ Trim!At(l, p).seen = v[Trim!At(l, p).file] \/ Trim!At(l, p).file \in u
      \/ Trim!Stale(l, p)
\* No such call stands behind a snapshot before the last round.
Cleaned(l) ==
  \A p \in Trim!Places(l) : p[1] < Trim!LastRound(l) /\ Shows(l, p) => ~Trim!Stale(l, p)

ReadsInv ==
  /\ Conversation(rounds) /\ version \in [ReadFiles -> Nat] /\ judged \in Nat
  /\ Dated(rounds, version, unlogged)
  /\ judged <= Trim!LastRound(rounds)
  /\ judged = Trim!LastRound(rounds) => Cleaned(rounds)
  /\ lost = {}

LEMMA LastIs ==
  ASSUME NEW l, Conversation(l)
  PROVE  /\ Trim!LastRound(l) \in Nat /\ \A i \in DOMAIN l : i \in Nat \ {0} /\ i <= Trim!LastRound(l)
         /\ DOMAIN l # {} => Trim!LastRound(l) \in DOMAIN l
<1>1. PICK n \in Nat : DOMAIN l \subseteq 1..n
  BY DEF Conversation
<1>2. ASSUME DOMAIN l # {} PROVE \E i \in DOMAIN l : \A j \in DOMAIN l : j <= i
  <2> DEFINE B == {m \in Nat : \A j \in DOMAIN l : j <= m}
  <2>1. n \in B
    BY <1>1
  <2>2. PICK m \in B : \A o \in B : ~(<<o, m>> \in OpToRel(<, Nat))
    BY <2>1, WFMin, NatLessThanWellFounded, Zenon
  <2>3. \A o \in B : ~(o < m)
    BY <2>2, Zenon DEF OpToRel
  <2>4. m \in DOMAIN l
    <3>1. SUFFICES ASSUME m \notin DOMAIN l PROVE FALSE
      OBVIOUS
    <3>2. \A j \in DOMAIN l : j \in Nat \ {0} /\ j < m
      BY <1>1, <3>1
    <3>3. m - 1 \in B
      BY <1>2, <3>2
    <3> QED
      BY <2>3, <3>3
  <2> QED
    BY <2>4
<1>3. CASE DOMAIN l = {}
  BY <1>3 DEF Trim!LastRound
<1>4. CASE DOMAIN l # {}
  <2>1. /\ Trim!LastRound(l) \in DOMAIN l /\ \A j \in DOMAIN l : j <= Trim!LastRound(l)
    BY <1>2, <1>4 DEF Trim!LastRound
  <2> QED
    BY <1>1, <2>1
<1> QED
  BY <1>3, <1>4, Zenon

LEMMA PlacesAre ==
  ASSUME NEW l, NEW p
  PROVE  p \in Trim!Places(l) <=> p = <<p[1], p[2]>> /\ p[1] \in DOMAIN l /\ p[2] \in DOMAIN l[p[1]]
BY DEF Trim!Places

\* r is round n of l with a call more, the z-th; no round comes later.
Longer(l, n, z, r) ==
  /\ n \in Nat \ {0} /\ \A i \in DOMAIN l : i \in Nat \ {0} /\ i <= n
  /\ z \in Nat \ {0} /\ r \in Seq(ReadEntry) /\ DOMAIN r = 1..z
  /\ n \notin DOMAIN l => z = 1
  /\ n \in DOMAIN l => DOMAIN l[n] = 1..(z - 1) /\ \A k \in DOMAIN l[n] : r[k] = l[n][k]

\* The calls before it, and those of other rounds, stay.
LEMMA AddedLast ==
  ASSUME NEW l, NEW n, NEW z, NEW r, Conversation(l), Longer(l, n, z, r)
  PROVE  \E new, at :
         /\ new = Trim!Added(l, n, r) /\ Conversation(new) /\ Trim!LastRound(new) = n
         /\ Trim!Places(new) = Trim!Places(l) \cup {at} /\ Trim!At(new, at) = r[z]
         /\ \A p \in Trim!Places(l) : Trim!At(new, p) = Trim!At(l, p) /\ Trim!Later(at, p)
<1> USE DEF Longer
<1>0. PICK new, at : new = Trim!Added(l, n, r) /\ at = <<n, z>>
  BY Zenon
<1>1. DOMAIN new = DOMAIN l \cup {n} /\ new[n] = r /\ \A i \in DOMAIN l \ {n} : new[i] = l[i]
  BY <1>0 DEF Trim!Added
<1>2. Conversation(new)
  <2>1. new = [i \in DOMAIN new |-> new[i]]
    BY <1>0 DEF Trim!Added
  <2>2. DOMAIN new \subseteq 1..n
    BY <1>1
  <2>3. \A i \in DOMAIN new : new[i] \in Seq(ReadEntry)
    BY <1>1 DEF Conversation
  <2> QED
    BY <2>1, <2>2, <2>3 DEF Conversation
<1>3. Trim!LastRound(new) = n
  <2>1. /\ Trim!LastRound(new) \in DOMAIN new /\ n <= Trim!LastRound(new)
    BY <1>1, <1>2, LastIs
  <2> QED
    BY <1>1, <2>1
<1>4. ASSUME NEW p \in Trim!Places(l)
      PROVE  p \in Trim!Places(new) /\ Trim!At(new, p) = Trim!At(l, p) /\ Trim!Later(at, p)
  <2>1. p = <<p[1], p[2]>> /\ p[1] \in DOMAIN l /\ p[2] \in DOMAIN l[p[1]]
    BY PlacesAre
  <2>2. CASE p[1] = n
    <3>1. p[2] \in 1..(z - 1) /\ r[p[2]] = l[n][p[2]] /\ p[2] \in DOMAIN r
      BY <2>1, <2>2
    <3>2. p[2] \in DOMAIN new[p[1]] /\ new[p[1]][p[2]] = l[p[1]][p[2]]
      BY <1>1, <2>2, <3>1
    <3>3. at[1] = p[1] /\ at[2] > p[2]
      BY <1>0, <2>2, <3>1
    <3> QED
      BY <1>1, <2>1, <3>2, <3>3, PlacesAre DEF Trim!At, Trim!Later
  <2>3. CASE p[1] # n
    <3>1. at[1] > p[1] /\ new[p[1]] = l[p[1]]
      BY <1>0, <1>1, <2>1, <2>3
    <3> QED
      BY <1>1, <2>1, <3>1, PlacesAre DEF Trim!At, Trim!Later
  <2> QED
    BY <2>2, <2>3
<1>5. at \in Trim!Places(new) /\ Trim!At(new, at) = r[z]
  <2>1. at[1] = n /\ at[2] = z /\ at = <<at[1], at[2]>>
    BY <1>0
  <2> QED
    BY <1>1, <2>1, PlacesAre DEF Trim!At
<1>6. ASSUME NEW p \in Trim!Places(new), p # at PROVE p \in Trim!Places(l)
  <2>1. p = <<p[1], p[2]>> /\ p[1] \in DOMAIN new /\ p[2] \in DOMAIN new[p[1]]
    BY PlacesAre
  <2>2. CASE p[1] = n
    <3>1. p[2] \in 1..z
      BY <1>1, <2>1, <2>2
    <3>2. p[2] # z
      BY <1>0, <1>6, <2>1, <2>2
    <3>3. p[2] \in 1..(z - 1)
      BY <3>1, <3>2
    <3>4. n \in DOMAIN l
      BY <3>3
    <3> QED
      BY <2>1, <2>2, <3>3, <3>4, PlacesAre
  <2>3. CASE p[1] # n
    BY <1>1, <2>1, <2>3, PlacesAre
  <2> QED
    BY <2>2, <2>3
<1>7. Trim!Places(new) = Trim!Places(l) \cup {at}
  BY <1>4, <1>5, <1>6
<1> QED
  BY <1>0, <1>2, <1>3, <1>4, <1>5, <1>7

\* A call comes last, in a round of its own or in the last one.
LEMMA CallAdded ==
  ASSUME NEW l, Conversation(l), NEW n, NEW r, NEW e \in ReadEntry,
         \/ n = Trim!LastRound(l) + 1 /\ r = <<e>>
         \/ n = Trim!LastRound(l) /\ n # 0 /\ r = Append(l[n], e)
  PROVE  \E new, at :
         /\ new = Trim!Added(l, n, r) /\ Conversation(new) /\ Trim!LastRound(new) = n
         /\ Trim!Places(new) = Trim!Places(l) \cup {at} /\ Trim!At(new, at) = e
         /\ \A p \in Trim!Places(l) : Trim!At(new, p) = Trim!At(l, p) /\ Trim!Later(at, p)
<1>1. /\ Trim!LastRound(l) \in Nat
      /\ \A i \in DOMAIN l : i \in Nat \ {0} /\ i <= Trim!LastRound(l)
      /\ DOMAIN l # {} => Trim!LastRound(l) \in DOMAIN l
      /\ DOMAIN l = {} => Trim!LastRound(l) = 0
  BY LastIs DEF Trim!LastRound
<1>2. n \in Nat \ {0} /\ \A i \in DOMAIN l : i \in Nat \ {0} /\ i <= n
  BY <1>1
<1>3. \E z \in Nat \ {0} : Longer(l, n, z, r) /\ r[z] = e
  <2>1. CASE n = Trim!LastRound(l) + 1 /\ r = <<e>>
    <3>1. n \notin DOMAIN l
      BY <1>1, <2>1
    <3>2. r \in Seq(ReadEntry) /\ DOMAIN r = 1..1 /\ r[1] = e
      BY <2>1
    <3> QED
      BY <1>2, <3>1, <3>2 DEF Longer
  <2>2. CASE n = Trim!LastRound(l) /\ n # 0 /\ r = Append(l[n], e)
    <3>1. PICK s, z : s = l[n] /\ z = Len(s) + 1
      OBVIOUS
    <3>2. n \in DOMAIN l
      BY <1>1, <2>2, Zenon
    <3>3. s \in Seq(ReadEntry)
      BY <3>1, <3>2 DEF Conversation
    <3>4. Len(s) \in Nat /\ DOMAIN s = 1..Len(s)
      BY <3>3
    <3>5. /\ r \in Seq(ReadEntry) /\ Len(r) = z /\ r[z] = e
          /\ \A k \in 1..Len(s) : r[k] = s[k]
      BY <2>2, <3>1, <3>3, AppendProperties
    <3>6. DOMAIN r = 1..z
      BY <3>5
    <3>7. z \in Nat \ {0} /\ z - 1 = Len(s)
      BY <3>1, <3>4
    <3>8. DOMAIN l[n] = 1..(z - 1) /\ \A k \in DOMAIN l[n] : r[k] = l[n][k]
      BY <3>1, <3>4, <3>5, <3>7
    <3> QED
      BY <1>2, <3>2, <3>5, <3>6, <3>7, <3>8 DEF Longer
  <2> QED
    BY <2>1, <2>2
<1>4. PICK z : Longer(l, n, z, r) /\ r[z] = e
  BY <1>3
<1>5. PICK new, at :
        /\ new = Trim!Added(l, n, r) /\ Conversation(new) /\ Trim!LastRound(new) = n
        /\ Trim!Places(new) = Trim!Places(l) \cup {at} /\ Trim!At(new, at) = r[z]
        /\ \A p \in Trim!Places(l) : Trim!At(new, p) = Trim!At(l, p) /\ Trim!Later(at, p)
  BY <1>4, AddedLast
<1>6. Trim!At(new, at) = e
  BY <1>4, <1>5
<1> QED
  BY <1>5, <1>6, Zenon

LEMMA MarkedChanges ==
  ASSUME NEW e, NEW m
  PROVE  Trim!Changed([e EXCEPT !.marker = m]) = Trim!Changed(e)
BY DEF Trim!Changed

\* What a call changed makes older snapshots stale, if it was reported, and is left out
\* of what is asked of them, if it was not.
LEMMA CallsKeeps ==
  ASSUME ReadsInv, NEW op \in {"read", "write", "copy", "move"}, NEW f \in ReadFiles,
         NEW ok \in BOOLEAN, NEW torn \in BOOLEAN, Trim!Calls(op, f, ok, torn)
  PROVE  ReadsInv'
<1>1. PICK e, n, r :
        /\ e = Trim!ResultOf(op, f, ok)
        /\ \/ n = Trim!LastRound(rounds) + 1 /\ r = <<e>>
           \/ judged < n /\ n = Trim!LastRound(rounds) /\ r = Append(rounds[n], e)
        /\ rounds' = Trim!Added(rounds, n, r)
  BY Zenon DEF Trim!Calls
<1>2. /\ ok => ~torn
      /\ op = "read" => ~torn
      /\ ok \/ op = "read" \/ (op = "write" /\ torn)
      /\ version' = [g \in ReadFiles |-> version[g] + (IF g \in Trim!Alters(op, f, ok, torn) THEN 1 ELSE 0)]
      /\ unlogged' = (IF ok THEN unlogged \ Trim!Alters(op, f, ok, torn) ELSE unlogged)
                     \cup (IF torn THEN {f} ELSE {})
      /\ judged' = judged /\ lost' = lost
  BY DEF Trim!Calls
<1>3. PICK l, v, u : l = rounds /\ v = version /\ u = unlogged
  OBVIOUS
<1>4. /\ Conversation(l) /\ v \in [ReadFiles -> Nat] /\ judged \in Nat /\ Dated(l, v, u)
      /\ judged <= Trim!LastRound(l)
  BY <1>3 DEF ReadsInv
<1>5. /\ e \in ReadEntry /\ e.op = op /\ e.file = f /\ e.ok = ok /\ (ok => e.seen = v[f])
  BY <1>1, <1>3, <1>4 DEF Trim!ResultOf, Trim!Entry, ReadEntry
<1>6. Trim!LastRound(l) \in Nat
  BY <1>4, LastIs
<1>7. PICK new, at :
        /\ new = Trim!Added(l, n, r) /\ Conversation(new) /\ Trim!LastRound(new) = n
        /\ Trim!Places(new) = Trim!Places(l) \cup {at} /\ Trim!At(new, at) = e
        /\ \A p \in Trim!Places(l) : Trim!At(new, p) = Trim!At(l, p) /\ Trim!Later(at, p)
  BY <1>1, <1>3, <1>4, <1>5, <1>6, CallAdded
<1>8. rounds' = new
  BY <1>1, <1>3, <1>7
<1>9. judged < n
  BY <1>1, <1>3, <1>4, <1>6
<1>10. version' \in [ReadFiles -> Nat]
  BY <1>2, <1>3, <1>4
<1>11. \A p \in Trim!Places(l) : Trim!At(l, p) \in ReadEntry
  BY <1>4, PlacesAre DEF Conversation, Trim!At
<1>12. Dated(new, version', unlogged')
  <2>1. SUFFICES ASSUME NEW p \in Trim!Places(new), Shows(new, p), Trim!At(new, p).ok
        PROVE  \/ Trim!At(new, p).seen = version'[Trim!At(new, p).file]
               \/ Trim!At(new, p).file \in unlogged' \/ Trim!Stale(new, p)
    BY DEF Dated
  <2>2. CASE p = at
    <3>1. op = "read" /\ ok /\ Trim!At(new, p) = e
      BY <1>5, <1>7, <2>1, <2>2 DEF Shows, Trim!IsRead
    <3>2. Trim!Alters(op, f, ok, torn) = {}
      BY <1>2, <3>1 DEF Trim!Alters
    <3>3. version'[f] = v[f]
      BY <1>2, <1>3, <1>4, <3>2
    <3> QED
      BY <1>5, <3>1, <3>3
  <2>3. CASE p \in Trim!Places(l)
    <3>1. PICK g \in ReadFiles : g = Trim!At(l, p).file
      BY <1>11, <2>3 DEF ReadEntry
    <3>2. Trim!At(new, p) = Trim!At(l, p) /\ Shows(l, p)
      BY <1>7, <2>1, <2>3 DEF Shows
    <3>3. Trim!At(l, p).seen = v[g] \/ g \in u \/ Trim!Stale(l, p)
      BY <1>4, <2>1, <2>3, <3>1, <3>2 DEF Dated
    <3>4. CASE g \notin Trim!Alters(op, f, ok, torn)
      <4>1. version'[g] = v[g] /\ (g \in u => g \in unlogged')
        BY <1>2, <1>3, <1>4, <3>4
      <4>2. Trim!Stale(l, p) => Trim!Stale(new, p)
        BY <1>7, <3>2 DEF Trim!Stale
      <4> QED
        BY <3>1, <3>2, <3>3, <4>1, <4>2
    <3>5. CASE g \in Trim!Alters(op, f, ok, torn) /\ ok
      <4>1. g \in Trim!Changed(e)
        BY <1>2, <1>5, <3>5 DEF Trim!Alters, Trim!Changed
      <4> QED
        BY <1>7, <2>3, <3>1, <3>2, <4>1 DEF Trim!Stale
    <3>6. CASE g \in Trim!Alters(op, f, ok, torn) /\ ~ok
      BY <1>2, <3>1, <3>2, <3>6 DEF Trim!Alters
    <3> QED
      BY <3>4, <3>5, <3>6
  <2> QED
    BY <1>7, <2>2, <2>3
<1>13. n \in Nat
  BY <1>1, <1>3, <1>6
<1>14. Dated(rounds, version, unlogged)'
  BY <1>8, <1>12 DEF Dated
<1>15. Conversation(rounds)' /\ Trim!LastRound(rounds)' = n
  <2>1. Conversation(rounds')
    BY <1>7, <1>8
  <2>2. Trim!LastRound(rounds') = n
    BY <1>7, <1>8
  <2> QED
    BY <2>1, <2>2 DEF Conversation, Trim!LastRound
<1> QED
  BY <1>2, <1>4, <1>9, <1>10, <1>13, <1>14, <1>15 DEF ReadsInv

\* What is left of a conversation, and where.
LEMMA LeftIs ==
  ASSUME NEW l, Conversation(l), NEW last
  PROVE  LET new == Trim!Freshened(l, last) IN
         /\ Conversation(new)
         /\ \A p : p \in Trim!Places(new) <=> p \in Trim!Places(l) /\ p[1] \notin Trim!Dropped(l, last)
         /\ \A p \in Trim!Places(new) :
              Trim!At(new, p) = IF p \in Trim!Marked(l, last)
                                THEN [Trim!At(l, p) EXCEPT !.marker = TRUE] ELSE Trim!At(l, p)
<1>0. PICK new, cut, mk :
        new = Trim!Freshened(l, last) /\ cut = Trim!Dropped(l, last) /\ mk = Trim!Marked(l, last)
  OBVIOUS
<1>1. new = [i \in DOMAIN l \ cut |-> [k \in DOMAIN l[i] |->
               IF <<i, k>> \in mk THEN [l[i][k] EXCEPT !.marker = TRUE] ELSE l[i][k]]]
  BY <1>0 DEF Trim!Freshened, Trim!Kept
<1>2. DOMAIN new = DOMAIN l \ cut
  BY <1>1
<1>3. ASSUME NEW i \in DOMAIN new
      PROVE  /\ DOMAIN new[i] = DOMAIN l[i]
             /\ \A k \in DOMAIN l[i] :
                  new[i][k] = IF <<i, k>> \in mk THEN [l[i][k] EXCEPT !.marker = TRUE] ELSE l[i][k]
  BY <1>1, <1>2, Zenon
<1>4. ASSUME NEW i \in DOMAIN new PROVE new[i] \in Seq(ReadEntry)
  <2>1. l[i] \in Seq(ReadEntry) /\ DOMAIN l[i] = 1..Len(l[i]) /\ Len(l[i]) \in Nat
    BY <1>2 DEF Conversation
  <2>2. \A k \in DOMAIN l[i] : new[i][k] \in ReadEntry
    <3>1. \A k \in DOMAIN l[i] : l[i][k] \in ReadEntry
      BY <2>1
    <3>2. \A e \in ReadEntry : [e EXCEPT !.marker = TRUE] \in ReadEntry
      BY Zenon DEF ReadEntry
    <3> QED
      BY <1>3, <3>1, <3>2, Zenon
  <2>3. new[i] = [k \in DOMAIN l[i] |-> new[i][k]]
    BY <1>1, <1>2
  <2>4. PICK s, m : s = new[i] /\ m = Len(l[i])
    BY Zenon
  <2>5. m \in Nat /\ s \in [1..m -> ReadEntry]
    BY <2>1, <2>2, <2>3, <2>4, Zenon
  <2> QED
    BY <2>4, <2>5
<1>5. Conversation(new)
  <2>1. new = [i \in DOMAIN new |-> new[i]]
    BY <1>1
  <2> QED
    BY <1>2, <1>4, <2>1 DEF Conversation
<1>6. ASSUME NEW p
      PROVE  p \in Trim!Places(new) <=> p \in Trim!Places(l) /\ p[1] \notin cut
  BY <1>2, <1>3, PlacesAre
<1>7. ASSUME NEW p \in Trim!Places(new)
      PROVE  Trim!At(new, p) = IF p \in mk THEN [Trim!At(l, p) EXCEPT !.marker = TRUE] ELSE Trim!At(l, p)
  <2>1. p = <<p[1], p[2]>> /\ p[1] \in DOMAIN new /\ p[2] \in DOMAIN new[p[1]]
    BY PlacesAre
  <2>2. PICK i, k : i = p[1] /\ k = p[2]
    OBVIOUS
  <2>3. new[i][k] = IF <<i, k>> \in mk THEN [l[i][k] EXCEPT !.marker = TRUE] ELSE l[i][k]
    BY <1>3, <2>1, <2>2, Zenon
  <2>4. p = <<i, k>> /\ Trim!At(new, p) = new[i][k] /\ Trim!At(l, p) = l[i][k]
    BY <2>1, <2>2 DEF Trim!At
  <2> QED
    BY <2>3, <2>4, Zenon
<1> QED
  BY <1>0, <1>5, <1>6, <1>7

\* A stale snapshot goes, is marked, or stays with the call that made it stale; a trim
\* takes no snapshot that is fresh and worth keeping.
LEMMA TrimLeaves ==
  ASSUME NEW l, Conversation(l), NEW v, NEW u, Dated(l, v, u),
         NEW last \in {Trim!LastRound(l), Trim!LastRound(l) + 1}
  PROVE  LET new == Trim!Freshened(l, last) IN
         /\ Conversation(new) /\ Dated(new, v, u) /\ Cleaned(new)
         /\ \A q \in Trim!Places(l) :
              Trim!IsRead(Trim!At(l, q)) /\ ~Trim!OutOfDate(l, q) /\ Trim!Protected(l, q) =>
                \E r \in Trim!Places(new) : Trim!At(new, r) = Trim!At(l, q)
<1>1. PICK new : new = Trim!Freshened(l, last)
  OBVIOUS
<1>2. /\ Conversation(new)
      /\ \A p : p \in Trim!Places(new) <=> p \in Trim!Places(l) /\ p[1] \notin Trim!Dropped(l, last)
      /\ \A p \in Trim!Places(new) :
           Trim!At(new, p) = IF p \in Trim!Marked(l, last)
                             THEN [Trim!At(l, p) EXCEPT !.marker = TRUE] ELSE Trim!At(l, p)
  BY <1>1, LeftIs
<1>3. \A p \in Trim!Places(new) : Trim!Changed(Trim!At(new, p)) = Trim!Changed(Trim!At(l, p))
  BY <1>2, MarkedChanges
<1>4. \A p \in Trim!Places(l) : Trim!At(l, p) \in ReadEntry
  BY PlacesAre DEF Conversation, Trim!At
<1>5. ASSUME NEW p \in Trim!Places(new), Shows(new, p)
      PROVE  /\ p \in Trim!Places(l) /\ Trim!At(new, p) = Trim!At(l, p) /\ Shows(l, p)
             /\ p[1] < last => ~Trim!Stale(l, p)
             /\ Trim!Stale(new, p) => Trim!Stale(l, p)
  <2>1. p \in Trim!Places(l) /\ p[1] \notin Trim!Dropped(l, last)
    BY <1>2
  <2>2. p \notin Trim!Marked(l, last)
    <3>1. [Trim!At(l, p) EXCEPT !.marker = TRUE].marker
      BY <1>4, <2>1 DEF ReadEntry
    <3> QED
      BY <1>2, <1>5, <3>1, Zenon DEF Shows
  <2>3. Trim!At(new, p) = Trim!At(l, p) /\ Shows(l, p)
    BY <1>2, <1>5, <2>2 DEF Shows
  <2>4. p \notin Trim!Due(l, last)
    BY <2>1, <2>2 DEF Trim!Dropped
  <2>5. p[1] < last => ~Trim!Stale(l, p)
    BY <2>1, <2>3, <2>4 DEF Trim!Due, Trim!OutOfDate, Shows
  <2>6. Trim!Stale(new, p) => Trim!Stale(l, p)
    BY <1>2, <1>3, <2>3 DEF Trim!Stale
  <2> QED
    BY <2>1, <2>3, <2>5, <2>6
<1>6. /\ Trim!LastRound(l) \in Nat /\ \A i \in DOMAIN l : i \in Nat \ {0} /\ i <= Trim!LastRound(l)
  BY LastIs
<1>7. ASSUME NEW p \in Trim!Places(new), Shows(new, p), ~(p[1] < last), Trim!Stale(l, p)
      PROVE  Trim!Stale(new, p)
  <2>1. PICK q \in Trim!Places(l) : Trim!Later(q, p) /\ Trim!At(l, p).file \in Trim!Changed(Trim!At(l, q))
    BY <1>7 DEF Trim!Stale
  <2>2. p[1] \in DOMAIN l /\ q[1] \in DOMAIN l
    BY <1>5, <1>7, PlacesAre
  <2>3. q[1] = p[1]
    BY <1>6, <1>7, <2>1, <2>2 DEF Trim!Later
  <2>4. q \in Trim!Places(new)
    BY <1>2, <2>3
  <2>5. Trim!At(new, p).file \in Trim!Changed(Trim!At(new, q))
    BY <1>3, <1>5, <1>7, <2>1, <2>4
  <2> QED
    BY <2>1, <2>4, <2>5 DEF Trim!Stale
<1>8. Dated(new, v, u)
  <2>1. SUFFICES ASSUME NEW p \in Trim!Places(new), Shows(new, p), Trim!At(new, p).ok
        PROVE  \/ Trim!At(new, p).seen = v[Trim!At(new, p).file]
               \/ Trim!At(new, p).file \in u \/ Trim!Stale(new, p)
    BY DEF Dated
  <2>2. \/ Trim!At(l, p).seen = v[Trim!At(l, p).file] \/ Trim!At(l, p).file \in u
        \/ Trim!Stale(l, p)
    BY <1>5, <2>1 DEF Dated
  <2> QED
    BY <1>5, <1>7, <2>1, <2>2
<1>9. Cleaned(new)
  <2>1. SUFFICES ASSUME NEW p \in Trim!Places(new), p[1] < Trim!LastRound(new), Shows(new, p)
        PROVE  ~Trim!Stale(new, p)
    BY DEF Cleaned
  <2>2. DOMAIN new \subseteq DOMAIN l
    <3>1. ASSUME NEW i \in DOMAIN new PROVE i \in DOMAIN l
      BY <1>1, <3>1 DEF Trim!Freshened, Trim!Kept
    <3> QED
      BY <3>1
  <2>3. Trim!LastRound(new) \in Nat /\ Trim!LastRound(new) <= Trim!LastRound(l)
    <3>1. Trim!LastRound(new) \in Nat /\ (DOMAIN new # {} => Trim!LastRound(new) \in DOMAIN new)
      BY <1>2, LastIs
    <3>2. DOMAIN new = {} => Trim!LastRound(new) = 0
      BY DEF Trim!LastRound
    <3>3. CASE DOMAIN new = {}
      BY <1>6, <3>2, <3>3
    <3>4. CASE DOMAIN new # {}
      <4>1. Trim!LastRound(new) \in DOMAIN l
        BY <2>2, <3>1, <3>4
      <4> QED
        BY <1>6, <3>1, <4>1
    <3> QED
      BY <3>3, <3>4, Zenon
  <2>4. p[1] \in Nat
    BY <1>5, <1>6, <2>1, PlacesAre
  <2>5. p[1] < last
    BY <1>6, <2>1, <2>3, <2>4
  <2> QED
    BY <1>5, <2>1, <2>5
<1>10. ASSUME NEW q \in Trim!Places(l), Trim!IsRead(Trim!At(l, q)), ~Trim!OutOfDate(l, q), Trim!Protected(l, q)
       PROVE  \E r \in Trim!Places(new) : Trim!At(new, r) = Trim!At(l, q)
  <2>1. q \notin Trim!Due(l, last)
    BY <1>10 DEF Trim!Due
  <2>2. q \notin Trim!Marked(l, last)
    BY <2>1 DEF Trim!Marked
  <2>3. q[1] \notin Trim!Dropped(l, last)
    <3>1. SUFFICES ASSUME NEW p \in Trim!Due(l, last) \ Trim!Marked(l, last), p[1] = q[1] PROVE FALSE
      BY DEF Trim!Dropped
    <3>2. Trim!HoldsWorking(l, p[1], p)
      BY <1>10, <2>1, <3>1 DEF Trim!HoldsWorking
    <3> QED
      BY <3>1, <3>2 DEF Trim!Marked
  <2> QED
    BY <1>2, <2>2, <2>3
<1> QED
  BY <1>1, <1>2, <1>8, <1>9, <1>10

LEMMA TrimsKeeps ==
  ASSUME ReadsInv, NEW last \in {Trim!LastRound(rounds), Trim!LastRound(rounds) + 1},
         Trim!TrimsReads(last)
  PROVE  ReadsInv'
<1>1. PICK l, v, u, new :
        l = rounds /\ v = version /\ u = unlogged /\ new = Trim!Freshened(rounds, last)
  OBVIOUS
<1>2. /\ rounds' = new /\ judged' = Trim!LastRound(new) /\ version' = v /\ unlogged' = u
      /\ lost' = lost \cup {Trim!At(l, p).file : p \in {q \in Trim!Places(l) :
           /\ Trim!IsRead(Trim!At(l, q)) /\ Trim!At(l, q).ok
           /\ ~Trim!OutOfDate(l, q) /\ Trim!Protected(l, q)
           /\ ~\E r \in Trim!Places(new) : Trim!At(new, r) = Trim!At(l, q)}}
  BY <1>1 DEF Trim!TrimsReads
<1>3. Conversation(l) /\ v \in [ReadFiles -> Nat] /\ Dated(l, v, u) /\ lost = {}
  BY <1>1 DEF ReadsInv
<1>4. /\ Conversation(new) /\ Dated(new, v, u) /\ Cleaned(new)
      /\ \A q \in Trim!Places(l) :
           Trim!IsRead(Trim!At(l, q)) /\ ~Trim!OutOfDate(l, q) /\ Trim!Protected(l, q) =>
             \E r \in Trim!Places(new) : Trim!At(new, r) = Trim!At(l, q)
  BY <1>1, <1>3, TrimLeaves
<1>5. lost' = {}
  BY <1>2, <1>3, <1>4
<1>6. Trim!LastRound(new) \in Nat /\ Trim!LastRound(new) <= Trim!LastRound(new)
  BY <1>4, LastIs
<1>7. Conversation(rounds') /\ Dated(rounds', version', unlogged') /\ Cleaned(rounds')
      /\ judged' = Trim!LastRound(rounds')
  BY <1>2, <1>4
<1>8. /\ Conversation(rounds)' /\ Dated(rounds, version, unlogged)' /\ Cleaned(rounds)'
      /\ judged' = Trim!LastRound(rounds)'
  BY <1>7 DEF Conversation, Dated, Cleaned, Trim!LastRound
<1>9. judged' \in Nat /\ judged' <= judged'
  BY <1>2, <1>6
<1> QED
  BY <1>2, <1>3, <1>5, <1>8, <1>9 DEF ReadsInv

LEMMA ReadsInit == ASSUME Trim!ReadsInit PROVE ReadsInv
<1>1. PICK l : l = rounds /\ l = [i \in {} |-> <<>>]
  BY DEF Trim!ReadsInit
<1>2. DOMAIN l = {}
  BY <1>1
<1>3. Trim!Places(l) = {} /\ Trim!LastRound(l) = 0
  BY <1>2 DEF Trim!Places, Trim!LastRound
<1>4. Conversation(l)
  BY <1>1, <1>2 DEF Conversation
<1>5. version \in [ReadFiles -> Nat] /\ judged = 0 /\ lost = {}
  BY DEF Trim!ReadsInit
<1>6. Dated(l, version, unlogged) /\ Cleaned(l)
  BY <1>3 DEF Dated, Cleaned
<1> QED
  BY <1>1, <1>3, <1>4, <1>5, <1>6 DEF ReadsInv

LEMMA ReadsStep == ASSUME ReadsInv, Trim!ReadsNext PROVE ReadsInv'
BY CallsKeeps, TrimsKeeps DEF Trim!ReadsNext

LEMMA ReadsStand == ASSUME ReadsInv, UNCHANGED readsVars PROVE ReadsInv'
<1>1. UNCHANGED <<rounds, version, unlogged, judged, lost>>
  BY DEF readsVars
<1>2. (Trim!LastRound(rounds))' = Trim!LastRound(rounds)
  BY <1>1 DEF Trim!LastRound
<1>3. Conversation(rounds)' /\ Dated(rounds, version, unlogged)' = Dated(rounds, version, unlogged)
      /\ Cleaned(rounds)' = Cleaned(rounds)
  BY <1>1 DEF ReadsInv, Conversation, Dated, Cleaned
<1> QED
  BY <1>1, <1>2, <1>3 DEF ReadsInv

LEMMA ReadsAreFresh == ASSUME ReadsInv PROVE Trim!FreshnessSound
<1>1. PICK l : l = rounds
  OBVIOUS
<1>2. ASSUME judged = Trim!LastRound(l), NEW p \in Trim!Places(l),
             p[1] < Trim!LastRound(l) /\ Trim!IsRead(Trim!At(l, p)) /\ Trim!At(l, p).ok /\ ~Trim!At(l, p).marker
      PROVE  Trim!At(l, p).seen = version[Trim!At(l, p).file] \/ Trim!At(l, p).file \in unlogged
  BY <1>1, <1>2 DEF ReadsInv, Dated, Cleaned, Shows
<1>3. Trim!OnlyFreshShown
  BY <1>1, <1>2 DEF Trim!OnlyFreshShown
<1> QED
  BY <1>3 DEF Trim!FreshnessSound, Trim!WorkingKept, ReadsInv

-----------------------------------------------------------------------------
(* All of what was learnt is kept.                                         *)

LEMMA MemoryStands == ASSUME MemoryInv, UNCHANGED memoryVars PROVE MemoryInv'
<1>1. UNCHANGED <<entries, memfile, saver, stale, mjob, pass, known, nextId, changes, slips>>
  BY DEF memoryVars
<1>2. MemoryTyped'
  BY <1>1 DEF MemoryInv, MemoryTyped, PassTyped, Asking, Applying
<1>3. \A w : w \in Mem!Kept(entries)' <=> w \in Mem!Kept(entries)
  BY <1>1 DEF Mem!Kept, Mem!Words, Mem!Active, Mem!Of
<1>4. Mem!NothingForgotten'
  BY <1>1, <1>3 DEF MemoryInv, Mem!NothingForgotten
<1>5. \A w : w \in Mem!Merged(pass.ids, pass.text)' <=> w \in Mem!Merged(pass.ids, pass.text)
  BY <1>1 DEF Mem!Merged, Mem!Words, Mem!Of
<1>6. MergedStays'
  BY <1>1, <1>3, <1>5 DEF MemoryInv, MergedStays
<1>7. FileFollows'
  BY <1>1 DEF MemoryInv, FileFollows, CopyIsLatest, Contents
<1> QED
  BY <1>2, <1>4, <1>5, <1>6, <1>7 DEF MemoryInv

LEMMA SkillsStand == ASSUME SkillsInv, UNCHANGED skillsVars PROVE SkillsInv'
<1>1. UNCHANGED <<skill, temp, copies, call, revert, met, dropped, saves, copied, breaks>>
  BY DEF skillsVars
<1>2. SkillsTyped'
  BY <1>1 DEF SkillsInv, SkillsTyped, SkillFile, SaveState, RevertState, SkillCopy
<1>3. ASSUME NEW n \in Skill!SkillNames, Alone(n) PROVE Alone(n)'
  BY <1>1, <1>3 DEF Alone, Progress, SavesOn, RevertsOn, CopiedText
<1> QED
  BY <1>1, <1>2, <1>3 DEF SkillsInv

LEMMA EvalsStand == ASSUME StoreInv, RunsInv, UNCHANGED evalsVars PROVE StoreInv' /\ RunsInv'
BY StoreStandsStill, RunsStandStill DEF evalsVars, Golden!storeVars, Golden!runVars

\* While the memory, the skills, the evals or the reads are looked at, so is theirs.
KnowledgeHeld ==
  /\ part = "memory" => MemoryInv
  /\ part = "skills" => SkillsInv
  /\ part = "evals" => StoreInv /\ RunsInv
  /\ part = "reads" => ReadsInv

\* What the agents learnt is kept. What was remembered is still held, by a memory that
\* says it too, until somebody chose to drop it, and the file follows (MemoryManager). A
\* skill's text that a save replaces is in its history, and no half-written one is loaded
\* (skills). The evals saved are in the file unless two writers met, and a run of them
\* logs and counts each eval once (EvalStore, run_eval). A trim leaves no file read before
\* the last round that a reported change made stale, and takes none that is fresh and
\* worth keeping (filestate). For any number of contents, batches, agents, skills, saves,
\* copies, evals, runs, files, calls and failures.
THEOREM KnowledgeIsKept == Spec => []KnowledgeKept
<1>1. Init => KnowledgeHeld
  BY MemoryInit, SkillsInit, EvalsInit, ReadsInit DEF Init, KnowledgeHeld
<1>2. ASSUME KnowledgeHeld, [Next]_vars PROVE KnowledgeHeld'
  <2>1. part' = part
    BY <1>2 DEF Next, vars
  <2>2. ASSUME part = "memory" PROVE MemoryInv'
    <3>1. Mem!Next \/ UNCHANGED memoryVars
      BY <1>2, <2>2 DEF Next, vars
    <3> QED
      BY <1>2, <2>2, <3>1, MemoryStep, MemoryStands DEF KnowledgeHeld
  <2>3. ASSUME part = "skills" PROVE SkillsInv'
    <3>1. Skill!Next \/ UNCHANGED skillsVars
      BY <1>2, <2>3 DEF Next, vars
    <3> QED
      BY <1>2, <2>3, <3>1, SkillsStep, SkillsStand DEF KnowledgeHeld
  <2>4. ASSUME part = "evals" PROVE StoreInv' /\ RunsInv'
    <3>1. Golden!Next \/ UNCHANGED evalsVars
      BY <1>2, <2>4 DEF Next, vars
    <3> QED
      BY <1>2, <2>4, <3>1, EvalsStep, EvalsStand DEF KnowledgeHeld
  <2>5. ASSUME part = "reads" PROVE ReadsInv'
    <3>1. Trim!ReadsNext \/ UNCHANGED readsVars
      BY <1>2, <2>5 DEF Next, vars
    <3> QED
      BY <1>2, <2>5, <3>1, ReadsStep, ReadsStand DEF KnowledgeHeld
  <2> QED
    BY <2>1, <2>2, <2>3, <2>4, <2>5 DEF KnowledgeHeld
<1>3. KnowledgeHeld => KnowledgeKept
  BY MemoryIsSound, SkillsAreSound, EvalsAreSound, ReadsAreFresh DEF KnowledgeHeld, KnowledgeKept
<1> QED
  BY <1>1, <1>2, <1>3, PTL DEF Spec

-----------------------------------------------------------------------------

\* While the metrics log is looked at, its invariant holds.
LogHeld == part = "metrics" => LogInv

\* Every report on the metrics counts each run at most once, and as long as no day's file
\* is torn and no older day waits for its roll-up, each run whose line was written, with
\* its trim; for any number of sessions, runs, days, failed writes and crashes, and every
\* retention (MetricsLog::append, maybe_daily_rollup, load_rollups_in).
THEOREM RunsAreCounted == Spec => []CountsRight
<1>1. Init => LogHeld
  BY LogInit DEF Init, LogHeld
<1>2. ASSUME LogHeld, [Next]_vars PROVE LogHeld'
  <2>1. part' = part
    BY <1>2 DEF Next, vars
  <2>2. CASE part # "metrics"
    BY <2>1, <2>2 DEF LogHeld
  <2>3. CASE part = "metrics"
    <3>1. [Log!Next]_(Log!metricsVars)
      BY <1>2, <2>3 DEF Next, vars, metricsVars, Log!metricsVars
    <3>2. LogInv'
      BY <1>2, <2>3, <3>1, LogStep DEF LogHeld
    <3> QED
      BY <3>2 DEF LogHeld
  <2> QED
    BY <2>2, <2>3
<1>3. LogHeld => CountsRight
  BY NeverCountedTwice, ReportsAreExact DEF LogHeld, CountsRight, Log!MetricsSound
<1> QED
  BY <1>1, <1>2, <1>3, PTL DEF Spec

=============================================================================

------------------------------ MODULE Improvement ------------------------------
(***************************************************************************)
(* When an agent is reviewed: improvement_state.json counts the finished   *)
(* tasks of every agent since its last improvement check, and the streak   *)
(* of checks that found nothing; both gates of an automatic check read it  *)
(* (memory/manager/improvement.rs), the engine counts and checks after     *)
(* every task, and the run_self_improvement tool and the panel's button    *)
(* check on demand, each on a thread of its own. The file is read, changed *)
(* and written back through one temporary file, without a lock.            *)
(***************************************************************************)
EXTENDS Naturals, FiniteSets

CONSTANTS
  Agents,        \* profiles
  Actors,        \* threads that end tasks or run checks
  Cooldown,      \* improvement_cooldown_tasks, at least 1
  MinInterval,   \* improvement_min_interval_hours, 0 when off
  MaxTasks,      \* bound: tasks and on-demand checks that begin
  MaxTime,       \* bound: times at which a lesson is saved or a check is recorded
  MaxFaults      \* bound: writes that fail, and crashes

VARIABLES
  doc,      \* improvement_state.json: a state for each agent, or Torn
  tmp,      \* improvement_state.json.tmp: a document, Torn, or None
  lesson,   \* when the newest lesson that counts for an agent was saved, 0: never
  news,     \* what became of that lesson: new, tried by a check, or saved during one
  now,      \* the clock
  actor,    \* what each thread is doing
  truth,    \* what the document would say if every update that was written counted
  raced,    \* two updates overlapped and some thread is still at one
  begun, faults

improvementVars == <<doc, tmp, lesson, news, now, actor, truth, raced, begun, faults>>

\* An empty file that was to be filled, and no file.
Torn == [x \in {} |-> 0]
None == [x \in {"none"} |-> 0]
Fresh == [last |-> 0, runs |-> 0, streak |-> 0, judged |-> FALSE]
Default == [a \in Agents |-> Fresh]
Idle == [pc |-> "idle"]

\* Checks that find nothing make the next one rarer, up to four times rarer.
Multiplier(streak) == IF streak <= 1 THEN 1 ELSE IF streak >= 4 THEN 4 ELSE streak

Enough(state, time) ==
  /\ state.runs >= Cooldown * Multiplier(state.streak)
  /\ state.last = 0 \/ MinInterval = 0 \/ time - state.last >= MinInterval

\* The lesson gate: a lesson newer than the last check, or any when there was none.
News(state, a) == lesson[a] > state.last

\* What load_state_doc makes of the file.
Read(file) == IF file = Torn THEN Default ELSE file

(* ---- one update of the document: load, change, write, rename ---- *)

\* record_agent_task_completed, record_effect_verdict, record_agent_improvement_check.
Changed(state, op, time) ==
  CASE op = "count" -> [state EXCEPT !.runs = @ + 1]
    [] op = "judge" -> [state EXCEPT !.judged = TRUE]
    [] op = "found" -> [state EXCEPT !.last = time, !.runs = 0, !.streak = 0]
    [] op = "empty" -> [state EXCEPT !.last = time, !.runs = 0,
                                     !.streak = IF @ < 4 THEN @ + 1 ELSE 4]

Saving(p) == actor[p].pc \in {"loaded", "writing", "filled"}
Others(p) == {q \in Actors \ {p} : Saving(q)}

\* An open temporary file is followed by the threads that write it when it moves.
Moved(acts, from, to) ==
  [q \in Actors |-> IF acts[q].pc = "writing" /\ acts[q].at = from
                    THEN [acts[q] EXCEPT !.at = to] ELSE acts[q]]

\* The thread begins an update: the file is read, and the change made in memory.
Load(p, a, kind, op) ==
  /\ actor' = [actor EXCEPT ![p] =
       [pc |-> "loaded", agent |-> a, kind |-> kind, op |-> op, time |-> now,
        copy |-> [Read(doc) EXCEPT ![a] = Changed(@, op, now)]]]
  /\ raced' = (raced \/ Others(p) # {})

\* Where the thread goes on when its update is over, well or badly.
After(a) ==
  CASE a.op = "count" -> [pc |-> "gate", agent |-> a.agent, kind |-> a.kind]
    [] a.op = "judge" -> [pc |-> "asking", agent |-> a.agent, kind |-> a.kind]
    [] OTHER -> Idle

\* Nobody saves any more: what overlapped is over, and the document is what counts.
Settled(acts) == \A q \in Actors : acts[q].pc \notin {"loaded", "writing", "filled"}
Settle(counted) ==
  /\ raced' = (raced /\ ~Settled(actor'))
  /\ truth' = IF raced /\ Settled(actor') THEN Read(doc') ELSE counted

\* Wrong: the document is written in place.
InPlaceVariant(p) ==
  /\ actor[p].pc = "loaded"
  /\ doc' = Torn
  /\ actor' = [actor EXCEPT ![p] =
       [pc |-> "writing", at |-> "doc", agent |-> @.agent, kind |-> @.kind, op |-> @.op,
        time |-> @.time, copy |-> @.copy]]
  /\ UNCHANGED <<tmp, lesson, news, now, truth, raced, begun, faults>>

\* fs::write creates or empties the temporary file first.
Opens(p) ==
  /\ actor[p].pc = "loaded"
  /\ tmp' = Torn
  /\ actor' = [actor EXCEPT ![p] =
       [pc |-> "writing", at |-> "tmp", agent |-> @.agent, kind |-> @.kind, op |-> @.op,
        time |-> @.time, copy |-> @.copy]]
  /\ UNCHANGED <<doc, lesson, news, now, truth, raced, begun, faults>>

\* ... and fills the file it opened, wherever that file is by now.
Fills(p) ==
  /\ actor[p].pc = "writing"
  /\ tmp' = IF actor[p].at = "tmp" THEN actor[p].copy ELSE tmp
  /\ doc' = IF actor[p].at = "doc" THEN actor[p].copy ELSE doc
  /\ actor' = [actor EXCEPT ![p].pc = "filled"]
  /\ UNCHANGED <<lesson, news, now, truth, raced, begun, faults>>

\* The rename, which finds no file when another thread moved or removed it.
Renames(p) ==
  LET mine == actor[p] IN
  /\ mine.pc = "filled"
  /\ IF tmp = None
     THEN UNCHANGED <<doc, tmp>> /\ actor' = [actor EXCEPT ![p] = After(mine)]
     ELSE /\ doc' = tmp
          /\ tmp' = None
          /\ actor' = [Moved(Moved(actor, "doc", "gone"), "tmp", "doc")
                         EXCEPT ![p] = After(mine)]
  /\ Settle(IF raced THEN truth
            ELSE [truth EXCEPT ![mine.agent] = Changed(@, mine.op, mine.time)])
  /\ UNCHANGED <<lesson, news, now, begun, faults>>

\* A write or a rename fails: the temporary file is removed and nobody is told.
SaveFails(p) ==
  /\ Saving(p) /\ faults < MaxFaults
  /\ tmp' = None
  /\ actor' = [Moved(actor, "tmp", "gone") EXCEPT ![p] = After(actor[p])]
  /\ faults' = faults + 1
  /\ doc' = doc
  /\ Settle(truth)
  /\ UNCHANGED <<lesson, news, now, begun>>

(* ---- the checks ---- *)

\* post_task_maintenance: a task of agent a ends, and is counted.
TaskEnds(p, a) ==
  /\ actor[p].pc = "idle" /\ begun < MaxTasks
  /\ begun' = begun + 1
  /\ Load(p, a, "auto", "count")
  /\ UNCHANGED <<doc, tmp, lesson, news, now, truth, faults>>

\* The tool or the button asks for a check of agent a, past both gates.
AsksForCheck(p, a) ==
  /\ actor[p].pc = "idle" /\ begun < MaxTasks
  /\ begun' = begun + 1
  /\ actor' = [actor EXCEPT ![p] = [pc |-> "judging", agent |-> a, kind |-> "demand"]]
  /\ UNCHANGED <<doc, tmp, lesson, news, now, truth, raced, faults>>

\* agent_improvement_due and has_new_agent_improvement_evidence: enough tasks, enough
\* time, and a lesson or a worse metric (which only an agent that was checked can have).
Gate(p) ==
  LET mine == actor[p]
      state == Read(doc)[mine.agent] IN
  /\ mine.pc = "gate"
  /\ \E regressed \in BOOLEAN :
       /\ regressed => state.last > 0
       /\ actor' = [actor EXCEPT ![p] =
            IF Enough(state, now) /\ (News(state, mine.agent) \/ regressed)
            THEN [pc |-> "judging", agent |-> mine.agent, kind |-> "auto"] ELSE Idle]
  /\ UNCHANGED <<doc, tmp, lesson, news, now, truth, raced, begun, faults>>

\* effect_check_section: with a change applied and runs enough since, a verdict is
\* recorded before the model is asked; without, nothing is.
Judges(p) ==
  LET mine == actor[p] IN
  /\ mine.pc = "judging"
  /\ \/ /\ Load(p, mine.agent, mine.kind, "judge")
     \/ /\ actor' = [actor EXCEPT ![p].pc = "asking"]
        /\ raced' = raced
  /\ UNCHANGED <<doc, tmp, lesson, news, now, truth, begun, faults>>

\* Wrong: a check on demand that failed or timed out is recorded as well.
RecordsVariant(kind, outcome) == outcome # "panic"
\* Which outcomes are recorded: an automatic check after every attempt, one on demand
\* only when it ran to its term. A panic in the parser ends the thread.
Recorded(kind, outcome) ==
  outcome # "panic" /\ (kind = "demand" => outcome # "error")

\* suggest_improvements returns. Too few lessons are an empty answer without a call.
Answers(p, outcome) ==
  LET mine == actor[p] IN
  /\ mine.pc = "asking"
  /\ now < MaxTime
  /\ now' = now + 1
  /\ IF Recorded(mine.kind, outcome)
     THEN /\ actor' = [actor EXCEPT ![p] =
               [pc |-> "recording", agent |-> mine.agent, kind |-> mine.kind,
                op |-> IF outcome = "found" THEN "found" ELSE "empty"]]
     ELSE actor' = [actor EXCEPT ![p] = Idle]
  /\ news' = [news EXCEPT ![mine.agent] =
       IF @ = "new" /\ outcome # "panic" /\ (outcome = "error" => mine.kind = "auto")
       THEN "tried" ELSE @]
  /\ UNCHANGED <<doc, tmp, lesson, truth, raced, begun, faults>>

\* record_agent_improvement_check reads the file again.
Records(p) ==
  /\ actor[p].pc = "recording"
  /\ Load(p, actor[p].agent, actor[p].kind, actor[p].op)
  /\ UNCHANGED <<doc, tmp, lesson, news, now, truth, begun, faults>>

Checking(p, a) ==
  /\ actor[p].pc # "idle" /\ actor[p].agent = a
  /\ \/ actor[p].pc \in {"judging", "asking", "recording"}
     \/ Saving(p) /\ actor[p].op # "count"

\* A lesson about an agent, or about none, is saved.
Lesson(a) ==
  /\ now < MaxTime
  /\ now' = now + 1
  /\ lesson' = [lesson EXCEPT ![a] = now']
  /\ news' = [news EXCEPT ![a] = IF \E p \in Actors : Checking(p, a) THEN "during" ELSE "new"]
  /\ UNCHANGED <<doc, tmp, actor, truth, raced, begun, faults>>

\* The process dies and starts again; the files are what they are.
Crashes ==
  /\ faults < MaxFaults
  /\ faults' = faults + 1
  /\ actor' = [p \in Actors |-> Idle]
  /\ UNCHANGED <<doc, tmp>>
  /\ Settle(truth)
  /\ UNCHANGED <<lesson, news, now, begun>>

Init ==
  /\ doc = Default
  /\ tmp = None
  /\ lesson = [a \in Agents |-> 0]
  /\ news = [a \in Agents |-> "none"]
  /\ now = 0
  /\ actor = [p \in Actors |-> Idle]
  /\ truth = Default
  /\ raced = FALSE
  /\ begun = 0
  /\ faults = 0

Next ==
  \/ \E p \in Actors :
       \/ \E a \in Agents : TaskEnds(p, a) \/ AsksForCheck(p, a)
       \/ Opens(p) \/ Fills(p) \/ Renames(p) \/ SaveFails(p)
       \/ Gate(p) \/ Judges(p) \/ Records(p)
       \/ \E o \in {"found", "empty", "error", "panic"} : Answers(p, o)
  \/ \E a \in Agents : Lesson(a)
  \/ Crashes

-----------------------------------------------------------------------------
\* The file counts every update that was written, of every agent, whatever fails and
\* wherever the process dies, unless two updates overlap; and even then it can be read
\* again once nobody writes it.
CountsExact ==
  /\ ~raced => Read(doc) = truth
  /\ (\A p \in Actors : ~Saving(p)) => (doc # Torn \/ faults > 0)

\* A lesson is behind the baseline of its agent only when a check tried it, or was under
\* way when it was saved: a check on demand that fails leaves the gate as it was.
LessonsGetTheirCheck ==
  ~raced => \A a \in Agents : truth[a].last >= lesson[a] => news[a] # "new"

ImproveSound == CountsExact /\ LessonsGetTheirCheck

=============================================================================

--------------------------------- MODULE Evals ---------------------------------
(***************************************************************************)
(* The evals of one agent, "a": saved and deleted by tools of agents that  *)
(* run at the same time, run by the run_eval tool of an agent or by the    *)
(* button of the agent dialog, which may be closed, opened again, or moved *)
(* to another agent "b" (without evals) while its run goes on.             *)
(***************************************************************************)
EXTENDS Naturals, Sequences, FiniteSets

CONSTANTS
  Savers,         \* agents whose tools save and delete evals
  Names,          \* the ids of evals
  MaxDeeds        \* bound: saves, deletes and runs

\* An eval: its text, and the cap on tool calls (0: none).
NoEval == [text |-> 0, cap |-> 0]
Evals == [text : 1..MaxDeeds, cap : {0, 1}]
Empty == [n \in Names |-> NoEval]
NoTemp == [n \in Names |-> [text |-> 0, cap |-> 2]]
Resting == [pc |-> "idle", name |-> "none", eval |-> NoEval, held |-> Empty]
Saved(f) == {n \in Names : f[n] # NoEval}

VARIABLES
  evals,       \* the file, per id
  temp,        \* the temporary file
  saver,       \* per agent: its save or delete
  owed,        \* per id: what the file owes to whom was told of a success
  clashed,     \* two writers met
  rounds,      \* the runs: who started it, the snapshot, what is left, the counts
  metric,      \* the Eval lines of the metrics
  dialog,      \* the dialog: open, the agent selected, its running flag, the status shown
  done,        \* EvalsRunFinished events on their way
  reopened,    \* the dialog was closed during a run of its button
  writes

evalVars == <<evals, temp, saver, owed, clashed, rounds, metric, dialog, done, reopened, writes>>
runVars == <<rounds, metric, dialog, done, reopened>>
storeVars == <<evals, temp, saver, owed, clashed, writes>>

(* ---- EvalStore: read, change, write the temporary file, rename ---- *)

Busy(s) == \E o \in Savers \ {s} : saver[o].pc # "idle"

\* Wrong: save only appends, and an eval that is there is not replaced.
AppendOnlyVariant(f, n, e) == IF f[n] = NoEval THEN [f EXCEPT ![n] = e] ELSE f
Upserted(f, n, e) == [f EXCEPT ![n] = e]

\* A delete of what the file does not hold writes nothing.
WriteBegins(s, n, e) ==
  /\ saver[s] = Resting /\ writes + Len(rounds) < MaxDeeds
  /\ writes' = writes + 1
  /\ clashed' = (clashed \/ Busy(s))
  /\ saver' = IF e = NoEval /\ evals[n] = NoEval THEN saver
              ELSE [saver EXCEPT ![s] = [pc |-> "read", name |-> n, eval |-> e,
                                         held |-> Upserted(evals, n, e)]]
  /\ UNCHANGED <<evals, temp, owed, runVars>>

WritesTemp(s) ==
  /\ saver[s].pc = "read"
  /\ temp' = saver[s].held
  /\ saver' = [saver EXCEPT ![s].pc = "written"]
  /\ UNCHANGED <<evals, owed, clashed, writes, runVars>>

\* The rename fails when another writer renamed the file away; then the call reports a failure.
Renames(s) ==
  /\ saver[s].pc = "written"
  /\ saver' = [saver EXCEPT ![s] = Resting]
  /\ IF temp = NoTemp THEN UNCHANGED <<evals, temp, owed>>
     ELSE /\ evals' = temp /\ temp' = NoTemp
          /\ owed' = [owed EXCEPT ![saver[s].name] = saver[s].eval]
  /\ UNCHANGED <<clashed, writes, runVars>>

\* A write that fails takes the temporary file with it, and leaves the evals.
WriteFails(s) ==
  /\ saver[s].pc = "read"
  /\ temp' = NoTemp
  /\ saver' = [saver EXCEPT ![s] = Resting]
  /\ UNCHANGED <<evals, owed, clashed, writes, runVars>>

(* ---- run_eval ---- *)

\* Wrong: an eval deleted during the run is left out of it.
LiveVariant(r) == {n \in r.todo : evals[n] # NoEval}
\* The evals were listed when the run began.
Left(r) == r.todo

Round(by, chosen) ==
  [by |-> by, of |-> [n \in Names |-> IF n \in chosen THEN evals[n] ELSE NoEval],
   todo |-> chosen, passed |-> 0, failed |-> 0]

\* Nothing selected is an error, and no run.
ToolRuns(chosen) ==
  /\ writes + Len(rounds) < MaxDeeds
  /\ chosen # {} /\ (chosen = Saved(evals) \/ (Cardinality(chosen) = 1 /\ chosen \subseteq Saved(evals)))
  /\ rounds' = Append(rounds, Round("tool", chosen))
  /\ UNCHANGED <<metric, dialog, done, reopened, storeVars>>

\* The judge is not asked when the run called no tool: the answer counts as verified.
Judged(calls) == IF calls = 0 THEN {TRUE} ELSE {TRUE, FALSE}

Passes(e, verified, calls) == verified /\ ~(e.cap > 0 /\ calls > e.cap)

\* Wrong: the line of a run that ended with an error or ran out of time is left out.
AnsweredVariant(log, line, end) == IF end = "answer" THEN log \cup {line} ELSE log
Logged(log, line, end) == log \cup {line}

\* An agent of its own does the task; an error or 180 seconds make it a failure.
EvalEnds(i) ==
  LET r == rounds[i] IN
  \E end \in {"answer", "error", "timeout"}, calls \in {0, 2} :
    \E verified \in (IF end = "answer" THEN Judged(calls) ELSE {FALSE}) :
      LET n == CHOOSE x \in Left(r) : TRUE
          p == Passes(r.of[n], verified, calls) IN
      /\ Left(r) # {} /\ (end # "answer" => calls = 0)
      /\ metric' = Logged(metric, [run |-> i, name |-> n, passed |-> p], end)
      /\ rounds' = [rounds EXCEPT ![i].todo = @ \ {n},
                                  ![i].passed = @ + (IF p THEN 1 ELSE 0),
                                  ![i].failed = @ + (IF p THEN 0 ELSE 1)]
      /\ UNCHANGED <<dialog, done, reopened, storeVars>>

\* The table goes to the model, or from the dialog's thread as an event to the window.
RoundEnds(i) ==
  /\ rounds[i].by # "gone" /\ Left(rounds[i]) = {}
  /\ rounds' = [rounds EXCEPT ![i].by = "gone"]
  /\ done' = IF rounds[i].by = "dialog" THEN Append(done, i) ELSE done
  /\ UNCHANGED <<metric, dialog, reopened, storeVars>>

(* ---- the agent dialog ---- *)

Closed == [open |-> FALSE, agent |-> "none", running |-> FALSE, status |-> "none"]
Opened == [open |-> TRUE, agent |-> "none", running |-> FALSE, status |-> "none"]
Working == {i \in DOMAIN rounds : rounds[i].by = "dialog"}

\* Wrong: the flag is set by the run's first event, not by the click.
UnflaggedVariant(d) == [d EXCEPT !.status = "running"]
Started(d) == [d EXCEPT !.running = TRUE, !.status = "running"]

\* draw_evals offers the button, start_eval_run starts the thread.
ButtonRuns ==
  /\ dialog.open /\ dialog.agent = "a" /\ ~dialog.running
  /\ Saved(evals) # {} /\ writes + Len(rounds) < MaxDeeds
  /\ rounds' = Append(rounds, Round("dialog", Saved(evals)))
  /\ dialog' = Started(dialog)
  /\ UNCHANGED <<metric, done, reopened, storeVars>>

\* EvalsRunFinished goes to whatever dialog is open, whichever agent it shows.
Finished ==
  /\ done # <<>> /\ done' = Tail(done)
  /\ dialog' = IF dialog.open THEN [dialog EXCEPT !.running = FALSE, !.status = "result"] ELSE dialog
  /\ UNCHANGED <<rounds, metric, reopened, storeVars>>

Selects(a) ==
  /\ dialog.open /\ dialog.agent # a
  /\ dialog' = [dialog EXCEPT !.agent = a, !.status = "none"]
  /\ UNCHANGED <<rounds, metric, done, reopened, storeVars>>

OpensOrCloses ==
  /\ dialog' = IF dialog.open THEN Closed ELSE Opened
  /\ reopened' = (reopened \/ Working # {} \/ done # <<>>)
  /\ UNCHANGED <<rounds, metric, done, storeVars>>

Init ==
  /\ evals = Empty /\ temp = NoTemp /\ saver = [s \in Savers |-> Resting]
  /\ owed = Empty /\ clashed = FALSE /\ rounds = <<>> /\ metric = {}
  /\ dialog = Closed /\ done = <<>> /\ reopened = FALSE /\ writes = 0

Next ==
  \/ \E s \in Savers :
       \/ \E n \in Names, e \in {NoEval} \cup {x \in Evals : x.text = writes + 1} : WriteBegins(s, n, e)
       \/ WritesTemp(s) \/ Renames(s) \/ WriteFails(s)
  \/ \E chosen \in SUBSET Names : ToolRuns(chosen)
  \/ \E i \in DOMAIN rounds : EvalEnds(i) \/ RoundEnds(i)
  \/ ButtonRuns \/ Finished \/ OpensOrCloses
  \/ \E a \in {"a", "b"} : Selects(a)

Spec == Init /\ [][Next]_evalVars

-----------------------------------------------------------------------------
\* A save or delete reported done is what the file says, whatever failed in between,
\* as long as no two writers met: they read, change and write without a lock.
EvalsKept == clashed \/ evals = owed

\* The table of a run, the lines it logs and the evals it began with agree: each eval
\* has one line, also when it failed, ran out of time or was deleted meanwhile.
LinesOf(i) == {k \in metric : k.run = i}
RunsAccounted ==
  \A i \in DOMAIN rounds :
    LET passing == {k \in LinesOf(i) : k.passed} IN
    rounds[i].by = "gone" =>
      /\ {k.name : k \in LinesOf(i)} = Saved(rounds[i].of)
      /\ Cardinality(LinesOf(i)) = rounds[i].passed + rounds[i].failed
      /\ Cardinality(passing) = rounds[i].passed

\* One run of the button at a time, and the dialog says so until its result is there;
\* unless the dialog was closed meanwhile, which forgets the flag.
ButtonHonest == reopened \/ (/\ Cardinality(Working) + Len(done) <= 1
                             /\ dialog.running = (Working # {} \/ done # <<>>))

EvalsSound == EvalsKept /\ RunsAccounted /\ ButtonHonest

\* Stated, and not so: "a manual eval result belongs to the previously selected agent;
\* don't show it under the new selection" (select_agent): a result that arrives after
\* the selection is shown under the new agent.
ResultUnderOwn == dialog.status = "result" => dialog.agent = "a"

=============================================================================

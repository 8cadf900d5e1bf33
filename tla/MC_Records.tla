------------------------------ MODULE MC_Records ------------------------------
(***************************************************************************)
(* What the agents keep, side by side: profiles, the improvement loop and  *)
(* its queue, memory, metrics, skills, evals, what a trim leaves           *)
(* of a conversation. Each behaviour is one of one part, the variable part *)
(* says which. The parts share no state in these modules.                  *)
(***************************************************************************)
EXTENDS Naturals, Sequences, FiniteSets

CONSTANTS
  NoProfile, Agents, Actors, Topics, Versions, Texts, Writers, Runs,
  Callers, HISTORY_SNAPSHOTS_KEEP, MaxTexts, MaxStamps, Cooldown,
  MinInterval, MaxTasks, MaxTime, MaxFaults, MaxBatches, MaxEntries,
  BatchSize, MaxIds, MaxChanges, MaxActions, Retention, MaxHalves, MaxLogged,
  MaxCuts, SkillHistory, MaxSaves, MaxCopies, MaxBreaks, Savers, EvalNames,
  MaxDeeds, ReadFiles, Large, MaxCalls, MaxTrims, NOTES_MAX_ITEMS,
  LIST_MAX_ITEMS, UserTexts, NoteIds, BriefItems, MaxMessages

\* Settings without a sign, and bounds.
ASSUME BoundAssumption == {Retention, MaxHalves, MaxTexts, MaxStamps} \subseteq Nat
ASSUME KeepAssumption == {HISTORY_SNAPSHOTS_KEEP, SkillHistory} \subseteq Nat \ {0}

VARIABLES part,
  disk, oddFirst, texts, stamps, ptool, editor, panel, gone, unseen,
  doc, tmp, lesson, news, now, actor, truth, raced, begun, upsets,
  queue, store, damaged, inbox, checking, thread, past, deciding, reverted,
  owed, unsaved, batches, faults,
  entries, memfile, saver, stale, mjob, pass, known, nextId, changes, slips,
  log, tail, rolled, marker, clock, writing, job, kept, logged, cuts,
  skill, temp, copies, call, revert, met, dropped, saves, copied, breaks,
  evals, etemp, esaver, eowed, clashed, erounds, metric, dialog, done,
  reopened, writes,
  rounds, version, unlogged, judged, lost, called, trims,
  list, notes, brief, swept, folded, told, shrunk, said, sweeps

Prompts == INSTANCE Profiles WITH
  None <- NoProfile
Improve == INSTANCE Improvement WITH
  Agents <- {"a"}, faults <- upsets
Review == INSTANCE ReviewQueue
Mem == INSTANCE Memory WITH
  disk <- memfile, job <- mjob, faults <- slips
Log == INSTANCE Metrics
Skill == INSTANCE Skills WITH
  part <- temp, Kept <- SkillHistory
Golden == INSTANCE Evals WITH
  temp <- etemp, owed <- eowed, saver <- esaver, rounds <- erounds,
  Names <- EvalNames

\* What the assistant says in this instance: lists that repeat an item, short and long
\* paths written again, a round of calls alone.
Line(section, text) == <<section, text>>
Spoken == {
  [lines |-> <<Line("completed", 1), Line("completed", 2)>>, paths |-> <<"short">>],
  [lines |-> <<Line("completed", 1), Line("completed", 3)>>, paths |-> <<"long", "short">>],
  [lines |-> <<Line("decisions", 1), Line("next", 2)>>, paths |-> <<>>],
  [lines |-> <<Line("next", 1), Line("none", 3)>>, paths |-> <<"other", "long">>],
  [lines |-> <<>>, paths |-> <<"short">>]}
Trim == INSTANCE Trimming WITH
  Files <- ReadFiles, Sayings <- Spoken, Paths <- {"short", "long", "other"}, LongPaths <- {"long"}

\* What stands for no profile and for no agent is neither.
ASSUME NoProfileAssumption ==
  NoProfile \notin Prompts!Profile \cup Prompts!Dirs \cup Prompts!FileNames
ASSUME NobodyAssumption == Review!Nobody \notin Agents

profilesVars ==
  <<disk, oddFirst, texts, stamps, ptool, editor, panel, gone, unseen>>
improvementVars ==
  <<doc, tmp, lesson, news, now, actor, truth, raced, begun, upsets>>
reviewVars ==
  <<queue, store, damaged, inbox, checking, thread, past, deciding, reverted,
    owed, unsaved, batches, faults>>
memoryVars ==
  <<entries, memfile, saver, stale, mjob, pass, known, nextId, changes, slips>>
metricsVars ==
  <<log, tail, rolled, marker, clock, writing, job, kept, logged, cuts>>
skillsVars ==
  <<skill, temp, copies, call, revert, met, dropped, saves, copied, breaks>>
evalsVars ==
  <<evals, etemp, esaver, eowed, clashed, erounds, metric, dialog, done,
    reopened, writes>>
readsVars == <<rounds, version, unlogged, judged, lost, called, trims>>
briefVars == <<list, notes, brief, swept, folded, told, shrunk, said, sweeps>>
vars ==
  <<part, profilesVars, improvementVars, reviewVars, memoryVars, metricsVars,
    skillsVars, evalsVars, readsVars, briefVars>>

\* A part that stands still: its variables are of no interest.
Init ==
  /\ part \in {"profiles", "improvement", "review", "memory", "metrics", "skills", "evals", "reads", "brief"}
  /\ IF part = "profiles" THEN Prompts!Init
     ELSE disk = 0 /\ oddFirst = 0 /\ texts = 0 /\ stamps = 0 /\
          ptool = 0 /\ editor = 0 /\ panel = 0 /\ gone = 0 /\ unseen = 0
  /\ IF part = "improvement" THEN Improve!Init
     ELSE doc = 0 /\ tmp = 0 /\ lesson = 0 /\ news = 0 /\ now = 0 /\
          actor = 0 /\ truth = 0 /\ raced = 0 /\ begun = 0 /\ upsets = 0
  /\ IF part = "review" THEN Review!Init
     ELSE queue = 0 /\ store = 0 /\ damaged = 0 /\ inbox = 0 /\
          checking = 0 /\ thread = 0 /\ past = 0 /\ deciding = 0 /\
          reverted = 0 /\ owed = 0 /\ unsaved = 0 /\ batches = 0 /\
          faults = 0
  /\ IF part = "memory" THEN Mem!Init
     ELSE entries = 0 /\ memfile = 0 /\ saver = 0 /\ stale = 0 /\
          mjob = 0 /\ pass = 0 /\ known = 0 /\ nextId = 0 /\ changes = 0 /\
          slips = 0
  /\ IF part = "metrics" THEN Log!Init
     ELSE log = 0 /\ tail = 0 /\ rolled = 0 /\ marker = 0 /\ clock = 0 /\
          writing = 0 /\ job = 0 /\ kept = 0 /\ logged = 0 /\ cuts = 0
  /\ IF part = "skills" THEN Skill!Init
     ELSE skill = 0 /\ temp = 0 /\ copies = 0 /\ call = 0 /\ revert = 0 /\
          met = 0 /\ dropped = 0 /\ saves = 0 /\ copied = 0 /\ breaks = 0
  /\ IF part = "evals" THEN Golden!Init
     ELSE evals = 0 /\ etemp = 0 /\ esaver = 0 /\ eowed = 0 /\
          clashed = 0 /\ erounds = 0 /\ metric = 0 /\ dialog = 0 /\
          done = 0 /\ reopened = 0 /\ writes = 0
  /\ IF part = "reads" THEN Trim!ReadsInit
     ELSE rounds = 0 /\ version = 0 /\ unlogged = 0 /\ judged = 0 /\
          lost = 0 /\ called = 0 /\ trims = 0
  /\ IF part = "brief" THEN Trim!BriefInit
     ELSE list = 0 /\ notes = 0 /\ brief = 0 /\ swept = 0 /\ folded = 0 /\
          told = 0 /\ shrunk = 0 /\ said = 0 /\ sweeps = 0

Next ==
  \/ /\ part = "profiles" /\ Prompts!Next
     /\ UNCHANGED <<part, improvementVars, reviewVars, memoryVars, metricsVars,
                  skillsVars, evalsVars, readsVars, briefVars>>
  \/ /\ part = "improvement" /\ Improve!Next
     /\ UNCHANGED <<part, profilesVars, reviewVars, memoryVars, metricsVars,
                  skillsVars, evalsVars, readsVars, briefVars>>
  \/ /\ part = "review" /\ Review!Next
     /\ UNCHANGED <<part, profilesVars, improvementVars, memoryVars,
                  metricsVars, skillsVars, evalsVars, readsVars, briefVars>>
  \/ /\ part = "memory" /\ Mem!Next
     /\ UNCHANGED <<part, profilesVars, improvementVars, reviewVars,
                  metricsVars, skillsVars, evalsVars, readsVars, briefVars>>
  \/ /\ part = "metrics" /\ Log!Next
     /\ UNCHANGED <<part, profilesVars, improvementVars, reviewVars,
                  memoryVars, skillsVars, evalsVars, readsVars, briefVars>>
  \/ /\ part = "skills" /\ Skill!Next
     /\ UNCHANGED <<part, profilesVars, improvementVars, reviewVars,
                  memoryVars, metricsVars, evalsVars, readsVars, briefVars>>
  \/ /\ part = "evals" /\ Golden!Next
     /\ UNCHANGED <<part, profilesVars, improvementVars, reviewVars,
                  memoryVars, metricsVars, skillsVars, readsVars, briefVars>>
  \/ /\ part = "reads" /\ Trim!ReadsNext
     /\ UNCHANGED <<part, profilesVars, improvementVars, reviewVars,
                  memoryVars, metricsVars, skillsVars, evalsVars, briefVars>>
  \/ /\ part = "brief" /\ Trim!BriefNext
     /\ UNCHANGED <<part, profilesVars, improvementVars, reviewVars,
                  memoryVars, metricsVars, skillsVars, evalsVars, readsVars>>

Spec == Init /\ [][Next]_vars

-----------------------------------------------------------------------------

\* Prompts survive the tool, the panel and the dialog, the improvement loop counts
\* what it should, and a suggestion shown is applied or reverted as the user decided
\* (AgentManager, ImprovementState, the review queue).
PromptsKept ==
  /\ part = "profiles" => Prompts!ProfileSafe
  /\ part = "improvement" => Improve!ImproveSound
  /\ part = "review" => Review!QueueKept /\ Review!RevertsAsConfirmed

\* What was remembered stays remembered until somebody chose to drop it, a skill's
\* replaced text is in its history, the evals saved are kept and each run of them is
\* accounted for, and a trim leaves only fresh file reads, and takes none that is worked
\* on (MemoryManager, skills, EvalStore, run_eval, filestate).
KnowledgeKept ==
  /\ part = "memory" => Mem!MemorySound
  /\ part = "skills" => Skill!SkillsSound
  /\ part = "evals" => Golden!EvalsSound
  /\ part = "reads" => Trim!FreshnessSound

\* What trims drop is rolled into the brief, which fits and keeps the task and, unless it
\* was cut or rewritten, the newest of each list (SessionBrief).
BriefKept == part = "brief" => Trim!BriefSound

\* A run is counted once in the metrics, whatever is rolled up, cut off or torn
\* (MetricsLog).
CountsRight == part = "metrics" => Log!MetricsSound

=============================================================================

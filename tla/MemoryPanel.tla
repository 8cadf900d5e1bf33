------------------------------ MODULE MemoryPanel ------------------------------
(***************************************************************************)
(* What is recalled from the memory store, and the panel that shows it:    *)
(* the keyword search, the block put before a prompt (memory/search.rs,    *)
(* memory/context.rs), and the window with its list, editor, dialog and    *)
(* settings (ui/memory_panel/), while the agent's tools change the store   *)
(* underneath. How the store is saved and maintained is module Memory.     *)
(***************************************************************************)
EXTENDS Naturals, Sequences, FiniteSets

CONSTANTS
  Vocabulary,      \* words of entries and queries
  Noise,           \* those among them that no search looks at: stopwords, single letters
  Stem, Derived,   \* two of them, the first the beginning of the second
  TextLength,      \* bound: words of an entry
  Room,            \* injection_max_chars, here in words
  MaxMemories,     \* bound: entries ever made
  MaxPanelSteps,   \* bound: clicks of the user
  MaxAgentSteps,   \* bound: changes made by the agent, and entries that expire
  MaxUnsaved       \* bound: writes of the configuration that fail

VARIABLES
  memories,   \* the store: older entries have smaller ids
  settings,   \* the live configuration: enabled, mode, limit
  kept,       \* the same in config.json
  replaced,   \* settings replaced since the start, which another copy of the configuration may hold
  astray,     \* config.json was not written, or with such a copy, since the settings changed
  search,     \* the search box, the set of its words
  editor,     \* the entry the editor is open for (0: none), its text, and whose text that was
  doomed,     \* pending_delete: the entry of the dialog, 0 without one
  misplaced,  \* a text went to another entry than the one it was made from
  mistaken,   \* an entry was deleted that the dialog did not show
  nextMemory, panelSteps, agentSteps, unsaved

fileVars == <<kept, replaced, astray, unsaved>>
memoryPanelVars == <<memories, settings, fileVars, search, editor, doomed, misplaced, mistaken,
                     nextMemory, panelSteps, agentSteps>>

Texts == UNION {[1..n -> Vocabulary] : n \in 1..TextLength}
Phrases == {<<w>> : w \in Vocabulary}  \* bound: the texts typed
Modes == {"always", "smart", "off"}
Entry(id, text, tags) == [id |-> id, text |-> text, tags |-> tags, expired |-> FALSE]
ById(id) == CHOOSE e \in memories : e.id = id
MemoryIds == {e.id : e \in memories}

(* ---- search ---- *)

\* The entries that are not expired: only they are found and shown.
Live == {e \in memories : ~e.expired}

\* keyword_score_prepared: how often the words looked for are among the words of the entry
\* and its tags, and half a point for each tag that is one of them or the beginning of one.
\* The score is Points over twice Length.
Length(e) == Cardinality({i \in DOMAIN e.text : e.text[i] \notin Noise}) + Cardinality(e.tags \ Noise)
Points(e, query) ==
  LET wanted == query \ Noise
      hits == Cardinality({i \in DOMAIN e.text : e.text[i] \in wanted}) + Cardinality(e.tags \cap wanted)
      tagged == {t \in e.tags : t \in wanted \/ (t = Stem /\ Derived \in query)} IN
  IF Length(e) = 0 \/ wanted = {} THEN 0 ELSE 2 * hits + Length(e) * Cardinality(tagged)

Better(e, f, query) == Points(e, query) * Length(f) > Points(f, query) * Length(e)

\* The members of a set in the order given.
Ranked(S, Before(_, _)) ==
  [n \in 1..Cardinality(S) |->
     CHOOSE e \in S : Cardinality({f \in S \ {e} : Before(f, e)}) = n - 1]
First(n, s) == SubSeq(s, 1, IF n < Len(s) THEN n ELSE Len(s))

\* MemoryManager::search: the best first, those as good as each other in the store's order.
Found(query) ==
  LET before(e, f) == Better(e, f, query) \/ (~Better(f, e, query) /\ e.id < f.id) IN
  IF ~settings.enabled THEN <<>>
  ELSE First(settings.limit, Ranked({e \in Live : Points(e, query) > 0}, before))

\* get_recent_memories: the newest first.
Recent(n) ==
  LET newer(e, f) == e.id > f.id IN
  IF settings.enabled THEN First(n, Ranked(Live, newer)) ELSE <<>>

Size(s) == LET sum[n \in 0..Len(s)] == IF n = 0 THEN 0 ELSE sum[n - 1] + Len(s[n].text) IN sum[Len(s)]

\* Wrong: an entry that does not fit is passed over, and smaller ones behind it get in.
PassesOverVariant(s) ==
  LET taken[n \in 0..Len(s)] ==
        IF n = 0 THEN <<>>
        ELSE IF Size(taken[n - 1]) + Len(s[n].text) <= Room THEN Append(taken[n - 1], s[n])
        ELSE taken[n - 1]
  IN taken[Len(s)]
\* render_block: entries are written until one does not fit.
Fitting(s) ==
  LET fits == {n \in 0..Len(s) : Size(SubSeq(s, 1, n)) <= Room} IN
  SubSeq(s, 1, CHOOSE n \in fits : \A m \in fits : m <= n)

\* Wrong: a smart block without a hit is filled like any other.
AlwaysFillsVariant(query) ==
  IF ~settings.enabled \/ settings.mode = "off" THEN <<>>
  ELSE IF query = {} THEN Fitting(Recent(settings.limit))
  ELSE IF Found(query) # <<>> THEN Fitting(Found(query))
  ELSE Fitting(Recent(3))
\* build_context_block: what is put before a prompt.
Block(query) ==
  LET found == Found(query) IN
  IF ~settings.enabled \/ settings.mode = "off" THEN <<>>
  ELSE IF query = {} THEN Fitting(Recent(settings.limit))
  ELSE IF found # <<>> THEN Fitting(found)
  ELSE IF settings.mode = "smart" THEN <<>>
  ELSE Fitting(Recent(3))

\* The rows of the list: everything, or what the search finds.
Rows == LET found == Found(search) IN IF search = {} THEN Live ELSE {found[n] : n \in DOMAIN found}

(* ---- the agent's tools, and time ---- *)

AgentStep == agentSteps < MaxAgentSteps /\ agentSteps' = agentSteps + 1
StoreOnly == UNCHANGED <<settings, kept, replaced, astray, search, editor, doomed, misplaced,
                         mistaken, panelSteps, unsaved>>
With(e) == {IF m.id = e.id THEN e ELSE m : m \in memories}

AgentRemembers(text) ==
  /\ AgentStep
  /\ nextMemory <= MaxMemories
  /\ nextMemory' = nextMemory + 1
  /\ memories' = memories \cup {Entry(nextMemory, text, {})}
  /\ StoreOnly

AgentRewords(e, text) ==
  /\ AgentStep
  /\ memories' = With([e EXCEPT !.text = text])
  /\ StoreOnly /\ UNCHANGED nextMemory

AgentForgets(e) ==
  /\ AgentStep
  /\ memories' = memories \ {e}
  /\ StoreOnly /\ UNCHANGED nextMemory

\* is_expired: after 90 days.
GrowsOld(e) ==
  /\ AgentStep
  /\ memories' = With([e EXCEPT !.expired = TRUE])
  /\ StoreOnly /\ UNCHANGED nextMemory

(* ---- the window ---- *)

Closed == [id |-> 0, text |-> <<>>, of |-> 0]

\* One click in the window. Hiding it and showing it again changes nothing in it.
Clicks ==
  /\ panelSteps < MaxPanelSteps /\ panelSteps' = panelSteps + 1
  /\ UNCHANGED agentSteps

SearchesFor(query) ==
  /\ Clicks
  /\ query # search /\ search' = query
  /\ UNCHANGED <<memories, settings, fileVars, editor, doomed, misplaced, mistaken, nextMemory>>

\* Wrong: an editor that is open already keeps its text.
KeepsTextVariant(e) ==
  IF editor.id = 0 THEN [id |-> e.id, text |-> e.text, of |-> e.id] ELSE [editor EXCEPT !.id = e.id]
\* Edit on the row of another entry than the one being edited.
Filled(e) == [id |-> e.id, text |-> e.text, of |-> e.id]
EditsRow(e) ==
  /\ Clicks
  /\ e \in Rows /\ editor.id # e.id
  /\ editor' = Filled(e)
  /\ UNCHANGED <<memories, settings, fileVars, search, doomed, misplaced, mistaken, nextMemory>>

TypesText(text) ==
  /\ Clicks
  /\ editor.id # 0 /\ editor.text # text
  /\ editor' = [editor EXCEPT !.text = text]
  /\ UNCHANGED <<memories, settings, fileVars, search, doomed, misplaced, mistaken, nextMemory>>

\* Save: the entry gets the text and the editor closes; an entry that is gone by now is an
\* error and the editor stays open.
SavesText ==
  /\ Clicks
  /\ editor.id # 0
  /\ IF editor.id \in MemoryIds
     THEN /\ memories' = With([ById(editor.id) EXCEPT !.text = editor.text])
          /\ misplaced' = (misplaced \/ editor.of # editor.id)
          /\ editor' = Closed
     ELSE UNCHANGED <<memories, misplaced, editor>>
  /\ UNCHANGED <<settings, fileVars, search, doomed, mistaken, nextMemory>>

CancelsText ==
  /\ Clicks
  /\ editor.id # 0 /\ editor' = Closed
  /\ UNCHANGED <<memories, settings, fileVars, search, doomed, misplaced, mistaken, nextMemory>>

DoomsRow(e) ==
  /\ Clicks
  /\ e \in Rows /\ doomed # e.id
  /\ doomed' = e.id
  /\ UNCHANGED <<memories, settings, fileVars, search, editor, misplaced, mistaken, nextMemory>>

\* The dialog is drawn with the row of its entry, and waits while that row is not shown.
Dialog == {e \in Rows : e.id = doomed}

\* Wrong: the entry in the editor goes.
SelectedGoesVariant(e) == IF editor.id \in MemoryIds THEN ById(editor.id) ELSE e
\* The entry that goes when the dialog of e is confirmed.
Goes(e) == e
\* Delete in the dialog. The editor closes if it was open for the entry.
Confirms ==
  \E e \in Dialog :
    /\ Clicks
    /\ memories' = memories \ {Goes(e)}
    /\ mistaken' = (mistaken \/ Goes(e) \notin Dialog)
    /\ editor' = IF editor.id = Goes(e).id THEN Closed ELSE editor
    /\ doomed' = 0
    /\ UNCHANGED <<settings, fileVars, search, misplaced, nextMemory>>

Keeps ==
  /\ Clicks
  /\ Dialog # {} /\ doomed' = 0
  /\ UNCHANGED <<memories, settings, fileVars, search, editor, misplaced, mistaken, nextMemory>>

(* ---- settings ---- *)

\* Wrong: the settings changed are not given to the caller, which would save them.
RuntimeOnlyVariant(new) == UNCHANGED fileVars
\* draw_memory_panel: the settings changed are written to config.json, or fail to be.
Persists(new) ==
  /\ replaced' = replaced \cup {settings}
  /\ \/ kept' = new /\ astray' = FALSE /\ UNCHANGED unsaved
     \/ /\ unsaved < MaxUnsaved /\ unsaved' = unsaved + 1
        /\ astray' = TRUE /\ UNCHANGED kept

\* draw_settings: each change is live at once. A mode that is clicked on is no change: the
\* copy it was set in is dropped.
Limits == 0..2  \* of 0..=100
ChangesSettings ==
  /\ Clicks
  /\ \E new \in {[settings EXCEPT !.enabled = ~@]}
              \cup {[settings EXCEPT !.limit = n] : n \in Limits \ {settings.limit}} :
       settings' = new /\ Persists(new)
  /\ UNCHANGED <<memories, search, editor, doomed, misplaced, mistaken, nextMemory>>

\* Every other writer of config.json writes it whole, from a copy that may be older: the
\* sidebar's is that of the start, a dialog's draft that of its opening.
OthersWrite ==
  /\ Clicks
  /\ \E old \in (replaced \cup {settings}) \ {kept} : kept' = old /\ astray' = (old # settings)
  /\ UNCHANGED <<memories, settings, replaced, unsaved, search, editor, doomed, misplaced, mistaken,
                 nextMemory>>

(* ---- the start of the program, with the settings of the file ---- *)

Restarts ==
  /\ agentSteps < MaxAgentSteps /\ agentSteps' = agentSteps + 1
  /\ settings' = kept /\ replaced' = {} /\ astray' = FALSE
  /\ search' = {} /\ editor' = Closed /\ doomed' = 0
  /\ UNCHANGED <<memories, kept, unsaved, misplaced, mistaken, nextMemory, panelSteps>>

Init ==
  /\ \E mode \in Modes : settings = [enabled |-> TRUE, mode |-> mode, limit |-> 1]
  /\ kept = settings /\ replaced = {} /\ astray = FALSE
  /\ \E new \in Texts \ Phrases :
       memories = {Entry(1, <<Stem>>, {}), Entry(2, new, {Stem})}
  /\ nextMemory = 3
  /\ search = {} /\ editor = Closed /\ doomed = 0
  /\ misplaced = FALSE /\ mistaken = FALSE
  /\ panelSteps = 0 /\ agentSteps = 0 /\ unsaved = 0

Next ==
  \/ \E text \in Phrases : AgentRemembers(text)
  \/ \E e \in memories, text \in Phrases : AgentRewords(e, text)
  \/ \E e \in memories : AgentForgets(e)
  \/ \E e \in memories : GrowsOld(e)
  \/ \E query \in {{}, {Stem}} : SearchesFor(query)
  \/ \E e \in memories : EditsRow(e)
  \/ TypesText(<<Stem>>)
  \/ SavesText
  \/ CancelsText
  \/ \E e \in memories : DoomsRow(e)
  \/ Confirms
  \/ Keeps
  \/ ChangesSettings
  \/ OthersWrite
  \/ Restarts
----
(* ---- properties ---- *)

\* A text is saved in the entry it was made from, and the entry deleted is the one the
\* dialog showed, although rows, editor and dialog change independently.
ActsOnWhatIsShown == ~misplaced /\ ~mistaken

\* The settings in use are those of config.json, unless their write failed or another
\* writer put a copy back that was taken before them.
SettingsKept == settings = kept \/ astray

\* What a prompt is given is recalled for it: within the room, no entry that is expired,
\* none less fitting than one left out; in smart mode nothing but what was looked for. When
\* nothing is found, as with a limit of 0, none older than one left out.
RecallsTheBest ==
  \A query \in SUBSET Vocabulary :
    LET written == Block(query)
        block == {written[n] : n \in DOMAIN written}
        hits == {e \in Live : Points(e, query) > 0} IN
    /\ block \subseteq Live
    /\ Size(written) <= Room
    /\ hits # {} /\ settings.limit > 0 =>
         /\ block \subseteq hits
         /\ \A e \in hits \ block, f \in block : ~Better(e, f, query)
    /\ (settings.mode = "smart" /\ query # {}) => block \subseteq hits
    /\ hits = {} \/ settings.limit = 0 => \A e \in Live \ block, f \in block : f.id > e.id

RecallSound == ActsOnWhatIsShown /\ SettingsKept /\ RecallsTheBest
=============================================================================

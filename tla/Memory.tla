-------------------------------- MODULE Memory --------------------------------
(***************************************************************************)
(* The memory store: entries in memory behind a lock, written whole to     *)
(* memories/<project>.json after every change (memory/manager.rs); the     *)
(* tools and the panel that change it, and the maintenance pass, which     *)
(* asks a model about a copy of the entries and applies its answer to      *)
(* whatever the store holds by then (memory/maintenance.rs).               *)
(***************************************************************************)
EXTENDS Naturals, Sequences, FiniteSets

CONSTANTS
  Texts,       \* contents an entry may be given, each a non-empty set of words
  MaxEntries,  \* max_entries
  BatchSize,   \* memory_maintenance_batch_size
  MaxIds,      \* bound: entries ever created
  MaxChanges,  \* bound: changes made by tools and panel, and passes
  MaxActions,  \* bound: actions of one answer
  MaxFaults    \* bound: writes that fail, and restarts

VARIABLES
  entries,   \* the entries: id (older entries have smaller ones), words, and whether expired
  disk,      \* the entries in the file
  saver,     \* for the user's side and for the pass: what it still has to write
  stale,     \* two saves overlapped or one failed: the file may be behind until the next one
  job,       \* the maintenance job of the panel: none or running
  pass,      \* the maintenance pass
  known,     \* words that were saved and that nobody chose to drop
  nextId, changes, faults

memoryVars == <<entries, disk, saver, stale, job, pass, known, nextId, changes, faults>>

Sides == {"user", "pass"}
Busy == {"writing", "sharing"}
NoPass == [pc |-> "none"]

Active(es) == {e \in es : ~e.expired}
Words(es) == UNION {e.words : e \in es}
Ids(es) == {e.id : e \in es}
Of(es, ids) == {e \in es : e.id \in ids}
\* What entries hold without the sources a merge is about to delete.
Kept(es) == Words(Active(es) \ Of(es, IF pass.pc = "merging" THEN pass.ids ELSE {}))
\* The n oldest entries, all when there are no more.
Oldest(es, n) == {e \in es : Cardinality({o \in es : o.id < e.id}) < n}

\* is_near_duplicate: the same content, or nearly the same words.
NearDuplicate(a, b) ==
  \/ a = b
  \/ /\ Cardinality(a \cap b) >= 3
     /\ 10 * Cardinality(a \cap b) >= 8 * Cardinality(a \cup b)
Doubles(words) == {e \in entries : NearDuplicate(e.words, words)}

(* ---- changes and saves ---- *)

Change == changes < MaxChanges /\ changes' = changes + 1

\* Each change is written afterwards: the entries are copied under the lock and the
\* copy is written without it.
Due(side) == saver' = [saver EXCEPT ![side] = [pc |-> "due", what |-> {}]]
Free(side) == saver[side].pc = "none"

\* MemoryManager::add of an entry that is no double of another: it is there at once, and
\* what is too much is evicted next.
Adds(side, words) ==
  /\ nextId <= MaxIds
  /\ nextId' = nextId + 1
  /\ entries' = entries \cup {[id |-> nextId, words |-> words, expired |-> FALSE]}
  /\ saver' = [saver EXCEPT ![side] = [pc |-> "evict", what |-> {}]]

\* evict_if_needed: the oldest entries beyond the limit go, all being equally sure.
Evicts(side) ==
  LET old == Oldest(Active(entries), Cardinality(Active(entries)) - MaxEntries) IN
  /\ saver[side].pc = "evict"
  /\ entries' = entries \ old
  /\ known' = known \ (Words(old) \ Kept(entries'))
  /\ Due(side)
  /\ UNCHANGED <<disk, stale, job, pass, nextId, changes, faults>>

\* save: the copy. Copies that are written at the same time share one temporary file.
Copies(side) ==
  LET others == {s \in Sides \ {side} : saver[s].pc \in Busy}
      pc == IF others = {} THEN "writing" ELSE "sharing" IN
  /\ saver[side].pc = "due"
  /\ saver' = [s \in Sides |-> IF s = side THEN [pc |-> pc, what |-> entries]
                             ELSE IF s \in others THEN [saver[s] EXCEPT !.pc = "sharing"]
                             ELSE saver[s]]
  /\ UNCHANGED <<entries, disk, stale, job, pass, known, nextId, changes, faults>>

\* save_memories: a temporary file and a rename. The change before is reported as failed
\* when it cannot be written, and stays in memory.
Writes(side) ==
  /\ saver[side].pc \in Busy
  /\ \/ /\ disk' = saver[side].what
        /\ stale' = (saver[side].pc = "sharing")
        /\ UNCHANGED <<pass, faults>>
     \/ /\ faults < MaxFaults /\ faults' = faults + 1
        /\ stale' = TRUE
        /\ pass' = IF side = "pass" /\ pass.pc = "merging" THEN [pass EXCEPT !.pc = "applying", !.ids = {}, !.text = {}]
                   ELSE pass
        /\ disk' = disk
  /\ saver' = [saver EXCEPT ![side] = [pc |-> "none", what |-> {}]]
  /\ UNCHANGED <<entries, job, known, nextId, changes>>

\* save_memory: a near-duplicate is refused and named.
SavesMemory(words) ==
  /\ Free("user") /\ Change
  /\ Doubles(words) = {}
  /\ Adds("user", words)
  /\ known' = known \cup words
  /\ UNCHANGED <<disk, stale, job, pass, faults>>

\* Wrong: the change is not written.
UnsavedVariant(id, words) ==
  /\ entries' = {IF e.id = id THEN [e EXCEPT !.words = words] ELSE e : e \in entries}
  /\ known' = (known \ Words(Of(entries, {id}))) \cup (Kept(entries') \cap (known \cup words))
  /\ UNCHANGED saver
\* update_memory, and Save in the panel's editor, of an entry that may be another by now:
\* the text is replaced. What the new text leaves
\* out is given up.
Updates(id, words) ==
  /\ entries' = {IF e.id = id THEN [e EXCEPT !.words = words] ELSE e : e \in entries}
  /\ known' = (known \ Words(Of(entries, {id}))) \cup (Kept(entries') \cap (known \cup words))
  /\ Due("user")

UpdatesMemory(id, words) ==
  /\ Free("user") /\ Change
  /\ id \in Ids(entries)
  /\ Updates(id, words)
  /\ UNCHANGED <<disk, stale, job, pass, nextId, faults>>

\* delete_memory, and Delete in the panel, once it is confirmed.
DeletesMemory(id) ==
  /\ Free("user") /\ Change
  /\ id \in Ids(entries)
  /\ entries' = entries \ Of(entries, {id})
  /\ known' = known \cap Kept(entries')
  /\ Due("user")
  /\ UNCHANGED <<disk, stale, job, pass, nextId, faults>>

\* consolidate_memories deletes its sources before it adds the text made from them, and a
\* double of the text is not stored.
Consolidates(ids, words) ==
  LET rest == entries \ Of(entries, ids) IN
  /\ Free("user") /\ Change
  /\ ids # {} /\ ids \subseteq Ids(entries)
  /\ IF \E e \in rest : NearDuplicate(e.words, words)
     THEN entries' = rest /\ Due("user") /\ UNCHANGED nextId
     ELSE /\ nextId <= MaxIds
          /\ nextId' = nextId + 1
          /\ entries' = rest \cup {[id |-> nextId, words |-> words, expired |-> FALSE]}
          /\ saver' = [saver EXCEPT !["user"] = [pc |-> "evict", what |-> {}]]
  /\ known' = known \cap Kept(entries')
  /\ UNCHANGED <<disk, stale, job, pass, faults>>

\* An entry grows older than 90 days: it is not found any more, but is still a double.
Expires(id) ==
  /\ Change
  /\ id \in Ids(Active(entries))
  /\ entries' = {IF e.id = id THEN [e EXCEPT !.expired = TRUE] ELSE e : e \in entries}
  /\ known' = known \cap Kept(entries')
  /\ UNCHANGED <<disk, saver, stale, job, pass, nextId, faults>>

(* ---- the panel ---- *)

\* start_maintenance: one job at a time.
StartsPass ==
  /\ job = "none" /\ pass.pc = "none" /\ Free("pass") /\ Change
  /\ Cardinality(Active(entries)) >= 2
  /\ job' = "running"
  /\ pass' = [pc |-> "asking", left |-> Active(entries),
              total |-> Cardinality(Active(entries)), full |-> TRUE]
  /\ UNCHANGED <<entries, disk, saver, stale, known, nextId, faults>>

\* post_task_maintenance: one batch of the oldest entries, without the panel.
StartsStep ==
  /\ pass.pc = "none" /\ Free("pass") /\ job = "none" /\ Change
  /\ Cardinality(Active(entries)) >= 2
  /\ pass' = [pc |-> "asking", left |-> Active(entries),
              total |-> Cardinality(Active(entries)), full |-> FALSE]
  /\ UNCHANGED <<entries, disk, saver, stale, job, known, nextId, faults>>

\* The panel collects the end of the job, or finds that its thread is gone.
CollectsJob ==
  /\ job = "running" /\ pass.pc = "none"
  /\ job' = "none"
  /\ UNCHANGED <<entries, disk, saver, stale, pass, known, nextId, changes, faults>>

(* ---- the pass ---- *)

Chunk == Oldest(pass.left, BatchSize)
Later == pass.left \ Chunk

\* A batch is over: the next one of a full pass, unless it would have a single entry.
NextBatch(left) ==
  IF pass.full /\ Cardinality(left) >= 2 THEN [pass EXCEPT !.pc = "asking", !.left = left]
  ELSE NoPass

\* The model answers with actions; or it fails, takes too long or answers nonsense.
Answers ==
  /\ pass.pc = "asking"
  /\ \/ pass' = [pc |-> "applying", chunk |-> Chunk, left |-> Later, total |-> pass.total,
                 full |-> pass.full, phase |-> "merge", actions |-> MaxActions, count |-> 0, ids |-> {}, text |-> {}]
     \/ pass' = NextBatch(Later)
  /\ UNCHANGED <<entries, disk, saver, stale, job, known, nextId, changes, faults>>

\* The timeout of the whole pass drops it while it waits for the model, and a merged
\* text cut in the middle of a character is a panic.
PassDies ==
  /\ pass.pc = "asking" \/ (pass.pc = "applying" /\ Free("pass"))
  /\ pass' = NoPass
  /\ UNCHANGED <<entries, disk, saver, stale, job, known, nextId, changes, faults>>

Applying(phase) == pass.pc = "applying" /\ Free("pass") /\ pass.actions > 0 /\ pass.phase = phase

\* Wrong: an empty text is stored as it is.
EmptyTextVariant(ids, text) == text
\* The text of the answer, or without one the sources' contents as they were copied.
Merged(ids, text) == IF text = {} THEN Words(Of(pass.chunk, ids)) ELSE text

\* What a merge gives up: words the model left out, and words its sources got meanwhile.
GivenUp(ids, text) ==
  Words(Of(entries, ids)) \ (IF text = {} THEN Words(Of(pass.chunk, ids)) ELSE text)

\* A merged text that doubles entries is not stored, and its sources collapse into them:
\* what the sources hold and no double that stays holds is given up, in the text or not.
Collapsed(ids, words) ==
  Words(Of(entries, ids)) \ Words(Active(Doubles(words) \ Of(entries, ids)))

\* A merge of known entries, never of as many as the store had: the merged entry is
\* added, unless it doubles one that exists, which may be one of its own sources.
Merges(ids, text) ==
  LET words == Merged(ids, text) IN
  /\ Applying("merge")
  /\ ids \subseteq Ids(pass.chunk) /\ Cardinality(ids) >= 2 /\ Cardinality(ids) < pass.total
  /\ IF Doubles(words) # {}
     THEN /\ UNCHANGED <<entries, nextId, saver>>
          /\ known' = known \ Collapsed(ids, words)
     ELSE /\ Adds("pass", words)
          /\ known' = known
  /\ pass' = [pass EXCEPT !.pc = "merging", !.actions = @ - 1, !.ids = ids, !.text = text]
  /\ UNCHANGED <<disk, stale, job, changes, faults>>

\* ... and its sources are deleted.
DropsSources ==
  /\ pass.pc = "merging" /\ Free("pass")
  /\ entries' = entries \ Of(entries, pass.ids)
  /\ known' = known \ (GivenUp(pass.ids, pass.text) \ Words(Active(entries')))
  /\ Due("pass")
  /\ pass' = [pass EXCEPT !.pc = "applying", !.ids = {}, !.text = {}]
  /\ UNCHANGED <<disk, stale, job, nextId, changes, faults>>

\* An update of a known entry that is still there.
PassUpdates(id, words) ==
  /\ Applying("update")
  /\ id \in Ids(pass.chunk) \cap Ids(entries)
  /\ entries' = {IF e.id = id THEN [e EXCEPT !.words = words] ELSE e : e \in entries}
  /\ known' = known \cap Words(Active(entries'))
  /\ Due("pass")
  /\ pass' = [pass EXCEPT !.actions = @ - 1]
  /\ UNCHANGED <<disk, stale, job, nextId, changes, faults>>

\* A deletion of a known entry, as long as more than one is counted.
PassDeletes(id) ==
  /\ Applying("delete")
  /\ pass.count > 1
  /\ id \in Ids(pass.chunk) \cap Ids(entries)
  /\ entries' = entries \ Of(entries, {id})
  /\ known' = known \cap Words(Active(entries'))
  /\ Due("pass")
  /\ pass' = [pass EXCEPT !.actions = @ - 1, !.count = @ - 1]
  /\ UNCHANGED <<disk, stale, job, nextId, changes, faults>>

\* Merges come first, updates after them, deletions last; then the batch is over.
NextPhase ==
  /\ pass.pc = "applying" /\ Free("pass")
  /\ pass' = CASE pass.phase = "merge" -> [pass EXCEPT !.phase = "update"]
               [] pass.phase = "update" ->
                    [pass EXCEPT !.phase = "delete", !.count = Cardinality(Active(entries))]
               [] pass.phase = "delete" ->
                    IF pass.full /\ Cardinality(pass.left) >= 2
                    THEN [pc |-> "asking", left |-> pass.left, total |-> pass.total, full |-> TRUE]
                    ELSE NoPass
  /\ UNCHANGED <<entries, disk, saver, stale, job, known, nextId, changes, faults>>

\* The process ends and starts again: the file is read and expired entries are dropped.
Restarts ==
  /\ faults < MaxFaults /\ faults' = faults + 1
  /\ entries' = Active(disk)
  /\ known' = known \cap Words(Active(disk))
  /\ saver' = [s \in Sides |-> [pc |-> "none", what |-> {}]]
  /\ job' = "none"
  /\ pass' = NoPass
  /\ stale' = TRUE
  /\ UNCHANGED <<disk, nextId, changes>>

Init ==
  /\ \E ws \in {<<>>} \cup {q \in [1..3 -> Texts] : Cardinality({q[k] : k \in 1..3}) = 3} :
       /\ entries = {[id |-> k, words |-> ws[k], expired |-> FALSE] : k \in DOMAIN ws}
       /\ nextId = Len(ws) + 1
  /\ disk = entries
  /\ saver = [s \in Sides |-> [pc |-> "none", what |-> {}]]
  /\ stale = FALSE
  /\ job = "none"
  /\ pass = NoPass
  /\ known = Words(entries)
  /\ changes = 0
  /\ faults = 0

Next ==
  \/ \E s \in Sides : Evicts(s) \/ Copies(s) \/ Writes(s)
  \/ \E w \in Texts :
       \/ SavesMemory(w)
       \/ \E id \in 1..MaxIds : UpdatesMemory(id, w) \/ PassUpdates(id, w)
       \/ \E ids \in SUBSET (1..MaxIds) : Consolidates(ids, w)
  \/ \E id \in 1..MaxIds : DeletesMemory(id) \/ Expires(id) \/ PassDeletes(id)
  \/ StartsPass \/ StartsStep \/ CollectsJob
  \/ Answers \/ PassDies \/ DropsSources \/ NextPhase
  \/ \E ids \in SUBSET (1..MaxIds), w \in Texts \cup {{}} : Merges(ids, w)
  \/ Restarts

Spec == Init /\ [][Next]_memoryVars

\* The thread of a pass goes on, its saves end, and the frame collects it.
Fairness ==
  /\ WF_memoryVars(\E s \in Sides : Evicts(s) \/ Copies(s) \/ Writes(s))
  /\ WF_memoryVars(Answers)
  /\ WF_memoryVars(DropsSources)
  /\ WF_memoryVars(NextPhase)
  /\ WF_memoryVars(CollectsJob)

-----------------------------------------------------------------------------
\* What was saved is found until somebody drops it: a merge loses only what the model
\* left out or its sources gained meanwhile, or, when the merged text doubles an entry,
\* what that entry lacks, which is all of it when the entry is itself a source.
NothingForgotten == known \subseteq Words(Active(entries))

\* With nothing left to write, the file holds the entries, unless saves overlapped or
\* one failed and nothing was written since.
FileCatchesUp ==
  ((\A s \in Sides : saver[s].pc = "none") /\ ~stale) =>
     {[id |-> e.id, words |-> e.words] : e \in disk} = {[id |-> e.id, words |-> e.words] : e \in entries}

MemorySound == NothingForgotten /\ FileCatchesUp

\* The panel's job ends, whatever becomes of its thread.
JobEnds == job = "running" ~> job = "none"

\* Stated, and not so: maintenance.rs promises that no batch can ever merge or delete the
\* whole store, but merges whose text doubles a source delete that source too.
NoBatchWipes == [][(pass.pc = "merging" /\ DropsSources) => Active(entries') # {}]_memoryVars

=============================================================================

------------------------------ MODULE Profiles ------------------------------
(***************************************************************************)
(* The agent profiles on disk and their three writers: the tool            *)
(* edit_agent_profile (on a worker thread), the editor dialog and the      *)
(* improvements panel (on the UI thread). A profile's identity is the name *)
(* field, not the file name. AgentManager copies a file into history/      *)
(* before it overwrites it and keeps HISTORY_SNAPSHOTS_KEEP copies.        *)
(* "a2" stands for a name that is another name, a dash and digits: its     *)
(* snapshots read as old snapshots of "a".                                 *)
(***************************************************************************)
EXTENDS Naturals, FiniteSets

CONSTANTS HISTORY_SNAPSHOTS_KEEP, MaxTexts, MaxStamps, None

VARIABLES
  disk,      \* each directory: files by file name, and the history
  oddFirst,  \* the order in which read_dir lists a directory
  texts, stamps,   \* fresh contents and snapshot times given out so far
  ptool,     \* the tool call under way
  editor,    \* the dialog: the names it loaded and the one whose profile is in the form
  panel,     \* the panel's cached list, and whether AGENT_MUTATION_COUNTER moved since
  gone,      \* history: files whose content vanished by neither a delete, nor an add
             \* over it, nor a failed copy
  unseen     \* history: an edit by the tool succeeded and is not what discovery shows,
             \* though no other profile's file holds its name

profileVars == <<disk, oddFirst, texts, stamps, ptool, editor, panel, gone, unseen>>

Dirs == {"primary", "project"}
Names == {"a", "a2"}
FileNames == Names \cup {"odd"}
\* hidden: fields the editor's form does not have (restart_enabled, trim_config, ...).
Profile == [name : Names, text : 0..MaxTexts, hidden : BOOLEAN]

Conventional(n) == n

NoTool == [at |-> "idle", name |-> None, new |-> None, dir |-> None, file |-> None, cfg |-> None]

\* The file of a directory that discovery takes for a name: the first one listed.
FileIn(dir, n) ==
  LET fs == {f \in FileNames : dir.files[f] # None /\ dir.files[f].name = n}
  IN IF fs = {} THEN None
     ELSE IF "odd" \in fs /\ (oddFirst \/ fs = {"odd"}) THEN "odd"
     ELSE CHOOSE f \in fs : f # "odd"
FileOf(d, n) == FileIn(disk[d], n)

\* find_agent_file, list_agents: the primary directory comes first.
DirOf(n) == IF FileOf("primary", n) # None THEN "primary"
            ELSE IF FileOf("project", n) # None THEN "project" ELSE None
Discovered(n) == IF DirOf(n) = None THEN None ELSE disk[DirOf(n)].files[FileOf(DirOf(n), n)]
Listing == [n \in Names |-> Discovered(n)]
Known == {n \in Names : DirOf(n) # None}

Init ==
  /\ \E first, second, odd \in BOOLEAN :
       disk = [d \in Dirs |->
         [files |-> [f \in FileNames |->
            IF d = "primary" /\ f = "a" /\ first THEN [name |-> "a", text |-> 0, hidden |-> TRUE]
            ELSE IF d = "project" /\ f = "a2" /\ second THEN [name |-> "a2", text |-> 0, hidden |-> TRUE]
            ELSE IF d = "project" /\ f = "odd" /\ odd THEN [name |-> "a", text |-> 0, hidden |-> FALSE]
            ELSE None],
          hist |-> {}]]
  /\ oddFirst \in BOOLEAN /\ (oddFirst => disk["project"].files["odd"] # None)
  /\ texts = 0 /\ stamps = 0
  /\ ptool = NoTool
  /\ editor = [list |-> Known, old |-> None]
  /\ panel = [list |-> Listing, old |-> FALSE]
  /\ gone = {} /\ unseen = FALSE

TypeOK ==
  /\ \A d \in Dirs :
       /\ \A f \in FileNames : disk[d].files[f] = None \/ disk[d].files[f] \in Profile
       /\ \A s \in disk[d].hist : s.of \in Names /\ s.at \in 1..MaxStamps /\ s.was \in Profile
  /\ ptool.at \in {"idle", "found", "moved"}
  /\ editor.old \in Names \cup {"new", None}

-----------------------------------------------------------------------------
\* The snapshots that list_agent_history and prune_history take for the name's: by
\* prefix, so that those of "a-2" count as snapshots of "a", from the year 1970.
TakenFor(hist, n) == {s \in hist : s.of = n \/ (n = "a" /\ s.of = "a2")}
Older(n, s, t) ==
  \/ s.of # n /\ t.of = n
  \/ (s.of = n <=> t.of = n) /\ s.at < t.at

PruneVariant(hist, n) == {s \in hist : s.of # n}
\* prune_history: all but the newest HISTORY_SNAPSHOTS_KEEP.
Prune(hist, n) ==
  {s \in hist : s \in TakenFor(hist, n) =>
     Cardinality({t \in TakenFor(hist, n) : Older(n, s, t)}) < HISTORY_SNAPSHOTS_KEEP}

\* snapshot_file: nothing to do without the file; a failure is only logged.
Snapshot(dir, n, f, at, works) ==
  IF dir.files[f] = None \/ ~works THEN dir
  ELSE [dir EXCEPT !.hist = Prune(@ \cup {[of |-> n, at |-> at, was |-> dir.files[f]]}, n)]

Without(dir, f) == [dir EXCEPT !.files[f] = None]
With(dir, f, p) == [dir EXCEPT !.files[f] = p]

\* edit_agent: a rename snapshots and removes the old file; the file of the name is
\* snapshotted and overwritten, unless that fails.
EditVariant(dir, old, p, at, works, saves) ==
  LET cleared == IF p.name = old THEN dir ELSE Without(dir, Conventional(old))
      copied == Snapshot(cleared, p.name, Conventional(p.name), at + 1, works)
  IN IF saves THEN With(copied, Conventional(p.name), p) ELSE copied

Edit(dir, old, p, at, works, saves) ==
  LET cleared == IF p.name = old THEN dir
                 ELSE Without(Snapshot(dir, old, Conventional(old), at, works), Conventional(old))
      copied == Snapshot(cleared, p.name, Conventional(p.name), at + 1, works)
  IN IF saves THEN With(copied, Conventional(p.name), p) ELSE copied

\* canonicalize_profile_file: the profile's file gets the conventional name; a file
\* that has it already goes to the history.
Canonicalize(dir, n, f, at, works) ==
  IF f = Conventional(n) \/ dir.files[f] = None THEN dir
  ELSE LET kept == Snapshot(Snapshot(dir, n, f, at, works), n, Conventional(n), at + 1, works)
       IN Without(With(kept, Conventional(n), kept.files[f]), f)

\* revert_agent: the current file is snapshotted, then the snapshot copied over it, if
\* the pruning has left it.
Restore(dir, n, s, at, works) ==
  LET copied == Snapshot(dir, n, Conventional(n), at, works)
  IN IF s \in copied.hist THEN With(copied, Conventional(n), s.was) ELSE copied
Restored(dir, s) == s \in dir.hist

-----------------------------------------------------------------------------
Stamps == stamps + 2 <= MaxStamps /\ stamps' = stamps + 2
Fresh == texts < MaxTexts /\ texts' = texts + 1
Change(d, dir) == disk' = [disk EXCEPT ![d] = dir]
Bump == panel' = [panel EXCEPT !.old = TRUE]

\* What of a directory is recoverable: its files and its snapshots.
Held(dir) == {dir.files[f] : f \in FileNames} \cup {s.was : s \in dir.hist}
Loses(excused) ==
  gone' = gone \cup {f \in FileNames :
            \E d \in Dirs : disk[d].files[f] \notin Held(disk'[d]) \cup excused \cup {None}}
LosesIf(works) == Loses(IF works THEN {} ELSE Profile)

\* edit_agent_profile, up to the first write: it finds the profile and refuses a new
\* name that is taken.
ToolFinds(n, new) ==
  /\ ptool.at = "idle" /\ DirOf(n) # None
  /\ new = n \/ DirOf(new) = None
  /\ Fresh
  /\ ptool' = [at |-> "found", name |-> n, new |-> new, dir |-> DirOf(n),
               file |-> FileOf(DirOf(n), n), cfg |-> [Discovered(n) EXCEPT !.name = new, !.text = texts + 1]]
  /\ UNCHANGED <<disk, stamps, editor, panel, gone, unseen>>

ToolMovesVariant(works) ==
  /\ ptool.at = "found"
  /\ Stamps
  /\ ptool' = [ptool EXCEPT !.at = "moved"]
  /\ UNCHANGED <<disk, texts, editor, panel, gone, unseen>>

\* canonicalize_profile_file, with the path found before.
ToolMoves(works) ==
  /\ ptool.at = "found"
  /\ Stamps
  /\ Change(ptool.dir, Canonicalize(disk[ptool.dir], ptool.name, ptool.file, stamps + 1, works))
  /\ LosesIf(works)
  /\ ptool' = [ptool EXCEPT !.at = "moved"]
  /\ UNCHANGED <<texts, editor, panel, unseen>>

\* A revert of "a" to what it takes for an old snapshot puts "a-2" into its file.
Misfiled(dir, n) == \E f \in Names \ {n} : dir.files[f] # None /\ dir.files[f].name = n

\* edit_agent with the configuration read before, and the answer.
ToolEdits(works, saves) ==
  /\ ptool.at = "moved"
  /\ Stamps
  /\ Change(ptool.dir, Edit(disk[ptool.dir], ptool.name, ptool.cfg, stamps + 1, works, saves))
  /\ LosesIf(works)
  /\ LET dir == disk'[ptool.dir] IN
     unseen' = (unseen \/ (saves /\ ~Misfiled(dir, ptool.new)
                           /\ FileIn(dir, ptool.new) # Conventional(ptool.new)))
  /\ ptool' = NoTool
  /\ Bump
  /\ UNCHANGED <<texts, editor>>

-----------------------------------------------------------------------------
\* The dialog opens or reloads (AgentManager::reload).
EditorLoads ==
  /\ editor' = [list |-> Known, old |-> None]
  /\ Bump
  /\ UNCHANGED <<disk, texts, stamps, ptool, gone, unseen>>

\* A profile of the loaded list goes into the form, or an empty form comes up.
EditorSelects(n) ==
  /\ n \in editor.list
  /\ editor' = [editor EXCEPT !.old = n]
  /\ UNCHANGED <<disk, texts, stamps, ptool, panel, gone, unseen>>

EditorStartsNew ==
  /\ editor' = [editor EXCEPT !.old = "new"]
  /\ UNCHANGED <<disk, texts, stamps, ptool, panel, gone, unseen>>

\* What save builds from the form: what the form does not show gets its default.
FromForm(n) == [name |-> n, text |-> texts + 1, hidden |-> FALSE]

\* save of a selected profile: edit_agent in the primary directory, wherever the
\* profile was found.
EditorSaves(n, works, saves) ==
  /\ editor.old \in Names
  /\ Fresh /\ Stamps
  /\ Change("primary", Edit(disk["primary"], editor.old, FromForm(n), stamps + 1, works, saves))
  /\ LosesIf(works)
  /\ Bump
  /\ editor' = IF saves THEN [list |-> Known', old |-> None] ELSE editor
  /\ UNCHANGED <<ptool, unseen>>

\* save of a new profile: add_agent overwrites what has the name, without a snapshot.
EditorAdds(n) ==
  /\ editor.old = "new"
  /\ Fresh
  /\ Change("primary", With(disk["primary"], Conventional(n), FromForm(n)))
  /\ Loses({disk["primary"].files[Conventional(n)]})
  /\ Bump
  /\ editor' = [list |-> Known', old |-> None]
  /\ UNCHANGED <<stamps, ptool, unseen>>

\* delete_agent: remove_agent is a success without a file too.
EditorDeletes ==
  /\ editor.old \in Names
  /\ LET f == Conventional(editor.old)
         was == disk["primary"].files[f]
     IN /\ Change("primary", Without(disk["primary"], f))
        /\ Loses({was})
        /\ IF was = None THEN UNCHANGED panel ELSE Bump
  /\ editor' = [list |-> editor.list \ {editor.old}, old |-> None]
  /\ UNCHANGED <<texts, stamps, ptool, unseen>>

\* execute_revert: a snapshot of the history list, in the directory it lies in.
EditorReverts(d, s, works) ==
  /\ editor.old \in Names /\ s \in TakenFor(disk[d].hist, editor.old)
  /\ Stamps
  /\ Change(d, Restore(disk[d], editor.old, s, stamps + 1, works))
  /\ LosesIf(works)
  /\ IF Restored(disk'[d], s)
     THEN /\ Bump
          /\ editor' = [list |-> Known',
                        old |-> IF s.was.name \in Known' THEN s.was.name ELSE editor.old]
     ELSE UNCHANGED <<panel, editor>>
  /\ UNCHANGED <<texts, ptool, unseen>>

-----------------------------------------------------------------------------
\* Approve (apply_improvement_detailed): the profile is read and edited in the
\* directory it lives in, without canonicalize_profile_file.
PanelApproves(n, works, saves) ==
  /\ DirOf(n) # None
  /\ Fresh /\ Stamps
  /\ LET d == DirOf(n)
     IN Change(d, Edit(disk[d], n, [Discovered(n) EXCEPT !.text = texts + 1], stamps + 1, works, saves))
  /\ LosesIf(works)
  /\ Bump
  /\ UNCHANGED <<ptool, editor, unseen>>

\* Revert: the newest snapshot of all directories.
PanelReverts(n, works) ==
  /\ \E d \in Dirs : \E s \in TakenFor(disk[d].hist, n) :
       /\ \A e \in Dirs : \A t \in TakenFor(disk[e].hist, n) : ~Older(n, s, t)
       /\ Change(d, Restore(disk[d], n, s, stamps + 1, works))
       /\ IF Restored(disk'[d], s) THEN Bump ELSE UNCHANGED panel
  /\ Stamps /\ LosesIf(works)
  /\ UNCHANGED <<texts, ptool, editor, unseen>>

PanelRefreshesVariant ==
  /\ panel.old
  /\ panel' = [panel EXCEPT !.old = FALSE]
  /\ UNCHANGED <<disk, texts, stamps, ptool, editor, gone, unseen>>

\* refresh_agent_cache, on each frame.
PanelRefreshes ==
  /\ panel.old
  /\ panel' = [list |-> Listing, old |-> FALSE]
  /\ UNCHANGED <<disk, texts, stamps, ptool, editor, gone, unseen>>

Step ==
  \/ \E n, new \in Names : ToolFinds(n, new)
  \/ \E works \in BOOLEAN : ToolMoves(works)
  \/ \E works, saves \in BOOLEAN : ToolEdits(works, saves)
  \/ EditorLoads \/ EditorStartsNew \/ EditorDeletes
  \/ \E n \in Names : EditorSelects(n) \/ EditorAdds(n)
  \/ \E n \in Names, works \in BOOLEAN, saves \in BOOLEAN :
       EditorSaves(n, works, saves) \/ PanelApproves(n, works, saves)
  \/ \E d \in Dirs : \E s \in disk[d].hist, works \in BOOLEAN : EditorReverts(d, s, works)
  \/ \E n \in Names, works \in BOOLEAN : PanelReverts(n, works)
  \/ PanelRefreshes

Next == UNCHANGED oddFirst /\ Step

Spec == Init /\ [][Next]_profileVars

-----------------------------------------------------------------------------
\* Every edit, rename and revert, by whichever writer and however they interleave,
\* can be taken back: what it overwrote is in the history (edit_agent,
\* canonicalize_profile_file, revert_agent), unless the copy failed or the file's
\* name reads as a snapshot of another.
EditsReversible == gone \subseteq {"a2"}

\* An edit the tool reports is the profile that discovery finds, though a file of
\* another name in its directory held the name before (canonicalize_profile_file),
\* unless meanwhile a revert put the profile into the file of another.
ToolEditShows == ~unseen

\* The panel's cached list is what discovery finds, or the counter says that it is
\* old (refresh_agent_cache, bump_mutation_counter). canonicalize_profile_file alone
\* does not count: with two files of one name it changes what is found.
PanelListFresh == ~panel.old /\ ptool.at # "moved" => panel.list = Listing

\* What the documentation of prune_history says: the oldest snapshots of the name
\* go. Not so: an edit of "a" drops those of "a-2" first.
PrunesOwnOnly ==
  [][\A d \in Dirs : \A s \in disk[d].hist \ disk'[d].hist :
       Cardinality({t \in disk'[d].hist : t.of = s.of}) >= HISTORY_SNAPSHOTS_KEEP]_profileVars

\* Stated, and not so: a snapshot that is offered for a revert can be restored
\* (revert_agent). The oldest of a full history is pruned by the copy made first.
RevertRestores ==
  [][\A d \in Dirs : \A s \in disk[d].hist :
       (EditorReverts(d, s, TRUE) /\ s.of = editor.old) => Restored(disk'[d], s)]_profileVars

ProfileSafe == TypeOK /\ EditsReversible /\ ToolEditShows /\ PanelListFresh

=============================================================================

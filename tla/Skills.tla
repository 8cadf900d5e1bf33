-------------------------------- MODULE Skills --------------------------------
(***************************************************************************)
(* The skill files: saved and deleted by the tools of agents that run at   *)
(* the same time, reverted by the user in the improvements panel.  A save  *)
(* copies the file into the history, writes a temporary file and renames   *)
(* it; nothing locks.  "s2" stands for a name that is another name, a dash *)
(* and digits: its copies read as old copies of "s".                       *)
(***************************************************************************)
EXTENDS Naturals, FiniteSets

CONSTANTS
  Callers,        \* agents whose tools run
  Kept,           \* HISTORY_KEEP
  MaxSaves,       \* bound: saves
  MaxCopies,      \* bound: copies made for the history
  MaxBreaks       \* bound: writes that fail, and crashes

SkillNames == {"s", "s2"}
NoFile == [text |-> 0, whole |-> FALSE, inode |-> 0]
NotCalled == [pc |-> "idle", name |-> "s", text |-> 0, inode |-> 0]
NotReverting == [pc |-> "idle", name |-> "s", text |-> 0, inode |-> 0]

VARIABLES
  skill,       \* per name: the file
  part,        \* per name: its temporary file
  copies,      \* the history
  call,        \* per agent: the save under way
  revert,      \* the revert under way
  met,         \* names on which two writers met, a copy failed or a writer broke off,
               \* or whose copies a writer of another name pruned
  dropped,     \* texts that a writer replaced without a copy in the history
  saves, copied, breaks

skillVars == <<skill, part, copies, call, revert, met, dropped, saves, copied, breaks>>

Break == breaks < MaxBreaks /\ breaks' = breaks + 1
Busy(n) == (\E c \in Callers : call[c].pc # "idle" /\ call[c].name = n) \/ (revert.pc # "idle" /\ revert.name = n)
Meets(n) == met' = met \cup {m \in {n} : Busy(m) \/ breaks' # breaks}
                       \cup {h.of : h \in {g \in copies \ copies' : g.of # n}}

\* list_skill_history and prune_skill_history go by the prefix of the file name.
CountsFor(n) == {h \in copies : h.of = n \/ (n = "s" /\ h.of = "s2")}
Before(n, h, g) == (h.of # n /\ g.of = n) \/ ((h.of = n <=> g.of = n) /\ h.at < g.at)

\* Wrong: the copies of one second take one name, and the later replaces the earlier's text.
FirstOnlyVariant(n) == [of |-> n, at |-> copied + 1, was |-> 1]
Copy(n) == [of |-> n, at |-> copied + 1, was |-> skill[n].text]

\* snapshot_skill: nothing without a file; a copy that fails is only logged.
Snapshots(n) ==
  \/ /\ skill[n] = NoFile /\ UNCHANGED <<copies, copied, breaks>>
  \/ /\ skill[n] # NoFile /\ copied < MaxCopies
     /\ copied' = copied + 1
     /\ LET all == CountsFor(n) \cup {Copy(n)} IN
        copies' = {h \in copies \cup {Copy(n)} :
                     h \in all => Cardinality({g \in all : Before(n, h, g)}) < Kept}
     /\ UNCHANGED breaks
  \/ /\ skill[n] # NoFile /\ Break /\ UNCHANGED <<copies, copied>>

\* What the file of a name held must be in the history when its writer has copied it.
Replaces(n) ==
  dropped' = IF skill[n] = NoFile \/ ~skill[n].whole \/ n \in met' \/ skill[n].text = skill'[n].text
                \/ \E h \in copies' : h.of = n /\ h.was = skill[n].text
             THEN dropped ELSE dropped \cup {skill[n].text}

(* ---- save_skill ---- *)

SaveBegins(c, n) ==
  /\ call[c] = NotCalled /\ saves < MaxSaves
  /\ saves' = saves + 1
  /\ Snapshots(n)
  /\ Meets(n)
  /\ call' = [call EXCEPT ![c] = [pc |-> "copied", name |-> n, text |-> saves + 1, inode |-> 0]]
  /\ UNCHANGED <<skill, part, revert, dropped>>

\* Wrong: the file is opened in place, as std::fs::write of the final path would.
InPlaceVariant(c) ==
  LET n == call[c].name
      inode == IF skill[n] = NoFile THEN call[c].text ELSE skill[n].inode IN
  /\ call[c].pc = "copied"
  /\ skill' = [skill EXCEPT ![n] = [text |-> call[c].text, whole |-> FALSE, inode |-> inode]]
  /\ call' = [call EXCEPT ![c].pc = "writing", ![c].inode = inode]
  /\ UNCHANGED <<part, copies, revert, met, dropped, saves, copied, breaks>>

\* The temporary file has one name for all: it is created, or truncated as it is.
OpensPart(c) ==
  LET n == call[c].name
      inode == IF part[n] = NoFile THEN call[c].text ELSE part[n].inode IN
  /\ call[c].pc = "copied"
  /\ part' = [part EXCEPT ![n] = [text |-> call[c].text, whole |-> FALSE, inode |-> inode]]
  /\ call' = [call EXCEPT ![c].pc = "writing", ![c].inode = inode]
  /\ UNCHANGED <<skill, copies, revert, met, dropped, saves, copied, breaks>>

\* What is written goes to the file that was opened, whatever its name is by now.
WritesPart(c) ==
  LET n == call[c].name
      Written(f) == IF f.inode = call[c].inode THEN [f EXCEPT !.whole = TRUE, !.text = call[c].text] ELSE f IN
  /\ call[c].pc = "writing"
  /\ part' = [part EXCEPT ![n] = Written(@)]
  /\ skill' = [skill EXCEPT ![n] = Written(@)]
  /\ call' = [call EXCEPT ![c].pc = "written"]
  /\ UNCHANGED <<copies, revert, met, dropped, saves, copied, breaks>>

Renames(c) ==
  LET n == call[c].name IN
  /\ call[c].pc = "written"
  /\ UNCHANGED <<copies, revert, met, saves, copied, breaks>>
  /\ IF part[n] = NoFile THEN UNCHANGED <<skill, part, dropped>>
     ELSE /\ skill' = [skill EXCEPT ![n] = part[n]]
          /\ part' = [part EXCEPT ![n] = NoFile]
          /\ Replaces(n)
  /\ call' = [call EXCEPT ![c] = NotCalled]

SaveFails(c) ==
  /\ call[c].pc \in {"copied", "writing"} /\ Break
  /\ met' = met \cup {call[c].name}
  /\ call' = [call EXCEPT ![c] = NotCalled]
  /\ UNCHANGED <<skill, part, copies, revert, dropped, saves, copied>>

(* ---- delete_skill, and the revert of the panel ---- *)

Deletes(n) ==
  /\ skill[n] # NoFile
  /\ Snapshots(n)
  /\ Meets(n)
  /\ skill' = [skill EXCEPT ![n] = NoFile]
  /\ Replaces(n)
  /\ UNCHANGED <<part, call, revert, saves>>

\* The newest of the list; the file is snapshotted, then overwritten in place.
RevertBegins(n) ==
  /\ revert = NotReverting
  /\ \E h \in CountsFor(n) :
       /\ \A g \in CountsFor(n) : ~Before(n, h, g)
       /\ Snapshots(n)
       /\ Meets(n)
       /\ IF h \in copies'
          THEN /\ revert' = [pc |-> "copying", name |-> n, text |-> h.was, inode |-> skill[n].inode]
               /\ skill' = [skill EXCEPT ![n] = [@ EXCEPT !.whole = FALSE, !.text = h.was]]
               /\ Replaces(n)
          ELSE UNCHANGED <<revert, skill, dropped>>
  /\ UNCHANGED <<part, call, saves>>

RevertEnds ==
  LET n == revert.name IN
  /\ revert.pc = "copying"
  /\ skill' = [skill EXCEPT ![n] = IF @.inode = revert.inode
                                   THEN [@ EXCEPT !.whole = TRUE, !.text = revert.text] ELSE @]
  /\ revert' = NotReverting
  /\ UNCHANGED <<part, copies, call, met, dropped, saves, copied, breaks>>

StopsHere ==
  /\ Break
  /\ met' = met \cup {n \in SkillNames : Busy(n)}
  /\ call' = [c \in Callers |-> NotCalled]
  /\ revert' = NotReverting
  /\ UNCHANGED <<skill, part, copies, dropped, saves, copied>>

Init ==
  /\ skill = [n \in SkillNames |-> NoFile] /\ part = [n \in SkillNames |-> NoFile]
  /\ copies = {}
  /\ call = [c \in Callers |-> NotCalled]
  /\ revert = NotReverting
  /\ met = {} /\ dropped = {}
  /\ saves = 0 /\ copied = 0 /\ breaks = 0

Next ==
  \/ \E c \in Callers : \/ \E n \in SkillNames : SaveBegins(c, n)
                        \/ OpensPart(c) \/ WritesPart(c) \/ Renames(c) \/ SaveFails(c)
  \/ \E n \in SkillNames : Deletes(n) \/ RevertBegins(n)
  \/ RevertEnds \/ StopsHere

Spec == Init /\ [][Next]_skillVars

-----------------------------------------------------------------------------
\* A reader finds a skill complete or not at all, also in the middle of a save; unless
\* two writers of the skill met, one broke off, or a revert copies over it.
SkillsWhole ==
  \A n \in SkillNames : (skill[n] # NoFile /\ n \notin met /\ ~(revert.pc # "idle" /\ revert.name = n))
                          => skill[n].whole

\* Save, delete and revert can be taken back: what they replaced is in the history,
\* unless the copy could not be made or writers met.
SkillsReversible == dropped = {}

SkillsSound == SkillsWhole /\ SkillsReversible

\* Stated, and not so: "the same guarantee" of write and rename (write_file) when two
\* agents save one skill: a half-written file becomes the skill.
NeverHalf ==
  \A n \in SkillNames : (skill[n] # NoFile /\ revert.pc = "idle" /\ breaks = 0) => skill[n].whole

=============================================================================

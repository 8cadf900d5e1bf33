------------------------------ MODULE SessionSave ------------------------------
(***************************************************************************)
(* Writing one session to its file: save_session and its retry queue       *)
(* (wuffagent-core/src/sessions/persist.rs) on the UI thread and on the    *)
(* detached "session-save" workers (client/persist.rs), the disk functions *)
(* below it (sessions/mod.rs), and the panel's rename and delete, which    *)
(* write the same file without the save lock (ui/sessions_actions.rs).     *)
(*                                                                         *)
(* The conversation is the set of turns it holds, numbered as they are     *)
(* recorded; any other change of it counts as a turn. A file is a path's   *)
(* inode: an open descriptor follows the inode through a rename.           *)
(***************************************************************************)
EXTENDS Naturals, FiniteSets

CONSTANTS Workers,    \* save worker threads
          Ui,         \* the UI thread
          None,       \* no thread
          MaxTries,   \* attempts of one save: 1 and 3 retries in the code
          KeyModes,   \* whether a start of the program may find a key
          CanDelete,  \* the user may delete the session
          MaxTurns,   \* bound on recorded turns
          MaxFaults,  \* bound on failing file operations
          MaxCrashes, \* bound on exits and crashes of the program
          MaxRenames  \* bound on renames of the session

ASSUME ThreadAssumption == Ui \notin Workers /\ None \notin Workers \cup {Ui}
ASSUME KeyAssumption == KeyModes # {} /\ KeyModes \subseteq BOOLEAN /\ CanDelete \in BOOLEAN
ASSUME BoundAssumption == /\ MaxTries \in Nat \ {0}
                          /\ {MaxTurns, MaxFaults, MaxCrashes, MaxRenames} \subseteq Nat

VARIABLES
  conv,    \* the turns of SessionState.conversation
  clock,   \* turns recorded so far
  due,     \* the turns some save of this process was asked to write
  file,    \* <id>.json
  tmp,     \* <id>.tmp
  fd,      \* the inode each thread has open for writing
  lock,    \* the holder of save_lock
  job,     \* what each thread is doing
  pending, \* save_queue is not empty
  failed,  \* save_failed
  key,     \* the client has an encryption key
  name,    \* the session's name in the UI
  deleted, \* the session was deleted
  watched, \* the window has this session selected and draws frames
  left     \* faults, crashes and renames that may still happen

saveVars == <<lock, job, pending, failed>>
diskVars == <<file, tmp, fd>>
memVars  == <<conv, clock, due, key, name, deleted, watched>>
vars     == <<conv, clock, due, file, tmp, fd, lock, job, pending, failed, key,
              name, deleted, watched, left>>

Threads == Workers \cup {Ui}
Turns   == 1..MaxTurns

\* Session::new("Untitled"); the name the panel created it with; later names.
Untitled == 0
Created  == 1
Names    == 0..(MaxRenames + 1)

\* A truncated inode is "empty"; a partly written one is "torn".
Inodes == [kind : {"absent", "empty", "torn", "plain", "encrypted"},
           turns : SUBSET Turns, name : Names]
Blank(k) == [kind |-> k, turns |-> {}, name |-> Untitled]

Phases == {"idle", "want", "load", "write", "fill", "swap", "notify"}
Kinds  == {"save", "retry", "rename"}
Jobs   == [phase : Phases, kind : Kinds, turns : SUBSET Turns, name : Names, tries : 1..MaxTries]
At(p, k, n) == [phase |-> p, kind |-> k, turns |-> {}, name |-> n, tries |-> 1]
Idle == At("idle", "save", Untitled)

Goto(t, p) == job' = [job EXCEPT ![t].phase = p]
Submit(t, k) == job' = [job EXCEPT ![t] = At("want", k, Untitled)]

-----------------------------------------------------------------------------
(* What the disk functions read. *)

\* sessions::load_session parses plain JSON only; decrypt_and_load_session the rest.
PlainRead(f)   == f.kind = "plain"
DecryptRead(f) == key /\ f.kind = "encrypted"

\* persist::load_session at a start: with a key it does not try a plain read.
Restored(k, f) == f.kind = (IF k THEN "encrypted" ELSE "plain")

Init ==
  /\ conv = {} /\ clock = 0 /\ due = {}
  /\ file = [kind |-> "plain", turns |-> {}, name |-> Created]
  /\ tmp = Blank("absent")
  /\ fd = [t \in Threads |-> "none"]
  /\ lock = None
  /\ job = [t \in Threads |-> Idle]
  /\ pending = FALSE /\ failed = FALSE
  /\ key \in KeyModes
  /\ name = Created
  /\ deleted = FALSE /\ watched = FALSE
  /\ left = [faults |-> MaxFaults, crashes |-> MaxCrashes, renames |-> MaxRenames]

-----------------------------------------------------------------------------
(* The conversation and the UI thread between frames. *)

UiFree == job[Ui].phase = "idle" /\ ~deleted

\* A turn reaches the conversation store.
Record ==
  /\ clock < MaxTurns
  /\ ~deleted
  /\ clock' = clock + 1
  /\ conv' = conv \cup {clock + 1}
  /\ UNCHANGED <<due, diskVars, saveVars, key, name, deleted, left, watched>>

\* save_session_async at the end of a turn.
TurnEnds(w) ==
  /\ UiFree
  /\ job[w].phase = "idle"
  /\ ~(conv \subseteq due)
  /\ due' = conv
  /\ Submit(w, "save")
  /\ UNCHANGED <<conv, clock, diskVars, lock, pending, failed, key, name, deleted, left, watched>>

\* A save on the UI thread: Stop, sweep, edit, switch, restart, exit.
SaveNow ==
  /\ UiFree
  /\ due' = conv
  /\ Submit(Ui, "save")
  /\ UNCHANGED <<conv, clock, diskVars, lock, pending, failed, key, name, deleted, left, watched>>

\* A mistake: the queue is drained without a save.
RetryPendingDrops ==
  /\ UiFree
  /\ watched
  /\ pending
  /\ pending' = FALSE
  /\ UNCHANGED <<memVars, diskVars, lock, job, failed, left>>

\* The user selects another session or this one, or the window falls idle: egui
\* draws frames on input and while the selected session generates.
Watch ==
  /\ watched' = ~watched
  /\ UNCHANGED <<conv, clock, due, key, name, deleted, diskVars, saveVars, left>>

\* retry_pending_saves of the selected session's client, each frame.
RetryPending ==
  /\ UiFree
  /\ watched
  /\ pending
  /\ pending' = FALSE
  /\ Submit(Ui, "retry")
  /\ UNCHANGED <<memVars, diskVars, lock, failed, left>>

RenameRequested ==
  /\ UiFree
  /\ left.renames > 0
  /\ left' = [left EXCEPT !.renames = @ - 1]
  /\ job' = [job EXCEPT ![Ui] = At("load", "rename", MaxRenames - left.renames + 2)]
  /\ UNCHANGED <<memVars, diskVars, lock, pending, failed>>

\* A descriptor on an inode whose name is gone writes to nothing.
Unlinked == [t \in Threads |-> IF fd[t] = "file" THEN "gone" ELSE fd[t]]

DeleteSession ==
  /\ UiFree
  /\ CanDelete
  /\ file.kind # "absent"
  /\ file' = Blank("absent")
  /\ fd' = Unlinked
  /\ deleted' = TRUE
  /\ UNCHANGED <<conv, clock, due, tmp, saveVars, key, name, left, watched>>

-----------------------------------------------------------------------------
(* One save, step by step. *)

\* A mistake: the save lock of one save does not keep another out.
LockShared(t) ==
  /\ job[t].phase = "want"
  /\ lock' = t
  /\ job' = [job EXCEPT ![t].phase = "load", ![t].turns = conv]
  /\ UNCHANGED <<memVars, diskVars, pending, failed, left>>

\* save_lock is taken, then the conversation is snapshot.
Lock(t) ==
  /\ job[t].phase = "want"
  /\ lock = None
  /\ lock' = t
  /\ job' = [job EXCEPT ![t].phase = "load", ![t].turns = conv]
  /\ UNCHANGED <<memVars, diskVars, pending, failed, left>>

\* The save guard is dropped. Only a retry has a flag to clear after it.
Release(t, next) ==
  /\ lock' = None
  /\ job' = [job EXCEPT ![t] = At(next, "save", Untitled)]

\* A mistake: the save guard is a temporary that is dropped before the write.
LoadDiskReleases(t) ==
  /\ job[t].phase = "load"
  /\ job[t].kind # "rename"
  /\ file.kind = "absent" \/ PlainRead(file) \/ DecryptRead(file)
  /\ lock' = None
  /\ job' = [job EXCEPT ![t].phase = "write",
                        ![t].name = IF file.kind = "absent" THEN Untitled ELSE file.name]
  /\ UNCHANGED <<memVars, diskVars, pending, failed, left>>

\* A mistake: the session is built anew instead of from the file.
LoadDiskAnew(t) ==
  /\ job[t].phase = "load"
  /\ job[t].kind # "rename"
  /\ job' = [job EXCEPT ![t].phase = "write"]
  /\ UNCHANGED <<memVars, diskVars, lock, pending, failed, left>>

\* The name of the session on disk, or of a new one.
LoadDisk(t) ==
  /\ job[t].phase = "load"
  /\ job[t].kind # "rename"
  /\ file.kind = "absent" \/ PlainRead(file) \/ DecryptRead(file)
  /\ job' = [job EXCEPT ![t].phase = "write",
                        ![t].name = IF file.kind = "absent" THEN Untitled ELSE file.name]
  /\ UNCHANGED <<memVars, diskVars, lock, pending, failed, left>>

\* A mistake: the early return keeps the guard.
LoadFailsHolding(t) ==
  /\ job[t].phase = "load"
  /\ job[t].kind # "rename"
  /\ ~(file.kind = "absent" \/ PlainRead(file) \/ DecryptRead(file))
  /\ job' = [job EXCEPT ![t] = Idle]
  /\ UNCHANGED <<memVars, diskVars, lock, pending, failed, left>>

\* The file exists and cannot be read: Err("session not found"), which only a
\* retry enqueues.
LoadFails(t) ==
  /\ job[t].phase = "load"
  /\ job[t].kind # "rename"
  /\ ~(file.kind = "absent" \/ PlainRead(file) \/ DecryptRead(file))
  /\ Release(t, "idle")
  /\ pending' = (pending \/ job[t].kind = "retry")
  /\ failed' = (failed \/ job[t].kind = "retry")
  /\ UNCHANGED <<memVars, diskVars, left>>

\* A rename takes the history from the disk and its name from the user; a file
\* it cannot read is left alone.
RenameLoad ==
  /\ job[Ui].phase = "load"
  /\ job[Ui].kind = "rename"
  /\ IF PlainRead(file)
     THEN /\ job' = [job EXCEPT ![Ui].phase = "write", ![Ui].turns = file.turns]
          /\ UNCHANGED name
     ELSE /\ job' = [job EXCEPT ![Ui] = Idle]
          /\ name' = job[Ui].name
  /\ UNCHANGED <<conv, clock, due, key, deleted, diskVars, lock, pending, failed, left, watched>>

\* A rename writes plain JSON, whatever the key.
Encrypts(t) == key /\ job[t].kind # "rename"

\* A mistake: no temporary file.
InPlaceAlways(t) == job[t].kind # "rename"

\* encrypt_session writes <id>.json itself, save_session_atomic <id>.tmp.
InPlace(t) == Encrypts(t)

\* fs::write opens and truncates.
Truncate(t) ==
  /\ job[t].phase = "write"
  /\ Goto(t, "fill")
  /\ IF InPlace(t)
     THEN file' = Blank("empty") /\ fd' = [fd EXCEPT ![t] = "file"] /\ UNCHANGED tmp
     ELSE tmp' = Blank("empty") /\ fd' = [fd EXCEPT ![t] = "tmp"] /\ UNCHANGED file
  /\ UNCHANGED <<memVars, lock, pending, failed, left>>

\* The inode t writes to becomes `inode`.
Into(t, inode) ==
  /\ file' = IF fd[t] = "file" THEN inode ELSE file
  /\ tmp' = IF fd[t] = "tmp" THEN inode ELSE tmp

Document(t) == [kind |-> IF Encrypts(t) THEN "encrypted" ELSE "plain",
                turns |-> job[t].turns, name |-> job[t].name]

\* Written over what another thread put there, the longer document's tail stays.
Written(t) ==
  LET old == IF fd[t] = "file" THEN file ELSE tmp
  IN {Document(t)} \cup (IF old.kind = "empty" THEN {} ELSE {Blank("torn")})

\* retry_pending_saves clears the flag after the guard is dropped.
AfterSave(t) == IF job[t].kind = "retry" THEN "notify" ELSE "idle"

Saved(t) ==
  IF job[t].kind = "rename"
  THEN /\ job' = [job EXCEPT ![t] = Idle]
       /\ name' = job[t].name
       /\ UNCHANGED <<lock, pending>>
  ELSE /\ Release(t, AfterSave(t))
       /\ pending' = FALSE
       /\ UNCHANGED name

\* write_all completes; an encrypted save is done.
Fill(t) ==
  /\ job[t].phase = "fill"
  /\ \E inode \in Written(t) : Into(t, inode)
  /\ fd' = [fd EXCEPT ![t] = "none"]
  /\ IF InPlace(t)
     THEN Saved(t)
     ELSE Goto(t, "swap") /\ UNCHANGED <<lock, pending, name>>
  /\ UNCHANGED <<conv, clock, due, failed, key, deleted, left, watched>>

\* fs::rename of the temporary file over the session file.
Swap(t) ==
  /\ job[t].phase = "swap"
  /\ tmp.kind # "absent"
  /\ file' = tmp
  /\ tmp' = Blank("absent")
  /\ fd' = [u \in Threads |-> IF fd[u] = "tmp" THEN "file" ELSE Unlinked[u]]
  /\ Saved(t)
  /\ UNCHANGED <<conv, clock, due, failed, key, deleted, left, watched>>

\* A mistake: only the flag is set.
EnqueueNothing == pending' = pending /\ failed' = TRUE

\* enqueue_save_failure, under the guard; a retry enqueues once more.
Enqueue == pending' = TRUE /\ failed' = TRUE

\* A failed attempt: backoff and once more, or give up. A rename ignores it.
AttemptFails(t) ==
  \/ /\ job[t].kind = "rename"
     /\ job' = [job EXCEPT ![t] = Idle]
     /\ name' = job[t].name
     /\ UNCHANGED <<lock, pending, failed>>
  \/ /\ job[t].kind # "rename"
     /\ job[t].tries < MaxTries
     /\ job' = [job EXCEPT ![t].phase = "write", ![t].tries = @ + 1]
     /\ UNCHANGED <<lock, pending, failed, name>>
  \/ /\ job[t].kind # "rename"
     /\ job[t].tries = MaxTries
     /\ Release(t, "idle")
     /\ Enqueue
     /\ UNCHANGED name

\* A file operation fails; a write that fails leaves its inode partly written.
Fault(t) ==
  /\ job[t].phase \in {"write", "fill", "swap"}
  /\ left.faults > 0
  /\ left' = [left EXCEPT !.faults = @ - 1]
  /\ IF job[t].phase = "fill" THEN Into(t, Blank("torn")) ELSE UNCHANGED <<file, tmp>>
  /\ fd' = [fd EXCEPT ![t] = "none"]
  /\ AttemptFails(t)
  /\ UNCHANGED <<conv, clock, due, key, deleted, watched>>

\* The other writer has renamed the temporary file away.
SwapMissing(t) ==
  /\ job[t].phase = "swap"
  /\ tmp.kind = "absent"
  /\ AttemptFails(t)
  /\ UNCHANGED <<conv, clock, due, key, deleted, diskVars, left, watched>>

\* The end of a successful retry.
ClearFlag ==
  /\ job[Ui].phase = "notify"
  /\ failed' = FALSE
  /\ job' = [job EXCEPT ![Ui] = Idle]
  /\ UNCHANGED <<memVars, diskVars, lock, pending, left>>

-----------------------------------------------------------------------------
\* The program ends, cleanly or not, with its workers, and is started again: the
\* file survives, the conversation is loaded from it.
Restart ==
  /\ left.crashes > 0
  /\ left' = [left EXCEPT !.crashes = @ - 1]
  /\ \E k \in KeyModes :
       /\ key' = k
       /\ conv' = IF Restored(k, file) THEN file.turns ELSE {}
       /\ name' = IF Restored(k, file) THEN file.name ELSE Untitled
  /\ due' = {}
  /\ fd' = [t \in Threads |-> "none"]
  /\ lock' = None
  /\ job' = [t \in Threads |-> Idle]
  /\ pending' = FALSE /\ failed' = FALSE
  /\ UNCHANGED <<clock, file, tmp, deleted, watched>>

SaveStep(t) ==
  \/ Lock(t) \/ LoadDisk(t) \/ LoadFails(t)
  \/ Truncate(t) \/ Fill(t) \/ Swap(t) \/ SwapMissing(t)

Next ==
  \/ Record
  \/ \E w \in Workers : TurnEnds(w)
  \/ SaveNow
  \/ Watch
  \/ RetryPending
  \/ RenameRequested
  \/ DeleteSession
  \/ \E t \in Threads : SaveStep(t) \/ Fault(t)
  \/ RenameLoad
  \/ ClearFlag
  \/ Restart

Spec == Init /\ [][Next]_vars

\* Threads run and a free lock is taken. The last conjunct is the frame: it is drawn, with
\* this session selected, only while the session is watched, and nobody has to watch it.
FairSpec ==
  /\ Spec
  /\ \A t \in Threads : WF_vars(SaveStep(t))
  /\ WF_vars(RenameLoad) /\ WF_vars(ClearFlag) /\ WF_vars(RetryPending)

\* A plain session, the one of the theorems: never renamed, deleted or encrypted. These are all
\* the steps it can take.
NextOfPlain ==
  \/ Record
  \/ \E w \in Workers : TurnEnds(w)
  \/ SaveNow
  \/ Watch
  \/ RetryPending
  \/ \E t \in Threads : Lock(t) \/ LoadDisk(t) \/ Truncate(t) \/ Fill(t) \/ Swap(t) \/ Fault(t)
  \/ ClearFlag
  \/ Restart

PlainSpec ==
  /\ Init /\ [][NextOfPlain]_vars
  /\ \A t \in Threads : WF_vars(SaveStep(t))
  /\ WF_vars(ClearFlag) /\ WF_vars(RetryPending)

-----------------------------------------------------------------------------
(* Properties. *)

\* The state is well formed, and save_lock is held exactly by the thread that is
\* inside save_session, one at a time.
InSave(t) == job[t].kind # "rename" /\ job[t].phase \in {"load", "write", "fill", "swap"}

Types ==
  /\ conv \subseteq Turns /\ clock \in 0..MaxTurns /\ due \subseteq Turns
  /\ file \in Inodes /\ tmp \in Inodes
  /\ fd \in [Threads -> {"none", "tmp", "file", "gone"}]
  /\ lock \in Threads \cup {None}
  /\ job \in [Threads -> Jobs]
  /\ pending \in BOOLEAN /\ failed \in BOOLEAN /\ key \in KeyModes
  /\ name \in Names /\ deleted \in BOOLEAN /\ watched \in BOOLEAN
  /\ left \in [faults : 0..MaxFaults, crashes : 0..MaxCrashes, renames : 0..MaxRenames]

GuardHeld == \A t \in Threads : InSave(t) <=> lock = t

TypeOK == Types /\ GuardHeld

\* The session file can be read at every moment: no crash, failing write or
\* second saver leaves it half written (save_session_atomic, save_lock).
AlwaysReadable == file.kind \in {"plain", "encrypted"}

\* A turn that reached the session file stays in it, whatever order the saves of
\* the workers and of the UI thread run in.
TurnsStay == [][file.turns \subseteq file'.turns]_vars

\* What a save was asked to write is on the disk, or a save that will write it is
\* under way, or the retry queue remembers it (enqueue_save_failure).
Carries(t) == job[t].kind # "rename" /\
              \/ job[t].phase = "want"
              \/ InSave(t) /\ due \subseteq job[t].turns

NothingForgotten ==
  \/ due \subseteq file.turns
  \/ pending
  \/ \E t \in Threads : Carries(t)

\* Saves leave the name alone: the file carries the session's name although every
\* save builds its document from what it read before (save_session).
KeepsItsName == AlwaysReadable => file.name = name

\* What a save was asked to write reaches the disk once the disk works again, if the
\* user comes back to the session and the window goes on drawing it, unless the program
\* ends first (a start owes nothing): whatever failures, later saves and absences came
\* before, the retry queue still knows of it (retry_pending_saves, ChatApp::ui).
SavedInTheEnd == <>[]watched => \A n \in Turns : n \in due ~> n \in file.turns \/ n \notin due

\* The UI thread, which waits for save_lock and sleeps between attempts, comes
\* back to its frames, whatever the workers, the panel and the disk do.
UiComesBack == job[Ui].phase # "idle" ~> job[Ui].phase = "idle"

Restarts == left'.crashes < left.crashes

\* "atomic file write" (client/persist.rs, save_session_async): whenever the
\* program ends, it leaves a session file that can be read.
ReadableAfterExit == [][Restarts => AlwaysReadable]_vars

\* "Success: clear any pending queue and failure flag" (persist.rs, save_session):
\* the flag is set only while a failed save is to be repeated.
FlagMeansPending == failed => pending \/ \E t \in Threads : job[t].phase # "idle"

\* "Failures ... still surface through the shared save_failed flag"
\* (save_session_async): a turn that is not on the disk and on its way to nowhere
\* has the flag set.
FailureShows == due \subseteq file.turns \/ failed \/ \E t \in Threads : Carries(t)

\* "If the session file exists on disk it is loaded into the client"
\* (create_from_config): a start with a key holds what the file holds.
StartLoadsFile == [][Restarts /\ key' /\ AlwaysReadable => conv' = file.turns]_vars

\* "a subsequent save cannot resurrect the deleted session file" (clear_session).
DeletedStaysDeleted == deleted => file.kind = "absent"

===============================================================================

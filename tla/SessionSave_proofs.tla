-------------------------- MODULE SessionSave_proofs --------------------------
(***************************************************************************)
(* Proofs about SessionSave. TypeOK holds for every value of the constants *)
(* and so does the claim that save_lock is held exactly inside a save. The *)
(* other theorems are about sessions that are neither encrypted, renamed   *)
(* nor deleted (PlainOnly); SessionSave's violation runs show why each of  *)
(* the three has to be excluded.                                           *)
(***************************************************************************)
EXTENDS SessionSave, TLAPS

-----------------------------------------------------------------------------
(* Types and the save lock. *)

LEMMA AtTypes ==
  \A p \in Phases, k \in Kinds, n \in Names : At(p, k, n) \in Jobs
BY BoundAssumption DEF At, Jobs

LEMMA IdleType == Idle \in Jobs
BY AtTypes, BoundAssumption DEF Idle, Phases, Kinds, Names, Untitled

LEMMA BlankTypes ==
  \A k \in {"absent", "empty", "torn", "plain", "encrypted"} : Blank(k) \in Inodes
BY BoundAssumption DEF Blank, Inodes, Names, Untitled

LEMMA InitTypeOK == Init => TypeOK
<1> SUFFICES ASSUME Init PROVE TypeOK
  OBVIOUS
<1>1. Idle \in Jobs
  BY IdleType
<1>2. Blank("absent") \in Inodes /\ [kind |-> "plain", turns |-> {}, name |-> Created] \in Inodes
  BY BlankTypes, BoundAssumption DEF Inodes, Names, Created
<1>3. Types
  <2>1. clock \in 0..MaxTurns /\ conv \subseteq Turns /\ due \subseteq Turns /\ name \in Names
    BY BoundAssumption DEF Init, Names, Created
  <2>2. left \in [faults : 0..MaxFaults, crashes : 0..MaxCrashes, renames : 0..MaxRenames]
    BY BoundAssumption DEF Init
  <2>3. fd \in [Threads -> {"none", "tmp", "file", "gone"}] /\ job \in [Threads -> Jobs]
    BY <1>1 DEF Init
  <2>4. file \in Inodes /\ tmp \in Inodes
    BY <1>2 DEF Init
  <2>5. /\ lock \in Threads \cup {None} /\ pending \in BOOLEAN /\ failed \in BOOLEAN
        /\ deleted \in BOOLEAN /\ watched \in BOOLEAN /\ key \in KeyModes
    BY DEF Init
  <2> QED
    BY <2>1, <2>2, <2>3, <2>4, <2>5 DEF Types
<1>4. GuardHeld
  BY ThreadAssumption DEF Init, GuardHeld, InSave, Idle, At, Threads
<1> QED
  BY <1>3, <1>4 DEF TypeOK

\* Every step of a thread leaves its record well formed.
LEMMA JobTypes ==
  ASSUME job \in [Threads -> Jobs], NEW t \in Threads
  PROVE  /\ \A p \in Phases : [job EXCEPT ![t].phase = p] \in [Threads -> Jobs]
         /\ \A p \in Phases, n \in Names :
              [job EXCEPT ![t].phase = p, ![t].name = n] \in [Threads -> Jobs]
         /\ \A p \in Phases, ts \in SUBSET Turns :
              [job EXCEPT ![t].phase = p, ![t].turns = ts] \in [Threads -> Jobs]
         /\ \A j \in Jobs : [job EXCEPT ![t] = j] \in [Threads -> Jobs]
         /\ job[t].tries < MaxTries =>
              [job EXCEPT ![t].phase = "write", ![t].tries = @ + 1] \in [Threads -> Jobs]
<1>1. job[t] \in Jobs
  OBVIOUS
<1>2. \A j \in Jobs : [job EXCEPT ![t] = j] \in [Threads -> Jobs]
  OBVIOUS
<1>3. \A p \in Phases : [job EXCEPT ![t].phase = p] \in [Threads -> Jobs]
  BY <1>1 DEF Jobs
<1>4. \A p \in Phases, n \in Names :
        [job EXCEPT ![t].phase = p, ![t].name = n] \in [Threads -> Jobs]
  BY <1>1 DEF Jobs
<1>5. \A p \in Phases, ts \in SUBSET Turns :
        [job EXCEPT ![t].phase = p, ![t].turns = ts] \in [Threads -> Jobs]
  BY <1>1 DEF Jobs
<1>6. ASSUME job[t].tries < MaxTries
      PROVE  [job EXCEPT ![t].phase = "write", ![t].tries = @ + 1] \in [Threads -> Jobs]
  <2>1. job[t].tries + 1 \in 1..MaxTries
    BY <1>1, <1>6, BoundAssumption DEF Jobs
  <2> QED
    BY <1>1, <2>1 DEF Jobs, Phases
<1> QED
  BY <1>2, <1>3, <1>4, <1>5, <1>6

LEMMA DocumentType ==
  ASSUME job \in [Threads -> Jobs], NEW t \in Threads
  PROVE  Document(t) \in Inodes
BY DEF Document, Jobs, Inodes

LEMMA RecordTypes == Types /\ Record => Types'
<1> SUFFICES ASSUME Types, Record PROVE Types'
  OBVIOUS
<1>1. clock' \in 0..MaxTurns /\ conv' \subseteq Turns
  BY BoundAssumption DEF Record, Types, Turns
<1>2. /\ watched' = watched /\ due' = due /\ file' = file /\ tmp' = tmp /\ fd' = fd /\ lock' = lock
      /\ job' = job /\ pending' = pending /\ failed' = failed /\ key' = key
      /\ name' = name /\ deleted' = deleted /\ left' = left
  BY DEF Record, diskVars, saveVars
<1> QED
  BY <1>1, <1>2 DEF Types

LEMMA SubmitTypes ==
  ASSUME Types, NEW t \in Threads, NEW k \in Kinds, Submit(t, k)
  PROVE  job' \in [Threads -> Jobs]
<1>1. At("want", k, Untitled) \in Jobs
  BY AtTypes, BoundAssumption DEF Phases, Names, Untitled
<1>2. job \in [Threads -> Jobs]
  BY DEF Types
<1> QED
  BY <1>1, <1>2 DEF Submit

LEMMA SaveAskedTypes ==
  ASSUME Types, SaveNow \/ \E w \in Workers : TurnEnds(w)
  PROVE  Types'
<1>1. job' \in [Threads -> Jobs]
  BY SubmitTypes DEF SaveNow, TurnEnds, Threads, Kinds
<1>2. /\ watched' = watched /\ due' = conv /\ conv' = conv /\ clock' = clock /\ file' = file /\ tmp' = tmp
      /\ fd' = fd /\ lock' = lock /\ pending' = pending /\ failed' = failed
      /\ key' = key /\ name' = name /\ deleted' = deleted /\ left' = left
  BY DEF SaveNow, TurnEnds, diskVars
<1> QED
  BY <1>1, <1>2 DEF Types

LEMMA WatchTypes == Types /\ Watch => Types'
<1> SUFFICES ASSUME Types, Watch PROVE Types'
  OBVIOUS
<1>1. /\ due' = due /\ conv' = conv /\ clock' = clock /\ file' = file /\ tmp' = tmp
      /\ fd' = fd /\ lock' = lock /\ job' = job /\ pending' = pending
      /\ failed' = failed /\ key' = key /\ name' = name /\ deleted' = deleted
      /\ left' = left /\ watched' \in BOOLEAN
  BY DEF Watch, diskVars, saveVars
<1> QED
  BY <1>1 DEF Types

LEMMA RetryTypes == Types /\ RetryPending => Types'
<1> SUFFICES ASSUME Types, RetryPending PROVE Types'
  OBVIOUS
<1>1. job' \in [Threads -> Jobs]
  BY SubmitTypes DEF RetryPending, Threads, Kinds
<1>2. /\ watched' = watched /\ due' = due /\ conv' = conv /\ clock' = clock /\ file' = file /\ tmp' = tmp
      /\ fd' = fd /\ lock' = lock /\ pending' = FALSE /\ failed' = failed
      /\ key' = key /\ name' = name /\ deleted' = deleted /\ left' = left
  BY DEF RetryPending, memVars, diskVars
<1> QED
  BY <1>1, <1>2 DEF Types

LEMMA RenameRequestedTypes == Types /\ RenameRequested => Types'
<1> SUFFICES ASSUME Types, RenameRequested PROVE Types'
  OBVIOUS
<1>1. left.renames \in 1..MaxRenames /\ left.faults \in 0..MaxFaults
      /\ left.crashes \in 0..MaxCrashes
  BY BoundAssumption DEF Types, RenameRequested
<1>2. MaxRenames - left.renames + 2 \in Names
  BY <1>1, BoundAssumption DEF Names
<1>3. job' \in [Threads -> Jobs]
  <2>1. At("load", "rename", MaxRenames - left.renames + 2) \in Jobs
    BY <1>2, AtTypes DEF Phases, Kinds
  <2> QED
    BY <2>1, JobTypes DEF Types, RenameRequested, Threads
<1>4. left' \in [faults : 0..MaxFaults, crashes : 0..MaxCrashes, renames : 0..MaxRenames]
  BY <1>1, BoundAssumption DEF Types, RenameRequested
<1>5. /\ watched' = watched /\ due' = due /\ conv' = conv /\ clock' = clock /\ file' = file /\ tmp' = tmp
      /\ fd' = fd /\ lock' = lock /\ pending' = pending /\ failed' = failed
      /\ key' = key /\ name' = name /\ deleted' = deleted
  BY DEF RenameRequested, memVars, diskVars
<1> QED
  BY <1>3, <1>4, <1>5 DEF Types

LEMMA DeleteTypes == Types /\ DeleteSession => Types'
<1> SUFFICES ASSUME Types, DeleteSession PROVE Types'
  OBVIOUS
<1>1. file' \in Inodes
  BY BlankTypes DEF DeleteSession
<1>2. fd' \in [Threads -> {"none", "tmp", "file", "gone"}]
  BY DEF Types, DeleteSession, Unlinked
<1>3. /\ watched' = watched /\ due' = due /\ conv' = conv /\ clock' = clock /\ tmp' = tmp
      /\ lock' = lock /\ pending' = pending /\ failed' = failed /\ job' = job
      /\ key' = key /\ name' = name /\ deleted' = TRUE /\ left' = left
  BY DEF DeleteSession, saveVars
<1> QED
  BY <1>1, <1>2, <1>3 DEF Types

LEMMA LockTypes == ASSUME Types, NEW t \in Threads, Lock(t) PROVE Types'
<1>1. job' \in [Threads -> Jobs]
  <2>1. conv \in SUBSET Turns /\ job \in [Threads -> Jobs]
    BY DEF Types
  <2> QED
    BY <2>1, JobTypes DEF Lock, Phases
<1>2. /\ watched' = watched /\ due' = due /\ conv' = conv /\ clock' = clock /\ file' = file /\ tmp' = tmp
      /\ fd' = fd /\ lock' = t /\ pending' = pending /\ failed' = failed
      /\ key' = key /\ name' = name /\ deleted' = deleted /\ left' = left
  BY DEF Lock, memVars, diskVars
<1> QED
  BY <1>1, <1>2 DEF Types

LEMMA LoadDiskTypes == ASSUME Types, NEW t \in Threads, LoadDisk(t) PROVE Types'
<1>1. job' \in [Threads -> Jobs]
  <2>1. (IF file.kind = "absent" THEN Untitled ELSE file.name) \in Names
    BY BoundAssumption DEF Types, Inodes, Names, Untitled
  <2>2. job \in [Threads -> Jobs]
    BY DEF Types
  <2> QED
    BY ZenonT(40), <2>1, <2>2, JobTypes DEF LoadDisk, Phases
<1>2. /\ watched' = watched /\ due' = due /\ conv' = conv /\ clock' = clock /\ file' = file /\ tmp' = tmp
      /\ fd' = fd /\ lock' = lock /\ pending' = pending /\ failed' = failed
      /\ key' = key /\ name' = name /\ deleted' = deleted /\ left' = left
  BY DEF LoadDisk, memVars, diskVars
<1> QED
  BY <1>1, <1>2 DEF Types

\* The record of a thread whose save is over.
LEMMA ReleaseTypes ==
  ASSUME Types, NEW t \in Threads, NEW p \in Phases, Release(t, p)
  PROVE  job' \in [Threads -> Jobs] /\ lock' = None
<1>1. At(p, "save", Untitled) \in Jobs
  BY AtTypes, BoundAssumption DEF Kinds, Names, Untitled
<1> QED
  BY <1>1 DEF Release, Types

LEMMA LoadFailsTypes == ASSUME Types, NEW t \in Threads, LoadFails(t) PROVE Types'
<1>1. job' \in [Threads -> Jobs] /\ lock' = None
  BY ReleaseTypes DEF LoadFails, Phases
<1>2. pending' \in BOOLEAN /\ failed' \in BOOLEAN
  BY DEF LoadFails
<1>3. /\ watched' = watched /\ due' = due /\ conv' = conv /\ clock' = clock /\ file' = file /\ tmp' = tmp
      /\ fd' = fd /\ key' = key /\ name' = name /\ deleted' = deleted /\ left' = left
  BY DEF LoadFails, memVars, diskVars
<1> QED
  BY <1>1, <1>2, <1>3 DEF Types

LEMMA RenameLoadTypes == Types /\ RenameLoad => Types'
<1> SUFFICES ASSUME Types, RenameLoad PROVE Types'
  OBVIOUS
<1>1. job \in [Threads -> Jobs] /\ Ui \in Threads /\ file.turns \in SUBSET Turns
  BY DEF Types, Threads, Inodes
<1>2. job[Ui].name \in Names
  BY <1>1 DEF Jobs
<1>3. job' \in [Threads -> Jobs] /\ name' \in Names
  <2>1. CASE PlainRead(file)
    <3>1. job' = [job EXCEPT ![Ui].phase = "write", ![Ui].turns = file.turns] /\ name' = name
      BY <2>1 DEF RenameLoad
    <3> QED
      BY ZenonT(40), <3>1, <1>1, JobTypes DEF Phases, Types
  <2>2. CASE ~PlainRead(file)
    <3>1. job' = [job EXCEPT ![Ui] = Idle] /\ name' = job[Ui].name
      BY <2>2 DEF RenameLoad
    <3> QED
      BY <3>1, <1>1, <1>2, IdleType
  <2> QED
    BY <2>1, <2>2
<1>4. /\ watched' = watched /\ due' = due /\ conv' = conv /\ clock' = clock /\ file' = file /\ tmp' = tmp
      /\ fd' = fd /\ lock' = lock /\ pending' = pending /\ failed' = failed
      /\ key' = key /\ deleted' = deleted /\ left' = left
  BY DEF RenameLoad, diskVars
<1> QED
  BY <1>3, <1>4 DEF Types

LEMMA TruncateTypes == ASSUME Types, NEW t \in Threads, Truncate(t) PROVE Types'
<1>1. job' \in [Threads -> Jobs]
  <2>1. job \in [Threads -> Jobs]
    BY DEF Types
  <2> QED
    BY <2>1, JobTypes DEF Truncate, Goto, Phases
<1>2. file' \in Inodes /\ tmp' \in Inodes
  BY BlankTypes DEF Truncate, Types
<1>3. fd' \in [Threads -> {"none", "tmp", "file", "gone"}]
  BY DEF Truncate, Types
<1>4. /\ watched' = watched /\ due' = due /\ conv' = conv /\ clock' = clock /\ lock' = lock
      /\ pending' = pending /\ failed' = failed /\ key' = key /\ name' = name
      /\ deleted' = deleted /\ left' = left
  BY DEF Truncate, memVars
<1> QED
  BY <1>1, <1>2, <1>3, <1>4 DEF Types

LEMMA SavedTypes ==
  ASSUME Types, NEW t \in Threads, Saved(t)
  PROVE  /\ job' \in [Threads -> Jobs] /\ lock' \in Threads \cup {None}
         /\ pending' \in BOOLEAN /\ name' \in Names
<1>1. job \in [Threads -> Jobs] /\ job[t].name \in Names
  BY DEF Types, Jobs
<1>2. CASE job[t].kind = "rename"
  <2>1. /\ job' = [job EXCEPT ![t] = Idle] /\ name' = job[t].name
        /\ lock' = lock /\ pending' = pending
    BY <1>2 DEF Saved
  <2> QED
    BY <2>1, <1>1, IdleType DEF Types
<1>3. CASE job[t].kind # "rename"
  <2>1. Release(t, AfterSave(t)) /\ pending' = FALSE /\ name' = name
    BY <1>3 DEF Saved
  <2>2. AfterSave(t) \in Phases
    BY DEF AfterSave, Phases
  <2> QED
    BY <2>1, <2>2, ReleaseTypes DEF Types
<1> QED
  BY <1>2, <1>3

LEMMA FillTypes == ASSUME Types, NEW t \in Threads, Fill(t) PROVE Types'
<1>1. job \in [Threads -> Jobs]
  BY DEF Types
<1>2. file' \in Inodes /\ tmp' \in Inodes
  <2>1. \A inode \in Written(t) : inode \in Inodes
    BY <1>1, DocumentType, BlankTypes DEF Written
  <2>2. PICK inode \in Written(t) : Into(t, inode)
    BY DEF Fill
  <2> QED
    BY <2>1, <2>2 DEF Into, Types
<1>3. fd' \in [Threads -> {"none", "tmp", "file", "gone"}]
  BY DEF Fill, Types
<1>4. /\ job' \in [Threads -> Jobs] /\ lock' \in Threads \cup {None}
      /\ pending' \in BOOLEAN /\ name' \in Names
  <2>1. CASE InPlace(t)
    BY <2>1, SavedTypes DEF Fill
  <2>2. CASE ~InPlace(t)
    <3>1. Goto(t, "swap") /\ lock' = lock /\ pending' = pending /\ name' = name
      BY <2>2 DEF Fill
    <3> QED
      BY <3>1, <1>1, JobTypes DEF Goto, Phases, Types
  <2> QED
    BY <2>1, <2>2
<1>5. /\ watched' = watched /\ due' = due /\ conv' = conv /\ clock' = clock /\ failed' = failed /\ key' = key
      /\ deleted' = deleted /\ left' = left
  BY DEF Fill
<1> QED
  BY <1>2, <1>3, <1>4, <1>5 DEF Types

LEMMA SwapTypes == ASSUME Types, NEW t \in Threads, Swap(t) PROVE Types'
<1>1. file' \in Inodes /\ tmp' \in Inodes
  BY BlankTypes DEF Swap, Types
<1>2. fd' \in [Threads -> {"none", "tmp", "file", "gone"}]
  BY DEF Swap, Types, Unlinked
<1>3. /\ job' \in [Threads -> Jobs] /\ lock' \in Threads \cup {None}
      /\ pending' \in BOOLEAN /\ name' \in Names
  BY SavedTypes DEF Swap
<1>4. /\ watched' = watched /\ due' = due /\ conv' = conv /\ clock' = clock /\ failed' = failed /\ key' = key
      /\ deleted' = deleted /\ left' = left
  BY DEF Swap
<1> QED
  BY <1>1, <1>2, <1>3, <1>4 DEF Types

LEMMA AttemptTypes ==
  ASSUME Types, NEW t \in Threads, AttemptFails(t)
  PROVE  /\ job' \in [Threads -> Jobs] /\ lock' \in Threads \cup {None}
         /\ pending' \in BOOLEAN /\ failed' \in BOOLEAN /\ name' \in Names
<1>1. job \in [Threads -> Jobs] /\ job[t].name \in Names
  BY DEF Types, Jobs
<1>2. CASE job[t].kind = "rename"
  <2>1. /\ job' = [job EXCEPT ![t] = Idle] /\ name' = job[t].name
        /\ lock' = lock /\ pending' = pending /\ failed' = failed
    BY <1>2 DEF AttemptFails
  <2> QED
    BY <2>1, <1>1, IdleType DEF Types
<1>3. CASE job[t].kind # "rename" /\ job[t].tries < MaxTries
  <2>1. job[t].tries # MaxTries
    BY <1>1, <1>3, BoundAssumption DEF Jobs
  <2>2. /\ job' = [job EXCEPT ![t].phase = "write", ![t].tries = @ + 1]
        /\ lock' = lock /\ pending' = pending /\ failed' = failed /\ name' = name
    BY <1>3, <2>1 DEF AttemptFails
  <2> QED
    BY <2>2, <1>1, <1>3, JobTypes DEF Types
<1>4. CASE job[t].kind # "rename" /\ ~(job[t].tries < MaxTries)
  <2>1. Release(t, "idle") /\ Enqueue /\ name' = name
    BY <1>4 DEF AttemptFails
  <2> QED
    BY <2>1, ReleaseTypes DEF Types, Enqueue, Phases
<1> QED
  BY <1>2, <1>3, <1>4

LEMMA FaultTypes == ASSUME Types, NEW t \in Threads, Fault(t) PROVE Types'
<1>1. /\ job' \in [Threads -> Jobs] /\ lock' \in Threads \cup {None}
      /\ pending' \in BOOLEAN /\ failed' \in BOOLEAN /\ name' \in Names
  BY AttemptTypes DEF Fault
<1>2. file' \in Inodes /\ tmp' \in Inodes
  BY BlankTypes DEF Fault, Into, Types
<1>3. fd' \in [Threads -> {"none", "tmp", "file", "gone"}]
  BY DEF Fault, Types
<1>4. left' \in [faults : 0..MaxFaults, crashes : 0..MaxCrashes, renames : 0..MaxRenames]
  <2>1. left.faults - 1 \in 0..MaxFaults
    BY BoundAssumption DEF Fault, Types
  <2> QED
    BY <2>1 DEF Fault, Types
<1>5. /\ watched' = watched /\ due' = due /\ conv' = conv /\ clock' = clock /\ key' = key /\ deleted' = deleted
  BY DEF Fault
<1> QED
  BY <1>1, <1>2, <1>3, <1>4, <1>5 DEF Types

LEMMA SwapMissingTypes == ASSUME Types, NEW t \in Threads, SwapMissing(t) PROVE Types'
<1>1. /\ job' \in [Threads -> Jobs] /\ lock' \in Threads \cup {None}
      /\ pending' \in BOOLEAN /\ failed' \in BOOLEAN /\ name' \in Names
  BY AttemptTypes DEF SwapMissing
<1>2. /\ watched' = watched /\ due' = due /\ conv' = conv /\ clock' = clock /\ key' = key /\ deleted' = deleted
      /\ file' = file /\ tmp' = tmp /\ fd' = fd /\ left' = left
  BY DEF SwapMissing, diskVars
<1> QED
  BY <1>1, <1>2 DEF Types

LEMMA ClearFlagTypes == Types /\ ClearFlag => Types'
<1> SUFFICES ASSUME Types, ClearFlag PROVE Types'
  OBVIOUS
<1>1. job' \in [Threads -> Jobs]
  BY IdleType DEF ClearFlag, Types
<1>2. /\ watched' = watched /\ due' = due /\ conv' = conv /\ clock' = clock /\ file' = file /\ tmp' = tmp
      /\ fd' = fd /\ lock' = lock /\ pending' = pending /\ failed' = FALSE
      /\ key' = key /\ name' = name /\ deleted' = deleted /\ left' = left
  BY DEF ClearFlag, memVars, diskVars
<1> QED
  BY <1>1, <1>2 DEF Types

LEMMA RestartTypes == Types /\ Restart => Types'
<1> SUFFICES ASSUME Types, Restart PROVE Types'
  OBVIOUS
<1>1. conv' \subseteq Turns /\ name' \in Names /\ key' \in KeyModes
  <2>1. file.turns \subseteq Turns /\ file.name \in Names /\ Untitled \in Names
    BY BoundAssumption DEF Types, Inodes, Names, Untitled
  <2> QED
    BY <2>1 DEF Restart
<1>2. left' \in [faults : 0..MaxFaults, crashes : 0..MaxCrashes, renames : 0..MaxRenames]
  <2>1. left.crashes - 1 \in 0..MaxCrashes
    BY BoundAssumption DEF Restart, Types
  <2> QED
    BY <2>1 DEF Restart, Types
<1>3. /\ job' = [t \in Threads |-> Idle] /\ fd' = [t \in Threads |-> "none"]
      /\ watched' = watched /\ due' = {} /\ lock' = None /\ pending' = FALSE /\ failed' = FALSE
      /\ clock' = clock /\ file' = file /\ tmp' = tmp /\ deleted' = deleted
  BY DEF Restart
<1>4. job' \in [Threads -> Jobs] /\ fd' \in [Threads -> {"none", "tmp", "file", "gone"}]
  BY <1>3, IdleType
<1> QED
  BY <1>1, <1>2, <1>3, <1>4 DEF Types

LEMMA NextTypes == Types /\ Next => Types'
<1> SUFFICES ASSUME Types, Next PROVE Types'
  OBVIOUS
<1>1. CASE Record \/ Watch
  BY <1>1, RecordTypes, WatchTypes
<1>2. CASE SaveNow \/ \E w \in Workers : TurnEnds(w)
  BY <1>2, SaveAskedTypes
<1>3. CASE RetryPending \/ RenameRequested \/ DeleteSession
  BY <1>3, RetryTypes, RenameRequestedTypes, DeleteTypes
<1>4. CASE \E t \in Threads : SaveStep(t) \/ Fault(t)
  <2>1. PICK t \in Threads : SaveStep(t) \/ Fault(t)
    BY <1>4
  <2> QED
    BY <2>1, LockTypes, LoadDiskTypes, LoadFailsTypes, TruncateTypes, FillTypes,
       SwapTypes, SwapMissingTypes, FaultTypes DEF SaveStep
<1>5. CASE RenameLoad \/ ClearFlag \/ Restart
  BY <1>5, RenameLoadTypes, ClearFlagTypes, RestartTypes
<1> QED
  BY <1>1, <1>2, <1>3, <1>4, <1>5 DEF Next

-----------------------------------------------------------------------------
(* The save lock. *)

\* A thread that stays out of a save leaves the others' guard alone.
LEMMA GuardOutside ==
  ASSUME Types, GuardHeld, NEW t \in Threads, NEW j \in Jobs,
         lock' = lock, job' = [job EXCEPT ![t] = j], ~InSave(t), ~InSave(t)'
  PROVE  GuardHeld'
BY DEF Types, GuardHeld, InSave

\* A thread inside a save that stays inside it.
LEMMA GuardInside ==
  ASSUME Types, GuardHeld, NEW t \in Threads, NEW j \in Jobs,
         lock' = lock, job' = [job EXCEPT ![t] = j], InSave(t), InSave(t)'
  PROVE  GuardHeld'
BY DEF Types, GuardHeld, InSave

\* The guard is dropped together with the save.
LEMMA GuardReleased ==
  ASSUME Types, GuardHeld, NEW t \in Threads, NEW p \in Phases, InSave(t),
         p \in {"idle", "notify"}, Release(t, p)
  PROVE  GuardHeld'
<1>1. lock = t /\ lock' = None /\ job' = [job EXCEPT ![t] = At(p, "save", Untitled)]
  BY DEF GuardHeld, Release
<1>2. ~InSave(t)'
  BY <1>1 DEF Types, InSave, At
<1>3. \A u \in Threads \ {t} : ~InSave(u)'
  BY <1>1 DEF Types, GuardHeld, InSave
<1> QED
  BY <1>1, <1>2, <1>3, ThreadAssumption DEF GuardHeld, Threads

\* Only saves wait for the lock: a rename never does.
NoRenameWaits == \A t \in Threads : job[t].phase = "want" => job[t].kind # "rename"

Guarded == GuardHeld /\ NoRenameWaits

\* A thread that gets record j, seen from outside.
LEMMA OneRecord ==
  ASSUME Types, NoRenameWaits, NEW t \in Threads, NEW j \in Jobs,
         job' = [job EXCEPT ![t] = j], j.phase = "want" => j.kind # "rename"
  PROVE  NoRenameWaits'
BY DEF Types, NoRenameWaits

LEMMA SubmitGuarded ==
  ASSUME Types, Guarded, NEW t \in Threads, NEW k \in {"save", "retry"}, Submit(t, k),
         job[t].phase = "idle", lock' = lock
  PROVE  Guarded'
<1> DEFINE j == At("want", k, Untitled)
<1>1. j \in Jobs
  BY AtTypes, BoundAssumption DEF Phases, Kinds, Names, Untitled
<1>2. job' = [job EXCEPT ![t] = j]
  BY DEF Submit
<1>3. ~InSave(t) /\ ~InSave(t)'
  BY <1>2 DEF InSave, Types, At
<1>4. j.phase = "want" => j.kind # "rename"
  BY DEF At
<1> HIDE DEF j
<1> QED
  BY <1>1, <1>2, <1>3, <1>4, GuardOutside, OneRecord DEF Guarded

\* A thread that is outside of a save goes idle.
LEMMA IdleGuarded ==
  ASSUME Types, Guarded, NEW t \in Threads, ~InSave(t),
         job' = [job EXCEPT ![t] = Idle], lock' = lock
  PROVE  Guarded'
<1>1. ~InSave(t)'
  BY DEF InSave, Types, Idle, At
<1>2. Idle.phase = "want" => Idle.kind # "rename"
  BY DEF Idle, At
<1> QED
  BY <1>1, <1>2, IdleType, GuardOutside, OneRecord DEF Guarded

\* A thread past the lock moves on within its phases.
LEMMA MoveGuarded ==
  ASSUME Types, Guarded, NEW t \in Threads, NEW j \in Jobs,
         job' = [job EXCEPT ![t] = j], lock' = lock, j.kind = job[t].kind,
         job[t].phase \in {"load", "write", "fill", "swap"},
         j.phase \in {"load", "write", "fill", "swap"}
  PROVE  Guarded'
<1>1. job'[t] = j
  BY DEF Types
<1>2. CASE job[t].kind = "rename"
  BY <1>1, <1>2, GuardOutside, OneRecord DEF Guarded, InSave
<1>3. CASE job[t].kind # "rename"
  BY <1>1, <1>3, GuardInside, OneRecord DEF Guarded, InSave
<1> QED
  BY <1>2, <1>3

LEMMA ReleaseGuarded ==
  ASSUME Types, Guarded, NEW t \in Threads, NEW p \in {"idle", "notify"},
         InSave(t), Release(t, p)
  PROVE  Guarded'
<1> DEFINE j == At(p, "save", Untitled)
<1>1. j \in Jobs
  BY AtTypes, BoundAssumption DEF Phases, Kinds, Names, Untitled
<1>2. job' = [job EXCEPT ![t] = j]
  BY DEF Release
<1>3. j.phase = "want" => j.kind # "rename"
  BY DEF At
<1>4. NoRenameWaits'
  <2> HIDE DEF j
  <2> QED
    BY <1>1, <1>2, <1>3, OneRecord DEF Guarded
<1>5. GuardHeld'
  BY GuardReleased DEF Guarded, Phases
<1> QED
  BY <1>4, <1>5 DEF Guarded

LEMMA SavedGuarded ==
  ASSUME Types, Guarded, NEW t \in Threads, Saved(t),
         job[t].phase \in {"load", "write", "fill", "swap"}
  PROVE  Guarded'
<1>1. CASE job[t].kind = "rename"
  BY <1>1, IdleGuarded DEF Saved, InSave
<1>2. CASE job[t].kind # "rename"
  BY <1>2, ReleaseGuarded DEF Saved, InSave, AfterSave
<1> QED
  BY <1>1, <1>2

LEMMA AttemptGuarded ==
  ASSUME Types, Guarded, NEW t \in Threads, AttemptFails(t),
         job[t].phase \in {"write", "fill", "swap"}
  PROVE  Guarded'
<1>1. CASE job[t].kind = "rename"
  BY <1>1, IdleGuarded DEF AttemptFails, InSave
<1>2. CASE job[t].kind # "rename" /\ job[t].tries < MaxTries
  <2> DEFINE j == [job[t] EXCEPT !.phase = "write", !.tries = @ + 1]
  <2>1. job[t] \in Jobs /\ job[t].tries # MaxTries
    BY <1>2, BoundAssumption DEF Types, Jobs
  <2>2. job[t].tries + 1 \in 1..MaxTries
    BY <1>2, <2>1, BoundAssumption DEF Jobs
  <2>3. j \in Jobs /\ j.phase = "write" /\ j.kind = job[t].kind
    BY <2>1, <2>2 DEF Jobs, Phases
  <2>4. job' = [job EXCEPT ![t] = j] /\ lock' = lock
    BY <1>2, <2>1 DEF AttemptFails
  <2> HIDE DEF j
  <2> QED
    BY <2>3, <2>4, MoveGuarded
<1>3. CASE job[t].kind # "rename" /\ ~(job[t].tries < MaxTries)
  BY <1>3, ReleaseGuarded DEF AttemptFails, InSave
<1> QED
  BY <1>1, <1>2, <1>3

LEMMA LockGuarded == ASSUME Types, Guarded, NEW t \in Threads, Lock(t) PROVE Guarded'
<1>1. job' = [job EXCEPT ![t].phase = "load", ![t].turns = conv] /\ lock' = t /\ lock = None
  BY DEF Lock
<1>2. job'[t].phase = "load" /\ job'[t].kind # "rename"
  BY <1>1 DEF Lock, Guarded, NoRenameWaits, Types, Jobs
<1>3. \A u \in Threads \ {t} : job'[u] = job[u]
  BY <1>1 DEF Types
<1>4. \A u \in Threads : ~InSave(u)
  BY <1>1, ThreadAssumption DEF Guarded, GuardHeld, Threads
<1>5. GuardHeld'
  BY <1>1, <1>2, <1>3, <1>4 DEF GuardHeld, InSave
<1>6. NoRenameWaits'
  BY <1>2, <1>3 DEF Guarded, NoRenameWaits
<1> QED
  BY <1>5, <1>6 DEF Guarded

LEMMA LoadDiskGuarded == ASSUME Types, Guarded, NEW t \in Threads, LoadDisk(t) PROVE Guarded'
<1> DEFINE n == IF file.kind = "absent" THEN Untitled ELSE file.name
           j == [job[t] EXCEPT !.phase = "write", !.name = n]
<1>1. n \in Names /\ job[t] \in Jobs
  BY BoundAssumption DEF Types, Inodes, Names, Untitled
<1>2. job' = [job EXCEPT ![t] = j] /\ lock' = lock
  BY DEF LoadDisk
<1> HIDE DEF n
<1>3. j \in Jobs /\ j.phase = "write" /\ j.kind = job[t].kind
  BY <1>1 DEF Jobs, Phases
<1> HIDE DEF j
<1> QED
  BY <1>2, <1>3, MoveGuarded DEF LoadDisk

LEMMA GotoGuarded ==
  ASSUME Types, Guarded, NEW t \in Threads, NEW p \in {"load", "write", "fill", "swap"},
         Goto(t, p), lock' = lock, job[t].phase \in {"load", "write", "fill", "swap"}
  PROVE  Guarded'
<1> DEFINE j == [job[t] EXCEPT !.phase = p]
<1>1. j \in Jobs /\ j.phase = p /\ j.kind = job[t].kind
  BY DEF Types, Jobs, Phases
<1>2. job' = [job EXCEPT ![t] = j]
  BY DEF Goto
<1> HIDE DEF j
<1> QED
  BY <1>1, <1>2, MoveGuarded

LEMMA RenameLoadGuarded == Types /\ Guarded /\ RenameLoad => Guarded'
<1> SUFFICES ASSUME Types, Guarded, RenameLoad PROVE Guarded'
  OBVIOUS
<1>1. CASE PlainRead(file)
  <2> DEFINE j == [job[Ui] EXCEPT !.phase = "write", !.turns = file.turns]
  <2>1. Ui \in Threads /\ job[Ui] \in Jobs /\ file.turns \in SUBSET Turns
    BY DEF Threads, Types, Inodes
  <2>2. j \in Jobs /\ j.phase = "write" /\ j.kind = job[Ui].kind
    BY <2>1 DEF Jobs, Phases
  <2>3. job' = [job EXCEPT ![Ui] = j] /\ lock' = lock
    BY <1>1 DEF RenameLoad
  <2>4. job[Ui].phase \in {"load", "write", "fill", "swap"}
    BY DEF RenameLoad
  <2> HIDE DEF j
  <2> QED
    BY <2>1, <2>2, <2>3, <2>4, MoveGuarded
<1>2. CASE ~PlainRead(file)
  BY <1>2, IdleGuarded DEF RenameLoad, InSave, Threads
<1> QED
  BY <1>1, <1>2

LEMMA RenameRequestedGuarded == Types /\ Guarded /\ RenameRequested => Guarded'
<1> SUFFICES ASSUME Types, Guarded, RenameRequested PROVE Guarded'
  OBVIOUS
<1> DEFINE j == At("load", "rename", MaxRenames - left.renames + 2)
<1>1. MaxRenames - left.renames + 2 \in Names
  BY BoundAssumption DEF Types, RenameRequested, Names
<1>2. j \in Jobs
  BY <1>1, AtTypes DEF Phases, Kinds
<1>3. j.phase = "load" /\ j.kind = "rename"
  BY DEF At
<1>4. Ui \in Threads /\ job' = [job EXCEPT ![Ui] = j] /\ lock' = lock /\ ~InSave(Ui)
  BY DEF RenameRequested, Threads, UiFree, InSave
<1> HIDE DEF j
<1>5. ~InSave(Ui)'
  BY <1>3, <1>4 DEF Types, InSave
<1> QED
  BY <1>2, <1>3, <1>4, <1>5, GuardOutside, OneRecord DEF Guarded

LEMMA NextGuarded == Types /\ Guarded /\ Next => Guarded'
<1> SUFFICES ASSUME Types, Guarded, Next PROVE Guarded'
  OBVIOUS
<1>1. CASE Record \/ Watch \/ DeleteSession
  <2>1. lock' = lock /\ job' = job
    BY <1>1 DEF Record, Watch, DeleteSession, saveVars
  <2> QED
    BY <2>1 DEF Guarded, GuardHeld, NoRenameWaits, InSave
<1>2. CASE SaveNow \/ RetryPending \/ \E w \in Workers : TurnEnds(w)
  BY <1>2, SubmitGuarded DEF SaveNow, RetryPending, TurnEnds, UiFree, Threads
<1>3. CASE RenameRequested
  BY <1>3, RenameRequestedGuarded
<1>4. CASE \E t \in Threads : SaveStep(t) \/ Fault(t)
  <2>1. PICK t \in Threads : SaveStep(t) \/ Fault(t)
    BY <1>4
  <2>2. CASE Lock(t) \/ LoadDisk(t)
    BY <2>2, LockGuarded, LoadDiskGuarded
  <2>3. CASE LoadFails(t)
    BY <2>3, ReleaseGuarded DEF LoadFails, InSave
  <2>4. CASE Truncate(t)
    BY <2>4, GotoGuarded DEF Truncate
  <2>5. CASE Fill(t)
    <3>1. CASE InPlace(t)
      BY <2>5, <3>1, SavedGuarded DEF Fill
    <3>2. CASE ~InPlace(t)
      BY <2>5, <3>2, GotoGuarded DEF Fill
    <3> QED
      BY <3>1, <3>2
  <2>6. CASE Swap(t)
    BY <2>6, SavedGuarded DEF Swap
  <2>7. CASE SwapMissing(t) \/ Fault(t)
    BY <2>7, AttemptGuarded DEF SwapMissing, Fault
  <2> QED
    BY <2>1, <2>2, <2>3, <2>4, <2>5, <2>6, <2>7 DEF SaveStep
<1>5. CASE RenameLoad
  BY <1>5, RenameLoadGuarded
<1>6. CASE ClearFlag
  BY <1>6, IdleGuarded DEF ClearFlag, InSave, Threads
<1>7. CASE Restart
  <2>1. lock' = None /\ job' = [t \in Threads |-> Idle]
    BY <1>7 DEF Restart
  <2> QED
    BY <2>1, ThreadAssumption DEF Guarded, GuardHeld, NoRenameWaits, InSave, Idle, At, Threads
<1> QED
  BY <1>1, <1>2, <1>3, <1>4, <1>5, <1>6, <1>7 DEF Next

LEMMA TypeInvariant == Spec => [](TypeOK /\ NoRenameWaits)
<1>1. Init => TypeOK /\ NoRenameWaits
  BY InitTypeOK DEF Init, NoRenameWaits, Idle, At
<1>2. TypeOK /\ NoRenameWaits /\ [Next]_vars => (TypeOK /\ NoRenameWaits)'
  <2> SUFFICES ASSUME TypeOK, NoRenameWaits, [Next]_vars PROVE (TypeOK /\ NoRenameWaits)'
    OBVIOUS
  <2>1. CASE Next
    BY <2>1, NextTypes, NextGuarded DEF TypeOK, Guarded
  <2>2. CASE UNCHANGED vars
    <3>1. /\ watched' = watched /\ due' = due /\ conv' = conv /\ clock' = clock /\ file' = file /\ tmp' = tmp
          /\ fd' = fd /\ lock' = lock /\ job' = job /\ pending' = pending
          /\ failed' = failed /\ key' = key /\ name' = name /\ deleted' = deleted
          /\ left' = left
      BY <2>2 DEF vars
    <3>2. Types'
      BY <3>1 DEF TypeOK, Types
    <3>3. (GuardHeld /\ NoRenameWaits)'
      BY <3>1 DEF TypeOK, GuardHeld, NoRenameWaits, InSave
    <3> QED
      BY <3>2, <3>3 DEF TypeOK
  <2> QED
    BY <2>1, <2>2
<1> QED
  BY <1>1, <1>2, PTL DEF Spec

\* The state of a session's saves is well formed in every reachable state, and
\* save_lock is held exactly by the thread that is inside save_session: no early
\* return, retry, failure or restart leaks the guard or lets two savers in.
THEOREM TypeCorrect == Spec => []TypeOK
<1>1. TypeOK /\ NoRenameWaits => TypeOK
  OBVIOUS
<1> QED
  BY <1>1, TypeInvariant, PTL

-----------------------------------------------------------------------------
(***************************************************************************)
(* Plain sessions. The argument: a save replaces the file by a rename only *)
(* (Draft), it holds the lock from its snapshot to that rename, and since  *)
(* the conversation only grows, each snapshot contains the one the file    *)
(* was written from (Grows). A request that comes after the snapshot is    *)
(* itself still waiting for the lock (Owed), so that the success of an     *)
(* older save may clear the retry queue.                                   *)
(***************************************************************************)
PlainOnly == KeyModes = {FALSE} /\ MaxRenames = 0 /\ CanDelete = FALSE

Undisturbed ==
  /\ key = FALSE /\ deleted = FALSE /\ left.renames = 0
  /\ \A t \in Threads : job[t].kind # "rename"

Draft ==
  /\ file.kind = "plain"
  /\ \A t \in Threads :
       /\ fd[t] = IF job[t].phase = "fill" THEN "tmp" ELSE "none"
       /\ job[t].phase = "fill" => tmp.kind = "empty"
       /\ job[t].phase = "swap" => tmp = [kind |-> "plain", turns |-> job[t].turns,
                                          name |-> job[t].name]

Grows ==
  /\ file.turns \subseteq conv
  /\ \A t \in Threads : lock = t => file.turns \subseteq job[t].turns
                                   /\ job[t].turns \subseteq conv

Waits == \E t \in Threads : job[t].phase = "want"

Owed ==
  /\ due \subseteq conv
  /\ \A t \in Threads : lock = t => due \subseteq job[t].turns \/ Waits
  /\ \/ due \subseteq file.turns
     \/ pending
     \/ Waits
     \/ \E t \in Threads : lock = t /\ due \subseteq job[t].turns

SameName ==
  /\ file.name = name
  /\ \A t \in Threads : job[t].phase \in {"write", "fill", "swap"} => job[t].name = name

PlainInv == Undisturbed /\ Draft /\ Grows /\ Owed /\ SameName

\* In a session without renames, the phases past the lock are the guarded ones.
LEMMA GuardedPhases ==
  ASSUME Types, GuardHeld, Undisturbed
  PROVE  \A t \in Threads : job[t].phase \in {"load", "write", "fill", "swap"} <=> lock = t
BY DEF GuardHeld, InSave, Undisturbed

LEMMA PlainInit == PlainOnly /\ Init => PlainInv
<1> SUFFICES ASSUME PlainOnly, Init PROVE PlainInv
  OBVIOUS
<1>1. job = [t \in Threads |-> Idle] /\ Idle.phase = "idle" /\ Idle.kind = "save"
  BY DEF Init, Idle, At
<1>2. Undisturbed
  BY <1>1 DEF Init, PlainOnly, Undisturbed
<1>3. Draft
  BY <1>1 DEF Init, Draft
<1>4. Grows /\ Owed
  BY ThreadAssumption DEF Init, Grows, Owed, Threads
<1>5. SameName
  BY <1>1 DEF Init, SameName
<1> QED
  BY <1>2, <1>3, <1>4, <1>5 DEF PlainInv

LEMMA PlainRecord == ASSUME Types, PlainInv, Record PROVE PlainInv'
<1>1. /\ due' = due /\ file' = file /\ tmp' = tmp /\ fd' = fd /\ lock' = lock
      /\ job' = job /\ pending' = pending /\ key' = key /\ name' = name
      /\ deleted' = deleted /\ left' = left /\ conv \subseteq conv'
  BY DEF Record, diskVars, saveVars
<1>2. (Undisturbed /\ Draft /\ SameName)'
  BY <1>1 DEF PlainInv, Undisturbed, Draft, SameName
<1>3. (Grows /\ Owed)'
  BY <1>1 DEF PlainInv, Grows, Owed, Waits
<1> QED
  BY <1>2, <1>3 DEF PlainInv

LEMMA PlainWatch == ASSUME PlainInv, Watch PROVE PlainInv'
<1>1. /\ due' = due /\ conv' = conv /\ file' = file /\ tmp' = tmp /\ fd' = fd
      /\ lock' = lock /\ job' = job /\ pending' = pending /\ key' = key /\ name' = name
      /\ deleted' = deleted /\ left' = left
  BY DEF Watch, diskVars, saveVars
<1>2. Undisturbed' /\ Draft'
  BY <1>1 DEF PlainInv, Undisturbed, Draft
<1>3. Grows' /\ Owed' /\ SameName'
  BY <1>1 DEF PlainInv, Grows, Owed, Waits, SameName
<1> QED
  BY <1>2, <1>3 DEF PlainInv

\* A thread that was idle asks for a save of everything.
LEMMA PlainSubmit ==
  ASSUME Types, GuardHeld, PlainInv, NEW t \in Threads, NEW k \in {"save", "retry"},
         Submit(t, k), job[t].phase = "idle", due' \subseteq conv,
         conv' = conv, file' = file, tmp' = tmp, fd' = fd, lock' = lock, key' = key,
         name' = name, deleted' = deleted, left' = left
  PROVE  PlainInv'
<1>1. /\ job'[t].phase = "want" /\ job'[t].kind = k
      /\ \A u \in Threads \ {t} : job'[u] = job[u]
  BY DEF Submit, Types, At
<1>2. Waits'
  BY <1>1 DEF Waits
<1>3. lock # t
  BY GuardedPhases DEF PlainInv
<1>4. Undisturbed'
  BY <1>1 DEF PlainInv, Undisturbed
<1>5. Draft'
  BY <1>1 DEF PlainInv, Draft
<1>6. Grows'
  BY <1>1, <1>3 DEF PlainInv, Grows
<1>7. Owed'
  BY <1>2 DEF Owed
<1>8. SameName'
  BY <1>1 DEF PlainInv, SameName
<1> QED
  BY <1>4, <1>5, <1>6, <1>7, <1>8 DEF PlainInv

LEMMA PlainLock ==
  ASSUME Types, GuardHeld, PlainInv, NEW t \in Threads, Lock(t)
  PROVE  PlainInv'
<1>1. /\ conv' = conv /\ due' = due /\ file' = file /\ tmp' = tmp /\ fd' = fd
      /\ key' = key /\ name' = name /\ deleted' = deleted /\ left' = left
      /\ lock' = t
  BY DEF Lock, memVars, diskVars
<1>2. /\ job'[t].phase = "load" /\ job'[t].kind = job[t].kind /\ job'[t].turns = conv
      /\ \A u \in Threads \ {t} : job'[u] = job[u]
      /\ job[t].phase = "want"
  BY DEF Lock, Types, Jobs
<1>3. Undisturbed'
  BY <1>1, <1>2 DEF PlainInv, Undisturbed
<1>4. Draft'
  BY <1>1, <1>2 DEF PlainInv, Draft
<1>5. Grows'
  BY <1>1, <1>2 DEF PlainInv, Grows
<1>6. Owed'
  BY <1>1, <1>2 DEF PlainInv, Owed
<1>7. SameName'
  BY <1>1, <1>2 DEF PlainInv, SameName
<1> QED
  BY <1>3, <1>4, <1>5, <1>6, <1>7 DEF PlainInv

\* What LoadDisk, Truncate, Fill and a retried attempt have in common: the
\* holder of the lock changes its phase, and the disk only in tmp.
LEMMA PlainMove ==
  ASSUME Types, GuardHeld, PlainInv, NEW t \in Threads, lock = t,
         job'[t].phase \in {"write", "fill", "swap"}, job'[t].kind = job[t].kind,
         job'[t].turns = job[t].turns, job'[t].name = name,
         \A u \in Threads \ {t} : job'[u] = job[u] /\ fd'[u] = fd[u],
         fd'[t] = IF job'[t].phase = "fill" THEN "tmp" ELSE "none",
         job'[t].phase = "fill" => tmp'.kind = "empty",
         job'[t].phase = "swap" => tmp' = [kind |-> "plain", turns |-> job[t].turns,
                                           name |-> name],
         conv' = conv, due' = due, file' = file, lock' = lock, pending' = pending,
         key' = key, name' = name, deleted' = deleted, left'.renames = left.renames
  PROVE  PlainInv'
<1>1. Undisturbed'
  BY DEF PlainInv, Undisturbed
<1>2. \A u \in Threads \ {t} : job[u].phase \notin {"fill", "swap"}
  BY GuardedPhases DEF PlainInv
<1>3. Draft'
  BY <1>2 DEF PlainInv, Draft
<1>4. Grows'
  BY DEF PlainInv, Grows
<1>5. Waits => Waits'
  BY GuardedPhases DEF Waits, PlainInv
<1>6. Owed'
  BY <1>5 DEF PlainInv, Owed
<1>7. SameName'
  BY <1>2 DEF PlainInv, SameName
<1> QED
  BY <1>1, <1>3, <1>4, <1>6, <1>7 DEF PlainInv

LEMMA PlainLoadDisk ==
  ASSUME Types, GuardHeld, PlainInv, NEW t \in Threads, LoadDisk(t)
  PROVE  PlainInv'
<1>1. lock = t
  BY GuardedPhases DEF PlainInv, LoadDisk
<1>2. /\ job'[t].phase = "write" /\ job'[t].kind = job[t].kind
      /\ job'[t].turns = job[t].turns /\ job'[t].name = name
      /\ \A u \in Threads \ {t} : job'[u] = job[u]
  BY DEF LoadDisk, Types, Jobs, PlainInv, Draft, SameName
<1>3. /\ conv' = conv /\ due' = due /\ file' = file /\ tmp' = tmp /\ fd' = fd
      /\ lock' = lock /\ pending' = pending /\ key' = key /\ name' = name
      /\ deleted' = deleted /\ left' = left
  BY DEF LoadDisk, memVars, diskVars
<1>4. fd'[t] = "none"
  BY <1>3 DEF LoadDisk, PlainInv, Draft
<1> QED
  BY <1>1, <1>2, <1>3, <1>4, PlainMove

LEMMA PlainTruncate ==
  ASSUME Types, GuardHeld, PlainInv, NEW t \in Threads, Truncate(t)
  PROVE  PlainInv'
<1>1. lock = t /\ ~InPlace(t)
  BY GuardedPhases DEF PlainInv, Truncate, InPlace, Encrypts, Undisturbed
<1>2. /\ job'[t].phase = "fill" /\ job'[t].kind = job[t].kind
      /\ job'[t].turns = job[t].turns /\ job'[t].name = name
      /\ \A u \in Threads \ {t} : job'[u] = job[u]
  BY DEF Truncate, Goto, Types, Jobs, PlainInv, SameName
<1>3. /\ conv' = conv /\ due' = due /\ file' = file /\ tmp' = Blank("empty")
      /\ fd' = [fd EXCEPT ![t] = "tmp"]
      /\ lock' = lock /\ pending' = pending /\ key' = key /\ name' = name
      /\ deleted' = deleted /\ left' = left
  BY <1>1 DEF Truncate, memVars
<1>4. fd'[t] = "tmp" /\ \A u \in Threads \ {t} : fd'[u] = fd[u]
  BY <1>3 DEF Types
<1>5. tmp'.kind = "empty"
  BY <1>3 DEF Blank
<1> QED
  BY <1>1, <1>2, <1>3, <1>4, <1>5, PlainMove

LEMMA PlainFill ==
  ASSUME Types, GuardHeld, PlainInv, NEW t \in Threads, Fill(t)
  PROVE  PlainInv'
<1>1. lock = t /\ ~InPlace(t) /\ ~Encrypts(t) /\ job[t].name = name
  BY GuardedPhases DEF PlainInv, Fill, InPlace, Encrypts, Undisturbed, SameName
<1>2. fd[t] = "tmp" /\ tmp.kind = "empty"
  BY DEF Fill, PlainInv, Draft
<1>3. Written(t) = {Document(t)}
  BY <1>2 DEF Written
<1>4. Document(t) = [kind |-> "plain", turns |-> job[t].turns, name |-> name]
  BY <1>1 DEF Document
<1>5. Into(t, Document(t))
  BY <1>3 DEF Fill
<1>6. file' = file /\ tmp' = [kind |-> "plain", turns |-> job[t].turns, name |-> name]
  BY <1>2, <1>4, <1>5 DEF Into
<1>7. /\ job'[t].phase = "swap" /\ job'[t].kind = job[t].kind
      /\ job'[t].turns = job[t].turns /\ job'[t].name = name
      /\ \A u \in Threads \ {t} : job'[u] = job[u]
  BY <1>1 DEF Fill, Goto, Types, Jobs
<1>8. /\ conv' = conv /\ due' = due /\ fd' = [fd EXCEPT ![t] = "none"]
      /\ lock' = lock /\ pending' = pending /\ key' = key /\ name' = name
      /\ deleted' = deleted /\ left' = left
  BY <1>1 DEF Fill
<1>9. fd'[t] = "none" /\ \A u \in Threads \ {t} : fd'[u] = fd[u]
  BY <1>8 DEF Types
<1> QED
  BY <1>1, <1>6, <1>7, <1>8, <1>9, PlainMove

\* The holder drops the guard, whatever became of the file.
LEMMA PlainRelease ==
  ASSUME Types, GuardHeld, PlainInv, NEW t \in Threads, lock = t,
         NEW p \in {"idle", "notify"}, Release(t, p),
         fd'[t] = "none", \A u \in Threads \ {t} : fd'[u] = fd[u],
         file'.kind = "plain", file'.name = name, file'.turns \subseteq conv,
         conv' = conv, due' = due, key' = key, name' = name, deleted' = deleted,
         left'.renames = left.renames,
         due \subseteq file'.turns \/ pending' \/ Waits
  PROVE  PlainInv'
<1>1. /\ lock' = None /\ job'[t].phase = p /\ job'[t].kind = "save"
      /\ \A u \in Threads \ {t} : job'[u] = job[u]
  BY DEF Release, Types, At
<1>2. \A u \in Threads \ {t} : job[u].phase \notin {"load", "write", "fill", "swap"}
  BY GuardedPhases DEF PlainInv
<1>3. job[t].phase # "want"
  BY GuardedPhases DEF PlainInv
<1>4. Undisturbed'
  BY <1>1 DEF PlainInv, Undisturbed
<1>5. Draft'
  BY <1>1, <1>2 DEF PlainInv, Draft
<1>6. Grows'
  BY <1>1, ThreadAssumption DEF Grows, Threads
<1>7. Waits => Waits'
  BY <1>1, <1>3 DEF Waits
<1>8. Owed'
  BY <1>1, <1>7, ThreadAssumption DEF PlainInv, Owed, Threads
<1>9. SameName'
  BY <1>1, <1>2 DEF PlainInv, SameName
<1> QED
  BY <1>4, <1>5, <1>6, <1>8, <1>9 DEF PlainInv

LEMMA PlainSwap ==
  ASSUME Types, GuardHeld, PlainInv, NEW t \in Threads, Swap(t)
  PROVE  PlainInv' /\ file.turns \subseteq file'.turns
<1>1. lock = t /\ job[t].kind # "rename" /\ job[t].name = name
  BY GuardedPhases DEF PlainInv, Swap, Undisturbed, SameName
<1>2. file' = [kind |-> "plain", turns |-> job[t].turns, name |-> name]
  BY <1>1 DEF Swap, PlainInv, Draft
<1>3. Release(t, AfterSave(t)) /\ pending' = FALSE /\ name' = name
  BY <1>1 DEF Swap, Saved
<1>4. AfterSave(t) \in {"idle", "notify"}
  BY DEF AfterSave
<1>5. \A u \in Threads : fd[u] = "none"
  BY <1>1, GuardedPhases DEF Swap, PlainInv, Draft
<1>6. \A u \in Threads : fd'[u] = fd[u]
  BY <1>5 DEF Swap, Unlinked
<1>7. file.turns \subseteq job[t].turns /\ job[t].turns \subseteq conv
  BY <1>1 DEF PlainInv, Grows
<1>8. due \subseteq job[t].turns \/ Waits
  BY <1>1 DEF PlainInv, Owed
<1>9. /\ conv' = conv /\ due' = due /\ key' = key /\ deleted' = deleted /\ left' = left
  BY DEF Swap
<1> QED
  BY <1>1, <1>2, <1>3, <1>4, <1>5, <1>6, <1>7, <1>8, <1>9, PlainRelease

LEMMA PlainFault ==
  ASSUME Types, GuardHeld, PlainInv, NEW t \in Threads, Fault(t)
  PROVE  PlainInv' /\ file' = file
<1>1. lock = t /\ job[t].kind # "rename" /\ job[t].name = name
  BY GuardedPhases DEF PlainInv, Fault, Undisturbed, SameName
<1>2. file' = file
  BY DEF Fault, Into, PlainInv, Draft
<1>3. fd'[t] = "none" /\ \A u \in Threads \ {t} : fd'[u] = fd[u]
  BY DEF Fault, Types
<1>4. /\ conv' = conv /\ due' = due /\ key' = key /\ deleted' = deleted
      /\ left'.renames = left.renames
  BY DEF Fault, Types
<1>5. CASE job[t].tries < MaxTries
  <2>1. job[t].tries # MaxTries
    BY <1>5, BoundAssumption DEF Types, Jobs
  <2>2. /\ job' = [job EXCEPT ![t].phase = "write", ![t].tries = @ + 1]
        /\ lock' = lock /\ pending' = pending /\ name' = name
    BY <1>1, <2>1 DEF Fault, AttemptFails
  <2>3. /\ job'[t].phase = "write" /\ job'[t].kind = job[t].kind
        /\ job'[t].turns = job[t].turns /\ job'[t].name = name
        /\ \A u \in Threads \ {t} : job'[u] = job[u]
    BY <2>2, <1>1 DEF Types, Jobs
  <2> QED
    BY <1>1, <1>2, <1>3, <1>4, <2>2, <2>3, PlainMove
<1>6. CASE ~(job[t].tries < MaxTries)
  <2>1. Release(t, "idle") /\ pending' = TRUE /\ name' = name
    BY <1>1, <1>6 DEF Fault, AttemptFails, Enqueue
  <2>2. file.kind = "plain" /\ file.name = name /\ file.turns \subseteq conv
    BY DEF PlainInv, Draft, SameName, Grows
  <2> QED
    BY <1>1, <1>2, <1>3, <1>4, <2>1, <2>2, PlainRelease
<1> QED
  BY <1>2, <1>5, <1>6

LEMMA PlainClearFlag == ASSUME Types, GuardHeld, PlainInv, ClearFlag PROVE PlainInv'
<1>1. /\ conv' = conv /\ due' = due /\ file' = file /\ tmp' = tmp /\ fd' = fd
      /\ lock' = lock /\ pending' = pending /\ key' = key /\ name' = name
      /\ deleted' = deleted /\ left' = left
  BY DEF ClearFlag, memVars, diskVars
<1>2. /\ Ui \in Threads /\ job[Ui].phase = "notify"
      /\ job'[Ui].phase = "idle" /\ job'[Ui].kind = "save"
      /\ \A u \in Threads \ {Ui} : job'[u] = job[u]
  BY DEF ClearFlag, Threads, Types, Idle, At
<1>3. lock # Ui
  BY <1>2, GuardedPhases DEF PlainInv
<1>4. Undisturbed'
  BY <1>1, <1>2 DEF PlainInv, Undisturbed
<1>5. Draft'
  BY <1>1, <1>2 DEF PlainInv, Draft
<1>6. Grows'
  BY <1>1, <1>2, <1>3 DEF PlainInv, Grows
<1>7. Waits => Waits'
  BY <1>2 DEF Waits
<1>8. Owed'
  BY <1>1, <1>2, <1>3, <1>7 DEF PlainInv, Owed
<1>9. SameName'
  BY <1>1, <1>2 DEF PlainInv, SameName
<1> QED
  BY <1>4, <1>5, <1>6, <1>8, <1>9 DEF PlainInv

\* The new process loads what the old one left, which is a plain file.
LEMMA PlainRestart == ASSUME PlainOnly, Types, PlainInv, Restart PROVE PlainInv'
<1>1. key' = FALSE
  BY DEF Restart, PlainOnly
<1>2. Restored(FALSE, file)
  BY DEF Restored, PlainInv, Draft
<1>3. conv' = file.turns /\ name' = file.name
  BY <1>2 DEF Restart, PlainOnly
<1>4. /\ job' = [t \in Threads |-> Idle] /\ Idle.phase = "idle" /\ Idle.kind = "save"
      /\ fd' = [t \in Threads |-> "none"] /\ due' = {} /\ lock' = None
      /\ file' = file /\ deleted' = deleted
  BY DEF Restart, Idle, At
<1>5. left'.renames = left.renames
  BY DEF Restart, Types
<1>6. Undisturbed'
  BY <1>1, <1>4, <1>5 DEF PlainInv, Undisturbed
<1>7. Draft'
  BY <1>4 DEF PlainInv, Draft
<1>8. Grows' /\ Owed'
  BY <1>3, <1>4, ThreadAssumption DEF Grows, Owed, Threads
<1>9. SameName'
  BY <1>3, <1>4 DEF SameName
<1> QED
  BY <1>6, <1>7, <1>8, <1>9 DEF PlainInv

LEMMA PlainNext ==
  ASSUME PlainOnly, Types, GuardHeld, PlainInv, Next
  PROVE  PlainInv' /\ file.turns \subseteq file'.turns
<1>1. ~RenameRequested /\ ~DeleteSession /\ ~RenameLoad
  BY DEF PlainOnly, PlainInv, Undisturbed, RenameRequested, DeleteSession, RenameLoad, Threads
<1>2. CASE Record
  BY <1>2, PlainRecord DEF Record, diskVars
<1>7. CASE Watch
  BY <1>7, PlainWatch DEF Watch, diskVars
<1>3. CASE SaveNow \/ RetryPending \/ \E w \in Workers : TurnEnds(w)
  <2>1. PICK t \in Threads, k \in {"save", "retry"} :
          /\ Submit(t, k) /\ job[t].phase = "idle" /\ due' \in {conv, due}
    BY <1>3 DEF SaveNow, RetryPending, TurnEnds, UiFree, Threads, memVars
  <2>2. /\ conv' = conv /\ file' = file /\ tmp' = tmp /\ fd' = fd /\ lock' = lock
        /\ key' = key /\ name' = name /\ deleted' = deleted /\ left' = left
    BY <1>3 DEF SaveNow, RetryPending, TurnEnds, memVars, diskVars
  <2>3. due' \subseteq conv
    BY <2>1 DEF PlainInv, Owed
  <2> QED
    BY <2>1, <2>2, <2>3, PlainSubmit
<1>4. CASE \E t \in Threads : SaveStep(t) \/ Fault(t)
  <2>1. PICK t \in Threads : SaveStep(t) \/ Fault(t)
    BY <1>4
  <2>2. ~LoadFails(t) /\ ~SwapMissing(t)
    BY DEF PlainInv, Draft, LoadFails, SwapMissing, PlainRead
  <2>3. CASE Lock(t)
    BY <2>3, PlainLock DEF Lock, diskVars
  <2>4. CASE LoadDisk(t)
    BY <2>4, PlainLoadDisk DEF LoadDisk, diskVars
  <2>5. CASE Truncate(t)
    <3>1. ~InPlace(t)
      BY DEF PlainInv, Undisturbed, InPlace, Encrypts
    <3> QED
      BY <2>5, <3>1, PlainTruncate DEF Truncate
  <2>6. CASE Fill(t)
    <3>1. file' = file
      BY <2>6 DEF Fill, Into, PlainInv, Draft
    <3> QED
      BY <2>6, <3>1, PlainFill
  <2>7. CASE Swap(t)
    BY <2>7, PlainSwap
  <2>8. CASE Fault(t)
    BY <2>8, PlainFault
  <2> QED
    BY <2>1, <2>2, <2>3, <2>4, <2>5, <2>6, <2>7, <2>8 DEF SaveStep
<1>5. CASE ClearFlag
  BY <1>5, PlainClearFlag DEF ClearFlag, diskVars
<1>6. CASE Restart
  BY <1>6, PlainRestart DEF Restart
<1> QED
  BY <1>1, <1>2, <1>3, <1>4, <1>5, <1>6, <1>7 DEF Next

LEMMA PlainStutter == ASSUME PlainInv, UNCHANGED vars PROVE PlainInv'
<1>1. /\ due' = due /\ conv' = conv /\ file' = file /\ tmp' = tmp /\ fd' = fd
      /\ lock' = lock /\ job' = job /\ pending' = pending /\ key' = key /\ name' = name
      /\ deleted' = deleted /\ left' = left
  BY DEF vars
<1>2. Undisturbed' /\ Draft'
  BY <1>1 DEF PlainInv, Undisturbed, Draft
<1>3. Grows' /\ Owed' /\ SameName'
  BY <1>1 DEF PlainInv, Grows, Owed, Waits, SameName
<1> QED
  BY <1>2, <1>3 DEF PlainInv

LEMMA PlainInvariant == ASSUME PlainOnly PROVE Spec => []PlainInv
<1>1. Init => PlainInv
  BY PlainInit
<1>2. PlainInv /\ TypeOK /\ [Next]_vars => PlainInv'
  BY PlainNext, PlainStutter DEF TypeOK
<1> QED
  BY <1>1, <1>2, TypeCorrect, PTL DEF Spec

\* The session file can be read at every moment of every run.
THEOREM FileAlwaysReadable == ASSUME PlainOnly PROVE Spec => []AlwaysReadable
<1>1. PlainInv => AlwaysReadable
  BY DEF PlainInv, Draft, AlwaysReadable
<1> QED
  BY <1>1, PlainInvariant, PTL

\* No save, in whatever order the threads get to run, takes a turn from the file.
THEOREM NoTurnLost == ASSUME PlainOnly PROVE Spec => TurnsStay
<1>1. TypeOK /\ PlainInv /\ [Next]_vars => [file.turns \subseteq file'.turns]_vars
  BY PlainNext DEF TypeOK
<1> QED
  BY <1>1, TypeCorrect, PlainInvariant, PTL DEF Spec, TurnsStay

\* What a save was asked to write is on the disk, on its way, or queued for retry.
THEOREM NoSaveForgotten == ASSUME PlainOnly PROVE Spec => []NothingForgotten
<1>1. TypeOK /\ PlainInv => NothingForgotten
  <2> SUFFICES ASSUME TypeOK, PlainInv PROVE NothingForgotten
    OBVIOUS
  <2>1. Waits => \E t \in Threads : Carries(t)
    BY DEF Waits, Carries, PlainInv, Undisturbed
  <2>2. \A t \in Threads : lock = t /\ due \subseteq job[t].turns => Carries(t)
    BY DEF TypeOK, GuardHeld, Carries, PlainInv, Undisturbed
  <2> QED
    BY <2>1, <2>2 DEF PlainInv, Owed, NothingForgotten
<1> QED
  BY <1>1, TypeCorrect, PlainInvariant, PTL

\* Saves never change the session's name.
THEOREM NameKept == ASSUME PlainOnly PROVE Spec => []KeepsItsName
<1>1. PlainInv => KeepsItsName
  BY DEF PlainInv, SameName, KeepsItsName
<1> QED
  BY <1>1, PlainInvariant, PTL

===============================================================================

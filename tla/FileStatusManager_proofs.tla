----------------------- MODULE FileStatusManager_proofs -----------------------
(***************************************************************************)
(* Proofs about FileStatusManager, for any set of files and any bounds:    *)
(* the type invariant, that no step of a save destroys the only copy of    *)
(* the last one, and that a restart finds it.  The invariant says where    *)
(* that copy is, through steps of a save that succeed, fail or are cut off *)
(* by a crash; nothing is claimed once a power failure tore a file.        *)
(***************************************************************************)
EXTENDS FileStatusManager, TLAPS

\* Where the records of the last save are: in the main file, unless a save
\* has parted them from it, and then in the backup.  A main file that is not
\* torn is never recovered from the backup.
CopyOfLastSave ==
  /\ disk["main"] # Torn /\ why # "recover"
  /\ op \in {"backup", "commit"} => disk["tmp"] = Holds(data_)
  /\ op = "commit" => disk["main"] = Missing
  /\ IF parted THEN disk["main"] = Missing /\ disk["backup"] = saved
               ELSE disk["main"] = saved

StatusInv == TypeOK /\ (~tore => CopyOfLastSave)

(* Records, something torn and no file are three different things.         *)
LEMMA Different ==
  ASSUME NEW r
  PROVE  /\ Holds(r).kind = "records" /\ Holds(r).records = r
         /\ Holds(r) # Torn /\ Holds(r) # Missing /\ Torn # Missing
         /\ Torn.kind # "records" /\ Missing.kind # "records"
<1>1. Holds(r).kind = "records" /\ Torn.kind = "torn" /\ Missing.kind = "missing"
  BY DEF Holds, Torn, Missing
<1> QED
  BY <1>1 DEF Holds

\* The empty status is a status.
LEMMA NoRecordsIsRecords == NoRecords \in Records
<1>1. NoRecords \in [{} -> 0 .. MaxChunk]
  BY DEF NoRecords
<1>2. {} \in SUBSET File
  OBVIOUS
<1> QED
  BY <1>1, <1>2 DEF Records

(* An entry that says "records" holds records.                             *)
LEMMA EntryHolds ==
  ASSUME NEW e \in Entry, e.kind = "records"
  PROVE  e.records \in Records /\ e = Holds(e.records)
<1>1. PICK r \in Records : e = Holds(r)
  BY Different DEF Entry
<1> QED
  BY <1>1, Different

(* What the client's three operations make of the records are records.     *)
LEMMA ClientKeepsRecords ==
  ASSUME TypeOK, NEW f \in File, NEW chunk \in 0 .. MaxChunk
  PROVE  /\ [g \in DOMAIN data_ \cup {f} |-> IF g = f THEN chunk ELSE data_[g]]
              \in Records
         /\ Restrict(data_, DOMAIN data_ \ {f}) \in Records
         /\ [data_ EXCEPT ![f] = chunk] \in Records
<1>1. PICK S \in SUBSET File : data_ \in [S -> 0 .. MaxChunk]
  BY DEF TypeOK, Records
<1>2. [g \in S \cup {f} |-> IF g = f THEN chunk ELSE data_[g]]
        \in [S \cup {f} -> 0 .. MaxChunk]
  BY <1>1
<1>3. S \cup {f} \in SUBSET File /\ S \ {f} \in SUBSET File
  OBVIOUS
<1>4. Restrict(data_, S \ {f}) \in [S \ {f} -> 0 .. MaxChunk]
  BY <1>1 DEF Restrict
<1>5. [data_ EXCEPT ![f] = chunk] \in [S -> 0 .. MaxChunk]
  BY <1>1
<1>6. DOMAIN data_ = S
  BY <1>1
<1> QED
  BY <1>2, <1>3, <1>4, <1>5, <1>6 DEF Records

\* The manager starts with an empty disk.
LEMMA InitInv == Init => StatusInv
<1> SUFFICES ASSUME Init PROVE StatusInv
  OBVIOUS
<1>a. Missing \in Entry /\ 0 \in 0 .. MaxCrashes
  BY BoundAssumption DEF Entry
<1>1. TypeOK
  BY <1>a, NoRecordsIsRecords DEF Init, TypeOK
<1>2. CopyOfLastSave
  BY Different DEF Init, CopyOfLastSave, Path
<1> QED
  BY <1>1, <1>2 DEF StatusInv

\* The calls of the uploader keep the invariant, whether they save or throw.
LEMMA ClientKeepsInv == StatusInv /\ Client => StatusInv'
<1>1. ASSUME StatusInv, NEW r \in Records, Change(r) PROVE StatusInv'
  <2>1. TypeOK'
    BY <1>1 DEF StatusInv, TypeOK, Change
  <2>2. ~tore => CopyOfLastSave'
    BY <1>1 DEF StatusInv, CopyOfLastSave, Change
  <2> QED
    BY <1>1, <2>1, <2>2 DEF StatusInv, Change
<1>2. ASSUME StatusInv, Client PROVE \E r \in Records : Change(r)
  <2>1. TypeOK /\ 0 \in 0 .. MaxChunk
    BY <1>2, BoundAssumption DEF StatusInv
  <2>2. PICK f \in File :
          \/ DeleteFileRecord(f)
          \/ \E chunk \in 0 .. MaxChunk :
               AddFileRecord(f, chunk) \/ UpdateFileStartChunk(f, chunk)
    BY <1>2, Zenon DEF Client
  <2>3. CASE DeleteFileRecord(f)
    BY <2>1, <2>3, ClientKeepsRecords DEF DeleteFileRecord
  <2>4. ASSUME NEW chunk \in 0 .. MaxChunk,
               AddFileRecord(f, chunk) \/ UpdateFileStartChunk(f, chunk)
        PROVE  \E r \in Records : Change(r)
    BY <2>1, <2>4, ClientKeepsRecords DEF AddFileRecord, UpdateFileStartChunk
  <2> QED
    BY <2>2, <2>3, <2>4
<1> QED
  BY <1>1, <1>2

(* The steps of a save, and the ways it fails.                             *)
LEMMA SaveKeepsInv ==
  StatusInv /\ (WriteToFile \/ Backup \/ Commit \/ FailToWrite \/ FailToRename)
    => StatusInv'
<1> SUFFICES ASSUME StatusInv,
                    WriteToFile \/ Backup \/ Commit \/ FailToWrite \/ FailToRename
             PROVE  StatusInv'
  OBVIOUS
<1> USE DEF StatusInv
<1>a. disk \in [Path -> Entry] /\ Torn \in Entry /\ Missing \in Entry
        /\ \A r \in Records : Holds(r) \in Entry
  BY DEF TypeOK, Entry
<1>1. CASE WriteToFile
  <2>1. TypeOK'
    BY <1>1, <1>a DEF TypeOK, WriteToFile, Path
  <2>2. ~tore => CopyOfLastSave'
    BY <1>1, <1>a, Different DEF CopyOfLastSave, WriteToFile, Path
  <2> QED
    BY <2>1, <2>2, <1>1 DEF WriteToFile
<1>2. CASE Backup
  <2>1. TypeOK'
    BY <1>2, <1>a DEF TypeOK, Backup, Rename, Path
  <2>2. ASSUME ~tore PROVE CopyOfLastSave'
    <3>1. CASE disk["main"] # Missing
      BY <1>2, <1>a, <2>2, <3>1, Different DEF CopyOfLastSave, Backup, Rename, Path
    <3>2. CASE disk["main"] = Missing
      BY <1>2, <1>a, <2>2, <3>2, Different DEF CopyOfLastSave, Backup, Path
    <3> QED
      BY <3>1, <3>2
  <2> QED
    BY <2>1, <2>2, <1>2 DEF Backup
<1>3. CASE Commit
  <2>1. TypeOK'
    BY <1>3, <1>a DEF TypeOK, Commit, Rename, Path
  <2>2. ~tore => CopyOfLastSave'
    BY <1>3, <1>a, Different DEF CopyOfLastSave, Commit, Rename, Path
  <2> QED
    BY <2>1, <2>2, <1>3 DEF Commit
<1>4. CASE FailToWrite
  <2>1. TypeOK'
    BY <1>4, <1>a, NoRecordsIsRecords DEF TypeOK, FailToWrite, Path
  <2>2. ~tore => CopyOfLastSave'
    BY <1>4, <1>a, Different DEF CopyOfLastSave, FailToWrite, Path
  <2> QED
    BY <2>1, <2>2, <1>4 DEF FailToWrite
<1>5. CASE FailToRename
  BY <1>5 DEF TypeOK, CopyOfLastSave, FailToRename
<1> QED
  BY <1>1, <1>2, <1>3, <1>4, <1>5

(* The kernel's writes and the ways the process ends.                      *)
LEMMA CrashKeepsInv ==
  StatusInv /\ ((\E p \in Path : Sync(p)) \/ Crash \/ PowerFailure) => StatusInv'
<1> SUFFICES ASSUME StatusInv, (\E p \in Path : Sync(p)) \/ Crash \/ PowerFailure
             PROVE  StatusInv'
  OBVIOUS
<1> USE DEF StatusInv
<1>1. CASE \E p \in Path : Sync(p)
  BY <1>1 DEF TypeOK, CopyOfLastSave, Sync
<1>2. ASSUME Die PROVE op \in {"idle", "write", "backup", "commit"} /\ crashes' \in 0 .. MaxCrashes
  BY <1>2, BoundAssumption DEF Die, TypeOK
<1>3. CASE Crash
  <2>1. TypeOK'
    BY <1>2, <1>3 DEF TypeOK, Crash, Die
  <2>2. ~tore => CopyOfLastSave'
    BY <1>2, <1>3 DEF CopyOfLastSave, Crash, Die
  <2> QED
    BY <2>1, <2>2, <1>3 DEF Crash
<1>4. CASE PowerFailure
  <2>1. PICK torn \in SUBSET unsynced :
          /\ disk' = [p \in Path |-> IF p \in torn THEN Torn ELSE disk[p]]
          /\ tore' = (tore \/ torn # {})
    BY <1>4 DEF PowerFailure
  <2>2. TypeOK'
    <3>1. disk' \in [Path -> Entry]
      BY <2>1 DEF TypeOK, Entry
    <3> QED
      BY <1>2, <1>4, <2>1, <3>1 DEF TypeOK, PowerFailure, Die
  <2>3. ASSUME ~tore' PROVE CopyOfLastSave'
    <3>1. disk' = disk /\ ~tore
      BY <2>1, <2>3 DEF TypeOK
    <3> QED
      BY <1>2, <1>4, <3>1 DEF CopyOfLastSave, PowerFailure, Die
  <2> QED
    BY <2>2, <2>3
<1> QED
  BY <1>1, <1>3, <1>4

\* So does the start of the process, whatever it finds on the disk.
LEMMA LoadKeepsInv == StatusInv /\ Load => StatusInv'
<1> SUFFICES ASSUME StatusInv, Load PROVE StatusInv'
  OBVIOUS
<1> USE DEF StatusInv
<1>a. disk["main"] \in Entry /\ disk["backup"] \in Entry
  BY DEF TypeOK, Path
<1>1. CASE disk["main"].kind = "records" /\ data_' = disk["main"].records
             /\ saved' = disk["main"] /\ op' = "idle" /\ UNCHANGED <<why, disk>>
  <2>1. data_' \in Records /\ disk'["main"] = Holds(data_')
    BY <1>a, <1>1, EntryHolds
  <2>2. TypeOK'
    BY <1>1, <1>a, <2>1 DEF TypeOK, Load
  <2>3. ~tore' => CopyOfLastSave'
    BY <1>1, <2>1, Different DEF CopyOfLastSave, Load
  <2> QED
    BY <2>2, <2>3
<1>2. CASE disk["main"] = Torn /\ disk["backup"].kind = "records"
             /\ data_' = disk["backup"].records /\ saved' = disk["backup"]
             /\ op' = "write" /\ why' = "recover" /\ UNCHANGED disk
  <2>1. data_' \in Records
    BY <1>a, <1>2, EntryHolds
  <2>2. TypeOK'
    BY <1>2, <1>a, <2>1 DEF TypeOK, Load
  <2>3. tore'
    BY <1>2 DEF CopyOfLastSave, Load
  <2> QED
    BY <2>2, <2>3
<1>3. CASE /\ disk["main"] = Missing
             \/ (disk["main"] = Torn /\ disk["backup"].kind # "records")
           /\ disk' = IF disk["main"] = Torn
                        THEN [disk EXCEPT !["backup"] = Missing] ELSE disk
           /\ data_' = NoRecords /\ saved' = Missing
           /\ op' = "write" /\ why' = "create"
  <2>1. TypeOK'
    BY <1>3, NoRecordsIsRecords DEF TypeOK, Load, Entry
  <2>2. ~tore' => CopyOfLastSave'
    BY <1>3, Different DEF CopyOfLastSave, Load
  <2> QED
    BY <2>1, <2>2
<1> QED
  BY <1>1, <1>2, <1>3 DEF Load

\* Every step keeps it.
LEMMA StepInv == StatusInv /\ [Next]_vars => StatusInv'
<1>1. StatusInv /\ UNCHANGED vars => StatusInv'
  BY DEF StatusInv, TypeOK, CopyOfLastSave, vars
<1> QED
  BY <1>1, ClientKeepsInv, SaveKeepsInv, CrashKeepsInv, LoadKeepsInv DEF Next

\* It holds in every state of every run.
LEMMA Invariant == Spec => []StatusInv
  BY InitInv, StepInv, PTL DEF Spec

(* Every variable of the model has its type, records never number a chunk  *)
(* beyond the bound, and every path holds records, something torn or       *)
(* nothing.                                                                *)
THEOREM TypeCorrect == Spec => []TypeOK
<1>1. StatusInv => TypeOK
  BY DEF StatusInv
<1> QED
  BY <1>1, Invariant, PTL

(* SaveToFile: whatever fails or interrupts a save, one of the three files *)
(* holds the records of the last one, also while the process is down.      *)
THEOREM OneCopyAlways == Spec => []LastSaveOnDisk
<1>1. StatusInv => LastSaveOnDisk
  BY DEF StatusInv, CopyOfLastSave, LastSaveOnDisk, Path
<1> QED
  BY <1>1, Invariant, PTL

(* LoadWithRecovery: a restart finds the last save, or no records if none  *)
(* was made, or if a save took the main file away and got no further,      *)
(* refused or cut off; then the backup keeps the records.                  *)
THEOREM RestartIsComplete == Spec => RestartFindsLastSave
<1> DEFINE Found == \/ Holds(data_') = saved
                    \/ data_' = NoRecords /\ saved = Missing
                    \/ data_' = NoRecords /\ parted /\ disk'["backup"] = saved
<1>1. ASSUME StatusInv, Next, op = "down", op' # "down", ~tore
      PROVE  Found
  <2>1. Load
    BY <1>1 DEF Next, Client, AddFileRecord, DeleteFileRecord,
       UpdateFileStartChunk, Change, WriteToFile, Backup, Commit, FailToWrite,
       FailToRename, Sync, Crash, PowerFailure, Die
  <2>2. disk["main"] \in Entry /\ disk["main"] # Torn
        /\ IF parted THEN disk["main"] = Missing /\ disk["backup"] = saved
                     ELSE disk["main"] = saved
    BY <1>1 DEF StatusInv, TypeOK, CopyOfLastSave, Path
  <2>3. CASE disk["main"].kind = "records" /\ data_' = disk["main"].records
    BY <2>2, <2>3, EntryHolds, Different
  <2>4. CASE disk["main"] = Missing /\ data_' = NoRecords /\ disk' = disk
    BY <2>2, <2>4
  <2> QED
    BY <2>1, <2>2, <2>3, <2>4, Different DEF Load
<1>2. StatusInv /\ [Next]_vars =>
        [op = "down" /\ op' # "down" /\ ~tore => Found]_vars
  BY <1>1 DEF vars
<1> QED
  BY <1>2, Invariant, PTL DEF Spec, RestartFindsLastSave
=============================================================================

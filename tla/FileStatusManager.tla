-------------------------- MODULE FileStatusManager --------------------------
(***************************************************************************)
(* FileStatusManager: the upload records, kept in memory and in a JSON     *)
(* file that every change rewrites through a temporary file and a backup.  *)
(* A step is one operation on the file system, so that the process can die *)
(* between any two of them.  A power failure may also tear the files whose *)
(* data had not reached the disk: the code never syncs.                    *)
(***************************************************************************)
EXTENDS Naturals, Functions

CONSTANTS
  File,             \* files with an upload record
  MaxChunk,         \* bound: start_chunk of a record
  MaxCrashes        \* bound: times the process dies or the power fails

ASSUME BoundAssumption == MaxChunk \in Nat /\ MaxCrashes \in Nat

\* The records: start_chunk of every file that has one.
Records == UNION {[S -> 0 .. MaxChunk] : S \in SUBSET File}
NoRecords == [f \in {} |-> 0]

\* What is at a path: records, something that is no JSON, or no file.
Holds(r) == [kind |-> "records", records |-> r]
Torn == [kind |-> "torn"]
Missing == [kind |-> "missing"]
Path == {"main", "backup", "tmp"}

VARIABLES
  data_,            \* the records in memory
  disk,             \* what is at main_path_, backup_path_ and tmp_path_
  unsynced,         \* paths whose data the kernel has not written yet
  op,               \* where the process is in SaveToFile, or down
  why,              \* what SaveToFile is called for
  saved,            \* history: what the last save that succeeded left as main
  parted,           \* history: a save got between its renames and no further
  tore,             \* history: a power failure tore a file
  crashes           \* times it died

vars == <<data_, disk, unsynced, op, why, saved, parted, tore, crashes>>

\* The first start: there is no file, CreateNewFile is on its way.
Init ==
  /\ data_ = NoRecords
  /\ disk = [p \in Path |-> Missing]
  /\ unsynced = {}
  /\ op = "write" /\ why = "create"
  /\ saved = Missing /\ parted = FALSE
  /\ tore = FALSE /\ crashes = 0

-----------------------------------------------------------------------------
(* The operations a client calls; each changes data_ and saves it.  One    *)
(* that finds no record returns false and changes nothing.                 *)

Change(r) ==
  /\ op = "idle"
  /\ data_' = r
  /\ op' = "write" /\ why' = "change"
  /\ UNCHANGED <<disk, unsynced, saved, parted, tore, crashes>>

AddFileRecord(f, chunk) ==
  Change([g \in DOMAIN data_ \cup {f} |-> IF g = f THEN chunk ELSE data_[g]])

DeleteFileRecord(f) ==
  f \in DOMAIN data_ /\ Change(Restrict(data_, DOMAIN data_ \ {f}))

\* Mutant: the number of the next chunk is counted twice.
UpdateOneTooFar(f, chunk) ==
  f \in DOMAIN data_ /\ Change([data_ EXCEPT ![f] = chunk + 1])

UpdateFileStartChunk(f, chunk) ==
  f \in DOMAIN data_ /\ Change([data_ EXCEPT ![f] = chunk])

-----------------------------------------------------------------------------
(* SaveToFile                                                              *)

\* Mutant: the main file is written in place.
WriteInPlace ==
  /\ op = "write"
  /\ disk' = [disk EXCEPT !["main"] = Holds(data_), !["tmp"] = Holds(data_)]
  /\ unsynced' = unsynced \cup {"main", "tmp"}
  /\ op' = "backup"
  /\ UNCHANGED <<data_, why, saved, parted, tore, crashes>>

WriteToFile ==
  /\ op = "write"
  /\ disk' = [disk EXCEPT !["tmp"] = Holds(data_)]
  /\ unsynced' = unsynced \cup {"tmp"}
  /\ op' = "backup"
  /\ UNCHANGED <<data_, why, saved, parted, tore, crashes>>

\* rename: the file at path q is replaced by the one at path p.
Rename(p, q) ==
  /\ disk' = [disk EXCEPT ![q] = disk[p], ![p] = Missing]
  /\ unsynced' = (unsynced \ {p, q}) \cup (IF p \in unsynced THEN {q} ELSE {})

Backup ==
  /\ op = "backup"
  /\ IF disk["main"] # Missing
       THEN Rename("main", "backup") /\ parted' = TRUE
       ELSE UNCHANGED <<disk, unsynced, parted>>
  /\ op' = "commit"
  /\ UNCHANGED <<data_, why, saved, tore, crashes>>

\* Mutant: the temporary file is left where it is.
CommitNothing ==
  /\ op = "commit"
  /\ saved' = Holds(data_) /\ parted' = FALSE
  /\ op' = "idle"
  /\ UNCHANGED <<data_, disk, unsynced, why, tore, crashes>>

Commit ==
  /\ op = "commit"
  /\ Rename("tmp", "main")
  /\ saved' = Holds(data_) /\ parted' = FALSE
  /\ op' = "idle"
  /\ UNCHANGED <<data_, why, tore, crashes>>

\* exists or one of the renames throws a filesystem_error: SaveToFile returns
\* false.  A client gets it; TryRecoverFromBackup and CreateNewFile ignore it.
\* The process goes on with data_ changed and the files as they are by now.
FailToRename ==
  /\ op \in {"backup", "commit"}
  /\ op' = "idle"
  /\ UNCHANGED <<data_, disk, unsynced, why, saved, parted, tore, crashes>>

\* WriteToFile leaves half a temporary file and throws a FileStatusException,
\* which SaveToFile does not catch.  On a change it goes on to the client; in
\* TryRecoverFromBackup it is taken for a backup that cannot be loaded; in
\* CreateNewFile it ends the constructor, and with it the process.
FailToWrite ==
  /\ op = "write"
  /\ disk' = [disk EXCEPT !["tmp"] = Torn,
                          !["backup"] = IF why = "recover" THEN Missing ELSE @]
  /\ unsynced' = unsynced \ {"tmp"}
  /\ \/ why = "change" /\ op' = "idle" /\ UNCHANGED <<data_, why>>
     \/ why = "recover" /\ op' = "write" /\ why' = "create" /\ data_' = NoRecords
     \/ why = "create" /\ op' = "down" /\ UNCHANGED <<data_, why>>
  /\ UNCHANGED <<saved, parted, tore, crashes>>

-----------------------------------------------------------------------------
(* Crash and restart                                                       *)

\* The kernel writes dirty data back when it likes.
Sync(p) ==
  /\ p \in unsynced
  /\ unsynced' = unsynced \ {p}
  /\ UNCHANGED <<data_, disk, op, why, saved, parted, tore, crashes>>

Die ==
  /\ crashes < MaxCrashes
  /\ crashes' = crashes + 1
  /\ op # "down"
  /\ op' = "down"
  /\ UNCHANGED <<data_, why, saved, parted>>

\* data_ keeps its value for the properties; LoadWithRecovery sets it.
Crash == Die /\ UNCHANGED <<disk, unsynced, tore>>

PowerFailure ==
  /\ Die
  /\ \E torn \in SUBSET unsynced :
       /\ disk' = [p \in Path |-> IF p \in torn THEN Torn ELSE disk[p]]
       /\ tore' = (tore \/ torn # {})
  /\ unsynced' = {}

\* LoadWithRecovery, with TryRecoverFromBackup and CreateNewFile up to their
\* calls of SaveToFile.
Load ==
  /\ op = "down"
  /\ LET main == disk["main"]
         backup == disk["backup"]
     IN \/ /\ main.kind = "records"
           /\ data_' = main.records /\ saved' = main
           /\ op' = "idle"
           /\ UNCHANGED <<why, disk>>
        \/ /\ main = Torn
           /\ backup.kind = "records"
           /\ data_' = backup.records /\ saved' = backup
           /\ op' = "write" /\ why' = "recover"
           /\ UNCHANGED disk
        \/ /\ main = Missing \/ (main = Torn /\ backup.kind # "records")
           /\ disk' = IF main = Torn THEN [disk EXCEPT !["backup"] = Missing]
                                     ELSE disk
           /\ data_' = NoRecords /\ saved' = Missing
           /\ op' = "write" /\ why' = "create"
  /\ parted' = FALSE
  /\ unsynced' = {p \in unsynced : disk'[p] # Missing}
  /\ UNCHANGED <<tore, crashes>>

-----------------------------------------------------------------------------
Client ==
  \E f \in File :
    \/ DeleteFileRecord(f)
    \/ \E chunk \in 0 .. MaxChunk :
         AddFileRecord(f, chunk) \/ UpdateFileStartChunk(f, chunk)

Next ==
  \/ Client
  \/ WriteToFile \/ Backup \/ Commit \/ FailToWrite \/ FailToRename
  \/ \E p \in Path : Sync(p)
  \/ Crash \/ PowerFailure \/ Load

Spec == Init /\ [][Next]_vars

-----------------------------------------------------------------------------
(* Properties                                                              *)

Entry == {Holds(r) : r \in Records} \cup {Torn, Missing}

TypeOK ==
  /\ data_ \in Records
  /\ disk \in [Path -> Entry]
  /\ unsynced \subseteq Path
  /\ op \in {"idle", "write", "backup", "commit", "down"}
  /\ why \in {"create", "change", "recover"}
  /\ saved \in Entry
  /\ parted \in BOOLEAN /\ tore \in BOOLEAN
  /\ crashes \in 0 .. MaxCrashes

(* A restart finds the records of the last successful save, all of them    *)
(* and no older ones.  It finds none only if nothing has been saved, or if *)
(* the latest save that took the main file away did not put the new one in *)
(* its place, because the process died or the rename was refused; then the *)
(* backup has the records, and still has them when the process has         *)
(* started.  It needs files that a power failure has not torn.             *)
RestartFindsLastSave ==
  [][(op = "down" /\ op' # "down" /\ ~tore) =>
       \/ Holds(data_') = saved
       \/ data_' = NoRecords /\ saved = Missing
       \/ data_' = NoRecords /\ parted /\ disk'["backup"] = saved]_vars

(* At every point of a save, and while the process is down or goes on      *)
(* after a save that failed, one of the three files holds the records of   *)
(* the last save: no operation on the file system destroys the only copy.  *)
(* (A start that finds no main file begins with nothing saved.)            *)
LastSaveOnDisk ==
  (saved # Missing /\ ~tore) => \E p \in Path : disk[p] = saved

(* The comment of LoadWithRecovery, "when loading from the main file       *)
(* fails, the data is restored from the backup": with a backup that can be *)
(* read, a restart does not begin with no records.                         *)
BackupIsUsed ==
  [][(op = "down" /\ op' # "down" /\ disk["backup"].kind = "records")
       => disk["main"].kind = "records" \/ data_' = disk["backup"].records]_vars
=============================================================================

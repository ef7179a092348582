------------------------------ MODULE Uploader ------------------------------
(***************************************************************************)
(* AwsDataUploader: the worker thread that lists the bag directory, takes  *)
(* file after file from UploadQueue, sends it to the store in one request  *)
(* or part by part, deletes it, and retries or skips what fails.  The      *)
(* other writer of the directory is FileCompress::CompressFiles, called by *)
(* the record worker.  The process may die and start again; the directory  *)
(* and the store remain.                                                   *)
(***************************************************************************)
EXTENDS Naturals, SequencesExt

CONSTANTS
  File,             \* archives the record worker makes
  Large,            \* those that are sent in parts
  PartCount,        \* parts of a large file
  MaxFailures,      \* MAX_CONSECUTIVE_FAILURES
  Nothing,          \* no file
  MaxFaults,        \* bound: requests that fail or are not answered
  MaxCrashes        \* bound: times the process dies

ASSUME FileAssumption ==
  /\ IsFiniteSet(File) /\ Large \subseteq File /\ Nothing \notin File
  /\ PartCount \in Nat \ {0} /\ MaxFailures \in Nat \ {0}
  /\ MaxFaults \in Nat /\ MaxCrashes \in Nat

VARIABLES
  archive,          \* state of the directory entry of each file
  writer,           \* the file CompressFiles has open for writing
  made,             \* files CompressFiles has written to the end
  queue,            \* UploadQueue
  worker,           \* where the worker thread is
  current,          \* current_file
  seen,             \* what the file was when UploadParts read its size
  part,             \* number of the next part
  failures,         \* consecutive_failures
  stop_flag,        \* stop_flag_
  store,            \* object of each file in the bucket
  cut,              \* history: files LoadFileList has listed half written
  faults,           \* requests that failed or were not answered
  crashes           \* times the process died

dirVars == <<archive, writer, made, cut>>
uploadVars == <<current, seen, part>>
counters == <<faults, crashes>>
vars == <<dirVars, queue, worker, uploadVars, failures, stop_flag, store,
          counters>>

Init ==
  /\ archive = [f \in File |-> "absent"]
  /\ writer = Nothing /\ made = {} /\ cut = {}
  /\ queue = << >>
  /\ worker = "loop" /\ current = Nothing /\ seen = "absent" /\ part = 0
  /\ failures = 0
  /\ stop_flag = FALSE
  /\ store = [f \in File |-> "absent"]
  /\ faults = 0 /\ crashes = 0

-----------------------------------------------------------------------------
(* CompressFiles writes the archive under its final name.                  *)

BeginArchive(f) ==
  /\ writer = Nothing /\ f \notin made /\ archive[f] = "absent"
  /\ writer' = f
  /\ archive' = [archive EXCEPT ![f] = "partial"]
  /\ UNCHANGED <<made, cut, queue, worker, uploadVars, failures, stop_flag,
                 store, counters>>

\* The rest of the data and close.  If the directory entry is gone by now
\* the data is, too.
EndArchive ==
  /\ writer # Nothing
  /\ archive' = [archive EXCEPT
                   ![writer] = IF @ = "partial" THEN "whole" ELSE @]
  /\ made' = made \cup {writer}
  /\ writer' = Nothing
  /\ UNCHANGED <<cut, queue, worker, uploadVars, failures, stop_flag, store,
                 counters>>

\* The data or a part of it cannot be written.  CompressFiles does not look
\* and returns Success: the short file is archived like any other.
CutArchiveShort ==
  /\ writer # Nothing
  /\ writer' = Nothing
  /\ UNCHANGED <<archive, made, cut, queue, worker, uploadVars, failures,
                 stop_flag, store, counters>>

-----------------------------------------------------------------------------
(* Run and ProcessQueue                                                    *)

\* while (!stop_flag_) of Run, and LoadFileList
LoadFileList ==
  /\ worker = "loop" /\ ~stop_flag
  /\ \E listing \in SetToSeqs({f \in File : archive[f] # "absent"}) :
       queue' = queue \o listing
  /\ cut' = cut \cup {f \in File : archive[f] = "partial"}
  /\ worker' = "next"
  /\ failures' = 0
  /\ UNCHANGED <<archive, writer, made, uploadVars, stop_flag, store, counters>>

LeaveRun ==
  /\ worker = "loop" /\ stop_flag
  /\ worker' = "exited"
  /\ UNCHANGED <<dirVars, queue, uploadVars, failures, stop_flag, store,
                 counters>>

\* Mutants: Run lists the directory before the queue is empty; Run ends
\* with its first queue; ProcessQueue only ends with its queue.
LeaveQueueEarly ==
  /\ worker = "next"
  /\ worker' = "loop"
  /\ UNCHANGED <<dirVars, queue, uploadVars, failures, stop_flag, store,
                 counters>>

LeaveQueueForGood ==
  /\ worker = "next"
  /\ stop_flag \/ queue = << >>
  /\ worker' = "exited"
  /\ UNCHANGED <<dirVars, queue, uploadVars, failures, stop_flag, store,
                 counters>>

LeaveQueueWhenEmpty ==
  /\ worker = "next"
  /\ queue = << >>
  /\ worker' = "loop"
  /\ UNCHANGED <<dirVars, queue, uploadVars, failures, stop_flag, store,
                 counters>>

\* while (!stop_flag_) of ProcessQueue, and its break; then Run waits 1 s.
LeaveQueue ==
  /\ worker = "next"
  /\ stop_flag \/ queue = << >>
  /\ worker' = "loop"
  /\ UNCHANGED <<dirVars, queue, uploadVars, failures, stop_flag, store,
                 counters>>

\* Front, and the FileSplitter of UploadFile: the size of what is there now
\* decides between one request and parts.
OpenFile ==
  /\ worker = "next"
  /\ ~stop_flag /\ queue # << >>
  /\ current' = Head(queue)
  /\ \/ archive[current'] = "absent" /\ worker' = "failed"
     \/ archive[current'] = "whole" /\ current' \in Large /\ worker' = "create"
     \/ archive[current'] = "whole" /\ current' \notin Large /\ worker' = "put"
     \/ /\ archive[current'] = "partial"
        /\ worker' \in IF current' \in Large THEN {"create", "put"} ELSE {"put"}
  /\ UNCHANGED <<dirVars, queue, seen, part, failures, stop_flag, store,
                 counters>>

\* PutObject opens the file again and sends what is in it now.
PutObject ==
  /\ worker = "put"
  /\ store' = [store EXCEPT ![current] = archive[current]]
  /\ worker' = "sent"
  /\ UNCHANGED <<dirVars, queue, uploadVars, failures, stop_flag, counters>>

\* A new upload id, whatever was sent before; then UploadParts reads the size
\* again and counts the parts.
CreateMultipartUpload ==
  /\ worker = "create"
  /\ part' = 1 /\ seen' = archive[current]
  /\ worker' = "parts"
  /\ UNCHANGED <<dirVars, queue, current, failures, stop_flag, store, counters>>

UploadPart ==
  /\ worker = "parts"
  /\ part <= PartCount
  /\ part' = part + 1
  /\ UNCHANGED <<dirVars, queue, worker, current, seen, failures, stop_flag,
                 store, counters>>

\* The parts were cut from a file of the size that was seen.
CompleteMultipartUpload ==
  /\ worker = "parts"
  /\ part > PartCount
  /\ store' = [store EXCEPT ![current] = seen]
  /\ worker' = "sent"
  /\ UNCHANGED <<dirVars, queue, uploadVars, failures, stop_flag, counters>>

\* A request fails or times out: UploadFile returns an error.
RequestFails ==
  /\ worker \in {"put", "create", "parts"}
  /\ faults < MaxFaults
  /\ faults' = faults + 1
  /\ worker' = "failed"
  /\ UNCHANGED <<dirVars, queue, uploadVars, failures, stop_flag, store,
                 crashes>>

\* The store carries out the request that completes the object, and the
\* response is lost: UploadFile returns an error nevertheless.
ResponseLost ==
  /\ \/ worker = "put" /\ store' = [store EXCEPT ![current] = archive[current]]
     \/ /\ worker = "parts" /\ part > PartCount
        /\ store' = [store EXCEPT ![current] = seen]
  /\ faults < MaxFaults
  /\ faults' = faults + 1
  /\ worker' = "failed"
  /\ UNCHANGED <<dirVars, queue, uploadVars, failures, stop_flag, crashes>>

\* Mutant: the file leaves the queue before the pause, too.
DeleteAndPop ==
  /\ worker = "sent"
  /\ archive' = [archive EXCEPT ![current] = "absent"]
  /\ queue' = Tail(queue)
  /\ failures' = 0
  /\ worker' = "deleted"
  /\ UNCHANGED <<writer, made, cut, uploadVars, stop_flag, store, counters>>

\* Nobody looks at what common::DeleteFile returns: if it fails, the file is
\* found again by the next listing.
DeleteFile ==
  /\ worker = "sent"
  /\ archive' \in {archive, [archive EXCEPT ![current] = "absent"]}
  /\ failures' = 0
  /\ worker' = "deleted"
  /\ UNCHANGED <<writer, made, cut, queue, uploadVars, stop_flag, store,
                 counters>>

\* After a pause the file leaves the queue.
PopUploaded ==
  /\ worker = "deleted"
  /\ queue' = Tail(queue)
  /\ worker' = "next"
  /\ UNCHANGED <<dirVars, uploadVars, failures, stop_flag, store, counters>>

\* Mutant: one attempt too many.
RetryOnceMore ==
  /\ worker = "failed"
  /\ failures < MaxFailures
  /\ failures' = failures + 1
  /\ worker' = "next"
  /\ UNCHANGED <<dirVars, queue, uploadVars, stop_flag, store, counters>>

\* The exponential back-off; the file stays at the front.
Retry ==
  /\ worker = "failed"
  /\ failures + 1 < MaxFailures
  /\ failures' = failures + 1
  /\ worker' = "next"
  /\ UNCHANGED <<dirVars, queue, uploadVars, stop_flag, store, counters>>

\* Mutant: a skipped file is deleted.
SkipAndDelete ==
  /\ worker = "failed"
  /\ failures + 1 >= MaxFailures
  /\ archive' = [archive EXCEPT ![current] = "absent"]
  /\ queue' = Tail(queue)
  /\ failures' = 0
  /\ worker' = "next"
  /\ UNCHANGED <<writer, made, cut, uploadVars, stop_flag, store, counters>>

\* "Max consecutive failures reached, skipping file"
Skip ==
  /\ worker = "failed"
  /\ failures + 1 >= MaxFailures
  /\ queue' = Tail(queue)
  /\ failures' = 0
  /\ worker' = "next"
  /\ UNCHANGED <<dirVars, uploadVars, stop_flag, store, counters>>

-----------------------------------------------------------------------------
(* Stop, and the process                                                   *)

Stop ==
  /\ ~stop_flag
  /\ stop_flag' = TRUE
  /\ UNCHANGED <<dirVars, queue, worker, uploadVars, failures, store,
                 counters>>

\* The process dies and is started again; an archive being written remains
\* as it is.
Crash ==
  /\ crashes < MaxCrashes
  /\ crashes' = crashes + 1
  /\ writer' = Nothing
  /\ queue' = << >>
  /\ worker' = "loop" /\ current' = Nothing /\ seen' = "absent" /\ part' = 0
  /\ failures' = 0
  /\ stop_flag' = FALSE
  /\ UNCHANGED <<archive, made, cut, store, faults>>

-----------------------------------------------------------------------------
Writer ==
  (\E f \in File : BeginArchive(f)) \/ EndArchive \/ CutArchiveShort

Request == PutObject \/ CreateMultipartUpload \/ UploadPart
             \/ CompleteMultipartUpload \/ RequestFails \/ ResponseLost

Worker == Request \/ LoadFileList \/ LeaveRun \/ LeaveQueue \/ OpenFile
            \/ DeleteFile \/ PopUploaded \/ Retry \/ Skip

Next == Writer \/ Worker \/ Stop \/ Crash

\* The worker runs and every request returns.  Nobody has to stop the
\* uploader, and an archive need not be made.
Fairness == WF_vars(Worker)

Spec == Init /\ [][Next]_vars
FairSpec == Spec /\ Fairness

-----------------------------------------------------------------------------
(* Properties                                                              *)

Content == {"absent", "partial", "whole"}

TypeOK ==
  /\ archive \in [File -> Content]
  /\ writer \in File \cup {Nothing}
  /\ made \subseteq File /\ cut \subseteq File
  /\ queue \in Seq(File)
  /\ worker \in {"loop", "next", "put", "create", "parts", "sent", "deleted",
                 "failed", "exited"}
  /\ current \in File \cup {Nothing}
  /\ seen \in Content
  /\ part \in 0 .. PartCount + 1
  /\ failures \in 0 .. MaxFailures - 1
  /\ stop_flag \in BOOLEAN
  /\ store \in [File -> Content]
  /\ faults \in Nat /\ crashes \in Nat

(* What CompressFiles has written to the end is in the directory or in the *)
(* store, all of it: through failing requests and deletes, lost responses, *)
(* skipped files, a stop in the middle of a file, and a crash between an   *)
(* upload and its delete.  Files that were half written when LoadFileList  *)
(* saw them are left to NothingLost.                                       *)
WholeFilesKept ==
  \A f \in made \ cut : archive[f] = "whole" \/ store[f] = "whole"

(* README.md of the repository, "reliable transfer" of large files: that   *)
(* holds of every archive the record worker has made.                      *)
NothingLost ==
  \A f \in made : archive[f] = "whole" \/ store[f] = "whole"

(* LoadFileList appends the whole directory on every round without a look  *)
(* at what is queued, and yet no file is queued twice: a second upload of  *)
(* a file already deleted would count as a failure of the next one.        *)
NoFileQueuedTwice == IsInjective(queue)

(* The item ProcessQueue pops is the one it has dealt with.                *)
PopsWhatItSent ==
  worker \in {"put", "create", "parts", "sent", "deleted", "failed"} =>
    queue # << >> /\ Head(queue) = current

\* Archives that were made and not listed half written before.
Announced == made \ cut

Delivery == INSTANCE ArchiveDelivery WITH
  announced <- Announced,
  directory <- {f \in Announced : archive[f] = "whole"},
  stored    <- {f \in Announced : store[f] = "whole"},
  stopped   <- stop_flag

(* Queue, requests, retries, skips and restarts deliver the archives: none *)
(* is removed before the store has all of it, a repeated upload does not   *)
(* spoil what was stored, and a file that is skipped after its failures is *)
(* found again in the directory, so that it is stored in the end.          *)
ImplementsDelivery == Delivery!Spec

(* A stop ends the thread, whatever it is doing, so that the destructor's  *)
(* join returns (or the process has died and has started again).           *)
StopEnds == stop_flag ~> (worker = "exited" \/ ~stop_flag)
=============================================================================

---------------------------- MODULE Uploader_proofs ----------------------------
(***************************************************************************)
(* Proofs about Uploader, for any finite set of archives, any number of    *)
(* parts, attempts, failing requests and crashes: the type invariant, that *)
(* the queue holds no file twice and its head is the file being dealt      *)
(* with, that every archive listed whole stays in the directory or reaches *)
(* the store whole, and that each step is one of ArchiveDelivery.          *)
(***************************************************************************)
EXTENDS Uploader, SequenceTheorems, FiniteSetTheorems, TLAPS

\* Run lists the directory only when nothing is queued: ProcessQueue leaves
\* its loop with an empty queue, or for a stop, after which Run leaves too.
EmptyWhenListing == worker = "loop" /\ ~stop_flag => queue = << >>

\* A queued file that was whole when it was listed is whole until it is
\* deleted, and then it is the head and leaves the queue next.
QueuedIsWhole ==
  \A i \in 1 .. Len(queue) :
    queue[i] \in cut \/ archive[queue[i]] = "whole" \/ (i = 1 /\ worker = "deleted")

\* What the parts are cut from, and what is deleted, was whole.
SentIsWhole ==
  current \notin cut =>
    /\ worker = "parts" => seen = "whole"
    /\ worker = "sent" => store[current] = "whole"

\* Nobody deletes an archive being written unless it was listed half written.
WriterIsAlone == writer # Nothing => writer \in cut \/ archive[writer] = "partial"

Started == worker = "parts" => part > 0

QueueInv ==
  /\ TypeOK /\ Started
  /\ EmptyWhenListing /\ NoFileQueuedTwice /\ PopsWhatItSent

UploadInv ==
  /\ QueueInv
  /\ QueuedIsWhole /\ SentIsWhole /\ WriterIsAlone /\ WholeFilesKept

\* The states in which the worker has a file.
Busy == {"put", "create", "parts", "sent", "deleted", "failed"}

(* A listing is a sequence of files, each of them once.                    *)
LEMMA ListingIsInjective ==
  ASSUME NEW S \in SUBSET File, NEW listing \in SetToSeqs(S)
  PROVE  /\ listing \in Seq(File) /\ IsInjective(listing)
         /\ \A i \in 1 .. Len(listing) : listing[i] \in S
<1>1. IsFiniteSet(S)
  BY FileAssumption, FS_Subset
<1>2. Cardinality(S) \in Nat
  BY <1>1, FS_CardinalityType
<1>3. /\ listing \in [1 .. Cardinality(S) -> S]
      /\ \A i, j \in 1 .. Cardinality(S) : i # j => listing[i] # listing[j]
  BY DEF SetToSeqs
<1>4. listing \in Seq(S) /\ Len(listing) = Cardinality(S)
  BY <1>2, <1>3
<1> QED
  BY <1>3, <1>4 DEF IsInjective

(* Taking the first file leaves a queue of files, each of them once.       *)
LEMMA TailIsInjective ==
  ASSUME NEW q \in Seq(File), q # << >>, IsInjective(q)
  PROVE  /\ Tail(q) \in Seq(File) /\ IsInjective(Tail(q))
         /\ Len(Tail(q)) = Len(q) - 1
         /\ \A i \in 1 .. Len(q) - 1 : Tail(q)[i] = q[i + 1] /\ q[i + 1] # Head(q)
<1>1. /\ Tail(q) \in Seq(File) /\ Len(Tail(q)) = Len(q) - 1
      /\ \A i \in 1 .. Len(q) - 1 : Tail(q)[i] = q[i + 1]
  OBVIOUS
<1>2. \A i, j \in 1 .. Len(q) : q[i] = q[j] => i = j
  BY DEF IsInjective
<1>3. IsInjective(Tail(q))
  BY <1>1, <1>2 DEF IsInjective
<1>4. \A i \in 1 .. Len(q) - 1 : q[i + 1] # Head(q)
  BY <1>2
<1> QED
  BY <1>1, <1>3, <1>4

(* A file that the worker has is the head of the queue.                    *)
LEMMA BusyHasHead ==
  ASSUME QueueInv, worker \in Busy
  PROVE  /\ queue # << >> /\ current = Head(queue) /\ current = queue[1]
         /\ current \in File
         /\ Len(queue) \in Nat \ {0}
  BY DEF QueueInv, TypeOK, PopsWhatItSent, Busy

USE DEF dirVars, uploadVars, counters

(* Nothing is queued twice in an empty queue.                              *)
LEMMA EmptyIsInjective ==
  << >> \in Seq(File) /\ IsInjective(<< >>) /\ 1 .. Len(<< >>) = {}
<1>1. DOMAIN << >> = {}
  OBVIOUS
<1> QED
  BY <1>1 DEF IsInjective

(* No part, no failure and no crash are numbers of the model.              *)
LEMMA ZeroCounts ==
  0 \in 0 .. PartCount + 1 /\ 0 \in 0 .. MaxFailures - 1 /\ 0 \in Nat
  BY FileAssumption

(* The initial state: nothing is queued and nothing made.                  *)
LEMMA InitInv == Init => UploadInv
<1> SUFFICES ASSUME Init PROVE UploadInv
  OBVIOUS
<1>1. TypeOK
  <2>1. queue \in Seq(File)
    BY EmptyIsInjective DEF Init
  <2> QED
    BY <2>1, ZeroCounts DEF Init, TypeOK, Content
<1>2. queue = << >> /\ IsInjective(queue) /\ 1 .. Len(queue) = {}
  <2>1. queue = << >>
    BY DEF Init
  <2> QED
    BY <2>1, EmptyIsInjective
<1>3. QueueInv
  BY <1>1, <1>2
     DEF Init, QueueInv, Started, EmptyWhenListing, NoFileQueuedTwice,
         PopsWhatItSent
<1>4. QueuedIsWhole
  BY <1>2 DEF QueuedIsWhole
<1>5. SentIsWhole /\ WriterIsAlone /\ WholeFilesKept
  BY DEF Init, SentIsWhole, WriterIsAlone, WholeFilesKept
<1> QED
  BY <1>3, <1>4, <1>5 DEF UploadInv

(* CompressFiles does not touch the queue, and it writes files that are    *)
(* not in the directory.                                                   *)
LEMMA WriterKeepsInv == UploadInv /\ Writer => UploadInv'
<1> SUFFICES ASSUME UploadInv, Writer PROVE UploadInv'
  OBVIOUS
<1> USE DEF UploadInv
<1>1. ASSUME NEW f \in File, BeginArchive(f) PROVE UploadInv'
  <2>1. QueueInv'
    BY <1>1 DEF QueueInv, TypeOK, Content, Started, EmptyWhenListing,
                NoFileQueuedTwice, PopsWhatItSent, BeginArchive
  <2>2. QueuedIsWhole'
    BY <1>1 DEF QueuedIsWhole, QueueInv, TypeOK, BeginArchive
  <2>3. SentIsWhole' /\ WriterIsAlone' /\ WholeFilesKept'
    BY <1>1 DEF SentIsWhole, WriterIsAlone, WholeFilesKept, QueueInv, TypeOK,
                BeginArchive
  <2> QED
    BY <2>1, <2>2, <2>3
<1>2. ASSUME EndArchive PROVE UploadInv'
  <2>1. QueueInv'
    BY <1>2 DEF QueueInv, TypeOK, Content, Started, EmptyWhenListing,
                NoFileQueuedTwice, PopsWhatItSent, EndArchive
  <2>2. QueuedIsWhole'
    BY <1>2 DEF QueuedIsWhole, QueueInv, TypeOK, EndArchive
  <2>3. SentIsWhole' /\ WriterIsAlone' /\ WholeFilesKept'
    BY <1>2, FileAssumption
       DEF SentIsWhole, WriterIsAlone, WholeFilesKept, QueueInv, TypeOK, EndArchive
  <2> QED
    BY <2>1, <2>2, <2>3
<1>3. ASSUME CutArchiveShort PROVE UploadInv'
  BY <1>3 DEF QueueInv, TypeOK, Started, EmptyWhenListing, NoFileQueuedTwice,
              PopsWhatItSent, QueuedIsWhole, SentIsWhole, WriterIsAlone,
              WholeFilesKept, CutArchiveShort
<1> QED
  BY <1>1, <1>2, <1>3 DEF Writer

(* A new round: the queue is empty, and becomes the listing.               *)
LEMMA ListKeepsInv == UploadInv /\ LoadFileList => UploadInv'
<1> SUFFICES ASSUME UploadInv, LoadFileList PROVE UploadInv'
  OBVIOUS
<1> DEFINE listed == {f \in File : archive[f] # "absent"}
<1>1. PICK listing \in SetToSeqs(listed) : queue' = queue \o listing
  BY DEF LoadFileList
<1>2. queue = << >>
  BY DEF UploadInv, QueueInv, EmptyWhenListing, LoadFileList
<1>3. /\ listing \in Seq(File) /\ IsInjective(listing)
      /\ \A i \in 1 .. Len(listing) : listing[i] \in listed
  BY ListingIsInjective
<1>4. queue' = listing
  BY <1>1, <1>2, <1>3
<1>5. QueueInv'
  BY <1>3, <1>4, FileAssumption
     DEF UploadInv, QueueInv, TypeOK, Started, EmptyWhenListing,
         NoFileQueuedTwice, PopsWhatItSent, LoadFileList
<1>6. QueuedIsWhole'
  <2> SUFFICES ASSUME NEW i \in 1 .. Len(listing)
               PROVE  listing[i] \in cut' \/ archive'[listing[i]] = "whole"
    BY <1>4 DEF QueuedIsWhole
  <2>1. listing[i] \in File /\ archive[listing[i]] \in {"partial", "whole"}
    BY <1>3 DEF UploadInv, QueueInv, TypeOK, Content
  <2> QED
    BY <2>1 DEF LoadFileList
<1>7. SentIsWhole' /\ WriterIsAlone' /\ WholeFilesKept'
  BY DEF UploadInv, SentIsWhole, WriterIsAlone, WholeFilesKept, LoadFileList
<1> QED
  BY <1>5, <1>6, <1>7 DEF UploadInv

(* The file at the head is opened and sent; only the store changes.        *)
LEMMA SendKeepsInv ==
  UploadInv /\ (OpenFile \/ Request \/ Retry \/ LeaveRun \/ LeaveQueue \/ Stop)
    => UploadInv'
<1> SUFFICES ASSUME UploadInv,
                    OpenFile \/ Request \/ Retry \/ LeaveRun \/ LeaveQueue \/ Stop
             PROVE  UploadInv'
  OBVIOUS
<1> USE DEF UploadInv, QueueInv, Started, EmptyWhenListing, NoFileQueuedTwice,
            PopsWhatItSent, QueuedIsWhole, SentIsWhole, WriterIsAlone,
            WholeFilesKept
<1>1. CASE OpenFile
  <2>1. Head(queue) \in File /\ worker' \in Busy \ {"parts", "sent", "deleted"}
    BY <1>1 DEF TypeOK, OpenFile, Content, Busy
  <2> QED
    BY <1>1, <2>1 DEF TypeOK, OpenFile, Busy
<1>2. CASE PutObject
  <2>1. current \in File /\ queue # << >> /\ current = queue[1] /\ 1 \in 1 .. Len(queue)
    BY <1>2, BusyHasHead DEF PutObject, Busy
  <2>2. current \in cut \/ archive[current] = "whole"
    BY <1>2, <2>1 DEF PutObject
  <2> QED
    BY <1>2, <2>1, <2>2 DEF TypeOK, PutObject
<1>3. CASE CreateMultipartUpload
  <2>1. current \in File /\ queue # << >> /\ current = queue[1] /\ 1 \in 1 .. Len(queue)
    BY <1>3, BusyHasHead DEF CreateMultipartUpload, Busy
  <2>2. current \in cut \/ archive[current] = "whole"
    BY <1>3, <2>1 DEF CreateMultipartUpload
  <2> QED
    BY <1>3, <2>1, <2>2, FileAssumption DEF TypeOK, CreateMultipartUpload
<1>4. CASE UploadPart
  BY <1>4, FileAssumption DEF TypeOK, UploadPart
<1>5. CASE CompleteMultipartUpload
  <2>1. current \in File
    BY <1>5, BusyHasHead DEF CompleteMultipartUpload, Busy
  <2> QED
    BY <1>5, <2>1 DEF TypeOK, CompleteMultipartUpload
<1>6. CASE RequestFails
  BY <1>6 DEF TypeOK, RequestFails
<1>7. CASE Retry
  BY <1>7, FileAssumption DEF TypeOK, Retry
<1>8. CASE LeaveRun
  BY <1>8 DEF TypeOK, LeaveRun
<1>9. CASE LeaveQueue
  BY <1>9 DEF TypeOK, LeaveQueue
<1>10. CASE Stop
  BY <1>10 DEF TypeOK, Stop
<1>11. CASE ResponseLost
  <2>1. current \in File /\ queue # << >> /\ current = queue[1] /\ 1 \in 1 .. Len(queue)
    BY <1>11, BusyHasHead DEF ResponseLost, Busy
  <2>2. current \in cut \/ archive[current] = "whole"
    BY <1>11, <2>1 DEF ResponseLost
  <2>3. TypeOK'
    BY <1>11, <2>1 DEF TypeOK, ResponseLost
  <2>4. QueuedIsWhole' /\ SentIsWhole' /\ WriterIsAlone' /\ PopsWhatItSent'
    BY <1>11 DEF ResponseLost
  <2>5. WholeFilesKept'
    BY <1>11, <2>1, <2>2 DEF TypeOK, ResponseLost
  <2> QED
    BY <1>11, <2>3, <2>4, <2>5 DEF ResponseLost
<1> QED
  BY <1>1, <1>2, <1>3, <1>4, <1>5, <1>6, <1>7, <1>8, <1>9, <1>10, <1>11 DEF Request

(* The head leaves the queue: it was sent and deleted, or is skipped.      *)
LEMMA PopKeepsInv ==
  UploadInv /\ (DeleteFile \/ PopUploaded \/ Skip) => UploadInv'
<1> SUFFICES ASSUME UploadInv, DeleteFile \/ PopUploaded \/ Skip PROVE UploadInv'
  OBVIOUS
<1> USE DEF UploadInv
<1>1. /\ queue # << >> /\ current = Head(queue) /\ current = queue[1]
      /\ current \in File /\ Len(queue) \in Nat \ {0}
      /\ queue \in Seq(File) /\ IsInjective(queue)
  BY BusyHasHead DEF DeleteFile, PopUploaded, Skip, Busy, QueueInv, TypeOK,
     NoFileQueuedTwice
<1>2. /\ Tail(queue) \in Seq(File) /\ IsInjective(Tail(queue))
      /\ Len(Tail(queue)) = Len(queue) - 1
      /\ \A i \in 1 .. Len(queue) - 1 :
           Tail(queue)[i] = queue[i + 1] /\ queue[i + 1] # Head(queue)
  BY <1>1, TailIsInjective
<1>3. QueueInv'
  <2> USE DEF QueueInv, TypeOK, Content, Started, EmptyWhenListing,
              NoFileQueuedTwice, PopsWhatItSent
  <2>1. CASE DeleteFile
    <3>1. archive' \in [File -> Content] /\ failures' \in 0 .. MaxFailures - 1
      BY <1>1, <2>1, FileAssumption DEF DeleteFile
    <3> QED
      BY <1>1, <2>1, <3>1 DEF DeleteFile
  <2>2. CASE PopUploaded
    BY <1>1, <1>2, <2>2 DEF PopUploaded
  <2>3. CASE Skip
    <3>1. failures' \in 0 .. MaxFailures - 1
      BY <2>3, FileAssumption DEF Skip
    <3> QED
      BY <1>1, <1>2, <2>3, <3>1 DEF Skip
  <2> QED
    BY <2>1, <2>2, <2>3
<1>4. QueuedIsWhole'
  <2>1. CASE DeleteFile
    <3>1. \A i \in 2 .. Len(queue) : queue[i] # current
      <4> SUFFICES ASSUME NEW i \in 2 .. Len(queue) PROVE queue[i] # current
        OBVIOUS
      <4>1. i - 1 \in 1 .. Len(queue) - 1 /\ queue[(i - 1) + 1] = queue[i]
        BY <1>1
      <4> QED
        BY <1>1, <1>2, <4>1
    <3> QED
      BY <1>1, <2>1, <3>1 DEF QueuedIsWhole, QueueInv, TypeOK, DeleteFile
  <2>2. CASE PopUploaded \/ Skip
    <3>1. queue' = Tail(queue) /\ UNCHANGED <<archive, cut>>
      BY <2>2 DEF PopUploaded, Skip
    <3> QED
      BY <1>1, <1>2, <3>1 DEF QueuedIsWhole
  <2> QED
    BY <2>1, <2>2
<1>5. SentIsWhole' /\ WriterIsAlone' /\ WholeFilesKept'
  <2>1. CASE DeleteFile
    <3>1. current \notin cut => store[current] = "whole"
      BY <2>1 DEF SentIsWhole, DeleteFile
    <3>2. WholeFilesKept'
      BY <1>1, <2>1, <3>1 DEF WholeFilesKept, QueueInv, TypeOK, DeleteFile
    <3>3. writer = current => current \in cut
      <4>1. current # Nothing /\ 1 \in 1 .. Len(queue) /\ worker # "deleted"
        BY <1>1, <2>1, FileAssumption DEF DeleteFile
      <4>2. current \in cut \/ archive[current] = "whole"
        BY <1>1, <4>1 DEF QueuedIsWhole
      <4> QED
        BY <4>1, <4>2 DEF WriterIsAlone
    <3>4. WriterIsAlone'
      BY <1>1, <2>1, <3>3 DEF WriterIsAlone, QueueInv, TypeOK, DeleteFile
    <3> QED
      BY <2>1, <3>2, <3>4 DEF SentIsWhole, DeleteFile
  <2>2. CASE PopUploaded \/ Skip
    BY <2>2 DEF SentIsWhole, WriterIsAlone, WholeFilesKept, PopUploaded, Skip
  <2> QED
    BY <2>1, <2>2
<1> QED
  BY <1>3, <1>4, <1>5

(* A process that dies loses the queue and leaves the directory and store. *)
LEMMA CrashKeepsInv == UploadInv /\ Crash => UploadInv'
<1> SUFFICES ASSUME UploadInv, Crash PROVE UploadInv'
  OBVIOUS
<1>1. queue' = << >> /\ IsInjective(queue') /\ 1 .. Len(queue') = {}
  <2>1. queue' = << >>
    BY DEF Crash
  <2> QED
    BY <2>1, EmptyIsInjective
<1>2. TypeOK' /\ Started'
  <2>1. queue' \in Seq(File)
    BY <1>1, EmptyIsInjective
  <2>2. crashes' \in Nat
    BY DEF UploadInv, QueueInv, TypeOK, Crash
  <2> QED
    BY <2>1, <2>2, ZeroCounts
       DEF UploadInv, QueueInv, TypeOK, Content, Started, Crash
<1>3. EmptyWhenListing' /\ NoFileQueuedTwice' /\ PopsWhatItSent' /\ QueuedIsWhole'
  BY <1>1 DEF EmptyWhenListing, NoFileQueuedTwice, PopsWhatItSent, QueuedIsWhole,
              Crash
<1>4. SentIsWhole' /\ WriterIsAlone' /\ WholeFilesKept'
  BY DEF UploadInv, SentIsWhole, WriterIsAlone, WholeFilesKept, Crash
<1> QED
  BY <1>2, <1>3, <1>4 DEF UploadInv, QueueInv

(* Every step keeps the invariant.                                         *)
LEMMA StepInv == UploadInv /\ [Next]_vars => UploadInv'
<1>1. UploadInv /\ UNCHANGED vars => UploadInv'
  BY DEF UploadInv, QueueInv, TypeOK, Started, EmptyWhenListing,
         NoFileQueuedTwice, PopsWhatItSent, QueuedIsWhole, SentIsWhole,
         WriterIsAlone, WholeFilesKept, vars
<1> QED
  BY <1>1, WriterKeepsInv, ListKeepsInv, SendKeepsInv, PopKeepsInv, CrashKeepsInv
     DEF Next, Worker

(* The invariant of the uploader.                                          *)
LEMMA Invariant == Spec => []UploadInv
  BY InitInv, StepInv, PTL DEF Spec

(* Every variable has its type; a file is tried fewer than MaxFailures     *)
(* times in a row, and no part is sent beyond the last.                    *)
THEOREM TypeCorrect == Spec => []TypeOK
<1>1. UploadInv => TypeOK
  BY DEF UploadInv, QueueInv
<1> QED
  BY <1>1, Invariant, PTL

(* CompressFiles and the uploader share the directory without a lock: what *)
(* was not listed half written is in the directory or in the store, whole, *)
(* through failing requests, retries, skipped files and crashes.           *)
THEOREM FilesKept == Spec => []WholeFilesKept
<1>1. UploadInv => WholeFilesKept
  BY DEF UploadInv
<1> QED
  BY <1>1, Invariant, PTL

(* LoadFileList appends to the queue whatever is queued already, and yet   *)
(* no file is queued twice.                                                *)
THEOREM QueuedOnce == Spec => []NoFileQueuedTwice
<1>1. UploadInv => NoFileQueuedTwice
  BY DEF UploadInv, QueueInv
<1> QED
  BY <1>1, Invariant, PTL

(* The item ProcessQueue pops is the file it has dealt with.               *)
THEOREM PopsHead == Spec => []PopsWhatItSent
<1>1. UploadInv => PopsWhatItSent
  BY DEF UploadInv, QueueInv
<1> QED
  BY <1>1, Invariant, PTL

-----------------------------------------------------------------------------
(* The delivery of the archives                                            *)

\* An archive is whole when it was made; what was listed or stored whole was
\* made or half written before; nobody writes to an archive that was announced.
AnnouncedInv ==
  /\ \A f \in File : archive[f] = "whole" => f \in made
  /\ \A f \in Announced : archive[f] # "partial"
  /\ \A i \in 1 .. Len(queue) : queue[i] \in made \cup cut
  /\ \A f \in File : store[f] = "whole" => f \in made \cup cut

(* The end of a file makes it whole and announces it, unless it was listed *)
(* before: then the directory entry may be gone.                           *)
LEMMA EndAnnounces ==
  ASSUME UploadInv, AnnouncedInv, EndArchive
  PROVE  /\ AnnouncedInv'
         /\ writer \in cut => Announced' = Announced
         /\ writer \notin cut =>
              /\ writer \in File \ Announced
              /\ Announced' = Announced \cup {writer}
              /\ archive'[writer] = "whole" /\ store'[writer] # "whole"
         /\ \A f \in Announced : archive'[f] = archive[f]
         /\ UNCHANGED <<cut, store, stop_flag>>
<1>1. /\ writer \in File
      /\ archive \in [File -> Content]
      /\ archive' = [archive EXCEPT
                       ![writer] = IF @ = "partial" THEN "whole" ELSE @]
      /\ made' = made \cup {writer}
      /\ UNCHANGED <<cut, queue, store, stop_flag>>
  BY DEF EndArchive, UploadInv, QueueInv, TypeOK
<1>2. \A f \in File : archive'[f] = IF f = writer /\ archive[f] = "partial"
                                    THEN "whole" ELSE archive[f]
  BY <1>1
<1>3. writer \in cut \/ archive[writer] = "partial"
  BY DEF EndArchive, UploadInv, WriterIsAlone
<1>4. made \subseteq File
  BY DEF UploadInv, QueueInv, TypeOK
<1>5. AnnouncedInv'
  BY <1>1, <1>2, <1>3, <1>4 DEF AnnouncedInv, Announced
<1>6. writer \notin cut => writer \notin made
  BY <1>3 DEF AnnouncedInv, Announced
<1> QED
  BY <1>1, <1>2, <1>3, <1>4, <1>5, <1>6 DEF AnnouncedInv, Announced

(* A listing cuts short files that are being written, and no others.       *)
LEMMA ListAnnouncesNothing ==
  ASSUME UploadInv, AnnouncedInv, LoadFileList
  PROVE  AnnouncedInv' /\ Announced' = Announced
<1>1. /\ UNCHANGED <<archive, made, store>>
      /\ cut' = cut \cup {f \in File : archive[f] = "partial"}
  BY DEF LoadFileList
<1>2. Announced' = Announced
  BY <1>1 DEF AnnouncedInv, Announced
<1>3. \A i \in 1 .. Len(queue') : queue'[i] \in made' \cup cut'
  <2> DEFINE listed == {f \in File : archive[f] # "absent"}
  <2>1. PICK listing \in SetToSeqs(listed) : queue' = queue \o listing
    BY DEF LoadFileList
  <2>2. queue = << >>
    BY DEF UploadInv, QueueInv, EmptyWhenListing, LoadFileList
  <2>3. /\ listing \in Seq(File)
        /\ \A i \in 1 .. Len(listing) : listing[i] \in listed
    BY ListingIsInjective
  <2>4. queue' = listing
    BY <2>1, <2>2, <2>3
  <2>5. \A f \in listed : f \in made' \cup cut'
    BY <1>1 DEF AnnouncedInv, UploadInv, QueueInv, TypeOK, Content
  <2> QED
    BY <2>3, <2>4, <2>5
<1> QED
  BY <1>1, <1>2, <1>3 DEF AnnouncedInv

(* What is sent was listed, and the store gets it as it was then.          *)
LEMMA SendStores ==
  ASSUME UploadInv, AnnouncedInv,
         PutObject \/ CompleteMultipartUpload \/ ResponseLost
  PROVE  /\ AnnouncedInv' /\ Announced' = Announced
         /\ current \in File
         /\ \A f \in File \ {current} : store'[f] = store[f]
         /\ current \in Announced =>
              archive[current] = "whole" /\ store'[current] = "whole"
         /\ UNCHANGED <<archive, stop_flag>>
<1>1. worker \in Busy
  BY DEF PutObject, CompleteMultipartUpload, ResponseLost, Busy
<1>2. /\ current \in File /\ current = queue[1] /\ 1 \in 1 .. Len(queue)
      /\ worker # "deleted"
  BY <1>1, BusyHasHead DEF UploadInv, PutObject, CompleteMultipartUpload,
                           ResponseLost
<1>3. /\ UNCHANGED <<archive, made, cut, queue, stop_flag>>
      /\ store \in [File -> Content]
      /\ \/ store' = [store EXCEPT ![current] = archive[current]]
         \/ store' = [store EXCEPT ![current] = seen] /\ worker = "parts"
  BY DEF UploadInv, QueueInv, TypeOK, PutObject, CompleteMultipartUpload,
         ResponseLost
<1>4. current \in made \cup cut
  BY <1>2 DEF AnnouncedInv
<1>5. current \notin cut =>
        /\ archive[current] = "whole"
        /\ worker = "parts" => seen = "whole"
  BY <1>2 DEF UploadInv, QueuedIsWhole, SentIsWhole
<1>6. \A f \in File \ {current} : store'[f] = store[f]
  BY <1>2, <1>3
<1>7. current \notin cut => store'[current] = "whole"
  BY <1>2, <1>3, <1>5
<1>8. Announced' = Announced
  BY <1>3 DEF Announced
<1>9. \A f \in File : store'[f] = "whole" => f \in made' \cup cut'
  BY <1>3, <1>4, <1>6 DEF AnnouncedInv
<1>10. AnnouncedInv'
  BY <1>3, <1>8, <1>9 DEF AnnouncedInv
<1> QED
  BY <1>2, <1>3, <1>5, <1>6, <1>7, <1>8, <1>10 DEF Announced

(* What is deleted, or should have been, is whole in the store.            *)
LEMMA DeleteRemoves ==
  ASSUME UploadInv, AnnouncedInv, DeleteFile
  PROVE  /\ AnnouncedInv' /\ Announced' = Announced
         /\ current \in File
         /\ archive' = archive \/ archive'[current] = "absent"
         /\ \A f \in File \ {current} : archive'[f] = archive[f]
         /\ current \in Announced =>
              archive[current] = "whole" /\ store[current] = "whole"
         /\ UNCHANGED <<store, stop_flag>>
<1>1. /\ worker = "sent" /\ worker \in Busy
      /\ archive' \in {archive, [archive EXCEPT ![current] = "absent"]}
      /\ archive \in [File -> Content]
      /\ UNCHANGED <<made, cut, queue, store, stop_flag>>
  BY DEF DeleteFile, Busy, UploadInv, QueueInv, TypeOK
<1>2. current \in File /\ current = queue[1] /\ 1 \in 1 .. Len(queue)
  BY <1>1, BusyHasHead DEF UploadInv
<1>3. /\ archive' = archive \/ archive'[current] = "absent"
      /\ \A f \in File \ {current} : archive'[f] = archive[f]
  BY <1>1, <1>2
<1>4. current \notin cut => archive[current] = "whole" /\ store[current] = "whole"
  BY <1>1, <1>2 DEF UploadInv, QueuedIsWhole, SentIsWhole
<1>5. Announced' = Announced /\ Announced \subseteq File
  BY <1>1 DEF Announced, UploadInv, QueueInv, TypeOK
<1>6. AnnouncedInv'
  BY <1>1, <1>3, <1>5 DEF AnnouncedInv
<1> QED
  BY <1>1, <1>2, <1>3, <1>4, <1>5, <1>6 DEF Announced

(* The other steps of the uploader leave directory and store alone; the    *)
(* queue is cut short, or lost in a crash.                                 *)
LEMMA RestKeepsAnnounced ==
  ASSUME UploadInv, AnnouncedInv,
         UNCHANGED <<archive, made, cut, store>>,
         queue' = queue \/ queue' = << >> \/ (queue # << >> /\ queue' = Tail(queue))
  PROVE  AnnouncedInv' /\ Announced' = Announced
<1>1. \A i \in 1 .. Len(queue') : queue'[i] \in made \cup cut
  <2>1. CASE queue' = queue
    BY <2>1 DEF AnnouncedInv
  <2>2. CASE queue' = << >>
    BY <2>2, EmptyIsInjective
  <2>3. CASE queue # << >> /\ queue' = Tail(queue)
    <3>1. \A i \in 1 .. Len(queue) - 1 : Tail(queue)[i] = queue[i + 1]
          /\ Len(Tail(queue)) = Len(queue) - 1 /\ Len(queue) \in Nat
      BY <2>3, TailIsInjective DEF UploadInv, QueueInv, TypeOK, NoFileQueuedTwice
    <3>2. \A i \in 1 .. Len(queue) - 1 : i + 1 \in 1 .. Len(queue)
      BY <2>3 DEF UploadInv, QueueInv, TypeOK
    <3> QED
      BY <2>3, <3>1, <3>2, TailIsInjective
         DEF AnnouncedInv, UploadInv, QueueInv, TypeOK, NoFileQueuedTwice
  <2> QED
    BY <2>1, <2>2, <2>3
<1> QED
  BY <1>1 DEF AnnouncedInv, Announced

\* The archives of the abstract specification.
Directory == {f \in Announced : archive[f] = "whole"}
Stored == {f \in Announced : store[f] = "whole"}

(* Every step is one of the delivery, or invisible there.                  *)
LEMMA DeliveryStep ==
  ASSUME UploadInv, AnnouncedInv, [Next]_vars
  PROVE  AnnouncedInv' /\ [Delivery!Next]_(Delivery!vars)
<1> USE DEF Delivery!vars
<1>0. ASSUME NEW f \in File,
             Delivery!Announce(f) \/ Delivery!Store(f) \/ Delivery!Remove(f)
      PROVE  Delivery!Next
  BY <1>0 DEF Delivery!Next
<1>1. /\ Announced \subseteq File /\ made \subseteq File
      /\ stop_flag \in BOOLEAN
      /\ archive \in [File -> Content] /\ store \in [File -> Content]
  BY DEF UploadInv, QueueInv, TypeOK, Announced
<1>2. ASSUME AnnouncedInv', Announced' = Announced,
             UNCHANGED <<archive, store>>
      PROVE  AnnouncedInv' /\ [Delivery!Next]_(Delivery!vars)
  <2>1. CASE stop_flag' = stop_flag
    BY <1>2, <2>1
  <2>2. CASE stop_flag' # stop_flag
    <3>1. stop_flag' = ~stop_flag
      <4>1. stop_flag' \in BOOLEAN
        BY StepInv DEF UploadInv, QueueInv, TypeOK
      <4> QED
        BY <1>1, <2>2, <4>1
    <3>2. Delivery!Next
      BY <1>2, <3>1 DEF Delivery!StopOrStart, Delivery!Next
    <3> QED
      BY <1>2, <3>2
  <2> QED
    BY <2>1, <2>2
<1>3. ASSUME NEW f \in File, BeginArchive(f)
      PROVE  AnnouncedInv' /\ [Delivery!Next]_(Delivery!vars)
  <2>1. /\ f \notin Announced
        /\ archive' = [archive EXCEPT ![f] = "partial"]
        /\ UNCHANGED <<made, cut, queue, store, stop_flag>>
    BY <1>3 DEF BeginArchive, Announced
  <2>2. Announced' = Announced /\ \A g \in Announced : archive'[g] = archive[g]
    BY <1>1, <2>1 DEF Announced
  <2>3. AnnouncedInv'
    BY <1>1, <2>1, <2>2 DEF AnnouncedInv
  <2>4. Directory' = Directory /\ Stored' = Stored
    BY <2>1, <2>2 DEF Directory, Stored
  <2> QED
    BY <2>1, <2>2, <2>3, <2>4 DEF Directory, Stored
<1>4. CASE EndArchive
  <2>1. CASE writer \in cut
    <3>1. Announced' = Announced /\ UNCHANGED <<store, stop_flag>>
      BY <1>4, <2>1, EndAnnounces
    <3>2. Directory' = Directory /\ Stored' = Stored
      BY <1>4, <3>1, EndAnnounces DEF Directory, Stored
    <3> QED
      BY <1>4, <3>1, <3>2, EndAnnounces DEF Directory, Stored
  <2>2. CASE writer \notin cut
    <3>1. /\ AnnouncedInv' /\ writer \in File \ Announced
          /\ Announced' = Announced \cup {writer}
          /\ archive'[writer] = "whole" /\ store'[writer] # "whole"
          /\ \A f \in Announced : archive'[f] = archive[f]
          /\ UNCHANGED <<store, stop_flag>>
      BY <1>4, <2>2, EndAnnounces
    <3>2. Directory' = Directory \cup {writer} /\ Stored' = Stored
      BY <3>1 DEF Directory, Stored
    <3>3. PICK f \in File : f = writer
      BY <3>1
    <3>4. Delivery!Announce(f)
      BY <3>1, <3>2, <3>3 DEF Delivery!Announce, Directory, Stored
    <3> QED
      BY <1>0, <3>1, <3>4
  <2> QED
    BY <2>1, <2>2
<1>5. CASE LoadFileList
  BY <1>2, <1>5, ListAnnouncesNothing DEF LoadFileList
<1>6. CASE PutObject \/ CompleteMultipartUpload \/ ResponseLost
  <2>1. /\ AnnouncedInv' /\ Announced' = Announced /\ current \in File
        /\ \A f \in File \ {current} : store'[f] = store[f]
        /\ current \in Announced =>
             archive[current] = "whole" /\ store'[current] = "whole"
        /\ UNCHANGED <<archive, stop_flag>>
    BY <1>6, SendStores
  <2>2. Directory' = Directory
    BY <2>1 DEF Directory
  <2>3. CASE current \in Announced
    <3>1. Stored' = Stored \cup {current} /\ current \in Directory
      BY <1>1, <2>1, <2>3 DEF Stored, Directory
    <3>2. PICK f \in File : f = current
      BY <2>1
    <3>3. Delivery!Store(f)
      BY <2>1, <2>2, <3>1, <3>2 DEF Delivery!Store, Directory, Stored
    <3> QED
      BY <1>0, <2>1, <3>3
  <2>4. CASE current \notin Announced
    <3>1. Stored' = Stored
      BY <1>1, <2>1, <2>4 DEF Stored
    <3> QED
      BY <2>1, <2>2, <3>1 DEF Directory, Stored
  <2> QED
    BY <2>3, <2>4
<1>7. CASE DeleteFile
  <2>1. /\ AnnouncedInv' /\ Announced' = Announced /\ current \in File
        /\ archive' = archive \/ archive'[current] = "absent"
        /\ \A f \in File \ {current} : archive'[f] = archive[f]
        /\ current \in Announced =>
             archive[current] = "whole" /\ store[current] = "whole"
        /\ UNCHANGED <<store, stop_flag>>
    BY <1>7, DeleteRemoves
  <2>2. Stored' = Stored
    BY <2>1 DEF Stored
  <2>3. CASE current \in Announced /\ archive'[current] = "absent"
    <3>1. /\ Directory' = Directory \ {current}
          /\ current \in Directory \cap Stored
      BY <1>1, <2>1, <2>3 DEF Stored, Directory
    <3>2. PICK f \in File : f = current
      BY <2>1
    <3>3. Delivery!Remove(f)
      BY <2>1, <2>2, <3>1, <3>2 DEF Delivery!Remove, Directory, Stored
    <3> QED
      BY <1>0, <2>1, <3>3
  <2>4. CASE current \notin Announced
    <3>1. Directory' = Directory
      BY <1>1, <2>1, <2>4 DEF Directory
    <3> QED
      BY <2>1, <2>2, <3>1 DEF Directory, Stored
  <2>5. CASE archive' = archive
    BY <2>1, <2>2, <2>5 DEF Directory, Stored
  <2> QED
    BY <2>1, <2>3, <2>4, <2>5
<1>8. CASE OpenFile \/ CreateMultipartUpload \/ UploadPart \/ RequestFails
             \/ Retry \/ LeaveRun \/ LeaveQueue \/ Stop \/ CutArchiveShort
             \/ UNCHANGED vars
  <2>1. UNCHANGED <<archive, made, cut, store, queue>>
    BY <1>8 DEF OpenFile, CreateMultipartUpload, UploadPart, RequestFails,
                Retry, LeaveRun, LeaveQueue, Stop, CutArchiveShort, vars
  <2> QED
    BY <1>2, <2>1, RestKeepsAnnounced
<1>9. CASE PopUploaded \/ Skip
  <2>1. /\ UNCHANGED <<archive, made, cut, store>>
        /\ queue # << >> /\ queue' = Tail(queue)
    BY <1>9 DEF PopUploaded, Skip, UploadInv, QueueInv, PopsWhatItSent
  <2> QED
    BY <1>2, <2>1, RestKeepsAnnounced
<1>10. CASE Crash
  <2>1. UNCHANGED <<archive, made, cut, store>> /\ queue' = << >>
    BY <1>10 DEF Crash
  <2> QED
    BY <1>2, <2>1, RestKeepsAnnounced
<1> QED
  BY <1>3, <1>4, <1>5, <1>6, <1>7, <1>8, <1>9, <1>10
     DEF Next, Writer, Worker, Request

(* The uploader implements the delivery of the archives it did not list    *)
(* half written, as far as safety goes: none is removed from the directory *)
(* before the store has all of it, and a repeated upload, after a crash    *)
(* between an upload and its delete, does not spoil what was stored.       *)
THEOREM ImplementsDeliverySafety == Spec => Delivery!Safety
<1>1. Init => AnnouncedInv /\ Delivery!Init
  <2> SUFFICES ASSUME Init PROVE AnnouncedInv /\ Delivery!Init
    OBVIOUS
  <2>1. /\ made = {} /\ Announced = {} /\ stop_flag = FALSE
        /\ \A f \in File : archive[f] = "absent" /\ store[f] = "absent"
    BY DEF Init, Announced
  <2>2. 1 .. Len(queue) = {}
    BY EmptyIsInjective DEF Init
  <2> QED
    BY <2>1, <2>2 DEF AnnouncedInv, Delivery!Init
<1> QED
  BY <1>1, Invariant, DeliveryStep, PTL DEF Spec, Delivery!Safety
=============================================================================

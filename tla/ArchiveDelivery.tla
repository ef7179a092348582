--------------------------- MODULE ArchiveDelivery ---------------------------
(***************************************************************************)
(* What the uploader promises of the archives it lists when they are whole,*)
(* without a queue, requests, retries or crashes: an archive leaves the    *)
(* directory only when the store has all of it, the store never loses it,  *)
(* and it is stored in the end unless the uploader is stopped.             *)
(***************************************************************************)
CONSTANT File

VARIABLES
  announced,          \* archives that were made
  directory,          \* those that are there, whole
  stored,             \* those the store has, whole
  stopped

vars == <<announced, directory, stored, stopped>>

Init ==
  /\ announced = {} /\ directory = {} /\ stored = {}
  /\ stopped = FALSE

Announce(f) ==
  /\ f \notin announced
  /\ announced' = announced \cup {f}
  /\ directory' = directory \cup {f}
  /\ UNCHANGED <<stored, stopped>>

\* Once more, perhaps: the process may die before the archive is removed.
Store(f) ==
  /\ f \in directory
  /\ stored' = stored \cup {f}
  /\ UNCHANGED <<announced, directory, stopped>>

Remove(f) ==
  /\ f \in directory \cap stored
  /\ directory' = directory \ {f}
  /\ UNCHANGED <<announced, stored, stopped>>

\* The uploader is stopped; a new process starts another.
StopOrStart ==
  /\ stopped' = ~stopped
  /\ UNCHANGED <<announced, directory, stored>>

Next ==
  \/ \E f \in File : Announce(f) \/ Store(f) \/ Remove(f)
  \/ StopOrStart

Delivered == \A f \in File : f \in announced ~> (f \in stored \/ stopped)

\* What may happen to an archive, without the promise that it is delivered.
Safety == Init /\ [][Next]_vars

Spec == Safety /\ Delivered
=============================================================================

------------------------------ MODULE Recorder ------------------------------
(***************************************************************************)
(* Ros2BagRecorder together with the code of DataCollectionExecutor that   *)
(* drives it: the service callback that admits a trigger, snapshots the    *)
(* forward buffer and queues a task, the worker that runs TriggerRecord    *)
(* and packages the bag, the channel callback that feeds the buffers, the  *)
(* destructor and a caller of BreakOffRecord.                              *)
(*                                                                         *)
(* One topic; time is counted in ticks; a message is its stamp and its     *)
(* number among the messages of that tick.  Every block that runs under    *)
(* buffer_mutex_ is one step.  What the code does to a bag is kept as      *)
(* three sets of messages, one per loop of write_ringbuffer.  The hand-    *)
(* over through the queue is one step here: module RecordWorker has its    *)
(* mutex and its condition variable.                                       *)
(***************************************************************************)
EXTENDS Integers, RingBuffer

CONSTANTS
  ForwardDur,       \* cache_mode_.forwardCaptureDurationSec
  BackwardDur,      \* cache_mode_.backwardCaptureDurationSec
  ForwardCap,       \* capacity of the forward ring buffer
  BackwardCap,      \* capacity of the backward ring buffer
  Cooldown,         \* cooldownDurationSec
  Second,           \* ticks in a second, the resolution of a bag's name
  None,             \* no message, no task, no bag
  MaxTime,          \* bound: the clock stops here
  LastAdmission,    \* bound: no trigger is admitted later
  MaxLatency,       \* bound: age of a request when it is served
  MaxTriggers,      \* bound: triggers admitted
  MaxCancels,       \* bound: calls of BreakOffRecord
  PerTick,          \* bound: messages in one tick
  MayShutDown,      \* TRUE: the executor may be destroyed
  MayFail           \* TRUE: Open may fail

ASSUME DurationAssumption ==
  /\ ForwardDur \in Nat /\ BackwardDur \in Nat /\ Cooldown \in Nat
  /\ ForwardCap \in Nat \ {0} /\ BackwardCap \in Nat \ {0}
  /\ Second \in Nat \ {0}
ASSUME BoundAssumption ==
  /\ MaxTime \in Nat /\ LastAdmission \in Nat /\ MaxLatency \in Nat
  /\ MaxTriggers \in Nat /\ MaxCancels \in Nat /\ PerTick \in Nat
  /\ MayShutDown \in BOOLEAN /\ MayFail \in BOOLEAN

Message == [ts : Nat, nr : Nat \ {0}]
Path == Nat
BagInfo == [path : Path, total : Nat]

ASSUME NoneAssumption == None \notin Message \cup BagInfo

VARIABLES
  now,                  \* common::GetCurrentTimestamp()
  nr,                   \* messages stamped in this tick
  channel,              \* message stamped by OnMessageReceived, before the lock
  forward_buffer,       \* forward_ringbuffers_[topic]
  backward_buffer,      \* backward_ringbuffers_[topic]
  triggered_forward,    \* triggered_forward_buffers_[topic]
  trigger_timestamp_,
  is_cancelled_,
  current_state_,       \* of StateMachine::getInstance()
  service,              \* where handleTriggerService is
  request,              \* what it is serving
  last_trigger_finish_time,
  record_queue_,
  phase,                \* of recordWorkerLoop: running, told to stop, draining
  worker,               \* where the worker is with its task
  task,                 \* the task it popped
  deadline,             \* end of its wait for backward data
  bag_info_,            \* the recorder's statistics of the last bag opened
  disk,                 \* bag directory of every path
  written,              \* what write_ringbuffer put into the bag of the task
  heard,                \* history: the latest messages that were stored
  collected,            \* history: those of this trigger stored as it waited
  admitted,             \* number of triggers admitted
  cancels               \* number of calls of BreakOffRecord

clockVars == <<now, nr>>
bufferVars == <<forward_buffer, backward_buffer, heard, collected>>
serviceVars == <<service, request, last_trigger_finish_time, admitted>>
bagVars == <<bag_info_, disk, written>>
recordVars == <<trigger_timestamp_, triggered_forward, task, deadline>>
cancelVars == <<is_cancelled_, cancels>>
vars == <<clockVars, channel, bufferVars, serviceVars, bagVars, recordVars,
          worker, phase, record_queue_, cancelVars, current_state_>>

\* The clock starts when the cooldown the constructor begins is over.
InitRecorder ==
  /\ now = 0 /\ nr = 0
  /\ channel = None
  /\ forward_buffer = << >> /\ backward_buffer = << >>
  /\ triggered_forward = {}
  /\ trigger_timestamp_ = 0
  /\ is_cancelled_ = FALSE
  /\ service = "idle" /\ request = None
  /\ last_trigger_finish_time = - Cooldown
  /\ record_queue_ = << >>
  /\ phase = "running" /\ worker = "idle" /\ task = None /\ deadline = 0
  /\ bag_info_ = None /\ written = None
  /\ disk = [p \in {} |-> None]
  /\ heard = {} /\ collected = {}
  /\ admitted = 0 /\ cancels = 0

\* StateMachine::initialize ran before the executor was made.
Init == InitRecorder /\ current_state_ = "IDLE"

\* Messages a forward buffer that is large enough still holds at time t.
Recent(S, t) == {m \in S : t - m.ts < ForwardDur}

\* Mutant: the clock is set back.
TickBack ==
  /\ now' = now - 1
  /\ UNCHANGED <<nr, channel, bufferVars, serviceVars, bagVars, recordVars,
                 worker, phase, record_queue_, cancelVars, current_state_>>

Tick ==
  /\ now < MaxTime
  /\ now' = now + 1
  /\ nr' = 0
  /\ heard' = Recent(heard, now + 1)
  /\ UNCHANGED <<channel, forward_buffer, backward_buffer, collected,
                 serviceVars, bagVars, recordVars, worker, phase,
                 record_queue_, cancelVars, current_state_>>

-----------------------------------------------------------------------------
(* OnMessageReceived, on the channel thread                                *)

\* The stamp is taken before buffer_mutex_ is locked.
StampMessage ==
  /\ channel = None
  /\ nr < PerTick
  /\ nr' = nr + 1
  /\ channel' = [ts |-> now, nr |-> nr + 1]
  /\ UNCHANGED <<now, bufferVars, serviceVars, bagVars, recordVars, worker,
                 phase, record_queue_, cancelVars, current_state_>>

\* The unsigned difference message_timestamp - trigger_timestamp_ wraps for
\* a message older than the trigger and is then larger than any duration.
IsBackwardData(m) ==
  /\ current_state_ = "DATA_COLLECTING"
  /\ m.ts >= trigger_timestamp_
  /\ m.ts - trigger_timestamp_ <= BackwardDur

\* After the trigger at T, and no later than the data its bag is made of.
IsPostTrigger(m, T) == T < m.ts /\ m.ts <= T + BackwardDur

StoreMessage ==
  /\ channel # None
  /\ forward_buffer' =
       PushBack(DropOlder(forward_buffer, channel.ts, ForwardDur),
                ForwardCap, channel)
  /\ backward_buffer' = IF IsBackwardData(channel)
                        THEN PushBack(backward_buffer, BackwardCap, channel)
                        ELSE backward_buffer
  /\ heard' = Recent(heard \cup {channel}, now)
  /\ collected' = IF worker = "waiting" /\ IsPostTrigger(channel, task.trigger)
                  THEN collected \cup {channel}
                  ELSE collected
  /\ channel' = None
  /\ UNCHANGED <<clockVars, serviceVars, bagVars, recordVars, worker, phase,
                 record_queue_, cancelVars, current_state_>>

-----------------------------------------------------------------------------
(* handleTriggerService, on the service thread                             *)

\* Mutant: no cooldown.
NoCooldown == FALSE

IsInCooldown == Cooldown # 0 /\ now - last_trigger_finish_time < Cooldown

\* A request stamped ts by its sender passes the cooldown and disk checks.
\* (A request that does not pass them changes nothing.)
Admit(ts) ==
  /\ service = "idle" /\ phase = "running"
  /\ admitted < MaxTriggers /\ now <= LastAdmission
  /\ now - MaxLatency <= ts /\ ts <= now
  /\ ~IsInCooldown
  /\ service' = "name"
  /\ request' = [trigger |-> ts, path |-> None]
  /\ UNCHANGED <<clockVars, channel, bufferVars, bagVars, recordVars, worker,
                 phase, record_queue_, cancelVars, current_state_,
                 last_trigger_finish_time, admitted>>

\* generateBagFilename: the time, cut to seconds, is the name.  The trigger
\* ids and business types of the requests are taken to be the same.
NameBag ==
  /\ service = "name"
  /\ request' = [request EXCEPT !.path = now \div Second]
  /\ service' = "stamp"
  /\ UNCHANGED <<clockVars, channel, bufferVars, bagVars, recordVars, worker,
                 phase, record_queue_, cancelVars, current_state_,
                 last_trigger_finish_time, admitted>>

\* last_trigger_finish_time = GetCurrentTimestamp()
StartCooldown ==
  /\ service = "stamp"
  /\ last_trigger_finish_time' = now
  /\ admitted' = admitted + 1
  /\ service' = "snapshot"
  /\ UNCHANGED <<clockVars, channel, bufferVars, bagVars, recordVars, worker,
                 phase, record_queue_, cancelVars, current_state_, request>>

\* snapshotForwardBuffers, then the push to the queue and the reply.  The
\* field owed is a history: the messages heard so far that a trigger served
\* this instant can still count on.
SnapshotAndQueue ==
  /\ service = "snapshot"
  /\ LET T == request.trigger IN
     record_queue_' = Append(record_queue_,
       [trigger |-> T,
        path    |-> request.path,
        saved   |-> Within(forward_buffer, T - ForwardDur, T),
        owed    |-> {m \in Recent(heard, now) : m.ts <= T}])
  /\ service' = "idle"
  /\ request' = None
  /\ UNCHANGED <<clockVars, channel, bufferVars, bagVars, recordVars, worker,
                 phase, cancelVars, current_state_, last_trigger_finish_time,
                 admitted>>

-----------------------------------------------------------------------------
(* recordWorkerLoop and TriggerRecord, on the worker thread                *)

PopTask ==
  /\ worker = "idle"
  /\ record_queue_ # << >>
  /\ task' = Head(record_queue_)
  /\ record_queue_' = Tail(record_queue_)
  /\ worker' = "check"
  /\ UNCHANGED <<clockVars, channel, bufferVars, serviceVars, bagVars,
                 trigger_timestamp_, triggered_forward, deadline, phase,
                 cancelVars, current_state_>>

\* The loop ends; what is still queued is drained.
LeaveLoop ==
  /\ worker = "idle"
  /\ phase = "stopping"
  /\ phase' = "draining"
  /\ UNCHANGED <<clockVars, channel, bufferVars, serviceVars, bagVars,
                 recordVars, worker, record_queue_, cancelVars,
                 current_state_>>

Exit ==
  /\ worker = "idle"
  /\ phase = "draining"
  /\ record_queue_ = << >>
  /\ worker' = "exited"
  /\ UNCHANGED <<clockVars, channel, bufferVars, serviceVars, bagVars,
                 recordVars, phase, record_queue_, cancelVars,
                 current_state_>>

\* Mutant: TriggerRecord waits for the state to change.
IgnoreLater ==
  /\ worker = "check"
  /\ current_state_ = "DATA_COLLECTING"
  /\ UNCHANGED vars

\* "Trigger ignored": TriggerRecord returns false, nobody looks.  It takes
\* another writer of the state (module EdgeRuntime) to get here: alone, the
\* recorder never finds its worker busy (CollectingIffRecording).
Ignore ==
  /\ worker = "check"
  /\ current_state_ = "DATA_COLLECTING"
  /\ worker' = "package"
  /\ UNCHANGED <<clockVars, channel, bufferVars, serviceVars, bagVars,
                 recordVars, phase, record_queue_, cancelVars,
                 current_state_>>

\* trigger_timestamp_ and is_cancelled_ are set before the lock.
Arm ==
  /\ worker = "check"
  /\ current_state_ # "DATA_COLLECTING"
  /\ trigger_timestamp_' = task.trigger
  /\ is_cancelled_' = FALSE
  /\ worker' = "armed"
  /\ UNCHANGED <<clockVars, channel, bufferVars, serviceVars, bagVars,
                 triggered_forward, task, deadline, phase, record_queue_,
                 cancels, current_state_>>

\* Mutants: the backward data of the last bag stays; the forward data is
\* copied when the worker gets to the task.
SwapForwardOnly ==
  /\ worker = "armed"
  /\ triggered_forward' = task.saved
  /\ worker' = "swapped"
  /\ UNCHANGED <<clockVars, channel, bufferVars, serviceVars, bagVars,
                 trigger_timestamp_, task, deadline, phase, record_queue_,
                 cancelVars, current_state_>>

SwapLate ==
  /\ worker = "armed"
  /\ triggered_forward' =
       Within(forward_buffer, task.trigger - ForwardDur, task.trigger)
  /\ backward_buffer' = << >>
  /\ worker' = "swapped"
  /\ UNCHANGED <<clockVars, channel, forward_buffer, heard, collected,
                 serviceVars, bagVars, trigger_timestamp_, task, deadline,
                 phase, record_queue_, cancelVars, current_state_>>

\* Adopt the saved forward data, forget the backward data of the last bag.
SwapBuffers ==
  /\ worker = "armed"
  /\ triggered_forward' = task.saved
  /\ backward_buffer' = << >>
  /\ worker' = "swapped"
  /\ UNCHANGED <<clockVars, channel, forward_buffer, heard, collected,
                 serviceVars, bagVars, trigger_timestamp_, task, deadline,
                 phase, record_queue_, cancelVars, current_state_>>

\* setCurrentState, and the wait for what is left of the backward duration
Collect ==
  /\ worker = "swapped"
  /\ current_state_' = "DATA_COLLECTING"
  /\ LET elapsed == now - task.trigger IN
     deadline' = now + (IF elapsed >= BackwardDur THEN 0
                                                  ELSE BackwardDur - elapsed)
  /\ worker' = "waiting"
  /\ UNCHANGED <<clockVars, channel, bufferVars, serviceVars, bagVars,
                 trigger_timestamp_, triggered_forward, task, phase,
                 record_queue_, cancelVars>>

\* cv_cancel_.wait_for returns: timeout, or woken with the flag set
WaitEnds ==
  /\ worker = "waiting"
  /\ now >= deadline \/ is_cancelled_
  /\ worker' = "decide"
  /\ UNCHANGED <<clockVars, channel, bufferVars, serviceVars, bagVars,
                 recordVars, phase, record_queue_, cancelVars,
                 current_state_>>

\* Mutant: a cancelled recording returns at once.
AbandonAndReturn ==
  /\ worker = "decide" /\ is_cancelled_
  /\ worker' = "package"
  /\ UNCHANGED <<clockVars, channel, bufferVars, serviceVars, bagVars,
                 recordVars, phase, record_queue_, cancelVars,
                 current_state_>>

\* "Recording was cancelled before completion"
Abandon ==
  /\ worker = "decide"
  /\ is_cancelled_
  /\ worker' = "end"
  /\ UNCHANGED <<clockVars, channel, bufferVars, serviceVars, bagVars,
                 recordVars, phase, record_queue_, cancelVars,
                 current_state_>>

\* The three loops of write_ringbuffer.
FromSnapshot(T) ==
  {m \in triggered_forward : m.ts <= T /\ m.ts >= T - ForwardDur}
\* Mutant: the stamps of the snapshot are not looked up.
AllOfForwardBuffer(T) == Within(forward_buffer, T - ForwardDur, T)

FromForwardBuffer(T) ==
  LET current == Within(forward_buffer, T - ForwardDur, T)
      FirstOfStamp(m) == \A x \in current : x.ts = m.ts => x.nr >= m.nr
  IN  {m \in current : m.ts \notin Stamps(FromSnapshot(T)) /\ FirstOfStamp(m)}
\* Mutant: the last tick is left out.
MostOfBackwardBuffer(T) == Within(backward_buffer, T + 1, T + BackwardDur - 1)

FromBackwardBuffer(T) == Within(backward_buffer, T + 1, T + BackwardDur)

Count(w) == Cardinality(w.snapshot) + Cardinality(w.forward)
              + Cardinality(w.backward)

\* A bag directory: was the bag written to its end, how many messages are in
\* it, the manifest next to it, the archive made of the directory.
Bag(complete, total) ==
  [complete |-> complete, total |-> total, manifest |-> None,
   archived |-> FALSE]

PutOnDisk(p, b) == [q \in DOMAIN disk \cup {p} |-> IF q = p THEN b ELSE disk[q]]

\* Mutant: the statistics leave out the backward data.
WriteBagMiscounted ==
  /\ worker = "decide" /\ ~is_cancelled_
  /\ LET T == trigger_timestamp_
         w == [snapshot |-> FromSnapshot(T), forward |-> FromForwardBuffer(T),
               backward |-> FromBackwardBuffer(T)]
     IN  /\ written' = w
         /\ disk' = PutOnDisk(task.path, Bag(TRUE, Count(w)))
         /\ bag_info_' = [path  |-> task.path,
                          total |-> Count([w EXCEPT !.backward = {}])]
  /\ triggered_forward' = {}
  /\ worker' = "end"
  /\ UNCHANGED <<clockVars, channel, bufferVars, serviceVars,
                 trigger_timestamp_, task, deadline, phase, record_queue_,
                 cancelVars, current_state_>>

\* Open, the three loops and Close, all under buffer_mutex_.
WriteBag ==
  /\ worker = "decide"
  /\ ~is_cancelled_
  /\ LET T == trigger_timestamp_
         w == [snapshot |-> FromSnapshot(T), forward |-> FromForwardBuffer(T),
               backward |-> FromBackwardBuffer(T)]
     IN  /\ written' = w
         /\ disk' = PutOnDisk(task.path, Bag(TRUE, Count(w)))
         /\ bag_info_' = [path |-> task.path, total |-> Count(w)]
  /\ triggered_forward' = {}
  /\ worker' = "end"
  /\ UNCHANGED <<clockVars, channel, bufferVars, serviceVars,
                 trigger_timestamp_, task, deadline, phase, record_queue_,
                 cancelVars, current_state_>>

\* Open has removed an old directory of that name and fails: before it makes
\* a new one (parent directory, free space), or after (the writer throws).
FailToOpen ==
  /\ MayFail
  /\ worker = "decide"
  /\ ~is_cancelled_
  /\ \/ disk' = Restrict(disk, DOMAIN disk \ {task.path})
     \/ disk' = PutOnDisk(task.path, Bag(FALSE, 0))
  /\ triggered_forward' = {}
  /\ worker' = "end"
  /\ UNCHANGED <<clockVars, channel, bufferVars, serviceVars, bag_info_,
                 written, trigger_timestamp_, task, deadline, phase,
                 record_queue_, cancelVars, current_state_>>

\* Mutant: setCurrentState(IDLE) is missing.
EndRecordBusy ==
  /\ worker = "end"
  /\ triggered_forward' = {} /\ collected' = {} /\ written' = None
  /\ worker' = "package"
  /\ UNCHANGED <<clockVars, channel, forward_buffer, backward_buffer, heard,
                 serviceVars, bag_info_, disk, trigger_timestamp_, task,
                 deadline, phase, record_queue_, cancelVars, current_state_>>

\* The last lines of TriggerRecord, outside the lock.
EndRecord ==
  /\ worker = "end"
  /\ triggered_forward' = {}
  /\ current_state_' = "IDLE"
  /\ worker' = "package"
  /\ collected' = {}
  /\ written' = None
  /\ UNCHANGED <<clockVars, channel, forward_buffer, backward_buffer, heard,
                 serviceVars, bag_info_, disk, trigger_timestamp_, task,
                 deadline, phase, record_queue_, cancelVars>>

\* Manifest from GetBagInfo() into the bag directory, then compress; without
\* a directory both fail and the worker goes on.  The drain writes none.
Package ==
  /\ worker = "package"
  /\ disk' = IF task.path \notin DOMAIN disk THEN disk
             ELSE [disk EXCEPT
                    ![task.path].manifest =
                       IF phase = "draining" THEN @ ELSE bag_info_,
                    ![task.path].archived = TRUE]
  /\ worker' = "idle"
  /\ task' = None
  /\ UNCHANGED <<clockVars, channel, bufferVars, serviceVars, bag_info_,
                 written, trigger_timestamp_, triggered_forward, deadline,
                 phase, record_queue_, cancelVars, current_state_>>

-----------------------------------------------------------------------------
(* Other threads                                                           *)

\* BreakOffRecord
BreakOff ==
  /\ cancels < MaxCancels
  /\ cancels' = cancels + 1
  /\ is_cancelled_' = TRUE
  /\ UNCHANGED <<clockVars, channel, bufferVars, serviceVars, bagVars,
                 recordVars, worker, phase, record_queue_, current_state_>>

\* ~DataCollectionExecutor
Stop ==
  /\ MayShutDown
  /\ phase = "running"
  /\ phase' = "stopping"
  /\ UNCHANGED <<clockVars, channel, bufferVars, serviceVars, bagVars,
                 recordVars, worker, record_queue_, cancelVars,
                 current_state_>>

-----------------------------------------------------------------------------
Channel == StampMessage \/ StoreMessage

Service ==
  \/ \E ts \in 0 .. now : Admit(ts)
  \/ NameBag \/ StartCooldown \/ SnapshotAndQueue

Worker ==
  \/ PopTask \/ LeaveLoop \/ Exit \/ Arm \/ SwapBuffers \/ Collect
  \/ WaitEnds \/ Abandon \/ WriteBag \/ FailToOpen \/ EndRecord \/ Package

Next == Tick \/ Channel \/ Service \/ Worker \/ BreakOff \/ Stop

Spec == Init /\ [][Next]_vars

-----------------------------------------------------------------------------
(* Properties                                                              *)

Task == [trigger : Nat, path : Path, saved : SUBSET Message,
         owed : SUBSET Message]
Written == [snapshot : SUBSET Message, forward : SUBSET Message,
            backward : SUBSET Message]

TypeOK ==
  /\ now \in Nat /\ nr \in Nat
  /\ channel \in Message \cup {None}
  /\ forward_buffer \in Seq(Message) /\ backward_buffer \in Seq(Message)
  /\ triggered_forward \subseteq Message
  /\ trigger_timestamp_ \in Nat /\ deadline \in Nat
  /\ is_cancelled_ \in BOOLEAN
  /\ service \in {"idle", "name", "stamp", "snapshot"}
  /\ last_trigger_finish_time \in Int
  /\ record_queue_ \in Seq(Task)
  /\ phase \in {"running", "stopping", "draining"}
  /\ worker \in {"idle", "check", "armed", "swapped", "waiting", "decide",
                 "end", "package", "exited"}
  /\ task \in Task \cup {None}
  /\ bag_info_ \in BagInfo \cup {None}
  /\ written \in Written \cup {None}
  /\ DOMAIN disk \subseteq Path
  /\ heard \subseteq Message /\ collected \subseteq Message
  /\ admitted \in Nat /\ cancels \in Nat

(* The system state machine says DATA_COLLECTING exactly while the worker  *)
(* is between the two setCurrentState calls of TriggerRecord: the flag     *)
(* OnMessageReceived and the next TriggerRecord read is never stale, and   *)
(* TriggerRecord finds it down when it is called, however long the task    *)
(* waited in the queue and whatever BreakOffRecord and the drain did.      *)
CollectingIffRecording ==
  (current_state_ = "DATA_COLLECTING")
    <=> (worker \in {"waiting", "decide", "end"})

(* The backward buffer a bag is written from holds data of this trigger    *)
(* only: nothing of the bag before it, whose channel callback may have     *)
(* stamped a message long before it got the lock.                          *)
BackwardIsOfThisTrigger ==
  worker \in {"waiting", "decide"} =>
    /\ task.trigger = trigger_timestamp_
    /\ \A m \in Range(backward_buffer) :
         task.trigger <= m.ts /\ m.ts <= task.trigger + BackwardDur

(* The snapshot, what is still in the forward buffer when the bag is       *)
(* written and the backward buffer overlap; a message is written once.     *)
NoMessageTwice ==
  written # None =>
    /\ written.snapshot \cap written.forward = {}
    /\ (written.snapshot \cup written.forward) \cap written.backward = {}

(* "Capture data at the exact trigger time" (handleTriggerService): what   *)
(* was in reach when the service admitted the trigger is in its bag, no    *)
(* matter how far the forward buffer rotated while the task was queued.    *)
PreTriggerKept == written # None => task.owed \subseteq written.snapshot

(* What arrived while TriggerRecord waited and belongs to the trigger is   *)
(* in the bag: the ring buffer does not push it out and nothing clears it  *)
(* too early.                                                              *)
CollectedKept == written # None => collected \subseteq written.backward

(* The manifest put next to a bag that was written describes that bag and  *)
(* not the one before it.                                                  *)
ManifestFitsBag ==
  \A p \in DOMAIN disk :
    (disk[p].complete /\ disk[p].manifest # None) =>
      disk[p].manifest = [path |-> p, total |-> disk[p].total]

(* A bag name has a resolution of one second, and Open deletes what has    *)
(* the name already: with a cooldown of at least a second no later trigger *)
(* gets the name of an earlier bag, and no bag is deleted or emptied.      *)
BagsAreKept ==
  [][\A p \in DOMAIN disk :
       p \in DOMAIN disk' /\ disk'[p].total = disk[p].total]_disk

(* design-decisions.md of the repository: a recording holds the complete   *)
(* data before and after the trigger.  Checked for the data of the last    *)
(* ForwardDur ticks before the bag is written.                             *)
PostTriggerComplete ==
  written # None =>
    {m \in Recent(heard, now) : IsPostTrigger(m, task.trigger)}
      \subseteq written.backward
=============================================================================

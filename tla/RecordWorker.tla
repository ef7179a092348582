---------------------------- MODULE RecordWorker ----------------------------
(***************************************************************************)
(* The hand-over between the trigger service callback of                   *)
(* DataCollectionExecutor, its background recording worker and its         *)
(* destructor: record_queue_, record_queue_mutex_, record_cv_ and          *)
(* record_worker_running_.  A step of this module is what one thread does  *)
(* between two points where another thread can get in.  What TriggerRecord *)
(* does with a task is the subject of module Recorder; here it is the time *)
(* between two steps of the worker.                                        *)
(***************************************************************************)
EXTENDS Naturals, Sequences, Functions

CONSTANTS
  Task,             \* the triggers clients send, each at most once
  NoTask            \* a value that is no task

ASSUME TaskAssumption == NoTask \notin Task

VARIABLES
  unsent,           \* triggers no client has sent yet
  record_queue_,    \* tasks pushed and not yet popped
  mutex,            \* holder of record_queue_mutex_ across steps
  running,          \* record_worker_running_
  worker,           \* where the worker thread is in recordWorkerLoop
  task,             \* the task the worker popped last
  handler,          \* where the service callback is
  request,          \* the trigger the service callback is serving
  destructor,       \* where ~DataCollectionExecutor is
  replied,          \* triggers answered with success
  finished          \* tasks TriggerRecord returned from, in order

vars == <<unsent, record_queue_, mutex, running, worker, task, handler,
          request, destructor, replied, finished>>

Init ==
  /\ unsent = Task
  /\ record_queue_ = << >>
  /\ mutex = "free"
  /\ running = TRUE
  /\ worker = "loop"
  /\ task = NoTask
  /\ handler = "idle"
  /\ request = NoTask
  /\ destructor = "alive"
  /\ replied = {}
  /\ finished = << >>

-----------------------------------------------------------------------------
(* handleTriggerService.  Callbacks of its group exclude each other, so    *)
(* there is one at a time.                                                 *)

\* Cooldown or disk check says no: the client gets success = false.
Reject(t) ==
  /\ handler = "idle" /\ destructor # "joined"
  /\ t \in unsent
  /\ unsent' = unsent \ {t}
  /\ UNCHANGED <<record_queue_, mutex, running, worker, task, handler,
                 request, destructor, replied, finished>>

\* Both checks passed; the callback is on its way to the queue.
Admit(t) ==
  /\ handler = "idle" /\ destructor # "joined"
  /\ t \in unsent
  /\ unsent' = unsent \ {t}
  /\ handler' = "push"
  /\ request' = t
  /\ UNCHANGED <<record_queue_, mutex, running, worker, task, destructor,
                 replied, finished>>

\* Mutant: the task is pushed after it was moved from.
PushMoved ==
  /\ handler = "push" /\ mutex = "free"
  /\ record_queue_' = Append(record_queue_, NoTask)
  /\ handler' = "notify"
  /\ UNCHANGED <<unsent, mutex, running, worker, task, request, destructor,
                 replied, finished>>

\* The block that locks record_queue_mutex_ and pushes.
Push ==
  /\ handler = "push"
  /\ mutex = "free"
  /\ record_queue_' = Append(record_queue_, request)
  /\ handler' = "notify"
  /\ UNCHANGED <<unsent, mutex, running, worker, task, request, destructor,
                 replied, finished>>

\* Mutant: notify_one is missing.
NoWake == UNCHANGED worker

\* A thread that waits on record_cv_ goes back to lock the mutex.
Wake == worker' = IF worker = "asleep" THEN "lock" ELSE worker

\* record_cv_.notify_one() and the reply.
NotifyAndReply ==
  /\ handler = "notify"
  /\ Wake
  /\ replied' = replied \cup {request}
  /\ handler' = "idle"
  /\ request' = NoTask
  /\ UNCHANGED <<unsent, record_queue_, mutex, running, task, destructor,
                 finished>>

-----------------------------------------------------------------------------
(* recordWorkerLoop                                                        *)

\* while (record_worker_running_.load())
LoopTest ==
  /\ worker = "loop"
  /\ worker' = IF running THEN "lock" ELSE "lockDrain"
  /\ UNCHANGED <<unsent, record_queue_, mutex, running, task, handler,
                 request, destructor, replied, finished>>

\* std::unique_lock lock(record_queue_mutex_), or its re-acquisition by wait
Lock ==
  /\ worker = "lock"
  /\ mutex = "free"
  /\ mutex' = "worker"
  /\ worker' = "test"
  /\ UNCHANGED <<unsent, record_queue_, running, task, handler, request,
                 destructor, replied, finished>>

\* Mutants: the front is read and not popped; the newest task is taken.
PeekTask ==
  /\ task' = Head(record_queue_)
  /\ UNCHANGED record_queue_

PopNewest ==
  /\ task' = record_queue_[Len(record_queue_)]
  /\ record_queue_' = SubSeq(record_queue_, 1, Len(record_queue_) - 1)

PopTask ==
  /\ task' = Head(record_queue_)
  /\ record_queue_' = Tail(record_queue_)

\* The predicate of record_cv_.wait holds and there is a task.
Pop ==
  /\ worker = "test"
  /\ record_queue_ # << >>
  /\ PopTask
  /\ mutex' = "free"
  /\ worker' = "record"
  /\ UNCHANGED <<unsent, running, handler, request, destructor, replied,
                 finished>>

\* The predicate holds because the executor stops: break out of the loop.
Break ==
  /\ worker = "test"
  /\ record_queue_ = << >>
  /\ ~running
  /\ mutex' = "free"
  /\ worker' = "lockDrain"
  /\ UNCHANGED <<unsent, record_queue_, running, task, handler, request,
                 destructor, replied, finished>>

\* The predicate is false: wait is about to block, still with the mutex.
Decline ==
  /\ worker = "test"
  /\ record_queue_ = << >>
  /\ running
  /\ worker' = "dozing"
  /\ UNCHANGED <<unsent, record_queue_, mutex, running, task, handler,
                 request, destructor, replied, finished>>

\* wait gives the mutex up and blocks in one step.
Block ==
  /\ worker = "dozing"
  /\ mutex' = "free"
  /\ worker' = "asleep"
  /\ UNCHANGED <<unsent, record_queue_, running, task, handler, request,
                 destructor, replied, finished>>

\* A condition variable may wake by itself.
SpuriousWake ==
  /\ worker = "asleep"
  /\ worker' = "lock"
  /\ UNCHANGED <<unsent, record_queue_, mutex, running, task, handler,
                 request, destructor, replied, finished>>

\* TriggerRecord, the manifest and compress are done with the task.
Finish ==
  /\ worker = "record"
  /\ finished' = Append(finished, task)
  /\ task' = NoTask
  /\ worker' = "loop"
  /\ UNCHANGED <<unsent, record_queue_, mutex, running, handler, request,
                 destructor, replied>>

\* The lock_guard of the drain after the loop.
LockDrain ==
  /\ worker = "lockDrain"
  /\ mutex = "free"
  /\ mutex' = "worker"
  /\ worker' = "drain"
  /\ UNCHANGED <<unsent, record_queue_, running, task, handler, request,
                 destructor, replied, finished>>

DrainPop ==
  /\ worker = "drain"
  /\ record_queue_ # << >>
  /\ PopTask
  /\ worker' = "drainRecord"
  /\ UNCHANGED <<unsent, mutex, running, handler, request, destructor,
                 replied, finished>>

\* Mutant: the drain records one task and drops the others.
DrainOne ==
  /\ worker = "drainRecord"
  /\ finished' = Append(finished, task)
  /\ task' = NoTask
  /\ worker' = "drain"
  /\ record_queue_' = << >>
  /\ UNCHANGED <<unsent, mutex, running, handler, request, destructor, replied>>

\* The drain records with the mutex held.
DrainFinish ==
  /\ worker = "drainRecord"
  /\ finished' = Append(finished, task)
  /\ task' = NoTask
  /\ worker' = "drain"
  /\ UNCHANGED <<unsent, record_queue_, mutex, running, handler, request,
                 destructor, replied>>

Exit ==
  /\ worker = "drain"
  /\ record_queue_ = << >>
  /\ mutex' = "free"
  /\ worker' = "exited"
  /\ UNCHANGED <<unsent, record_queue_, running, task, handler, request,
                 destructor, replied, finished>>

-----------------------------------------------------------------------------
(* ~DataCollectionExecutor                                                 *)

\* record_worker_running_.store(false), without the mutex
Stop ==
  /\ destructor = "alive"
  /\ running' = FALSE
  /\ destructor' = "stopping"
  /\ UNCHANGED <<unsent, record_queue_, mutex, worker, task, handler,
                 request, replied, finished>>

\* record_cv_.notify_all()
NotifyStop ==
  /\ destructor = "stopping"
  /\ Wake
  /\ destructor' = "joining"
  /\ UNCHANGED <<unsent, record_queue_, mutex, running, task, handler,
                 request, replied, finished>>

\* record_worker_thread_.join() returns
Join ==
  /\ destructor = "joining"
  /\ worker = "exited"
  /\ destructor' = "joined"
  /\ UNCHANGED <<unsent, record_queue_, mutex, running, worker, task,
                 handler, request, replied, finished>>

-----------------------------------------------------------------------------
Handler == (\E t \in Task : Reject(t) \/ Admit(t)) \/ Push \/ NotifyAndReply

Worker ==
  \/ LoopTest \/ Lock \/ Pop \/ Break \/ Decline \/ Block \/ Finish
  \/ LockDrain \/ DrainPop \/ DrainFinish \/ Exit

Destructor == Stop \/ NotifyStop \/ Join

Next == Handler \/ Worker \/ SpuriousWake \/ Destructor

(* Every thread that can run eventually runs.  A client need not send, the *)
(* owner need not destroy the executor, and a wake-up nobody asked for     *)
(* need not come.                                                          *)
Fairness ==
  /\ WF_vars(Worker)
  /\ SF_vars(Push)
  /\ WF_vars(NotifyAndReply)
  /\ WF_vars(NotifyStop)
  /\ WF_vars(Join)

Spec == Init /\ [][Next]_vars
FairSpec == Spec /\ Fairness
-----------------------------------------------------------------------------
(* Properties                                                              *)

TypeOK ==
  /\ unsent \subseteq Task
  /\ record_queue_ \in Seq(Task)
  /\ mutex \in {"free", "worker"}
  /\ running \in BOOLEAN
  /\ worker \in {"loop", "lock", "test", "dozing", "asleep", "record",
                 "lockDrain", "drain", "drainRecord", "exited"}
  /\ task \in Task \cup {NoTask}
  /\ handler \in {"idle", "push", "notify"}
  /\ request \in Task \cup {NoTask}
  /\ destructor \in {"alive", "stopping", "joining", "joined"}
  /\ replied \subseteq Task
  /\ finished \in Seq(Task)

\* The task the worker is recording, as a sequence of at most one.
InHand == IF worker \in {"record", "drainRecord"} THEN <<task>> ELSE << >>

\* Accepted and not yet recorded.
Backlog == InHand \o record_queue_

\* Everything that ever reached the queue, oldest first.
Pushed == finished \o Backlog

(* Across the handler, the queue, the worker and the drain, a trigger is   *)
(* in one place only: nothing is recorded twice, and a trigger on its way  *)
(* to the queue or not sent yet is not already there.                      *)
EachTaskOnce ==
  /\ IsInjective(Pushed)
  /\ Range(Pushed) \cap unsent = {}
  /\ handler = "push" => request \notin Range(Pushed) \cup unsent

(* A client that was told "Recording triggered successfully" has its       *)
(* trigger in the queue, in the worker's hands or recorded: the reply      *)
(* never runs ahead of the queue, and no interleaving of the worker, the   *)
(* drain and the destructor drops a task.                                  *)
RepliedIsKept == replied \subseteq Range(Pushed)

(* A task in the queue of a worker that has not left recordWorkerLoop is   *)
(* recorded in the end, also when the destructor has already run past its  *)
(* notify_all: no notification a task depends on is lost, and the drain    *)
(* leaves nothing behind.                                                  *)
QueuedIsRecorded ==
  \A t \in Task : (t \in Range(record_queue_) /\ worker # "exited")
                     ~> (t \in Range(finished))

(* handleTriggerService, the queue and recordWorkerLoop together behave as *)
(* the recording service: first come, first recorded, each exactly once.   *)
Service == INSTANCE RecordingService
             WITH backlog <- Backlog, recorded <- finished
ImplementsService == Service!Spec

(* The comment "Stop record worker" of the destructor: once it has asked   *)
(* the worker to stop, the worker stops and the join returns.              *)
ShutdownCompletes == (destructor = "stopping") ~> (destructor = "joined")
=============================================================================

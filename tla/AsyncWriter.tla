----------------------------- MODULE AsyncWriter -----------------------------
(***************************************************************************)
(* AsyncFileWriter: writer threads that take tasks from a bounded queue.   *)
(* One mutex and one condition variable serve three kinds of sleepers: the *)
(* writers waiting for a task, the clients waiting for room and the ones   *)
(* that flush().  A push wakes one of them, whichever it is; a pop wakes   *)
(* nobody.                                                                 *)
(***************************************************************************)
EXTENDS Sequences, Functions, FiniteSets, Naturals

CONSTANTS
  Worker,             \* writer_threads_
  Client,             \* threads that call write() and flush()
  QueueLimit,         \* queue_size_limit_
  MaxTasks            \* bound: tasks the clients write

ASSUME WriterAssumption ==
  /\ QueueLimit \in Nat \ {0} /\ MaxTasks \in Nat
  /\ Worker \cap Client = {} /\ IsFiniteSet(Client)
  /\ "free" \notin Worker

VARIABLES
  running_,
  write_queue_,       \* numbers of tasks
  mutex,              \* "free", or the writer that is about to sleep
  worker,             \* where each writer is
  task,               \* what it carries out
  client,             \* where each client is
  asleep,             \* threads in queue_cv_.wait
  owner,              \* where the thread that starts and stops the writer is
  pushed,             \* tasks pushed so far
  carried             \* tasks whose processTask has ended, a bag

vars == <<running_, write_queue_, mutex, worker, task, client, asleep,
          owner, pushed, carried>>

queueVars == <<write_queue_, pushed>>

Task == 1 .. MaxTasks

\* start() has been called.
Init ==
  /\ running_ = TRUE
  /\ write_queue_ = << >> /\ pushed = 0
  /\ mutex = "free"
  /\ worker = [w \in Worker |-> "loop"]
  /\ task = [w \in Worker |-> 0]
  /\ client = [c \in Client |-> "idle"]
  /\ asleep = {}
  /\ owner = "idle"
  /\ carried = [t \in Task |-> 0]

-----------------------------------------------------------------------------
(* writerLoop                                                              *)

GoTo(w, pc) == worker' = [worker EXCEPT ![w] = pc]

Loop(w) ==
  /\ worker[w] = "loop"
  /\ GoTo(w, IF running_ THEN "lock" ELSE "done")
  /\ UNCHANGED <<running_, queueVars, mutex, task, client, asleep, owner,
                 carried>>

\* wait() finds its predicate false, and still holds the mutex.
FindNothing(w) ==
  /\ worker[w] = "lock" /\ w \notin asleep
  /\ mutex = "free"
  /\ running_ /\ write_queue_ = << >>
  /\ mutex' = w
  /\ GoTo(w, "doze")
  /\ UNCHANGED <<running_, queueVars, task, client, asleep, owner, carried>>

FallAsleep(w) ==
  /\ worker[w] = "doze"
  /\ mutex' = "free"
  /\ asleep' = asleep \cup {w}
  /\ GoTo(w, "lock")
  /\ UNCHANGED <<running_, queueVars, task, client, owner, carried>>

\* A task that is there is taken whether or not the writer is still running.
Pop(w) ==
  /\ worker[w] = "lock" /\ w \notin asleep
  /\ mutex = "free"
  /\ write_queue_ # << >>
  /\ task' = [task EXCEPT ![w] = Head(write_queue_)]
  /\ write_queue_' = Tail(write_queue_)
  /\ GoTo(w, "process")
  /\ UNCHANGED <<running_, pushed, mutex, client, asleep, owner, carried>>

Break(w) ==
  /\ worker[w] = "lock" /\ w \notin asleep
  /\ mutex = "free"
  /\ ~running_ /\ write_queue_ = << >>
  /\ GoTo(w, "done")
  /\ UNCHANGED <<running_, queueVars, mutex, task, client, asleep, owner,
                 carried>>

\* processTask: the callback has been called, with an error or without.
ProcessTask(w) ==
  /\ worker[w] = "process"
  /\ carried' = [carried EXCEPT ![task[w]] = @ + 1]
  /\ task' = [task EXCEPT ![w] = 0]
  /\ GoTo(w, "loop")
  /\ UNCHANGED <<running_, queueVars, mutex, client, asleep, owner>>

-----------------------------------------------------------------------------
(* write, writeWithCallback and flush                                      *)

ClientGoesTo(c, pc) == client' = [client EXCEPT ![c] = pc]

BeginWrite(c) ==
  /\ client[c] = "idle"
  /\ pushed + Cardinality({d \in Client : client[d] = "write"}) < MaxTasks
  /\ ClientGoesTo(c, "write")
  /\ UNCHANGED <<running_, queueVars, mutex, worker, task, asleep, owner,
                 carried>>

Push(c) ==
  /\ client[c] = "write" /\ c \notin asleep
  /\ mutex = "free"
  /\ Len(write_queue_) < QueueLimit
  /\ pushed' = pushed + 1
  /\ write_queue_' = Append(write_queue_, pushed')
  /\ ClientGoesTo(c, "notify")
  /\ UNCHANGED <<running_, mutex, worker, task, asleep, owner, carried>>

\* Mutant: a push wakes nobody.
NotifyNobody(c) ==
  /\ client[c] = "notify"
  /\ ClientGoesTo(c, "idle")
  /\ UNCHANGED <<running_, queueVars, mutex, worker, task, asleep, owner,
                 carried>>

\* notify_one, after the mutex was released.
NotifyOne(c) ==
  /\ client[c] = "notify"
  /\ \/ asleep = {} /\ asleep' = {}
     \/ \E s \in asleep : asleep' = asleep \ {s}
  /\ ClientGoesTo(c, "idle")
  /\ UNCHANGED <<running_, queueVars, mutex, worker, task, owner, carried>>

BeginFlush(c) ==
  /\ client[c] = "idle"
  /\ ClientGoesTo(c, "flush")
  /\ UNCHANGED <<running_, queueVars, mutex, worker, task, asleep, owner,
                 carried>>

\* The queue is empty; the last task may still be under way.
EndFlush(c) ==
  /\ client[c] = "flush" /\ c \notin asleep
  /\ mutex = "free"
  /\ write_queue_ = << >>
  /\ ClientGoesTo(c, "idle")
  /\ UNCHANGED <<running_, queueVars, mutex, worker, task, asleep, owner,
                 carried>>

\* No room to write, or tasks left to flush.
ClientSleeps(c) ==
  /\ c \notin asleep
  /\ mutex = "free"
  /\ \/ client[c] = "write" /\ Len(write_queue_) >= QueueLimit
     \/ client[c] = "flush" /\ write_queue_ # << >>
  /\ asleep' = asleep \cup {c}
  /\ UNCHANGED <<running_, queueVars, mutex, worker, task, client, owner,
                 carried>>

SpuriousWake ==
  /\ \E s \in asleep : asleep' = asleep \ {s}
  /\ UNCHANGED <<running_, queueVars, mutex, worker, task, client, owner,
                 carried>>

-----------------------------------------------------------------------------
(* stop and start                                                          *)

\* running_ is set without the mutex.
BeginStop ==
  /\ owner = "idle" /\ running_
  /\ running_' = FALSE
  /\ owner' = "notify"
  /\ UNCHANGED <<queueVars, mutex, worker, task, client, asleep, carried>>

NotifyAll ==
  /\ owner = "notify"
  /\ asleep' = {}
  /\ owner' = "join"
  /\ UNCHANGED <<running_, queueVars, mutex, worker, task, client, carried>>

Join ==
  /\ owner = "join"
  /\ \A w \in Worker : worker[w] = "done"
  /\ owner' = "idle"
  /\ UNCHANGED <<running_, queueVars, mutex, worker, task, client, asleep,
                 carried>>

Start ==
  /\ owner = "idle" /\ ~running_
  /\ running_' = TRUE
  /\ worker' = [w \in Worker |-> "loop"]
  /\ UNCHANGED <<queueVars, mutex, task, client, asleep, owner, carried>>

-----------------------------------------------------------------------------
WorkerStep(w) ==
  \/ Loop(w) \/ FindNothing(w) \/ FallAsleep(w)
  \/ Pop(w) \/ Break(w) \/ ProcessTask(w)

\* What a client does once it has called.
ClientStep(c) == Push(c) \/ NotifyOne(c) \/ EndFlush(c) \/ ClientSleeps(c)

Next ==
  \/ \E w \in Worker : WorkerStep(w)
  \/ \E c \in Client : ClientStep(c) \/ BeginWrite(c) \/ BeginFlush(c)
  \/ SpuriousWake
  \/ BeginStop \/ NotifyAll \/ Join \/ Start

Spec == Init /\ [][Next]_vars

\* Threads that are awake run, and get the mutex in the end.
FairSpec ==
  /\ Spec
  /\ \A w \in Worker : SF_vars(WorkerStep(w))
  /\ \A c \in Client : SF_vars(ClientStep(c))

-----------------------------------------------------------------------------
Obstructed == ~running_ \/ asleep \cap Client # {}

Service == INSTANCE WriteService WITH
  accepted <- 1 .. pushed, obstructed <- Obstructed

\* A task that was pushed is carried out exactly once, and it does not wait
\* for ever as long as the writer runs and no client sleeps on the condition
\* variable it shares with the writers, where it may take their wake-up.
ImplementsService == Service!Spec
=============================================================================

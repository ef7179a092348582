-------------------------- MODULE AsyncWriter_proofs --------------------------
(***************************************************************************)
(* Proofs about AsyncWriter, for any set of writer threads, any finite set *)
(* of clients, any limit of the queue and any number of tasks: no task is  *)
(* lost or carried out twice, and every step is one of WriteService.  That *)
(* a task is carried out in the end is liveness, which TLC checks.         *)
(***************************************************************************)
EXTENDS AsyncWriter, FiniteSetTheorems, TLAPS

-----------------------------------------------------------------------------
(* The invariant                                                           *)

TypeOK ==
  /\ running_ \in BOOLEAN
  /\ write_queue_ \in Seq(Nat) /\ pushed \in Nat
  /\ mutex \in {"free"} \cup Worker
  /\ worker \in [Worker -> {"loop", "lock", "doze", "process", "done"}]
  /\ task \in [Worker -> Nat]
  /\ client \in [Client -> {"idle", "write", "notify", "flush"}]
  /\ asleep \subseteq Worker \cup Client
  /\ owner \in {"idle", "notify", "join"}
  /\ carried \in [Task -> Nat]

\* The clients that have called write() and not pushed their task.
Writing == {c \in Client : client[c] = "write"}

\* The bound on the tasks holds for those that will be pushed, too.
Bounded == pushed + Cardinality(Writing) <= MaxTasks

InHand(w) == worker[w] = "process"
Queued(t) == \E i \in 1 .. Len(write_queue_) : write_queue_[i] = t

\* A task that is queued or in hand was pushed and is not carried out, and it
\* is there only once.
OncePlace ==
  /\ \A i \in 1 .. Len(write_queue_) :
       write_queue_[i] \in 1 .. pushed /\ carried[write_queue_[i]] = 0
  /\ \A i, j \in 1 .. Len(write_queue_) :
       write_queue_[i] = write_queue_[j] => i = j
  /\ \A w \in Worker : InHand(w) =>
       task[w] \in 1 .. pushed /\ carried[task[w]] = 0 /\ ~ Queued(task[w])
  /\ \A v, w \in Worker :
       InHand(v) /\ InHand(w) /\ task[v] = task[w] => v = w
  /\ \A t \in Task : t > pushed => carried[t] = 0

\* A task that was pushed is queued, in hand or carried out once.
NoneLost ==
  \A t \in 1 .. pushed :
    carried[t] = 1 \/ Queued(t) \/ \E w \in Worker : InHand(w) /\ task[w] = t

\* stop() returns when every writer is done, and start() runs after that.
StoppedInv ==
  /\ owner # "idle" => ~running_
  /\ owner = "idle" /\ ~running_ => \A w \in Worker : worker[w] = "done"

IInv == TypeOK /\ Bounded /\ OncePlace /\ NoneLost /\ StoppedInv

USE DEF queueVars

-----------------------------------------------------------------------------
(* Types and bounds                                                        *)

\* What was pushed is a task, and there is room for what will be pushed.
LEMMA PushedAreTasks ==
  ASSUME TypeOK, Bounded
  PROVE  /\ pushed <= MaxTasks /\ 1 .. pushed \subseteq Task
         /\ Writing # {} => pushed < MaxTasks
<1>1. IsFiniteSet(Writing)
  BY WriterAssumption, FS_Subset DEF Writing
<1>2. Cardinality(Writing) \in Nat
  BY <1>1, FS_CardinalityType
<1>3. Writing # {} => Cardinality(Writing) # 0
  BY <1>1, FS_EmptySet
<1> QED
  BY <1>2, <1>3, WriterAssumption DEF TypeOK, Bounded, Task

\* Only the calls of write() change the tasks to come.
LEMMA BoundedStep ==
  ASSUME TypeOK, Bounded, [Next]_vars
  PROVE  Bounded'
<1>1. /\ IsFiniteSet(Writing) /\ Cardinality(Writing) \in Nat
      /\ pushed \in Nat /\ MaxTasks \in Nat
      /\ client \in [Client -> {"idle", "write", "notify", "flush"}]
  <2>1. IsFiniteSet(Writing)
    BY WriterAssumption, FS_Subset DEF Writing
  <2> QED
    BY <2>1, FS_CardinalityType, WriterAssumption DEF TypeOK
<1>2. CASE pushed' = pushed /\ Writing' = Writing
  BY <1>2 DEF Bounded
<1>3. ASSUME NEW c \in Client, BeginWrite(c) PROVE Bounded'
  <2>1. /\ pushed' = pushed /\ c \notin Writing
        /\ Writing' = Writing \cup {c}
        /\ pushed + Cardinality(Writing) < MaxTasks
    BY <1>1, <1>3 DEF BeginWrite, ClientGoesTo, Writing
  <2>2. Cardinality(Writing \cup {c}) = Cardinality(Writing) + 1
    BY <1>1, <2>1, FS_AddElement
  <2> QED
    BY <1>1, <2>1, <2>2 DEF Bounded
<1>4. ASSUME NEW c \in Client, Push(c) PROVE Bounded'
  <2>1. /\ pushed' = pushed + 1 /\ c \in Writing
        /\ Writing' = Writing \ {c}
    BY <1>1, <1>4 DEF Push, ClientGoesTo, Writing
  <2>2. Cardinality(Writing \ {c}) = Cardinality(Writing) - 1
    BY <1>1, <2>1, FS_RemoveElement
  <2> QED
    BY <1>1, <2>1, <2>2 DEF Bounded
<1>5. ASSUME NEW c \in Client, NotifyOne(c) \/ BeginFlush(c) \/ EndFlush(c)
      PROVE  Bounded'
  <2>1. pushed' = pushed /\ Writing' = Writing
    BY <1>1, <1>5 DEF NotifyOne, BeginFlush, EndFlush, ClientGoesTo, Writing
  <2> QED
    BY <1>2, <2>1
<1>6. ASSUME NEW w \in Worker, WorkerStep(w) PROVE Bounded'
  BY <1>2, <1>6
     DEF WorkerStep, Loop, FindNothing, FallAsleep, Pop, Break, ProcessTask, Writing
<1>7. ASSUME NEW c \in Client, ClientSleeps(c) PROVE Bounded'
  BY <1>2, <1>7 DEF ClientSleeps, Writing
<1>8. CASE SpuriousWake \/ BeginStop \/ NotifyAll \/ Join \/ Start
             \/ UNCHANGED vars
  BY <1>2, <1>8
     DEF SpuriousWake, BeginStop, NotifyAll, Join, Start, vars, Writing
<1> QED
  BY <1>3, <1>4, <1>5, <1>6, <1>7, <1>8 DEF Next, ClientStep

\* Every step keeps the types.
LEMMA TypeStep ==
  ASSUME TypeOK, Bounded, OncePlace, [Next]_vars
  PROVE  TypeOK'
<1> USE DEF TypeOK
<1>1. ASSUME NEW w \in Worker, Loop(w) \/ FindNothing(w) \/ FallAsleep(w) \/ Break(w)
      PROVE  TypeOK'
  BY <1>1 DEF Loop, FindNothing, FallAsleep, Break, GoTo
<1>2. ASSUME NEW w \in Worker, Pop(w) PROVE TypeOK'
  <2>1. Head(write_queue_) \in Nat /\ Tail(write_queue_) \in Seq(Nat)
    BY <1>2 DEF Pop
  <2> QED
    BY <1>2, <2>1 DEF Pop, GoTo
<1>3. ASSUME NEW w \in Worker, ProcessTask(w) PROVE TypeOK'
  <2>1. task[w] \in 1 .. pushed
    BY <1>3 DEF ProcessTask, OncePlace, InHand
  <2>2. task[w] \in Task
    BY <2>1, PushedAreTasks
  <2>3. carried' \in [Task -> Nat]
    BY <1>3, <2>2 DEF ProcessTask
  <2> QED
    BY <1>3, <2>3 DEF ProcessTask, GoTo
<1>4. ASSUME NEW c \in Client, ClientStep(c) \/ BeginWrite(c) \/ BeginFlush(c)
      PROVE  TypeOK'
  <2>1. CASE Push(c)
    <3>1. pushed' \in Nat /\ write_queue_' \in Seq(Nat)
      BY <2>1 DEF Push
    <3> QED
      BY <2>1, <3>1 DEF Push, ClientGoesTo
  <2>2. CASE NotifyOne(c) \/ EndFlush(c) \/ BeginWrite(c) \/ BeginFlush(c)
    BY <2>2 DEF NotifyOne, EndFlush, BeginWrite, BeginFlush, ClientGoesTo
  <2>3. CASE ClientSleeps(c)
    BY <2>3 DEF ClientSleeps
  <2> QED
    BY <1>4, <2>1, <2>2, <2>3 DEF ClientStep
<1>5. CASE SpuriousWake \/ BeginStop \/ NotifyAll \/ Join \/ UNCHANGED vars
  BY <1>5 DEF SpuriousWake, BeginStop, NotifyAll, Join, vars
<1>6. CASE Start
  BY <1>6 DEF Start
<1> QED
  BY <1>1, <1>2, <1>3, <1>4, <1>5, <1>6 DEF Next, WorkerStep

-----------------------------------------------------------------------------
(* Where the tasks are                                                     *)

\* The writers are done when the owner may start them again.
LEMMA StoppedStep ==
  ASSUME TypeOK, StoppedInv, [Next]_vars
  PROVE  StoppedInv'
<1> USE DEF TypeOK, StoppedInv
<1>1. ASSUME NEW w \in Worker, WorkerStep(w) PROVE StoppedInv'
  <2>1. worker[w] # "done" /\ UNCHANGED <<running_, owner>>
    BY <1>1 DEF WorkerStep, Loop, FindNothing, FallAsleep, Pop, Break, ProcessTask
  <2> QED
    BY <2>1
<1>2. ASSUME NEW c \in Client, ClientStep(c) \/ BeginWrite(c) \/ BeginFlush(c)
      PROVE  StoppedInv'
  BY <1>2 DEF ClientStep, Push, NotifyOne, EndFlush, ClientSleeps, BeginWrite,
              BeginFlush
<1>3. CASE SpuriousWake \/ BeginStop \/ NotifyAll \/ Join \/ Start
             \/ UNCHANGED vars
  BY <1>3 DEF SpuriousWake, BeginStop, NotifyAll, Join, Start, vars
<1> QED
  BY <1>1, <1>2, <1>3 DEF Next

PlacesInv == OncePlace /\ NoneLost

\* A client pushes a task with a new number.
LEMMA PlacesPush ==
  ASSUME TypeOK, Bounded, PlacesInv, NEW c \in Client, Push(c)
  PROVE  PlacesInv'
<1>1. /\ pushed' = pushed + 1
      /\ write_queue_' = Append(write_queue_, pushed + 1)
      /\ UNCHANGED <<worker, task, carried>>
      /\ Writing # {}
  BY DEF Push, Writing
<1>2. /\ pushed \in Nat /\ write_queue_ \in Seq(Nat)
      /\ pushed + 1 \in Task /\ carried[pushed + 1] = 0
  <2>1. pushed < MaxTasks /\ pushed \in Nat /\ MaxTasks \in Nat
    BY <1>1, PushedAreTasks, WriterAssumption DEF TypeOK
  <2>2. pushed + 1 \in Task /\ pushed + 1 > pushed
    BY <2>1 DEF Task
  <2> QED
    BY <2>1, <2>2 DEF TypeOK, PlacesInv, OncePlace
<1>3. /\ Len(write_queue_') = Len(write_queue_) + 1 /\ Len(write_queue_) \in Nat
      /\ write_queue_'[Len(write_queue_) + 1] = pushed + 1
      /\ \A i \in 1 .. Len(write_queue_) : write_queue_'[i] = write_queue_[i]
  BY <1>1, <1>2
<1>4. \A t \in Nat : Queued(t)' <=> Queued(t) \/ t = pushed + 1
  <2> SUFFICES ASSUME NEW t \in Nat PROVE Queued(t)' <=> Queued(t) \/ t = pushed + 1
    OBVIOUS
  <2>1. ASSUME NEW i \in 1 .. Len(write_queue_')
        PROVE  i \in 1 .. Len(write_queue_) \/ i = Len(write_queue_) + 1
    BY <1>3
  <2>2. Len(write_queue_) + 1 \in 1 .. Len(write_queue_')
        /\ \A i \in 1 .. Len(write_queue_) : i \in 1 .. Len(write_queue_')
    BY <1>3
  <2> QED
    BY <1>3, <2>1, <2>2 DEF Queued
<1>5. \A w : InHand(w)' <=> InHand(w)
  BY <1>1 DEF InHand
<1>6. \A i \in 1 .. Len(write_queue_) : write_queue_[i] \in 1 .. pushed
  BY DEF PlacesInv, OncePlace
<1>7. \A i \in 1 .. Len(write_queue_') :
        write_queue_'[i] \in 1 .. pushed' /\ carried[write_queue_'[i]] = 0
  <2>1. ASSUME NEW i \in 1 .. Len(write_queue_)
        PROVE  write_queue_'[i] \in 1 .. pushed' /\ carried[write_queue_'[i]] = 0
    BY <1>1, <1>2, <1>3, <1>6 DEF PlacesInv, OncePlace
  <2>2. pushed + 1 \in 1 .. pushed'
    BY <1>1, <1>2
  <2>3. \A i \in 1 .. Len(write_queue_') :
          i \in 1 .. Len(write_queue_) \/ i = Len(write_queue_) + 1
    BY <1>3
  <2> QED
    BY <1>2, <1>3, <2>1, <2>2, <2>3
<1>8. \A i, j \in 1 .. Len(write_queue_') :
        write_queue_'[i] = write_queue_'[j] => i = j
  <2>1. \A i \in 1 .. Len(write_queue_') :
          i \in 1 .. Len(write_queue_) \/ i = Len(write_queue_) + 1
    BY <1>3
  <2>2. \A i \in 1 .. Len(write_queue_) : write_queue_'[i] # pushed + 1
    BY <1>2, <1>3, <1>6
  <2> QED
    BY <1>3, <2>1, <2>2 DEF PlacesInv, OncePlace
<1>9. ASSUME NEW w \in Worker, InHand(w)
      PROVE  task[w] \in 1 .. pushed' /\ carried[task[w]] = 0 /\ ~ Queued(task[w])'
  <2>1. task[w] \in 1 .. pushed /\ carried[task[w]] = 0 /\ ~ Queued(task[w])
    BY <1>9 DEF PlacesInv, OncePlace
  <2> QED
    BY <1>1, <1>2, <1>4, <2>1
<1>10. OncePlace'
  <2>1. \A t \in Task : t > pushed' => carried[t] = 0
    BY <1>1, <1>2 DEF PlacesInv, OncePlace, Task
  <2>2. \A v, w \in Worker : InHand(v)' /\ InHand(w)' /\ task'[v] = task'[w] => v = w
    BY <1>1, <1>5 DEF PlacesInv, OncePlace
  <2>3. \A w \in Worker : InHand(w)' =>
          task'[w] \in 1 .. pushed' /\ carried'[task'[w]] = 0 /\ ~ Queued(task[w])'
    BY <1>1, <1>5, <1>9
  <2> QED
    BY <1>1, <1>7, <1>8, <2>1, <2>2, <2>3 DEF OncePlace
<1>11. NoneLost'
  <2>1. \A t \in 1 .. pushed' : t \in 1 .. pushed \/ t = pushed + 1
    BY <1>1, <1>2
  <2>2. ASSUME NEW t \in 1 .. pushed'
        PROVE  carried'[t] = 1 \/ Queued(t)' \/ \E w \in Worker : InHand(w)' /\ task'[w] = t
    BY <1>1, <1>4, <1>5, <2>1 DEF PlacesInv, NoneLost
  <2> QED
    BY <2>2 DEF NoneLost, Queued, InHand
<1> QED
  BY <1>10, <1>11 DEF PlacesInv

\* A writer takes the first task; no other writer has it.
LEMMA PlacesPop ==
  ASSUME TypeOK, PlacesInv, NEW u \in Worker, Pop(u)
  PROVE  PlacesInv'
<1> DEFINE n == Len(write_queue_)
<1>1. /\ write_queue_ # << >> /\ write_queue_ \in Seq(Nat)
      /\ write_queue_' = Tail(write_queue_)
      /\ task' = [task EXCEPT ![u] = Head(write_queue_)]
      /\ worker' = [worker EXCEPT ![u] = "process"] /\ worker[u] = "lock"
      /\ UNCHANGED <<pushed, carried>>
  BY DEF Pop, GoTo, TypeOK
<1>2. /\ n \in Nat \ {0} /\ Len(write_queue_') = n - 1
      /\ \A i \in 1 .. n - 1 : write_queue_'[i] = write_queue_[i + 1]
      /\ Head(write_queue_) = write_queue_[1]
  BY <1>1
<1>3. /\ task'[u] = write_queue_[1] /\ InHand(u)'
      /\ \A w \in Worker \ {u} : task'[w] = task[w] /\ (InHand(w)' <=> InHand(w))
      /\ ~ InHand(u)
  BY <1>1, <1>2 DEF TypeOK, InHand
<1> HIDE DEF n
<1>4. \A i \in 1 .. n - 1 : i + 1 \in 1 .. n /\ i + 1 # 1
  BY <1>2
<1>5. 1 \in 1 .. n
  BY <1>2
<1>6. /\ \A i \in 1 .. n : write_queue_[i] \in 1 .. pushed /\ carried[write_queue_[i]] = 0
      /\ \A i, j \in 1 .. n : write_queue_[i] = write_queue_[j] => i = j
  BY DEF PlacesInv, OncePlace, n
<1>7. \A t : Queued(t)' => Queued(t) /\ t # write_queue_[1]
  <2> SUFFICES ASSUME NEW i \in 1 .. n - 1
               PROVE  /\ \E j \in 1 .. n : write_queue_[j] = write_queue_'[i]
                      /\ write_queue_'[i] # write_queue_[1]
    BY <1>2 DEF Queued, n
  <2>1. write_queue_'[i] = write_queue_[i + 1] /\ i + 1 \in 1 .. n /\ i + 1 # 1
    BY <1>2, <1>4
  <2>2. write_queue_[i + 1] # write_queue_[1]
    BY <1>5, <1>6, <2>1
  <2> QED
    BY <2>1, <2>2
<1>8. \A t : Queued(t) => Queued(t)' \/ t = write_queue_[1]
  <2> SUFFICES ASSUME NEW j \in 1 .. n, j # 1
               PROVE  \E i \in 1 .. n - 1 : write_queue_'[i] = write_queue_[j]
    BY <1>2 DEF Queued, n
  <2>1. j - 1 \in 1 .. n - 1 /\ (j - 1) + 1 = j
    BY <1>2
  <2>2. write_queue_'[j - 1] = write_queue_[j]
    BY <1>2, <2>1
  <2> QED
    BY <2>1, <2>2
<1>9. \A i \in 1 .. Len(write_queue_') :
        write_queue_'[i] \in 1 .. pushed' /\ carried'[write_queue_'[i]] = 0
  BY <1>1, <1>2, <1>4, <1>6
<1>10. \A i, j \in 1 .. Len(write_queue_') :
         write_queue_'[i] = write_queue_'[j] => i = j
  <2> SUFFICES ASSUME NEW i \in 1 .. n - 1, NEW j \in 1 .. n - 1,
                      write_queue_[i + 1] = write_queue_[j + 1]
               PROVE  i = j
    BY <1>2
  <2>1. i + 1 = j + 1
    BY <1>4, <1>6
  <2> QED
    BY <1>2, <2>1
<1>11. \A w \in Worker \ {u} : InHand(w) =>
         /\ task[w] \in 1 .. pushed /\ carried[task[w]] = 0
         /\ ~ Queued(task[w]) /\ task[w] # write_queue_[1]
  <2>1. Queued(write_queue_[1])
    BY <1>5 DEF Queued, n
  <2> QED
    BY <2>1 DEF PlacesInv, OncePlace
<1>12. \A w \in Worker : InHand(w)' =>
         task'[w] \in 1 .. pushed' /\ carried'[task'[w]] = 0 /\ ~ Queued(task[w])'
  <2>1. /\ task'[u] \in 1 .. pushed' /\ carried'[task'[u]] = 0
        /\ ~ Queued(task[u])'
    <3>1. task'[u] \in 1 .. pushed' /\ carried'[task'[u]] = 0
      BY <1>1, <1>3, <1>5, <1>6
    <3>2. Queued(task[u])' => task'[u] # write_queue_[1]
      BY <1>7 DEF Queued
    <3> QED
      BY <1>3, <3>1, <3>2
  <2>2. ASSUME NEW w \in Worker \ {u}, InHand(w)'
        PROVE  task'[w] \in 1 .. pushed' /\ carried'[task'[w]] = 0 /\ ~ Queued(task[w])'
    <3>1. /\ task'[w] = task[w] /\ task[w] \in 1 .. pushed
          /\ carried[task[w]] = 0 /\ ~ Queued(task[w])
      BY <1>3, <1>11, <2>2
    <3>2. Queued(task[w])' => Queued(task'[w])
      BY <1>7 DEF Queued
    <3> QED
      BY <1>1, <3>1, <3>2
  <2> QED
    BY <2>1, <2>2
<1>13. \A v, w \in Worker :
         InHand(v)' /\ InHand(w)' /\ task'[v] = task'[w] => v = w
  <2> SUFFICES ASSUME NEW v \in Worker, NEW w \in Worker,
                      InHand(v)', InHand(w)', task'[v] = task'[w]
               PROVE  v = w
    OBVIOUS
  <2>1. CASE v # u /\ w # u
    BY <1>3, <2>1 DEF PlacesInv, OncePlace
  <2>2. CASE v = u \/ w = u
    BY <1>3, <1>11, <2>2
  <2> QED
    BY <2>1, <2>2
<1>14. \A t \in Task : t > pushed' => carried'[t] = 0
  BY <1>1 DEF PlacesInv, OncePlace
<1>15. ASSUME NEW t \in 1 .. pushed'
       PROVE  carried'[t] = 1 \/ Queued(t)' \/ \E w \in Worker : InHand(w)' /\ task'[w] = t
  <2>1. \/ carried[t] = 1 \/ Queued(t)
        \/ \E w \in Worker : InHand(w) /\ task[w] = t
    BY <1>1 DEF PlacesInv, NoneLost
  <2> QED
    BY <1>1, <1>3, <1>8, <2>1
<1>16. OncePlace'
  BY <1>9, <1>10, <1>12, <1>13, <1>14 DEF OncePlace, Queued
<1>17. NoneLost'
  BY <1>15 DEF NoneLost, Queued, InHand
<1> QED
  BY <1>16, <1>17 DEF PlacesInv

\* A writer carries out its task, for the first time.
LEMMA PlacesProcess ==
  ASSUME TypeOK, Bounded, PlacesInv, NEW u \in Worker, ProcessTask(u)
  PROVE  /\ PlacesInv'
         /\ task[u] \in Task /\ task[u] \in 1 .. pushed /\ carried[task[u]] = 0
         /\ carried' = [carried EXCEPT ![task[u]] = 1]
<1> DEFINE t == task[u]
<1>1. /\ worker[u] = "process"
      /\ carried' = [carried EXCEPT ![t] = @ + 1]
      /\ task' = [task EXCEPT ![u] = 0]
      /\ worker' = [worker EXCEPT ![u] = "loop"]
      /\ UNCHANGED <<write_queue_, pushed>>
  BY DEF ProcessTask, GoTo
<1>2. t \in 1 .. pushed /\ carried[t] = 0 /\ ~ Queued(t)
  BY <1>1 DEF PlacesInv, OncePlace, InHand
<1>3. t \in Task /\ carried \in [Task -> Nat] /\ pushed \in Nat
  BY <1>2, PushedAreTasks DEF TypeOK
<1>4. carried' = [carried EXCEPT ![t] = 1]
  BY <1>1, <1>2, <1>3
<1>5. carried'[t] = 1 /\ \A s \in Task : s # t => carried'[s] = carried[s]
  BY <1>3, <1>4
<1>6. /\ ~ InHand(u)'
      /\ \A w \in Worker \ {u} : task'[w] = task[w] /\ (InHand(w)' <=> InHand(w))
  BY <1>1 DEF TypeOK, InHand
<1>7. \A s : Queued(s)' <=> Queued(s)
  BY <1>1 DEF Queued
<1>8. 1 .. pushed \subseteq Task
  BY PushedAreTasks
<1>9. \A w \in Worker \ {u} : InHand(w) => task[w] # t
  BY <1>1 DEF PlacesInv, OncePlace, InHand
<1> HIDE DEF t
<1>10. \A i \in 1 .. Len(write_queue_') :
         write_queue_'[i] \in 1 .. pushed' /\ carried'[write_queue_'[i]] = 0
  <2> SUFFICES ASSUME NEW i \in 1 .. Len(write_queue_)
               PROVE  write_queue_[i] \in 1 .. pushed /\ carried'[write_queue_[i]] = 0
    BY <1>1
  <2>1. write_queue_[i] \in 1 .. pushed /\ carried[write_queue_[i]] = 0
    BY DEF PlacesInv, OncePlace
  <2>2. write_queue_[i] # t
    BY <1>2 DEF Queued
  <2> QED
    BY <1>5, <1>8, <2>1, <2>2
<1>11. \A w \in Worker : InHand(w)' =>
         task'[w] \in 1 .. pushed' /\ carried'[task'[w]] = 0 /\ ~ Queued(task[w])'
  <2> SUFFICES ASSUME NEW w \in Worker \ {u}, InHand(w)
               PROVE  task[w] \in 1 .. pushed /\ carried'[task[w]] = 0 /\ ~ Queued(task[w])
    BY <1>1, <1>6, <1>7 DEF Queued
  <2>1. task[w] \in 1 .. pushed /\ carried[task[w]] = 0 /\ ~ Queued(task[w])
    BY DEF PlacesInv, OncePlace
  <2> QED
    BY <1>5, <1>8, <1>9, <2>1
<1>12. \A v, w \in Worker :
         InHand(v)' /\ InHand(w)' /\ task'[v] = task'[w] => v = w
  BY <1>6 DEF PlacesInv, OncePlace
<1>13. \A s \in Task : s > pushed' => carried'[s] = 0
  <2>1. ASSUME NEW s \in Task, s > pushed PROVE s # t
    BY <1>2, <1>3, <2>1
  <2> QED
    BY <1>1, <1>5, <2>1 DEF PlacesInv, OncePlace
<1>14. ASSUME NEW s \in 1 .. pushed'
       PROVE  carried'[s] = 1 \/ Queued(s)' \/ \E w \in Worker : InHand(w)' /\ task'[w] = s
  <2>1. \/ carried[s] = 1 \/ Queued(s)
        \/ \E w \in Worker : InHand(w) /\ task[w] = s
    BY <1>1 DEF PlacesInv, NoneLost
  <2>2. s \in Task
    BY <1>1, <1>8
  <2>3. CASE s = t
    BY <1>5, <2>3
  <2>4. CASE s # t
    BY <1>5, <1>6, <1>7, <2>1, <2>2, <2>4 DEF t
  <2> QED
    BY <2>3, <2>4
<1>15. \A i, j \in 1 .. Len(write_queue_') :
         write_queue_'[i] = write_queue_'[j] => i = j
  BY <1>1 DEF PlacesInv, OncePlace
<1>16. OncePlace'
  BY <1>10, <1>11, <1>12, <1>13, <1>15 DEF OncePlace, Queued
<1>17. NoneLost'
  BY <1>14 DEF NoneLost, Queued, InHand
<1> QED
  BY <1>2, <1>3, <1>4, <1>16, <1>17 DEF PlacesInv, t

\* A step that moves no task.
LEMMA PlacesKept ==
  ASSUME PlacesInv, UNCHANGED <<write_queue_, pushed, task, carried>>,
         \A w \in Worker : InHand(w)' <=> InHand(w)
  PROVE  PlacesInv'
BY DEF PlacesInv, OncePlace, NoneLost, Queued

\* Every step keeps the tasks where they belong.
LEMMA PlacesStep ==
  ASSUME TypeOK, Bounded, PlacesInv, StoppedInv, [Next]_vars
  PROVE  PlacesInv'
<1>1. ASSUME NEW w \in Worker,
             Loop(w) \/ FindNothing(w) \/ FallAsleep(w) \/ Break(w)
      PROVE  PlacesInv'
  <2>1. UNCHANGED <<write_queue_, pushed, task, carried>>
    BY <1>1 DEF Loop, FindNothing, FallAsleep, Break
  <2>2. \A v \in Worker : InHand(v)' <=> InHand(v)
    BY <1>1 DEF Loop, FindNothing, FallAsleep, Break, GoTo, TypeOK, InHand
  <2> QED
    BY <2>1, <2>2, PlacesKept
<1>2. ASSUME NEW c \in Client,
             NotifyOne(c) \/ EndFlush(c) \/ ClientSleeps(c) \/ BeginWrite(c)
               \/ BeginFlush(c)
      PROVE  PlacesInv'
  <2>1. UNCHANGED <<write_queue_, pushed, task, carried, worker>>
    BY <1>2 DEF NotifyOne, EndFlush, ClientSleeps, BeginWrite, BeginFlush
  <2> QED
    BY <2>1, PlacesKept DEF InHand
<1>3. CASE SpuriousWake \/ BeginStop \/ NotifyAll \/ Join \/ UNCHANGED vars
  <2>1. UNCHANGED <<write_queue_, pushed, task, carried, worker>>
    BY <1>3 DEF SpuriousWake, BeginStop, NotifyAll, Join, vars
  <2> QED
    BY <2>1, PlacesKept DEF InHand
<1>4. CASE Start
  <2>1. UNCHANGED <<write_queue_, pushed, task, carried>>
    BY <1>4 DEF Start
  <2>2. \A v \in Worker : InHand(v)' <=> InHand(v)
    BY <1>4 DEF Start, StoppedInv, InHand
  <2> QED
    BY <2>1, <2>2, PlacesKept
<1> QED
  BY <1>1, <1>2, <1>3, <1>4, PlacesPush, PlacesPop, PlacesProcess
     DEF Next, WorkerStep, ClientStep

-----------------------------------------------------------------------------
(* The theorems                                                            *)

\* The writer has been started and no task was pushed.
LEMMA IInvInit == Init => IInv
<1> SUFFICES ASSUME Init PROVE IInv
  OBVIOUS
<1>1. /\ Writing = {} /\ Len(write_queue_) = 0 /\ pushed = 0
      /\ \A w \in Worker : ~ InHand(w)
  BY DEF Init, Writing, InHand
<1>2. Bounded
  BY <1>1, FS_EmptySet, WriterAssumption DEF Bounded
<1>3. TypeOK
  <2>1. << >> \in Seq(Nat)
    OBVIOUS
  <2> QED
    BY <2>1 DEF Init, TypeOK
<1>4. OncePlace
  BY <1>1 DEF Init, OncePlace
<1>5. NoneLost /\ StoppedInv
  BY <1>1 DEF Init, NoneLost, StoppedInv
<1> QED
  BY <1>2, <1>3, <1>4, <1>5 DEF IInv

\* Every step keeps the inductive invariant.
LEMMA IInvStep == IInv /\ [Next]_vars => IInv'
BY BoundedStep, TypeStep, StoppedStep, PlacesStep DEF IInv, PlacesInv

(* Every variable of the writer keeps its type, for any number of writers, *)
(* clients and tasks.                                                      *)
THEOREM TypeCorrect == Spec => []TypeOK
<1>1. IInv => TypeOK
  BY DEF IInv
<1> QED
  BY <1>1, IInvInit, IInvStep, PTL DEF Spec

(* No task is lost: what was pushed is in the queue, with a writer, or was *)
(* carried out; stop(), which takes the queue away from the writers, and   *)
(* start(), which makes new ones, leave every task where it is.            *)
THEOREM NoTaskLost == Spec => []NoneLost
<1>1. IInv => NoneLost
  BY DEF IInv
<1> QED
  BY <1>1, IInvInit, IInvStep, PTL DEF Spec

(* The threads, the queue and the condition variable implement the service:*)
(* a push takes one task, and the end of processTask is the one time that  *)
(* the task is carried out.  Everything else is invisible to a client.     *)
THEOREM ImplementsSafety == Spec => Service!Safety
<1>1. Init => Service!Init
  <2> SUFFICES ASSUME Init PROVE Service!Init
    OBVIOUS
  <2>1. 1 .. pushed = {} /\ carried = [t \in Task |-> 0]
    BY DEF Init
  <2>2. Obstructed \in BOOLEAN
    BY DEF Obstructed
  <2> QED
    BY <2>1, <2>2 DEF Service!Init
<1>2. IInv /\ [Next]_vars => [Service!Next]_(Service!vars)
  <2> SUFFICES ASSUME IInv, [Next]_vars PROVE Service!Next
    OBVIOUS
  <2>1. CASE UNCHANGED <<pushed, carried>>
    <3>1. Service!Obstruct
      BY <2>1 DEF Service!Obstruct
    <3> QED
      BY <3>1 DEF Service!Next
  <2>2. ASSUME NEW c \in Client, Push(c) PROVE Service!Next
    <3>1. pushed \in Nat /\ pushed' = pushed + 1 /\ carried' = carried
      BY <2>2 DEF Push, IInv, TypeOK
    <3>2. pushed + 1 \in Task
      <4>1. Writing # {}
        BY <2>2 DEF Push, Writing
      <4> QED
        BY <3>1, <4>1, PushedAreTasks, WriterAssumption DEF IInv, Task
    <3>3. 1 .. pushed' = (1 .. pushed) \cup {pushed + 1} /\ pushed + 1 \notin 1 .. pushed
      BY <3>1
    <3>4. Service!Accept(pushed + 1)
      BY <3>1, <3>3 DEF Service!Accept
    <3> QED
      BY <3>2, <3>4 DEF Service!Next
  <2>3. ASSUME NEW w \in Worker, ProcessTask(w) PROVE Service!Next
    <3>1. /\ task[w] \in Task /\ task[w] \in 1 .. pushed
          /\ carried[task[w]] = 0
          /\ carried' = [carried EXCEPT ![task[w]] = 1]
      BY <2>3, PlacesProcess DEF IInv, PlacesInv
    <3>2. pushed' = pushed
      BY <2>3 DEF ProcessTask
    <3>3. Service!Carry(task[w])
      BY <3>1, <3>2 DEF Service!Carry
    <3> QED
      BY <3>1, <3>3 DEF Service!Next
  <2>4. ASSUME NEW w \in Worker,
               Loop(w) \/ FindNothing(w) \/ FallAsleep(w) \/ Pop(w) \/ Break(w)
        PROVE  Service!Next
    BY <2>1, <2>4 DEF Loop, FindNothing, FallAsleep, Pop, Break
  <2>5. ASSUME NEW c \in Client,
               NotifyOne(c) \/ EndFlush(c) \/ ClientSleeps(c) \/ BeginWrite(c)
                 \/ BeginFlush(c)
        PROVE  Service!Next
    BY <2>1, <2>5 DEF NotifyOne, EndFlush, ClientSleeps, BeginWrite, BeginFlush
  <2>6. CASE SpuriousWake \/ BeginStop \/ NotifyAll \/ Join \/ Start
               \/ UNCHANGED vars
    BY <2>1, <2>6 DEF SpuriousWake, BeginStop, NotifyAll, Join, Start, vars
  <2> QED
    BY <2>2, <2>3, <2>4, <2>5, <2>6 DEF Next, WorkerStep, ClientStep
<1> QED
  BY <1>1, <1>2, IInvInit, IInvStep, PTL DEF Spec, Service!Safety

-----------------------------------------------------------------------------
(* Wake-ups                                                                *)

\* A writer that is about to sleep has the mutex and has seen an empty queue.
Dozing ==
  \A w \in Worker : worker[w] = "doze" => mutex = w /\ write_queue_ = << >>

\* Who sleeps, does so in wait(): in writerLoop, in write() or in flush().
Sleepers ==
  /\ \A w \in Worker : w \in asleep => worker[w] = "lock"
  /\ \A c \in Client : c \in asleep => client[c] \in {"write", "flush"}

\* While all writers sleep over a task, some call has not returned.
CalledWhileAsleep ==
  write_queue_ # << >> /\ Worker \subseteq asleep
    => \E c \in Client : client[c] # "idle"

SleepInv == Dozing /\ Sleepers /\ CalledWhileAsleep

\* Every step of a writer keeps it.
LEMMA SleepWorker ==
  ASSUME TypeOK, SleepInv, NEW w \in Worker, WorkerStep(w)
  PROVE  SleepInv'
<1> USE WriterAssumption
        DEF TypeOK, SleepInv, Dozing, Sleepers, CalledWhileAsleep, GoTo
<1>1. CASE Loop(w)
  BY <1>1 DEF Loop
<1>2. CASE FindNothing(w)
  BY <1>2 DEF FindNothing
<1>3. CASE FallAsleep(w)
  BY <1>3 DEF FallAsleep
<1>4. CASE Pop(w)
  BY <1>4 DEF Pop
<1>5. CASE Break(w)
  BY <1>5 DEF Break
<1>6. CASE ProcessTask(w)
  BY <1>6 DEF ProcessTask
<1> QED
  BY <1>1, <1>2, <1>3, <1>4, <1>5, <1>6 DEF WorkerStep

\* Every step of a client keeps it.  A notification that a client takes in
\* a writer's place leaves that client in its call.
LEMMA SleepClient ==
  ASSUME TypeOK, SleepInv, Worker # {}, NEW c \in Client,
         ClientStep(c) \/ BeginWrite(c) \/ BeginFlush(c)
  PROVE  SleepInv'
<1> USE WriterAssumption
        DEF TypeOK, SleepInv, Dozing, Sleepers, CalledWhileAsleep, ClientGoesTo
<1>1. CASE Push(c)
  BY <1>1 DEF Push
<1>2. CASE NotifyOne(c)
  <2>1. Dozing' /\ Sleepers'
    BY <1>2 DEF NotifyOne
  <2>2. ASSUME write_queue_' # << >>, Worker \subseteq asleep'
        PROVE  \E d \in Client : client'[d] # "idle"
    <3>1. PICK s \in asleep : asleep' = asleep \ {s}
      BY <1>2, <2>2 DEF NotifyOne
    <3>2. s \in Client /\ client[s] \in {"write", "flush"} /\ s # c
      BY <1>2, <2>2, <3>1 DEF NotifyOne
    <3> QED
      BY <1>2, <3>2 DEF NotifyOne
  <2> QED
    BY <2>1, <2>2
<1>3. CASE EndFlush(c)
  BY <1>3 DEF EndFlush
<1>4. CASE ClientSleeps(c)
  BY <1>4 DEF ClientSleeps
<1>5. CASE BeginWrite(c)
  BY <1>5 DEF BeginWrite
<1>6. CASE BeginFlush(c)
  BY <1>6 DEF BeginFlush
<1> QED
  BY <1>1, <1>2, <1>3, <1>4, <1>5, <1>6 DEF ClientStep

\* Every step keeps it; start() finds no writer asleep.
LEMMA SleepStep ==
  ASSUME IInv, SleepInv, Worker # {}, [Next]_vars
  PROVE  SleepInv'
<1>1. CASE SpuriousWake \/ BeginStop \/ NotifyAll \/ Join \/ UNCHANGED vars
  BY <1>1 DEF SleepInv, Dozing, Sleepers, CalledWhileAsleep, SpuriousWake,
              BeginStop, NotifyAll, Join, vars
<1>2. CASE Start
  BY <1>2 DEF IInv, StoppedInv, SleepInv, Dozing, Sleepers, CalledWhileAsleep,
              Start
<1> QED
  BY <1>1, <1>2, SleepWorker, SleepClient DEF IInv, Next

(* One condition variable serves writers and clients, a push wakes one of  *)
(* them and a pop wakes nobody.  A client may take the wake-up meant for a *)
(* writer, but when every call has returned, tasks in the queue have a     *)
(* writer that is awake, through any number of stops and starts: the       *)
(* safety part of what WriteService says of an unobstructed writer.        *)
THEOREM NoTaskSleptOver ==
  ASSUME Worker # {}
  PROVE  Spec => [](write_queue_ # << >> /\ (\A c \in Client : client[c] = "idle")
                      => \E w \in Worker : w \notin asleep)
<1> DEFINE Awake == write_queue_ # << >> /\ (\A c \in Client : client[c] = "idle")
                      => \E w \in Worker : w \notin asleep
<1>1. Init => SleepInv
  BY DEF Init, SleepInv, Dozing, Sleepers, CalledWhileAsleep
<1>2. SleepInv => Awake
  BY DEF SleepInv, CalledWhileAsleep
<1>3. IInv /\ SleepInv /\ [Next]_vars => SleepInv'
  BY SleepStep
<1> HIDE DEF Awake
<1>4. Spec => []Awake
  BY <1>1, <1>2, <1>3, IInvInit, IInvStep, PTL DEF Spec
<1> QED
  BY <1>4 DEF Awake
=============================================================================

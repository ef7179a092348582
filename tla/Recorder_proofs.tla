--------------------------- MODULE Recorder_proofs ---------------------------
(***************************************************************************)
(* Proofs about Recorder, for all durations, capacities and bounds, first  *)
(* alone and then within EdgeRuntime, where the state machine writes the   *)
(* state the recorder reads.                                               *)
(***************************************************************************)
EXTENDS EdgeRuntime, SequenceTheorems, FiniteSetTheorems, TLAPS

(***************************************************************************)
(* Ring buffers: what their operations keep, for buffers of any length and *)
(* elements of any kind                                                    *)
(***************************************************************************)

(* A set of natural numbers that is not empty has a least element: the     *)
(* intervals up to its members are finite sets, and the smallest of them   *)
(* ends in it.                                                             *)
LEMMA MinIsMember ==
  ASSUME NEW N, N \subseteq Nat, N # {}
  PROVE  Min(N) \in N /\ \A n \in N : Min(N) <= n
<1> DEFINE Below == {0 .. i : i \in N}
           R == StrictSubsetOrdering(Nat)
<1>1. IsWellFoundedOn(R, FiniteSubsetsOf(Nat))
  BY FS_StrictSubsetOrderingWellFounded
<1>2. Below \subseteq FiniteSubsetsOf(Nat) /\ Below # {}
  <2>1. ASSUME NEW i \in N PROVE 0 .. i \in FiniteSubsetsOf(Nat)
    <3>1. i \in Int /\ 0 \in Int /\ 0 .. i \subseteq Nat
      OBVIOUS
    <3>2. IsFiniteSet(0 .. i)
      BY <3>1, FS_Interval
    <3> QED BY <3>1, <3>2 DEF FiniteSubsetsOf
  <2> QED BY <2>1
<1>3. PICK B \in Below : \A C \in Below : ~(<<C, B>> \in R)
  <2> HIDE DEF Below, R
  <2> QED BY <1>1, <1>2, WFMin
<1>4. PICK m \in N : B = 0 .. m
  OBVIOUS
<1>5. ASSUME NEW n \in N PROVE m <= n
  <2>1. m \in Nat /\ n \in Nat /\ 0 .. n \subseteq Nat /\ 0 .. m \subseteq Nat
    OBVIOUS
  <2>2. 0 .. n \in Below
    OBVIOUS
  <2>3. ~(<<0 .. n, 0 .. m>> \in R)
    <3> HIDE DEF Below, R
    <3> QED BY <1>3, <1>4, <2>2
  <2>4. 0 .. n \subseteq 0 .. m => 0 .. n = 0 .. m
    BY <2>1, <2>3 DEF StrictSubsetOrdering
  <2>5. CASE n < m
    <3>1. m \in 0 .. m /\ m \notin 0 .. n /\ 0 .. n \subseteq 0 .. m
      BY <2>1, <2>5
    <3> QED BY <2>4, <3>1
  <2> QED BY <2>1, <2>5
<1> QED BY <1>5 DEF Min

(* pop_front as long as the front is old leaves a part of the buffer: all  *)
(* elements from the first young one on, in their order.                   *)
LEMMA DropOlderSuffix ==
  ASSUME NEW S, NEW buf \in Seq(S), NEW t, NEW age
  PROVE  \E k \in 1 .. Len(buf) + 1 :
           /\ DropOlder(buf, t, age) \in Seq(S)
           /\ Len(DropOlder(buf, t, age)) = Len(buf) - k + 1
           /\ \A i \in 1 .. Len(buf) - k + 1 :
                DropOlder(buf, t, age)[i] = buf[k + i - 1]
           /\ \A i \in 1 .. k - 1 : ~ (buf[i].ts <= t /\ t - buf[i].ts <= age)
<1> DEFINE young == {i \in DOMAIN buf : buf[i].ts <= t /\ t - buf[i].ts <= age}
           m == Min(young)
<1>1. DOMAIN buf = 1 .. Len(buf) /\ Len(buf) \in Nat
  OBVIOUS
<1>2. CASE young = {}
  <2>1. /\ DropOlder(buf, t, age) = << >>
        /\ << >> \in Seq(S) /\ Len(<< >>) = 0
    BY <1>2 DEF DropOlder
  <2>2. \A i \in 1 .. Len(buf) : ~ (buf[i].ts <= t /\ t - buf[i].ts <= age)
    BY <1>1, <1>2
  <2>3. Len(buf) + 1 \in 1 .. Len(buf) + 1
    BY <1>1
  <2>4. Len(buf) - (Len(buf) + 1) + 1 = 0 /\ Len(buf) + 1 - 1 = Len(buf)
    BY <1>1
  <2> WITNESS Len(buf) + 1 \in 1 .. Len(buf) + 1
  <2> QED BY <2>1, <2>2, <2>4
<1>3. CASE young # {}
  <2>1. young \subseteq 1 .. Len(buf)
    BY <1>1
  <2>2. m \in young /\ \A i \in young : m <= i
    <3>1. young \subseteq Nat
      BY <2>1
    <3> HIDE DEF young
    <3> QED BY <1>3, <3>1, MinIsMember
  <2>3. \A i \in 1 .. m - 1 : ~ (buf[i].ts <= t /\ t - buf[i].ts <= age)
    <3>1. m \in 1 .. Len(buf)
      BY <2>1, <2>2
    <3>2. ASSUME NEW i \in 1 .. m - 1 PROVE i \notin young /\ i \in DOMAIN buf
      <4> HIDE DEF m, young
      <4> QED BY <1>1, <2>2, <3>1, <3>2
    <3> QED BY <3>2
  <2>4. DropOlder(buf, t, age) = SubSeq(buf, m, Len(buf))
    BY <1>3 DEF DropOlder
  <2> HIDE DEF m, young
  <2>5. m \in 1 .. Len(buf) + 1 /\ m \in 1 .. Len(buf)
    BY <1>1, <2>1, <2>2
  <2>6. /\ SubSeq(buf, m, Len(buf)) \in Seq(S)
        /\ Len(SubSeq(buf, m, Len(buf))) = Len(buf) - m + 1
        /\ \A i \in 1 .. Len(buf) - m + 1 :
             SubSeq(buf, m, Len(buf))[i] = buf[m + i - 1]
    BY <1>1, <2>5, SubSeqProperties, ElementOfSeq
  <2> QED BY <2>3, <2>4, <2>5, <2>6
<1> QED BY <1>2, <1>3

\* Messages in the order in which their stamps were taken.
Earlier(m, x) == m.ts < x.ts \/ (m.ts = x.ts /\ m.nr < x.nr)

InOrder(buf) ==
  \A i, j \in 1 .. Len(buf) : i < j => Earlier(buf[i], buf[j])

(* What pop_front leaves was in the buffer and stands in the same order;   *)
(* an element that is young enough, and not of the future, stays.          *)
LEMMA DropOlderPart ==
  ASSUME NEW S, NEW buf \in Seq(S), NEW t, NEW age
  PROVE  /\ DropOlder(buf, t, age) \in Seq(S)
         /\ Range(DropOlder(buf, t, age)) \subseteq Range(buf)
         /\ InOrder(buf) => InOrder(DropOlder(buf, t, age))
         /\ \A x \in Range(buf) :
              x.ts <= t /\ t - x.ts <= age => x \in Range(DropOlder(buf, t, age))
<1> DEFINE rest == DropOlder(buf, t, age)
<1>1. PICK k \in 1 .. Len(buf) + 1 :
        /\ rest \in Seq(S)
        /\ Len(rest) = Len(buf) - k + 1
        /\ \A i \in 1 .. Len(buf) - k + 1 : rest[i] = buf[k + i - 1]
        /\ \A i \in 1 .. k - 1 : ~ (buf[i].ts <= t /\ t - buf[i].ts <= age)
  BY DropOlderSuffix
<1> HIDE DEF rest
<1>2. /\ DOMAIN buf = 1 .. Len(buf) /\ Len(buf) \in Nat
      /\ DOMAIN rest = 1 .. Len(rest) /\ Len(rest) \in Nat
  BY <1>1
<1>3. Range(rest) \subseteq Range(buf)
  <2>1. ASSUME NEW i \in 1 .. Len(rest) PROVE rest[i] \in Range(buf)
    <3>1. rest[i] = buf[k + i - 1] /\ k + i - 1 \in 1 .. Len(buf)
      BY <1>1, <1>2
    <3> QED BY <1>2, <3>1 DEF Range
  <2> QED BY <1>2, <2>1 DEF Range
<1>4. ASSUME InOrder(buf) PROVE InOrder(rest)
  <2> SUFFICES ASSUME NEW i \in 1 .. Len(rest), NEW j \in 1 .. Len(rest), i < j
               PROVE  Earlier(rest[i], rest[j])
    BY DEF InOrder
  <2>1. /\ k + i - 1 \in 1 .. Len(buf) /\ k + j - 1 \in 1 .. Len(buf)
        /\ k + i - 1 < k + j - 1
        /\ rest[i] = buf[k + i - 1] /\ rest[j] = buf[k + j - 1]
    BY <1>1, <1>2
  <2> QED BY <1>4, <2>1 DEF InOrder
<1>5. ASSUME NEW x \in Range(buf), x.ts <= t /\ t - x.ts <= age
      PROVE  x \in Range(rest)
  <2>1. PICK i \in 1 .. Len(buf) : x = buf[i]
    BY <1>2 DEF Range
  <2>2. i \notin 1 .. k - 1
    BY <1>1, <1>5, <2>1
  <2>3. /\ i - k + 1 \in 1 .. Len(rest)
        /\ k + (i - k + 1) - 1 = i
    BY <1>1, <1>2, <2>2
  <2>4. rest[i - k + 1] = buf[i]
    BY <1>1, <2>3
  <2> QED BY <1>2, <2>1, <2>3, <2>4 DEF Range
<1> QED BY <1>1, <1>3, <1>4, <1>5 DEF rest

(* push_back adds the new element; what was in the buffer stays, in order, *)
(* but for the oldest element of a full buffer.                            *)
LEMMA PushBackPart ==
  ASSUME NEW S, NEW buf \in Seq(S), NEW capacity \in Nat \ {0}, NEW x \in S
  PROVE  /\ PushBack(buf, capacity, x) \in Seq(S)
         /\ Range(PushBack(buf, capacity, x)) \subseteq Range(buf) \cup {x}
         /\ x \in Range(PushBack(buf, capacity, x))
         /\ \A i \in 1 .. Len(buf) :
              \/ buf[i] \in Range(PushBack(buf, capacity, x))
              \/ i = 1 /\ Len(buf) >= capacity
         /\ (InOrder(buf) /\ \A m \in Range(buf) : Earlier(m, x))
              => InOrder(PushBack(buf, capacity, x))
<1> DEFINE rest == IF Len(buf) >= capacity THEN Tail(buf) ELSE buf
<1>1. /\ rest \in Seq(S) /\ Range(rest) \subseteq Range(buf)
      /\ \A i \in 1 .. Len(buf) :
           \/ buf[i] \in Range(rest)
           \/ i = 1 /\ Len(buf) >= capacity
      /\ InOrder(buf) => InOrder(rest)
  <2>1. DOMAIN buf = 1 .. Len(buf) /\ Len(buf) \in Nat
    OBVIOUS
  <2>2. CASE Len(buf) >= capacity
    <3>1. /\ Tail(buf) \in Seq(S) /\ Len(Tail(buf)) = Len(buf) - 1
          /\ DOMAIN Tail(buf) = 1 .. Len(buf) - 1
          /\ \A i \in 1 .. Len(buf) - 1 : Tail(buf)[i] = buf[i + 1]
      BY <2>1, <2>2
    <3>2. Range(Tail(buf)) \subseteq Range(buf)
      BY <2>1, <3>1 DEF Range
    <3>3. ASSUME NEW i \in 1 .. Len(buf), i # 1 PROVE buf[i] \in Range(Tail(buf))
      <4>1. i - 1 \in 1 .. Len(buf) - 1 /\ Tail(buf)[i - 1] = buf[i]
        BY <2>1, <3>1, <3>3
      <4> QED BY <3>1, <4>1 DEF Range
    <3>4. InOrder(buf) => InOrder(Tail(buf))
      BY <2>1, <3>1 DEF InOrder
    <3> QED BY <2>2, <3>1, <3>2, <3>3, <3>4
  <2>3. CASE ~ (Len(buf) >= capacity)
    BY <2>1, <2>3 DEF Range
  <2> QED BY <2>2, <2>3
<1> HIDE DEF rest
<1>2. /\ Append(rest, x) \in Seq(S)
      /\ Len(Append(rest, x)) = Len(rest) + 1 /\ Len(rest) \in Nat
      /\ DOMAIN Append(rest, x) = 1 .. Len(rest) + 1
      /\ \A i \in 1 .. Len(rest) : Append(rest, x)[i] = rest[i]
      /\ Append(rest, x)[Len(rest) + 1] = x
      /\ DOMAIN rest = 1 .. Len(rest)
  BY <1>1
<1>3. /\ Range(Append(rest, x)) \subseteq Range(rest) \cup {x}
      /\ Range(rest) \cup {x} \subseteq Range(Append(rest, x))
  BY <1>2 DEF Range
<1>4. ASSUME InOrder(rest), \A m \in Range(rest) : Earlier(m, x)
      PROVE  InOrder(Append(rest, x))
  <2> SUFFICES ASSUME NEW i \in 1 .. Len(rest) + 1,
                      NEW j \in 1 .. Len(rest) + 1, i < j
               PROVE  Earlier(Append(rest, x)[i], Append(rest, x)[j])
    BY <1>2 DEF InOrder
  <2>1. CASE j \in 1 .. Len(rest)
    BY <1>2, <1>4, <2>1 DEF InOrder
  <2>2. CASE j = Len(rest) + 1
    <3>1. i \in 1 .. Len(rest) /\ rest[i] \in Range(rest)
      BY <1>2, <2>2 DEF Range
    <3> QED BY <1>2, <1>4, <2>2, <3>1
  <2> QED BY <1>2, <2>1, <2>2
<1> QED BY <1>1, <1>2, <1>3, <1>4 DEF PushBack, rest

(* In a window of D ticks with at most P messages each, a buffer that is   *)
(* in order holds at most D * P messages.                                  *)
LEMMA FewInWindow ==
  ASSUME NEW buf \in Seq(Message), InOrder(buf),
         NEW a \in Int, NEW D \in Nat, NEW P \in Nat,
         \A i \in 1 .. Len(buf) :
           a < buf[i].ts /\ buf[i].ts <= a + D /\ buf[i].nr <= P
  PROVE  Len(buf) <= D * P
<1> DEFINE stamps == (a + 1) .. (a + D)
           numbers == 1 .. P
           place == [i \in 1 .. Len(buf) |-> <<buf[i].ts, buf[i].nr>>]
<1>1. /\ Len(buf) \in Nat
      /\ \A i \in 1 .. Len(buf) :
           /\ buf[i] \in Message
           /\ buf[i].ts \in Nat /\ buf[i].nr \in Nat \ {0}
  <2>1. Len(buf) \in Nat /\ \A i \in 1 .. Len(buf) : buf[i] \in Message
    OBVIOUS
  <2> QED BY <2>1 DEF Message
<1>2. IsFiniteSet(stamps) /\ Cardinality(stamps) = D
  <2>1. a + 1 \in Int /\ a + D \in Int
    OBVIOUS
  <2>2. (IF a + 1 > a + D THEN 0 ELSE (a + D) - (a + 1) + 1) = D
    OBVIOUS
  <2> QED BY <2>1, <2>2, FS_Interval
<1>3. IsFiniteSet(numbers) /\ Cardinality(numbers) = P
  <2>1. (IF 1 > P THEN 0 ELSE P - 1 + 1) = P /\ 1 \in Int /\ P \in Int
    OBVIOUS
  <2> QED BY <2>1, FS_Interval
<1>4. IsFiniteSet(1 .. Len(buf)) /\ Cardinality(1 .. Len(buf)) = Len(buf)
  <2>1. (IF 1 > Len(buf) THEN 0 ELSE Len(buf) - 1 + 1) = Len(buf)
    BY <1>1
  <2> QED BY <1>1, <2>1, FS_Interval
<1>5. /\ IsFiniteSet(stamps \X numbers)
      /\ Cardinality(stamps \X numbers) = D * P
  <2> HIDE DEF stamps, numbers
  <2> QED BY <1>2, <1>3, FS_Product
<1>6. place \in Injection(1 .. Len(buf), stamps \X numbers)
  <2>1. ASSUME NEW i \in 1 .. Len(buf)
        PROVE  buf[i].ts \in stamps /\ buf[i].nr \in numbers
    BY <1>1
  <2>2. place \in [1 .. Len(buf) -> stamps \X numbers]
    <3> HIDE DEF stamps, numbers
    <3> QED BY <2>1
  <2>3. ASSUME NEW i \in 1 .. Len(buf), NEW j \in 1 .. Len(buf),
               place[i] = place[j]
        PROVE  i = j
    <3>1. buf[i].ts = buf[j].ts /\ buf[i].nr = buf[j].nr
      BY <2>3
    <3>2. /\ i < j => Earlier(buf[i], buf[j])
          /\ j < i => Earlier(buf[j], buf[i])
      BY DEF InOrder
    <3>3. ~ (i < j) /\ ~ (j < i)
      BY <1>1, <3>1, <3>2 DEF Earlier
    <3> QED BY <1>1, <3>3
  <2> HIDE DEF place
  <2> QED BY <2>2, <2>3 DEF Injection, IsInjective
<1> HIDE DEF stamps, numbers, place
<1> QED BY <1>4, <1>5, <1>6, FS_Injection

(***************************************************************************)
(* Types                                                                   *)
(***************************************************************************)

\* What a thread carries from step to step is there and complete.
Carried ==
  /\ service # "idle" => request \in [trigger : Nat, path : Path \cup {None}]
  /\ service \in {"stamp", "snapshot"} => request.path \in Path
  /\ worker \notin {"idle", "exited"} => task \in Task

\* Snapshots are made of buffers, so that their messages can be counted.
Countable ==
  /\ IsFiniteSet(triggered_forward)
  /\ worker \notin {"idle", "exited"} => IsFiniteSet(task.saved)
  /\ \A i \in 1 .. Len(record_queue_) : IsFiniteSet(record_queue_[i].saved)

Typed == TypeOK /\ Carried /\ Countable

(* What a scan of a buffer picks is a finite set of its messages.          *)
LEMMA WithinType ==
  ASSUME NEW buf \in Seq(Message), NEW a, NEW b
  PROVE  Within(buf, a, b) \subseteq Message /\ IsFiniteSet(Within(buf, a, b))
<1>1. /\ DOMAIN buf = 1 .. Len(buf) /\ Len(buf) \in Nat
      /\ \A i \in 1 .. Len(buf) : buf[i] \in Message
  OBVIOUS
<1>2. Range(buf) \subseteq Message
  BY <1>1 DEF Range
<1>3. IsFiniteSet(Range(buf))
  <2>1. IsFiniteSet(1 .. Len(buf))
    BY <1>1, FS_Interval
  <2>2. buf \in Surjection(1 .. Len(buf), Range(buf))
    BY <1>1 DEF Range, Surjection
  <2> QED BY <2>1, <2>2, FS_Surjection
<1>4. Within(buf, a, b) \subseteq Range(buf)
  BY DEF Within
<1> QED BY <1>2, <1>3, <1>4, FS_Subset

(* The steps of the clock, the channel callback and the service callback.  *)
LEMMA TypedInput ==
  ASSUME Typed, Tick \/ Channel \/ Service
  PROVE  Typed'
<1> USE DEF Typed, TypeOK, Carried, Countable, clockVars, bufferVars,
            serviceVars, bagVars, recordVars, cancelVars
<1>1. CASE Tick
  BY <1>1 DEF Tick, Recent
<1>2. CASE StampMessage
  BY <1>2 DEF StampMessage, Message
<1>3. CASE StoreMessage
  <2>1. channel \in Message
    BY <1>3 DEF StoreMessage
  <2>2. forward_buffer' \in Seq(Message)
    BY <1>3, <2>1, DropOlderPart, PushBackPart, DurationAssumption
       DEF StoreMessage
  <2>3. backward_buffer' \in Seq(Message)
    BY <1>3, <2>1, PushBackPart, DurationAssumption DEF StoreMessage
  <2>4. heard' \subseteq Message /\ collected' \subseteq Message
    BY <1>3, <2>1 DEF StoreMessage, Recent
  <2>5. UNCHANGED <<clockVars, serviceVars, bagVars, recordVars, worker,
                    phase, record_queue_, cancelVars, current_state_>>
        /\ channel' = None
    BY <1>3 DEF StoreMessage
  <2>6. Carried' /\ Countable'
    BY <2>5
  <2>7. TypeOK'
    BY <2>2, <2>3, <2>4, <2>5
  <2> QED BY <2>6, <2>7
<1>4. ASSUME NEW ts \in 0 .. now, Admit(ts) PROVE Typed'
  BY <1>4 DEF Admit
<1>5. CASE NameBag
  <2>1. now \div Second \in Path
    BY DurationAssumption DEF Path
  <2> QED BY <1>5, <2>1 DEF NameBag
<1>6. CASE StartCooldown
  BY <1>6 DEF StartCooldown
<1>7. CASE SnapshotAndQueue
  <2> DEFINE new == [trigger |-> request.trigger, path |-> request.path,
         saved |-> Within(forward_buffer, request.trigger - ForwardDur, request.trigger),
         owed  |-> {m \in Recent(heard, now) : m.ts <= request.trigger}]
  <2>1. new \in Task /\ IsFiniteSet(new.saved)
    BY <1>7, WithinType DEF SnapshotAndQueue, Task, Recent
  <2>2. record_queue_' = Append(record_queue_, new)
    BY <1>7 DEF SnapshotAndQueue
  <2> HIDE DEF new
  <2>3. /\ record_queue_' \in Seq(Task)
        /\ \A i \in 1 .. Len(record_queue_') : IsFiniteSet(record_queue_'[i].saved)
    BY <2>1, <2>2
  <2> QED BY <1>7, <2>3 DEF SnapshotAndQueue
<1> QED
  BY <1>1, <1>2, <1>3, <1>4, <1>5, <1>6, <1>7 DEF Channel, Service

(* The three loops of write_ringbuffer pick finite sets of messages.       *)
LEMMA LoopsType ==
  ASSUME Typed, NEW T
  PROVE  LET w == [snapshot |-> FromSnapshot(T), forward |-> FromForwardBuffer(T),
                   backward |-> FromBackwardBuffer(T)]
         IN  /\ w \in Written
             /\ Count(w) \in Nat
<1> DEFINE w == [snapshot |-> FromSnapshot(T), forward |-> FromForwardBuffer(T),
                 backward |-> FromBackwardBuffer(T)]
<1>1. FromSnapshot(T) \subseteq triggered_forward
  BY DEF FromSnapshot
<1>2. FromForwardBuffer(T) \subseteq Within(forward_buffer, T - ForwardDur, T)
  BY DEF FromForwardBuffer
<1>3. FromBackwardBuffer(T) = Within(backward_buffer, T + 1, T + BackwardDur)
  BY DEF FromBackwardBuffer
<1>4. /\ FromSnapshot(T) \subseteq Message /\ IsFiniteSet(FromSnapshot(T))
      /\ FromForwardBuffer(T) \subseteq Message /\ IsFiniteSet(FromForwardBuffer(T))
      /\ FromBackwardBuffer(T) \subseteq Message /\ IsFiniteSet(FromBackwardBuffer(T))
  BY <1>1, <1>2, <1>3, WithinType, FS_Subset DEF Typed, TypeOK, Countable
<1>5. w \in Written
  BY <1>4 DEF Written
<1>6. Count(w) \in Nat
  BY <1>4, FS_CardinalityType DEF Count
<1> QED BY <1>5, <1>6

(* The steps of the worker.                                                *)
LEMMA TypedWorker ==
  ASSUME Typed, Worker
  PROVE  Typed'
<1> USE DEF Typed, TypeOK, Carried, Countable, clockVars, bufferVars,
            serviceVars, bagVars, recordVars, cancelVars
<1>1. CASE PopTask
  <2>1. Head(record_queue_) \in Task /\ Tail(record_queue_) \in Seq(Task)
    BY <1>1 DEF PopTask
  <2>2. /\ IsFiniteSet(Head(record_queue_).saved)
        /\ \A i \in 1 .. Len(Tail(record_queue_)) :
             IsFiniteSet(Tail(record_queue_)[i].saved)
    <3>1. Len(record_queue_) > 0
      BY <1>1 DEF PopTask
    <3> QED BY <3>1
  <2>3. task' = Head(record_queue_) /\ record_queue_' = Tail(record_queue_)
    BY <1>1 DEF PopTask
  <2>4. Carried' /\ Countable'
    BY <1>1, <2>1, <2>2, <2>3 DEF PopTask
  <2>5. TypeOK'
    BY <1>1, <2>1, <2>3 DEF PopTask
  <2> QED BY <2>4, <2>5
<1>2. CASE LeaveLoop \/ Exit \/ WaitEnds \/ Abandon
  BY <1>2 DEF LeaveLoop, Exit, WaitEnds, Abandon
<1>3. CASE Arm
  BY <1>3 DEF Arm, Task
<1>4. CASE SwapBuffers
  <2>1. IsFiniteSet(task.saved) /\ task.saved \subseteq Message
    BY <1>4 DEF SwapBuffers, Task
  <2> QED BY <1>4, <2>1 DEF SwapBuffers
<1>5. CASE Collect
  <2>1. task.trigger \in Nat
    BY <1>5 DEF Collect, Task
  <2>2. deadline' \in Nat
    BY <1>5, <2>1, DurationAssumption DEF Collect
  <2> QED BY <1>5, <2>2 DEF Collect
<1>6. CASE WriteBag
  <2> DEFINE w == [snapshot |-> FromSnapshot(trigger_timestamp_),
                   forward |-> FromForwardBuffer(trigger_timestamp_),
                   backward |-> FromBackwardBuffer(trigger_timestamp_)]
  <2>1. w \in Written /\ Count(w) \in Nat
    BY LoopsType
  <2>2. /\ written' = w
        /\ bag_info_' = [path |-> task.path, total |-> Count(w)]
        /\ disk' = PutOnDisk(task.path, Bag(TRUE, Count(w)))
        /\ triggered_forward' = {}
        /\ UNCHANGED <<clockVars, channel, bufferVars, serviceVars,
                 trigger_timestamp_, task, deadline, phase, record_queue_,
                 cancelVars, current_state_>>
        /\ worker = "decide" /\ worker' = "end"
    BY <1>6 DEF WriteBag
  <2> HIDE DEF w
  <2>3. task.path \in Path
    BY <2>2 DEF Task
  <2>4. bag_info_' \in BagInfo /\ DOMAIN disk' \subseteq Path
    BY <2>1, <2>2, <2>3 DEF BagInfo, PutOnDisk
  <2>5. IsFiniteSet(triggered_forward')
    BY <2>2, FS_EmptySet
  <2>6. Carried' /\ Countable'
    BY <2>2, <2>5
  <2>7. TypeOK'
    BY <2>1, <2>2, <2>4
  <2> QED BY <2>6, <2>7
<1>7. CASE FailToOpen
  <2>1. IsFiniteSet(triggered_forward')
    BY <1>7, FS_EmptySet DEF FailToOpen
  <2>2. task.path \in Path
    BY <1>7 DEF FailToOpen, Task
  <2>3. DOMAIN disk' \subseteq Path
    <3>1. CASE disk' = Restrict(disk, DOMAIN disk \ {task.path})
      <4>1. DOMAIN disk' = DOMAIN disk \ {task.path}
        BY <3>1 DEF Restrict
      <4> QED BY <4>1
    <3>2. CASE disk' = PutOnDisk(task.path, Bag(FALSE, 0))
      <4>1. DOMAIN disk' = DOMAIN disk \cup {task.path}
        BY <3>2 DEF PutOnDisk
      <4> QED BY <2>2, <4>1
    <3> QED BY <1>7, <3>1, <3>2 DEF FailToOpen
  <2> QED BY <1>7, <2>1, <2>3 DEF FailToOpen
<1>8. CASE EndRecord
  <2>1. IsFiniteSet(triggered_forward')
    BY <1>8, FS_EmptySet DEF EndRecord
  <2> QED BY <1>8, <2>1 DEF EndRecord
<1>9. CASE Package
  <2>1. DOMAIN disk' = DOMAIN disk
    BY <1>9 DEF Package
  <2> QED BY <1>9, <2>1 DEF Package
<1> QED
  BY <1>1, <1>2, <1>3, <1>4, <1>5, <1>6, <1>7, <1>8, <1>9 DEF Worker

\* The recorder starts with values of its types.
LEMMA TypedInit == Init => Typed
<1> SUFFICES ASSUME Init PROVE Typed
  OBVIOUS
<1>1. - Cooldown \in Int
  BY DurationAssumption
<1>2. DOMAIN disk = {}
  BY DEF Init, InitRecorder
<1>3. << >> \in Seq(Message) /\ << >> \in Seq(Task) /\ Len(<< >>) = 0
  OBVIOUS
<1>4. TypeOK
  BY <1>1, <1>2, <1>3 DEF Init, InitRecorder, TypeOK
<1>5. Carried /\ Countable
  BY <1>3, FS_EmptySet DEF Init, InitRecorder, Carried, Countable
<1> QED BY <1>4, <1>5 DEF Typed

\* Every step keeps the types.
LEMMA TypedStep == Typed /\ [Next]_vars => Typed'
<1> SUFFICES ASSUME Typed, [Next]_vars PROVE Typed'
  OBVIOUS
<1>1. CASE BreakOff
  BY <1>1 DEF BreakOff, Typed, TypeOK, Carried, Countable, clockVars,
              bufferVars, serviceVars, bagVars, recordVars
<1>2. CASE UNCHANGED vars
  BY <1>2 DEF Typed, TypeOK, Carried, Countable, vars, clockVars, bufferVars,
              serviceVars, bagVars, recordVars, cancelVars
<1>3. CASE Stop
  BY <1>3 DEF Stop, Typed, TypeOK, Carried, Countable, clockVars,
              bufferVars, serviceVars, bagVars, recordVars, cancelVars
<1> QED BY <1>1, <1>2, <1>3, TypedInput, TypedWorker DEF Next

(* Every variable of the recorder keeps its type, whatever the durations,  *)
(* capacities and bounds are: the snapshots and the scans of the ring      *)
(* buffers hold messages, finitely many of them.                           *)
THEOREM TypeCorrect == Spec => []TypeOK
<1>1. Typed => TypeOK
  BY DEF Typed
<1> QED BY <1>1, TypedInit, TypedStep, PTL DEF Spec

(***************************************************************************)
(* The state machine, the task and the backward buffer                     *)
(***************************************************************************)

\* From Arm on trigger_timestamp_ is the task's, and from the swap on the
\* backward buffer holds only what the channel callback let in, whose stamp is
\* compared with trigger_timestamp_ whatever the state machine says.
BackwardOfTask ==
  /\ worker \in {"armed", "swapped", "waiting", "decide"} =>
       task.trigger = trigger_timestamp_
  /\ worker \in {"swapped", "waiting", "decide"} =>
       \A m \in Range(backward_buffer) :
         trigger_timestamp_ <= m.ts /\ m.ts <= trigger_timestamp_ + BackwardDur

IInv == Typed /\ CollectingIffRecording /\ BackwardOfTask /\ NoMessageTwice

\* The inductive invariant holds at the start.
LEMMA IInvInit == Init => IInv
BY TypedInit
   DEF Init, InitRecorder, IInv, CollectingIffRecording, BackwardOfTask,
       NoMessageTwice

(* setCurrentState is called when the wait begins and when the record ends,*)
(* by the worker only.                                                     *)
LEMMA CollectingStep ==
  ASSUME Typed, CollectingIffRecording, [Next]_vars
  PROVE  CollectingIffRecording'
<1> USE DEF CollectingIffRecording, clockVars, bufferVars, serviceVars,
            bagVars, recordVars, cancelVars
<1>1. CASE Tick \/ Channel \/ Service \/ BreakOff \/ Stop \/ UNCHANGED vars
  BY <1>1 DEF Tick, Channel, StampMessage, StoreMessage, Service, Admit,
              NameBag, StartCooldown, SnapshotAndQueue, BreakOff, Stop, vars
<1>2. CASE PopTask \/ LeaveLoop \/ Exit \/ Arm \/ SwapBuffers
  BY <1>2 DEF PopTask, LeaveLoop, Exit, Arm, SwapBuffers
<1>3. CASE Collect \/ WaitEnds \/ Abandon \/ WriteBag
  BY <1>3 DEF Collect, WaitEnds, Abandon, WriteBag
<1>4. CASE FailToOpen \/ EndRecord \/ Package
  BY <1>4 DEF FailToOpen, EndRecord, Package
<1> QED BY <1>1, <1>2, <1>3, <1>4 DEF Next, Worker

\* A step that records keeps the backward data that of its own trigger.
LEMMA BackwardStep ==
  ASSUME Typed, BackwardOfTask, [Next]_vars
  PROVE  BackwardOfTask'
<1> USE DEF BackwardOfTask, clockVars, bufferVars, serviceVars, bagVars,
            recordVars, cancelVars
<1>1. CASE Tick \/ StampMessage \/ Service \/ BreakOff \/ Stop
             \/ UNCHANGED vars
  BY <1>1 DEF Tick, StampMessage, Service, Admit, NameBag, StartCooldown,
              SnapshotAndQueue, BreakOff, Stop, vars
<1>2. CASE StoreMessage
  <2>1. /\ UNCHANGED <<worker, task, trigger_timestamp_>>
        /\ channel \in Message
        /\ backward_buffer \in Seq(Message)
    BY <1>2 DEF StoreMessage, Typed, TypeOK
  <2>2. CASE ~IsBackwardData(channel)
    BY <1>2, <2>1, <2>2 DEF StoreMessage
  <2>3. CASE IsBackwardData(channel)
    <3>1. Range(backward_buffer') \subseteq Range(backward_buffer) \cup {channel}
      BY <1>2, <2>1, <2>3, PushBackPart, DurationAssumption DEF StoreMessage
    <3>2. /\ trigger_timestamp_ <= channel.ts
          /\ channel.ts <= trigger_timestamp_ + BackwardDur
      BY <2>1, <2>3, DurationAssumption
         DEF IsBackwardData, Typed, TypeOK, Message
    <3> QED BY <2>1, <3>1, <3>2
  <2> QED BY <2>2, <2>3
<1>3. CASE PopTask \/ LeaveLoop \/ Exit \/ Arm
  BY <1>3 DEF PopTask, LeaveLoop, Exit, Arm
<1>4. CASE SwapBuffers
  <2>1. Range(backward_buffer') = {}
    BY <1>4 DEF SwapBuffers, Range
  <2> QED BY <1>4, <2>1 DEF SwapBuffers
<1>5. CASE Collect
  BY <1>5 DEF Collect
<1>6. CASE WaitEnds \/ Abandon \/ WriteBag \/ FailToOpen
  BY <1>6 DEF WaitEnds, Abandon, WriteBag, FailToOpen
<1>7. CASE EndRecord \/ Package
  BY <1>7 DEF EndRecord, Package
<1> QED
  BY <1>1, <1>2, <1>3, <1>4, <1>5, <1>6, <1>7 DEF Next, Channel, Worker

(* The snapshot goes first; the forward loop leaves out the stamps it      *)
(* holds, and the backward loop starts after the trigger.                  *)
LEMMA OnceStep ==
  ASSUME Typed, NoMessageTwice, [Next]_vars
  PROVE  NoMessageTwice'
<1> USE DEF NoMessageTwice, clockVars, bufferVars, serviceVars, bagVars,
            recordVars, cancelVars
<1>1. CASE WriteBag
  <2> DEFINE T == trigger_timestamp_
  <2>1. written' = [snapshot |-> FromSnapshot(T),
                    forward |-> FromForwardBuffer(T),
                    backward |-> FromBackwardBuffer(T)]
    BY <1>1 DEF WriteBag
  <2>2. ASSUME NEW m \in FromForwardBuffer(T) PROVE m \notin FromSnapshot(T)
    BY <2>2 DEF FromForwardBuffer, Stamps
  <2>3. ASSUME NEW m \in FromSnapshot(T) \cup FromForwardBuffer(T)
        PROVE m.ts <= T
    BY <2>3 DEF FromSnapshot, FromForwardBuffer, Within
  <2>4. ASSUME NEW m \in FromBackwardBuffer(T)
        PROVE  m.ts \in Nat /\ m.ts >= T + 1
    <3>1. m \in Message
      BY <2>4, WithinType DEF FromBackwardBuffer, Typed, TypeOK
    <3> QED BY <2>4, <3>1 DEF FromBackwardBuffer, Within, Message
  <2>5. T \in Nat
    BY DEF Typed, TypeOK
  <2> QED BY <2>1, <2>2, <2>3, <2>4, <2>5
<1>2. CASE EndRecord
  BY <1>2 DEF EndRecord
<1>3. CASE Tick \/ Channel \/ Service \/ BreakOff \/ Stop \/ UNCHANGED vars
  BY <1>3 DEF Tick, Channel, StampMessage, StoreMessage, Service, Admit,
              NameBag, StartCooldown, SnapshotAndQueue, BreakOff, Stop, vars
<1>4. CASE PopTask \/ LeaveLoop \/ Exit \/ Arm \/ SwapBuffers
  BY <1>4 DEF PopTask, LeaveLoop, Exit, Arm, SwapBuffers
<1>5. CASE Collect \/ WaitEnds \/ Abandon \/ FailToOpen \/ Package
  BY <1>5 DEF Collect, WaitEnds, Abandon, FailToOpen, Package
<1> QED BY <1>1, <1>2, <1>3, <1>4, <1>5 DEF Next, Worker

\* Every step keeps the inductive invariant.
LEMMA IInvStep == IInv /\ [Next]_vars => IInv'
BY TypedStep, CollectingStep, BackwardStep, OnceStep DEF IInv

(* The machine says DATA_COLLECTING exactly while the worker records, for  *)
(* any number of triggers, cancels and failures and any shutdown.          *)
THEOREM MachineAgrees == Spec => []CollectingIffRecording
<1>1. IInv => CollectingIffRecording
  BY DEF IInv
<1> QED BY <1>1, IInvInit, IInvStep, PTL DEF Spec

(* A bag is never written from backward data of another trigger.           *)
THEOREM BackwardCorrect == Spec => []BackwardIsOfThisTrigger
<1>1. IInv => BackwardIsOfThisTrigger
  BY DEF IInv, BackwardOfTask, BackwardIsOfThisTrigger
<1> QED BY <1>1, IInvInit, IInvStep, PTL DEF Spec

(* No message is written to a bag twice, however the snapshot and the two  *)
(* buffers overlap.                                                        *)
THEOREM WrittenOnce == Spec => []NoMessageTwice
<1>1. IInv => NoMessageTwice
  BY DEF IInv
<1> QED BY <1>1, IInvInit, IInvStep, PTL DEF Spec
(***************************************************************************)
(* The names of the bags                                                   *)
(***************************************************************************)

\* The first tick of the second a bag's name stands for.
Begun(p) == p * Second

(* A name stands for the second it was made in, and names made later are   *)
(* not smaller; a second later they are larger.                            *)
LEMMA BegunOrder ==
  ASSUME NEW n \in Nat
  PROVE  /\ n \div Second \in Nat
         /\ Begun(n \div Second) \in Nat
         /\ Begun(n \div Second) <= n
         /\ \A p \in Nat : Begun(p) <= n => p <= n \div Second
         /\ \A p \in Nat : Begun(p) <= n - Second => p < n \div Second
<1> DEFINE d == n \div Second
<1>1. Second \in Nat \ {0}
  BY DurationAssumption
<1>2. d \in Nat /\ d * Second <= n /\ n < d * Second + Second /\ d * Second \in Nat
  BY <1>1
<1> HIDE DEF d
<1>3. ASSUME NEW p \in Nat, NEW q \in Nat, q <= p
      PROVE  q * Second \in Nat /\ p * Second \in Nat /\ q * Second <= p * Second
  <2>1. PICK k \in Nat : p = q + k
    <3>1. p - q \in Nat /\ p = q + (p - q)
      BY <1>3
    <3> QED BY <3>1
  <2>2. p * Second = q * Second + k * Second
    BY <1>1, <2>1
  <2>3. k * Second \in Nat /\ q * Second \in Nat
    BY <1>1
  <2> QED BY <2>2, <2>3
<1>4. (d + 1) * Second = d * Second + Second
  BY <1>1, <1>2
<1>5. ASSUME NEW p \in Nat, Begun(p) <= n PROVE p <= d
  <2>1. CASE d + 1 <= p
    <3>1. (d + 1) * Second <= p * Second /\ p * Second \in Nat
      BY <1>2, <1>3, <2>1
    <3> QED BY <1>1, <1>2, <1>4, <1>5, <3>1 DEF Begun
  <2> QED BY <1>2, <2>1
<1>6. ASSUME NEW p \in Nat, Begun(p) <= n - Second PROVE p < d
  <2>1. CASE d <= p
    <3>1. d * Second <= p * Second /\ p * Second \in Nat
      BY <1>2, <1>3, <2>1
    <3> QED BY <1>1, <1>2, <1>6, <3>1 DEF Begun
  <2> QED BY <1>2, <2>1
<1> QED BY <1>2, <1>5, <1>6 DEF Begun, d

\* The names of the bags on disk and of the last bag opened, of the task at
\* hand, and of the tasks in the queue.
Past == DOMAIN disk \cup (IF bag_info_ = None THEN {} ELSE {bag_info_.path})
Current == IF worker \in {"idle", "exited"} THEN {} ELSE {task.path}
Queued == {record_queue_[i].path : i \in 1 .. Len(record_queue_)}
Taken == Past \cup Current \cup Queued

\* p was made before q; it may be the same name if the cooldown is short.
Before(p, q) == IF Cooldown >= Second THEN p < q ELSE p <= q

\* Names grow along the way of the tasks: from the service over the queue and
\* the worker to the disk.
PathsInOrder ==
  /\ \A p \in Past, c \in Current :
       IF worker \in {"end", "package"} THEN p <= c ELSE Before(p, c)
  /\ \A p \in Past \cup Current, q \in Queued : Before(p, q)
  /\ \A i, j \in 1 .. Len(record_queue_) :
       i < j => Before(record_queue_[i].path, record_queue_[j].path)
  /\ service \in {"stamp", "snapshot"} =>
       \A p \in Taken : Before(p, request.path)

\* A name was made no later than the cooldown of its trigger was started, and
\* the cooldown is over when the next name is made.
NamesInTime ==
  /\ last_trigger_finish_time <= now
  /\ \A p \in Taken : Begun(p) <= last_trigger_finish_time
  /\ service = "name" /\ Cooldown >= Second =>
       now - last_trigger_finish_time >= Second
  /\ service = "stamp" => Begun(request.path) <= now
  /\ service = "snapshot" => Begun(request.path) <= last_trigger_finish_time

NamesInv == PathsInOrder /\ NamesInTime

\* Names are natural numbers, wherever they are.
LEMMA TakenType ==
  ASSUME Typed
  PROVE  Past \subseteq Nat /\ Current \subseteq Nat /\ Queued \subseteq Nat
<1> USE DEF Typed, TypeOK, Path
<1>1. Past \subseteq Nat
  BY DEF Past, BagInfo
<1>2. Current \subseteq Nat
  <2>1. CASE worker \in {"idle", "exited"}
    BY <2>1 DEF Current
  <2>2. CASE worker \notin {"idle", "exited"}
    <3>1. task \in Task
      BY <2>2 DEF Carried
    <3> QED BY <2>2, <3>1 DEF Current, Task
  <2> QED BY <2>1, <2>2
<1>3. Queued \subseteq Nat
  <2>1. \A i \in 1 .. Len(record_queue_) : record_queue_[i] \in Task
    OBVIOUS
  <2> QED BY <2>1 DEF Queued, Task
<1> QED BY <1>1, <1>2, <1>3

(* A name stays where it is, moves on or disappears, and the clock runs.   *)
LEMMA NamesKept ==
  ASSUME Typed, NamesInv,
         UNCHANGED <<record_queue_, service, request, last_trigger_finish_time>>,
         now' \in Nat, now <= now',
         Past' \subseteq Past \cup Current, Current' \subseteq Current,
         worker' \notin {"end", "package"} =>
           /\ Past' \subseteq Past
           /\ worker \notin {"end", "package"} \/ Current' = {}
  PROVE  NamesInv'
<1>1. Past \subseteq Nat /\ Current \subseteq Nat /\ Queued \subseteq Nat
  BY TakenType
<1>2. Queued' = Queued
  BY DEF Queued
<1>3. Taken' \subseteq Taken
  BY <1>2 DEF Taken
<1>4. \A p, q \in Nat : Before(p, q) => p <= q
  BY DEF Before
<1>5. \A c, d \in Current : c = d
  BY DEF Current
<1>6. PathsInOrder'
  <2>1. ASSUME NEW p \in Past', NEW c \in Current'
        PROVE  IF worker' \in {"end", "package"} THEN p <= c ELSE Before(p, c)
    <3>1. CASE p \in Current
      BY <1>1, <1>4, <1>5, <2>1, <3>1 DEF NamesInv, PathsInOrder
    <3>2. CASE p \in Past
      BY <1>1, <1>4, <3>2 DEF NamesInv, PathsInOrder
    <3> QED BY <3>1, <3>2
  <2>2. \A p, q : Before(p, q)' <=> Before(p, q)
    BY DEF Before
  <2>3. \A p \in Past' \cup Current', q \in Queued' : Before(p, q)
    BY <1>2 DEF NamesInv, PathsInOrder
  <2>4. service' \in {"stamp", "snapshot"} =>
           \A p \in Taken' : Before(p, request'.path)
    BY <1>3 DEF NamesInv, PathsInOrder
  <2>5. \A i, j \in 1 .. Len(record_queue_') :
           i < j => Before(record_queue_'[i].path, record_queue_'[j].path)
    BY DEF NamesInv, PathsInOrder
  <2> QED BY <2>1, <2>3, <2>4, <2>5 DEF PathsInOrder, Before
<1>7. NamesInTime'
  <2>1. /\ last_trigger_finish_time \in Int /\ now \in Nat
        /\ Second \in Nat
    BY DurationAssumption DEF Typed, TypeOK
  <2>2. last_trigger_finish_time' <= now'
    BY <2>1 DEF NamesInv, NamesInTime
  <2>3. \A p \in Taken' : Begun(p) <= last_trigger_finish_time'
    BY <1>3 DEF NamesInv, NamesInTime
  <2>4. ASSUME service' = "name", Cooldown >= Second
        PROVE  now' - last_trigger_finish_time' >= Second
    <3>1. now - last_trigger_finish_time >= Second
      BY <2>4 DEF NamesInv, NamesInTime
    <3>2. \A l \in Int, m, n, k \in Nat : n - l >= k /\ n <= m => m - l >= k
      OBVIOUS
    <3>3. last_trigger_finish_time' = last_trigger_finish_time
      OBVIOUS
    <3> QED BY <2>1, <3>1, <3>2, <3>3
  <2>5. service' = "stamp" => Begun(request'.path) <= now'
    <3>1. ASSUME service = "stamp"
          PROVE  request.path \in Nat /\ Begun(request.path) \in Nat
      <4>1. request.path \in Nat
        BY <3>1 DEF Typed, Carried, Path
      <4> QED BY <4>1, DurationAssumption DEF Begun
    <3> QED BY <2>1, <3>1 DEF NamesInv, NamesInTime
  <2>6. service' = "snapshot" => Begun(request'.path) <= last_trigger_finish_time'
    BY DEF NamesInv, NamesInTime
  <2> QED BY <2>2, <2>3, <2>4, <2>5, <2>6 DEF NamesInTime, Begun
<1> QED BY <1>6, <1>7 DEF NamesInv

(* The service: a name is made, its cooldown starts, it goes to the queue. *)
LEMMA NamesService ==
  ASSUME Typed, NamesInv, Service
  PROVE  NamesInv'
<1> USE DEF clockVars, bufferVars, bagVars, recordVars, cancelVars
<1>1. Past \subseteq Nat /\ Current \subseteq Nat /\ Queued \subseteq Nat
  BY TakenType
<1>2. /\ now \in Nat /\ last_trigger_finish_time \in Int
      /\ Second \in Nat \ {0} /\ Cooldown \in Nat
      /\ \A p \in Nat : Begun(p) \in Nat
  BY DurationAssumption DEF Typed, TypeOK, Begun
<1>3. Past' = Past /\ Current' = Current
  BY DEF Service, Admit, NameBag, StartCooldown, SnapshotAndQueue, Past, Current
<1>4. now' = now /\ worker' = worker
  BY DEF Service, Admit, NameBag, StartCooldown, SnapshotAndQueue
<1>5. ASSUME record_queue_' = record_queue_ PROVE Queued' = Queued /\ Taken' = Taken
  BY <1>3, <1>5 DEF Queued, Taken
<1>6. ASSUME record_queue_' = record_queue_
      PROVE  /\ \A p \in Past', c \in Current' :
                  IF worker' \in {"end", "package"} THEN p <= c ELSE Before(p, c)
             /\ \A p \in Past' \cup Current', q \in Queued' : Before(p, q)
             /\ \A i, j \in 1 .. Len(record_queue_') : i < j =>
                  Before(record_queue_'[i].path, record_queue_'[j].path)
  BY <1>3, <1>4, <1>5, <1>6 DEF NamesInv, PathsInOrder
<1>7. ASSUME NEW ts \in 0 .. now, Admit(ts) PROVE NamesInv'
  <2>1. /\ service' = "name" /\ ~ IsInCooldown
        /\ UNCHANGED <<record_queue_, last_trigger_finish_time>>
    BY <1>7 DEF Admit
  <2>2. PathsInOrder'
    BY <1>6, <2>1 DEF PathsInOrder, Before
  <2>3. Cooldown >= Second => now - last_trigger_finish_time >= Second
    BY <1>2, <2>1 DEF IsInCooldown
  <2>4. NamesInTime'
    BY <1>4, <1>5, <2>1, <2>3 DEF NamesInv, NamesInTime, Begun
  <2> QED BY <2>2, <2>4 DEF NamesInv
<1>8. CASE NameBag
  <2>1. /\ service = "name" /\ service' = "stamp"
        /\ request'.path = now \div Second
        /\ UNCHANGED <<record_queue_, last_trigger_finish_time>>
    BY <1>8 DEF NameBag, Typed, Carried
  <2>2. ASSUME NEW p \in Taken PROVE Before(p, now \div Second)
    <3>1. p \in Nat /\ Begun(p) \in Nat /\ Begun(p) <= last_trigger_finish_time
      BY <1>1, <1>2 DEF Taken, NamesInv, NamesInTime
    <3>2. last_trigger_finish_time <= now
      BY DEF NamesInv, NamesInTime
    <3>3. CASE Cooldown >= Second
      <4>1. Begun(p) <= now - Second
        BY <1>2, <2>1, <3>1, <3>3 DEF NamesInv, NamesInTime
      <4> QED BY <1>2, <3>1, <3>3, <4>1, BegunOrder DEF Before
    <3>4. CASE ~ (Cooldown >= Second)
      <4>1. Begun(p) <= now
        BY <1>2, <3>1, <3>2
      <4> QED BY <1>2, <3>1, <3>4, <4>1, BegunOrder DEF Before
    <3> QED BY <3>3, <3>4
  <2>3. PathsInOrder'
    BY <1>5, <1>6, <2>1, <2>2 DEF PathsInOrder, Before
  <2>4. Begun(request'.path) <= now
    BY <1>2, <2>1, BegunOrder
  <2>5. NamesInTime'
    BY <1>4, <1>5, <2>1, <2>4 DEF NamesInv, NamesInTime, Begun
  <2> QED BY <2>3, <2>5 DEF NamesInv
<1>9. CASE StartCooldown
  <2>1. /\ service = "stamp" /\ service' = "snapshot"
        /\ last_trigger_finish_time' = now
        /\ UNCHANGED <<record_queue_, request>>
    BY <1>9 DEF StartCooldown
  <2>2. PathsInOrder'
    BY <1>5, <1>6, <2>1 DEF NamesInv, PathsInOrder, Before
  <2>3. ASSUME NEW p \in Taken PROVE Begun(p) <= now
    <3>1. p \in Nat /\ Begun(p) \in Nat /\ Begun(p) <= last_trigger_finish_time
      BY <1>1, <1>2 DEF Taken, NamesInv, NamesInTime
    <3> QED BY <1>2, <3>1 DEF NamesInv, NamesInTime
  <2>4. Begun(request.path) <= now
    BY <2>1 DEF NamesInv, NamesInTime
  <2>5. NamesInTime'
    BY <1>2, <1>4, <1>5, <2>1, <2>3, <2>4 DEF NamesInTime, Begun
  <2> QED BY <2>2, <2>5 DEF NamesInv
<1>10. CASE SnapshotAndQueue
  <2> DEFINE new == [trigger |-> request.trigger, path |-> request.path,
         saved |-> Within(forward_buffer, request.trigger - ForwardDur, request.trigger),
         owed  |-> {m \in Recent(heard, now) : m.ts <= request.trigger}]
  <2>1. /\ service = "snapshot" /\ service' = "idle"
        /\ record_queue_' = Append(record_queue_, new)
        /\ UNCHANGED last_trigger_finish_time
    BY <1>10 DEF SnapshotAndQueue
  <2>2. new.path = request.path
    OBVIOUS
  <2> HIDE DEF new
  <2>3. /\ Len(record_queue_) \in Nat
        /\ Len(record_queue_') = Len(record_queue_) + 1
        /\ \A i \in 1 .. Len(record_queue_) : record_queue_'[i] = record_queue_[i]
        /\ record_queue_'[Len(record_queue_) + 1].path = request.path
    <3>1. record_queue_ \in Seq(Task)
      BY DEF Typed, TypeOK
    <3> QED BY <2>1, <2>2, <3>1
  <2>4. Queued' = Queued \cup {request.path}
    BY <2>3 DEF Queued
  <2>5. \A p \in Taken : Before(p, request.path)
    BY <2>1 DEF NamesInv, PathsInOrder
  <2>6. \A i \in 1 .. Len(record_queue_) : record_queue_[i].path \in Taken
    BY DEF Taken, Queued
  <2>7. \A i, j \in 1 .. Len(record_queue_') : i < j =>
           Before(record_queue_'[i].path, record_queue_'[j].path)
    <3> SUFFICES ASSUME NEW i \in 1 .. Len(record_queue_) + 1,
                        NEW j \in 1 .. Len(record_queue_) + 1, i < j
                 PROVE  Before(record_queue_'[i].path, record_queue_'[j].path)
      BY <2>3
    <3>1. CASE j = Len(record_queue_) + 1
      <4>1. i \in 1 .. Len(record_queue_)
        BY <2>3, <3>1
      <4> QED BY <2>3, <2>5, <2>6, <3>1, <4>1
    <3>2. CASE j \in 1 .. Len(record_queue_)
      <4>1. i \in 1 .. Len(record_queue_)
        BY <2>3, <3>2
      <4> QED BY <2>3, <3>2, <4>1 DEF NamesInv, PathsInOrder
    <3> QED BY <2>3, <3>1, <3>2
  <2>8. \A p \in Past' \cup Current', q \in Queued' : Before(p, q)
    BY <1>3, <2>4, <2>5 DEF NamesInv, PathsInOrder, Taken
  <2>9. PathsInOrder'
    BY <1>3, <1>4, <2>1, <2>7, <2>8 DEF NamesInv, PathsInOrder, Before
  <2>10. Taken' = Taken \cup {request.path}
    BY <1>3, <2>4 DEF Taken
  <2>11. \A p \in Taken' : Begun(p) <= last_trigger_finish_time
    BY <2>1, <2>10 DEF NamesInv, NamesInTime
  <2>12. NamesInTime'
    BY <1>4, <2>1, <2>11 DEF NamesInv, NamesInTime, Begun
  <2> QED BY <2>9, <2>12 DEF NamesInv
<1> QED BY <1>7, <1>8, <1>9, <1>10 DEF Service

(* A task the worker takes from the queue was named before those behind it.*)
LEMMA NamesPop ==
  ASSUME Typed, NamesInv, PopTask
  PROVE  NamesInv'
<1> USE DEF clockVars, bufferVars, serviceVars, bagVars, recordVars, cancelVars
<1>1. /\ worker = "idle" /\ worker' = "check"
      /\ task' = Head(record_queue_)
      /\ record_queue_' = Tail(record_queue_)
      /\ record_queue_ # << >>
      /\ UNCHANGED <<now, disk, bag_info_, service, request, last_trigger_finish_time>>
  BY DEF PopTask
<1>2. /\ Len(record_queue_) \in Nat \ {0}
      /\ Len(record_queue_') = Len(record_queue_) - 1
      /\ \A i \in 1 .. Len(record_queue_') : record_queue_'[i] = record_queue_[i + 1]
      /\ task' = record_queue_[1]
  <2>1. record_queue_ \in Seq(Task)
    BY DEF Typed, TypeOK
  <2> QED BY <1>1, <2>1
<1>3. Past' = Past /\ Current = {} /\ Current' = {task'.path}
  BY <1>1 DEF Past, Current
<1>4. task'.path \in Queued /\ Queued' \subseteq Queued
  BY <1>2 DEF Queued
<1>5. \A q \in Queued' : Before(task'.path, q)
  <2>1. ASSUME NEW i \in 1 .. Len(record_queue_')
        PROVE  Before(task'.path, record_queue_'[i].path)
    <3>1. 1 \in 1 .. Len(record_queue_) /\ i + 1 \in 1 .. Len(record_queue_) /\ 1 < i + 1
      BY <1>2
    <3> QED BY <1>2, <3>1 DEF NamesInv, PathsInOrder
  <2> QED BY <2>1 DEF Queued
<1>6. \A i, j \in 1 .. Len(record_queue_') : i < j =>
        Before(record_queue_'[i].path, record_queue_'[j].path)
  <2> SUFFICES ASSUME NEW i \in 1 .. Len(record_queue_'),
                      NEW j \in 1 .. Len(record_queue_'), i < j
               PROVE  Before(record_queue_'[i].path, record_queue_'[j].path)
    OBVIOUS
  <2>1. i + 1 \in 1 .. Len(record_queue_) /\ j + 1 \in 1 .. Len(record_queue_) /\ i + 1 < j + 1
    BY <1>2
  <2> QED BY <1>2, <2>1 DEF NamesInv, PathsInOrder
<1>7. Taken' \subseteq Taken
  BY <1>3, <1>4 DEF Taken
<1>8. PathsInOrder'
  <2>1. \A p \in Past', c \in Current' : Before(p, c)
    BY <1>3, <1>4 DEF NamesInv, PathsInOrder
  <2>2. \A p \in Past' \cup Current', q \in Queued' : Before(p, q)
    BY <1>3, <1>4, <1>5 DEF NamesInv, PathsInOrder
  <2>3. service \in {"stamp", "snapshot"} => \A p \in Taken' : Before(p, request.path)
    BY <1>7 DEF NamesInv, PathsInOrder
  <2> QED BY <1>1, <1>6, <2>1, <2>2, <2>3 DEF PathsInOrder, Before
<1>9. NamesInTime'
  BY <1>1, <1>7 DEF NamesInv, NamesInTime, Begun
<1> QED BY <1>8, <1>9 DEF NamesInv

(* Opening a bag adds or removes the directory of its task and touches no  *)
(* other.                                                                  *)
LEMMA BagPutOnDisk ==
  ASSUME WriteBag \/ FailToOpen
  PROVE  /\ DOMAIN disk' \subseteq DOMAIN disk \cup {task.path}
         /\ DOMAIN disk \ {task.path} \subseteq DOMAIN disk'
         /\ \A p \in DOMAIN disk \ {task.path} : disk'[p] = disk[p]
<1>1. ASSUME NEW b, disk' = PutOnDisk(task.path, b)
      PROVE  /\ DOMAIN disk' = DOMAIN disk \cup {task.path}
             /\ \A p \in DOMAIN disk \ {task.path} : disk'[p] = disk[p]
  BY <1>1 DEF PutOnDisk
<1>2. ASSUME disk' = Restrict(disk, DOMAIN disk \ {task.path})
      PROVE  /\ DOMAIN disk' = DOMAIN disk \ {task.path}
             /\ \A p \in DOMAIN disk \ {task.path} : disk'[p] = disk[p]
  BY <1>2 DEF Restrict
<1>3. \/ \E b : disk' = PutOnDisk(task.path, b)
      \/ disk' = Restrict(disk, DOMAIN disk \ {task.path})
  BY DEF WriteBag, FailToOpen
<1> QED BY <1>1, <1>2, <1>3

\* Every step keeps the names in order.
LEMMA NamesStep ==
  ASSUME Typed, NamesInv, [Next]_vars
  PROVE  NamesInv'
<1> USE DEF clockVars, bufferVars, serviceVars, bagVars, recordVars, cancelVars
<1>1. now \in Nat
  BY DEF Typed, TypeOK
<1>2. CASE Tick \/ Channel \/ BreakOff \/ Stop \/ UNCHANGED vars
  <2>1. UNCHANGED <<record_queue_, service, request, last_trigger_finish_time,
                    worker, task, disk, bag_info_>>
    BY <1>2 DEF Tick, Channel, StampMessage, StoreMessage, BreakOff, Stop, vars
  <2>2. now' \in Nat /\ now <= now'
    BY <1>1, <1>2 DEF Tick, Channel, StampMessage, StoreMessage, BreakOff, Stop, vars
  <2>3. Past' = Past /\ Current' = Current
    BY <2>1 DEF Past, Current
  <2> QED BY <2>1, <2>2, <2>3, NamesKept
<1>3. CASE LeaveLoop \/ Exit \/ Arm \/ SwapBuffers \/ Collect \/ WaitEnds
             \/ Abandon \/ EndRecord
  <2>1. /\ UNCHANGED <<record_queue_, service, request, last_trigger_finish_time,
                       task, disk, bag_info_, now>>
        /\ worker' \in {"idle", "exited"} <=> worker \in {"idle", "exited"}
        /\ worker' \notin {"end", "package"} => worker \notin {"end", "package"}
    BY <1>3 DEF LeaveLoop, Exit, Arm, SwapBuffers, Collect, WaitEnds, Abandon, EndRecord
  <2>2. Past' = Past /\ Current' = Current
    BY <2>1 DEF Past, Current
  <2>3. now' \in Nat /\ now <= now'
    BY <1>1, <2>1
  <2> QED BY <2>1, <2>2, <2>3, NamesKept
<1>4. CASE WriteBag \/ FailToOpen
  <2>1. /\ UNCHANGED <<record_queue_, service, request, last_trigger_finish_time,
                       task, now>>
        /\ worker = "decide" /\ worker' = "end"
        /\ bag_info_' = bag_info_ \/ bag_info_'.path = task.path
    <3>1. CASE WriteBag
      BY <3>1 DEF WriteBag
    <3>2. CASE FailToOpen
      BY <3>2 DEF FailToOpen
    <3> QED BY <1>4, <3>1, <3>2
  <2>2. DOMAIN disk' \subseteq DOMAIN disk \cup {task.path}
    BY <1>4, BagPutOnDisk
  <2>3. Past' \subseteq Past \cup Current /\ Current' \subseteq Current
    BY <2>1, <2>2 DEF Past, Current
  <2>4. now' \in Nat /\ now <= now'
    BY <1>1, <2>1
  <2> QED BY <2>1, <2>3, <2>4, NamesKept
<1>5. CASE Package
  <2>1. /\ UNCHANGED <<record_queue_, service, request, last_trigger_finish_time,
                       bag_info_, now>>
        /\ worker' = "idle"
        /\ DOMAIN disk' = DOMAIN disk
    BY <1>5 DEF Package
  <2>2. Past' = Past /\ Current' = {}
    BY <2>1 DEF Past, Current
  <2>3. now' \in Nat /\ now <= now'
    BY <1>1, <2>1
  <2> QED BY <2>1, <2>2, <2>3, NamesKept
<1> QED BY <1>2, <1>3, <1>4, <1>5, NamesService, NamesPop DEF Next, Worker

\* At the start there are no names, and the first cooldown is over.
LEMMA NamesInit == Init => NamesInv
<1> SUFFICES ASSUME Init PROVE NamesInv
  OBVIOUS
<1>1. Past = {} /\ Current = {} /\ Queued = {}
  BY DEF Init, InitRecorder, Past, Current, Queued
<1>2. /\ last_trigger_finish_time <= now
      /\ service = "idle" /\ record_queue_ = << >>
  BY DurationAssumption DEF Init, InitRecorder
<1> QED BY <1>1, <1>2 DEF NamesInv, PathsInOrder, NamesInTime, Taken

(***************************************************************************)
(* The bags on disk                                                        *)
(***************************************************************************)

BagRecord == [complete : BOOLEAN, total : Nat, manifest : BagInfo \cup {None},
              archived : BOOLEAN]

DiskTyped == \A p \in DOMAIN disk : disk[p] \in BagRecord

\* The statistics of the recorder are those of the bag with the last name of
\* all that were written.
LastOpened ==
  \A p \in DOMAIN disk : disk[p].complete =>
    /\ bag_info_ # None
    /\ p <= bag_info_.path
    /\ p = bag_info_.path => disk[p].total = bag_info_.total

BagsInv == DiskTyped /\ LastOpened /\ ManifestFitsBag

(* A bag is written under a name that none before it exceeds.              *)
LEMMA BagsWrite ==
  ASSUME Typed, NamesInv, BagsInv, WriteBag
  PROVE  BagsInv'
<1> DEFINE w == [snapshot |-> FromSnapshot(trigger_timestamp_),
                 forward |-> FromForwardBuffer(trigger_timestamp_),
                 backward |-> FromBackwardBuffer(trigger_timestamp_)]
           n == Count(w)
<1>1. n \in Nat
  BY LoopsType
<1>2. /\ disk' = PutOnDisk(task.path, Bag(TRUE, n))
      /\ bag_info_' = [path |-> task.path, total |-> n]
      /\ worker = "decide" /\ worker' = "end"
      /\ UNCHANGED <<task, phase>>
  BY DEF WriteBag, recordVars
<1> HIDE DEF w, n
<1>3. task \in Task /\ task.path \in Nat /\ Current = {task.path}
  <2>1. task \in Task
    BY <1>2 DEF Typed, Carried
  <2> QED BY <1>2, <2>1 DEF Task, Path, Current
<1>4. /\ DOMAIN disk' = DOMAIN disk \cup {task.path}
      /\ disk'[task.path] = Bag(TRUE, n)
      /\ \A p \in DOMAIN disk' : p # task.path => p \in DOMAIN disk /\ disk'[p] = disk[p]
  BY <1>2 DEF PutOnDisk
<1>5. /\ Bag(TRUE, n).complete /\ Bag(TRUE, n).total = n
      /\ Bag(TRUE, n).manifest = None /\ Bag(TRUE, n) \in BagRecord
  BY <1>1 DEF Bag, BagRecord
<1>6. bag_info_' # None /\ bag_info_'.path = task.path /\ bag_info_'.total = n
  <2>1. bag_info_' \in BagInfo
    BY <1>1, <1>2, <1>3 DEF BagInfo, Path
  <2> QED BY <1>2, <2>1, NoneAssumption
<1>7. ASSUME NEW p \in DOMAIN disk PROVE p <= task.path
  <2>1. p \in Past /\ p \in Nat
    BY TakenType DEF Past
  <2>2. Before(p, task.path)
    BY <1>2, <1>3, <2>1 DEF NamesInv, PathsInOrder
  <2> QED BY <1>3, <2>1, <2>2 DEF Before
<1>8. DiskTyped'
  <2>1. \A p \in DOMAIN disk' : disk'[p] \in BagRecord
    BY <1>4, <1>5 DEF BagsInv, DiskTyped
  <2> QED BY <2>1 DEF DiskTyped
<1>9. LastOpened'
  <2> SUFFICES ASSUME NEW p \in DOMAIN disk'
               PROVE  /\ p <= task.path
                      /\ p = task.path => disk'[p].total = n
    BY <1>6 DEF LastOpened
  <2>1. CASE p = task.path
    <3>1. disk'[p].total = n
      BY <1>4, <1>5, <2>1
    <3>2. p <= task.path
      BY <1>3, <2>1
    <3> QED BY <3>1, <3>2
  <2>2. CASE p # task.path
    BY <1>4, <1>7, <2>2
  <2> QED BY <2>1, <2>2
<1>10. ManifestFitsBag'
  BY <1>4, <1>5 DEF BagsInv, ManifestFitsBag
<1> QED BY <1>8, <1>9, <1>10 DEF BagsInv

(* A bag that cannot be opened leaves no complete bag under its name.      *)
LEMMA BagsFail ==
  ASSUME BagsInv, FailToOpen
  PROVE  BagsInv'
<1>1. bag_info_' = bag_info_
  BY DEF FailToOpen
<1>2. ASSUME NEW p \in DOMAIN disk', p \in DOMAIN disk, disk'[p] = disk[p]
      PROVE  /\ disk'[p] \in BagRecord
             /\ disk'[p].complete =>
                  /\ bag_info_' # None
                  /\ p <= bag_info_'.path
                  /\ p = bag_info_'.path => disk'[p].total = bag_info_'.total
             /\ disk'[p].complete /\ disk'[p].manifest # None =>
                  disk'[p].manifest = [path |-> p, total |-> disk'[p].total]
  BY <1>1, <1>2 DEF BagsInv, DiskTyped, LastOpened, ManifestFitsBag
<1>3. /\ Bag(FALSE, 0) \in BagRecord /\ ~ Bag(FALSE, 0).complete
  BY DEF Bag, BagRecord
<1>4. ASSUME NEW p \in DOMAIN disk'
      PROVE  \/ p \in DOMAIN disk /\ disk'[p] = disk[p]
             \/ disk'[p] = Bag(FALSE, 0)
  <2>1. CASE disk' = Restrict(disk, DOMAIN disk \ {task.path})
    BY <1>4, <2>1 DEF Restrict
  <2>2. CASE disk' = PutOnDisk(task.path, Bag(FALSE, 0))
    <3>1. DOMAIN disk' = DOMAIN disk \cup {task.path}
      BY <2>2 DEF PutOnDisk
    <3>2. disk'[p] = IF p = task.path THEN Bag(FALSE, 0) ELSE disk[p]
      BY <1>4, <2>2 DEF PutOnDisk
    <3> QED BY <1>4, <3>1, <3>2
  <2> QED BY <2>1, <2>2 DEF FailToOpen
<1>5. ASSUME NEW p \in DOMAIN disk'
      PROVE  /\ disk'[p] \in BagRecord
             /\ disk'[p].complete =>
                  /\ bag_info_' # None
                  /\ p <= bag_info_'.path
                  /\ p = bag_info_'.path => disk'[p].total = bag_info_'.total
             /\ disk'[p].complete /\ disk'[p].manifest # None =>
                  disk'[p].manifest = [path |-> p, total |-> disk'[p].total]
  BY <1>2, <1>3, <1>4
<1> QED BY <1>5 DEF BagsInv, DiskTyped, LastOpened, ManifestFitsBag

(* The manifest: the last bag opened is not older than the task, and if    *)
(* the bag of the task was written it is the one opened last.              *)
LEMMA BagsPackage ==
  ASSUME Typed, NamesInv, BagsInv, Package
  PROVE  BagsInv'
<1>1. /\ bag_info_' = bag_info_ /\ worker = "package"
      /\ disk' = IF task.path \notin DOMAIN disk THEN disk
                 ELSE [disk EXCEPT
                    ![task.path].manifest =
                       IF phase = "draining" THEN @ ELSE bag_info_,
                    ![task.path].archived = TRUE]
  BY DEF Package
<1>2. CASE task.path \notin DOMAIN disk
  BY <1>1, <1>2 DEF BagsInv, DiskTyped, LastOpened, ManifestFitsBag
<1>3. CASE task.path \in DOMAIN disk
  <2> DEFINE q == task.path
             b == disk[q]
             m == IF phase = "draining" THEN b.manifest ELSE bag_info_
  <2>1. b \in BagRecord /\ bag_info_ \in BagInfo \cup {None}
    BY <1>3 DEF BagsInv, DiskTyped, Typed, TypeOK
  <2>2. /\ DOMAIN disk' = DOMAIN disk
        /\ \A p \in DOMAIN disk : p # q => disk'[p] = disk[p]
        /\ disk'[q] = [complete |-> b.complete, total |-> b.total,
                       manifest |-> m, archived |-> TRUE]
    BY <1>1, <1>3, <2>1 DEF BagRecord
  <2>3. /\ disk'[q].complete = b.complete /\ disk'[q].total = b.total
        /\ disk'[q].manifest = m /\ disk'[q] \in BagRecord
    BY <2>1, <2>2 DEF BagRecord
  <2>4. ASSUME b.complete, m # None PROVE m = [path |-> q, total |-> b.total]
    <3>1. CASE phase = "draining"
      BY <1>3, <2>4, <3>1 DEF BagsInv, ManifestFitsBag
    <3>2. CASE phase # "draining"
      <4>1. /\ bag_info_ # None /\ q <= bag_info_.path
            /\ q = bag_info_.path => b.total = bag_info_.total
        BY <1>3, <2>4 DEF BagsInv, LastOpened
      <4>2. bag_info_ \in BagInfo /\ bag_info_.path \in Past /\ q \in Past
        BY <1>3, <2>1, <4>1 DEF Past
      <4>3. q \in Current
        BY <1>1 DEF Current
      <4>4. bag_info_.path <= q
        BY <1>1, <4>2, <4>3 DEF NamesInv, PathsInOrder
      <4>5. bag_info_.path \in Nat /\ q \in Nat
        BY <4>2, TakenType
      <4>6. bag_info_.path = q
        BY <4>1, <4>4, <4>5
      <4>7. bag_info_ = [path |-> bag_info_.path, total |-> bag_info_.total]
        BY <4>2 DEF BagInfo
      <4> QED BY <3>2, <4>1, <4>6, <4>7
    <3> QED BY <3>1, <3>2
  <2> HIDE DEF m, b, q
  <2>5. \A p \in DOMAIN disk' : disk'[p].complete =>
          p \in DOMAIN disk /\ disk[p].complete /\ disk'[p].total = disk[p].total
    BY <2>2, <2>3 DEF b
  <2>6. LastOpened'
    BY <1>1, <2>2, <2>5 DEF BagsInv, LastOpened
  <2>7. DiskTyped'
    BY <2>2, <2>3 DEF BagsInv, DiskTyped
  <2>8. ManifestFitsBag'
    BY <2>2, <2>3, <2>4 DEF BagsInv, ManifestFitsBag
  <2> QED BY <2>6, <2>7, <2>8 DEF BagsInv
<1> QED BY <1>2, <1>3

\* Every step keeps what is known about the bags.
LEMMA BagsStep ==
  ASSUME Typed, NamesInv, BagsInv, [Next]_vars
  PROVE  BagsInv'
<1>1. CASE UNCHANGED <<disk, bag_info_>>
  BY <1>1 DEF BagsInv, DiskTyped, LastOpened, ManifestFitsBag
<1>2. CASE Tick \/ Channel \/ Service \/ BreakOff \/ Stop \/ UNCHANGED vars
  BY <1>1, <1>2
     DEF Tick, Channel, StampMessage, StoreMessage, Service, Admit, NameBag,
         StartCooldown, SnapshotAndQueue, BreakOff, Stop, vars, bagVars
<1>3. CASE PopTask \/ LeaveLoop \/ Exit \/ Arm \/ SwapBuffers \/ Collect
             \/ WaitEnds \/ Abandon \/ EndRecord
  BY <1>1, <1>3
     DEF PopTask, LeaveLoop, Exit, Arm, SwapBuffers, Collect, WaitEnds,
         Abandon, EndRecord, bagVars
<1> QED BY <1>2, <1>3, BagsWrite, BagsFail, BagsPackage DEF Next, Worker

\* Types, names and bags, which the following theorems rest on.
DiskInv == Typed /\ NamesInv /\ BagsInv

\* At the start there is no bag.
LEMMA DiskInvInit == Init => DiskInv
<1> SUFFICES ASSUME Init PROVE DiskInv
  OBVIOUS
<1>1. DOMAIN disk = {}
  BY DEF Init, InitRecorder
<1>2. BagsInv
  BY <1>1 DEF BagsInv, DiskTyped, LastOpened, ManifestFitsBag
<1> QED BY <1>2, TypedInit, NamesInit DEF DiskInv

\* Every step keeps them.
LEMMA DiskInvStep == DiskInv /\ [Next]_vars => DiskInv'
BY TypedStep, NamesStep, BagsStep DEF DiskInv

(* The manifest next to a bag that was written to its end is that of this  *)
(* bag: however short the cooldown, whichever recordings were cancelled or *)
(* failed in between, and in the drain of a shutdown too.                  *)
THEOREM ManifestCorrect == Spec => []ManifestFitsBag
<1>1. DiskInv => ManifestFitsBag
  BY DEF DiskInv, BagsInv
<1> QED BY <1>1, DiskInvInit, DiskInvStep, PTL DEF Spec

(* Each name the worker writes to is new if the cooldown is at least a     *)
(* second.                                                                 *)
LEMMA BagsKeptByStep ==
  ASSUME Cooldown >= Second, DiskInv, [Next]_vars
  PROVE  [\A p \in DOMAIN disk :
            p \in DOMAIN disk' /\ disk'[p].total = disk[p].total]_disk
<1> DEFINE Kept == \A p \in DOMAIN disk :
                     p \in DOMAIN disk' /\ disk'[p].total = disk[p].total
<1> SUFFICES ASSUME disk' # disk PROVE Kept
  OBVIOUS
<1>1. CASE WriteBag \/ FailToOpen
  <2>1. task.path \notin DOMAIN disk
    <3>1. worker = "decide"
      BY <1>1 DEF WriteBag, FailToOpen
    <3>2. task.path \in Current
      BY <3>1 DEF Current
    <3>3. \A p \in DOMAIN disk : Before(p, task.path) /\ p \in Nat
      BY <3>1, <3>2, TakenType DEF Past, DiskInv, NamesInv, PathsInOrder
    <3> QED BY <3>3 DEF Before
  <2> QED BY <1>1, <2>1, BagPutOnDisk
<1>2. CASE Package
  <2>1. task.path \in DOMAIN disk
    BY <1>2 DEF Package
  <2>2. disk[task.path] \in BagRecord
    BY <2>1 DEF DiskInv, BagsInv, DiskTyped
  <2> QED BY <1>2, <2>1, <2>2 DEF Package, BagRecord
<1>3. CASE Tick \/ Channel \/ Service \/ BreakOff \/ Stop \/ UNCHANGED vars
  BY <1>3
     DEF Tick, Channel, StampMessage, StoreMessage, Service, Admit, NameBag,
         StartCooldown, SnapshotAndQueue, BreakOff, Stop, vars, bagVars
<1>4. CASE PopTask \/ LeaveLoop \/ Exit \/ Arm \/ SwapBuffers \/ Collect
             \/ WaitEnds \/ Abandon \/ EndRecord
  BY <1>4
     DEF PopTask, LeaveLoop, Exit, Arm, SwapBuffers, Collect, WaitEnds,
         Abandon, EndRecord, bagVars
<1> QED BY <1>1, <1>2, <1>3, <1>4 DEF Next, Worker

(* With a cooldown of at least a second no bag is deleted or overwritten   *)
(* by a later one: the names the steps of the worker write to are new.     *)
THEOREM BagsKept ==
  ASSUME Cooldown >= Second
  PROVE  Spec => BagsAreKept
<1>1. ASSUME DiskInv, [Next]_vars
      PROVE  [\A p \in DOMAIN disk :
                p \in DOMAIN disk' /\ disk'[p].total = disk[p].total]_disk
  BY <1>1, BagsKeptByStep
<1> QED BY <1>1, DiskInvInit, DiskInvStep, PTL DEF Spec, BagsAreKept

(***************************************************************************)
(* The order of the messages                                               *)
(***************************************************************************)

\* A message stamped so far.
Stamped(m) == m.ts <= now /\ m.nr <= PerTick /\ (m.ts = now => m.nr <= nr)

\* Both buffers hold stamped messages in the order of their stamps, and the
\* message the channel callback is about to store comes after them.
ChannelInv ==
  /\ nr <= PerTick
  /\ InOrder(forward_buffer) /\ InOrder(backward_buffer)
  /\ \A m \in Range(forward_buffer) \cup Range(backward_buffer) :
       Stamped(m) /\ (channel # None => Earlier(m, channel))
  /\ channel # None => Stamped(channel)

\* What is in a buffer of messages is a message.
LEMMA MessageType ==
  /\ \A m \in Message : m.ts \in Nat /\ m.nr \in Nat
  /\ \A buf \in Seq(Message) : Range(buf) \subseteq Message
<1>1. \A m \in Message : m.ts \in Nat /\ m.nr \in Nat
  BY DEF Message
<1>2. ASSUME NEW buf \in Seq(Message) PROVE Range(buf) \subseteq Message
  <2>1. DOMAIN buf = 1 .. Len(buf) /\ \A i \in 1 .. Len(buf) : buf[i] \in Message
    OBVIOUS
  <2> QED BY <2>1 DEF Range
<1> QED BY <1>1, <1>2

\* Every step keeps the messages in order.
LEMMA ChannelStep ==
  ASSUME Typed, ChannelInv, [Next]_vars
  PROVE  ChannelInv'
<1> USE DEF clockVars, bufferVars, serviceVars, bagVars, recordVars, cancelVars
<1> DEFINE stored == Range(forward_buffer) \cup Range(backward_buffer)
<1>1. /\ now \in Nat /\ nr \in Nat /\ PerTick \in Nat
      /\ forward_buffer \in Seq(Message) /\ backward_buffer \in Seq(Message)
      /\ channel # None => channel \in Message
  BY BoundAssumption DEF Typed, TypeOK
<1>2. \A m \in stored : m \in Message /\ m.ts \in Nat /\ m.nr \in Nat
  BY <1>1, MessageType
<1>3. CASE UNCHANGED <<now, nr, channel, forward_buffer, backward_buffer>>
  BY <1>3 DEF ChannelInv, InOrder, Stamped, Earlier, Range
<1>4. CASE Tick
  <2>1. /\ now' = now + 1 /\ nr' = 0
        /\ UNCHANGED <<channel, forward_buffer, backward_buffer>>
    BY <1>4 DEF Tick
  <2>2. ASSUME NEW m \in stored PROVE Stamped(m)'
    <3>1. m.ts <= now /\ m.nr <= PerTick
      BY DEF ChannelInv, Stamped
    <3> QED BY <1>1, <1>2, <2>1, <3>1 DEF Stamped
  <2>3. ASSUME channel # None PROVE Stamped(channel)'
    <3>1. channel.ts <= now /\ channel.nr <= PerTick /\ channel.ts \in Nat
      BY <1>1, <2>3, MessageType DEF ChannelInv, Stamped
    <3> QED BY <1>1, <2>1, <3>1 DEF Stamped
  <2>4. nr' <= PerTick
    BY <1>1, <2>1
  <2> QED BY <2>1, <2>2, <2>3, <2>4 DEF ChannelInv, Stamped, InOrder, Earlier, Range
<1>5. CASE StampMessage
  <2>1. /\ nr' = nr + 1 /\ nr < PerTick
        /\ channel = None /\ channel' = [ts |-> now, nr |-> nr + 1]
        /\ UNCHANGED <<now, forward_buffer, backward_buffer>>
    BY <1>5 DEF StampMessage
  <2>2. ASSUME NEW m \in stored PROVE Stamped(m)' /\ Earlier(m, channel')
    <3>1. m.ts <= now /\ m.nr <= PerTick /\ (m.ts = now => m.nr <= nr)
      BY DEF ChannelInv, Stamped
    <3> QED BY <1>1, <1>2, <2>1, <3>1 DEF Stamped, Earlier
  <2>3. Stamped(channel)'
    BY <1>1, <2>1 DEF Stamped
  <2>4. nr' <= PerTick
    BY <1>1, <2>1
  <2> QED BY <2>1, <2>2, <2>3, <2>4 DEF ChannelInv, Stamped, InOrder, Earlier, Range
<1>6. CASE StoreMessage
  <2> DEFINE rest == DropOlder(forward_buffer, channel.ts, ForwardDur)
  <2>1. /\ channel # None /\ channel' = None /\ UNCHANGED <<now, nr>>
        /\ forward_buffer' = PushBack(rest, ForwardCap, channel)
        /\ \/ backward_buffer' = PushBack(backward_buffer, BackwardCap, channel)
           \/ backward_buffer' = backward_buffer
    BY <1>6 DEF StoreMessage
  <2>2. channel \in Message /\ Stamped(channel)
        /\ \A m \in stored : Stamped(m) /\ Earlier(m, channel)
    BY <1>1, <2>1 DEF ChannelInv
  <2>3. rest \in Seq(Message) /\ Range(rest) \subseteq stored /\ InOrder(rest)
    BY <1>1, DropOlderPart DEF ChannelInv
  <2> HIDE DEF rest
  <2>4. /\ InOrder(forward_buffer')
        /\ Range(forward_buffer') \subseteq stored \cup {channel}
    <3>1. \A m \in Range(rest) : Earlier(m, channel)
      BY <2>2, <2>3
    <3> QED BY <2>1, <2>2, <2>3, <3>1, PushBackPart, DurationAssumption
  <2>5. /\ InOrder(backward_buffer')
        /\ Range(backward_buffer') \subseteq stored \cup {channel}
    <3>1. CASE backward_buffer' = backward_buffer
      BY <3>1 DEF ChannelInv
    <3>2. CASE backward_buffer' = PushBack(backward_buffer, BackwardCap, channel)
      <4>1. \A m \in Range(backward_buffer) : Earlier(m, channel)
        BY <2>2
      <4>2. InOrder(backward_buffer)
        BY DEF ChannelInv
      <4> QED BY <1>1, <2>2, <3>2, <4>1, <4>2, PushBackPart, DurationAssumption
    <3> QED BY <2>1, <3>1, <3>2
  <2>6. \A m \in stored \cup {channel} : Stamped(m)
    BY <2>2
  <2>7. \A m \in Range(forward_buffer') \cup Range(backward_buffer') : Stamped(m)
    BY <2>4, <2>5, <2>6
  <2>8. InOrder(forward_buffer)' /\ InOrder(backward_buffer)'
    BY <2>4, <2>5 DEF InOrder, Earlier
  <2>9. nr' <= PerTick
    BY <2>1 DEF ChannelInv
  <2> QED BY <2>1, <2>7, <2>8, <2>9 DEF ChannelInv, Stamped, Earlier, Range
<1>7. CASE SwapBuffers
  <2>1. /\ UNCHANGED <<now, nr, channel, forward_buffer>>
        /\ backward_buffer' = << >>
    BY <1>7 DEF SwapBuffers
  <2>2. InOrder(backward_buffer') /\ Range(backward_buffer') = {}
    BY <2>1 DEF InOrder, Range
  <2> QED BY <2>1, <2>2 DEF ChannelInv, InOrder, Stamped, Earlier, Range
<1>8. CASE Service \/ BreakOff \/ Stop \/ UNCHANGED vars
  BY <1>3, <1>8
     DEF Service, Admit, NameBag, StartCooldown, SnapshotAndQueue, BreakOff,
         Stop, vars
<1>9. CASE PopTask \/ LeaveLoop \/ Exit \/ Arm \/ Collect \/ WaitEnds
  BY <1>3, <1>9 DEF PopTask, LeaveLoop, Exit, Arm, Collect, WaitEnds
<1>10. CASE Abandon \/ WriteBag \/ FailToOpen \/ EndRecord \/ Package
  BY <1>3, <1>10 DEF Abandon, WriteBag, FailToOpen, EndRecord, Package
<1> QED
  BY <1>4, <1>5, <1>6, <1>7, <1>8, <1>9, <1>10 DEF Next, Channel, Worker

\* At the start no message was stamped.
LEMMA ChannelInit == Init => ChannelInv
<1> SUFFICES ASSUME Init PROVE ChannelInv
  OBVIOUS
<1>1. /\ forward_buffer = << >> /\ backward_buffer = << >> /\ channel = None
      /\ nr = 0
  BY DEF Init, InitRecorder
<1>2. InOrder(<< >>) /\ Range(<< >>) = {}
  BY DEF InOrder, Range
<1> QED BY <1>1, <1>2, BoundAssumption DEF ChannelInv

\* An index of a sequence with one element more is an old one or the last.
LEMMA LastOrBefore ==
  ASSUME NEW n \in Nat
  PROVE  \A k \in 1 .. n + 1 : k \in 1 .. n \/ k = n + 1
OBVIOUS

(* A buffer that has room for all messages of D ticks gives up no message  *)
(* of the last D ticks when the next one is stored.                        *)
LEMMA NoneOfWindowLost ==
  ASSUME NEW buf \in Seq(Message), NEW x \in Message, NEW capacity \in Nat \ {0},
         NEW a \in Int, NEW D \in Nat,
         capacity >= D * PerTick,
         InOrder(buf),
         \A m \in Range(buf) : Earlier(m, x) /\ m.ts <= a + D /\ m.nr <= PerTick,
         x.ts <= a + D, x.nr <= PerTick,
         NEW m \in Range(buf), a < m.ts
  PROVE  m \in Range(PushBack(buf, capacity, x))
<1>1. /\ DOMAIN buf = 1 .. Len(buf) /\ Len(buf) \in Nat
      /\ \A i \in 1 .. Len(buf) : buf[i] \in Range(buf)
  <2>1. DOMAIN buf = 1 .. Len(buf) /\ Len(buf) \in Nat
    OBVIOUS
  <2> QED BY <2>1 DEF Range
<1>2. PICK i \in 1 .. Len(buf) : m = buf[i]
  BY <1>1 DEF Range
<1>3. CASE i = 1 /\ Len(buf) >= capacity
  <2> DEFINE all == Append(buf, x)
  <2>1. /\ all \in Seq(Message) /\ Len(all) = Len(buf) + 1
        /\ \A k \in 1 .. Len(buf) : all[k] = buf[k]
        /\ all[Len(buf) + 1] = x
    OBVIOUS
  <2> HIDE DEF all
  <2>0. Len(buf) \in Nat
    BY <1>1
  <2>2. /\ \A k \in 1 .. Len(buf) : buf[k].ts \in Nat /\ buf[k].nr \in Nat
        /\ x.ts \in Nat
    BY <1>1, MessageType
  <2>3. ASSUME NEW k \in 1 .. Len(buf) PROVE a < buf[k].ts
    <3>1. k = 1 \/ Earlier(buf[1], buf[k])
      <4>1. k = 1 \/ (1 < k /\ 1 \in 1 .. Len(buf))
        BY <1>1
      <4> QED BY <4>1 DEF InOrder
    <3>2. buf[1].ts \in Nat /\ a < buf[1].ts
      BY <1>2, <1>3, <2>2
    <3> QED BY <2>2, <3>1, <3>2 DEF Earlier
  <2>4. a < x.ts
    <3>1. Earlier(m, x) /\ m.ts \in Nat
      BY MessageType
    <3> QED BY <2>2, <3>1 DEF Earlier
  <2>5. \A k \in 1 .. Len(all) : a < all[k].ts /\ all[k].ts <= a + D /\ all[k].nr <= PerTick
    <3>1. ASSUME NEW k \in 1 .. Len(buf)
          PROVE  a < all[k].ts /\ all[k].ts <= a + D /\ all[k].nr <= PerTick
      BY <1>1, <2>1, <2>3
    <3>2. \A k \in 1 .. Len(all) : k \in 1 .. Len(buf) \/ k = Len(buf) + 1
      BY <2>0, <2>1, LastOrBefore
    <3> QED BY <2>1, <2>4, <3>1, <3>2
  <2>6. InOrder(all)
    <3> SUFFICES ASSUME NEW j \in 1 .. Len(buf) + 1, NEW k \in 1 .. Len(buf) + 1, j < k
                 PROVE  Earlier(all[j], all[k])
      BY <2>1 DEF InOrder
    <3>1. CASE k \in 1 .. Len(buf)
      <4>1. j \in 1 .. Len(buf)
        BY <1>1, <3>1
      <4> QED BY <2>1, <3>1, <4>1 DEF InOrder
    <3>2. CASE k = Len(buf) + 1
      <4>1. j \in 1 .. Len(buf)
        BY <1>1, <3>2
      <4> QED BY <1>1, <2>1, <3>2, <4>1
    <3>3. k \in 1 .. Len(buf) \/ k = Len(buf) + 1
      BY <2>0, LastOrBefore
    <3> QED BY <3>1, <3>2, <3>3
  <2>7. Len(all) <= D * PerTick
    BY <2>1, <2>5, <2>6, FewInWindow, BoundAssumption
  <2>8. D * PerTick \in Nat
    BY BoundAssumption
  <2> QED BY <1>1, <1>3, <2>1, <2>7, <2>8
<1>4. CASE ~ (i = 1 /\ Len(buf) >= capacity)
  BY <1>2, <1>4, PushBackPart
<1> QED BY <1>3, <1>4

(***************************************************************************)
(* What a trigger can count on                                             *)
(***************************************************************************)

\* What is owed to a task is in its snapshot and passes the first loop of
\* write_ringbuffer.
TaskKeeps(t) ==
  \A m \in t.owed :
    m \in t.saved /\ m.ts <= t.trigger /\ m.ts >= t.trigger - ForwardDur

\* What was heard lately is in the forward buffer, and what is owed goes with
\* the task: from the snapshot over the queue and the worker into the bag.
OwedInv ==
  /\ \A m \in heard : now - m.ts < ForwardDur => m \in Range(forward_buffer)
  /\ service # "idle" => request.trigger <= now
  /\ \A i \in 1 .. Len(record_queue_) : TaskKeeps(record_queue_[i])
  /\ worker \notin {"idle", "exited"} => TaskKeeps(task)
  /\ worker \in {"swapped", "waiting", "decide"} => triggered_forward = task.saved
  /\ written # None => worker = "end"
  /\ PreTriggerKept

\* What arrived in time while the worker waited is in the backward buffer
\* until the bag is written, and then in the bag.
CollectedInv ==
  /\ worker \in {"waiting", "decide"} =>
       \A m \in collected :
         m \in Range(backward_buffer) /\ IsPostTrigger(m, task.trigger)
  /\ worker \notin {"waiting", "decide", "end"} => collected = {}
  /\ written # None => worker = "end"
  /\ CollectedKept

\* Types, the window of the backward buffer, and the order of the messages.
BufferInv == Typed /\ BackwardOfTask /\ ChannelInv

\* Init establishes and every step keeps them.
LEMMA BufferInvStep ==
  /\ Init => BufferInv
  /\ BufferInv /\ [Next]_vars => BufferInv'
<1>1. Init => BufferInv
  BY IInvInit, ChannelInit DEF IInv, BufferInv
<1>2. BufferInv /\ [Next]_vars => BufferInv'
  BY TypedStep, BackwardStep, ChannelStep DEF BufferInv
<1> QED BY <1>1, <1>2

(* A message that is stored does not push a recent one out of the forward  *)
(* buffer, if the capacity fits the duration.                              *)
LEMMA HeardStaysOnStore ==
  ASSUME BufferInv, ForwardCap >= ForwardDur * PerTick, StoreMessage,
         \A m \in heard : now - m.ts < ForwardDur => m \in Range(forward_buffer)
  PROVE  \A m \in heard' : now - m.ts < ForwardDur => m \in Range(forward_buffer')
<1> DEFINE rest == DropOlder(forward_buffer, channel.ts, ForwardDur)
<1>1. /\ channel # None
      /\ forward_buffer' = PushBack(rest, ForwardCap, channel)
      /\ heard' = Recent(heard \cup {channel}, now)
  BY DEF StoreMessage
<1>2. /\ channel \in Message /\ channel.ts \in Nat /\ Stamped(channel)
      /\ now \in Nat /\ forward_buffer \in Seq(Message)
      /\ heard \subseteq Message
      /\ ForwardDur \in Nat /\ ForwardCap \in Nat \ {0}
  <2>1. channel \in Message
    BY <1>1 DEF BufferInv, Typed, TypeOK
  <2> QED BY <1>1, <2>1, MessageType, DurationAssumption
          DEF BufferInv, Typed, TypeOK, ChannelInv
<1>3. /\ rest \in Seq(Message)
      /\ Range(rest) \subseteq Range(forward_buffer)
      /\ InOrder(rest)
      /\ \A m \in Range(forward_buffer) :
           m.ts <= channel.ts /\ channel.ts - m.ts <= ForwardDur => m \in Range(rest)
  <2>1. InOrder(forward_buffer)
    BY DEF BufferInv, ChannelInv
  <2> QED BY <1>2, <2>1, DropOlderPart
<1>4. \A m \in Range(rest) :
        Earlier(m, channel) /\ m.ts <= now /\ m.nr <= PerTick
  BY <1>1, <1>3 DEF BufferInv, ChannelInv, Stamped
<1> HIDE DEF rest
<1>5. SUFFICES ASSUME NEW m \in heard', now - m.ts < ForwardDur
               PROVE  m \in Range(forward_buffer')
  OBVIOUS
<1>6. CASE m = channel
  BY <1>1, <1>2, <1>3, <1>6, PushBackPart
<1>7. CASE m \in heard
  <2>1. m \in Range(forward_buffer) /\ m.ts \in Nat
    BY <1>2, <1>5, <1>7, MessageType
  <2>2. m.ts <= channel.ts /\ channel.ts - m.ts <= ForwardDur
    <3>1. Earlier(m, channel)
      BY <1>1, <2>1 DEF BufferInv, ChannelInv
    <3> QED BY <1>2, <1>5, <2>1, <3>1 DEF Stamped, Earlier
  <2>3. m \in Range(rest)
    BY <1>3, <2>1, <2>2
  <2> DEFINE a == now - ForwardDur
  <2>4. a \in Int /\ a < m.ts /\ now = a + ForwardDur
    BY <1>2, <1>5, <2>1
  <2> HIDE DEF a
  <2>5. \A x \in Range(rest) :
          Earlier(x, channel) /\ x.ts <= a + ForwardDur /\ x.nr <= PerTick
    BY <1>4, <2>4
  <2>6. channel.ts <= a + ForwardDur /\ channel.nr <= PerTick
    BY <1>2, <2>4 DEF Stamped
  <2>7. m \in Range(PushBack(rest, ForwardCap, channel))
    BY <1>2, <1>3, <2>3, <2>4, <2>5, <2>6, NoneOfWindowLost
  <2> QED BY <1>1, <2>7
<1> QED BY <1>1, <1>6, <1>7 DEF Recent

(* The snapshot is taken when the cooldown has just been started: it holds *)
(* what the forward buffer has from the last ForwardDur ticks.             *)
LEMMA OwedOnSnapshot ==
  ASSUME BufferInv, OwedInv, SnapshotAndQueue
  PROVE  \A i \in 1 .. Len(record_queue_') : TaskKeeps(record_queue_'[i])
<1> DEFINE T == request.trigger
           new == [trigger |-> T, path |-> request.path,
                   saved |-> Within(forward_buffer, T - ForwardDur, T),
                   owed  |-> {m \in Recent(heard, now) : m.ts <= T}]
<1>1. /\ service = "snapshot"
      /\ record_queue_' = Append(record_queue_, new)
  BY DEF SnapshotAndQueue
<1>2. /\ T \in Nat /\ T <= now /\ now \in Nat /\ ForwardDur \in Nat
      /\ record_queue_ \in Seq(Task) /\ heard \subseteq Message
  BY <1>1, DurationAssumption DEF BufferInv, Typed, TypeOK, Carried, OwedInv
<1>3. TaskKeeps(new)
  <2> SUFFICES ASSUME NEW m \in new.owed
               PROVE  m \in new.saved /\ m.ts <= new.trigger
                        /\ m.ts >= new.trigger - ForwardDur
    BY DEF TaskKeeps
  <2>1. m \in heard /\ now - m.ts < ForwardDur /\ m.ts <= T
    BY DEF Recent
  <2>2. m.ts \in Nat /\ m \in Range(forward_buffer)
    BY <1>2, <2>1, MessageType DEF OwedInv
  <2>3. m.ts >= T - ForwardDur
    BY <1>2, <2>1, <2>2
  <2>4. m \in Within(forward_buffer, T - ForwardDur, T)
    BY <2>1, <2>2, <2>3 DEF Within
  <2> QED BY <2>1, <2>3, <2>4
<1> HIDE DEF new
<1>4. /\ Len(record_queue_) \in Nat
      /\ Len(record_queue_') = Len(record_queue_) + 1
      /\ \A i \in 1 .. Len(record_queue_) : record_queue_'[i] = record_queue_[i]
      /\ record_queue_'[Len(record_queue_) + 1] = new
  BY <1>1, <1>2
<1>5. ASSUME NEW i \in 1 .. Len(record_queue_') PROVE TaskKeeps(record_queue_'[i])
  <2>1. i \in 1 .. Len(record_queue_) \/ i = Len(record_queue_) + 1
    BY <1>4
  <2> QED BY <1>3, <1>4, <2>1 DEF OwedInv
<1> QED BY <1>5

(* What is owed to a trigger stays on its way to the bag.                  *)
LEMMA OwedStep ==
  ASSUME ForwardCap >= ForwardDur * PerTick,
         BufferInv, OwedInv, [Next]_vars
  PROVE  OwedInv'
<1> USE DEF clockVars, bufferVars, serviceVars, bagVars, recordVars, cancelVars
<1>1. /\ now \in Nat /\ heard \subseteq Message /\ ForwardDur \in Nat
      /\ record_queue_ \in Seq(Task)
  BY DurationAssumption DEF BufferInv, Typed, TypeOK
<1>2. \A t : TaskKeeps(t)' <=> TaskKeeps(t)
  BY DEF TaskKeeps
<1>3. CASE Tick
  <2>1. /\ now' = now + 1 /\ heard' = Recent(heard, now + 1)
        /\ UNCHANGED <<forward_buffer, service, request, record_queue_, worker,
                       task, triggered_forward, written>>
    BY <1>3 DEF Tick
  <2>2. ASSUME NEW m \in heard', now' - m.ts < ForwardDur
        PROVE  m \in Range(forward_buffer')
    <3>1. m \in heard /\ m.ts \in Nat
      BY <1>1, <2>1, MessageType DEF Recent
    <3>2. now - m.ts < ForwardDur
      BY <1>1, <2>1, <2>2, <3>1
    <3> QED BY <2>1, <3>1, <3>2 DEF OwedInv, Range
  <2>3. service # "idle" => request.trigger <= now'
    <3>1. service # "idle" => request.trigger \in Nat
      BY DEF BufferInv, Typed, Carried
    <3> QED BY <1>1, <2>1, <3>1 DEF OwedInv
  <2> QED BY <2>1, <2>2, <2>3 DEF OwedInv, PreTriggerKept, TaskKeeps
<1>4. CASE StoreMessage
  <2>1. UNCHANGED <<now, service, request, record_queue_, worker, task,
                    triggered_forward, written>>
    BY <1>4 DEF StoreMessage
  <2>2. \A m \in heard' : now' - m.ts < ForwardDur => m \in Range(forward_buffer')
    BY <1>4, <2>1, HeardStaysOnStore DEF OwedInv
  <2> QED BY <2>1, <2>2 DEF OwedInv, PreTriggerKept, TaskKeeps, Range
<1>5. ASSUME NEW ts \in 0 .. now, Admit(ts) PROVE OwedInv'
  <2>1. /\ UNCHANGED <<now, heard, forward_buffer, record_queue_, worker, task,
                       triggered_forward, written>>
        /\ request'.trigger = ts /\ ts <= now
    BY <1>1, <1>5 DEF Admit
  <2> QED BY <2>1 DEF OwedInv, PreTriggerKept, TaskKeeps, Range
<1>6. CASE NameBag
  <2>1. /\ UNCHANGED <<now, heard, forward_buffer, record_queue_, worker, task,
                       triggered_forward, written>>
        /\ service = "name" /\ service' = "stamp"
        /\ request' = [request EXCEPT !.path = now \div Second]
    BY <1>6 DEF NameBag
  <2>2. request \in [trigger : Nat, path : Path \cup {None}]
    BY <2>1 DEF BufferInv, Typed, Carried
  <2>3. request'.trigger = request.trigger
    BY <2>1, <2>2
  <2> QED BY <2>1, <2>3 DEF OwedInv, PreTriggerKept, TaskKeeps, Range
<1>7. CASE StartCooldown
  <2>1. /\ UNCHANGED <<now, heard, forward_buffer, record_queue_, worker, task,
                       triggered_forward, written, request>>
        /\ service = "stamp"
    BY <1>7 DEF StartCooldown
  <2> QED BY <2>1 DEF OwedInv, PreTriggerKept, TaskKeeps, Range
<1>8. CASE SnapshotAndQueue
  <2>1. /\ UNCHANGED <<now, heard, forward_buffer, worker, task,
                       triggered_forward, written>>
        /\ service' = "idle"
    BY <1>8 DEF SnapshotAndQueue
  <2>2. \A i \in 1 .. Len(record_queue_') : TaskKeeps(record_queue_'[i])
    BY <1>8, OwedOnSnapshot
  <2> QED BY <2>1, <2>2 DEF OwedInv, PreTriggerKept, TaskKeeps, Range
<1>9. CASE PopTask
  <2>1. /\ worker = "idle" /\ worker' = "check" /\ record_queue_ # << >>
        /\ task' = Head(record_queue_) /\ record_queue_' = Tail(record_queue_)
        /\ UNCHANGED <<now, heard, forward_buffer, service, request,
                       triggered_forward, written>>
    BY <1>9 DEF PopTask
  <2>2. written = None
    BY <2>1 DEF OwedInv
  <2>3. /\ Len(record_queue_) \in Nat \ {0}
        /\ Len(record_queue_') = Len(record_queue_) - 1
        /\ \A i \in 1 .. Len(record_queue_') : record_queue_'[i] = record_queue_[i + 1]
        /\ task' = record_queue_[1]
    BY <1>1, <2>1
  <2>4. TaskKeeps(task') /\ \A i \in 1 .. Len(record_queue_') : TaskKeeps(record_queue_'[i])
    <3>1. 1 \in 1 .. Len(record_queue_)
          /\ \A i \in 1 .. Len(record_queue_') : i + 1 \in 1 .. Len(record_queue_)
      BY <2>3
    <3> QED BY <2>3, <3>1 DEF OwedInv
  <2> QED BY <2>1, <2>2, <2>4 DEF OwedInv, PreTriggerKept, TaskKeeps, Range
<1>10. CASE LeaveLoop \/ Exit \/ Arm \/ WaitEnds \/ Abandon \/ Collect
  <2>1. /\ UNCHANGED <<now, heard, forward_buffer, service, request,
                       record_queue_, task, triggered_forward, written>>
        /\ worker # "end"
        /\ worker' \notin {"idle", "exited"} => worker \notin {"idle", "exited"}
        /\ worker' \in {"swapped", "waiting", "decide"} =>
             worker \in {"swapped", "waiting", "decide"}
    BY <1>10 DEF LeaveLoop, Exit, Arm, WaitEnds, Abandon, Collect
  <2>2. written = None
    BY <2>1 DEF OwedInv
  <2> QED BY <2>1, <2>2 DEF OwedInv, PreTriggerKept, TaskKeeps, Range
<1>11. CASE SwapBuffers
  <2>1. /\ UNCHANGED <<now, heard, forward_buffer, service, request,
                       record_queue_, task, written>>
        /\ worker = "armed" /\ triggered_forward' = task.saved
    BY <1>11 DEF SwapBuffers
  <2>2. written = None
    BY <2>1 DEF OwedInv
  <2> QED BY <2>1, <2>2 DEF OwedInv, PreTriggerKept, TaskKeeps, Range
<1>12. CASE WriteBag
  <2>1. /\ UNCHANGED <<now, heard, forward_buffer, service, request,
                       record_queue_, task>>
        /\ worker = "decide" /\ worker' = "end"
        /\ written'.snapshot = FromSnapshot(trigger_timestamp_)
    BY <1>12 DEF WriteBag
  <2>2. trigger_timestamp_ = task.trigger /\ triggered_forward = task.saved
    BY <2>1 DEF BufferInv, BackwardOfTask, OwedInv
  <2>3. TaskKeeps(task)
    BY <2>1 DEF OwedInv
  <2>4. task.owed \subseteq written'.snapshot
    BY <2>1, <2>2, <2>3 DEF TaskKeeps, FromSnapshot
  <2> QED BY <2>1, <2>3, <2>4 DEF OwedInv, PreTriggerKept, TaskKeeps, Range
<1>13. CASE FailToOpen
  <2>1. /\ UNCHANGED <<now, heard, forward_buffer, service, request,
                       record_queue_, task, written>>
        /\ worker = "decide" /\ worker' = "end"
    BY <1>13 DEF FailToOpen
  <2>2. written = None
    BY <2>1 DEF OwedInv
  <2> QED BY <2>1, <2>2 DEF OwedInv, PreTriggerKept, TaskKeeps, Range
<1>14. CASE EndRecord
  <2>1. /\ UNCHANGED <<now, heard, forward_buffer, service, request,
                       record_queue_, task>>
        /\ worker = "end" /\ worker' = "package" /\ written' = None
    BY <1>14 DEF EndRecord
  <2> QED BY <2>1 DEF OwedInv, PreTriggerKept, TaskKeeps, Range
<1>15. CASE Package
  <2>1. /\ UNCHANGED <<now, heard, forward_buffer, service, request,
                       record_queue_, written>>
        /\ worker = "package" /\ worker' = "idle"
    BY <1>15 DEF Package
  <2>2. written = None
    BY <2>1 DEF OwedInv
  <2> QED BY <2>1, <2>2 DEF OwedInv, PreTriggerKept, TaskKeeps, Range
<1>16. CASE StampMessage \/ BreakOff \/ Stop \/ UNCHANGED vars
  <2>1. UNCHANGED <<now, heard, forward_buffer, service, request,
                    record_queue_, worker, task, triggered_forward, written>>
    BY <1>16 DEF StampMessage, BreakOff, Stop, vars
  <2> QED BY <2>1 DEF OwedInv, PreTriggerKept, TaskKeeps, Range
<1> QED
  BY <1>3, <1>4, <1>5, <1>6, <1>7, <1>8, <1>9, <1>10, <1>11, <1>12, <1>13,
     <1>14, <1>15, <1>16 DEF Next, Channel, Service, Worker

\* At the start nothing is owed.
LEMMA OwedInit == Init => OwedInv
<1> SUFFICES ASSUME Init PROVE OwedInv
  OBVIOUS
<1>1. /\ heard = {} /\ service = "idle" /\ record_queue_ = << >>
      /\ worker = "idle" /\ written = None
  BY DEF Init, InitRecorder
<1> QED BY <1>1 DEF OwedInv, PreTriggerKept

(* If the forward buffer has room for the messages of the forward duration *)
(* (its capacity is the duration times the frame rate), what was in reach  *)
(* of a trigger when the service admitted it is in its bag, whatever came  *)
(* in while the task was queued.                                           *)
THEOREM PreTriggerCorrect ==
  ASSUME ForwardCap >= ForwardDur * PerTick
  PROVE  Spec => []PreTriggerKept
<1>1. Init => OwedInv
  BY OwedInit
<1>2. BufferInv /\ OwedInv /\ [Next]_vars => OwedInv'
  BY OwedStep
<1>3. OwedInv => PreTriggerKept
  BY DEF OwedInv
<1> QED BY <1>1, <1>2, <1>3, BufferInvStep, PTL DEF Spec

(* A message that is stored does not push backward data out that the bag   *)
(* still waits for.                                                        *)
LEMMA CollectedStaysOnStore ==
  ASSUME BufferInv, BackwardCap >= BackwardDur * PerTick, StoreMessage,
         worker \in {"waiting", "decide"},
         NEW m \in Range(backward_buffer), IsPostTrigger(m, task.trigger)
  PROVE  m \in Range(backward_buffer')
<1> DEFINE T == task.trigger
<1>1. /\ channel # None
      /\ backward_buffer' = IF IsBackwardData(channel)
                            THEN PushBack(backward_buffer, BackwardCap, channel)
                            ELSE backward_buffer
  BY DEF StoreMessage
<1>2. CASE ~ IsBackwardData(channel)
  BY <1>1, <1>2
<1>3. CASE IsBackwardData(channel)
  <2>1. /\ channel \in Message /\ channel.ts \in Nat /\ Stamped(channel)
        /\ backward_buffer \in Seq(Message)
        /\ T \in Nat /\ T = trigger_timestamp_
        /\ BackwardDur \in Nat /\ BackwardCap \in Nat \ {0}
    <3>1. channel \in Message
      BY <1>1 DEF BufferInv, Typed, TypeOK
    <3>2. T = trigger_timestamp_
      BY DEF BufferInv, BackwardOfTask
    <3> QED BY <1>1, <3>1, <3>2, MessageType, DurationAssumption
            DEF BufferInv, Typed, TypeOK, ChannelInv
  <2>2. channel.ts <= T + BackwardDur /\ channel.nr <= PerTick
    BY <1>3, <2>1 DEF IsBackwardData, Stamped
  <2>3. \A x \in Range(backward_buffer) :
          Earlier(x, channel) /\ x.ts <= T + BackwardDur /\ x.nr <= PerTick
    BY <1>1, <2>1 DEF BufferInv, BackwardOfTask, ChannelInv, Stamped
  <2>4. InOrder(backward_buffer) /\ T < m.ts /\ T \in Int
    BY <2>1 DEF BufferInv, ChannelInv, IsPostTrigger
  <2> HIDE DEF T
  <2>5. m \in Range(PushBack(backward_buffer, BackwardCap, channel))
    BY <2>1, <2>2, <2>3, <2>4, NoneOfWindowLost
  <2> QED BY <1>1, <1>3, <2>5
<1> QED BY <1>2, <1>3

(* What was collected stays in the buffer until it is in the bag.          *)
LEMMA CollectedStep ==
  ASSUME BackwardCap >= BackwardDur * PerTick,
         BufferInv, CollectingIffRecording, CollectedInv, [Next]_vars
  PROVE  CollectedInv'
<1> USE DEF clockVars, bufferVars, serviceVars, bagVars, recordVars, cancelVars
<1>1. CASE StoreMessage
  <2>1. /\ UNCHANGED <<worker, task, written>>
        /\ channel \in Message
        /\ collected' = IF worker = "waiting" /\ IsPostTrigger(channel, task.trigger)
                        THEN collected \cup {channel} ELSE collected
        /\ backward_buffer' = IF IsBackwardData(channel)
                              THEN PushBack(backward_buffer, BackwardCap, channel)
                              ELSE backward_buffer
    BY <1>1 DEF StoreMessage, BufferInv, Typed, TypeOK
  <2>2. ASSUME worker = "waiting", IsPostTrigger(channel, task.trigger)
        PROVE  channel \in Range(backward_buffer')
    <3>1. current_state_ = "DATA_COLLECTING" /\ task.trigger = trigger_timestamp_
      BY <2>2 DEF CollectingIffRecording, BufferInv, BackwardOfTask
    <3>2. trigger_timestamp_ \in Nat /\ channel.ts \in Nat /\ BackwardDur \in Nat
          /\ backward_buffer \in Seq(Message) /\ BackwardCap \in Nat \ {0}
      BY <2>1, MessageType, DurationAssumption DEF BufferInv, Typed, TypeOK
    <3>3. IsBackwardData(channel)
      BY <2>2, <3>1, <3>2 DEF IsBackwardData, IsPostTrigger
    <3> QED BY <2>1, <3>2, <3>3, PushBackPart
  <2>3. ASSUME worker \in {"waiting", "decide"}, NEW m \in collected'
        PROVE  m \in Range(backward_buffer') /\ IsPostTrigger(m, task.trigger)
    <3>1. CASE m \in collected
      BY <1>1, <2>3, <3>1, CollectedStaysOnStore DEF CollectedInv
    <3>2. CASE m \notin collected
      BY <2>1, <2>2, <2>3, <3>2
    <3> QED BY <3>1, <3>2
  <2>4. worker # "waiting" => collected' = collected
    BY <2>1
  <2>5. CollectedKept'
    <3>1. CASE written = None
      BY <2>1, <3>1 DEF CollectedKept
    <3>2. CASE written # None
      BY <2>1, <2>4, <3>2 DEF CollectedInv, CollectedKept
    <3> QED BY <3>1, <3>2
  <2> QED BY <2>1, <2>3, <2>4, <2>5 DEF CollectedInv, IsPostTrigger, Range
<1>2. CASE UNCHANGED <<worker, task, written, collected, backward_buffer>>
  BY <1>2 DEF CollectedInv, CollectedKept, IsPostTrigger, Range
<1>3. CASE Tick \/ StampMessage \/ Service \/ BreakOff \/ Stop \/ UNCHANGED vars
  BY <1>2, <1>3
     DEF Tick, StampMessage, Service, Admit, NameBag, StartCooldown,
         SnapshotAndQueue, BreakOff, Stop, vars
<1>4. CASE PopTask \/ LeaveLoop \/ Exit \/ Arm \/ SwapBuffers \/ Collect \/ Package
  <2>1. /\ worker \notin {"waiting", "decide", "end"} /\ worker' \notin {"decide", "end"}
        /\ UNCHANGED <<written, collected>>
    BY <1>4 DEF PopTask, LeaveLoop, Exit, Arm, SwapBuffers, Collect, Package
  <2>2. collected' = {} /\ written' = None
    BY <2>1 DEF CollectedInv
  <2> QED BY <2>1, <2>2 DEF CollectedInv, CollectedKept
<1>5. CASE WaitEnds \/ Abandon \/ FailToOpen
  <2>1. /\ UNCHANGED <<task, written, collected, backward_buffer>>
        /\ worker \in {"waiting", "decide"} /\ worker' \in {"decide", "end"}
    BY <1>5 DEF WaitEnds, Abandon, FailToOpen
  <2>2. written' = None
    BY <2>1 DEF CollectedInv
  <2> QED BY <2>1, <2>2 DEF CollectedInv, CollectedKept, IsPostTrigger, Range
<1>6. CASE WriteBag
  <2>1. /\ worker = "decide" /\ worker' = "end"
        /\ collected' = collected
        /\ written'.backward = FromBackwardBuffer(trigger_timestamp_)
    BY <1>6 DEF WriteBag
  <2>2. /\ trigger_timestamp_ = task.trigger /\ trigger_timestamp_ \in Nat
        /\ BackwardDur \in Nat /\ collected \subseteq Message
    BY <2>1, DurationAssumption DEF BufferInv, BackwardOfTask, Typed, TypeOK
  <2>3. ASSUME NEW m \in collected PROVE m \in written'.backward
    <3>1. m \in Range(backward_buffer) /\ IsPostTrigger(m, trigger_timestamp_)
      BY <2>1, <2>2 DEF CollectedInv
    <3>2. m.ts \in Nat
      BY <2>2, MessageType
    <3>3. m.ts >= trigger_timestamp_ + 1 /\ m.ts <= trigger_timestamp_ + BackwardDur
      BY <2>2, <3>1, <3>2 DEF IsPostTrigger
    <3> QED BY <2>1, <3>1, <3>3 DEF FromBackwardBuffer, Within
  <2> QED BY <2>1, <2>3 DEF CollectedInv, CollectedKept
<1>7. CASE EndRecord
  <2>1. worker' = "package" /\ collected' = {} /\ written' = None
    BY <1>7 DEF EndRecord
  <2> QED BY <2>1 DEF CollectedInv, CollectedKept
<1> QED
  BY <1>1, <1>3, <1>4, <1>5, <1>6, <1>7 DEF Next, Channel, Worker

(* If the backward buffer has room for the messages of the backward        *)
(* duration, what came in for the trigger while the worker waited is in    *)
(* the bag, in whatever order the threads get the lock.                    *)
THEOREM CollectedCorrect ==
  ASSUME BackwardCap >= BackwardDur * PerTick
  PROVE  Spec => []CollectedKept
<1>1. Init => CollectedInv
  <2> SUFFICES ASSUME Init PROVE CollectedInv
    OBVIOUS
  <2>1. worker = "idle" /\ written = None /\ collected = {}
    BY DEF Init, InitRecorder
  <2> QED BY <2>1 DEF CollectedInv, CollectedKept
<1>2. BufferInv /\ IInv /\ CollectedInv /\ [Next]_vars => CollectedInv'
  BY CollectedStep DEF IInv
<1>3. CollectedInv => CollectedKept
  BY DEF CollectedInv
<1> QED BY <1>1, <1>2, <1>3, BufferInvStep, IInvInit, IInvStep, PTL DEF Spec

(***************************************************************************)
(* The recorder in the runtime                                             *)
(*                                                                         *)
(* The handlers of the state machine write current_state_ whenever they    *)
(* like.  No invariant below mentions it: what it decides is whether a     *)
(* trigger is ignored and whether a message is taken for backward data.    *)
(***************************************************************************)

\* What a step of the runtime is to the recorder.
LEMMA StepOfRecorder ==
  ASSUME [NextRuntime]_allVars
  PROVE  [Next]_vars \/ Ignore \/ UNCHANGED ownRecorderVars
<1>1. CASE RecorderStep
  BY <1>1 DEF RecorderStep, Next
<1>2. ASSUME NEW c \in Caller, MachineStep(c) \/ ReceiveEvent(c)
      PROVE  UNCHANGED ownRecorderVars
  BY <1>2 DEF MachineStep, ReceiveEvent
<1>3. CASE ExitProcess \/ UNCHANGED allVars
  BY <1>3 DEF ExitProcess, allVars
<1> QED
  BY <1>1, <1>2, <1>3 DEF NextRuntime

\* What a trigger that is ignored and a step of the state machine leave alone.
LEMMA OutsideRecorder ==
  ASSUME Ignore \/ UNCHANGED ownRecorderVars
  PROVE  /\ UNCHANGED <<clockVars, channel, bufferVars, serviceVars, bagVars,
                        recordVars, phase, record_queue_, cancelVars>>
         /\ worker' = worker \/ (worker = "check" /\ worker' = "package")
BY DEF Ignore, ownRecorderVars

\* They keep the invariants of the recorder.
LEMMA OutsideKeeps ==
  ASSUME Ignore \/ UNCHANGED ownRecorderVars
  PROVE  /\ Typed => Typed'
         /\ BackwardOfTask => BackwardOfTask'
         /\ NoMessageTwice => NoMessageTwice'
         /\ ChannelInv => ChannelInv'
         /\ BagsInv => BagsInv'
         /\ OwedInv => OwedInv'
<1> USE DEF clockVars, bufferVars, serviceVars, bagVars, recordVars, cancelVars
<1>1. Typed => Typed'
  BY OutsideRecorder DEF Typed, TypeOK, Carried, Countable
<1>2. BackwardOfTask => BackwardOfTask'
  BY OutsideRecorder DEF BackwardOfTask, Range
<1>3. NoMessageTwice => NoMessageTwice'
  BY OutsideRecorder DEF NoMessageTwice
<1>4. ChannelInv => ChannelInv'
  BY OutsideRecorder DEF ChannelInv, InOrder, Stamped, Earlier, Range
<1>5. BagsInv => BagsInv'
  BY OutsideRecorder DEF BagsInv, DiskTyped, LastOpened, ManifestFitsBag
<1>6. OwedInv => OwedInv'
  BY OutsideRecorder DEF OwedInv, TaskKeeps, PreTriggerKept, Range
<1> QED
  BY <1>1, <1>2, <1>3, <1>4, <1>5, <1>6

\* A trigger that is ignored keeps its name until it is packaged.
LEMMA OutsideKeepsNames ==
  ASSUME Typed, NamesInv, Ignore \/ UNCHANGED ownRecorderVars
  PROVE  NamesInv'
<1>1. /\ UNCHANGED <<record_queue_, service, request, last_trigger_finish_time,
                     task, disk, bag_info_, now>>
      /\ worker' \in {"idle", "exited"} <=> worker \in {"idle", "exited"}
      /\ worker' \notin {"end", "package"} => worker \notin {"end", "package"}
  BY OutsideRecorder DEF clockVars, serviceVars, bagVars, recordVars
<1>2. Past' = Past /\ Current' = Current
  BY <1>1 DEF Past, Current
<1>3. now' \in Nat /\ now <= now'
  BY <1>1 DEF Typed, TypeOK
<1> QED
  BY <1>1, <1>2, <1>3, NamesKept

\* The invariant of the recorder that needs nothing of the state machine.
RuntimeInv == DiskInv /\ BackwardOfTask /\ NoMessageTwice /\ ChannelInv

\* The runtime starts in it and every step keeps it.
LEMMA RuntimeInvariant == SpecRuntime => []RuntimeInv
<1>1. InitRuntime => Init
  BY DEF InitRuntime, Init
<1>2. Init => RuntimeInv
  BY DiskInvInit, IInvInit, ChannelInit DEF RuntimeInv, IInv
<1>3. ASSUME RuntimeInv, [NextRuntime]_allVars PROVE RuntimeInv'
  <2>1. CASE [Next]_vars
    BY <1>3, <2>1, DiskInvStep, BackwardStep, OnceStep, ChannelStep
       DEF RuntimeInv, DiskInv
  <2>2. CASE Ignore \/ UNCHANGED ownRecorderVars
    BY <1>3, <2>2, OutsideKeeps, OutsideKeepsNames DEF RuntimeInv, DiskInv
  <2> QED
    BY <1>3, <2>1, <2>2, StepOfRecorder
<1> QED
  BY <1>1, <1>2, <1>3, PTL DEF SpecRuntime

(* A bag is written from backward data of its own trigger only, although   *)
(* OnMessageReceived takes any DATA_COLLECTING it reads for its own, a     *)
(* handler's included: trigger_timestamp_ keeps the rest out.              *)
THEOREM BackwardCorrectInRuntime == SpecRuntime => []BackwardIsOfThisTrigger
<1>1. RuntimeInv => BackwardIsOfThisTrigger
  BY DEF RuntimeInv, BackwardOfTask, BackwardIsOfThisTrigger
<1> QED
  BY <1>1, RuntimeInvariant, PTL

(* No message is written to a bag twice, whatever the handlers do.         *)
THEOREM WrittenOnceInRuntime == SpecRuntime => []NoMessageTwice
<1>1. RuntimeInv => NoMessageTwice
  BY DEF RuntimeInv
<1> QED
  BY <1>1, RuntimeInvariant, PTL

(* A manifest is that of its bag, although a trigger that was ignored is   *)
(* packaged like one that was recorded.                                    *)
THEOREM ManifestCorrectInRuntime == SpecRuntime => []ManifestFitsBag
<1>1. RuntimeInv => ManifestFitsBag
  BY DEF RuntimeInv, DiskInv, BagsInv
<1> QED
  BY <1>1, RuntimeInvariant, PTL

(* With a cooldown of at least a second no bag is deleted or overwritten   *)
(* by a later one, ignored triggers or not.                                *)
THEOREM BagsKeptInRuntime ==
  ASSUME Cooldown >= Second
  PROVE  SpecRuntime => BagsAreKept
<1> DEFINE Kept == \A p \in DOMAIN disk :
                     p \in DOMAIN disk' /\ disk'[p].total = disk[p].total
<1>1. ASSUME RuntimeInv, [NextRuntime]_allVars PROVE [Kept]_disk
  <2>1. CASE [Next]_vars
    BY <1>1, <2>1, BagsKeptByStep DEF RuntimeInv
  <2>2. CASE Ignore \/ UNCHANGED ownRecorderVars
    BY <2>2, OutsideRecorder DEF bagVars
  <2> QED
    BY <1>1, <2>1, <2>2, StepOfRecorder
<1> QED
  BY <1>1, RuntimeInvariant, PTL DEF SpecRuntime, BagsAreKept

(* What was in reach of a trigger is in its bag, if it is not ignored and  *)
(* the forward buffer has room for the messages of its duration.           *)
THEOREM PreTriggerCorrectInRuntime ==
  ASSUME ForwardCap >= ForwardDur * PerTick
  PROVE  SpecRuntime => []PreTriggerKept
<1>1. InitRuntime => OwedInv
  BY OwedInit DEF InitRuntime, Init
<1>2. ASSUME RuntimeInv, OwedInv, [NextRuntime]_allVars PROVE OwedInv'
  <2>1. CASE [Next]_vars
    BY <1>2, <2>1, OwedStep DEF RuntimeInv, DiskInv, BufferInv
  <2>2. CASE Ignore \/ UNCHANGED ownRecorderVars
    BY <1>2, <2>2, OutsideKeeps
  <2> QED
    BY <1>2, <2>1, <2>2, StepOfRecorder
<1>3. OwedInv => PreTriggerKept
  BY DEF OwedInv
<1> QED
  BY <1>1, <1>2, <1>3, RuntimeInvariant, PTL DEF SpecRuntime

-----------------------------------------------------------------------------
(* The state machine in the runtime                                        *)

BusyState == {"PLANNING", "DATA_COLLECTING", "UPLOADING"}

\* A call that is in progress has a state it goes or went to, and runs only
\* callbacks that there are.
HasTarget ==
  \A c \in Caller :
    /\ at[c] # "out" => target[c] \in Machine!State
    /\ at[c] = "callback" => target[c] \in Machine!HasCallback

MachineTyped == Machine!TypeOK /\ HasTarget

\* A call that will write the state, or one whose callback is the state's.
Attends(c) ==
  at[c] = "transition" \/ (at[c] = "callback" /\ target[c] = current_state_)

\* Between the two setCurrentState calls of TriggerRecord.
Recording == worker \in {"waiting", "decide", "end"}

BusyIsAttended ==
  current_state_ \in BusyState => Recording \/ \E c \in Caller : Attends(c)

\* What the recorder writes to the state of the machine.
LEMMA RecorderWritesState ==
  ASSUME RecorderStep
  PROVE  /\ UNCHANGED ownMachineVars
         /\ \/ current_state_' = current_state_ /\ (Recording => Recording')
            \/ current_state_' = "DATA_COLLECTING" /\ Recording'
            \/ current_state_' = "IDLE"
<1>1. UNCHANGED ownMachineVars
  BY DEF RecorderStep
<1>2. CASE Tick \/ Channel \/ Service \/ BreakOff
  <2>1. UNCHANGED <<current_state_, worker>>
    BY <1>2 DEF Tick, Channel, StampMessage, StoreMessage, Service, Admit,
                NameBag, StartCooldown, SnapshotAndQueue, BreakOff
  <2> QED
    BY <1>1, <2>1 DEF Recording
<1>3. CASE PopTask \/ LeaveLoop \/ Exit \/ Ignore \/ Arm \/ SwapBuffers \/ Package
  <2>1. /\ UNCHANGED current_state_
        /\ worker \in {"idle", "check", "armed", "package"}
    BY <1>3 DEF PopTask, LeaveLoop, Exit, Ignore, Arm, SwapBuffers, Package
  <2> QED
    BY <1>1, <2>1 DEF Recording
<1>4. CASE WaitEnds \/ Abandon \/ FailToOpen \/ WriteBag
  <2>1. UNCHANGED current_state_ /\ worker' \in {"decide", "end"}
    BY <1>4 DEF WaitEnds, Abandon, FailToOpen, WriteBag
  <2> QED
    BY <1>1, <2>1 DEF Recording
<1>5. CASE Collect
  <2>1. current_state_' = "DATA_COLLECTING" /\ worker' = "waiting"
    BY <1>5 DEF Collect
  <2> QED
    BY <1>1, <2>1 DEF Recording
<1>6. CASE EndRecord
  <2>1. current_state_' = "IDLE"
    BY <1>6 DEF EndRecord
  <2> QED
    BY <1>1, <2>1
<1> QED
  BY <1>2, <1>3, <1>4, <1>5, <1>6 DEF RecorderStep, Worker

\* A call reads the state and decides, also over what the recorder wrote.
LEMMA DispatchTyped ==
  ASSUME MachineTyped, NEW c \in Caller, NEW e \in Machine!Event,
         Machine!Dispatch(c, e), crossed' \in BOOLEAN
  PROVE  MachineTyped'
<1>1. PICK t \in Machine!Reaction(current_state_, e) :
        /\ at' = [at EXCEPT ![c] = IF t = "none" THEN "out" ELSE "transition"]
        /\ event' = [event EXCEPT ![c] = IF t = "none" THEN "none" ELSE e]
        /\ target' = [target EXCEPT ![c] = t]
        /\ degrade_mode_' = (degrade_mode_ \/
             (current_state_ = "ERROR" /\ e = "RECOVERY_REQUEST"))
        /\ UNCHANGED current_state_
  BY DEF Machine!Dispatch
<1>2. t \in Machine!State \cup {"none"}
  <2>1. t \in Machine!Successors(current_state_, e) \cup {"none"}
    BY <1>1, Zenon DEF Machine!Reaction
  <2> QED
    BY <2>1, Zenon DEF Machine!Successors
<1>3. degrade_mode_' \in BOOLEAN
  BY <1>1
<1>4. Machine!TypeOK'
  BY <1>1, <1>2, <1>3 DEF MachineTyped, Machine!TypeOK
<1>5. HasTarget'
  BY <1>1, <1>2 DEF MachineTyped, Machine!TypeOK, HasTarget
<1> QED
  BY <1>4, <1>5 DEF MachineTyped

\* Types of the machine, with the recorder writing one of its variables.
LEMMA MachineTypedStep ==
  ASSUME MachineTyped, [NextRuntime]_allVars
  PROVE  MachineTyped'
<1>1. CASE RecorderStep
  <2>1. UNCHANGED ownMachineVars /\ current_state_' \in Machine!State
    BY <1>1, RecorderWritesState
       DEF MachineTyped, Machine!TypeOK, Machine!State
  <2> QED
    BY <2>1 DEF ownMachineVars, MachineTyped, HasTarget, Machine!TypeOK
<1>2. ASSUME NEW c \in Caller, NEW e \in Machine!Event, Machine!Receive(c, e)
      PROVE  MachineTyped'
  <2>1. Machine!Dispatch(c, e) /\ crossed' \in BOOLEAN
    BY <1>2 DEF Machine!Receive
  <2> QED
    BY <2>1, DispatchTyped
<1>3. ASSUME NEW c \in Caller, Machine!Transition(c)
      PROVE  MachineTyped'
  BY <1>3 DEF Machine!Transition, MachineTyped, Machine!TypeOK, HasTarget,
              Machine!HasCallback
<1>4. ASSUME NEW c \in Caller, NEW ok \in BOOLEAN, Machine!Return(c, ok)
      PROVE  MachineTyped'
  <2>1. /\ at[c] = "callback" /\ target[c] # "SHUTTING_DOWN"
        /\ Machine!Dispatch(c, Machine!Outcome(target[c], ok)) /\ crossed' = crossed
    BY <1>4 DEF Machine!Return
  <2>2. Machine!Outcome(target[c], ok) \in Machine!Event
    BY <2>1 DEF MachineTyped, HasTarget, Machine!HasCallback, Machine!Outcome,
                Machine!Completion, Machine!Event
  <2>3. crossed' \in BOOLEAN
    BY <2>1 DEF MachineTyped, Machine!TypeOK
  <2> QED
    BY <2>1, <2>2, <2>3, DispatchTyped
<1>5. ASSUME NEW c \in Caller, Machine!ReturnShutdown(c)
      PROVE  MachineTyped'
  BY <1>5 DEF Machine!ReturnShutdown, MachineTyped, Machine!TypeOK, HasTarget
<1>6. CASE ExitProcess \/ UNCHANGED allVars
  BY <1>6 DEF ExitProcess, allVars, vars, ownMachineVars, MachineTyped, HasTarget,
              Machine!TypeOK
<1> QED
  BY <1>1, <1>2, <1>3, <1>4, <1>5, <1>6 DEF NextRuntime, MachineStep, ReceiveEvent

\* The result of the callback of a busy state is handled in that state.
LEMMA OutcomeIsHandled ==
  ASSUME NEW s \in BusyState, NEW ok \in BOOLEAN
  PROVE  "none" \notin Machine!Reaction(s, Machine!Outcome(s, ok))
<1>1. \E t \in Machine!State \ {"none"} :
        <<s, Machine!Outcome(s, ok), t>> \in Machine!Handled
  BY DEF BusyState, Machine!Outcome, Machine!Completion, Machine!Handled,
         Machine!State
<1>2. Machine!Outcome(s, ok) # "WAYPOINT_REACHED"
  BY DEF BusyState, Machine!Outcome, Machine!Completion
<1>3. /\ Machine!Successors(s, Machine!Outcome(s, ok)) # {}
      /\ "none" \notin Machine!Successors(s, Machine!Outcome(s, ok))
  BY <1>1 DEF Machine!Successors, Machine!State
<1> QED
  BY <1>2, <1>3 DEF Machine!Reaction

\* Whoever writes a busy state attends to it, and leaves only what is written
\* over or handled.
LEMMA BusyStep ==
  ASSUME MachineTyped, BusyIsAttended, [NextRuntime]_allVars
  PROVE  BusyIsAttended'
<1> USE DEF BusyIsAttended, Attends
<1>1. CASE RecorderStep
  BY <1>1, RecorderWritesState DEF ownMachineVars, BusyState
<1>2. ASSUME NEW c \in Caller, ReceiveEvent(c)
      PROVE  BusyIsAttended'
  <2>1. PICK e \in Machine!Event : Machine!Receive(c, e)
    BY <1>2 DEF ReceiveEvent
  <2>2. worker' = worker
    BY <1>2 DEF ReceiveEvent, ownRecorderVars
  <2> QED
    BY <2>1, <2>2 DEF Machine!Receive, Machine!Dispatch, MachineTyped,
                      Machine!TypeOK, Recording
<1>3. ASSUME NEW c \in Caller, MachineStep(c), current_state_' \in BusyState
      PROVE  Recording' \/ \E d \in Caller : Attends(d)'
  <2>1. worker' = worker
    BY <1>3 DEF MachineStep, ownRecorderVars
  <2>2. CASE Machine!Transition(c)
    BY <1>3, <2>2 DEF Machine!Transition, MachineTyped, Machine!TypeOK,
                      Machine!HasCallback, BusyState
  <2>3. ASSUME NEW ok \in BOOLEAN, Machine!Return(c, ok)
        PROVE  Recording' \/ \E d \in Caller : Attends(d)'
    <3>1. /\ at[c] = "callback" /\ current_state_' = current_state_
          /\ \E t \in Machine!Reaction(current_state_, Machine!Outcome(target[c], ok)) :
               /\ at' = [at EXCEPT ![c] = IF t = "none" THEN "out" ELSE "transition"]
               /\ target' = [target EXCEPT ![c] = t]
      BY <2>3 DEF Machine!Return, Machine!Dispatch
    <3>2. CASE Recording
      BY <2>1, <3>2 DEF Recording
    <3>3. ASSUME NEW d \in Caller, Attends(d)
          PROVE  \E b \in Caller : Attends(b)'
      <4>1. CASE d # c
        BY <3>1, <3>3, <4>1 DEF MachineTyped, Machine!TypeOK
      <4>2. CASE d = c
        <5>1. at'[c] = "transition"
          BY <1>3, <3>1, <3>3, <4>2, OutcomeIsHandled
             DEF MachineTyped, Machine!TypeOK
        <5> QED
          BY <5>1
      <4> QED
        BY <4>1, <4>2
    <3> QED
      BY <1>3, <3>1, <3>2, <3>3
  <2>4. CASE Machine!ReturnShutdown(c)
    BY <1>3, <2>1, <2>4 DEF Machine!ReturnShutdown, MachineTyped,
                            Machine!TypeOK, BusyState, Recording
  <2> QED
    BY <1>3, <2>2, <2>3, <2>4 DEF MachineStep
<1>4. CASE ExitProcess \/ UNCHANGED allVars
  <2>1. UNCHANGED <<ownMachineVars, current_state_, worker>>
    BY <1>4 DEF ExitProcess, allVars, vars
  <2> QED
    BY <2>1 DEF ownMachineVars, Recording
<1> QED
  BY <1>1, <1>2, <1>3, <1>4 DEF NextRuntime

\* Both at the start and after every step.
LEMMA MachineInRuntime == SpecRuntime => [](MachineTyped /\ BusyIsAttended)
<1>1. InitRuntime => MachineTyped /\ BusyIsAttended
  BY DEF InitRuntime, Machine!InitMachine, MachineTyped, Machine!TypeOK,
         HasTarget, BusyIsAttended, BusyState, Machine!State
<1> QED
  BY <1>1, MachineTypedStep, BusyStep, PTL DEF SpecRuntime

(* The machine keeps its types with the recorder writing its state.        *)
THEOREM MachineTypeInRuntime == SpecRuntime => []Machine!TypeOK
<1>1. MachineTyped => Machine!TypeOK
  BY DEF MachineTyped
<1> QED
  BY <1>1, MachineInRuntime, PTL

(* setCurrentState of the recorder and the handlers write one state behind *)
(* each other's back.  Still no busy state is abandoned: while one lasts,  *)
(* a call of handleEvent will write or handle it, or TriggerRecord is      *)
(* between its two writes and will make it IDLE.  It is the safety part of *)
(* BusyEnds.                                                               *)
THEOREM NoBusyStateAbandoned ==
  SpecRuntime =>
    [](current_state_ \in BusyState => Recording \/ \E c \in Caller : Attends(c))
<1>1. BusyIsAttended
        => (current_state_ \in BusyState => Recording \/ \E c \in Caller : Attends(c))
  BY DEF BusyIsAttended
<1> QED
  BY <1>1, MachineInRuntime, PTL
=============================================================================

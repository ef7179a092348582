------------------------- MODULE RecordWorker_proofs -------------------------
(***************************************************************************)
(* Proofs about RecordWorker, for every set of triggers.  What the threads *)
(* do to the queue, the worker's hands and the list of finished tasks is   *)
(* one of three things: a task joins the backlog, the head of the backlog  *)
(* is finished, or neither changes (lemma BacklogSteps).  The refinement   *)
(* of RecordingService and the safety invariants follow from it.           *)
(***************************************************************************)
EXTENDS RecordWorker, SequenceTheorems, TLAPS

(***************************************************************************)
(* Sequences                                                               *)
(***************************************************************************)

(* Taking the head of a queue into a hand of one keeps the whole in order. *)
LEMMA HeadInHand ==
  ASSUME NEW S, NEW q \in Seq(S), q # << >>
  PROVE  /\ Head(q) \in S /\ Tail(q) \in Seq(S)
         /\ <<Head(q)>> \o Tail(q) = q
  OBVIOUS

(* A hand of one in front of a queue is the head of both together.         *)
LEMMA HandIsHead ==
  ASSUME NEW S, NEW q \in Seq(S), NEW e \in S
  PROVE  /\ <<e>> \o q # << >>
         /\ Head(<<e>> \o q) = e /\ Tail(<<e>> \o q) = q
  OBVIOUS

(* Appending to the second of two sequences appends to both together.      *)
LEMMA ConcatAppend ==
  ASSUME NEW S, NEW s \in Seq(S), NEW q \in Seq(S), NEW e \in S
  PROVE  s \o Append(q, e) = Append(s \o q, e)
  OBVIOUS

(* Moving the head of the second sequence to the end of the first keeps    *)
(* both together as they are.                                              *)
LEMMA HeadMovesOver ==
  ASSUME NEW S, NEW s \in Seq(S), NEW q \in Seq(S), q # << >>
  PROVE  Append(s, Head(q)) \o Tail(q) = s \o q
  OBVIOUS

(* A new element makes the range larger by itself, and keeps a sequence    *)
(* without repetitions one.                                                *)
LEMMA AppendNew ==
  ASSUME NEW S, NEW s \in Seq(S), NEW e \in S
  PROVE  /\ Range(Append(s, e)) = Range(s) \cup {e}
         /\ (IsInjective(s) /\ e \notin Range(s)) => IsInjective(Append(s, e))
<1> DEFINE t == Append(s, e)
<1>1. /\ DOMAIN s = 1 .. Len(s) /\ Len(s) \in Nat
      /\ DOMAIN t = 1 .. Len(s) + 1
      /\ \A i \in 1 .. Len(s) : t[i] = s[i]
      /\ t[Len(s) + 1] = e
  BY LenProperties, AppendProperties
<1> HIDE DEF t
<1>2. Range(t) = Range(s) \cup {e}
  BY <1>1 DEF Range
<1>3. ASSUME IsInjective(s), e \notin Range(s)
      PROVE  IsInjective(t)
  <2> SUFFICES ASSUME NEW i \in DOMAIN t, NEW j \in DOMAIN t, t[i] = t[j]
               PROVE  i = j
    BY DEF IsInjective
  <2>1. \A k \in 1 .. Len(s) : s[k] # e
    BY <1>1, <1>3 DEF Range
  <2>2. CASE i = Len(s) + 1 \/ j = Len(s) + 1
    BY <1>1, <2>1, <2>2
  <2>3. CASE i \in 1 .. Len(s) /\ j \in 1 .. Len(s)
    BY <1>1, <1>3, <2>3 DEF IsInjective
  <2> QED BY <1>1, <2>2, <2>3
<1> QED BY <1>2, <1>3 DEF t

-----------------------------------------------------------------------------
(* Types                                                                   *)

\* A thread that carries a task carries a real one.
Carried ==
  /\ worker \in {"record", "drainRecord"} => task \in Task
  /\ handler # "idle" => request \in Task

Typed == TypeOK /\ Carried

(* Every variable keeps its type: the inductive step.                      *)
LEMMA TypedStep == Typed /\ [Next]_vars => Typed'
<1> SUFFICES ASSUME Typed, [Next]_vars PROVE Typed'
  OBVIOUS
<1> USE DEF Typed, TypeOK, Carried
<1>1. ASSUME NEW t \in Task, Reject(t) \/ Admit(t) PROVE Typed'
  BY <1>1 DEF Reject, Admit
<1>2. CASE Push
  BY <1>2 DEF Push
<1>3. CASE NotifyAndReply
  BY <1>3 DEF NotifyAndReply, Wake
<1>4. CASE LoopTest \/ Lock \/ Break \/ Decline \/ Block \/ SpuriousWake
  BY <1>4 DEF LoopTest, Lock, Break, Decline, Block, SpuriousWake
<1>5. CASE Pop \/ DrainPop
  BY <1>5, HeadInHand DEF Pop, DrainPop, PopTask
<1>6. CASE Finish \/ DrainFinish
  BY <1>6 DEF Finish, DrainFinish
<1>7. CASE LockDrain \/ Exit
  BY <1>7 DEF LockDrain, Exit
<1>8. CASE Stop \/ NotifyStop \/ Join
  BY <1>8 DEF Stop, NotifyStop, Join, Wake
<1>9. CASE UNCHANGED vars
  BY <1>9 DEF vars
<1> QED
  BY <1>1, <1>2, <1>3, <1>4, <1>5, <1>6, <1>7, <1>8, <1>9
     DEF Next, Handler, Worker, Destructor

(* Every variable keeps its type.                                          *)
THEOREM TypeCorrect == Spec => []TypeOK
<1>1. Init => Typed
  BY DEF Init, Typed, TypeOK, Carried
<1>2. Typed => TypeOK
  BY DEF Typed
<1> QED BY <1>1, <1>2, TypedStep, PTL DEF Spec

(* The hand, the backlog and what was pushed are sequences of tasks.       *)
LEMMA BacklogType ==
  ASSUME Typed
  PROVE  InHand \in Seq(Task) /\ Backlog \in Seq(Task) /\ Pushed \in Seq(Task)
<1>1. InHand \in Seq(Task)
  BY DEF InHand, Typed, Carried
<1>2. Backlog \in Seq(Task)
  BY <1>1 DEF Typed, TypeOK, Backlog
<1> QED BY <1>1, <1>2 DEF Typed, TypeOK, Pushed

-----------------------------------------------------------------------------
(* What a step does to the backlog                                         *)

\* The three things that can happen, named as RecordingService names them.
Accepting == Backlog' = Append(Backlog, request) /\ UNCHANGED finished
Completing ==
  /\ Backlog # << >>
  /\ finished' = Append(finished, Head(Backlog))
  /\ Backlog' = Tail(Backlog)
Resting == UNCHANGED <<Backlog, finished>>

(* Only the push of the callback lets a task join the backlog, only the    *)
(* end of a recording takes one away, and the pops of the worker and of    *)
(* the drain move a task from the queue to the hand and nothing else.      *)
LEMMA BacklogSteps ==
  ASSUME Typed, [Next]_vars
  PROVE  \/ Push /\ Accepting
         \/ (Finish \/ DrainFinish) /\ Completing
         \/ ~Push /\ Resting
<1>1. CASE Push
  <2>1. request \in Task /\ InHand \in Seq(Task) /\ record_queue_ \in Seq(Task)
    BY <1>1, BacklogType DEF Push, Typed, Carried, TypeOK
  <2>2. InHand' = InHand /\ record_queue_' = Append(record_queue_, request)
    BY <1>1 DEF Push, InHand
  <2>3. Backlog' = Append(Backlog, request)
    BY <2>1, <2>2, ConcatAppend DEF Backlog
  <2> QED BY <1>1, <2>3 DEF Push, Accepting
<1>2. CASE Pop \/ DrainPop
  <2>1. record_queue_ \in Seq(Task) /\ record_queue_ # << >>
    BY <1>2 DEF Pop, DrainPop, Typed, TypeOK
  <2>2. InHand = << >> /\ InHand' = <<Head(record_queue_)>>
           /\ record_queue_' = Tail(record_queue_)
    BY <1>2 DEF Pop, DrainPop, PopTask, InHand
  <2>3. Backlog' = Backlog
    BY <2>1, <2>2, HeadInHand, ConcatEmptySeq DEF Backlog
  <2> QED BY <1>2, <2>3 DEF Pop, DrainPop, Push, Resting
<1>3. CASE Finish \/ DrainFinish
  <2>1. task \in Task /\ record_queue_ \in Seq(Task)
    BY <1>3 DEF Finish, DrainFinish, Typed, Carried, TypeOK
  <2>2. InHand = <<task>> /\ InHand' = << >> /\ UNCHANGED record_queue_
    BY <1>3 DEF Finish, DrainFinish, InHand
  <2>3. Backlog # << >> /\ Head(Backlog) = task
           /\ Tail(Backlog) = record_queue_ /\ Backlog' = record_queue_
    BY <2>1, <2>2, HandIsHead, ConcatEmptySeq DEF Backlog
  <2> QED BY <1>3, <2>3 DEF Finish, DrainFinish, Completing
<1>4. ASSUME \/ \E t \in Task : Reject(t) \/ Admit(t)
             \/ NotifyAndReply \/ LoopTest \/ Lock \/ Break \/ Decline
             \/ Block \/ SpuriousWake \/ LockDrain \/ Exit
             \/ Stop \/ NotifyStop \/ Join \/ UNCHANGED vars
      PROVE  ~Push /\ Resting
  <2>1. UNCHANGED <<InHand, record_queue_, finished>>
    BY <1>4 DEF InHand, Reject, Admit, NotifyAndReply, Wake, LoopTest, Lock,
                Break, Decline, Block, SpuriousWake, LockDrain, Exit, Stop,
                NotifyStop, Join, vars
  <2>2. ~Push
    <3> SUFFICES ASSUME Push PROVE FALSE
      OBVIOUS
    <3>1. request \in Task /\ record_queue_ \in Seq(Task)
             /\ record_queue_' = Append(record_queue_, request)
      BY DEF Push, Typed, Carried, TypeOK
    <3> QED BY <2>1, <3>1
  <2> QED BY <2>1, <2>2 DEF Backlog, Resting
<1> QED
  BY <1>1, <1>2, <1>3, <1>4 DEF Next, Handler, Worker, Destructor

(* handleTriggerService, the queue and recordWorkerLoop implement the      *)
(* recording service: first come, first recorded, each exactly once, for   *)
(* any interleaving of the callback, the worker, the drain and the         *)
(* destructor.                                                             *)
THEOREM Implements == Spec => ImplementsService
<1>1. Init => Service!Init
  BY DEF Init, Service!Init, Backlog, InHand
<1>2. Typed /\ [Next]_vars => [Service!Next]_(Service!vars)
  <2> SUFFICES ASSUME Typed, [Next]_vars PROVE [Service!Next]_(Service!vars)
    OBVIOUS
  <2>1. CASE Push /\ Accepting
    <3>1. request \in Task
      BY <2>1 DEF Push, Typed, Carried
    <3> QED BY <2>1, <3>1 DEF Accepting, Service!Next, Service!Accept
  <2>2. CASE Completing
    BY <2>2 DEF Completing, Service!Next, Service!Complete
  <2>3. CASE Resting
    BY <2>3 DEF Resting, Service!vars
  <2> QED BY <2>1, <2>2, <2>3, BacklogSteps
<1>3. Init => Typed
  BY DEF Init, Typed, TypeOK, Carried
<1> QED
  BY <1>1, <1>2, <1>3, TypedStep, PTL DEF Spec, ImplementsService, Service!Spec

-----------------------------------------------------------------------------
(* Once and only once                                                      *)

(* The inductive invariant: the request of a callback between its push and *)
(* its reply is among the tasks that were pushed, so that the reply finds  *)
(* it there.                                                               *)
RequestIsPushed == handler = "notify" => request \in Range(Pushed)

IInv == Typed /\ EachTaskOnce /\ RequestIsPushed /\ RepliedIsKept

(* What was pushed grows by the request of a push and never changes        *)
(* otherwise.                                                              *)
LEMMA PushedSteps ==
  ASSUME Typed, [Next]_vars
  PROVE  \/ Push /\ request \in Task /\ Pushed' = Append(Pushed, request)
         \/ ~Push /\ Pushed' = Pushed
<1>1. finished \in Seq(Task) /\ Backlog \in Seq(Task)
  BY BacklogType DEF Typed, TypeOK
<1>2. CASE Push /\ Accepting
  <2>1. request \in Task
    BY <1>2 DEF Push, Typed, Carried
  <2> QED BY <1>1, <1>2, <2>1, ConcatAppend DEF Accepting, Pushed
<1>3. CASE (Finish \/ DrainFinish) /\ Completing
  <2>1. Pushed' = Pushed
    BY <1>1, <1>3, HeadMovesOver DEF Completing, Pushed
  <2>2. ~Push
    BY <1>3 DEF Finish, DrainFinish, Push, Typed, TypeOK
  <2> QED BY <2>1, <2>2
<1>4. CASE ~Push /\ Resting
  BY <1>4 DEF Resting, Pushed
<1> QED BY <1>2, <1>3, <1>4, BacklogSteps

\* Every step keeps the inductive invariant.
LEMMA IInvStep == IInv /\ [Next]_vars => IInv'
<1> SUFFICES ASSUME IInv, [Next]_vars PROVE IInv'
  OBVIOUS
<1>1. Typed /\ Typed'
  BY TypedStep DEF IInv
<1>2. Pushed \in Seq(Task)
  BY <1>1, BacklogType
<1>3. CASE Push
  <2>1. request \in Task /\ Pushed' = Append(Pushed, request)
    BY <1>1, <1>3, PushedSteps
  <2>2. request \notin Range(Pushed) \cup unsent
    BY <1>3 DEF Push, IInv, EachTaskOnce
  <2>3. Range(Pushed)' = Range(Pushed) \cup {request} /\ IsInjective(Pushed)'
    BY <1>2, <2>1, <2>2, AppendNew DEF IInv, EachTaskOnce
  <2> QED
    BY <1>1, <1>3, <2>2, <2>3
       DEF Push, IInv, EachTaskOnce, RequestIsPushed, RepliedIsKept
<1>4. CASE ~Push
  <2>1. Pushed' = Pushed
    BY <1>1, <1>4, PushedSteps
  <2>2. CASE \E t \in Task : Reject(t) \/ Admit(t)
    BY <1>1, <2>1, <2>2
       DEF Reject, Admit, IInv, EachTaskOnce, RequestIsPushed, RepliedIsKept
  <2>3. CASE NotifyAndReply
    BY <1>1, <2>1, <2>3
       DEF NotifyAndReply, IInv, EachTaskOnce, RequestIsPushed, RepliedIsKept
  <2>4. CASE UNCHANGED <<unsent, handler, request, replied>>
    BY <1>1, <2>1, <2>4
       DEF IInv, EachTaskOnce, RequestIsPushed, RepliedIsKept
  <2>5. Worker \/ SpuriousWake \/ Destructor \/ UNCHANGED vars
          => UNCHANGED <<unsent, handler, request, replied>>
    BY DEF Worker, LoopTest, Lock, Pop, Break, Decline, Block, Finish,
           LockDrain, DrainPop, DrainFinish, Exit, SpuriousWake, Destructor,
           Stop, NotifyStop, Join, vars
  <2> QED BY <1>4, <2>2, <2>3, <2>4, <2>5 DEF Next, Handler
<1> QED BY <1>3, <1>4

\* It holds at the start.
LEMMA IInvInit == Init => IInv
<1> SUFFICES ASSUME Init PROVE IInv
  OBVIOUS
<1>1. Pushed = << >>
  BY DEF Init, Pushed, Backlog, InHand
<1>2. Range(Pushed) = {} /\ IsInjective(Pushed)
  BY <1>1 DEF Range, IsInjective
<1> QED
  BY <1>2 DEF Init, IInv, Typed, TypeOK, Carried, EachTaskOnce,
              RequestIsPushed, RepliedIsKept

(* A trigger is in one place only, and nothing is recorded twice.          *)
THEOREM OnceOnly == Spec => []EachTaskOnce
<1>1. IInv => EachTaskOnce
  BY DEF IInv
<1> QED BY <1>1, IInvInit, IInvStep, PTL DEF Spec

(* A trigger the client was promised is never lost between the callback,   *)
(* the queue and the worker.                                               *)
THEOREM Kept == Spec => []RepliedIsKept
<1>1. IInv => RepliedIsKept
  BY DEF IInv
<1> QED BY <1>1, IInvInit, IInvStep, PTL DEF Spec

-----------------------------------------------------------------------------
(* Wake-ups                                                                *)

\* The worker has the mutex while it looks at the queue and while it drains.
HoldsMutex ==
  mutex = "worker" <=> worker \in {"test", "dozing", "drain", "drainRecord"}

\* It decides to sleep with an empty queue, and while it sleeps the queue is
\* empty or a notification is on its way.
WakeUpComes ==
  worker = "asleep" /\ record_queue_ # << >> => handler = "notify"

WakeInv ==
  /\ HoldsMutex
  /\ worker = "dozing" => record_queue_ = << >>
  /\ WakeUpComes

\* Every step keeps it: nothing is pushed between the worker's decision and
\* its sleep, as it has the mutex.
LEMMA WakeStep == Typed /\ WakeInv /\ [Next]_vars => WakeInv'
<1> SUFFICES ASSUME Typed, WakeInv, [Next]_vars PROVE WakeInv'
  OBVIOUS
<1> USE DEF Typed, TypeOK, WakeInv, HoldsMutex, WakeUpComes
<1>1. ASSUME NEW t \in Task, Reject(t) \/ Admit(t) PROVE WakeInv'
  BY <1>1 DEF Reject, Admit
<1>2. CASE Push
  BY <1>2 DEF Push
<1>3. CASE NotifyAndReply
  BY <1>3 DEF NotifyAndReply, Wake
<1>4. CASE LoopTest \/ Lock \/ Break \/ Decline \/ Block \/ SpuriousWake
  BY <1>4 DEF LoopTest, Lock, Break, Decline, Block, SpuriousWake
<1>5. CASE Pop \/ DrainPop
  BY <1>5 DEF Pop, DrainPop, PopTask
<1>6. CASE Finish \/ DrainFinish \/ LockDrain \/ Exit
  BY <1>6 DEF Finish, DrainFinish, LockDrain, Exit
<1>7. CASE Stop \/ NotifyStop \/ Join
  BY <1>7 DEF Stop, NotifyStop, Join, Wake
<1>8. CASE UNCHANGED vars
  BY <1>8 DEF vars
<1> QED
  BY <1>1, <1>2, <1>3, <1>4, <1>5, <1>6, <1>7, <1>8
     DEF Next, Handler, Worker, Destructor

(* The callback pushes under record_queue_mutex_ and notifies without it.  *)
(* However that falls between the worker's predicate and its sleep, the    *)
(* worker never sleeps over a task nobody will wake it for: the safety     *)
(* part of QueuedIsRecorded.  (Of the destructor's notify_all this is not  *)
(* true, which stores its flag without the mutex.)                         *)
THEOREM NoTaskSleptOver == Spec => []WakeUpComes
<1>1. Init => Typed /\ WakeInv
  BY DEF Init, Typed, TypeOK, Carried, WakeInv, HoldsMutex, WakeUpComes
<1>2. WakeInv => WakeUpComes
  BY DEF WakeInv
<1> QED BY <1>1, <1>2, TypedStep, WakeStep, PTL DEF Spec
=============================================================================

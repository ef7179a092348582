-------------------------- MODULE StateMachine_proofs --------------------------
(***************************************************************************)
(* Proofs about StateMachine, for any set of calling threads: the type     *)
(* invariant, and that calls which do not overlap walk the documented      *)
(* diagram.  The handlers decide from a state they read earlier, so the    *)
(* invariant ties every decision that waits to be written to the state it  *)
(* will be written over.                                                   *)
(***************************************************************************)
EXTENDS StateMachine, TLAPS

\* As long as no two calls were in progress at once, at most one is.
AloneInside ==
  ~crossed => \A c, d \in Caller : at[c] # "out" /\ at[d] # "out" => c = d

\* What a call is about to write is a successor of the state it writes over.
DecisionIsAnEdge ==
  ~crossed =>
    \A c \in Caller : at[c] = "transition" =>
      <<current_state_, target[c]>> \in Diagram!Edge

\* A call that is in progress has a state it goes or went to, and runs only
\* callbacks that there are.
HasTarget ==
  \A c \in Caller :
    /\ at[c] # "out" => target[c] \in State
    /\ at[c] = "callback" => target[c] \in HasCallback

MachineInv == TypeOK /\ HasTarget /\ AloneInside /\ DecisionIsAnEdge

(* A handler that reacts goes along an edge of the diagram, whatever the   *)
(* event and the degrade mode.                                             *)
LEMMA ReactionIsAnEdge ==
  ASSUME NEW s \in State, NEW e, NEW t \in Reaction(s, e), t # "none"
  PROVE  t \in State /\ <<s, t>> \in Diagram!Edge
<1>1. t \in Successors(s, e)
  BY Zenon DEF Reaction
<1>2. t \in State /\ <<s, e, t>> \in Handled
  BY <1>1, Zenon DEF Successors
<1> QED
  BY <1>2 DEF Handled, Diagram!Edge, Diagram!Idle, Diagram!Busy

(* handleEvent, called from outside or by transitionToState when a         *)
(* callback has returned: it keeps the invariant if, as long as calls do   *)
(* not overlap, no other call is in progress.                              *)
LEMMA DispatchKeepsInv ==
  ASSUME MachineInv,
         NEW c \in Caller, NEW e \in Event, Dispatch(c, e),
         crossed' \in BOOLEAN,
         ~crossed' => \A d \in Caller \ {c} : at[d] = "out"
  PROVE  MachineInv'
<1>1. PICK t \in Reaction(current_state_, e) :
        /\ at' = [at EXCEPT ![c] = IF t = "none" THEN "out" ELSE "transition"]
        /\ event' = [event EXCEPT ![c] = IF t = "none" THEN "none" ELSE e]
        /\ target' = [target EXCEPT ![c] = t]
        /\ degrade_mode_' = (degrade_mode_ \/
             (current_state_ = "ERROR" /\ e = "RECOVERY_REQUEST"))
        /\ UNCHANGED current_state_
  BY DEF Dispatch
<1>2. t # "none" =>
        t \in State /\ <<current_state_, t>> \in Diagram!Edge
  BY ReactionIsAnEdge DEF MachineInv, TypeOK
<1>3. TypeOK'
  <2>1. degrade_mode_' \in BOOLEAN
    BY <1>1
  <2> QED BY <1>1, <1>2, <2>1 DEF MachineInv, TypeOK
<1>4. HasTarget'
  BY <1>1, <1>2 DEF MachineInv, TypeOK, HasTarget
<1>5. ~crossed' => \A d \in Caller : at'[d] # "out" => d = c
  BY <1>1 DEF MachineInv, TypeOK
<1>6. AloneInside'
  BY <1>5 DEF AloneInside
<1>7. DecisionIsAnEdge'
  <2>1. SUFFICES ASSUME ~crossed', at'[c] = "transition"
                 PROVE  <<current_state_', target'[c]>> \in Diagram!Edge'
    BY <1>5 DEF DecisionIsAnEdge
  <2>2. t # "none" /\ target'[c] = t
    BY <1>1, <2>1 DEF MachineInv, TypeOK
  <2>3. Diagram!Edge' = Diagram!Edge
    BY DEF Diagram!Edge, Diagram!Busy, Diagram!Idle
  <2> QED BY <1>1, <1>2, <2>2, <2>3
<1> QED BY <1>3, <1>4, <1>6, <1>7 DEF MachineInv

(* transitionToState writes the state and leaves the other calls alone.    *)
LEMMA TransitionKeepsInv ==
  ASSUME MachineInv, NEW c \in Caller, Transition(c)
  PROVE  MachineInv'
<1>1. /\ at[c] = "transition" /\ current_state_' = target[c]
      /\ UNCHANGED <<degrade_mode_, crossed>>
  BY DEF Transition
<1>2. \/ /\ target[c] \in HasCallback
         /\ at' = [at EXCEPT ![c] = "callback"]
         /\ UNCHANGED <<event, target>>
      \/ /\ at' = [at EXCEPT ![c] = "out"]
         /\ event' = [event EXCEPT ![c] = "none"]
         /\ target' = [target EXCEPT ![c] = "none"]
  BY DEF Transition
<1>3. TypeOK'
  BY <1>1, <1>2 DEF MachineInv, HasTarget, TypeOK
<1>4. HasTarget'
  BY <1>2 DEF MachineInv, HasTarget, HasCallback, TypeOK
<1>5. \A d \in Caller : at'[d] # "out" => at[d] # "out"
  BY <1>1, <1>2 DEF MachineInv, TypeOK
<1>6. AloneInside'
  BY <1>1, <1>5 DEF MachineInv, AloneInside
<1>7. ~crossed' => \A d \in Caller : at'[d] # "transition"
  BY <1>1, <1>2 DEF MachineInv, AloneInside, TypeOK
<1>8. DecisionIsAnEdge'
  BY <1>7 DEF DecisionIsAnEdge
<1> QED BY <1>3, <1>4, <1>6, <1>8 DEF MachineInv

(* Every other step of a call.                                             *)
LEMMA StepKeepsInv ==
  ASSUME MachineInv, [Next]_machineVars
  PROVE  MachineInv'
<1>1. ASSUME NEW c \in Caller, NEW e \in Event, Receive(c, e)
      PROVE  MachineInv'
  <2>1. /\ Dispatch(c, e)
        /\ crossed' = (crossed \/ \E d \in Caller : at[d] # "out")
    BY <1>1 DEF Receive
  <2>2. crossed' \in BOOLEAN
    BY <2>1
  <2>3. ~crossed' => \A d \in Caller \ {c} : at[d] = "out"
    BY <2>1
  <2> QED BY <2>1, <2>2, <2>3, DispatchKeepsInv
<1>2. ASSUME NEW c \in Caller, Transition(c)
      PROVE  MachineInv'
  BY <1>2, TransitionKeepsInv
<1>3. ASSUME NEW c \in Caller, NEW ok \in BOOLEAN, Return(c, ok)
      PROVE  MachineInv'
  <2>1. /\ at[c] = "callback" /\ target[c] # "SHUTTING_DOWN"
        /\ Dispatch(c, Outcome(target[c], ok)) /\ crossed' = crossed
    BY <1>3 DEF Return
  <2>2. Outcome(target[c], ok) \in Event
    BY <2>1 DEF MachineInv, HasTarget, HasCallback, Outcome, Completion, Event
  <2>3. crossed' \in BOOLEAN
    BY <2>1 DEF MachineInv, TypeOK
  <2>4. ~crossed' => \A d \in Caller \ {c} : at[d] = "out"
    BY <2>1 DEF MachineInv, AloneInside
  <2> QED BY <2>1, <2>2, <2>3, <2>4, DispatchKeepsInv
<1>4. ASSUME NEW c \in Caller, ReturnShutdown(c)
      PROVE  MachineInv'
  <2>1. /\ at' = [at EXCEPT ![c] = "out"]
        /\ event' = [event EXCEPT ![c] = "none"]
        /\ target' = [target EXCEPT ![c] = "none"]
        /\ UNCHANGED <<current_state_, degrade_mode_, crossed>>
    BY <1>4 DEF ReturnShutdown
  <2>2. TypeOK'
    BY <2>1 DEF MachineInv, TypeOK
  <2>3. \A d \in Caller : at'[d] # "out" =>
          at'[d] = at[d] /\ target'[d] = target[d]
    BY <2>1 DEF MachineInv, TypeOK
  <2>4. HasTarget' /\ AloneInside'
    BY <2>1, <2>3 DEF MachineInv, HasTarget, AloneInside
  <2>5. DecisionIsAnEdge'
    BY <2>1, <2>3
       DEF MachineInv, DecisionIsAnEdge, Diagram!Edge, Diagram!Busy,
           Diagram!Idle
  <2> QED BY <2>2, <2>4, <2>5 DEF MachineInv
<1>5. CASE UNCHANGED machineVars
  BY <1>5 DEF machineVars, MachineInv, TypeOK, HasTarget, AloneInside,
              DecisionIsAnEdge, Diagram!Edge, Diagram!Busy, Diagram!Idle
<1> QED BY <1>1, <1>2, <1>3, <1>4, <1>5 DEF Next, Continue

\* No thread is in handleEvent at the start.
LEMMA InitInv == Init => MachineInv
BY DEF Init, InitMachine, MachineInv, TypeOK, HasTarget, AloneInside,
       DecisionIsAnEdge, State

(* The variables keep their types.                                         *)
THEOREM TypeCorrect == Spec => []TypeOK
<1>1. MachineInv => TypeOK
  BY DEF MachineInv
<1> QED BY InitInv, StepKeepsInv, <1>1, PTL DEF Spec

(* A state is only written along an edge of the documented diagram, as     *)
(* long as calls of handleEvent do not overlap: whatever callbacks return, *)
(* in degrade mode or not, with any number of threads.                     *)
THEOREM WalksTheDiagramAlways == Spec => WalksTheDiagram
<1>1. MachineInv /\ [Next]_machineVars
        => [~crossed' => Diagram!Move]_current_state_
  <2>1. SUFFICES ASSUME MachineInv, Next, ~crossed',
                        current_state_' # current_state_
                 PROVE  Diagram!Move
    BY DEF machineVars
  <2>2. PICK c \in Caller : Transition(c)
    BY <2>1 DEF Next, Continue, Receive, Return, ReturnShutdown, Dispatch
  <2>3. /\ at[c] = "transition" /\ current_state_' = target[c] /\ ~crossed
    BY <2>1, <2>2 DEF Transition
  <2>4. /\ <<current_state_, target[c]>> \in Diagram!Edge
        /\ target[c] \in State
    BY <2>1, <2>3 DEF MachineInv, DecisionIsAnEdge, HasTarget
  <2> QED BY <2>3, <2>4 DEF Diagram!Move, Diagram!State, Diagram!Busy,
                            Diagram!Idle, State
<1> QED BY InitInv, StepKeepsInv, <1>1, PTL DEF Spec, WalksTheDiagram

-----------------------------------------------------------------------------
(* Busy states                                                             *)

BusyState == {"PLANNING", "DATA_COLLECTING", "UPLOADING"}

\* A call that will write the state, or one whose callback is the state's.
Attends(c) ==
  at[c] = "transition" \/ (at[c] = "callback" /\ target[c] = current_state_)

BusyIsAttended == current_state_ \in BusyState => \E c \in Caller : Attends(c)

(* The result of the callback of a busy state is handled in that state,    *)
(* whatever it is: the call goes on to another transition.                 *)
LEMMA OutcomeIsHandled ==
  ASSUME NEW s \in BusyState, NEW ok \in BOOLEAN
  PROVE  "none" \notin Reaction(s, Outcome(s, ok))
<1>1. \E t \in State \ {"none"} : <<s, Outcome(s, ok), t>> \in Handled
  BY DEF BusyState, Outcome, Completion, Handled, State
<1>2. Outcome(s, ok) # "WAYPOINT_REACHED"
  BY DEF BusyState, Outcome, Completion
<1>3. Successors(s, Outcome(s, ok)) # {} /\ "none" \notin Successors(s, Outcome(s, ok))
  BY <1>1 DEF Successors, State
<1> QED
  BY <1>2, <1>3 DEF Reaction

\* A busy state is written by a call that then runs its callback, and left
\* alone by that call only for the next transition.
LEMMA AttendedStep ==
  ASSUME MachineInv, BusyIsAttended, [Next]_machineVars
  PROVE  BusyIsAttended'
<1> USE DEF BusyIsAttended, Attends
<1>1. ASSUME NEW c \in Caller, NEW e \in Event, Receive(c, e)
      PROVE  BusyIsAttended'
  BY <1>1 DEF Receive, Dispatch, MachineInv, TypeOK
<1>2. ASSUME NEW c \in Caller, Transition(c)
      PROVE  BusyIsAttended'
  BY <1>2 DEF Transition, MachineInv, TypeOK, HasCallback, BusyState
<1>3. ASSUME NEW c \in Caller, NEW ok \in BOOLEAN, Return(c, ok),
             current_state_' \in BusyState
      PROVE  \E d \in Caller : Attends(d)'
  <2>1. /\ at[c] = "callback" /\ current_state_' = current_state_
        /\ \E t \in Reaction(current_state_, Outcome(target[c], ok)) :
             /\ at' = [at EXCEPT ![c] = IF t = "none" THEN "out" ELSE "transition"]
             /\ target' = [target EXCEPT ![c] = t]
    BY <1>3 DEF Return, Dispatch
  <2>2. PICK d \in Caller : Attends(d)
    BY <1>3, <2>1
  <2>3. CASE d # c
    BY <2>1, <2>2, <2>3 DEF MachineInv, TypeOK
  <2>4. CASE d = c
    <3>1. at'[c] = "transition"
      BY <1>3, <2>1, <2>2, <2>4, OutcomeIsHandled DEF MachineInv, TypeOK
    <3> QED
      BY <3>1
  <2> QED
    BY <2>3, <2>4
<1>4. ASSUME NEW c \in Caller, ReturnShutdown(c)
      PROVE  BusyIsAttended'
  BY <1>4 DEF ReturnShutdown, MachineInv, TypeOK, BusyState
<1>5. CASE UNCHANGED machineVars
  BY <1>5 DEF machineVars
<1> QED BY <1>1, <1>2, <1>3, <1>4, <1>5 DEF Next, Continue

(* No busy state is left behind: while one lasts, some call has yet to     *)
(* write the state or is in the callback of that very state, whose result  *)
(* will be handled, however many calls interleave and whoever wrote last.  *)
(* It is the safety part of BusyEnds.                                      *)
THEOREM NoBusyStateAbandoned == Spec => []BusyIsAttended
<1>1. Init => BusyIsAttended
  BY DEF Init, BusyIsAttended, BusyState
<1> QED BY <1>1, InitInv, StepKeepsInv, AttendedStep, PTL DEF Spec
=============================================================================

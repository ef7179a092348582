----------------------------- MODULE StateMachine -----------------------------
(***************************************************************************)
(* StateMachine: handleEvent, the handlers of the states, and              *)
(* transitionToState, which writes the state, runs the action callback of  *)
(* the new state and handles the event the callback's result stands for.   *)
(* There is no lock: what a handler decides from the state it read is      *)
(* written later, and callbacks run between the two writes of one call.    *)
(***************************************************************************)
CONSTANT Caller         \* threads that call handleEvent

VARIABLES
  current_state_,
  degrade_mode_,
  at,                   \* where the call of a thread is
  event,                \* the event it handles
  target,               \* the state its handler has decided on
  crossed               \* history: two calls were in progress at once

machineVars == <<current_state_, degrade_mode_, at, event, target, crossed>>

State == {"INITIALIZING", "IDLE", "PLANNING", "NAVIGATING", "DATA_COLLECTING",
          "UPLOADING", "ERROR", "SHUTTING_DOWN"}
Event == {"INIT_COMPLETE", "PLAN_REQUEST", "PLAN_COMPLETE",
          "NAVIGATION_START", "WAYPOINT_REACHED", "TRIGGERED",
          "DATA_COLLECTED", "UPLOAD_REQUEST", "UPLOAD_COMPLETE",
          "ERROR_OCCURRED", "RECOVERY_REQUEST", "SHUTDOWN_REQUEST"}

InitMachine ==
  /\ degrade_mode_ = FALSE
  /\ at = [c \in Caller |-> "out"]
  /\ event = [c \in Caller |-> "none"]
  /\ target = [c \in Caller |-> "none"]
  /\ crossed = FALSE

Init == InitMachine /\ current_state_ = "INITIALIZING"

\* The transitions of the handlers: in a state, for an event, to a state.  At
\* a waypoint should_collect and navigate_step choose.
Handled ==
  { <<"INITIALIZING", "INIT_COMPLETE", "IDLE">>,
    <<"IDLE", "PLAN_REQUEST", "PLANNING">>,
    <<"IDLE", "UPLOAD_REQUEST", "UPLOADING">>,
    <<"IDLE", "SHUTDOWN_REQUEST", "SHUTTING_DOWN">>,
    <<"PLANNING", "PLAN_COMPLETE", "NAVIGATING">>,
    <<"PLANNING", "ERROR_OCCURRED", "ERROR">>,
    <<"NAVIGATING", "WAYPOINT_REACHED", "DATA_COLLECTING">>,
    <<"NAVIGATING", "WAYPOINT_REACHED", "UPLOADING">>,
    <<"NAVIGATING", "TRIGGERED", "DATA_COLLECTING">>,
    <<"NAVIGATING", "ERROR_OCCURRED", "ERROR">>,
    <<"DATA_COLLECTING", "DATA_COLLECTED", "NAVIGATING">>,
    <<"DATA_COLLECTING", "ERROR_OCCURRED", "ERROR">>,
    <<"UPLOADING", "UPLOAD_COMPLETE", "IDLE">>,
    <<"UPLOADING", "ERROR_OCCURRED", IF degrade_mode_ THEN "IDLE" ELSE "ERROR">>,
    <<"ERROR", "RECOVERY_REQUEST", "IDLE">>,
    <<"ERROR", "SHUTDOWN_REQUEST", "SHUTTING_DOWN">> }

Successors(s, e) == {t \in State : <<s, e, t>> \in Handled}

\* What the handler of s may do with e: go to a state, or do nothing.
Reaction(s, e) ==
  IF Successors(s, e) = {} \/ e = "WAYPOINT_REACHED"
  THEN Successors(s, e) \cup {"none"}
  ELSE Successors(s, e)

\* Mutant: transitionToState is called without a look at the decision.
DispatchAlways(c, e) ==
  \E t \in Reaction(current_state_, e) :
    /\ at' = [at EXCEPT ![c] = "transition"]
    /\ event' = [event EXCEPT ![c] = e]
    /\ target' = [target EXCEPT ![c] = t]
    /\ UNCHANGED <<current_state_, degrade_mode_>>

\* handleEvent reads the state and lets its handler decide.  An event that is
\* not expected is dropped and the call returns.
Dispatch(c, e) ==
  \E t \in Reaction(current_state_, e) :
    /\ at' = [at EXCEPT ![c] = IF t = "none" THEN "out" ELSE "transition"]
    /\ event' = [event EXCEPT ![c] = IF t = "none" THEN "none" ELSE e]
    /\ target' = [target EXCEPT ![c] = t]
    /\ degrade_mode_' = (degrade_mode_ \/
                          (current_state_ = "ERROR" /\ e = "RECOVERY_REQUEST"))
    /\ UNCHANGED current_state_

Receive(c, e) ==
  /\ at[c] = "out"
  /\ Dispatch(c, e)
  /\ crossed' = (crossed \/ \E d \in Caller : at[d] # "out")

\* Mutant: the upload callback is not set.
HasNoUpload == {"PLANNING", "DATA_COLLECTING", "SHUTTING_DOWN"}

HasCallback == {"PLANNING", "DATA_COLLECTING", "UPLOADING", "SHUTTING_DOWN"}

\* Mutant: in degrade mode no transition ends in ERROR.
TransitionDegraded(c) ==
  /\ at[c] = "transition"
  /\ current_state_' = IF degrade_mode_ /\ target[c] = "ERROR" THEN "IDLE"
                                                              ELSE target[c]
  /\ at' = [at EXCEPT ![c] = IF target[c] \in HasCallback THEN "callback"
                                                          ELSE "out"]
  /\ UNCHANGED <<event, target, degrade_mode_, crossed>>

\* transitionToState up to the callback of the new state
Transition(c) ==
  /\ at[c] = "transition"
  /\ current_state_' = target[c]
  /\ IF target[c] \in HasCallback
     THEN /\ at' = [at EXCEPT ![c] = "callback"]
          /\ UNCHANGED <<event, target>>
     ELSE /\ at' = [at EXCEPT ![c] = "out"]
          /\ event' = [event EXCEPT ![c] = "none"]
          /\ target' = [target EXCEPT ![c] = "none"]
  /\ UNCHANGED <<degrade_mode_, crossed>>

\* The event a callback stands for when it returns ok.
Completion == [PLANNING        |-> "PLAN_COMPLETE",
               DATA_COLLECTING |-> "DATA_COLLECTED",
               UPLOADING       |-> "UPLOAD_COMPLETE"]
Outcome(t, ok) == IF ok THEN Completion[t] ELSE "ERROR_OCCURRED"

\* plan, collect or upload returns and transitionToState calls handleEvent.
Return(c, ok) ==
  /\ at[c] = "callback"
  /\ target[c] # "SHUTTING_DOWN"
  /\ Dispatch(c, Outcome(target[c], ok))
  /\ UNCHANGED crossed

\* on_shutdown returns.
ReturnShutdown(c) ==
  /\ at[c] = "callback"
  /\ target[c] = "SHUTTING_DOWN"
  /\ at' = [at EXCEPT ![c] = "out"]
  /\ event' = [event EXCEPT ![c] = "none"]
  /\ target' = [target EXCEPT ![c] = "none"]
  /\ UNCHANGED <<current_state_, degrade_mode_, crossed>>

\* What a call does once it is made.
Continue(c) ==
  \/ Transition(c)
  \/ \E ok \in BOOLEAN : Return(c, ok)
  \/ ReturnShutdown(c)

Next == \E c \in Caller : Continue(c) \/ \E e \in Event : Receive(c, e)

\* A call goes on and its callbacks return; nobody has to send an event.
Fairness == \A c \in Caller : WF_machineVars(Continue(c))

Spec == Init /\ [][Next]_machineVars
FairSpec == Spec /\ Fairness

-----------------------------------------------------------------------------
(* Properties                                                              *)

TypeOK ==
  /\ current_state_ \in State
  /\ degrade_mode_ \in BOOLEAN
  /\ at \in [Caller -> {"out", "transition", "callback"}]
  /\ event \in [Caller -> Event \cup {"none"}]
  /\ target \in [Caller -> State \cup {"none"}]
  /\ crossed \in BOOLEAN

(* As long as calls do not overlap, they walk the documented diagram,      *)
(* although a call reads the state, writes it, runs a callback and reads   *)
(* the state again.                                                        *)
Diagram == INSTANCE StateDiagram WITH state <- current_state_
WalksTheDiagram == [][~crossed' => Diagram!Move]_current_state_

(* A callback that has begun keeps no state busy for ever, also when the   *)
(* calls of several threads interleave: a thread whose decision is written *)
(* late still sees its own callback end and its result handled.            *)
BusyEnds ==
  \A s \in {"PLANNING", "DATA_COLLECTING", "UPLOADING"} :
    (current_state_ = s) ~> (current_state_ # s)
=============================================================================

----------------------------- MODULE EdgeRuntime -----------------------------
(***************************************************************************)
(* The recorder and the system state machine in one process.  They share   *)
(* current_state_: TriggerRecord writes it with setCurrentState, behind    *)
(* the back of the event handlers, and both TriggerRecord and              *)
(* OnMessageReceived take what they read there for the recorder's own      *)
(* state.  The application ends by giving up its reference to the planner, *)
(* which owns the executor and with it the worker.                         *)
(***************************************************************************)
EXTENDS Recorder

CONSTANT Caller         \* threads that call handleEvent

VARIABLES
  degrade_mode_, at, event, target, crossed,
  exited                \* main has returned

Machine == INSTANCE StateMachine

\* What the state machine has to itself, and what the recorder has.
ownMachineVars == <<degrade_mode_, at, event, target, crossed>>
ownRecorderVars == <<clockVars, channel, bufferVars, serviceVars, bagVars,
                     recordVars, worker, phase, record_queue_, cancelVars>>
allVars == <<vars, ownMachineVars, exited>>

\* initialize() of the application: first the state machine, then the planner
\* with its executor and recorder.
InitRuntime ==
  /\ InitRecorder
  /\ Machine!InitMachine
  /\ current_state_ = "IDLE"
  /\ exited = FALSE

\* The parts of the planner that hold a reference to it: node_ of each of them
\* is a shared_ptr, given away with shared_from_this().
Holder == {"executor", "recorder", "channels"}

\* dcp_.reset() returns: at once if somebody else holds the planner, or when
\* the destructor of the executor has joined the worker.
ResetReturns == Holder # {} \/ worker = "exited"

RecorderStep ==
  /\ ~exited
  /\ Tick \/ Channel \/ Service \/ Worker \/ Ignore \/ BreakOff
  /\ UNCHANGED <<ownMachineVars, exited>>

\* on_shutdown is dcp_.reset().
MachineStep(c) ==
  /\ ~exited
  /\ \/ Machine!Transition(c)
     \/ \E ok \in BOOLEAN : Machine!Return(c, ok)
     \/ ResetReturns /\ Machine!ReturnShutdown(c)
  /\ UNCHANGED <<ownRecorderVars, exited>>

ReceiveEvent(c) ==
  /\ ~exited
  /\ \E e \in Machine!Event : Machine!Receive(c, e)
  /\ UNCHANGED <<ownRecorderVars, exited>>

\* run() has done its cycles or was told to stop; shutdown() resets dcp_, and
\* main returns.  The threads end wherever they are.
ExitProcess ==
  /\ ~exited
  /\ ResetReturns
  /\ exited' = TRUE
  /\ UNCHANGED <<vars, ownMachineVars>>

NextRuntime ==
  \/ RecorderStep
  \/ \E c \in Caller : MachineStep(c) \/ ReceiveEvent(c)
  \/ ExitProcess

\* Time passes and a thread that can run does.  Nobody has to send an event, a
\* message or a trigger, and the process need not end.
FairnessRuntime ==
  /\ WF_allVars(RecorderStep /\ Tick)
  /\ WF_allVars(RecorderStep /\ (NameBag \/ StartCooldown \/ SnapshotAndQueue))
  /\ WF_allVars(RecorderStep /\ (Worker \/ Ignore))
  /\ \A c \in Caller : WF_allVars(MachineStep(c))

SpecRuntime == InitRuntime /\ [][NextRuntime]_allVars
FairSpecRuntime == SpecRuntime /\ FairnessRuntime

-----------------------------------------------------------------------------
(* Properties                                                              *)

(* A recording leaves the state machine in no busy state for ever, however *)
(* the worker's setCurrentState calls fall between the reads and the       *)
(* writes of the event handlers.                                           *)
BusyEnds ==
  \A s \in {"PLANNING", "DATA_COLLECTING", "UPLOADING"} :
    (current_state_ = s) ~> (current_state_ # s \/ exited)

(* A trigger the service has admitted comes to an end, recorded or         *)
(* ignored: no state another thread puts the machine in stops the worker   *)
(* or holds up the queue behind it.                                        *)
TriggersServed ==
  (service = "snapshot" \/ record_queue_ # << >> \/ worker # "idle")
    ~> ((record_queue_ = << >> /\ worker = "idle") \/ exited)

(* The comment of recordWorkerLoop, "Drain remaining items on shutdown":   *)
(* the process does not end with triggers in the queue.                    *)
DrainedOnShutdown == exited => record_queue_ = << >>
=============================================================================

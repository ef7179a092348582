------------------------------ MODULE Mission ------------------------------
(***************************************************************************)
(* The cycles of ApplicationRunner::run with the planner's executeMission: *)
(* RobotController drives along a path or waits at each of its waypoints   *)
(* (PositionTracker), tryCollect asks the triggers whether to collect and  *)
(* calls the trigger service, and at the end of a cycle the uploader is    *)
(* started.  The service runs on a thread of its own: its answer may come  *)
(* when the caller has given up.                                           *)
(*                                                                         *)
(* Distances are in places.  There is no clock: the three intervals a      *)
(* trigger has to keep (between collections, isInCooldown, the gate's) run *)
(* from the start and after each trigger, and at any later moment they may *)
(* be over or not.                                                         *)
(***************************************************************************)
EXTENDS PositionTracker, FiniteSetsExt, SequencesExt

CONSTANTS
  PathLength,         \* bound: waypoints of a planned path
  GateStep,           \* gait_config_.min_step_distance
  HistorySize,        \* MAX_HISTORY_SIZE
  MaxCycles,          \* config_.max_cycles
  MaxRequests         \* bound: calls of the trigger service

ASSUME MissionAssumption ==
  /\ PathLength \in Nat \ {0} /\ GateStep \in Nat /\ HistorySize \in Nat
  /\ MaxCycles \in Nat /\ MaxRequests \in Nat

VARIABLES
  action_type,        \* "velocity_cmd" or "path_tracking"
  upload,             \* AER_ENABLE_UPLOAD
  runner,             \* where the main thread is
  cycle,
  path,               \* of this cycle
  index,              \* of the waypoint
  retrying,           \* the second call of the checker at a waypoint
  last_collected_pos,
  nr,                 \* number of the last request
  requests,           \* sent, not answered
  responses,          \* numbers and results of answers
  collected,          \* requests that count as data points
  given_up,           \* requests whose caller has stopped waiting
  admitted,           \* requests the service has admitted
  last_robot_position_,   \* of TriggerManager
  last_trigger_position_,
  collection_history_,
  uploader            \* its thread: none or running

configVars == <<action_type, upload>>
walkVars == <<cycle, path, index, retrying>>
collectVars == <<last_collected_pos, collected, given_up>>
serviceVars == <<nr, requests, responses, admitted>>
gateVars == <<last_trigger_position_, collection_history_>>
vars == <<configVars, runner, walkVars, collectVars,
          serviceVars, gateVars, last_robot_position_, uploader, trackerVars>>

Init ==
  /\ InitTracker
  /\ action_type \in {"velocity_cmd", "path_tracking"} /\ upload \in BOOLEAN
  /\ runner = "loop" /\ cycle = 0 /\ path = << >> /\ index = 1
  /\ retrying = FALSE
  /\ last_collected_pos = None
  /\ nr = 0 /\ requests = {} /\ responses = {}
  /\ collected = {} /\ given_up = {} /\ admitted = {}
  /\ last_robot_position_ = None /\ last_trigger_position_ = 0
  /\ collection_history_ = << >>
  /\ uploader = "none"

Distance(p, q) == IF p > q THEN p - q ELSE q - p

-----------------------------------------------------------------------------
(* ApplicationRunner::run                                                  *)

\* planMission may return any path; the robot's position goes in front of it
\* if its service answers.
BeginCycle ==
  /\ runner = "loop"
  /\ cycle < MaxCycles
  /\ cycle' = cycle + 1
  /\ \E p \in [1 .. PathLength -> Place] : \/ path' = p
                                       \/ \E here \in Place :
                                            path' = <<here>> \o p
  /\ index' = IF action_type = "velocity_cmd" THEN 2 ELSE 1
  /\ runner' = "walk"
  /\ last_collected_pos' = None
  /\ UNCHANGED <<configVars, retrying, collected,
                 given_up, serviceVars, gateVars, last_robot_position_,
                 uploader, trackerVars>>

\* The last cycle is over, or a shutdown was requested.
EndRun ==
  /\ runner = "loop"
  /\ runner' = "done"
  /\ UNCHANGED <<configVars, walkVars, collectVars,
                 serviceVars, gateVars, last_robot_position_, uploader,
                 trackerVars>>

\* uploadCollectedData: Start assigns to worker_thread_, and a thread that is
\* still joinable there ends the process.  Nothing makes the thread end.
Upload ==
  /\ runner = "upload"
  /\ runner' = IF upload /\ uploader = "running" THEN "terminated" ELSE "loop"
  /\ uploader' = IF upload THEN "running" ELSE uploader
  /\ UNCHANGED <<configVars, walkVars, collectVars,
                 serviceVars, gateVars, last_robot_position_, trackerVars>>

-----------------------------------------------------------------------------
(* RobotController                                                         *)

GoTo(pc) ==
  /\ runner' = pc
  /\ UNCHANGED <<configVars, collectVars, serviceVars,
                 gateVars, last_robot_position_, uploader>>

Stay == UNCHANGED <<cycle, path, index, retrying>>

NextWaypoint ==
  /\ index' = index + 1 /\ retrying' = FALSE
  /\ UNCHANGED <<cycle, path>>

EndWalk ==
  /\ runner = "walk" /\ index > Len(path)
  /\ GoTo("upload") /\ Stay /\ UNCHANGED trackerVars

\* executePathTracking
WaitForWaypoint ==
  /\ runner = "walk" /\ index <= Len(path) /\ action_type = "path_tracking"
  /\ BeginWait
  /\ GoTo("wait") /\ Stay

WaitStep ==
  /\ runner = "wait"
  /\ SetTarget(path[index]) \/ TestReached \/ Block \/ Timeout
  /\ GoTo("wait") /\ Stay

\* Mutant: a waypoint that was missed is waited for again.
WaitReturnsInsisting ==
  /\ runner = "wait"
  /\ ReturnWait
  /\ \/ waiter = "reached" /\ GoTo("collect") /\ Stay
     \/ waiter = "missed" /\ GoTo("walk") /\ Stay

WaitReturns ==
  /\ runner = "wait"
  /\ ReturnWait
  /\ \/ waiter = "reached" /\ GoTo("collect") /\ Stay
     \/ waiter = "missed" /\ GoTo("walk") /\ NextWaypoint

\* executeVelocityCommands: the loop sees the robot at the waypoint, or the
\* waypoint's time is over, or its 5000 rounds are.
Drive ==
  /\ runner = "walk" /\ index <= Len(path) /\ action_type = "velocity_cmd"
  /\ \/ getCurrentPosition = path[index] /\ GoTo("collect") /\ Stay
     \/ GoTo("walk") /\ NextWaypoint
     \/ GoTo("upload") /\ Stay
  /\ UNCHANGED trackerVars

-----------------------------------------------------------------------------
(* tryCollect and TriggerManager                                           *)

\* The checker has no data point: the velocity loop asks once more.
NoDataPoint ==
  IF action_type = "velocity_cmd" /\ ~retrying
    THEN /\ runner' = "collect" /\ retrying' = TRUE
         /\ UNCHANGED <<cycle, path, index>>
    ELSE runner' = "walk" /\ NextWaypoint

\* shouldTrigger goes by the robot's position, if there has been one.
GatePosition == IF last_robot_position_ = None THEN path[index]
                ELSE last_robot_position_

GateOpen ==
  /\ Distance(GatePosition, last_trigger_position_) >= GateStep
  /\ \A h \in ToSet(collection_history_) :
       2 * Distance(GatePosition, h) >= GateStep

\* Too close, or one of the intervals still runs.
Decline ==
  /\ runner = "collect"
  /\ NoDataPoint
  /\ UNCHANGED <<configVars, collectVars, serviceVars,
                 gateVars, last_robot_position_, uploader, trackerVars>>

\* Mutant: the history is never cut.
PassGateGrowing ==
  /\ last_trigger_position_' = GatePosition
  /\ collection_history_' = Append(collection_history_, GatePosition)

\* The gate counts the place as collected before the service is asked.
PassGate ==
  /\ last_trigger_position_' = GatePosition
  /\ LET longer == Append(collection_history_, GatePosition) IN
     collection_history_' = IF Len(longer) > HistorySize THEN Tail(longer)
                            ELSE longer

MayCollect ==
  /\ runner = "collect"
  /\ path[index] # last_collected_pos
  /\ GateOpen

ServiceNotReady ==
  /\ MayCollect
  /\ PassGate
  /\ NoDataPoint
  /\ UNCHANGED <<configVars, collectVars, serviceVars,
                 last_robot_position_, uploader, trackerVars>>

SendRequest ==
  /\ MayCollect
  /\ nr < MaxRequests
  /\ PassGate
  /\ nr' = nr + 1
  /\ requests' = requests \cup {nr + 1}
  /\ runner' = "await"
  /\ UNCHANGED <<configVars, walkVars, collectVars,
                 responses, admitted, last_robot_position_,
                 uploader, trackerVars>>

\* Mutant: any answer that has come is taken for this request's.
TakeAnyResponse ==
  /\ runner = "await"
  /\ \E r \in responses :
       /\ responses' = responses \ {r}
       /\ \/ /\ r.success
             /\ collected' = collected \cup {nr}
             /\ last_collected_pos' = path[index]
             /\ runner' = "walk" /\ NextWaypoint
          \/ /\ ~r.success
             /\ NoDataPoint
             /\ UNCHANGED <<collected, last_collected_pos>>
  /\ UNCHANGED <<configVars, given_up, nr, requests,
                 admitted, gateVars, last_robot_position_, uploader,
                 trackerVars>>

TakeResponse ==
  /\ runner = "await"
  /\ \E r \in responses :
       /\ r.nr = nr
       /\ responses' = responses \ {r}
       /\ \/ /\ r.success
             /\ collected' = collected \cup {nr}
             /\ last_collected_pos' = path[index]
             /\ runner' = "walk" /\ NextWaypoint
          \/ /\ ~r.success
             /\ NoDataPoint
             /\ UNCHANGED <<collected, last_collected_pos>>
  /\ UNCHANGED <<configVars, given_up, nr, requests,
                 admitted, gateVars, last_robot_position_, uploader,
                 trackerVars>>

\* Ten seconds have passed; the request is still on its way.
GiveUp ==
  /\ runner = "await"
  /\ given_up' = given_up \cup {nr}
  /\ NoDataPoint
  /\ UNCHANGED <<configVars, last_collected_pos, collected,
                 serviceVars, gateVars, last_robot_position_,
                 uploader, trackerVars>>

-----------------------------------------------------------------------------
(* The other threads                                                       *)

\* handleTriggerService: it refuses during the cooldown and with a full disk.
HandleTrigger ==
  \E n \in requests :
    /\ requests' = requests \ {n}
    /\ \/ /\ responses' = responses \cup {[nr |-> n, success |-> FALSE]}
          /\ UNCHANGED admitted
       \/ /\ responses' = responses \cup {[nr |-> n, success |-> TRUE]}
          /\ admitted' = admitted \cup {n}
    /\ UNCHANGED <<configVars, runner, walkVars,
                   collectVars, nr, gateVars, last_robot_position_, uploader,
                   trackerVars>>

\* The odometry thread; position_callback_ is updateRobotPosition.
OdometryStep ==
  /\ \/ UpdatePosition \/ MarkReached \/ LeaveCallback \/ Notify
     \/ SpuriousWake
  /\ last_robot_position_' = IF odometry = "callback" THEN position_
                             ELSE last_robot_position_
  /\ UNCHANGED <<configVars, runner, walkVars,
                 collectVars, serviceVars, gateVars, uploader>>

RunnerStep ==
  \/ BeginCycle \/ EndRun \/ Upload \/ EndWalk \/ WaitForWaypoint \/ WaitStep
  \/ WaitReturns \/ Drive \/ Decline \/ ServiceNotReady \/ SendRequest
  \/ TakeResponse \/ GiveUp

Next == RunnerStep \/ HandleTrigger \/ OdometryStep

Spec == Init /\ [][Next]_vars

\* The main thread runs, the odometry callback returns, and a deadline passes
\* however often the wait is woken up before.  The service need not answer,
\* and the robot need not move.
FairSpec ==
  /\ Spec
  /\ WF_vars(RunnerStep)
  /\ WF_vars(OdometryStep /\ odometry # "idle" /\ odometry' # odometry)
  /\ SF_vars(WaitStep /\ Timeout)

-----------------------------------------------------------------------------
(* Properties                                                              *)

TypeOK ==
  /\ TrackerTypeOK
  /\ runner \in {"loop", "walk", "wait", "collect", "await", "upload", "done",
                 "terminated"}
  /\ cycle \in 0 .. MaxCycles /\ index \in 1 .. Len(path) + 2
  /\ last_collected_pos \in Place \cup {None}
  /\ requests \subseteq 1 .. nr
  /\ responses \subseteq [nr : 1 .. nr, success : BOOLEAN]
  /\ last_robot_position_ \in Place \cup {None}
  /\ collection_history_ \in Seq(Place)
  /\ Len(collection_history_) <= HistorySize
  /\ uploader \in {"none", "running"}

\* A data point is counted for a trigger the service has admitted, and an
\* admitted trigger is counted unless its caller has given up or still
\* waits: late answers belong to nobody else.
AdmittedIsCounted ==
  /\ collected \subseteq admitted \ given_up
  /\ admitted \subseteq
       collected \cup given_up \cup (IF runner = "await" THEN {nr} ELSE {})

\* The run comes to its end, whether the robot moves, odometry and answers
\* arrive or not; only a second start of the uploader can prevent it.
RunEnds == <>(runner = "done" \/ (upload /\ runner = "terminated"))

=============================================================================

----------------------------- MODULE Simulator -----------------------------
(***************************************************************************)
(* RobotSimulatorV2, the process robot_sim: a timer at 50 Hz that advances *)
(* the gait, then follows the path if one is set and the velocity command  *)
(* otherwise, then moves the torso; the subscription of the velocity       *)
(* command and the service that sets a path.                               *)
(*                                                                         *)
(* A velocity is one of three: what the step frequency and the duty factor *)
(* are computed from.  Where the robot is matters only as whether the next *)
(* waypoint is within the tolerance, which may change when the robot moves *)
(* or when the waypoint does.                                              *)
(***************************************************************************)
EXTENDS GaitCoordinator

CONSTANT MaxPath      \* bound: waypoints of a path

ASSUME PathAssumption == MaxPath \in Nat

VARIABLES
  target_velocity_, current_velocity_,  \* of VelocityLocomotionController
  target_path_,                         \* its length, 0: none was set
  current_waypoint_index_,
  waiting_at_waypoint_,
  near,                                 \* distance < waypoint_tolerance_
  robot_v                               \* robot_vx_ and robot_vy_: is it moving

velocityVars == <<target_velocity_, current_velocity_>>
pathVars == <<target_path_, current_waypoint_index_, waiting_at_waypoint_, near>>
simulatorVars == <<gaitVars, velocityVars, pathVars, robot_v>>

Velocity == {"still", "straight", "arc"}

SimulatorTypeOK ==
  /\ GaitTypeOK
  /\ target_velocity_ \in Velocity /\ current_velocity_ \in Velocity
  /\ target_path_ \in 0 .. MaxPath
  /\ current_waypoint_index_ \in 0 .. target_path_
  /\ waiting_at_waypoint_ \in BOOLEAN /\ near \in BOOLEAN
  /\ robot_v \in BOOLEAN

\* The constructor and startSimulation, which main calls before it spins.
InitSimulator ==
  /\ InitGait
  /\ target_velocity_ = "still" /\ current_velocity_ = "still"
  /\ target_path_ = 0 /\ current_waypoint_index_ = 0
  /\ waiting_at_waypoint_ = FALSE /\ near = FALSE
  /\ robot_v = FALSE

-----------------------------------------------------------------------------
(* VelocityLocomotionController                                            *)

\* smoothVelocity: every component comes closer to the target's by the same
\* factor; what it passes through has the parameters of one end.
Smoothed(now, target) == {now, target}

\* velocityToGaitParameters: turning lowers the duty factor, speed raises the
\* step frequency.
VelocityToGaitParameters(v) ==
  IF v = "still" THEN Standing
  ELSE IF v = "straight" THEN [step_frequency |-> 2, duty_factor |-> 6]
  ELSE [step_frequency |-> 1, duty_factor |-> 5]

\* velocityCommandCallback, in the timer's callback group.
VelocityCommand(v) ==
  /\ running_
  /\ target_velocity_' = v
  /\ UNCHANGED <<gaitVars, current_velocity_, pathVars, robot_v>>

\* setTargetPath, on the thread of the services.
SetTargetPath(n) ==
  /\ running_
  /\ target_path_' = n
  /\ current_waypoint_index_' = 0
  /\ waiting_at_waypoint_' = FALSE
  /\ near' \in {FALSE, n > 0}
  /\ UNCHANGED <<gaitVars, velocityVars, robot_v>>

-----------------------------------------------------------------------------
(* updateSimulation                                                        *)

VelocityControlUpdate ==
  /\ target_path_ = 0
  /\ current_velocity_' \in Smoothed(current_velocity_, target_velocity_)
  /\ SetGaitParameters(VelocityToGaitParameters(current_velocity_'))
  /\ UNCHANGED <<target_path_, current_waypoint_index_, waiting_at_waypoint_>>

\* The four ways through pathTrackingControl.  The step length it computes
\* goes to the coordinator with the rest of the parameters as they were.
PathCompleted ==
  /\ current_waypoint_index_ = target_path_
  /\ UNCHANGED <<current_waypoint_index_, waiting_at_waypoint_>>

WaitAtWaypoint ==
  /\ current_waypoint_index_ < target_path_
  /\ waiting_at_waypoint_
  /\ UNCHANGED <<current_waypoint_index_, waiting_at_waypoint_>>

ReachWaypoint ==
  /\ current_waypoint_index_ < target_path_
  /\ near
  /\ current_waypoint_index_' = current_waypoint_index_ + 1
  /\ waiting_at_waypoint_' = TRUE

TurnToWaypoint ==
  /\ current_waypoint_index_ < target_path_
  /\ ~near
  /\ waiting_at_waypoint_' = FALSE
  /\ UNCHANGED current_waypoint_index_

PathTrackingControl ==
  /\ target_path_ > 0
  /\ PathCompleted \/ WaitAtWaypoint \/ ReachWaypoint \/ TurnToWaypoint
  /\ UNCHANGED <<params_, current_velocity_, target_path_>>

\* updateTorsoFromFeet: velocity control is on, so the controller's velocity
\* moves the torso, whether or not a path is followed.
UpdateTorso ==
  /\ robot_v' = (current_velocity_' # "still")
  /\ \/ near' = near
     \/ /\ current_waypoint_index_' < target_path_
        /\ robot_v' \/ current_waypoint_index_' # current_waypoint_index_
        /\ near' = ~near

Tick ==
  /\ UpdateGait
  /\ VelocityControlUpdate \/ PathTrackingControl
  /\ UpdateTorso
  /\ UNCHANGED target_velocity_

StopSimulation ==
  /\ running_
  /\ StopGait
  /\ UNCHANGED <<velocityVars, pathVars, robot_v>>

NextSimulator ==
  \/ \E v \in Velocity : VelocityCommand(v)
  \/ \E n \in 0 .. MaxPath : SetTargetPath(n)
  \/ Tick
  \/ StopSimulation

SpecSimulator == InitSimulator /\ [][NextSimulator]_simulatorVars

\* The timer fires.
FairSpecSimulator == SpecSimulator /\ WF_simulatorVars(Tick)

-----------------------------------------------------------------------------
\* updateTorsoFromFeet knows single and double support only.  Once the
\* parameters do not change any more, there comes a time from which a leg
\* always supports, whatever standstill or turn interrupted a swing before
\* (a leg that lifts late lands late, and the other does not wait for it).
GaitRecovers ==
  \A p \in GaitParameters \ {Standing} :
    <>[](running_ /\ params_ = p) => <>[](\E leg \in Legs : Supports(leg))

\* A robot that keeps walking lands each of its legs again and again: no leg
\* misses its landing for good by being in the air when its stance begins,
\* however often direction and speed change.
StepsGoOn ==
  <>[](running_ /\ params_.step_frequency > 0)
    => \A leg \in Legs : []<>(legs[leg].state = "CONTACT")

\* A robot that was given a path walks it: until its end, until another path
\* is set or until the simulator stops, it is not left standing.
PathIsWalked ==
  target_path_ > 0 ~> \/ robot_v
                      \/ current_waypoint_index_ = target_path_
                      \/ ~running_

\* velocityToGaitParameters sets a duty factor of 1 so that a robot that was
\* told to stand has both feet on the ground in the end.  No run checks this:
\* a leg that was swinging then is not advanced and stays in the air.
StandsStill ==
  <>[](running_ /\ params_ = Standing) => <>[](\A leg \in Legs : ~Swings(leg))
=============================================================================

-------------------------- MODULE PositionTracker --------------------------
(***************************************************************************)
(* RobotPositionTracker: the odometry callback, which decides whether the  *)
(* robot is at the waypoint, and waitForWaypoint, which sleeps until it is *)
(* or until its time is over.                                              *)
(*                                                                         *)
(* The callback works under position_mutex_, the wait under                *)
(* waypoint_mutex_; target_waypoint_ and the two flags belong to both.     *)
(* waitForWaypoint takes position_mutex_ only to log the age of the        *)
(* position, before it sets a target and after it has given up, and to     *)
(* read the position after it has succeeded; these moments keep a callback *)
(* that has seen the old target from marking the new one as reached.       *)
(* Places are points of a line, the tolerance is less than their distance. *)
(***************************************************************************)
EXTENDS Naturals

CONSTANTS
  LastPlace,          \* bound: places are 0 .. LastPlace, and 0 is the origin
  None                \* no position, no target

Place == 0 .. LastPlace

ASSUME PlaceAssumption == LastPlace \in Nat /\ None \notin Place

VARIABLES
  position_,          \* where the last odometry message saw it
  odometry,           \* where onOdometry is
  should_notify,
  target_waypoint_,
  waypoint_reached_,
  waypoint_waiting_,
  waiter,             \* where waitForWaypoint is
  seen                \* history: positions of the messages since the target
                      \* was set

waypointVars == <<target_waypoint_, waypoint_reached_, waypoint_waiting_>>
\* Before the first message getCurrentPosition returns the origin.
getCurrentPosition == IF position_ = None THEN 0 ELSE position_

odometryVars == <<position_, odometry, should_notify>>
trackerVars == <<odometryVars, waypointVars, waiter, seen>>

InitTracker ==
  /\ position_ = None
  /\ odometry = "idle" /\ should_notify = FALSE
  /\ target_waypoint_ = None
  /\ waypoint_reached_ = FALSE /\ waypoint_waiting_ = FALSE
  /\ waiter = "none" /\ seen = {}

-----------------------------------------------------------------------------
(* onOdometry                                                              *)

\* Under position_mutex_: the position, which may be any, and the decision;
\* then the flag.
UpdatePosition ==
  /\ odometry = "idle"
  /\ position_' \in Place
  /\ seen' = seen \cup {position_'}
  /\ should_notify' = (waypoint_waiting_ /\ position_' = target_waypoint_)
  /\ odometry' = IF should_notify' THEN "mark" ELSE "callback"
  /\ UNCHANGED <<waypointVars, waiter>>

MarkReached ==
  /\ odometry = "mark"
  /\ waypoint_reached_' = TRUE
  /\ odometry' = "callback"
  /\ UNCHANGED <<position_, should_notify, target_waypoint_,
                 waypoint_waiting_, waiter, seen>>

\* After position_callback_, which Mission adds; without waypoint_mutex_.
LeaveCallback ==
  /\ odometry = "callback"
  /\ odometry' = IF should_notify THEN "notify" ELSE "idle"
  /\ UNCHANGED <<position_, should_notify, waypointVars, waiter, seen>>

Notify ==
  /\ odometry = "notify"
  /\ odometry' = "idle" /\ should_notify' = FALSE
  /\ waiter' = IF waiter = "asleep" THEN "test" ELSE waiter
  /\ UNCHANGED <<position_, waypointVars, seen>>

-----------------------------------------------------------------------------
(* waitForWaypoint                                                         *)

\* Mutant: the blocks that only log are gone.
PositionMutexIgnored == TRUE

PositionMutexFree == odometry # "mark"

BeginWait ==
  /\ PositionMutexFree
  /\ waiter' = "target"
  /\ UNCHANGED <<odometryVars, waypointVars, seen>>

SetTarget(w) ==
  /\ waiter = "target"
  /\ target_waypoint_' = w
  /\ waypoint_reached_' = FALSE
  /\ waypoint_waiting_' = TRUE
  /\ waiter' = "test"
  /\ seen' = {}
  /\ UNCHANGED odometryVars

\* The wait is over: both flags are reset.
EndWait(outcome) ==
  /\ waypoint_waiting_' = FALSE /\ waypoint_reached_' = FALSE
  /\ waiter' = outcome
  /\ UNCHANGED <<odometryVars, target_waypoint_, seen>>

\* The predicate, and the moment before the thread sleeps, in which a
\* notification is lost.
TestReached ==
  /\ waiter = "test"
  /\ \/ waypoint_reached_ /\ EndWait("reached")
     \/ /\ ~waypoint_reached_
        /\ waiter' = "block"
        /\ UNCHANGED <<odometryVars, waypointVars, seen>>

Block ==
  /\ waiter = "block"
  /\ waiter' = "asleep"
  /\ UNCHANGED <<odometryVars, waypointVars, seen>>

SpuriousWake ==
  /\ waiter = "asleep"
  /\ waiter' = "test"
  /\ UNCHANGED <<odometryVars, waypointVars, seen>>

\* wait_until looks at the predicate once more.
Timeout ==
  /\ waiter = "asleep"
  /\ EndWait(IF waypoint_reached_ THEN "reached" ELSE "missed")

\* The blocks after the wait; then the caller goes on.
ReturnWait ==
  /\ waiter \in {"reached", "missed"}
  /\ PositionMutexFree
  /\ waiter' = "none"
  /\ UNCHANGED <<odometryVars, waypointVars, seen>>

-----------------------------------------------------------------------------
(* Properties                                                              *)

TrackerTypeOK ==
  /\ position_ \in Place \cup {None}
  /\ odometry \in {"idle", "mark", "callback", "notify"}
  /\ should_notify \in BOOLEAN
  /\ target_waypoint_ \in Place \cup {None}
  /\ waypoint_reached_ \in BOOLEAN /\ waypoint_waiting_ \in BOOLEAN
  /\ waiter \in {"none", "target", "test", "block", "asleep", "reached",
                 "missed"}
  /\ seen \subseteq Place

\* A wait that succeeds has seen the robot at its own waypoint, however late
\* the callback marked it and whatever wait went before: the flag of an
\* earlier waypoint is never taken for the new one's.
ReachedWasThere == waiter = "reached" => target_waypoint_ \in seen

=============================================================================

---------------------------- MODULE Driving_proofs ----------------------------
(***************************************************************************)
(* Proofs about the application that drives the robot and about the robot  *)
(* that is driven.                                                         *)
(*                                                                         *)
(* Mission and the PositionTracker in it, for any places, paths,           *)
(* histories, cycles and requests: the type invariant, that a wait that    *)
(* succeeds has seen the robot at its own waypoint, and that data points   *)
(* are counted for the triggers that were admitted.                        *)
(*                                                                         *)
(* Simulator and the GaitCoordinator in it, for any length of the cycle    *)
(* and of the paths: the type invariant, and that legs which are in step   *)
(* with the phase stay in step, so that one of them always supports, until *)
(* the parameters of the gait change.                                      *)
(***************************************************************************)
EXTENDS Mission, Simulator, TLAPS

-----------------------------------------------------------------------------
(* The invariants                                                          *)

\* A mark on its way belongs to the target of a wait that has not returned,
\* and so does the flag it sets.
WaitInv ==
  /\ odometry = "mark" =>
       /\ position_ = target_waypoint_ /\ position_ \in seen
       /\ waiter \notin {"none", "target"}
  /\ waypoint_reached_ => target_waypoint_ \in seen
  /\ waiter \in {"none", "target", "reached", "missed"} => ~waypoint_waiting_
  /\ ReachedWasThere

\* Whoever is at a waypoint has one; a walk may step over the end of the
\* path, once, when the path is shorter than its first index.
WalkInv ==
  /\ path \in Seq(Place) /\ index \in Nat
  /\ runner \in {"wait", "collect", "await"} => index \in 1 .. Len(path)
  /\ runner # "wait" => waiter = "none"
  /\ cycle \in Nat /\ nr \in Nat
  /\ last_trigger_position_ \in Place

\* A request is sent, answered and taken once: its answer says whether it
\* was admitted, and nobody but its caller or one who gave up has sent it.
ServiceInv ==
  /\ collected \subseteq 1 .. nr /\ given_up \subseteq 1 .. nr
  /\ admitted \subseteq 1 .. nr
  /\ runner = "await" => nr \in (1 .. nr) \ (given_up \cup collected)
  /\ requests \subseteq given_up \cup (IF runner = "await" THEN {nr} ELSE {})
  /\ requests \cap admitted = {}
  /\ \A r \in responses :
       r.nr \notin requests /\ (r.success <=> r.nr \in admitted)
  /\ AdmittedIsCounted

MissionInv == TypeOK /\ WalkInv /\ WaitInv /\ ServiceInv

USE DEF configVars, walkVars, collectVars, serviceVars, gateVars, odometryVars,
        waypointVars, trackerVars

-----------------------------------------------------------------------------
(* The tracker                                                             *)

\* What a step of the callback or of the wait has to keep.
TrackerInv == TrackerTypeOK /\ WaitInv

(* The callback keeps the tracker's invariant: a mark is made for the      *)
(* target of a wait, and that target stays until the callback is done.     *)
LEMMA OdometryKeepsTracker ==
  TrackerInv /\ (UpdatePosition \/ MarkReached \/ LeaveCallback \/ Notify)
    => TrackerInv'
<1> SUFFICES ASSUME TrackerInv,
                    UpdatePosition \/ MarkReached \/ LeaveCallback \/ Notify
             PROVE  TrackerInv'
  OBVIOUS
<1> USE DEF TrackerInv, TrackerTypeOK, WaitInv, ReachedWasThere
<1>1. CASE UpdatePosition
  <2>1. CASE should_notify'
    <3>1. /\ odometry' = "mark" /\ position_' = target_waypoint_'
          /\ position_' \in seen' /\ waypoint_waiting_
      BY <1>1, <2>1 DEF UpdatePosition
    <3> QED
      BY <1>1, <3>1 DEF UpdatePosition
  <2>2. CASE ~should_notify'
    <3>1. /\ odometry' = "callback" /\ should_notify' \in BOOLEAN
          /\ position_' \in Place /\ seen' = seen \cup {position_'}
          /\ UNCHANGED <<waypointVars, waiter>>
      BY <1>1, <2>2 DEF UpdatePosition
    <3>2. waypoint_reached_' => target_waypoint_' \in seen'
      BY <3>1
    <3> QED
      BY <3>1, <3>2
  <2> QED
    BY <2>1, <2>2
<1>2. CASE MarkReached
  <2>1. /\ target_waypoint_ \in seen /\ waypoint_reached_' = TRUE
        /\ odometry' = "callback"
    BY <1>2 DEF MarkReached
  <2> QED
    BY <1>2, <2>1 DEF MarkReached
<1>3. CASE LeaveCallback
  BY <1>3 DEF LeaveCallback
<1>4. CASE Notify
  BY <1>4 DEF Notify
<1> QED
  BY <1>1, <1>2, <1>3, <1>4

(* waitForWaypoint keeps it: it sets a target only when no mark is on its  *)
(* way, since it has held position_mutex_ after the last wait.             *)
LEMMA WaitKeepsTracker ==
  ASSUME TrackerInv, NEW w \in Place,
         \/ BeginWait /\ waiter = "none"
         \/ SetTarget(w) \/ TestReached \/ Block \/ SpuriousWake
         \/ Timeout \/ ReturnWait
  PROVE  TrackerInv'
<1> USE DEF TrackerInv, TrackerTypeOK, WaitInv, ReachedWasThere
<1>1. CASE BeginWait /\ waiter = "none"
  BY <1>1 DEF BeginWait, PositionMutexFree
<1>2. CASE SetTarget(w)
  BY <1>2 DEF SetTarget
<1>3. CASE TestReached
  <2>1. CASE waypoint_reached_ /\ EndWait("reached")
    BY <2>1 DEF EndWait
  <2>2. CASE /\ ~waypoint_reached_ /\ waiter = "test" /\ waiter' = "block"
             /\ UNCHANGED <<odometryVars, waypointVars, seen>>
    BY <2>2
  <2> QED
    BY <1>3, <2>1, <2>2 DEF TestReached
<1>4. CASE Block
  BY <1>4 DEF Block
<1>5. CASE SpuriousWake
  BY <1>5 DEF SpuriousWake
<1>6. CASE Timeout
  <2>1. CASE waypoint_reached_ /\ EndWait("reached")
    BY <2>1 DEF EndWait
  <2>2. CASE ~waypoint_reached_ /\ EndWait("missed")
    BY <2>2 DEF EndWait
  <2> QED
    BY <1>6, <2>1, <2>2 DEF Timeout
<1>7. CASE ReturnWait
  BY <1>7 DEF ReturnWait, PositionMutexFree
<1> QED
  BY <1>1, <1>2, <1>3, <1>4, <1>5, <1>6, <1>7

-----------------------------------------------------------------------------
(* The other parts, one invariant at a time                                *)

(* The gate remembers places, and never more of them than MAX_HISTORY_SIZE *)
(* of the last collections.                                                *)
LEMMA PassGateKeeps ==
  ASSUME TypeOK, WalkInv, MayCollect, PassGate
  PROVE  /\ last_trigger_position_' \in Place
         /\ collection_history_' \in Seq(Place)
         /\ Len(collection_history_') <= HistorySize
<1>1. GatePosition \in Place
  BY DEF TypeOK, WalkInv, MayCollect, GatePosition
<1> DEFINE longer == Append(collection_history_, GatePosition)
<1>2. /\ longer \in Seq(Place)
      /\ Len(longer) = Len(collection_history_) + 1
  BY <1>1 DEF TypeOK
<1>3. /\ Tail(longer) \in Seq(Place)
      /\ Len(Tail(longer)) = Len(collection_history_)
  BY <1>2 DEF TypeOK
<1>4. Len(collection_history_) \in Nat
  BY DEF TypeOK
<1> QED
  BY <1>1, <1>2, <1>3, <1>4, MissionAssumption DEF TypeOK, PassGate

\* There is a place to go to.
LEMMA PlaceIsThere == 0 \in Place
BY PlaceAssumption DEF Place

\* Most steps leave the tracker alone.
LEMMA TrackerUntouched ==
  TrackerInv /\ UNCHANGED trackerVars => TrackerInv'
BY DEF TrackerInv, TrackerTypeOK, WaitInv, ReachedWasThere

\* The parts of the invariant, the tracker's in one.
LEMMA Parts ==
  /\ MissionInv <=> TrackerInv /\ TypeOK /\ WalkInv /\ ServiceInv
  /\ (MissionInv <=> TrackerInv /\ TypeOK /\ WalkInv /\ ServiceInv)'
BY DEF MissionInv, TrackerInv, TypeOK

\* A path, with or without the robot's own place, is a sequence of places.
LEMMA BeginCycleKeeps ==
  ASSUME MissionInv, BeginCycle
  PROVE  MissionInv'
<1> USE Parts
<1>0. path' \in Seq(Place) /\ Len(path') >= 1 /\ Len(path') \in Nat
  <2>1. PICK p \in [1 .. PathLength -> Place] :
           path' = p \/ \E here \in Place : path' = <<here>> \o p
    BY DEF BeginCycle
  <2>2. p \in Seq(Place) /\ Len(p) = PathLength
    BY MissionAssumption
  <2>3. CASE path' = p
    BY <2>2, <2>3, MissionAssumption
  <2>4. CASE \E here \in Place : path' = <<here>> \o p
    <3>1. PICK here \in Place : path' = <<here>> \o p
      BY <2>4
    <3>2. <<here>> \in Seq(Place) /\ Len(<<here>>) = 1
      OBVIOUS
    <3> QED
      BY <2>2, <3>1, <3>2, MissionAssumption
  <2> QED
    BY <2>1, <2>3, <2>4
<1>1. TrackerInv'
  BY TrackerUntouched DEF BeginCycle
<1>2. TypeOK'
  BY <1>0, <1>1, MissionAssumption DEF BeginCycle, TypeOK, WalkInv, TrackerInv
<1>3. WalkInv'
  BY <1>0, MissionAssumption DEF BeginCycle, TypeOK, WalkInv
<1>4. ServiceInv'
  BY DEF BeginCycle, TypeOK, WalkInv, ServiceInv, AdmittedIsCounted
<1> QED
  BY <1>1, <1>2, <1>3, <1>4

\* The loop ends without a request on its way of its own.
LEMMA EndRunKeeps ==
  ASSUME MissionInv, EndRun
  PROVE  MissionInv'
<1> USE Parts
<1>1. TrackerInv'
  BY TrackerUntouched DEF EndRun
<1>2. TypeOK'
  BY <1>1, MissionAssumption DEF EndRun, TypeOK, WalkInv, TrackerInv
<1>3. WalkInv'
  BY MissionAssumption DEF EndRun, TypeOK, WalkInv
<1>4. ServiceInv'
  BY DEF EndRun, TypeOK, WalkInv, ServiceInv, AdmittedIsCounted
<1> QED
  BY <1>1, <1>2, <1>3, <1>4

\* The uploader touches nothing of the mission.
LEMMA UploadKeeps ==
  ASSUME MissionInv, Upload
  PROVE  MissionInv'
<1> USE Parts
<1>1. TrackerInv'
  BY TrackerUntouched DEF Upload
<1>2. TypeOK'
  BY <1>1, MissionAssumption DEF Upload, TypeOK, WalkInv, TrackerInv
<1>3. WalkInv'
  BY MissionAssumption DEF Upload, TypeOK, WalkInv
<1>4. ServiceInv'
  BY DEF Upload, TypeOK, WalkInv, ServiceInv, AdmittedIsCounted
<1> QED
  BY <1>1, <1>2, <1>3, <1>4

\* The end of the path.
LEMMA EndWalkKeeps ==
  ASSUME MissionInv, EndWalk
  PROVE  MissionInv'
<1> USE Parts
<1>1. TrackerInv'
  BY TrackerUntouched DEF EndWalk, GoTo, Stay
<1>2. TypeOK'
  BY <1>1, MissionAssumption DEF EndWalk, GoTo, Stay, TypeOK, WalkInv, TrackerInv
<1>3. WalkInv'
  BY MissionAssumption DEF EndWalk, GoTo, Stay, TypeOK, WalkInv
<1>4. ServiceInv'
  BY DEF EndWalk, GoTo, Stay, TypeOK, WalkInv, ServiceInv, AdmittedIsCounted
<1> QED
  BY <1>1, <1>2, <1>3, <1>4

\* A wait begins for a waypoint of the path.
LEMMA WaitForWaypointKeeps ==
  ASSUME MissionInv, WaitForWaypoint
  PROVE  MissionInv'
<1> USE Parts
<1>1. TrackerInv'
  BY WaitKeepsTracker DEF WaitForWaypoint, TypeOK, WalkInv
<1>2. TypeOK'
  BY <1>1, MissionAssumption DEF WaitForWaypoint, GoTo, Stay, TypeOK, WalkInv, TrackerInv
<1>3. WalkInv'
  BY MissionAssumption DEF WaitForWaypoint, GoTo, Stay, TypeOK, WalkInv
<1>4. ServiceInv'
  BY DEF WaitForWaypoint, GoTo, Stay, TypeOK, WalkInv, ServiceInv, AdmittedIsCounted
<1> QED
  BY <1>1, <1>2, <1>3, <1>4

\* The wait's own steps; its waypoint is a place of the path.
LEMMA WaitStepKeeps ==
  ASSUME MissionInv, WaitStep
  PROVE  MissionInv'
<1> USE Parts
<1>0. path[index] \in Place
  BY DEF WaitStep, WalkInv
<1>1. TrackerInv'
  BY <1>0, WaitKeepsTracker DEF WaitStep
<1>2. TypeOK'
  BY <1>1 DEF WaitStep, GoTo, Stay, TypeOK, WalkInv, TrackerInv
<1>3. WalkInv'
  BY DEF WaitStep, GoTo, Stay, TypeOK, WalkInv
<1>4. ServiceInv'
  BY DEF WaitStep, GoTo, Stay, TypeOK, WalkInv, ServiceInv, AdmittedIsCounted
<1> QED
  BY <1>1, <1>2, <1>3, <1>4

\* The caller goes on with the same waypoint or with the next.
LEMMA WaitReturnsKeeps ==
  ASSUME MissionInv, WaitReturns
  PROVE  MissionInv'
<1> USE Parts
<1>1. TrackerInv'
  <2>1. path[index] \in Place /\ ReturnWait
    BY DEF WaitReturns, WalkInv
  <2> QED
    BY <2>1, WaitKeepsTracker
<1>2. TypeOK'
  BY <1>1, MissionAssumption DEF WaitReturns, GoTo, Stay, NextWaypoint, TypeOK, WalkInv, TrackerInv
<1>3. WalkInv'
  BY MissionAssumption DEF WaitReturns, ReturnWait, GoTo, Stay, NextWaypoint, TypeOK, WalkInv
<1>4. ServiceInv'
  BY DEF WaitReturns, GoTo, Stay, NextWaypoint, TypeOK, WalkInv, ServiceInv, AdmittedIsCounted
<1> QED
  BY <1>1, <1>2, <1>3, <1>4

\* The velocity loop: at the waypoint, past it, or out of rounds.
LEMMA DriveKeeps ==
  ASSUME MissionInv, Drive
  PROVE  MissionInv'
<1> USE Parts
<1>1. TrackerInv'
  BY TrackerUntouched DEF Drive, GoTo, Stay, NextWaypoint
<1>2. TypeOK'
  BY <1>1, MissionAssumption DEF Drive, GoTo, Stay, NextWaypoint, TypeOK, WalkInv, TrackerInv
<1>3. WalkInv'
  BY MissionAssumption DEF Drive, GoTo, Stay, NextWaypoint, TypeOK, WalkInv
<1>4. ServiceInv'
  BY DEF Drive, GoTo, Stay, NextWaypoint, TypeOK, WalkInv, ServiceInv, AdmittedIsCounted
<1> QED
  BY <1>1, <1>2, <1>3, <1>4

\* Without a data point the walk goes on, or tries the waypoint once more.
LEMMA NoDataPointTypes ==
  ASSUME TypeOK, WalkInv, runner = "collect", NoDataPoint
  PROVE  /\ path' = path /\ runner' \in {"collect", "walk"}
         /\ cycle' \in 0 .. MaxCycles /\ index' \in 1 .. Len(path') + 2
<1>1. Len(path) \in Nat /\ index \in 1 .. Len(path)
  BY DEF WalkInv
<1>2. path' = path /\ cycle' = cycle /\ index' \in {index, index + 1}
  BY DEF NoDataPoint, NextWaypoint
<1>3. runner' \in {"collect", "walk"}
  BY DEF NoDataPoint
<1>4. index' \in 1 .. Len(path) + 2
  BY <1>1, <1>2
<1> QED BY <1>2, <1>3, <1>4 DEF TypeOK

\* The checker has no data point.
LEMMA DeclineKeeps ==
  ASSUME MissionInv, Decline
  PROVE  MissionInv'
<1> USE Parts
<1>1. TrackerInv'
  BY TrackerUntouched DEF Decline, NoDataPoint, NextWaypoint
<1>2. TypeOK'
  BY <1>1, NoDataPointTypes DEF Decline, TypeOK, TrackerInv
<1>3. WalkInv'
  BY MissionAssumption DEF Decline, NoDataPoint, NextWaypoint, TypeOK, WalkInv
<1>4. ServiceInv'
  BY DEF Decline, NoDataPoint, NextWaypoint, TypeOK, WalkInv, ServiceInv, AdmittedIsCounted
<1> QED
  BY <1>1, <1>2, <1>3, <1>4

\* The gate has been passed, the service is not there.
LEMMA ServiceNotReadyKeeps ==
  ASSUME MissionInv, ServiceNotReady
  PROVE  MissionInv'
<1> USE Parts
<1>0. /\ last_trigger_position_' \in Place
      /\ collection_history_' \in Seq(Place)
      /\ Len(collection_history_') <= HistorySize
  BY PassGateKeeps DEF ServiceNotReady
<1>1. TrackerInv'
  BY TrackerUntouched DEF ServiceNotReady, NoDataPoint, NextWaypoint, MayCollect
<1>2. TypeOK'
  BY <1>1, <1>0, NoDataPointTypes DEF ServiceNotReady, MayCollect, TypeOK, TrackerInv
<1>3. WalkInv'
  BY MissionAssumption, <1>0 DEF ServiceNotReady, NoDataPoint, NextWaypoint, MayCollect, TypeOK, WalkInv
<1>4. ServiceInv'
  BY DEF ServiceNotReady, NoDataPoint, NextWaypoint, MayCollect, TypeOK, WalkInv, ServiceInv, AdmittedIsCounted
<1> QED
  BY <1>1, <1>2, <1>3, <1>4

\* A request has a number of its own.
LEMMA SendRequestKeeps ==
  ASSUME MissionInv, SendRequest
  PROVE  MissionInv'
<1> USE Parts
<1>0. /\ last_trigger_position_' \in Place
      /\ collection_history_' \in Seq(Place)
      /\ Len(collection_history_') <= HistorySize
  BY PassGateKeeps DEF SendRequest
<1>1. TrackerInv'
  BY TrackerUntouched DEF SendRequest, MayCollect
<1>2. TypeOK'
  BY <1>1, MissionAssumption, <1>0 DEF SendRequest, MayCollect, TypeOK, WalkInv, TrackerInv
<1>3. WalkInv'
  BY MissionAssumption, <1>0 DEF SendRequest, MayCollect, TypeOK, WalkInv
<1>4. ServiceInv'
  BY DEF SendRequest, MayCollect, TypeOK, WalkInv, ServiceInv, AdmittedIsCounted
<1> QED
  BY <1>1, <1>2, <1>3, <1>4

\* From now on the request counts as given up.
LEMMA GiveUpKeeps ==
  ASSUME MissionInv, GiveUp
  PROVE  MissionInv'
<1> USE Parts
<1>1. TrackerInv'
  BY TrackerUntouched DEF GiveUp, NoDataPoint, NextWaypoint
<1>2. TypeOK'
  BY <1>1, MissionAssumption DEF GiveUp, NoDataPoint, NextWaypoint, TypeOK, WalkInv, TrackerInv
<1>3. WalkInv'
  BY MissionAssumption DEF GiveUp, NoDataPoint, NextWaypoint, TypeOK, WalkInv
<1>4. ServiceInv'
  BY DEF GiveUp, NoDataPoint, NextWaypoint, TypeOK, WalkInv, ServiceInv, AdmittedIsCounted
<1> QED
  BY <1>1, <1>2, <1>3, <1>4

\* The answer taken is the one to the caller's own request.
LEMMA TakeResponseKeeps ==
  ASSUME MissionInv, TakeResponse
  PROVE  MissionInv'
<1> USE Parts
<1>1. TrackerInv'
  BY TrackerUntouched DEF TakeResponse, NoDataPoint, NextWaypoint
<1>2. TypeOK'
  BY <1>1, MissionAssumption DEF TakeResponse, NoDataPoint, NextWaypoint, TypeOK, WalkInv, TrackerInv
<1>3. WalkInv'
  BY MissionAssumption DEF TakeResponse, NoDataPoint, NextWaypoint, TypeOK, WalkInv
<1>4. ServiceInv'
  BY DEF TakeResponse, NoDataPoint, NextWaypoint, TypeOK, WalkInv, ServiceInv, AdmittedIsCounted
<1> QED
  BY <1>1, <1>2, <1>3, <1>4

\* A request is answered once, by what the service has decided.
LEMMA HandleTriggerKeeps ==
  ASSUME MissionInv, HandleTrigger
  PROVE  MissionInv'
<1> USE Parts
<1>1. TrackerInv'
  BY TrackerUntouched DEF HandleTrigger
<1>2. TypeOK'
  <2>1. \A n \in requests, b \in BOOLEAN :
          [nr |-> n, success |-> b] \in [nr : 1 .. nr, success : BOOLEAN]
    BY DEF TypeOK
  <2>2. /\ requests' \subseteq 1 .. nr'
        /\ responses' \subseteq [nr : 1 .. nr', success : BOOLEAN]
    BY <2>1 DEF HandleTrigger, TypeOK
  <2> QED
    BY <1>1, <2>2 DEF HandleTrigger, TypeOK, TrackerInv
<1>3. WalkInv'
  BY MissionAssumption DEF HandleTrigger, TypeOK, WalkInv
<1>4. ServiceInv'
  BY DEF HandleTrigger, TypeOK, WalkInv, ServiceInv, AdmittedIsCounted
<1> QED
  BY <1>1, <1>2, <1>3, <1>4

\* The callback's steps change the tracker and TriggerManager's position.
LEMMA OdometryStepKeeps ==
  ASSUME MissionInv, OdometryStep
  PROVE  MissionInv'
<1> USE Parts
<1>1. TrackerInv'
  <2>1. UpdatePosition \/ MarkReached \/ LeaveCallback \/ Notify
         => TrackerInv'
    BY OdometryKeepsTracker
  <2>2. SpuriousWake => TrackerInv'
    BY WaitKeepsTracker, PlaceIsThere
  <2> QED
    BY <2>1, <2>2 DEF OdometryStep
<1>2. TypeOK'
  <2>1. last_robot_position_' \in Place \cup {None}
    BY DEF OdometryStep, TypeOK, TrackerTypeOK
  <2> QED
    BY <1>1, <2>1 DEF OdometryStep, TypeOK, TrackerInv
<1>3. WalkInv'
  <2>1. waiter = "none" => waiter' = "none"
    BY DEF OdometryStep, UpdatePosition, MarkReached, LeaveCallback, Notify,
           SpuriousWake
  <2> QED
    BY <2>1 DEF OdometryStep, TypeOK, WalkInv
<1>4. ServiceInv'
  BY DEF OdometryStep, TypeOK, WalkInv, ServiceInv, AdmittedIsCounted
<1> QED
  BY <1>1, <1>2, <1>3, <1>4

-----------------------------------------------------------------------------
(* The theorems                                                            *)

\* The mission starts with nobody waiting and nothing sent.
LEMMA InitInv == Init => MissionInv
<1> SUFFICES ASSUME Init PROVE MissionInv
  OBVIOUS
<1> USE DEF Init, InitTracker
<1>1. TrackerInv
  BY DEF TrackerInv, TrackerTypeOK, WaitInv, ReachedWasThere
<1>2. TypeOK
  BY <1>1, MissionAssumption DEF TypeOK, TrackerInv
<1>3. WalkInv
  BY PlaceIsThere DEF WalkInv
<1>4. ServiceInv
  BY DEF ServiceInv, AdmittedIsCounted
<1> QED
  BY <1>1, <1>2, <1>3, <1>4, Parts

\* Every step keeps the invariant: one lemma for each action.
LEMMA StepInv == MissionInv /\ [Next]_vars => MissionInv'
<1> SUFFICES ASSUME MissionInv, [Next]_vars PROVE MissionInv'
  OBVIOUS
<1>1. CASE UNCHANGED vars
  BY <1>1 DEF vars, MissionInv, TypeOK, TrackerTypeOK, WaitInv, WalkInv,
              ServiceInv, ReachedWasThere, AdmittedIsCounted
<1>2. CASE RunnerStep
  BY <1>2, BeginCycleKeeps, EndRunKeeps, UploadKeeps, EndWalkKeeps,
     WaitForWaypointKeeps, WaitStepKeeps, WaitReturnsKeeps, DriveKeeps,
     DeclineKeeps, ServiceNotReadyKeeps, SendRequestKeeps, TakeResponseKeeps,
     GiveUpKeeps DEF RunnerStep
<1>3. CASE HandleTrigger
  BY <1>3, HandleTriggerKeeps
<1>4. CASE OdometryStep
  BY <1>4, OdometryStepKeeps
<1> QED
  BY <1>1, <1>2, <1>3, <1>4 DEF Next

\* The invariant holds in every state of every run.
LEMMA Invariant == Spec => []MissionInv
BY InitInv, StepInv, PTL DEF Spec

(* Every variable keeps its type for any places, path lengths, history     *)
(* size, cycles and requests: the collection history is never longer than  *)
(* MAX_HISTORY_SIZE.                                                       *)
THEOREM TypeCorrect == Spec => []TypeOK
<1>1. MissionInv => TypeOK
  BY DEF MissionInv
<1> QED
  BY <1>1, Invariant, PTL

(* waitForWaypoint returns true only for the waypoint it was called with,  *)
(* although callback and wait hold different mutexes.                      *)
THEOREM ReachedCorrect == Spec => []ReachedWasThere
<1>1. MissionInv => ReachedWasThere
  BY DEF MissionInv, WaitInv
<1> QED
  BY <1>1, Invariant, PTL

(* tryCollect counts a data point exactly for the triggers the service has *)
(* admitted, except those whose answer comes after the ten seconds.        *)
THEOREM CountedCorrect == Spec => []AdmittedIsCounted
<1>1. MissionInv => AdmittedIsCounted
  BY DEF MissionInv, ServiceInv
<1> QED
  BY <1>1, Invariant, PTL

-----------------------------------------------------------------------------
(* The phase of the gait                                                   *)

\* The legs are half a cycle apart, which is a whole number of parts.
LEMMA CycleInTenths ==
  \E k \in Nat \ {0} : CycleLength = 10 * k /\ CycleLength \div 2 = 5 * k
<1>1. CycleLength = 10 * (CycleLength \div 10) /\ CycleLength \div 10 \in Nat
  BY GaitAssumption
<1> QED
  BY <1>1, GaitAssumption

\* A phase that has run over by less than a cycle is taken back by one.
LEMMA NormalizedOnce ==
  ASSUME NEW x \in Nat, x < 2 * CycleLength
  PROVE  Normalized(x) = IF x < CycleLength THEN x ELSE x - CycleLength
<1> USE GaitAssumption DEF Normalized
<1>1. CASE x < CycleLength
  <2>1. x % CycleLength = x
    BY <1>1
  <2> QED
    BY <1>1, <2>1
<1>2. CASE x >= CycleLength
  <2>1. /\ x = CycleLength * (x \div CycleLength) + (x % CycleLength)
        /\ x % CycleLength \in 0 .. CycleLength - 1
        /\ x \div CycleLength \in Nat
    OBVIOUS
  <2>2. x \div CycleLength = 1
    BY <1>2, <2>1
  <2> QED
    BY <1>2, <2>1, <2>2
<1> QED
  BY <1>1, <1>2

\* Whatever it was, it is in a cycle then.
LEMMA NormalizedType ==
  ASSUME NEW x \in Nat
  PROVE  Normalized(x) \in 0 .. CycleLength - 1
BY GaitAssumption DEF Normalized

\* Every leg advances as the coordinator does.
LEMMA PhaseAdvances ==
  ASSUME NEW g \in 0 .. CycleLength - 1, NEW leg \in Legs,
         NEW f \in 0 .. CycleLength
  PROVE  /\ Normalized(g + PhaseOffset(leg)) \in 0 .. CycleLength - 1
         /\ Normalized(Normalized(g + f) + PhaseOffset(leg))
              = Normalized(Normalized(g + PhaseOffset(leg)) + f)
<1>1. PICK k \in Nat \ {0} : CycleLength = 10 * k /\ CycleLength \div 2 = 5 * k
  BY CycleInTenths
<1>2. PhaseOffset(leg) \in {0, 5 * k}
  BY <1>1 DEF PhaseOffset
<1>3. PICK off \in {0, 5 * k} : off = PhaseOffset(leg)
  BY <1>2
<1>4. /\ Normalized(g + off) = IF g + off < 10 * k THEN g + off ELSE g + off - 10 * k
      /\ Normalized(g + f) = IF g + f < 10 * k THEN g + f ELSE g + f - 10 * k
  BY <1>1, NormalizedOnce
<1>5. PICK a \in 0 .. 10 * k - 1 : a = Normalized(g + off)
  BY <1>1, <1>4
<1>6. PICK b \in 0 .. 10 * k - 1 : b = Normalized(g + f)
  BY <1>1, <1>4
<1>7. /\ Normalized(a + f) = IF a + f < 10 * k THEN a + f ELSE a + f - 10 * k
      /\ Normalized(b + off) = IF b + off < 10 * k THEN b + off ELSE b + off - 10 * k
  BY <1>1, NormalizedOnce
<1>8. Normalized(a + f) = Normalized(b + off)
  BY <1>1, <1>4, <1>5, <1>6, <1>7
<1> QED
  BY <1>1, <1>3, <1>5, <1>6, <1>8

-----------------------------------------------------------------------------
(* Types of the simulator                                                  *)

LegState == [state : GaitState, swing_progress : 0 .. Landed,
             load_factor : 0 .. LoadTicks]

\* A leg that is updated is in a state, with a progress and a load in bounds.
LEMMA LegTypes ==
  ASSUME NEW l \in LegState, NEW phase, params_ \in GaitParameters
  PROVE  UpdateLeg(l, phase) \in LegState
<1> USE DEF LegState
<1>1. LiftOff \in LegState
  BY GaitAssumption DEF LiftOff, GaitState, Landed
<1>2. ASSUME l.state = "CONTACT" PROVE TakeLoad(l) \in LegState
  <2>1. Capped(l.load_factor + 1, LoadTicks) \in 0 .. LoadTicks
    BY GaitAssumption DEF Capped
  <2>2. (IF l.load_factor + 1 >= LoadTicks THEN "STANCE" ELSE l.state) \in GaitState
    BY DEF GaitState
  <2> QED
    BY <2>1, <2>2 DEF TakeLoad
<1>3. SwingProgress(l) \in 0 .. Landed
  <2>1. CASE params_.step_frequency = 0
    BY <2>1 DEF SwingProgress
  <2>2. CASE params_.step_frequency # 0
    <3>1. params_.step_frequency \in {1, 2} /\ params_.duty_factor \in {5, 6}
      BY <2>2 DEF GaitParameters, Standing
    <3>2. (20 * params_.step_frequency) \div (10 - params_.duty_factor) \in Nat
      BY <3>1
    <3>3. Landed \in Nat
      BY GaitAssumption DEF Landed
    <3> QED
      BY <2>2, <3>2, <3>3 DEF SwingProgress, Capped
  <2> QED
    BY <2>1, <2>2
<1>4. NextOfSwing(l.state, SwingProgress(l), phase) \in GaitState
  BY DEF NextOfSwing, GaitState
<1> QED
  BY <1>1, <1>2, <1>3, <1>4 DEF UpdateLeg

\* One call of GaitCoordinator::update, with parameters set after it.
LEMMA UpdateGaitTypes ==
  ASSUME GaitTypeOK, UpdateGait, params_' \in GaitParameters
  PROVE  GaitTypeOK'
<1>1. /\ global_phase_ + params_.step_frequency \in Nat
      /\ running_' \in BOOLEAN
  BY DEF GaitTypeOK, UpdateGait, GaitParameters, Standing
<1>2. global_phase_' \in 0 .. CycleLength - 1
  BY <1>1, NormalizedType DEF UpdateGait
<1>3. \A leg \in Legs : legs[leg] \in LegState
  BY DEF GaitTypeOK, LegState
<1>4. \A leg \in Legs :
        UpdateLeg(legs[leg], Normalized(global_phase_' + PhaseOffset(leg)))
          \in LegState
  BY <1>3, LegTypes DEF GaitTypeOK
<1>5. legs' \in [Legs -> LegState]
  BY <1>4 DEF UpdateGait
<1> QED
  BY <1>1, <1>2, <1>5 DEF GaitTypeOK, LegState

USE DEF gaitVars, velocityVars, pathVars

\* Every step of the simulator keeps the types.
LEMMA SimulatorTypes ==
  ASSUME SimulatorTypeOK, [NextSimulator]_simulatorVars
  PROVE  SimulatorTypeOK'
<1>1. ASSUME NEW v \in Velocity, VelocityCommand(v) PROVE SimulatorTypeOK'
  BY <1>1 DEF SimulatorTypeOK, GaitTypeOK, VelocityCommand
<1>2. ASSUME NEW n \in 0 .. MaxPath, SetTargetPath(n) PROVE SimulatorTypeOK'
  <2>1. current_waypoint_index_' \in 0 .. target_path_'
    BY <1>2, PathAssumption DEF SetTargetPath
  <2>2. near' \in BOOLEAN
    <3>1. (n > 0) \in BOOLEAN
      OBVIOUS
    <3> QED
      BY <1>2, <3>1, Zenon DEF SetTargetPath
  <2>3. GaitTypeOK'
    BY <1>2 DEF SimulatorTypeOK, GaitTypeOK, SetTargetPath
  <2> QED
    BY <1>2, <2>1, <2>2, <2>3 DEF SimulatorTypeOK, SetTargetPath
<1>3. CASE StopSimulation
  <2>1. legs' \in [Legs -> LegState]
    BY <1>3 DEF StopSimulation, StopGait, SimulatorTypeOK, GaitTypeOK, LegState,
                GaitState
  <2> QED
    BY <1>3, <2>1 DEF StopSimulation, StopGait, SimulatorTypeOK, GaitTypeOK,
                      LegState
<1>4. CASE Tick
  <2>1. /\ params_' \in GaitParameters /\ current_velocity_' \in Velocity
        /\ target_path_' = target_path_ /\ waiting_at_waypoint_' \in BOOLEAN
        /\ current_waypoint_index_' \in 0 .. target_path_
    <3>1. CASE VelocityControlUpdate
      BY <3>1 DEF SimulatorTypeOK, GaitTypeOK, VelocityControlUpdate, Smoothed,
                  SetGaitParameters, VelocityToGaitParameters, GaitParameters,
                  Velocity
    <3>2. CASE PathTrackingControl
      <4>1. target_path_ \in Nat /\ current_waypoint_index_ \in 0 .. target_path_
        BY PathAssumption DEF SimulatorTypeOK
      <4>2. current_waypoint_index_' \in 0 .. target_path_
        BY <3>2, <4>1 DEF PathTrackingControl, PathCompleted, WaitAtWaypoint,
                          ReachWaypoint, TurnToWaypoint
      <4>3. waiting_at_waypoint_' \in BOOLEAN
        BY <3>2 DEF SimulatorTypeOK, PathTrackingControl, PathCompleted,
                    WaitAtWaypoint, ReachWaypoint, TurnToWaypoint
      <4> QED
        BY <3>2, <4>2, <4>3 DEF SimulatorTypeOK, GaitTypeOK, PathTrackingControl
    <3> QED
      BY <1>4, <3>1, <3>2 DEF Tick
  <2>2. GaitTypeOK'
    BY <1>4, <2>1, UpdateGaitTypes DEF Tick, SimulatorTypeOK
  <2>3. near' \in BOOLEAN /\ robot_v' \in BOOLEAN /\ target_velocity_' \in Velocity
    BY <1>4 DEF Tick, UpdateTorso, SimulatorTypeOK
  <2> QED
    BY <2>1, <2>2, <2>3 DEF SimulatorTypeOK
<1>5. CASE UNCHANGED simulatorVars
  BY <1>5 DEF simulatorVars, SimulatorTypeOK, GaitTypeOK
<1> QED
  BY <1>1, <1>2, <1>3, <1>4, <1>5 DEF NextSimulator

(* The phase stays within a cycle, progress and load of every leg within   *)
(* their bounds, and the index of the waypoint within the path, whatever   *)
(* is commanded and whenever the path is replaced.                         *)
THEOREM SimulatorTypeCorrect == SpecSimulator => []SimulatorTypeOK
<1>1. ASSUME InitSimulator PROVE SimulatorTypeOK
  <2>1. legs \in [Legs -> LegState]
    BY <1>1, GaitAssumption DEF InitSimulator, InitGait, LegState, GaitState, Landed
  <2>2. GaitTypeOK
    BY <1>1, <2>1, GaitAssumption
       DEF InitSimulator, InitGait, GaitTypeOK, LegState, GaitParameters
  <2>3. target_path_ \in 0 .. MaxPath /\ current_waypoint_index_ \in 0 .. target_path_
    BY <1>1, PathAssumption DEF InitSimulator
  <2> QED
    BY <1>1, <2>2, <2>3 DEF InitSimulator, SimulatorTypeOK, Velocity
<1> QED
  BY <1>1, SimulatorTypes, PTL DEF SpecSimulator

-----------------------------------------------------------------------------
(* Legs in step                                                            *)

Walking == GaitParameters \ {Standing}

\* A cycle of at least 20 calls of update() at the lower step frequency, and
\* the load taken within half a cycle at the higher one.
PacedCycle == CycleLength >= 20 /\ 4 * (LoadTicks + 1) <= CycleLength

\* The progress of a swing in one call of update().
Gain(p) == (20 * p.step_frequency) \div (10 - p.duty_factor)

\* A leg that has walked at p since it last touched the ground: it has touched
\* it when its stance began, and in its swing it has advanced n times since it
\* was lifted.
LegFits(l, phase, p) ==
  IF 10 * phase < p.duty_factor * CycleLength
    THEN \/ l.state = "STANCE"
         \/ /\ l.state = "CONTACT"
            /\ l.load_factor < LoadTicks
            /\ phase < p.step_frequency * (l.load_factor + 1)
    ELSE /\ l.load_factor = 0
         /\ \E n \in Nat :
              /\ 10 * phase >= p.duty_factor * CycleLength + 10 * (p.step_frequency * n)
              /\ 10 * phase < p.duty_factor * CycleLength + 10 * (p.step_frequency * (n + 1))
              /\ l.swing_progress = Gain(p) * n
         /\ l.state = IF l.swing_progress < Apex THEN "SWING_UP"
                      ELSE IF l.swing_progress < Descending THEN "SWING_MID"
                      ELSE "SWING_DOWN"

InStep(p) ==
  \A leg \in Legs :
    LegFits(legs[leg], Normalized(global_phase_ + PhaseOffset(leg)), p)

\* The lengths of a cycle of 10k parts.
LEMMA Tenths ==
  ASSUME PacedCycle
  PROVE  \E k \in Nat : /\ k >= 2 /\ CycleLength = 10 * k
                        /\ CycleLength \div 2 = 5 * k
                        /\ Landed = 20 * k /\ Apex = 10 * k
                        /\ Descending = 15 * k
                        /\ 2 * (LoadTicks + 1) <= 5 * k
<1>1. PICK k \in Nat \ {0} : CycleLength = 10 * k /\ CycleLength \div 2 = 5 * k
  BY CycleInTenths
<1>2. Landed = 20 * k /\ Apex = 10 * k /\ Descending = 15 * k
  BY <1>1 DEF Landed, Apex, Descending
<1>3. k >= 2 /\ 2 * (LoadTicks + 1) <= 5 * k
  BY <1>1, GaitAssumption DEF PacedCycle
<1> QED
  BY <1>1, <1>2, <1>3

\* There are four ways to walk.
LEMMA FourGaits ==
  ASSUME NEW p \in Walking
  PROVE  \/ p.step_frequency = 1 /\ p.duty_factor = 5 /\ Gain(p) = 4
         \/ p.step_frequency = 1 /\ p.duty_factor = 6 /\ Gain(p) = 5
         \/ p.step_frequency = 2 /\ p.duty_factor = 5 /\ Gain(p) = 8
         \/ p.step_frequency = 2 /\ p.duty_factor = 6 /\ Gain(p) = 10
<1>1. p.step_frequency \in {1, 2} /\ p.duty_factor \in {5, 6}
  BY DEF Walking, GaitParameters
<1> QED
  BY <1>1 DEF Gain

\* The progress of a swing that has advanced n times: it does not run over
\* before the leg lands, it descends when the leg is to land, and from below
\* the apex it does not pass the middle of the descent at once.
LEMMA SwingArithmetic ==
  ASSUME NEW p \in Walking, NEW k \in Nat, k >= 2,
         NEW phase \in Nat, NEW n \in Nat,
         phase >= p.duty_factor * k + p.step_frequency * n,
         phase < p.duty_factor * k + p.step_frequency * (n + 1)
  PROVE  /\ phase + p.step_frequency < 10 * k => Gain(p) * n + Gain(p) < 20 * k
         /\ phase + p.step_frequency >= 10 * k => Gain(p) * n >= 15 * k
         /\ Gain(p) * n < 10 * k => Gain(p) * n + Gain(p) < 15 * k
         /\ Gain(p) * (n + 1) = Gain(p) * n + Gain(p)
         /\ p.step_frequency * (n + 1) = p.step_frequency * n + p.step_frequency
<1>1. CASE p.step_frequency = 1 /\ p.duty_factor = 5 /\ Gain(p) = 4
  BY <1>1
<1>2. CASE p.step_frequency = 1 /\ p.duty_factor = 6 /\ Gain(p) = 5
  BY <1>2
<1>3. CASE p.step_frequency = 2 /\ p.duty_factor = 5 /\ Gain(p) = 8
  BY <1>3
<1>4. CASE p.step_frequency = 2 /\ p.duty_factor = 6 /\ Gain(p) = 10
  BY <1>4
<1> QED
  BY <1>1, <1>2, <1>3, <1>4, FourGaits

\* A leg in step stays in step, in its stance and in its swing, when it is
\* lifted and when it lands.
LEMMA LegStaysInStep ==
  ASSUME PacedCycle, NEW p \in Walking, params_ = p,
         NEW l \in LegState, NEW phase \in 0 .. CycleLength - 1,
         LegFits(l, phase, p),
         NEW next, next = Normalized(phase + p.step_frequency)
  PROVE  LegFits(UpdateLeg(l, next), next, p)
<1> DEFINE f == p.step_frequency
           d == p.duty_factor
<1>1. PICK k \in Nat : /\ k >= 2 /\ CycleLength = 10 * k
                       /\ CycleLength \div 2 = 5 * k
                       /\ Landed = 20 * k /\ Apex = 10 * k
                       /\ Descending = 15 * k
                       /\ 2 * (LoadTicks + 1) <= 5 * k
  BY Tenths
<1>2. f \in {1, 2} /\ d \in {5, 6} /\ Gain(p) \in {4, 5, 8, 10}
  BY FourGaits
<1>3. d * k \in {5 * k, 6 * k} /\ d * CycleLength = 10 * (d * k)
  <2>1. CASE d = 5
    BY <2>1, <1>1
  <2>2. CASE d = 6
    BY <2>2, <1>1
  <2> QED
    BY <2>1, <2>2, <1>2
<1>4. next = IF phase + f < 10 * k THEN phase + f ELSE phase + f - 10 * k
  <2>1. PICK x \in Nat : x = phase + f /\ x < 2 * CycleLength
    BY <1>1, <1>2
  <2>2. Normalized(x) = IF x < CycleLength THEN x ELSE x - CycleLength
    BY <2>1, NormalizedOnce
  <2>3. next = Normalized(x)
    BY <2>1
  <2> QED
    BY <1>1, <1>2, <2>1, <2>2, <2>3
<1>5. next \in Nat /\ phase \in Nat
  BY <1>1, <1>2, <1>4
<1>6. /\ IsInStancePhase(next) <=> next < d * k
      /\ 10 * next < d * CycleLength <=> next < d * k
      /\ 10 * phase < d * CycleLength <=> phase < d * k
  BY <1>1, <1>3, <1>5 DEF IsInStancePhase
<1>7. l.load_factor \in 0 .. LoadTicks /\ LoadTicks \in Nat \ {0}
  BY GaitAssumption DEF LegState
<1> HIDE DEF f, d
<1>8. CASE phase < d * k
  <2>1. next = phase + f
    BY <1>1, <1>2, <1>3, <1>4, <1>5, <1>8
  <2>2. CASE l.state = "STANCE"
    <3>1. CASE next < d * k
      <4>1. UpdateLeg(l, next) = l
        BY <1>6, <2>2, <3>1 DEF UpdateLeg
      <4> QED
        BY <1>6, <2>2, <3>1, <4>1 DEF LegFits, d
    <3>2. CASE ~(next < d * k)
      <4>1. UpdateLeg(l, next) = LiftOff
        BY <1>6, <2>2, <3>2 DEF UpdateLeg
      <4>2. /\ LiftOff.state = "SWING_UP" /\ LiftOff.swing_progress = 0
            /\ LiftOff.load_factor = 0 /\ 0 < Apex
        BY <1>1 DEF LiftOff
      <4>3. /\ f * 0 = 0 /\ f * (0 + 1) = f /\ Gain(p) * 0 = 0
            /\ 10 * next >= d * CycleLength /\ 10 * next < d * CycleLength + 10 * f
        BY <1>1, <1>2, <1>3, <1>5, <1>8, <2>1, <3>2
      <4>4. /\ 10 * next >= d * CycleLength + 10 * (f * 0)
            /\ 10 * next < d * CycleLength + 10 * (f * (0 + 1))
        BY <1>1, <1>2, <1>3, <1>5, <4>3
      <4> QED
        BY <1>6, <3>2, <4>1, <4>2, <4>3, <4>4 DEF LegFits, f, d
    <3> QED
      BY <3>1, <3>2
  <2>3. CASE l.state # "STANCE"
    <3>1. /\ l.state = "CONTACT" /\ l.load_factor < LoadTicks
          /\ phase < f * (l.load_factor + 1)
      BY <1>6, <1>8, <2>3 DEF LegFits, f, d
    <3>2. /\ f * (l.load_factor + 1 + 1) = f * (l.load_factor + 1) + f
          /\ f * (l.load_factor + 1) + f <= 2 * (LoadTicks + 1)
      BY <1>2, <1>7, <3>1
    <3>3. next < d * k /\ next < f * (l.load_factor + 1 + 1)
      <4>1. PICK m \in Nat : m = f * (l.load_factor + 1)
        BY <1>2, <1>7
      <4> QED
        BY <1>1, <1>2, <1>3, <1>5, <1>7, <2>1, <3>1, <3>2, <4>1
    <3>4. CASE l.load_factor + 1 >= LoadTicks
      <4>1. UpdateLeg(l, next).state = "STANCE"
        BY <3>1, <3>4 DEF UpdateLeg, TakeLoad, LegState
      <4> QED
        BY <1>6, <3>3, <4>1 DEF LegFits, d
    <3>5. CASE l.load_factor + 1 < LoadTicks
      <4>1. /\ UpdateLeg(l, next).state = "CONTACT"
            /\ UpdateLeg(l, next).load_factor = l.load_factor + 1
        BY <1>7, <3>1, <3>5 DEF UpdateLeg, TakeLoad, Capped, LegState
      <4> QED
        BY <1>6, <3>3, <3>5, <4>1 DEF LegFits, f, d
    <3> QED
      BY <1>7, <3>4, <3>5
  <2> QED
    BY <2>2, <2>3
<1>9. CASE ~(phase < d * k)
  <2>1. PICK n \in Nat :
          /\ 10 * phase >= d * CycleLength + 10 * (f * n)
          /\ 10 * phase < d * CycleLength + 10 * (f * (n + 1))
          /\ l.swing_progress = Gain(p) * n
    BY <1>6, <1>9 DEF LegFits, f, d
  <2>2. /\ l.load_factor = 0
        /\ l.state = IF l.swing_progress < Apex THEN "SWING_UP"
                     ELSE IF l.swing_progress < Descending THEN "SWING_MID"
                     ELSE "SWING_DOWN"
    BY <1>6, <1>9 DEF LegFits, d
  <2>3. PICK fn \in Nat : fn = f * n
    BY <1>2, <2>1
  <2>4. PICK gn \in Nat : gn = Gain(p) * n
    BY <1>2, <2>1
  <2>5. f * (n + 1) = fn + f
    BY <1>2, <2>1, <2>3
  <2>6. phase >= d * k + f * n /\ phase < d * k + f * (n + 1)
    BY <1>1, <1>2, <1>3, <1>5, <2>1, <2>3, <2>5
  <2>7. /\ phase + f < 10 * k => gn + Gain(p) < 20 * k
        /\ phase + f >= 10 * k => gn >= 15 * k
        /\ gn < 10 * k => gn + Gain(p) < 15 * k
        /\ Gain(p) * (n + 1) = gn + Gain(p)
        /\ f * (n + 1 + 1) = fn + f + f
    <3>1. /\ phase + f < 10 * k => gn + Gain(p) < 20 * k
          /\ phase + f >= 10 * k => gn >= 15 * k
          /\ gn < 10 * k => gn + Gain(p) < 15 * k
          /\ Gain(p) * (n + 1) = gn + Gain(p)
      BY <1>1, <1>5, <2>4, <2>6, SwingArithmetic DEF f, d
    <3>2. f * (n + 1 + 1) = fn + f + f
      BY <1>2, <2>1, <2>3
    <3> QED
      BY <3>1, <3>2
  <2>8. SwingProgress(l) = IF gn + Gain(p) < 20 * k THEN gn + Gain(p) ELSE 20 * k
    BY <1>1, <1>2, <2>1, <2>4 DEF SwingProgress, Capped, Gain, f
  <2>9. /\ UpdateLeg(l, next).swing_progress = SwingProgress(l)
        /\ UpdateLeg(l, next).load_factor = 0
        /\ UpdateLeg(l, next).state = NextOfSwing(l.state, SwingProgress(l), next)
    <3>1. l.state \in {"SWING_UP", "SWING_MID", "SWING_DOWN"}
      BY <2>2
    <3> QED
      BY <2>2, <3>1 DEF UpdateLeg, LegState
  <2>10. CASE phase + f < 10 * k
    <3>1. next = phase + f /\ ~(next < d * k)
      BY <1>1, <1>2, <1>3, <1>4, <1>5, <1>9, <2>10
    <3>2. SwingProgress(l) = gn + Gain(p) /\ SwingProgress(l) = Gain(p) * (n + 1)
      BY <2>7, <2>8, <2>10
    <3>3. /\ 10 * next >= d * CycleLength + 10 * (f * (n + 1))
          /\ 10 * next < d * CycleLength + 10 * (f * (n + 1 + 1))
      BY <1>1, <1>2, <1>3, <1>5, <2>1, <2>3, <2>5, <2>7, <3>1
    <3>4. NextOfSwing(l.state, SwingProgress(l), next)
            = IF SwingProgress(l) < Apex THEN "SWING_UP"
              ELSE IF SwingProgress(l) < Descending THEN "SWING_MID"
              ELSE "SWING_DOWN"
      BY <1>1, <1>2, <1>6, <2>1, <2>2, <2>4, <2>7, <3>1, <3>2 DEF NextOfSwing
    <3>5. n + 1 \in Nat
      BY <2>1
    <3> QED
      BY <1>6, <2>9, <3>1, <3>2, <3>3, <3>4, <3>5 DEF LegFits, f, d
  <2>11. CASE phase + f >= 10 * k
    <3>1. next = phase + f - 10 * k /\ next < f /\ next < d * k
      BY <1>1, <1>2, <1>3, <1>4, <1>5, <2>11
    <3>2. l.state = "SWING_DOWN"
      BY <1>1, <2>1, <2>2, <2>4, <2>7, <2>11
    <3>3. UpdateLeg(l, next).state = "CONTACT"
      BY <1>6, <2>9, <3>1, <3>2 DEF NextOfSwing
    <3>4. f * (0 + 1) = f
      BY <1>2
    <3> QED
      BY <1>6, <1>7, <2>9, <3>1, <3>3, <3>4 DEF LegFits, f, d
  <2> QED
    BY <1>1, <1>2, <1>5, <2>10, <2>11
<1> QED
  BY <1>8, <1>9

\* Until the parameters change or the gait stops, no step takes a leg out of
\* step.
LEMMA StaysInStep ==
  ASSUME PacedCycle, NEW p \in Walking, SimulatorTypeOK, InStep(p), params_ = p,
         running_', [NextSimulator]_simulatorVars
  PROVE  InStep(p)'
<1>1. CASE UNCHANGED <<global_phase_, legs>>
  BY <1>1 DEF InStep
<1>2. CASE Tick
  <2>1. UpdateGait
    BY <1>2 DEF Tick
  <2>2. p.step_frequency \in 0 .. CycleLength
    BY FourGaits, GaitAssumption DEF PacedCycle
  <2>3. global_phase_ \in 0 .. CycleLength - 1 /\ \A leg \in Legs : legs[leg] \in LegState
    BY DEF SimulatorTypeOK, GaitTypeOK, LegState
  <2>4. ASSUME NEW leg \in Legs
        PROVE  LegFits(legs'[leg], Normalized(global_phase_' + PhaseOffset(leg)), p)
    <3> DEFINE phase == Normalized(global_phase_ + PhaseOffset(leg))
               next == Normalized(global_phase_' + PhaseOffset(leg))
    <3>1. phase \in 0 .. CycleLength - 1 /\ next = Normalized(phase + p.step_frequency)
      BY <2>1, <2>2, <2>3, PhaseAdvances DEF UpdateGait
    <3>2. legs'[leg] = UpdateLeg(legs[leg], next)
      BY <2>1 DEF UpdateGait
    <3>3. LegFits(legs[leg], phase, p)
      BY DEF InStep
    <3> HIDE DEF phase, next
    <3>4. LegFits(UpdateLeg(legs[leg], next), next, p)
      BY <2>3, <3>1, <3>3, LegStaysInStep
    <3> QED
      BY <3>2, <3>4 DEF next
  <2> QED
    BY <2>4 DEF InStep
<1>3. CASE StopSimulation
  BY <1>3 DEF StopSimulation, StopGait
<1> QED
  BY <1>1, <1>2, <1>3 DEF NextSimulator, VelocityCommand, SetTargetPath, simulatorVars

\* When one leg is in its swing, the other is in its stance.
LEMMA InStepSupports ==
  ASSUME PacedCycle, NEW p \in Walking, SimulatorTypeOK, InStep(p)
  PROVE  \E leg \in Legs : Supports(leg)
<1>1. PICK k \in Nat : k >= 2 /\ CycleLength = 10 * k /\ CycleLength \div 2 = 5 * k
  BY Tenths
<1>2. p.duty_factor * CycleLength \in {50 * k, 60 * k}
  BY <1>1, FourGaits
<1>3. global_phase_ \in 0 .. 10 * k - 1
  BY <1>1 DEF SimulatorTypeOK, GaitTypeOK
<1>4. /\ Normalized(global_phase_ + PhaseOffset("FL")) = global_phase_
      /\ Normalized(global_phase_ + PhaseOffset("FR"))
           = IF global_phase_ < 5 * k THEN global_phase_ + 5 * k
             ELSE global_phase_ - 5 * k
  BY <1>1, <1>3, NormalizedOnce DEF PhaseOffset
<1>5. ASSUME NEW leg \in Legs,
             Normalized(global_phase_ + PhaseOffset(leg)) < 5 * k,
             Normalized(global_phase_ + PhaseOffset(leg)) \in Nat
      PROVE  Supports(leg)
  <2>1. LegFits(legs[leg], Normalized(global_phase_ + PhaseOffset(leg)), p)
    BY DEF InStep
  <2>2. 10 * Normalized(global_phase_ + PhaseOffset(leg)) < p.duty_factor * CycleLength
    BY <1>1, <1>2, <1>5
  <2> QED
    BY <2>1, <2>2 DEF LegFits, Supports
<1>6. CASE global_phase_ < 5 * k
  BY <1>3, <1>4, <1>5, <1>6 DEF Legs
<1>7. CASE global_phase_ >= 5 * k
  BY <1>1, <1>3, <1>4, <1>5, <1>7 DEF Legs
<1> QED
  BY <1>1, <1>3, <1>6, <1>7

(* updateTorsoFromFeet knows single and double support only.  From any     *)
(* state with both legs in step, as long as the simulator runs and the     *)
(* parameters of the walk stay the same, a leg always supports: each swing *)
(* ends in a landing before the other leg is lifted, for every length of   *)
(* the cycle and every time it takes to load a leg.                        *)
THEOREM WalkSupports ==
  ASSUME PacedCycle, NEW p \in Walking
  PROVE  SpecSimulator =>
           [](InStep(p) /\ [](running_ /\ params_ = p)
                => [](\E leg \in Legs : Supports(leg)))
<1> DEFINE On == running_ /\ params_ = p
           Step == InStep(p)
           Support == \E leg \in Legs : Supports(leg)
<1>1. SimulatorTypeOK /\ Step /\ On /\ On' /\ [NextSimulator]_simulatorVars => Step'
  BY StaysInStep
<1>2. SimulatorTypeOK /\ Step => Support
  BY InStepSupports
<1> HIDE DEF On, Step, Support
<1>3. SpecSimulator => [](Step /\ []On => []Support)
  BY <1>1, <1>2, SimulatorTypeCorrect, PTL DEF SpecSimulator
<1> QED
  BY <1>3 DEF On, Step, Support

\* startSimulation leaves both legs in step with the parameters it sets.
LEMMA StartsInStep ==
  ASSUME InitSimulator
  PROVE  InStep([step_frequency |-> 1, duty_factor |-> 6])
<1>1. PICK k \in Nat \ {0} : CycleLength = 10 * k /\ CycleLength \div 2 = 5 * k
  BY CycleInTenths
<1>2. \A leg \in Legs : 10 * Normalized(global_phase_ + PhaseOffset(leg)) < 6 * CycleLength
  <2>1. ASSUME NEW leg \in Legs
        PROVE  10 * Normalized(global_phase_ + PhaseOffset(leg)) < 6 * CycleLength
    <3>1. PICK x \in {0, 5 * k} : x = global_phase_ + PhaseOffset(leg)
      BY <1>1 DEF InitSimulator, InitGait, PhaseOffset
    <3>2. Normalized(x) = x
      BY <1>1, NormalizedOnce
    <3> QED
      BY <1>1, <3>1, <3>2
  <2> QED
    BY <2>1
<1>3. \A leg \in Legs : legs[leg].state = "STANCE"
  BY DEF InitSimulator, InitGait
<1> QED
  BY <1>2, <1>3 DEF InStep, LegFits

(* A robot that follows a path from the start, with the parameters the     *)
(* constructor has set, always has a leg that supports it.                 *)
THEOREM FirstWalkSupports ==
  ASSUME PacedCycle
  PROVE  SpecSimulator /\ [](running_ /\ params_ = [step_frequency |-> 1, duty_factor |-> 6])
           => [](\E leg \in Legs : Supports(leg))
<1> DEFINE p == [step_frequency |-> 1, duty_factor |-> 6]
           On == running_ /\ params_ = p
           Step == InStep(p)
           Support == \E leg \in Legs : Supports(leg)
<1>1. p \in Walking
  BY DEF Walking, GaitParameters, Standing
<1>2. SimulatorTypeOK /\ Step /\ On /\ On' /\ [NextSimulator]_simulatorVars => Step'
  BY <1>1, StaysInStep
<1>3. SimulatorTypeOK /\ Step => Support
  BY <1>1, InStepSupports
<1>4. InitSimulator => Step
  BY StartsInStep
<1> HIDE DEF On, Step, Support
<1>5. SpecSimulator /\ []On => []Support
  BY <1>2, <1>3, <1>4, SimulatorTypeCorrect, PTL DEF SpecSimulator
<1> QED
  BY <1>5 DEF On, Step, Support
=============================================================================

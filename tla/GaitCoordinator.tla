-------------------------- MODULE GaitCoordinator --------------------------
(***************************************************************************)
(* GaitCoordinator with its two LegGaitStateMachines, as the robot         *)
(* simulator builds it (setNumLegs(2), BIPED_WALK).  update() advances the *)
(* phase of the cycle and then each leg by its own phase: a leg leaves the *)
(* ground by its phase, climbs and descends by the progress it has         *)
(* accumulated, lands by its phase and stands when it has taken the load.  *)
(*                                                                         *)
(* The phase is counted in parts of a cycle and the step frequency in      *)
(* parts per call of update(); the duty factor in tenths; the progress of  *)
(* a swing in parts of Landed, so that every sum of the code is exact.     *)
(***************************************************************************)
EXTENDS Naturals

CONSTANTS
  CycleLength,        \* parts of a cycle
  LoadTicks           \* calls of update() until load_factor reaches 0.9

ASSUME GaitAssumption ==
  /\ CycleLength \in Nat \ {0} /\ CycleLength % 10 = 0
  /\ LoadTicks \in Nat \ {0}

VARIABLES
  running_,
  global_phase_,
  params_,            \* [step_frequency, duty_factor] of the last setGaitParameters
  legs                \* the state of each leg

gaitVars == <<running_, global_phase_, params_, legs>>

Legs == {"FL", "FR"}

\* Mutant: setGaitMode was not called.
PhaseOffsetUnset(leg) == 0

\* GaitModeConfig::bipedWalk: the legs are half a cycle apart.
PhaseOffset(leg) == IF leg = "FL" THEN 0 ELSE CycleLength \div 2

\* swing_progress 1.0, swing_apex_ratio, and the middle between the two.
Landed == 2 * CycleLength
Apex == CycleLength
Descending == Apex + CycleLength \div 2

Standing == [step_frequency |-> 0, duty_factor |-> 10]

GaitParameters ==
  {Standing} \cup [step_frequency : {1, 2}, duty_factor : {5, 6}]

GaitState == {"IDLE", "STANCE", "SWING_UP", "SWING_MID", "SWING_DOWN", "CONTACT"}

GaitTypeOK ==
  /\ running_ \in BOOLEAN
  /\ global_phase_ \in 0 .. CycleLength - 1
  /\ params_ \in GaitParameters
  /\ legs \in [Legs -> [state : GaitState, swing_progress : 0 .. Landed,
                        load_factor : 0 .. LoadTicks]]

\* The constructor, and start(): START takes every idle leg to STANCE.
InitGait ==
  /\ running_ = TRUE
  /\ global_phase_ = 0
  /\ params_ = [step_frequency |-> 1, duty_factor |-> 6]
  /\ legs = [leg \in Legs |-> [state |-> "STANCE", swing_progress |-> 0,
                               load_factor |-> LoadTicks]]

-----------------------------------------------------------------------------
(* LegGaitStateMachine::update                                             *)

IsInStancePhase(phase) == 10 * phase < params_.duty_factor * CycleLength

Capped(n, limit) == IF n < limit THEN n ELSE limit

\* transitionState(SWING_UP)
LiftOff == [state |-> "SWING_UP", swing_progress |-> 0, load_factor |-> 0]

\* updateSwingPhase: dt / swing_duration.  The standing parameters have the
\* swing duration 0, and with them the progress stays as it is.
SwingProgress(l) ==
  IF params_.step_frequency = 0
    THEN l.swing_progress
    ELSE Capped(l.swing_progress
                  + (20 * params_.step_frequency) \div (10 - params_.duty_factor),
                Landed)

\* Mutant: the last part of the swing begins beyond its end.
NextOfSwingPastEnd(state, p, phase) ==
  IF state = "SWING_UP" /\ p >= Apex THEN "SWING_MID"
  ELSE IF state = "SWING_MID" /\ p > Landed THEN "SWING_DOWN"
  ELSE IF state = "SWING_DOWN" /\ IsInStancePhase(phase) THEN "CONTACT"
  ELSE state

\* The next state of a swing that has its new progress p.
NextOfSwing(state, p, phase) ==
  IF state = "SWING_UP" /\ p >= Apex THEN "SWING_MID"
  ELSE IF state = "SWING_MID" /\ p >= Descending THEN "SWING_DOWN"
  ELSE IF state = "SWING_DOWN" /\ IsInStancePhase(phase) THEN "CONTACT"
  ELSE state

\* CONTACT: the leg takes the load, and with all of it stands.
TakeLoad(l) ==
  [l EXCEPT !.load_factor = Capped(@ + 1, LoadTicks),
            !.state = IF l.load_factor + 1 >= LoadTicks THEN "STANCE" ELSE @]

UpdateLeg(l, phase) ==
  IF l.state = "STANCE" THEN IF IsInStancePhase(phase) THEN l ELSE LiftOff
  ELSE IF l.state = "CONTACT" THEN TakeLoad(l)
  ELSE IF l.state = "IDLE" THEN l
  ELSE [l EXCEPT !.swing_progress = SwingProgress(l),
                 !.state = NextOfSwing(@, SwingProgress(l), phase)]

-----------------------------------------------------------------------------
(* GaitCoordinator                                                         *)

\* Mutant: the phase is not taken back to one cycle.
NotNormalized(phase) == phase

Normalized(phase) == phase % CycleLength

\* update(): the legs see the phase the call has just advanced.
UpdateGait ==
  /\ running_
  /\ global_phase_' = Normalized(global_phase_ + params_.step_frequency)
  /\ legs' = [leg \in Legs |->
                UpdateLeg(legs[leg],
                          Normalized(global_phase_' + PhaseOffset(leg)))]
  /\ UNCHANGED running_

\* setGaitParameters: the coordinator's and every leg's.
SetGaitParameters(p) == params_' = p

\* stop(): STOP takes a leg to IDLE from whatever it does.
StopGait ==
  /\ running_' = FALSE
  /\ legs' = [leg \in Legs |-> [legs[leg] EXCEPT !.state = "IDLE"]]
  /\ UNCHANGED <<global_phase_, params_>>

Supports(leg) == legs[leg].state \in {"STANCE", "CONTACT"}

Swings(leg) == legs[leg].state \in {"SWING_UP", "SWING_MID", "SWING_DOWN"}
=============================================================================

------------------------ MODULE StrategyReplacement ------------------------
(***************************************************************************)
(* What a configuration reload promises those who only see data come in,   *)
(* without a watcher, the order of its calls or the reasons it may fail:   *)
(* the strategy in force is replaced by a newer one while no data flows;   *)
(* data flows again only when every part is of the strategy in force, or   *)
(* not at all when the reload has failed; and the file's strategy is in    *)
(* force in the end.                                                       *)
(*                                                                         *)
(* A configuration has a stamp, a kind, and whether it asks for masking.   *)
(***************************************************************************)
EXTENDS Naturals

CONSTANTS
  Config,
  Adoptable,          \* kinds of configurations that can be in force
  None                \* no data flows

VARIABLES
  file,
  strategy,           \* the one in force
  flow,               \* what the parts that new data goes through are of
  alive

vars == <<file, strategy, flow, alive>>

\* Every part is of one configuration.
Under(c) ==
  [trigger |-> c.stamp, recorder |-> c.stamp, channels |-> c.stamp,
   sink |-> IF c.masking THEN "filter" ELSE "recorder"]

\* What was in the file later, or at the same time.
Newer(new, old) ==
  new.stamp >= old.stamp /\ (new.stamp = old.stamp => new = old)

Init ==
  /\ file \in Config /\ file.kind \in Adoptable
  /\ strategy = file /\ flow = Under(file) /\ alive = TRUE

Edit ==
  /\ file' \in Config /\ file'.stamp > file.stamp
  /\ UNCHANGED <<strategy, flow>>

Stop ==
  /\ alive /\ flow # None
  /\ flow' = None
  /\ UNCHANGED <<file, strategy>>

Replace ==
  /\ alive /\ flow = None
  /\ strategy' \in Config /\ strategy'.kind \in Adoptable
  /\ Newer(file, strategy') /\ Newer(strategy', strategy)
  /\ UNCHANGED <<file, flow>>

Resume ==
  /\ alive /\ flow = None
  /\ flow' = Under(strategy)
  /\ UNCHANGED <<file, strategy>>

\* The process may end in any step, and does not come back.
Next ==
  /\ Edit \/ Stop \/ Replace \/ Resume \/ UNCHANGED <<file, strategy, flow>>
  /\ alive' => alive

Safety == Init /\ [][Next]_vars

\* Once the file holds a usable strategy that was written while it was
\* watched, and nobody changes it, data flows under that strategy.
Settled ==
  <>[](alive /\ file.kind = "good" /\ file.watched
         => strategy = file /\ flow = Under(file))

Spec == Safety /\ Settled
=============================================================================

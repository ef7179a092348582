-------------------------- MODULE RecordingService --------------------------
(***************************************************************************)
(* What the trigger service of DataCollectionExecutor promises its         *)
(* clients, without threads, locks or condition variables: a trigger it    *)
(* answers with success joins a backlog, and the backlog is recorded one   *)
(* trigger at a time, oldest first, each exactly once.                     *)
(***************************************************************************)
EXTENDS Sequences

CONSTANT Task       \* the triggers clients may send

VARIABLES
  backlog,          \* accepted and not yet recorded, oldest first
  recorded          \* finished, in the order they finished

vars == <<backlog, recorded>>

Init ==
  /\ backlog = << >>
  /\ recorded = << >>

Accept(t) ==
  /\ backlog' = Append(backlog, t)
  /\ UNCHANGED recorded

Complete ==
  /\ backlog # << >>
  /\ recorded' = Append(recorded, Head(backlog))
  /\ backlog' = Tail(backlog)

Next == (\E t \in Task : Accept(t)) \/ Complete

Spec == Init /\ [][Next]_vars
=============================================================================

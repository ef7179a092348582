---------------------------- MODULE WriteService ----------------------------
(***************************************************************************)
(* What AsyncFileWriter promises, without threads, queue or condition      *)
(* variable: a task it accepts is carried out once, in any order, and as   *)
(* long as nothing obstructs the writer no accepted task waits for ever.   *)
(***************************************************************************)
EXTENDS Naturals

CONSTANT Task

VARIABLES
  accepted,           \* tasks taken from clients
  carried,            \* how often each was written, or given up on an error
  obstructed          \* the writer is stopped, or a client sleeps in it

vars == <<accepted, carried, obstructed>>

Init ==
  /\ accepted = {} /\ carried = [t \in Task |-> 0]
  /\ obstructed \in BOOLEAN

Accept(t) ==
  /\ t \notin accepted
  /\ accepted' = accepted \cup {t}
  /\ carried' = carried

Carry(t) ==
  /\ t \in accepted /\ carried[t] = 0
  /\ carried' = [carried EXCEPT ![t] = 1]
  /\ accepted' = accepted

\* A client comes or goes, the writer is stopped or started.
Obstruct == UNCHANGED <<accepted, carried>>

Next == (\E t \in Task : Accept(t) \/ Carry(t)) \/ Obstruct

\* A task waits for ever only for a writer that is obstructed again and again.
NoneForgotten ==
  \A t \in Task : <>[](t \in accepted /\ carried[t] = 0) => []<>obstructed

\* Which tasks are carried out, without the promise that they are in the end.
Safety == Init /\ [][Next]_vars

Spec == Safety /\ NoneForgotten
=============================================================================

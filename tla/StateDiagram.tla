----------------------------- MODULE StateDiagram -----------------------------
(***************************************************************************)
(* The state diagram of the system state machine, as its documentation     *)
(* draws it: the states and the edges between them.                        *)
(***************************************************************************)
VARIABLE state

Idle == "IDLE"
Busy == {"PLANNING", "DATA_COLLECTING", "UPLOADING"}
State == Busy \cup {Idle, "INITIALIZING", "NAVIGATING", "ERROR",
                    "SHUTTING_DOWN"}

Edge ==
  { <<"INITIALIZING", Idle>>,
    <<Idle, "PLANNING">>, <<Idle, "UPLOADING">>, <<Idle, "SHUTTING_DOWN">>,
    <<"PLANNING", "NAVIGATING">>,
    <<"NAVIGATING", "DATA_COLLECTING">>, <<"NAVIGATING", "UPLOADING">>,
    <<"DATA_COLLECTING", "NAVIGATING">>,
    <<"UPLOADING", Idle>>,
    <<"ERROR", Idle>>, <<"ERROR", "SHUTTING_DOWN">> }
  \cup { <<s, "ERROR">> : s \in Busy \cup {"NAVIGATING"} }

Init == state = "INITIALIZING"

Move == \E t \in State : <<state, t>> \in Edge /\ state' = t

Spec == Init /\ [][Move]_state
=============================================================================

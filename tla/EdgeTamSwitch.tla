---------------------------- MODULE EdgeTamSwitch ----------------------------
(***************************************************************************)
(* What the tracked-obstacle node promises about its EdgeTAM refinement:   *)
(* the state it reports in its diagnostics follows the switch and the      *)
(* model, whatever its threads do.  EdgeTamTracker implements this         *)
(* specification; EdgeTamControl is composed with it.                      *)
(***************************************************************************)
VARIABLES
    enabled,   \* _edge_enabled
    status,    \* _edge_status
    loaded     \* whether the node holds a model

switchVars == <<enabled, status, loaded>>

Statuses == {"disabled", "loading", "ready", "degraded", "error"}

\* What an enabled node reports before its model has been tried.
Reported == IF loaded THEN "ready" ELSE "loading"

Init ==
    /\ enabled \in BOOLEAN
    /\ loaded = FALSE
    /\ status = IF enabled THEN Reported ELSE "disabled"

Enable == enabled' = TRUE /\ status' = Reported /\ UNCHANGED loaded
Disable == enabled' = FALSE /\ status' = "disabled" /\ UNCHANGED loaded

\* A model, once loaded, is kept.
Load ==
    /\ ~loaded /\ loaded' = TRUE
    /\ status' = IF enabled THEN "ready" ELSE "disabled"
    /\ UNCHANGED enabled

LoadFails ==
    /\ ~loaded
    /\ status' = IF enabled THEN "error" ELSE "disabled"
    /\ UNCHANGED <<enabled, loaded>>

\* A result, or a failed submission, changes what an enabled node reports.
Judge ==
    /\ enabled /\ loaded
    /\ status' \in {"ready", "degraded", "error"}
    /\ UNCHANGED <<enabled, loaded>>

Next == Enable \/ Disable \/ Load \/ LoadFails \/ Judge

Spec == Init /\ [][Next]_switchVars

=============================================================================

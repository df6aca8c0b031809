--------------------------- MODULE SafetyContract ---------------------------
(***************************************************************************)
(* What the safety supervisor promises to the nodes that listen to it:     *)
(* which states may follow which, without distances and without time.      *)
(* SafetyBridge implements this contract; the modules of the motion side   *)
(* are composed with the contract instead of the full supervisor.          *)
(***************************************************************************)
VARIABLES
    state,          \* what /openarm/safety/state announces
    estop_latched   \* whether only a reset can end the stop

contractVars == <<state, estop_latched>>

States == {"SAFE", "WARNING", "PAUSE", "REPLAN", "RECOVER", "EMERGENCY_STOP"}

\* Positive clearance advances one step at a time.
Successor == {<<"PAUSE", "REPLAN">>, <<"REPLAN", "RECOVER">>,
              <<"RECOVER", "SAFE">>, <<"WARNING", "SAFE">>}

Init == state = "SAFE" /\ estop_latched = FALSE

\* A close obstacle, or the operator: even a latched stop may be announced as
\* PAUSE while a new near contact is being confirmed.
Hold == state' = "PAUSE" /\ UNCHANGED estop_latched

\* A confirmed contact or a silent source.
Latch == state' = "EMERGENCY_STOP" /\ estop_latched' = TRUE

\* An obstacle in the warning zone.
Slow == ~estop_latched /\ state' = "WARNING" /\ UNCHANGED estop_latched

Advance ==
    /\ ~estop_latched /\ UNCHANGED estop_latched
    /\ \E step \in Successor : state = step[1] /\ state' = step[2]

\* The operator's stop and resume; a resume is refused in a stop.
Stop == state' = "EMERGENCY_STOP" /\ UNCHANGED estop_latched
Resume == state # "EMERGENCY_STOP" /\ state' = "RECOVER" /\ UNCHANGED estop_latched

Reset == state' = "REPLAN" /\ estop_latched' = FALSE

\* What one process may do.
Step == Hold \/ Latch \/ Slow \/ Advance \/ Stop \/ Resume \/ Reset

\* A new process knows nothing of an earlier latch.
Restart == state' = "SAFE" /\ estop_latched' = FALSE

Next == Step \/ Restart

Spec == Init /\ [][Next]_contractVars

=============================================================================

---------------------------- MODULE DynamicGate ----------------------------
(***************************************************************************)
(* The node openarm_dynamic_avoidance: between the goal executor and the   *)
(* controllers, it holds the newest nominal trajectory while the           *)
(* supervisor blocks motion, releases it otherwise, and asks for a new     *)
(* path when the hand appears or moves on the path it has released.        *)
(*                                                                         *)
(* Retiming changes the speed of a path, never whether it is released: the *)
(* executor sends paths with points and the scale stays within (0, 1].     *)
(***************************************************************************)
EXTENDS Sequences, TLC

VARIABLES
    gate_state,     \* safety_state, as this node last heard it
    gate_inbox,     \* /openarm/safety/state on its way to the node
    pending,        \* the trajectory held, as a sequence of at most one
    active,         \* now < _trajectory_active_until
    input,          \* the nominal trajectories of the executor
    trajectory,     \* the trajectories released
    replan_request  \* a request for a new path is on its way

\* BLOCKING_STATES.
BlockingStates == {"PAUSE", "EMERGENCY_STOP"}

GateInit ==
    /\ gate_state = "SAFE" /\ gate_inbox = <<>> /\ pending = <<>> /\ active = FALSE

\* trajectory_blocked: the guarded route is no exception.
TrajectoryBlocked(safety) == safety \in BlockingStates

\* _emit_if_safe: with the state and the trajectory the callback has just stored.
EmitIfSafe(safety, held) ==
    IF held = <<>> \/ TrajectoryBlocked(safety)
    THEN pending' = held /\ UNCHANGED <<active, trajectory>>
    ELSE pending' = <<>> /\ active' = TRUE /\ trajectory' = trajectory \o held

\* _safety: only leaving a blocking state releases what is held.
GateSafety ==
    /\ gate_inbox # <<>>
    /\ gate_inbox' = Tail(gate_inbox)
    /\ gate_state' = Head(gate_inbox)
    /\ IF TrajectoryBlocked(gate_state)
       THEN EmitIfSafe(Head(gate_inbox), pending)
       ELSE UNCHANGED <<pending, active, trajectory>>
    /\ UNCHANGED <<input, replan_request>>

\* Seeded fault: trajectories queue up while motion is blocked.
NominalTrajectoryQueueing ==
    /\ input # <<>>
    /\ input' = Tail(input)
    /\ EmitIfSafe(gate_state, pending \o <<Head(input)>>)
    /\ UNCHANGED <<gate_state, gate_inbox, replan_request>>

\* _nominal_trajectory: the newest one takes the place of the one held.
NominalTrajectory ==
    /\ input # <<>>
    /\ input' = Tail(input)
    /\ EmitIfSafe(gate_state, <<Head(input)>>)
    /\ UNCHANGED <<gate_state, gate_inbox, replan_request>>

\* _update_dynamic_obstacle, _obstacle_affects_active_path and
\* _request_spatial_replan: the hand is new or has moved on the active path and
\* the cooldown is over.  One release leads to at most one request.
RequestSpatialReplan ==
    /\ active /\ ~replan_request
    /\ active' = FALSE /\ replan_request' = TRUE
    /\ UNCHANGED <<gate_state, gate_inbox, pending, input, trajectory>>

\* The time the released trajectory takes is over.
ActivityEnds ==
    /\ active /\ active' = FALSE
    /\ UNCHANGED <<gate_state, gate_inbox, pending, input, trajectory, replan_request>>

=============================================================================

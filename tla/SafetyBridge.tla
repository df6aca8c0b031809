---------------------------- MODULE SafetyBridge ----------------------------
(***************************************************************************)
(* The node openarm_safety_bridge: it feeds the policy from one of two     *)
(* obstacle sources, keeps the dynamic body of that source in MoveIt's     *)
(* planning scene, obeys /openarm/safety/command and, every 50 ms, checks  *)
(* that the source has not fallen silent.                                  *)
(*                                                                         *)
(* Around the node: the hand, the discovery of its         *)
(* publishers by move_group (a message published before it is lost), the   *)
(* planning scene, which outlives the node, and the operator.              *)
(***************************************************************************)
EXTENDS SafetyPolicy

CONSTANT StartupGrace   \* startup_grace_sec

ASSUME StartupAssumption == StartupGrace \in Nat

Source == {"ground_truth", "perception"}

\* _DYNAMIC_OBSTACLE_IDS, each named by the source it comes from.
HandBody == {"ground_truth_hand", "perception_hand_obstacle"}
BodyOf(s) == IF s = "perception" THEN "perception_hand_obstacle" ELSE "ground_truth_hand"

VARIABLES
    obstacle_source,    \* the source subscribed to
    received,           \* _received_observation
    startup_age,        \* age of _startup_sec
    obstacle_present,   \* _perception_obstacle_present
    cleanup_pending,    \* _perception_cleanup_pending
    timer_due,          \* the 50 ms timer has expired and has not run yet
    scene,              \* hand bodies in MoveIt's planning scene
    delivered,          \* history: bodies whose last ADD or REMOVE got there
    discovered,         \* move_group receives what this node publishes
    hand                \* "moving", or the band in which it rests for good

nodeVars == <<obstacle_source, received, startup_age, obstacle_present,
              cleanup_pending, timer_due>>
sceneVars == <<scene, delivered>>
worldVars == <<sceneVars, discovered, hand>>
vars == <<policyVars, nodeVars, worldVars>>

TypeOK ==
    /\ PolicyTypeOK
    /\ obstacle_source \in Source
    /\ startup_age \in 0..StartupGrace
    /\ received \in BOOLEAN /\ timer_due \in BOOLEAN /\ discovered \in BOOLEAN
    /\ obstacle_present \in BOOLEAN /\ cleanup_pending \in BOOLEAN
    /\ hand \in Band \union {"moving"}
    /\ scene \subseteq HandBody /\ delivered \subseteq HandBody

\* _remove_obstacle and the ADD publications, lost until move_group listens.
Remove(bodies) ==
    IF discovered
    THEN scene' = scene \ bodies /\ delivered' = delivered \union bodies
    ELSE UNCHANGED scene /\ delivered' = delivered \ bodies

Add(body) ==
    IF discovered
    THEN scene' = scene \union {body} /\ delivered' = delivered \union {body}
    ELSE UNCHANGED scene /\ delivered' = delivered \ {body}

\* __init__, in the mode the launch file gives.  Its REMOVEs precede discovery,
\* so the scene keeps whatever an earlier run of the node left there.
NodeInit(mode) ==
    /\ PolicyInit
    /\ obstacle_source = mode
    /\ received = FALSE
    /\ startup_age = 0
    /\ obstacle_present = FALSE
    /\ cleanup_pending = (mode = "perception")
    /\ timer_due = FALSE
    /\ delivered = {} /\ discovered = FALSE

Init ==
    /\ \E mode \in Source : NodeInit(mode)
    /\ scene \in SUBSET HandBody
    /\ hand = "moving"

-----------------------------------------------------------------------------
\* Callbacks of the node.

\* Seeded fault: only the body of the new source is removed.
StaleOfNewOnly(previous, new) == IF previous # new THEN {BodyOf(new)} ELSE {}

\* _stale_obstacle_ids: no body survives a change of source.
StaleObstacleIds(previous, new) == IF previous # new THEN HandBody ELSE {}

\* Seeded fault: no cleanup is owed after the subscription is renewed.
SetObstacleSourceNoCleanup(new) ==
    /\ hand = "moving"
    /\ obstacle_source' = new
    /\ Remove(StaleObstacleIds(obstacle_source, new))
    /\ obstacle_present' = FALSE
    /\ cleanup_pending' = FALSE
    /\ observation_age' = 0
    /\ UNCHANGED <<state, estop_latched, clear_age, transition_age, emergency_age,
                   grace_left, received, startup_age, timer_due, discovered, hand>>

\* _set_obstacle_source: the stale bodies go first; the silence clock restarts
\* even when the source does not change.
SetObstacleSource(new) ==
    /\ hand = "moving"
    /\ obstacle_source' = new
    /\ Remove(StaleObstacleIds(obstacle_source, new))
    /\ obstacle_present' = FALSE
    /\ cleanup_pending' = (new = "perception")
    /\ observation_age' = 0
    /\ UNCHANGED <<state, estop_latched, clear_age, transition_age, emergency_age,
                   grace_left, received, startup_age, timer_due, discovered, hand>>

\* _ground_truth_collision: the simulator's ADD or REMOVE is passed on.
GroundTruthCollision ==
    /\ obstacle_source = "ground_truth"
    /\ Add(BodyOf(obstacle_source)) \/ Remove({BodyOf(obstacle_source)})
    /\ UNCHANGED <<policyVars, nodeVars, discovered, hand>>

\* What the selected source may measure now.
Sensed == IF hand = "moving" THEN Band ELSE {hand}

\* _distance_callback.
DistanceCallback ==
    /\ obstacle_source = "ground_truth"
    /\ received' = TRUE
    /\ \E band \in Sensed : Observe(band)
    /\ UNCHANGED <<obstacle_source, startup_age, obstacle_present, cleanup_pending,
                   timer_due, worldVars>>

\* _perception_cloud, no points: an observation at infinity, and the removal of
\* the body if one may be there.
EmptyCloud ==
    /\ obstacle_source = "perception" /\ "clear" \in Sensed
    /\ received' = TRUE
    /\ Observe("clear")
    /\ IF obstacle_present \/ cleanup_pending
       THEN /\ Remove({"perception_hand_obstacle"})
            /\ obstacle_present' = FALSE /\ cleanup_pending' = FALSE
       ELSE UNCHANGED <<sceneVars, obstacle_present, cleanup_pending>>
    /\ UNCHANGED <<obstacle_source, startup_age, timer_due, discovered, hand>>

\* _perception_cloud with points and a camera transform (without one the
\* callback returns having done nothing).  The body is published first; then,
\* with robot link geometry, the distance is observed; without it the frame
\* counts as contact, or is ignored during the startup grace.
ObstacleCloud ==
    /\ obstacle_source = "perception"
    /\ Add("perception_hand_obstacle")
    /\ obstacle_present' = TRUE /\ cleanup_pending' = FALSE
    /\ \/ /\ received' = TRUE
          /\ \E band \in Sensed : Observe(band)
       \/ /\ startup_age >= StartupGrace /\ hand = "moving"
          /\ received' = TRUE
          /\ Observe("emergency")
       \/ /\ startup_age < StartupGrace
          /\ UNCHANGED <<policyVars, received>>
    /\ UNCHANGED <<obstacle_source, startup_age, timer_due, discovered, hand>>

\* Seeded fault: the watchdog waits for a first observation for ever.
TimerWaiting ==
    /\ timer_due
    /\ timer_due' = FALSE
    /\ IF ~received THEN UNCHANGED policyVars ELSE CheckTimeout
    /\ UNCHANGED <<obstacle_source, received, startup_age, obstacle_present,
                   cleanup_pending, worldVars>>

\* _timer: during the startup grace a node that has seen nothing yet waits.
Timer ==
    /\ timer_due
    /\ timer_due' = FALSE
    /\ IF ~received /\ startup_age < StartupGrace
       THEN UNCHANGED policyVars
       ELSE CheckTimeout
    /\ UNCHANGED <<obstacle_source, received, startup_age, obstacle_present,
                   cleanup_pending, worldVars>>

\* _safety_command "emergency_stop", "pause" and "resume" assign the state
\* directly: no latch, no transition stamp.
CommandState(new) ==
    /\ hand = "moving"
    /\ new = "EMERGENCY_STOP" \/ state # "EMERGENCY_STOP"
    /\ state' = new
    /\ UNCHANGED <<estop_latched, clocks, nodeVars, worldVars>>

\* _safety_command "reset", and the service reset_estop.
CommandReset ==
    /\ hand = "moving"
    /\ ResetEstop
    /\ UNCHANGED <<nodeVars, worldVars>>

\* _safety_command "escape_started", sent by the goal executor.
CommandEscapeStarted ==
    /\ hand = "moving"
    /\ GrantEscapeGrace
    /\ UNCHANGED <<nodeVars, worldVars>>

-----------------------------------------------------------------------------
\* Time and the world.

\* One timer period.  The executor runs the timer once in each period, at any
\* place among the other callbacks.
Tick ==
    /\ ~timer_due
    /\ timer_due' = TRUE
    /\ PolicyTick
    /\ startup_age' = Older(startup_age, StartupGrace)
    /\ UNCHANGED <<obstacle_source, received, obstacle_present, cleanup_pending,
                   worldVars>>

Discover ==
    /\ ~discovered /\ discovered' = TRUE
    /\ UNCHANGED <<policyVars, nodeVars, sceneVars, hand>>

\* The process dies and is started again: everything but the scene is lost.
Restart ==
    /\ hand = "moving"
    /\ state' = "SAFE" /\ estop_latched' = FALSE
    /\ observation_age' = 0 /\ transition_age' = MaxDwell /\ grace_left' = 0
    /\ clear_age' = NotSet /\ emergency_age' = NotSet
    /\ obstacle_source' \in Source
    /\ cleanup_pending' = (obstacle_source' = "perception")
    /\ received' = FALSE /\ startup_age' = 0 /\ obstacle_present' = FALSE
    /\ timer_due' = FALSE
    /\ delivered' = {} /\ discovered' = FALSE
    /\ UNCHANGED <<scene, hand>>

\* The hand comes to rest; from here on no command is given, no process fails
\* and the robot's transforms stay available.
Settle ==
    /\ hand = "moving" /\ hand' \in Band
    /\ UNCHANGED <<policyVars, nodeVars, sceneVars, discovered>>

Observation == DistanceCallback \/ EmptyCloud \/ ObstacleCloud

Command ==
    \/ \E new \in {"EMERGENCY_STOP", "PAUSE", "RECOVER"} : CommandState(new)
    \/ CommandReset
    \/ CommandEscapeStarted

Next ==
    \/ Observation
    \/ GroundTruthCollision
    \/ \E new \in Source : SetObstacleSource(new)
    \/ Command
    \/ Timer
    \/ Tick
    \/ Discover
    \/ Restart
    \/ Settle

Spec == Init /\ [][Next]_vars

\* The timer keeps running; nothing else is promised.  A source that stops
\* publishing is one of the behaviours.
FairSpec == Spec /\ WF_vars(Tick) /\ WF_vars(Timer)

-----------------------------------------------------------------------------
\* Safety.

\* A latched emergency stop never shows a state of normal motion: whatever is
\* observed or granted, only reset leads back to SAFE, WARNING or REPLAN.
LatchedNeverRuns == estop_latched => state \in {"EMERGENCY_STOP", "PAUSE", "RECOVER"}

\* The watchdog is armed once something was observed or the grace is over.
Silent == observation_age > Timeout /\ (received \/ startup_age >= StartupGrace)

\* Silence stops the arm within one timer period: a node that has run its timer
\* and has heard nothing for the timeout holds a latched stop, unless an
\* operator's command changed the state in this very period.
SilenceStops ==
    Silent /\ ~timer_due => \/ estop_latched /\ state = "EMERGENCY_STOP"
                            \/ transition_age = 0

\* MoveIt plans around a perceived hand exactly when the node believes so: if
\* the last publication about that body arrived, obstacle_present tells whether
\* the scene holds it, except while a cleanup is still owed.
FlagFollowsScene ==
    obstacle_source = "perception" /\ "perception_hand_obstacle" \in delivered
        => cleanup_pending \/ (obstacle_present <=> "perception_hand_obstacle" \in scene)

\* The body of the source that is not selected is never left in the scene by a
\* change of source that reached move_group.
NoForeignBody ==
    \A body \in delivered : body # BodyOf(obstacle_source) => body \notin scene

-----------------------------------------------------------------------------
\* The node implements the contract the motion side relies on: whatever the
\* distances, the silences and the commands, no other change of state is ever
\* announced, and a latch ends only by a reset or with the process.  What the
\* contract leaves to a restart only a restart of the node does: no callback takes
\* a state to SAFE but step by step.
Contract == INSTANCE SafetyContract
ImplementsContract ==
    /\ Contract!Spec
    /\ [][Restart \/ Contract!Step \/ UNCHANGED Contract!contractVars]_vars

-----------------------------------------------------------------------------
\* Liveness.

\* When the hand rests out of reach and no command is given, the supervisor returns
\* to SAFE by itself or holds a stop; it never hovers in an intermediate state.
RecoversOrStops ==
    <>(hand = "clear") =>
        <>[](state \in {"SAFE", "EMERGENCY_STOP"} \/ estop_latched)

\* When the hand stays at contact distance the supervisor ends in a latched
\* stop, whatever grace was granted and whether or not frames still arrive.
PersistentContactLatches ==
    <>(hand = "emergency") =>
        <>[](estop_latched /\ state = "EMERGENCY_STOP")

-----------------------------------------------------------------------------
\* Two claims of the repository that the code does not keep.

\* README.md and test_estop_is_latched_until_explicit_reset: a latched stop
\* stays EMERGENCY_STOP until it is reset.
LatchedStaysEmergencyStop == estop_latched => state = "EMERGENCY_STOP"

\* sorting_task.yaml: the bridge requires one continuous clear duration.  So a
\* PAUSE that clearance ends has lasted that long.
ClearRelease == state = "PAUSE" /\ state' = "REPLAN" /\ clear_age' = ClearDuration
ContinuousClearBeforeRelease ==
    [][ClearRelease /\ ClearDuration > 0 => transition_age >= ClearDuration]_vars

=============================================================================

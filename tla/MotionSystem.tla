---------------------------- MODULE MotionSystem ----------------------------
(***************************************************************************)
(* The motion side of the arm: the goal executor (PoseGoal), the dynamic   *)
(* gate (DynamicGate), MoveIt and the controllers, under a safety          *)
(* supervisor that does anything its contract allows.  The supervisor's    *)
(* state reaches the executor and the gate over two subscriptions, each in *)
(* order, neither in step with the other.                                  *)
(***************************************************************************)
EXTENDS PoseGoal

CONSTANTS
    Commands,   \* what the operator may say
    Budgets,    \* bounds: how many commands, changes of the supervisor's state and
                \* messages about the hand a behaviour may have, one record for each
                \* combination considered
    MaxGoals    \* bound: controller goals at a time, forgotten ones excepted

ASSUME BoundAssumption ==
    /\ MaxGoals \in Nat
    /\ Commands \subseteq TargetRequests \union
          {"home", "pause", "resume", "reset", "moveit", "dynamic"}
    /\ Budgets \subseteq [commands : Nat, changes : Nat, hand : Nat]

VARIABLES
    state, estop_latched,                       \* the supervisor
    gate_state, gate_inbox, pending, active,    \* the gate
    budget                                      \* what is left of the bounds

Contract == INSTANCE SafetyContract
Gate == INSTANCE DynamicGate

supervisorVars == <<state, estop_latched>>
gateVars == <<gate_state, gate_inbox, pending, active>>
vars == <<poseVars, supervisorVars, gateVars, budget>>

Init == PoseInit /\ Gate!GateInit /\ Contract!Init /\ budget \in Budgets

Spend(event) == budget[event] > 0 /\ budget' = [budget EXCEPT ![event] = @ - 1]

\* Whatever the contract allows, announced to both listeners.
Supervisor ==
    /\ Spend("changes")
    /\ Contract!Next /\ state' # state
    /\ pose_inbox' = Append(pose_inbox, state')
    /\ gate_inbox' = Append(gate_inbox, state')
    /\ UNCHANGED <<pose, input, trajectory, replan_request, gate_state, pending, active>>

Operator ==
    /\ Spend("commands")
    /\ \/ \E command \in Commands \ {"moveit", "dynamic"} : Command(command)
       \/ \E mode \in Commands \intersect {"moveit", "dynamic"} : Planner(mode)
    /\ UNCHANGED <<supervisorVars, gateVars>>

Hand ==
    /\ Spend("hand")
    /\ \/ DynamicCollision /\ UNCHANGED gateVars
       \/ Gate!RequestSpatialReplan /\ UNCHANGED <<pose, pose_inbox>>
    /\ UNCHANGED supervisorVars

Executor ==
    /\ \/ SafetyCallback
       \/ SafetyDistanceCallback
       \/ PlanResult
       \/ DynamicTrajectory
       \/ DynamicReplanRequest
       \/ TrajectoryResponse
       \/ TrajectoryResult
       \/ RetryTimerFires
       \/ PublishState
    /\ Len(pose'.goals) <= MaxGoals
    /\ UNCHANGED <<supervisorVars, gateVars, budget>>

GateStep ==
    /\ Gate!GateSafety \/ Gate!NominalTrajectory \/ Gate!ActivityEnds
    /\ UNCHANGED <<pose, pose_inbox, supervisorVars, budget>>

ControllerStep ==
    /\ ControllerAccepts
    /\ UNCHANGED <<supervisorVars, gateVars, budget>>

Next == Supervisor \/ Operator \/ Hand \/ Executor \/ GateStep \/ ControllerStep

Spec == Init /\ [][Next]_vars

-----------------------------------------------------------------------------
Steps == [side : Side, kind : StepKinds] \union {NoStep}

Trajectory == [side : Side, escape : BOOLEAN]

Goal == [side : Side, trajectory : Trajectory,
         phase : {"sent", "running", "aborted"},
         current : BOOLEAN, known : BOOLEAN, handle : BOOLEAN, cancel : BOOLEAN]

TypeOK ==
    /\ pose.safety \in Contract!States
    /\ pose.request \in Requests
    /\ pose.step \in Steps /\ pose.retry_timer \in Steps
    /\ pose.side \in Side
    /\ pose.sequence \in Seq(Steps)
    /\ pose.goals \in Seq(Goal)
    /\ pose.held \subseteq Side /\ pose.failed \subseteq Side /\ pose.evading \subseteq Side
    /\ pose.publish = <<>>
    /\ input \in Seq(Trajectory) /\ trajectory \in Seq(Trajectory)
    /\ pending \in Seq(Trajectory) /\ Len(pending) <= 1

\* Nothing that could still move an arm outlives an emergency stop in the
\* executor: once it has heard of the stop it waits for no plan, and no goal it
\* has sent still counts.
StopLeavesNothing ==
    pose.safety = "EMERGENCY_STOP" =>
        /\ ~pose.busy /\ pose.plans = <<>>
        /\ \A i \in DOMAIN pose.goals : ~pose.goals[i].current

\* No marker an operator asked for is forgotten, whatever routes, evasions,
\* retries and failures come between: each arm of the request holds its marker,
\* was given up visibly, or has the target step before it.
Queue(n) == ToSet(n.sequence) \union {n.step}
TargetsAccounted ==
    \A s \in SidesOf(pose.request) :
        \/ s \in pose.held \union pose.failed
        \/ \E step \in Queue(pose) : step.side = s /\ step.kind \in TargetKinds

\* A route always has its guide points: the executor never meets a route step
\* whose waypoints an evasion or a refresh has thrown away.
RouteHasWaypoints == pose.step.kind \in RouteKinds => pose.waypoints

\* In dynamic mode an executor that is busy is owed an answer: a plan, a trajectory
\* in the gate or on its way, or a controller goal that counts.  Otherwise it would
\* refuse every later step as BUSY for ever.
AnswerOwed ==
    pose.busy /\ pose.planner_mode = "dynamic" =>
        \/ pose.plans # <<>> \/ input # <<>> \/ pending # <<>> \/ trajectory # <<>>
        \/ \E i \in DOMAIN pose.goals : pose.goals[i].current

\* A marker request that ends by itself ends visibly: each of its arms is shown as
\* holding its marker or as failed.
EndsVisibly ==
    [][pose.request \in TargetRequests /\ pose'.request = ""
            /\ budget'.commands = budget.commands
        => SidesOf(pose.request) \subseteq pose'.held \union pose'.failed]_vars

-----------------------------------------------------------------------------
\* Claims of the repository that the code does not keep.

\* README.md and the comment in _plan_result: ordinary trajectories remain blocked
\* during PAUSE, only the checked escape can pass.
SendsGoal == Len(pose'.goals) > Len(pose.goals)
OnlyEscapesPassPause ==
    [][SendsGoal /\ pose.safety = "PAUSE" => Last(pose'.goals).trajectory.escape]_vars

\* A stop reaches every motion: an executor that knows of the emergency stop and
\* has the controller's answer has asked for the goal to be cancelled.
StopCancelsMotion ==
    pose.safety = "EMERGENCY_STOP" =>
        \A i \in DOMAIN pose.goals :
            pose.goals[i].phase = "running" /\ pose.goals[i].known => pose.goals[i].cancel

\* sorting_task.yaml: the evaded arm returns to the exact saved joint posture.  So
\* an arm that is up has a posture to return to.
EvadedArmCanReturn == pose.evaded => pose.saved

=============================================================================

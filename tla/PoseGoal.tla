------------------------------ MODULE PoseGoal ------------------------------
(***************************************************************************)
(* The callbacks of OpenArmPoseGoal: what each message, answer, timer and  *)
(* operator command does to the node.  A callback runs to its end before   *)
(* the next one (one executor thread), so each is one action, and the      *)
(* interleavings are those of the messages and answers.                    *)
(***************************************************************************)
EXTENDS PoseGoalMethods

VARIABLES
    pose,           \* the node
    pose_inbox,     \* /openarm/safety/state on its way to the node
    input,          \* /openarm/dynamic_avoidance/input_trajectory
    trajectory,     \* /openarm/dynamic_avoidance/trajectory
    replan_request  \* /openarm/dynamic_avoidance/replan_request

poseVars == <<pose, pose_inbox, input, trajectory, replan_request>>

\* __init__, and perhaps the first message about the hand.
PoseInit ==
    /\ pose \in {[InitialNode EXCEPT !.obstacle = seen] : seen \in BOOLEAN}
    /\ pose_inbox = <<>> /\ input = <<>> /\ trajectory = <<>>
    /\ replan_request = FALSE

\* A callback leaves one of the outcomes; what it published is on its way.
Leave(outcomes) ==
    \E n \in outcomes : /\ pose' = [n EXCEPT !.publish = <<>>]
                        /\ input' = input \o n.publish

-----------------------------------------------------------------------------
\* /openarm/safety/state.

\* The part of _safety behind its early returns.
SafetyReaction(n, previous) ==
    LET stopped == [CancelMotion(n) EXCEPT !.resume = (n.request # ""), !.state = "other"]
    IN  CASE n.safety = "EMERGENCY_STOP" -> {stopped}
          [] n.safety = "PAUSE" -> BeginActiveCrisisEvade(stopped)
          [] n.safety = "REPLAN" ->
                IF n.request = "" THEN {Shown(n)}
                ELSE ContinueRequest([n EXCEPT !.resume = FALSE, !.state = "other"])
          [] OTHER ->
                IF previous \in {"PAUSE", "REPLAN", "EMERGENCY_STOP"} /\ n.resume
                THEN ContinueRequest([n EXCEPT !.resume = FALSE, !.state = "other"])
                ELSE {n}

\* The hand has left the soft-stop band and a target is kept: route around it.
RoutesAgain(n, previous) ==
    /\ n.safety = "REPLAN" /\ previous = "PAUSE"
    /\ n.request # "" /\ n.planner_mode = "dynamic" /\ n.obstacle
    /\ n.step.kind \in TargetKinds \union RouteKinds

EscapeContinues(n) ==
    n.busy /\ IsCrisisStep(n) /\ n.safety \in {"PAUSE", "REPLAN"}

SafetyOutcomes(before, safety) ==
    LET n == [before EXCEPT
                  !.safety = safety,
                  !.reset_requested =
                      @ /\ safety # "EMERGENCY_STOP" /\ before.safety # "EMERGENCY_STOP"]
    IN  IF safety = before.safety THEN {before}
        ELSE IF RoutesAgain(n, before.safety) THEN RestartDynamicRoute(n, n.side)
        ELSE IF GuardedRoute(n) /\ safety = "REPLAN"
        THEN IF n.busy THEN {n}
             ELSE ReplanLastRequest([n EXCEPT !.resume = FALSE, !.state = "other"])
        ELSE IF EscapeContinues(n) THEN {[Shown(n) EXCEPT !.resume = FALSE]}
        ELSE UNION {IdleAvoidanceTick(m) : m \in SafetyReaction(n, before.safety)}

SafetyCallback ==
    /\ pose_inbox # <<>>
    /\ pose_inbox' = Tail(pose_inbox)
    /\ Leave(SafetyOutcomes(pose, Head(pose_inbox)))
    /\ UNCHANGED <<trajectory, replan_request>>

-----------------------------------------------------------------------------
\* The operator, on /openarm/task/command.

SidesOf(request) ==
    CASE request = "both_targets" -> Side
      [] request = "right_target" -> Side \intersect {"right"}
      [] request \in {"target", "left_target"} -> Side \intersect {"left"}
      [] OTHER -> {}

\* The move commands.  One whose marker is not known is rejected, after the saved
\* posture of an idle evade has been given up.
MoveOutcomes(n, request) ==
    LET kind == IF request = "target" THEN "explicit_target" ELSE "model_target"
    IN  {Shown(ClearIdle(n))} \union
        BeginRequest([ClearIdle(n) EXCEPT !.held = @ \ SidesOf(request)],
                     request, StepsOf(SidesOf(request), kind))

HomeOutcomes(n) ==
    BeginRequest([ClearIdle(n) EXCEPT !.held = {}], "home_both", StepsOf(Side, "home"))

PauseOutcomes(n) ==
    {[CancelMotion(n) EXCEPT !.resume = (n.busy \/ n.request # ""), !.state = "other"]}

ResumeOutcomes(n) ==
    IF n.safety # "EMERGENCY_STOP" /\ n.resume
    THEN ContinueRequest([n EXCEPT !.resume = FALSE])
    ELSE {n}

ResetOutcomes(n) ==
    {[ClearIdle(CancelMotion(n)) EXCEPT
         !.sequence = <<>>, !.step = NoStep, !.request = "", !.resume = FALSE,
         !.waiting = FALSE, !.held = {}, !.state = "other"]}

CommandOutcomes(n, command) ==
    CASE command = "home" -> HomeOutcomes(n)
      [] command = "pause" -> PauseOutcomes(n)
      [] command = "resume" -> ResumeOutcomes(n)
      [] command = "reset" -> ResetOutcomes(n)
      [] OTHER -> MoveOutcomes(n, command)

Command(command) ==
    /\ Leave(CommandOutcomes(pose, command))
    /\ UNCHANGED <<pose_inbox, trajectory, replan_request>>

\* /openarm/planner/mode.
Planner(mode) ==
    /\ Leave({[pose EXCEPT !.planner_mode = mode]})
    /\ UNCHANGED <<pose_inbox, trajectory, replan_request>>

-----------------------------------------------------------------------------
\* The hand, as the safety bridge publishes it.

AddOutcomes(before) ==
    LET n == [before EXCEPT !.obstacle = TRUE]
        moved == IF n.state \in {"wait_obstacle", "wait_path"} /\ n.waiting
                 THEN {n} \union RetryWaiting(n) ELSE {n}
    IN  UNION {IdleAvoidanceTick(m) : m \in moved}

\* REMOVE: a target that waited for resumption is tried again shortly.
RemoveOutcomes(before) ==
    LET n == [before EXCEPT !.obstacle = FALSE, !.waiting = FALSE]
    IN  IF ~before.obstacle THEN {before}
        ELSE IF n.resume /\ n.request # "" /\ ~n.busy /\ n.step.kind \in TargetKinds
        THEN {ScheduleRetry([n EXCEPT !.resume = FALSE, !.state = "other",
                                      !.failures = Popped(@, n.step)], n.step)}
        ELSE {n}

DynamicCollision ==
    /\ Leave(AddOutcomes(pose)) \/ Leave(RemoveOutcomes(pose))
    /\ UNCHANGED <<pose_inbox, trajectory, replan_request>>

\* /openarm/safety/min_distance: a waiting request is tried once the path is free
\* or the links are clear of the hand.
SafetyDistanceCallback ==
    /\ pose.state \in {"wait_obstacle", "wait_path"}
    /\ pose.obstacle /\ pose.waiting /\ ~pose.busy /\ pose.retry_timer = NoStep
    /\ Leave(RetryWaiting(pose))
    /\ UNCHANGED <<pose_inbox, trajectory, replan_request>>

-----------------------------------------------------------------------------
\* Answers.

\* A MoveGroup goal that fails: what is tried next depends on the current step.
RouteFailure(n, failed) ==
    LET refreshed == [n EXCEPT !.refreshes = Counted(@, n.step.side, RouteRefreshes),
                               !.failures = failed]
        again == [n EXCEPT !.failures = failed]
        refreshes == /\ n.obstacle /\ n.waypoints
                     /\ Count(n.refreshes, n.step.side) < RouteRefreshes
    IN  (IF refreshes THEN RestartDynamicRoute(refreshed, n.step.side) ELSE {}) \union
        IF failed[n.step] <= RouteRetries
        THEN {ScheduleRetry([again EXCEPT !.state = "other"], n.step)}
        ELSE IF ~n.obstacle THEN RestartDynamicRoute(again, n.step.side)
        ELSE {WaitForClearPath(again, n.step.side)} \union GiveUp(again, n.side)

TargetFailure(n, failed) ==
    LET again == [n EXCEPT !.failures = failed]
        waits == {[again EXCEPT !.resume = TRUE, !.waiting = TRUE, !.state = "wait_obstacle"]}
    IN  IF failed[n.step] <= TargetRetries
        THEN {ScheduleRetry([again EXCEPT !.routed = @ \ {n.step}, !.state = "other"], n.step)}
        ELSE GiveUp(again, n.side) \union IF n.obstacle THEN waits ELSE {}

CrisisFailure(n, failed) ==
    LET again == [n EXCEPT !.failures = failed, !.state = "other"]
    IN  IF failed[n.step] <= CrisisRetries THEN SendPlan(again) ELSE GiveUp(again, n.side)

PlanFailure(n) ==
    CASE IsCrisisStep(n) -> CrisisFailure(n, Counted(n.failures, n.step, CrisisRetries))
      [] n.planner_mode = "dynamic" /\ n.step.kind \in RouteKinds ->
            RouteFailure(n, Counted(n.failures, n.step, RouteRetries))
      [] n.planner_mode = "dynamic" /\ n.step.kind \in TargetKinds ->
            TargetFailure(n, Counted(n.failures, n.step, TargetRetries))
      [] OTHER -> GiveUp(n, n.side)

\* A planned trajectory: an escape is executed at once, anything else passes the
\* dynamic gate first when that layer is in use.
PlanSuccess(n, path) ==
    IF n.planner_mode = "dynamic" /\ ~IsCrisisStep(n)
    THEN {[Shown(n) EXCEPT !.publish = <<path>>]}
    ELSE IF n.planner_mode = "dynamic" /\ n.safety = "EMERGENCY_STOP"
    THEN {[Shown(n) EXCEPT !.busy = FALSE, !.resume = TRUE]}
    ELSE Execute(n, path)

\* _plan_response and _plan_result.  MoveIt refuses or cancels the goal, returns
\* no points, fails, or returns a path for the arm it was asked about.
PlanOutcomes(before, i) ==
    LET n == [before EXCEPT !.plans = RemoveAt(@, i)]
        found == [n EXCEPT !.failures = Popped(@, n.step)]
        path == [side |-> before.plans[i].side,
                 escape |-> before.plans[i].kind \in CrisisKinds]
    IN  {[Shown(n) EXCEPT !.busy = FALSE], [n EXCEPT !.busy = FALSE],
         [Shown(found) EXCEPT !.busy = FALSE]}
        \union PlanFailure([n EXCEPT !.busy = FALSE])
        \union PlanSuccess(found, path)

PlanResult ==
    /\ \E i \in DOMAIN pose.plans : Leave(PlanOutcomes(pose, i))
    /\ UNCHANGED <<pose_inbox, trajectory, replan_request>>

\* The gate releases a trajectory.
DynamicTrajectory ==
    /\ trajectory # <<>>
    /\ trajectory' = Tail(trajectory)
    /\ Leave(IF pose.planner_mode = "dynamic" /\ pose.busy
             THEN Execute(pose, Head(trajectory)) ELSE {pose})
    /\ UNCHANGED <<pose_inbox, replan_request>>

\* The gate reports that the hand has entered or moved on the active path.
ReplanRequestOutcomes(n) ==
    LET stopped == CancelMotion(n)
    IN  IF \/ n.planner_mode # "dynamic" \/ n.request = ""
           \/ n.step = NoStep \/ n.safety = "EMERGENCY_STOP"
        THEN {n}
        ELSE IF n.step.kind \in TargetKinds \union RouteKinds
        THEN RestartDynamicRoute(stopped, n.side)
        ELSE IF n.safety = "PAUSE" THEN {[Shown(stopped) EXCEPT !.resume = TRUE]}
        ELSE ReplanLastRequest(Shown(stopped))

DynamicReplanRequest ==
    /\ replan_request /\ replan_request' = FALSE
    /\ Leave(ReplanRequestOutcomes(pose))
    /\ UNCHANGED <<pose_inbox, trajectory>>

\* _trajectory_response: an answer of an older generation cancels the goal it
\* accepts; a current one keeps the handle, of which there is only one.
AcceptedOutcomes(n, i) ==
    LET kept == [j \in DOMAIN n.goals |->
                    [n.goals[j] EXCEPT !.handle = (i = j), !.known = @ \/ i = j]]
    IN  IF n.goals[i].current
        THEN {[n EXCEPT !.goals = kept]}
        ELSE {[n EXCEPT !.goals[i].known = TRUE, !.goals[i].cancel = TRUE]}

\* Seeded fault: a refused goal leaves the node busy.
RejectedKeepsBusy(n, i) == {Shown([n EXCEPT !.goals = RemoveAt(@, i)])}

RejectedOutcomes(n, i) ==
    LET rest == [n EXCEPT !.goals = RemoveAt(@, i)]
    IN  IF n.goals[i].current THEN {[Shown(rest) EXCEPT !.busy = FALSE]} ELSE {rest}

TrajectoryResponse ==
    /\ \E i \in DOMAIN pose.goals :
          \/ /\ pose.goals[i].phase # "sent" /\ ~pose.goals[i].known
             /\ Leave(AcceptedOutcomes(pose, i))
          \/ /\ pose.goals[i].phase = "sent"
             /\ Leave(RejectedOutcomes(pose, i))
    /\ UNCHANGED <<pose_inbox, trajectory, replan_request>>

\* _trajectory_result.
Reached(n) ==
    StartNextStep([n EXCEPT
        !.state = "other",
        !.held = CASE n.step.kind \in TargetKinds -> @ \union {n.side}
                   [] n.step.kind = "home" -> @ \ {n.side}
                   [] OTHER -> @,
        !.route_active = @ /\ n.step.kind # "under_recover"])

ResultOutcomes(before, i) ==
    LET g == before.goals[i]
        rest == [before EXCEPT !.goals = RemoveAt(@, i)]
        \* The handle is dropped, whichever goal the result belongs to.
        n == [rest EXCEPT !.busy = FALSE,
                          !.goals = [j \in DOMAIN @ |-> [rest.goals[j] EXCEPT !.handle = FALSE]]]
        canceled == IF g.cancel THEN {n} ELSE {}
        succeeded == IF g.phase = "running" THEN Reached(n) ELSE {}
    IN  IF g.current THEN {Shown(n)} \union canceled \union succeeded ELSE {rest}

TrajectoryResult ==
    /\ \E i \in DOMAIN pose.goals :
          pose.goals[i].known /\ Leave(ResultOutcomes(pose, i))
    /\ UNCHANGED <<pose_inbox, trajectory, replan_request>>

-----------------------------------------------------------------------------
\* Timers.

RetryTimerFires ==
    /\ pose.retry_timer # NoStep
    /\ Leave(RetryTimer(pose))
    /\ UNCHANGED <<pose_inbox, trajectory, replan_request>>

\* _automatic_estop_recovery_tick: one reset for each stop.
RecoveryTick(n) ==
    {n} \union
    IF n.planner_mode = "dynamic" /\ n.safety = "EMERGENCY_STOP" /\ ~n.reset_requested
    THEN {[Shown(n) EXCEPT !.reset_requested = TRUE]}
    ELSE {}

\* _publish_state, five times a second.
PublishState ==
    /\ Leave(UNION {IdleAvoidanceTick(n) : n \in RecoveryTick(pose)})
    /\ UNCHANGED <<pose_inbox, trajectory, replan_request>>

-----------------------------------------------------------------------------
\* The FollowJointTrajectory controllers, one per arm: a goal for other joints is
\* refused, and a new goal takes the place of the one that runs.
Supersede(goals, i) ==
    [j \in DOMAIN goals |->
        CASE j = i -> [goals[j] EXCEPT !.phase = "running"]
          [] j # i /\ goals[j].side = goals[i].side /\ goals[j].phase = "running" ->
                [goals[j] EXCEPT !.phase = "aborted"]
          [] OTHER -> goals[j]]

ControllerAccepts ==
    /\ \E i \in DOMAIN pose.goals :
          /\ pose.goals[i].phase = "sent"
          /\ pose.goals[i].trajectory.side = pose.goals[i].side
          /\ pose' = [pose EXCEPT !.goals = Supersede(@, i)]
    /\ UNCHANGED <<pose_inbox, input, trajectory, replan_request>>

=============================================================================

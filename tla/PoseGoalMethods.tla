-------------------------- MODULE PoseGoalMethods --------------------------
(***************************************************************************)
(* The methods of OpenArmPoseGoal (openarm_sorting_task/pose_goal.py), the *)
(* node that turns an operator's command into MoveIt goals and controller  *)
(* goals, one step at a time, and reacts to the safety supervisor.         *)
(*                                                                         *)
(* The callbacks call one another several levels deep, so the node's       *)
(* attributes are the fields of one record n, and a method is the set of   *)
(* records it may leave.  It is a set because geometry is abstract: which  *)
(* arms are near the hand, whether a straight path crosses it, whether a   *)
(* transform is available, whether a distance is dangerous or a waiting    *)
(* interval is over.  Displayed state names are reduced to the two that    *)
(* the code reads back.                                                    *)
(***************************************************************************)
EXTENDS Integers, Sequences, SequencesExt, TLC

CONSTANTS
    SideOrder,        \* the arms, in the order the code lists them
    CrisisRetries,    \* crisis_avoidance.planning_retry_attempts
    RouteRetries,     \* dynamic_under_route.planning_retry_attempts
    RouteRefreshes,   \* dynamic_under_route.maximum_route_refresh_attempts
    TargetRetries,    \* maximum_replan_attempts
    WaitingRetries    \* waiting_obstacle_retry_attempts

ASSUME PoseGoalAssumption ==
    /\ SideOrder \in Seq({"left", "right"}) /\ \E i \in DOMAIN SideOrder : SideOrder[i] = "left"
    /\ CrisisRetries \in Nat /\ RouteRetries \in Nat /\ RouteRefreshes \in Nat
    /\ TargetRetries \in Nat /\ WaitingRetries \in Nat

Side == {SideOrder[i] : i \in DOMAIN SideOrder}

\* The elements of a sequence that are in a set, as SelectSeq would give them; a
\* recursive function, so that proofs can follow it.
Kept(sequence, wanted) ==
    LET kept[i \in 0 .. Len(sequence)] ==
            IF i = 0 THEN <<>>
            ELSE IF sequence[i] \in wanted THEN Append(kept[i - 1], sequence[i])
            ELSE kept[i - 1]
    IN  kept[Len(sequence)]

InOrder(sides) == Kept(SideOrder, sides)

RouteKinds == {"under_approach", "under_entry", "under_exit", "under_recover"}
CrisisKinds == {"safety_evade", "idle_evade"}
TargetKinds == {"model_target", "explicit_target"}
StepKinds == RouteKinds \union CrisisKinds \union TargetKinds \union {"home", "idle_restore"}

Step(side, kind) == [side |-> side, kind |-> kind]
NoStep == Step("none", "none")
StepsOf(sides, kind) == [i \in DOMAIN InOrder(sides) |-> Step(InOrder(sides)[i], kind)]

TargetRequests == {"target", "both_targets", "left_target", "right_target"}
Requests == TargetRequests \union {"", "home_both", "idle_evade", "idle_restore"}

\* _restart_dynamic_route and the others: the step that stands for the target.
TargetKind(n) == IF n.request = "target" THEN "explicit_target" ELSE "model_target"

-----------------------------------------------------------------------------
\* __init__.
InitialNode == [
    safety |-> "SAFE", planner_mode |-> "dynamic", state |-> "other",
    request |-> "", sequence |-> <<>>, step |-> NoStep,
    side |-> "left",              \* _active_side
    busy |-> FALSE, resume |-> FALSE,
    retry_timer |-> NoStep,       \* the step the one-shot timer will retry
    obstacle |-> FALSE,           \* _dynamic_obstacle is not None
    waiting |-> FALSE,            \* _waiting_obstacle_center is not None
    held |-> {}, failed |-> {},   \* _held_target_sides, _failed_sides
    failures |-> <<>>, retries |-> <<>>, refreshes |-> <<>>,
    routed |-> {},                \* _under_routed_steps
    route_active |-> FALSE,       \* _under_route_active
    waypoints |-> FALSE,          \* _route_waypoints (and their obstacle) set
    saved |-> FALSE,              \* _idle_saved_joints is not None
    evading |-> {}, evaded |-> FALSE,
    reset_requested |-> FALSE,    \* _estop_reset_requested
    plans |-> <<>>,               \* MoveGroup goals whose answer still counts
    goals |-> <<>>,               \* controller goals not yet forgotten
    publish |-> <<>>]             \* what this callback publishes to the gate

\* A dictionary of counters; a missing key counts as zero.  A counter stops one
\* past its limit: no comparison tells a larger value apart.
Count(counts, key) == IF key \in DOMAIN counts THEN counts[key] ELSE 0
Counted(counts, key, limit) ==
    (key :> IF Count(counts, key) > limit THEN limit + 1 ELSE Count(counts, key) + 1) @@ counts
Popped(counts, key) == [k \in DOMAIN counts \ {key} |-> counts[k]]

Shown(n) == [n EXCEPT !.state = "other"]

-----------------------------------------------------------------------------
\* Predicates.

GuardedRoute(n) ==
    n.planner_mode = "dynamic" /\ n.route_active /\ n.step.kind \in RouteKinds

IsCrisisStep(n) == n.step.kind \in CrisisKinds

CanPlanSoftStopDetour(n) ==
    /\ n.planner_mode = "dynamic" /\ n.obstacle
    /\ n.sequence # <<>> /\ Head(n.sequence).kind \in TargetKinds

\* _start_next_step: the next step waits for the supervisor.
Queued(n) ==
    \/ n.safety = "EMERGENCY_STOP"
    \/ /\ n.safety = "PAUSE"
       /\ ~GuardedRoute(n) /\ ~CanPlanSoftStopDetour(n) /\ ~IsCrisisStep(n)
       /\ ~(n.sequence # <<>> /\ Head(n.sequence).kind \in CrisisKinds)

\* _send_plan: the same test at the moment of sending.
PlanningBlocked(n) ==
    \/ n.safety = "EMERGENCY_STOP"
    \/ n.safety = "PAUSE" /\ ~GuardedRoute(n) /\ ~IsCrisisStep(n)

-----------------------------------------------------------------------------
\* Sending goals.

\* Seeded fault: the generation is not advanced, so old answers still count.
CancelMotionSameGeneration(n) ==
    [n EXCEPT !.retry_timer = NoStep, !.busy = FALSE,
              !.goals = [i \in DOMAIN @ |->
                  [n.goals[i] EXCEPT
                      !.handle = FALSE, !.cancel = n.goals[i].cancel \/ n.goals[i].handle]]]

\* _cancel_motion: answers to what was in flight no longer count (they carry an
\* older generation), and the controller goal whose handle is held is cancelled.
CancelMotion(n) ==
    [n EXCEPT !.plans = <<>>, !.retry_timer = NoStep, !.busy = FALSE,
              !.goals = [i \in DOMAIN @ |->
                  [n.goals[i] EXCEPT !.current = FALSE, !.handle = FALSE,
                                     !.cancel = n.goals[i].cancel \/ n.goals[i].handle]]]

\* _send_plan: a goal for MoveIt, unless joint states are missing, the supervisor
\* forbids it or move_group does not answer.
SendPlan(n) ==
    IF n.busy THEN {Shown(n)}
    ELSE {Shown(n)} \union
         {IF PlanningBlocked(n)
          THEN [Shown(n) EXCEPT !.resume = TRUE]
          ELSE [Shown(n) EXCEPT !.busy = TRUE,
                                !.plans = Append(@, Step(n.side, n.step.kind))]}

\* _execute: the trajectory goes to the controller of the active arm.
Execute(n, trajectory) ==
    {[Shown(n) EXCEPT !.busy = FALSE],
     [Shown(n) EXCEPT !.goals = Append(@,
         [side |-> n.side, trajectory |-> trajectory, phase |-> "sent", current |-> TRUE,
          known |-> FALSE, handle |-> FALSE, cancel |-> FALSE])]}

-----------------------------------------------------------------------------
\* Starting a step.

PlanRouteWaypoint(n) == IF n.waypoints THEN SendPlan(n) ELSE {Shown(n)}

\* _plan_target_or_under_route: a straight path the hand blocks is replaced by
\* four guide steps in front of the target.
RouteInstead(n) ==
    [n EXCEPT !.routed = @ \union {n.step}, !.route_active = TRUE, !.waypoints = TRUE,
              !.sequence = <<Step(n.side, "under_entry"), Step(n.side, "under_exit"),
                             Step(n.side, "under_recover"), n.step>> \o @,
              !.step = Step(n.side, "under_approach")]

PlanTargetOrUnderRoute(n) ==
    SendPlan(n) \union
    IF n.planner_mode = "dynamic" /\ n.step \notin n.routed /\ n.obstacle
    THEN PlanRouteWaypoint(RouteInstead(n))
    ELSE {}

ClearIdle(n) == [n EXCEPT !.saved = FALSE, !.evading = {}, !.evaded = FALSE]

\* _start_next_step with nothing left to do, one case per kind of request.
CompleteEvade(n) ==
    IF n.failed # {}
    THEN [n EXCEPT !.saved = FALSE, !.evading = {}, !.evaded = FALSE]
    ELSE [n EXCEPT !.evaded = TRUE]
CompleteRestore(n) == IF n.failed # {} THEN [n EXCEPT !.evaded = TRUE] ELSE ClearIdle(n)

Complete(n) ==
    LET done == [Shown(n) EXCEPT !.step = NoStep, !.request = "", !.resume = FALSE,
                                 !.route_active = FALSE]
    IN  CASE n.request = "idle_evade" -> CompleteEvade(done)
          [] n.request = "idle_restore" -> CompleteRestore(done)
          [] OTHER -> done

\* _plan_idle_restore without a saved posture fails its step and starts the next;
\* the steps that follow are of the same kind and fail in the same call.
RestoreLost(n) ==
    LET lost == [n EXCEPT !.failed = @ \union {n.side}, !.step = NoStep]
        sides == {n.sequence[i].side : i \in DOMAIN n.sequence}
    IN  IF Queued(lost)
        THEN [Shown(lost) EXCEPT !.resume = TRUE]
        ELSE Complete([lost EXCEPT !.failed = @ \union sides, !.sequence = <<>>,
                          !.side = IF n.sequence = <<>> THEN @ ELSE Last(n.sequence).side])

\* The planning call for the current step.  An evade step always finds the escape
\* pose prepared for it, or falls back to Home: a planning request either way.
PlanStep(n) ==
    CASE n.step.kind \in TargetKinds -> PlanTargetOrUnderRoute(n)
      [] n.step.kind \in RouteKinds -> PlanRouteWaypoint(n)
      [] n.step.kind \in CrisisKinds \union {"home"} -> SendPlan(n)
      [] n.step.kind = "idle_restore" ->
            IF n.saved THEN SendPlan(n) ELSE {RestoreLost(n)}
      [] OTHER -> {n}

\* _start_next_step.
StartNextStep(n) ==
    IF n.busy THEN {Shown(n)}
    ELSE IF Queued(n) THEN {[Shown(n) EXCEPT !.resume = (n.request # "")]}
    ELSE IF n.sequence = <<>> THEN {Complete(n)}
    ELSE PlanStep([n EXCEPT !.step = Head(n.sequence), !.side = Head(n.sequence).side,
                            !.sequence = Tail(@)])

\* _begin_request.
BeginRequest(n, request, sequence) ==
    StartNextStep([CancelMotion(n) EXCEPT
        !.state = "other", !.request = request, !.sequence = sequence, !.step = NoStep,
        !.resume = FALSE, !.waypoints = FALSE, !.refreshes = <<>>, !.routed = {},
        !.route_active = FALSE, !.failures = <<>>, !.retries = <<>>, !.failed = {},
        !.waiting = FALSE])

\* _replan_last_request.
ReplanLastRequest(n) ==
    IF n.step = NoStep
    THEN StartNextStep([n EXCEPT !.busy = FALSE])
    ELSE PlanStep([n EXCEPT !.busy = FALSE])

\* What resume, REPLAN and the states after it do with the kept request.
ContinueRequest(n) == IF n.step = NoStep THEN StartNextStep(n) ELSE ReplanLastRequest(n)

-----------------------------------------------------------------------------
\* Routes and retries.

\* Seeded fault: a failure of one arm drops the other arm's targets too.
WithoutBothSides(sequence, side) ==
    SelectSeq(sequence, LAMBDA queued : queued.kind = "home")

\* preserve_home_after_side_failure.
WithoutSide(sequence, side) ==
    Kept(sequence, {queued \in ToSet(sequence) : queued.side # side \/ queued.kind = "home"})

NoRouteFor(n, side) ==
    [n EXCEPT !.waypoints = FALSE, !.route_active = FALSE,
              !.routed = {step \in @ : step.side # side}]

\* _restart_dynamic_route: back to the target, around the hand as it is now.
RestartDynamicRoute(n, side) ==
    StartNextStep([NoRouteFor(n, side) EXCEPT
        !.sequence = <<Step(side, TargetKind(n))>> \o WithoutSide(@, side),
        !.step = NoStep, !.failed = @ \ {side}, !.resume = FALSE, !.state = "other"])

\* _wait_for_clear_dynamic_path.
WaitForClearPath(n, side) ==
    [NoRouteFor(n, side) EXCEPT
        !.sequence = WithoutSide(@, side), !.step = Step(side, TargetKind(n)),
        !.side = side, !.busy = FALSE, !.resume = TRUE, !.waiting = TRUE,
        !.state = "wait_path"]

\* _schedule_route_retry: a newer timer replaces the older one.
ScheduleRetry(n, step) == [n EXCEPT !.retry_timer = step]

\* The closure retry().
RetryTimer(n) ==
    LET fired == [n EXCEPT !.retry_timer = NoStep]
    IN  IF n.step = n.retry_timer /\ ~n.busy THEN PlanStep(fired) ELSE {fired}

\* Seeded fault: the arm given up is not marked as failed.
GiveUpSilently(n, side) ==
    StartNextStep([n EXCEPT !.state = "other",
                            !.sequence = WithoutSide(@, side), !.step = NoStep])

\* A planning failure that ends the step: the arm is given up, the other goes on.
GiveUp(n, side) ==
    StartNextStep([n EXCEPT !.failed = @ \union {side}, !.state = "other",
                            !.sequence = WithoutSide(@, side), !.step = NoStep])

\* _retry_waiting_request, called while a request waits for the hand to leave.
RetryWaiting(n) ==
    LET tries == [n EXCEPT !.retries = Counted(@, n.step, WaitingRetries)]
        waits == IF n.state = "wait_path" THEN {n} ELSE {}   \* the corridor is not free
    IN  IF n.step.kind \notin TargetKinds \/ n.busy \/ n.retry_timer # NoStep
        THEN {n}
        ELSE waits \union
             IF Count(n.retries, n.step) < WaitingRetries
             THEN {ScheduleRetry([tries EXCEPT !.resume = FALSE, !.state = "other",
                                      !.failures = Popped(@, n.step),
                                      !.routed = @ \ {n.step}], n.step)}
             ELSE GiveUp([tries EXCEPT !.resume = FALSE], n.step.side)

-----------------------------------------------------------------------------
\* Evading.

NonEmpty(sides) == (SUBSET sides) \ {{}}

\* Seeded fault: a route step that was interrupted is queued as it is.
SafetyEvadeKeepingRoute(n, sides) ==
    StepsOf(sides, "safety_evade") \o <<n.step>> \o n.sequence

\* Seeded fault: the interrupted step is dropped.
SafetyEvadeForgetting(n, sides) ==
    StepsOf(sides, "safety_evade") \o
    SelectSeq(n.sequence, LAMBDA queued :
        ~(queued.side = n.step.side /\ queued.kind \in RouteKinds))

\* safety_evade_sequence: the arms near the hand evade first, the interrupted
\* step (or the target its route led to) follows, then what was queued.
SafetyEvadeSequence(n, sides) ==
    LET interrupted == IF n.step.kind \in RouteKinds
                       THEN Step(n.step.side, TargetKind(n)) ELSE n.step
        kept == Kept(n.sequence, {queued \in ToSet(n.sequence) :
                    ~(queued.side = n.step.side /\ queued.kind \in RouteKinds)})
    IN  StepsOf(sides, "safety_evade") \o
        IF kept # <<>> /\ Head(kept) = interrupted THEN kept ELSE <<interrupted>> \o kept

\* An arm that already holds its marker and has to evade is sent back to it.
WithHeldTargets(n, sequence, sides) ==
    LET back == StepsOf(n.held \intersect sides, "model_target")
    IN  sequence \o Kept(back, ToSet(back) \ ToSet(sequence))

EvadeFromRequest(n, sides) ==
    StartNextStep([n EXCEPT
        !.sequence = WithHeldTargets(n, SafetyEvadeSequence(n, sides), sides),
        !.step = NoStep, !.waypoints = FALSE, !.route_active = FALSE,
        !.routed = {step \in @ : step.side \notin sides},
        !.resume = FALSE, !.state = "other"])

EvadeFromHold(n, sides) ==
    BeginRequest([n EXCEPT !.evading = sides, !.evaded = FALSE],
                 "idle_evade", StepsOf(sides, "idle_evade"))

\* _begin_active_crisis_evade, in a PAUSE that has cancelled the motion.  No arm
\* evades when none is near the hand or no transform is available.
BeginActiveCrisisEvade(n) ==
    {n} \union
    IF n.planner_mode # "dynamic" \/ n.request = "" \/ n.step = NoStep \/ ~n.obstacle
    THEN {}
    ELSE IF n.request \in {"idle_evade", "idle_restore"}
    THEN UNION {EvadeFromHold(n, sides) :
                sides \in NonEmpty(IF n.evading = {} THEN Side ELSE n.evading)}
    ELSE IF IsCrisisStep(n)
    THEN ReplanLastRequest([n EXCEPT !.resume = FALSE, !.state = "other"])
    ELSE UNION {EvadeFromRequest(n, sides) : sides \in NonEmpty(Side)}

\* _idle_avoidance_tick: without a request, an arm near the hand is lifted, and
\* restored once the hand has withdrawn.  (Without a transform the tick leaves a
\* snapshot that nothing reads before the next tick takes another.)
IdleLift(n, sides) ==
    BeginRequest([n EXCEPT !.saved = TRUE, !.evading = sides],
                 "idle_evade", StepsOf(sides, "idle_evade"))

IdleAvoidanceTick(n) ==
    {n} \union
    IF n.planner_mode # "dynamic" \/ n.request # "" THEN {}
    ELSE IF n.evaded
    THEN IF n.safety \in {"SAFE", "RECOVER"} /\ n.saved /\ n.evading # {}
         THEN BeginRequest(n, "idle_restore", StepsOf(n.evading, "idle_restore"))
         ELSE {}
    ELSE IF n.obstacle /\ n.safety \in {"WARNING", "PAUSE", "REPLAN"}
    THEN UNION {IdleLift(n, sides) : sides \in NonEmpty(Side)}
    ELSE {}

=============================================================================

------------------------ MODULE MotionSystem_proofs ------------------------
(***************************************************************************)
(* Theorems about the motion side, for any number of retries, commands and *)
(* changes of the supervisor.  The executor's methods call one another,    *)
(* and each is a set of records, so the proofs follow the methods: a       *)
(* predicate on one record holds of whatever a method may leave if it      *)
(* holds of the record it starts with, and therefore of whatever a         *)
(* callback leaves.                                                        *)
(*                                                                         *)
(* The first part is about the emergency stop.  A record is calm when it   *)
(* has the node's fields and, if the node knows of an emergency stop,      *)
(* nothing is in flight.                                                   *)
(*                                                                         *)
(* The second part is about requests: a record is good (Good) when its     *)
(* guide steps have their points and come first, every arm of the request  *)
(* is accounted for, and a busy node is owed an answer.                    *)
(***************************************************************************)
EXTENDS MotionSystem, WellFoundedInduction, TLAPS

Fields == {"safety", "planner_mode", "state", "request", "sequence", "step", "side",
           "busy", "resume", "retry_timer", "obstacle", "waiting", "held", "failed",
           "failures", "retries", "refreshes", "routed", "route_active", "waypoints",
           "saved", "evading", "evaded", "reset_requested", "plans", "goals", "publish"}

IsGoal(g) ==
    DOMAIN g = {"side", "trajectory", "phase", "current", "known", "handle", "cancel"}

IsGoals(goals) == \E S : goals \in Seq(S) /\ \A g \in S : IsGoal(g)

IsNode(n) == DOMAIN n = Fields /\ IsGoals(n.goals)

NoneCounts(goals) == \A i \in DOMAIN goals : ~goals[i].current

Idle(n) == ~n.busy /\ n.plans = <<>> /\ NoneCounts(n.goals)

Calm(n) == IsNode(n) /\ (n.safety = "EMERGENCY_STOP" => Idle(n))

-----------------------------------------------------------------------------
\* Sequences of goals: adding one, forgetting one and marking them.

LEMMA GoalsAppend ==
    ASSUME NEW goals, IsGoals(goals), NEW g, IsGoal(g)
    PROVE  IsGoals(Append(goals, g))
<1>1. PICK S : goals \in Seq(S) /\ \A h \in S : IsGoal(h)
  BY DEF IsGoals
<1>2. Append(goals, g) \in Seq(S \union {g})
  BY <1>1
<1>3. QED
  BY <1>1, <1>2 DEF IsGoals

LEMMA ConcatElement ==
    ASSUME NEW S, NEW s \in Seq(S), NEW t \in Seq(S), NEW j \in DOMAIN (s \o t)
    PROVE  \/ j \in 1..Len(s) /\ (s \o t)[j] = s[j]
           \/ j - Len(s) \in 1..Len(t) /\ (s \o t)[j] = t[j - Len(s)]
<1>1. j \in Int /\ 1 <= j /\ j <= Len(s) + Len(t)
  OBVIOUS
<1>2. QED
  BY <1>1

LEMMA GoalsRemove ==
    ASSUME NEW goals, IsGoals(goals), NEW i \in DOMAIN goals
    PROVE  /\ IsGoals(RemoveAt(goals, i))
           /\ NoneCounts(goals) => NoneCounts(RemoveAt(goals, i))
<1>1. PICK S : goals \in Seq(S) /\ \A h \in S : IsGoal(h)
  BY DEF IsGoals
<1> DEFINE before == SubSeq(goals, 1, i - 1)
           after == SubSeq(goals, i + 1, Len(goals))
<1>2. /\ before \in Seq(S)
      /\ \A j \in 1..Len(before) : j \in DOMAIN goals /\ before[j] = goals[j]
  BY <1>1
<1>3. /\ after \in Seq(S)
      /\ \A j \in 1..Len(after) : i + j \in DOMAIN goals /\ after[j] = goals[i + j]
  BY <1>1
<1>4. RemoveAt(goals, i) = before \o after
  BY DEF RemoveAt
<1> HIDE DEF before, after
<1>5. before \o after \in Seq(S)
  BY <1>2, <1>3
<1>6. ASSUME NEW j \in DOMAIN (before \o after)
      PROVE  \E k \in DOMAIN goals : (before \o after)[j] = goals[k]
  BY <1>2, <1>3, <1>6, ConcatElement
<1>7. QED
  BY <1>1, <1>4, <1>5, <1>6 DEF IsGoals, NoneCounts

\* Goals are marked one by one; only whether they count matters here.
LEMMA GoalsMark ==
    ASSUME NEW goals, IsGoals(goals), NEW marked,
           marked = [i \in DOMAIN goals |-> marked[i]],
           \A i \in DOMAIN goals : IsGoal(marked[i])
    PROVE  IsGoals(marked)
<1>1. PICK S : goals \in Seq(S) /\ \A h \in S : IsGoal(h)
  BY DEF IsGoals
<1> DEFINE M == {marked[i] : i \in DOMAIN goals}
<1>2. marked \in Seq(M)
  BY <1>1
<1>3. QED
  BY <1>2 DEF IsGoals

-----------------------------------------------------------------------------
\* Sending goals.

LEMMA CancelMotionCalm ==
    ASSUME NEW n, IsNode(n)
    PROVE  Calm(CancelMotion(n)) /\ CancelMotion(n).safety = n.safety
<1> DEFINE m == CancelMotion(n)
<1>1. DOMAIN m = Fields /\ m.safety = n.safety /\ ~m.busy /\ m.plans = <<>>
  BY DEF CancelMotion, IsNode, Fields
<1>2. /\ m.goals = [i \in DOMAIN n.goals |-> m.goals[i]]
      /\ \A i \in DOMAIN n.goals : IsGoal(m.goals[i]) /\ ~m.goals[i].current
  <2>1. \A i \in DOMAIN n.goals : IsGoal(n.goals[i])
    BY DEF IsNode, IsGoals
  <2>2. QED
    BY <2>1 DEF CancelMotion, IsNode, IsGoal, Fields
<1>3. IsGoals(m.goals)
  BY <1>2, GoalsMark DEF IsNode
<1>4. QED
  BY <1>1, <1>2, <1>3 DEF Calm, IsNode, Idle, NoneCounts

\* A change that leaves the goals, the plans and what is known of the supervisor
\* alone, and busy alone or off.
Undisturbed(n, m) ==
    /\ DOMAIN m = Fields /\ m.safety = n.safety /\ m.plans = n.plans /\ m.goals = n.goals
    /\ m.busy = n.busy \/ m.busy = FALSE

LEMMA UndisturbedCalm ==
    ASSUME NEW n, Calm(n), NEW m, Undisturbed(n, m)
    PROVE  Calm(m)
BY DEF Calm, IsNode, Idle, Undisturbed

LEMMA SendPlanCalm ==
    ASSUME NEW n, Calm(n), NEW m \in SendPlan(n)
    PROVE  Calm(m)
<1> DEFINE blocked == [Shown(n) EXCEPT !.resume = TRUE]
           shown == Shown(n)
           sent == [Shown(n) EXCEPT !.busy = TRUE,
                                    !.plans = Append(@, Step(n.side, n.step.kind))]
<1>1. Undisturbed(n, shown) /\ Undisturbed(n, blocked)
  BY DEF Calm, IsNode, Undisturbed, Shown, Fields
<1>2. DOMAIN sent = Fields /\ sent.safety = n.safety /\ sent.goals = n.goals
  BY DEF Calm, IsNode, Shown, Fields
<1> HIDE DEF sent
<1>3. m \in {shown, blocked} \/ (m = sent /\ n.safety # "EMERGENCY_STOP")
  BY DEF SendPlan, PlanningBlocked, sent
<1>4. QED
  BY <1>1, <1>2, <1>3, UndisturbedCalm DEF Calm, IsNode

\* The arm's trajectory is sent only where no emergency stop is known.
LEMMA ExecuteCalm ==
    ASSUME NEW n, IsNode(n), n.safety # "EMERGENCY_STOP", NEW path, NEW m \in Execute(n, path)
    PROVE  Calm(m)
<1> DEFINE g == [side |-> n.side, trajectory |-> path, phase |-> "sent", current |-> TRUE,
                 known |-> FALSE, handle |-> FALSE, cancel |-> FALSE]
<1>1. IsGoals(Append(n.goals, g))
  BY GoalsAppend DEF IsNode, IsGoal
<1>2. /\ m.goals \in {n.goals, Append(n.goals, g)}
      /\ DOMAIN m = Fields /\ m.safety = n.safety
  BY DEF Execute, Shown, IsNode, Fields
<1>3. QED
  BY <1>1, <1>2 DEF Calm, IsNode

-----------------------------------------------------------------------------
\* Starting a step.

LEMMA PlanRouteWaypointCalm ==
    ASSUME NEW n, Calm(n), NEW m \in PlanRouteWaypoint(n)
    PROVE  Calm(m)
<1>1. Undisturbed(n, Shown(n))
  BY DEF Calm, IsNode, Undisturbed, Shown, Fields
<1>2. QED
  BY <1>1, UndisturbedCalm, SendPlanCalm DEF PlanRouteWaypoint

LEMMA PlanTargetOrUnderRouteCalm ==
    ASSUME NEW n, Calm(n), NEW m \in PlanTargetOrUnderRoute(n)
    PROVE  Calm(m)
<1>1. Undisturbed(n, RouteInstead(n))
  BY DEF Calm, IsNode, Undisturbed, RouteInstead, Fields
<1>2. QED
  BY <1>1, UndisturbedCalm, SendPlanCalm, PlanRouteWaypointCalm DEF PlanTargetOrUnderRoute

LEMMA CompleteCalm ==
    ASSUME NEW n, Calm(n)
    PROVE  Calm(Complete(n))
<1>1. Undisturbed(n, Complete(n))
  BY DEF Calm, IsNode, Undisturbed, Complete, CompleteEvade, CompleteRestore, ClearIdle,
         Shown, Fields
<1>2. QED
  BY <1>1, UndisturbedCalm

LEMMA RestoreLostCalm ==
    ASSUME NEW n, Calm(n)
    PROVE  Calm(RestoreLost(n))
<1> DEFINE lost == [n EXCEPT !.failed = @ \union {n.side}, !.step = NoStep]
           sides == {n.sequence[i].side : i \in DOMAIN n.sequence}
           skipped == [lost EXCEPT
               !.failed = @ \union sides, !.sequence = <<>>,
               !.side = IF n.sequence = <<>> THEN @ ELSE Last(n.sequence).side]
           queued == [Shown(lost) EXCEPT !.resume = TRUE]
<1>1. Undisturbed(n, queued) /\ Undisturbed(n, skipped)
  BY DEF Calm, IsNode, Undisturbed, Shown, Fields
<1>2. RestoreLost(n) \in {queued, Complete(skipped)}
  BY DEF RestoreLost
<1>3. QED
  BY <1>1, <1>2, UndisturbedCalm, CompleteCalm

LEMMA PlanStepCalm ==
    ASSUME NEW n, Calm(n), NEW m \in PlanStep(n)
    PROVE  Calm(m)
BY SendPlanCalm, PlanRouteWaypointCalm, PlanTargetOrUnderRouteCalm, RestoreLostCalm
   DEF PlanStep

LEMMA StartNextStepCalm ==
    ASSUME NEW n, Calm(n), NEW m \in StartNextStep(n)
    PROVE  Calm(m)
<1> DEFINE shown == Shown(n)
           waits == [Shown(n) EXCEPT !.resume = (n.request # "")]
           next == [n EXCEPT !.step = Head(n.sequence), !.side = Head(n.sequence).side,
                             !.sequence = Tail(@)]
<1>1. Undisturbed(n, shown) /\ Undisturbed(n, waits) /\ Undisturbed(n, next)
  BY DEF Calm, IsNode, Undisturbed, Shown, Fields
<1>2. m \in {shown, waits, Complete(n)} \union PlanStep(next)
  BY DEF StartNextStep
<1>3. QED
  BY <1>1, <1>2, UndisturbedCalm, CompleteCalm, PlanStepCalm

LEMMA BeginRequestCalm ==
    ASSUME NEW n, IsNode(n), NEW request, NEW sequence,
           NEW m \in BeginRequest(n, request, sequence)
    PROVE  Calm(m)
<1> DEFINE begun == [CancelMotion(n) EXCEPT
               !.state = "other", !.request = request, !.sequence = sequence, !.step = NoStep,
               !.resume = FALSE, !.waypoints = FALSE, !.refreshes = <<>>, !.routed = {},
               !.route_active = FALSE, !.failures = <<>>, !.retries = <<>>, !.failed = {},
               !.waiting = FALSE]
<1>1. Calm(CancelMotion(n))
  BY CancelMotionCalm
<1>2. Undisturbed(CancelMotion(n), begun)
  BY <1>1 DEF Calm, IsNode, Undisturbed, Fields
<1>3. m \in StartNextStep(begun)
  BY DEF BeginRequest
<1>4. QED
  BY <1>1, <1>2, <1>3, UndisturbedCalm, StartNextStepCalm

LEMMA ContinueRequestCalm ==
    ASSUME NEW n, Calm(n), NEW m \in ReplanLastRequest(n) \union ContinueRequest(n)
    PROVE  Calm(m)
<1> DEFINE free == [n EXCEPT !.busy = FALSE]
<1>1. Undisturbed(n, free)
  BY DEF Calm, IsNode, Undisturbed, Fields
<1>2. m \in StartNextStep(n) \union StartNextStep(free) \union PlanStep(free)
  BY DEF ReplanLastRequest, ContinueRequest
<1>3. QED
  BY <1>1, <1>2, UndisturbedCalm, StartNextStepCalm, PlanStepCalm

-----------------------------------------------------------------------------
\* Routes, retries and evading.

LEMMA RestartDynamicRouteCalm ==
    ASSUME NEW n, Calm(n), NEW side, NEW m \in RestartDynamicRoute(n, side)
    PROVE  Calm(m)
<1> DEFINE restarted == [NoRouteFor(n, side) EXCEPT
               !.sequence = <<Step(side, TargetKind(n))>> \o WithoutSide(@, side),
               !.step = NoStep, !.failed = @ \ {side}, !.resume = FALSE, !.state = "other"]
<1>1. Undisturbed(n, restarted)
  BY DEF Calm, IsNode, Undisturbed, NoRouteFor, Fields
<1>2. QED
  BY <1>1, UndisturbedCalm, StartNextStepCalm DEF RestartDynamicRoute

LEMMA WaitForClearPathCalm ==
    ASSUME NEW n, Calm(n), NEW side
    PROVE  Calm(WaitForClearPath(n, side))
<1>1. Undisturbed(n, WaitForClearPath(n, side))
  BY DEF Calm, IsNode, Undisturbed, WaitForClearPath, NoRouteFor, Fields
<1>2. QED
  BY <1>1, UndisturbedCalm

LEMMA ScheduleRetryCalm ==
    ASSUME NEW n, Calm(n), NEW step
    PROVE  Calm(ScheduleRetry(n, step))
<1>1. Undisturbed(n, ScheduleRetry(n, step))
  BY DEF Calm, IsNode, Undisturbed, ScheduleRetry, Fields
<1>2. QED
  BY <1>1, UndisturbedCalm

LEMMA RetryTimerCalm ==
    ASSUME NEW n, Calm(n), NEW m \in RetryTimer(n)
    PROVE  Calm(m)
<1>1. Undisturbed(n, [n EXCEPT !.retry_timer = NoStep])
  BY DEF Calm, IsNode, Undisturbed, Fields
<1>2. QED
  BY <1>1, UndisturbedCalm, PlanStepCalm DEF RetryTimer

LEMMA GiveUpCalm ==
    ASSUME NEW n, Calm(n), NEW side, NEW m \in GiveUp(n, side)
    PROVE  Calm(m)
<1> DEFINE given_up == [n EXCEPT !.failed = @ \union {side}, !.state = "other",
                                 !.sequence = WithoutSide(@, side), !.step = NoStep]
<1>1. Undisturbed(n, given_up)
  BY DEF Calm, IsNode, Undisturbed, Fields
<1>2. QED
  BY <1>1, UndisturbedCalm, StartNextStepCalm DEF GiveUp

LEMMA RetryWaitingCalm ==
    ASSUME NEW n, Calm(n), NEW m \in RetryWaiting(n)
    PROVE  Calm(m)
<1> DEFINE tries == [n EXCEPT !.retries = Counted(@, n.step, WaitingRetries)]
           again == [tries EXCEPT !.resume = FALSE, !.state = "other",
                                  !.failures = Popped(@, n.step), !.routed = @ \ {n.step}]
           over == [tries EXCEPT !.resume = FALSE]
<1>1. Undisturbed(n, again) /\ Undisturbed(n, over)
  BY DEF Calm, IsNode, Undisturbed, Fields
<1>2. m \in {n, ScheduleRetry(again, n.step)} \union GiveUp(over, n.step.side)
  BY DEF RetryWaiting
<1>3. QED
  BY <1>1, <1>2, UndisturbedCalm, ScheduleRetryCalm, GiveUpCalm

LEMMA EvadeFromRequestCalm ==
    ASSUME NEW n, Calm(n), NEW sides, NEW m \in EvadeFromRequest(n, sides)
    PROVE  Calm(m)
<1> DEFINE evades == [n EXCEPT
               !.sequence = WithHeldTargets(n, SafetyEvadeSequence(n, sides), sides),
               !.step = NoStep, !.waypoints = FALSE, !.route_active = FALSE,
               !.routed = {step \in @ : step.side \notin sides},
               !.resume = FALSE, !.state = "other"]
<1>1. Undisturbed(n, evades)
  BY DEF Calm, IsNode, Undisturbed, Fields
<1>2. QED
  BY <1>1, UndisturbedCalm, StartNextStepCalm DEF EvadeFromRequest

LEMMA EvadeFromHoldCalm ==
    ASSUME NEW n, IsNode(n), NEW sides, NEW m \in EvadeFromHold(n, sides)
    PROVE  Calm(m)
<1>1. IsNode([n EXCEPT !.evading = sides, !.evaded = FALSE])
  BY DEF IsNode, Fields
<1>2. QED
  BY <1>1, BeginRequestCalm DEF EvadeFromHold

LEMMA BeginActiveCrisisEvadeCalm ==
    ASSUME NEW n, Calm(n), NEW m \in BeginActiveCrisisEvade(n)
    PROVE  Calm(m)
<1> DEFINE again == [n EXCEPT !.resume = FALSE, !.state = "other"]
<1>1. Undisturbed(n, again)
  BY DEF Calm, IsNode, Undisturbed, Fields
<1>2. \/ m = n
      \/ \E sides : m \in EvadeFromHold(n, sides)
      \/ \E sides : m \in EvadeFromRequest(n, sides)
      \/ m \in ReplanLastRequest(again)
  BY DEF BeginActiveCrisisEvade
<1>3. QED
  BY <1>1, <1>2, UndisturbedCalm, EvadeFromHoldCalm, EvadeFromRequestCalm,
     ContinueRequestCalm DEF Calm

LEMMA IdleAvoidanceTickCalm ==
    ASSUME NEW n, Calm(n), NEW m \in IdleAvoidanceTick(n)
    PROVE  Calm(m)
<1>1. \A sides : IsNode([n EXCEPT !.saved = TRUE, !.evading = sides])
  BY DEF Calm, IsNode, Fields
<1>2. ASSUME NEW sides, m \in IdleLift(n, sides)
      PROVE  Calm(m)
  BY <1>1, <1>2, BeginRequestCalm DEF IdleLift
<1>3. \/ m = n
      \/ m \in BeginRequest(n, "idle_restore", StepsOf(n.evading, "idle_restore"))
      \/ \E sides : m \in IdleLift(n, sides)
  BY DEF IdleAvoidanceTick
<1>4. QED
  BY <1>2, <1>3, BeginRequestCalm DEF Calm

-----------------------------------------------------------------------------
\* The callbacks.

\* _safety is the one callback that changes what the node knows of the supervisor;
\* hearing of an emergency stop cancels the motion before anything else happens.
LEMMA SafetyOutcomesCalm ==
    ASSUME NEW before, Calm(before), NEW safety, NEW m \in SafetyOutcomes(before, safety)
    PROVE  Calm(m)
<1> DEFINE n == [before EXCEPT
               !.safety = safety,
               !.reset_requested =
                   @ /\ safety # "EMERGENCY_STOP" /\ before.safety # "EMERGENCY_STOP"]
           cancelled == CancelMotion(n)
           stopped == [CancelMotion(n) EXCEPT !.resume = (n.request # ""), !.state = "other"]
           free == [n EXCEPT !.resume = FALSE, !.state = "other"]
           shown == Shown(n)
           continues == [Shown(n) EXCEPT !.resume = FALSE]
<1>1. IsNode(n) /\ n.safety = safety
  BY DEF Calm, IsNode, Fields
<1>2. Calm(cancelled)
  BY <1>1, CancelMotionCalm
<1>3. Calm(stopped)
  <2>1. Undisturbed(cancelled, stopped)
    BY <1>2 DEF Calm, IsNode, Undisturbed, Fields
  <2>2. QED
    BY <1>2, <2>1, UndisturbedCalm
<1>4. ASSUME safety # "EMERGENCY_STOP"
      PROVE  Calm(n) /\ Calm(free) /\ Calm(shown) /\ Calm(continues)
  <2>1. Calm(n)
    BY <1>1, <1>4 DEF Calm
  <2>2. Undisturbed(n, free) /\ Undisturbed(n, shown) /\ Undisturbed(n, continues)
    BY <1>1 DEF IsNode, Undisturbed, Shown, Fields
  <2>3. QED
    BY <2>1, <2>2, UndisturbedCalm
<1>5. ASSUME NEW r \in SafetyReaction(n, before.safety)
      PROVE  Calm(r)
  <2>1. CASE safety = "EMERGENCY_STOP"
    BY <1>1, <1>3, <1>5, <2>1 DEF SafetyReaction
  <2>2. CASE safety = "PAUSE"
    <3>1. r \in BeginActiveCrisisEvade(stopped)
      BY <1>1, <1>5, <2>2 DEF SafetyReaction
    <3>2. QED
      BY <1>3, <3>1, BeginActiveCrisisEvadeCalm
  <2>3. CASE safety \notin {"EMERGENCY_STOP", "PAUSE"}
    <3>1. r \in {n, shown} \union ContinueRequest(free)
      BY <1>1, <1>5, <2>3 DEF SafetyReaction
    <3>2. QED
      BY <1>4, <2>3, <3>1, ContinueRequestCalm
  <2>4. QED
    BY <2>1, <2>2, <2>3
<1>6. CASE safety = "EMERGENCY_STOP"
  <2>1. m = before \/ \E r \in SafetyReaction(n, before.safety) : m \in IdleAvoidanceTick(r)
    BY <1>1, <1>6 DEF SafetyOutcomes, RoutesAgain, EscapeContinues
  <2>2. QED
    BY <1>5, <2>1, IdleAvoidanceTickCalm
<1>7. CASE safety # "EMERGENCY_STOP"
  <2>1. \/ m \in {before, n, continues}
        \/ m \in RestartDynamicRoute(n, n.side)
        \/ m \in ReplanLastRequest(free)
        \/ \E r \in SafetyReaction(n, before.safety) : m \in IdleAvoidanceTick(r)
    BY DEF SafetyOutcomes
  <2>2. QED
    BY <1>4, <1>5, <1>7, <2>1, RestartDynamicRouteCalm, ContinueRequestCalm,
       IdleAvoidanceTickCalm
<1>8. QED
  BY <1>6, <1>7

LEMMA CommandOutcomesCalm ==
    ASSUME NEW n, Calm(n), NEW command, NEW m \in CommandOutcomes(n, command)
    PROVE  Calm(m)
<1> DEFINE cancelled == CancelMotion(n)
           shown == Shown(ClearIdle(n))
           forgotten == [ClearIdle(n) EXCEPT !.held = {}]
           kept == [ClearIdle(n) EXCEPT !.held = @ \ SidesOf(command)]
           paused == [CancelMotion(n) EXCEPT !.resume = (n.busy \/ n.request # ""),
                                             !.state = "other"]
           free == [n EXCEPT !.resume = FALSE]
           reset == [ClearIdle(CancelMotion(n)) EXCEPT
                        !.sequence = <<>>, !.step = NoStep, !.request = "", !.resume = FALSE,
                        !.waiting = FALSE, !.held = {}, !.state = "other"]
<1>1. /\ Undisturbed(n, shown) /\ Undisturbed(n, forgotten)
      /\ Undisturbed(n, kept) /\ Undisturbed(n, free)
  BY DEF Calm, IsNode, Undisturbed, ClearIdle, Shown, Fields
<1>2. Calm(cancelled)
  BY CancelMotionCalm DEF Calm
<1>3. Undisturbed(cancelled, paused) /\ Undisturbed(cancelled, reset)
  BY <1>2 DEF Calm, IsNode, Undisturbed, ClearIdle, Fields
<1>4. /\ Calm(shown) /\ Calm(forgotten) /\ Calm(kept) /\ Calm(free)
      /\ Calm(paused) /\ Calm(reset)
  BY <1>1, <1>2, <1>3, UndisturbedCalm
<1>5. \/ m \in {n, shown, paused, reset}
      \/ m \in ContinueRequest(free)
      \/ m \in BeginRequest(forgotten, "home_both", StepsOf(Side, "home"))
      \/ \E steps : m \in BeginRequest(kept, command, steps)
  BY DEF CommandOutcomes, HomeOutcomes, PauseOutcomes, ResumeOutcomes, ResetOutcomes,
         MoveOutcomes
<1>6. QED
  BY <1>4, <1>5, BeginRequestCalm, ContinueRequestCalm DEF Calm

LEMMA CollisionOutcomesCalm ==
    ASSUME NEW before, Calm(before), NEW m \in AddOutcomes(before) \union RemoveOutcomes(before)
    PROVE  Calm(m)
<1> DEFINE seen == [before EXCEPT !.obstacle = TRUE]
           gone == [before EXCEPT !.obstacle = FALSE, !.waiting = FALSE]
           again == [gone EXCEPT !.resume = FALSE, !.state = "other",
                                 !.failures = Popped(@, gone.step)]
<1>1. Undisturbed(before, seen) /\ Undisturbed(before, gone) /\ Undisturbed(before, again)
  BY DEF Calm, IsNode, Undisturbed, Fields
<1>2. Calm(seen) /\ Calm(gone) /\ Calm(again)
  BY <1>1, UndisturbedCalm
<1>3. \/ m \in {before, gone, ScheduleRetry(again, gone.step)}
      \/ \E r \in {seen} \union RetryWaiting(seen) : m \in IdleAvoidanceTick(r)
  BY DEF AddOutcomes, RemoveOutcomes
<1>4. QED
  BY <1>2, <1>3, ScheduleRetryCalm, RetryWaitingCalm, IdleAvoidanceTickCalm

\* A plan that fails leaves the node calm whatever is tried next.
LEMMA PlanFailureCalm ==
    ASSUME NEW n, Calm(n), NEW m \in PlanFailure(n)
    PROVE  Calm(m)
<1> DEFINE again(failed) == [n EXCEPT !.failures = failed]
           refreshed(failed) ==
               [n EXCEPT !.refreshes = Counted(@, n.step.side, RouteRefreshes),
                         !.failures = failed]
           waits(failed) == [again(failed) EXCEPT !.resume = TRUE, !.waiting = TRUE,
                                                  !.state = "wait_obstacle"]
           unrouted(failed) == [again(failed) EXCEPT !.routed = @ \ {n.step}, !.state = "other"]
           shown(failed) == [again(failed) EXCEPT !.state = "other"]
           direct(failed) == [n EXCEPT !.failures = failed, !.state = "other"]
<1>1. ASSUME NEW failed
      PROVE  /\ Calm(again(failed)) /\ Calm(refreshed(failed)) /\ Calm(waits(failed))
             /\ Calm(unrouted(failed)) /\ Calm(shown(failed)) /\ Calm(direct(failed))
  <2>1. /\ Undisturbed(n, again(failed)) /\ Undisturbed(n, refreshed(failed))
        /\ Undisturbed(n, waits(failed)) /\ Undisturbed(n, unrouted(failed))
        /\ Undisturbed(n, shown(failed)) /\ Undisturbed(n, direct(failed))
    BY DEF Calm, IsNode, Undisturbed, Fields
  <2>2. QED
    BY <2>1, UndisturbedCalm
<1>2. ASSUME NEW failed, m \in RouteFailure(n, failed)
      PROVE  Calm(m)
  <2>1. \/ m \in RestartDynamicRoute(refreshed(failed), n.step.side)
        \/ m \in RestartDynamicRoute(again(failed), n.step.side)
        \/ m = ScheduleRetry(shown(failed), n.step)
        \/ m = WaitForClearPath(again(failed), n.step.side)
        \/ m \in GiveUp(again(failed), n.side)
    BY <1>2 DEF RouteFailure
  <2> HIDE DEF again, refreshed, shown
  <2>2. QED
    BY <1>1, <2>1, RestartDynamicRouteCalm, ScheduleRetryCalm, WaitForClearPathCalm, GiveUpCalm
<1>3. ASSUME NEW failed, m \in TargetFailure(n, failed)
      PROVE  Calm(m)
  <2>1. \/ m \in {waits(failed), ScheduleRetry(unrouted(failed), n.step)}
        \/ m \in GiveUp(again(failed), n.side)
    BY <1>3 DEF TargetFailure
  <2>2. QED
    BY <1>1, <2>1, ScheduleRetryCalm, GiveUpCalm
<1>4. ASSUME NEW failed, m \in CrisisFailure(n, failed)
      PROVE  Calm(m)
  <2>1. m \in SendPlan(direct(failed)) \union GiveUp(direct(failed), n.side)
    BY <1>4 DEF CrisisFailure
  <2>2. QED
    BY <1>1, <2>1, SendPlanCalm, GiveUpCalm
<1>5. QED
  BY <1>2, <1>3, <1>4, GiveUpCalm DEF PlanFailure

\* An answer about a plan can count only where no emergency stop is known.
LEMMA PlanOutcomesCalm ==
    ASSUME NEW before, Calm(before), NEW i \in DOMAIN before.plans,
           NEW m \in PlanOutcomes(before, i)
    PROVE  Calm(m)
<1> DEFINE n == [before EXCEPT !.plans = RemoveAt(@, i)]
           found == [n EXCEPT !.failures = Popped(@, n.step)]
           path == [side |-> before.plans[i].side,
                    escape |-> before.plans[i].kind \in CrisisKinds]
           refused == [Shown(n) EXCEPT !.busy = FALSE]
           free == [n EXCEPT !.busy = FALSE]
           empty == [Shown(found) EXCEPT !.busy = FALSE]
           gated == [Shown(found) EXCEPT !.publish = <<path>>]
           blocked == [Shown(found) EXCEPT !.busy = FALSE, !.resume = TRUE]
<1>1. before.safety # "EMERGENCY_STOP"
  BY DEF Calm, Idle
<1>2. /\ Calm(refused) /\ Calm(free) /\ Calm(empty) /\ Calm(gated) /\ Calm(blocked)
      /\ IsNode(found) /\ found.safety # "EMERGENCY_STOP"
  BY <1>1 DEF Calm, IsNode, Shown, Fields
<1>3. \/ m \in {refused, free, empty, gated, blocked}
      \/ m \in PlanFailure(free)
      \/ m \in Execute(found, path)
  BY DEF PlanOutcomes, PlanSuccess
<1>4. QED
  BY <1>2, <1>3, PlanFailureCalm, ExecuteCalm

LEMMA ReplanRequestOutcomesCalm ==
    ASSUME NEW n, Calm(n), NEW m \in ReplanRequestOutcomes(n)
    PROVE  Calm(m)
<1> DEFINE stopped == CancelMotion(n)
           shown == Shown(stopped)
           waits == [Shown(stopped) EXCEPT !.resume = TRUE]
<1>1. Calm(stopped)
  BY CancelMotionCalm DEF Calm
<1>2. Undisturbed(stopped, shown) /\ Undisturbed(stopped, waits)
  BY <1>1 DEF Calm, IsNode, Undisturbed, Shown, Fields
<1>3. \/ m \in {n, waits}
      \/ m \in RestartDynamicRoute(stopped, n.side) \union ReplanLastRequest(shown)
  BY DEF ReplanRequestOutcomes
<1>4. QED
  BY <1>1, <1>2, <1>3, UndisturbedCalm, RestartDynamicRouteCalm, ContinueRequestCalm

\* Other goals are marked, and whether they count stays as it is.
LEMMA MarkedCalm ==
    ASSUME NEW n, Calm(n), NEW m, DOMAIN m = Fields,
           m.safety = n.safety, m.busy = n.busy \/ m.busy = FALSE, m.plans = n.plans,
           m.goals = [i \in DOMAIN n.goals |-> m.goals[i]],
           \A i \in DOMAIN n.goals :
               IsGoal(m.goals[i]) /\ m.goals[i].current = n.goals[i].current
    PROVE  Calm(m)
<1>1. IsGoals(m.goals)
  BY GoalsMark DEF Calm, IsNode
<1>2. DOMAIN m.goals = DOMAIN n.goals
  OBVIOUS
<1>3. QED
  BY <1>1, <1>2 DEF Calm, IsNode, Idle, NoneCounts

\* A goal taken from the list.
LEMMA ForgottenCalm ==
    ASSUME NEW n, Calm(n), NEW i \in DOMAIN n.goals
    PROVE  Calm([n EXCEPT !.goals = RemoveAt(@, i)])
<1>1. /\ IsGoals(RemoveAt(n.goals, i))
      /\ NoneCounts(n.goals) => NoneCounts(RemoveAt(n.goals, i))
  BY GoalsRemove DEF Calm, IsNode
<1>2. QED
  BY <1>1 DEF Calm, IsNode, Idle, Fields

LEMMA GoalShape ==
    ASSUME NEW n, IsNode(n)
    PROVE  \A i \in DOMAIN n.goals : IsGoal(n.goals[i])
BY DEF IsNode, IsGoals

LEMMA ResponseCalm ==
    ASSUME NEW n, Calm(n), NEW i \in DOMAIN n.goals,
           NEW m \in AcceptedOutcomes(n, i) \union RejectedOutcomes(n, i)
    PROVE  Calm(m)
<1> DEFINE kept == [j \in DOMAIN n.goals |->
                       [n.goals[j] EXCEPT !.handle = (i = j), !.known = @ \/ i = j]]
           accepted == [n EXCEPT !.goals = kept]
           late == [n EXCEPT !.goals[i].known = TRUE, !.goals[i].cancel = TRUE]
           rest == [n EXCEPT !.goals = RemoveAt(@, i)]
           rejected == [Shown(rest) EXCEPT !.busy = FALSE]
<1>1. \A j \in DOMAIN n.goals : IsGoal(n.goals[j])
  BY GoalShape DEF Calm
<1>2. Calm(accepted)
  <2>1. /\ accepted.goals = [j \in DOMAIN n.goals |-> accepted.goals[j]]
        /\ \A j \in DOMAIN n.goals :
               IsGoal(accepted.goals[j]) /\ accepted.goals[j].current = n.goals[j].current
    BY <1>1 DEF Calm, IsNode, IsGoal, Fields
  <2>2. /\ DOMAIN accepted = Fields /\ accepted.safety = n.safety
        /\ accepted.busy = n.busy /\ accepted.plans = n.plans
    BY DEF Calm, IsNode, Fields
  <2>3. QED
    BY <2>1, <2>2, MarkedCalm
<1>3. Calm(late)
  <2>1. /\ late.goals = [j \in DOMAIN n.goals |-> late.goals[j]]
        /\ \A j \in DOMAIN n.goals :
               IsGoal(late.goals[j]) /\ late.goals[j].current = n.goals[j].current
    BY <1>1 DEF Calm, IsNode, IsGoal, Fields
  <2>2. /\ DOMAIN late = Fields /\ late.safety = n.safety
        /\ late.busy = n.busy /\ late.plans = n.plans
    BY DEF Calm, IsNode, Fields
  <2>3. QED
    BY <2>1, <2>2, MarkedCalm
<1>4. Calm(rest) /\ Calm(rejected)
  <2>1. Calm(rest)
    BY ForgottenCalm
  <2>2. Undisturbed(rest, rejected)
    BY <2>1 DEF Calm, IsNode, Undisturbed, Shown, Fields
  <2>3. QED
    BY <2>1, <2>2, UndisturbedCalm
<1>5. QED
  BY <1>2, <1>3, <1>4 DEF AcceptedOutcomes, RejectedOutcomes

\* A result counts only for a goal that counts, so only without an emergency stop.
LEMMA ResultOutcomesCalm ==
    ASSUME NEW before, Calm(before), NEW i \in DOMAIN before.goals,
           NEW m \in ResultOutcomes(before, i)
    PROVE  Calm(m)
<1> DEFINE rest == [before EXCEPT !.goals = RemoveAt(@, i)]
           n == [rest EXCEPT !.busy = FALSE,
                             !.goals = [j \in DOMAIN @ |->
                                           [rest.goals[j] EXCEPT !.handle = FALSE]]]
           shown == Shown(n)
           reached == [n EXCEPT
               !.state = "other",
               !.held = CASE n.step.kind \in TargetKinds -> @ \union {n.side}
                          [] n.step.kind = "home" -> @ \ {n.side}
                          [] OTHER -> @,
               !.route_active = @ /\ n.step.kind # "under_recover"]
<1>1. Calm(rest)
  BY ForgottenCalm
<1>2. \A j \in DOMAIN rest.goals : IsGoal(rest.goals[j])
  BY <1>1, GoalShape DEF Calm
<1>3. Calm(n)
  <2> HIDE DEF rest
  <2>1. /\ n.goals = [j \in DOMAIN rest.goals |-> n.goals[j]]
        /\ \A j \in DOMAIN rest.goals :
               IsGoal(n.goals[j]) /\ n.goals[j].current = rest.goals[j].current
    BY <1>1, <1>2 DEF Calm, IsNode, IsGoal, Fields
  <2>2. /\ DOMAIN n = Fields /\ n.safety = rest.safety
        /\ n.busy = FALSE /\ n.plans = rest.plans
    BY <1>1 DEF Calm, IsNode, Fields
  <2>3. QED
    BY <1>1, <2>1, <2>2, MarkedCalm
<1> HIDE DEF n, rest
<1>4. Calm(shown) /\ Calm(reached)
  <2>1. Undisturbed(n, shown) /\ Undisturbed(n, reached)
    BY <1>3 DEF Calm, IsNode, Undisturbed, Shown, Fields
  <2>2. QED
    BY <1>3, <2>1, UndisturbedCalm
<1>5. m \in {rest, n, shown} \union StartNextStep(reached)
  BY DEF ResultOutcomes, Reached, n, rest
<1>6. QED
  BY <1>1, <1>3, <1>4, <1>5, StartNextStepCalm

LEMMA PublishStateCalm ==
    ASSUME NEW n, Calm(n), NEW r \in RecoveryTick(n), NEW m \in IdleAvoidanceTick(r)
    PROVE  Calm(m)
<1> DEFINE asked == [Shown(n) EXCEPT !.reset_requested = TRUE]
<1>1. Undisturbed(n, asked)
  BY DEF Calm, IsNode, Undisturbed, Shown, Fields
<1>2. r \in {n, asked}
  BY DEF RecoveryTick
<1>3. QED
  BY <1>1, <1>2, UndisturbedCalm, IdleAvoidanceTickCalm

LEMMA ControllerCalm ==
    ASSUME NEW n, Calm(n), NEW i \in DOMAIN n.goals
    PROVE  Calm([n EXCEPT !.goals = Supersede(@, i)])
<1> DEFINE m == [n EXCEPT !.goals = Supersede(@, i)]
<1>1. \A j \in DOMAIN n.goals : IsGoal(n.goals[j])
  BY GoalShape DEF Calm
<1>2. /\ m.goals = [j \in DOMAIN n.goals |-> m.goals[j]]
      /\ \A j \in DOMAIN n.goals :
             IsGoal(m.goals[j]) /\ m.goals[j].current = n.goals[j].current
  BY <1>1 DEF Calm, IsNode, IsGoal, Fields, Supersede
<1>3. /\ DOMAIN m = Fields /\ m.safety = n.safety
      /\ m.busy = n.busy /\ m.plans = n.plans
  BY DEF Calm, IsNode, Fields
<1>4. QED
  BY <1>2, <1>3, MarkedCalm

-----------------------------------------------------------------------------
\* The system.

\* A callback that may leave only calm records leaves the node calm.
LEMMA LeaveCalm ==
    ASSUME NEW n, Calm(n), pose' = [n EXCEPT !.publish = <<>>]
    PROVE  Calm(pose)'
<1>1. Undisturbed(n, [n EXCEPT !.publish = <<>>])
  BY DEF Calm, IsNode, Undisturbed, Fields
<1>2. Calm([n EXCEPT !.publish = <<>>])
  BY <1>1, UndisturbedCalm
<1>3. QED
  BY <1>2

LEMMA InitCalm == Init => Calm(pose)
<1> SUFFICES ASSUME Init PROVE Calm(pose)
  OBVIOUS
<1>1. PICK seen \in BOOLEAN : pose = [InitialNode EXCEPT !.obstacle = seen]
  BY DEF Init, PoseInit
<1>2. pose.goals = <<>> /\ DOMAIN pose = Fields /\ pose.safety = "SAFE"
  BY <1>1 DEF InitialNode, Fields
<1>3. IsGoals(<<>>)
  <2>1. ASSUME NEW S, S = {}
        PROVE  <<>> \in Seq(S) /\ \A g \in S : IsGoal(g)
    BY <2>1
  <2>2. ASSUME NEW S, S = {}, <<>> \in Seq(S), \A g \in S : IsGoal(g)
        PROVE  IsGoals(<<>>)
    BY <2>2, Zenon DEF IsGoals
  <2>3. QED
    BY <2>1, <2>2
<1>4. QED
  BY <1>2, <1>3 DEF Calm, IsNode

\* Every step of the system leaves the executor calm.
LEMMA NextCalm == Calm(pose) /\ [Next]_vars => Calm(pose)'
<1> SUFFICES ASSUME Calm(pose), [Next]_vars PROVE Calm(pose)'
  OBVIOUS
<1> USE DEF Leave
<1>1. CASE Operator
  <2>1. ASSUME NEW command, Command(command) PROVE Calm(pose)'
    BY <2>1, CommandOutcomesCalm, LeaveCalm DEF Command
  <2>2. ASSUME NEW mode, Planner(mode) PROVE Calm(pose)'
    <3>1. Undisturbed(pose, [pose EXCEPT !.planner_mode = mode])
      BY DEF Calm, IsNode, Undisturbed, Fields
    <3>2. QED
      BY <2>2, <3>1, UndisturbedCalm, LeaveCalm DEF Planner
  <2>3. QED
    BY <1>1, <2>1, <2>2 DEF Operator
<1>2. CASE Hand
  <2>1. CASE DynamicCollision
    BY <2>1, CollisionOutcomesCalm, LeaveCalm DEF DynamicCollision
  <2>2. CASE UNCHANGED pose
    BY <2>2
  <2>3. QED
    BY <1>2, <2>1, <2>2 DEF Hand
<1>3. CASE Executor
  <2>1. CASE SafetyCallback
    BY <2>1, SafetyOutcomesCalm, LeaveCalm DEF SafetyCallback
  <2>2. CASE SafetyDistanceCallback
    BY <2>2, RetryWaitingCalm, LeaveCalm DEF SafetyDistanceCallback
  <2>3. CASE PlanResult
    BY <2>3, PlanOutcomesCalm, LeaveCalm DEF PlanResult
  <2>4. CASE DynamicTrajectory
    \* A path let through by the gate is dropped unless a plan waits for it, and
    \* none does where an emergency stop is known.
    <3>1. PICK m \in (IF pose.planner_mode = "dynamic" /\ pose.busy
                      THEN Execute(pose, Head(trajectory)) ELSE {pose}) :
              pose' = [m EXCEPT !.publish = <<>>]
      BY <2>4 DEF DynamicTrajectory
    <3>2. Calm(m)
      <4>1. CASE pose.safety = "EMERGENCY_STOP"
        BY <3>1, <4>1 DEF Calm, Idle
      <4>2. CASE pose.safety # "EMERGENCY_STOP"
        BY <3>1, <4>2, ExecuteCalm DEF Calm
      <4>3. QED
        BY <4>1, <4>2
    <3>3. QED
      BY <3>1, <3>2, LeaveCalm
  <2>5. CASE DynamicReplanRequest
    BY <2>5, ReplanRequestOutcomesCalm, LeaveCalm DEF DynamicReplanRequest
  <2>6. CASE TrajectoryResponse
    BY <2>6, ResponseCalm, LeaveCalm DEF TrajectoryResponse
  <2>7. CASE TrajectoryResult
    BY <2>7, ResultOutcomesCalm, LeaveCalm DEF TrajectoryResult
  <2>8. CASE RetryTimerFires
    BY <2>8, RetryTimerCalm, LeaveCalm DEF RetryTimerFires
  <2>9. CASE PublishState
    BY <2>9, PublishStateCalm, LeaveCalm DEF PublishState
  <2>10. QED
    BY <1>3, <2>1, <2>2, <2>3, <2>4, <2>5, <2>6, <2>7, <2>8, <2>9 DEF Executor
<1>4. CASE ControllerStep
  <2>1. PICK i \in DOMAIN pose.goals : pose' = [pose EXCEPT !.goals = Supersede(@, i)]
    BY <1>4 DEF ControllerStep, ControllerAccepts
  <2>2. QED
    BY <2>1, ControllerCalm
<1>5. CASE Supervisor \/ GateStep \/ UNCHANGED vars
  BY <1>5 DEF Supervisor, GateStep, vars, poseVars
<1>6. QED
  BY <1>1, <1>2, <1>3, <1>4, <1>5 DEF Next

\* Once the executor knows of an emergency stop it waits for no plan, and no
\* controller goal it has sent still counts: _safety cancels before anything else,
\* and no callback sends anything before it hears of another state.
THEOREM StopLeavesNothingAlways == Spec => []StopLeavesNothing
<1>1. Calm(pose) => StopLeavesNothing
  BY DEF Calm, Idle, NoneCounts, StopLeavesNothing
<1>2. QED
  BY <1>1, InitCalm, NextCalm, PTL DEF Spec

-----------------------------------------------------------------------------
(***************************************************************************)
(* Sequences of steps: what Kept keeps.                                    *)
(***************************************************************************)
\* Every nonempty set of natural numbers has a least element.
LEMMA NatMinimum ==
    ASSUME NEW T \in SUBSET Nat, T # {}
    PROVE  \E m \in T : \A t \in T : m <= t
<1> DEFINE R == OpToRel(<, Nat)
<1>1. IsWellFoundedOn(R, Nat)
  BY NatLessThanWellFounded
<1>2. PICK m \in T : \A t \in T : ~(<<t, m>> \in R)
  <2> HIDE DEF R
  <2> QED BY <1>1, WFMin
<1>3. \A t \in T : ~(t < m)
  BY <1>2 DEF OpToRel
<1>4. QED
  BY <1>3

\* f is the function kept of Kept(s, wanted), on the numbers up to k.
KeptBelow(s, wanted, k, f) ==
    f = [i \in 0 .. k |->
            IF i = 0 THEN <<>>
            ELSE IF s[i] \in wanted THEN Append(f[i - 1], s[i]) ELSE f[i - 1]]

LEMMA KeptExists ==
    ASSUME NEW s, NEW T, NEW n \in Nat
    PROVE  \E f : KeptBelow(s, T, n, f)
<1> DEFINE missing == {k \in Nat : ~ \E f : KeptBelow(s, T, k, f)}
<1>1. SUFFICES ASSUME missing # {} PROVE FALSE
  OBVIOUS
<1>2. PICK m \in missing : \A k \in missing : m <= k
  <2>1. missing \in SUBSET Nat
    OBVIOUS
  <2> HIDE DEF missing
  <2>2. QED
    BY <1>1, <2>1, NatMinimum
<1>3. m # 0
  <2>1. KeptBelow(s, T, 0, [i \in 0 .. 0 |-> <<>>])
    BY DEF KeptBelow
  <2>2. QED
    BY <2>1
<1>4. m \in Nat /\ m - 1 \in Nat /\ m - 1 \notin missing
  BY <1>2, <1>3
<1>5. PICK f : KeptBelow(s, T, m - 1, f)
  BY <1>4
<1> DEFINE g == [i \in 0 .. m |->
                    IF i < m THEN f[i]
                    ELSE IF s[m] \in T THEN Append(f[m - 1], s[m]) ELSE f[m - 1]]
<1>6. \A i \in 0 .. m : g[i] = IF i = 0 THEN <<>>
                               ELSE IF s[i] \in T THEN Append(g[i - 1], s[i]) ELSE g[i - 1]
  <2> SUFFICES ASSUME NEW i \in 0 .. m
               PROVE  g[i] = IF i = 0 THEN <<>>
                             ELSE IF s[i] \in T THEN Append(g[i - 1], s[i]) ELSE g[i - 1]
    OBVIOUS
  <2>1. CASE i = m
    BY <1>3, <1>4, <2>1
  <2>2. CASE i < m
    <3>1. i \in 0 .. (m - 1) /\ g[i] = f[i]
      BY <1>4, <2>2
    <3>2. i # 0 => g[i - 1] = f[i - 1]
      BY <1>4, <2>2
    <3>3. f[i] = IF i = 0 THEN <<>>
                 ELSE IF s[i] \in T THEN Append(f[i - 1], s[i]) ELSE f[i - 1]
      BY <1>5, <3>1 DEF KeptBelow
    <3>4. QED
      BY <3>1, <3>2, <3>3
  <2>3. QED
    BY <1>4, <2>1, <2>2
<1>7. KeptBelow(s, T, m, g)
  BY <1>6 DEF KeptBelow
<1>8. QED
  BY <1>2, <1>7

\* What is kept is of the sequence and wanted, and what is wanted is kept.
LEMMA KeptElements ==
    ASSUME NEW S, NEW s \in Seq(S), NEW T
    PROVE  /\ Kept(s, T) \in Seq(S)
           /\ \A i \in DOMAIN Kept(s, T) :
                 Kept(s, T)[i] \in T /\ \E j \in DOMAIN s : Kept(s, T)[i] = s[j]
           /\ \A j \in DOMAIN s : s[j] \in T => \E i \in DOMAIN Kept(s, T) : Kept(s, T)[i] = s[j]
<1> DEFINE F == CHOOSE f : KeptBelow(s, T, Len(s), f)
           Right(k) ==
               /\ F[k] \in Seq(S)
               /\ \A i \in DOMAIN F[k] : F[k][i] \in T /\ \E j \in DOMAIN s : F[k][i] = s[j]
               /\ \A j \in 1 .. k : s[j] \in T => \E i \in DOMAIN F[k] : F[k][i] = s[j]
           wrong == {k \in 0 .. Len(s) : ~Right(k)}
<1>0. Len(s) \in Nat
  OBVIOUS
<1>1. Kept(s, T) = F[Len(s)]
  BY DEF Kept, KeptBelow
<1>2. KeptBelow(s, T, Len(s), F)
  BY <1>0, KeptExists
<1> HIDE DEF F
<1>3. ASSUME wrong # {} PROVE FALSE
  <2>1. PICK k \in wrong : \A j \in wrong : k <= j
    <3>1. wrong \in SUBSET Nat
      BY <1>0
    <3> HIDE DEF wrong
    <3>2. QED
      BY <1>3, <3>1, NatMinimum
  <2>2. k \in 0 .. Len(s) /\ ~Right(k)
    BY <2>1
  <2>3. k # 0
    <3>1. F[0] = <<>>
      BY <1>0, <1>2 DEF KeptBelow
    <3>2. Right(0)
      BY <3>1
    <3>3. QED
      BY <2>2, <3>2
  <2>4. k - 1 \in 0 .. Len(s) /\ k \in DOMAIN s
    BY <1>0, <2>2, <2>3
  <2>5. Right(k - 1)
    BY <1>0, <2>1, <2>2, <2>3, <2>4
  <2>6. F[k] = IF s[k] \in T THEN Append(F[k - 1], s[k]) ELSE F[k - 1]
    BY <1>2, <2>2, <2>3 DEF KeptBelow
  <2> HIDE DEF wrong
  <2>7. CASE s[k] \notin T
    <3>1. \A j \in 1 .. k : j \in 1 .. (k - 1) \/ j = k
      BY <2>2
    <3>2. QED
      BY <2>2, <2>5, <2>6, <2>7, <3>1
  <2>8. CASE s[k] \in T
    <3>1. F[k - 1] \in Seq(S) /\ s[k] \in S /\ F[k] = Append(F[k - 1], s[k])
      BY <2>4, <2>5, <2>6, <2>8
    <3>2. /\ F[k] \in Seq(S) /\ Len(F[k]) = Len(F[k - 1]) + 1
          /\ F[k][Len(F[k])] = s[k] /\ Len(F[k]) \in DOMAIN F[k]
          /\ \A i \in DOMAIN F[k - 1] : i \in DOMAIN F[k] /\ F[k][i] = F[k - 1][i]
          /\ \A i \in DOMAIN F[k] : i \in DOMAIN F[k - 1] \/ i = Len(F[k])
      BY <3>1
    <3>3. \A j \in 1 .. k : j \in 1 .. (k - 1) \/ j = k
      BY <2>2
    <3>4. \A i \in DOMAIN F[k] : F[k][i] \in T /\ \E j \in DOMAIN s : F[k][i] = s[j]
      BY <2>4, <2>5, <2>8, <3>2
    <3>5. \A j \in 1 .. k : s[j] \in T => \E i \in DOMAIN F[k] : F[k][i] = s[j]
      BY <2>5, <3>2, <3>3
    <3>6. QED
      BY <2>2, <3>2, <3>4, <3>5
  <2>9. QED
    BY <2>7, <2>8
<1>4. Right(Len(s))
  BY <1>0, <1>3
<1>5. DOMAIN s = 1 .. Len(s)
  OBVIOUS
<1>6. QED
  BY <1>1, <1>4, <1>5

\* The steps that may be queued; NoStep may only be the current one.
TrueSteps == [side : Side, kind : StepKinds]

IsRoute(step) == step.kind \in RouteKinds
IsTarget(step, s) == step.side = s /\ step.kind \in TargetKinds
Ahead(sequence, s) == \E i \in DOMAIN sequence : IsTarget(sequence[i], s)
HasNoRoute(sequence) == \A i \in DOMAIN sequence : ~IsRoute(sequence[i])

\* A sequence has a step of each of the arms; it keeps the other arms' targets.
Covers(sequence, sides) ==
    \A s \in sides \intersect Side : \E i \in DOMAIN sequence : sequence[i].side = s
KeepsAhead(sequence, rest, side) ==
    \A s : s # side /\ Ahead(sequence, s) => Ahead(rest, s)

\* StepsOf is a sequence with one step for each of the arms.
LEMMA StepsOfElements ==
    ASSUME NEW sides, NEW kind \in StepKinds
    PROVE  /\ StepsOf(sides, kind) \in Seq(TrueSteps)
           /\ \A i \in DOMAIN StepsOf(sides, kind) :
                 StepsOf(sides, kind)[i].kind = kind /\ StepsOf(sides, kind)[i].side \in sides
           /\ Covers(StepsOf(sides, kind), sides)
<1> DEFINE arms == InOrder(sides)
<1>1. SideOrder \in Seq(Side)
  <2>1. SideOrder \in Seq({"left", "right"})
    BY PoseGoalAssumption
  <2>2. QED
    BY <2>1 DEF Side
<1>2. /\ arms \in Seq(Side)
      /\ \A i \in DOMAIN arms : arms[i] \in sides
      /\ \A j \in DOMAIN SideOrder : SideOrder[j] \in sides =>
            \E i \in DOMAIN arms : arms[i] = SideOrder[j]
  BY <1>1, KeptElements DEF InOrder
<1> HIDE DEF arms
<1>3. /\ StepsOf(sides, kind) = [i \in DOMAIN arms |-> [side |-> arms[i], kind |-> kind]]
      /\ DOMAIN arms = 1 .. Len(arms) /\ Len(arms) \in Nat
      /\ \A i \in DOMAIN arms : arms[i] \in Side
  BY <1>2 DEF StepsOf, Step, arms
<1>4. StepsOf(sides, kind) \in Seq(TrueSteps)
  BY <1>3 DEF TrueSteps
<1>5. QED
  BY <1>2, <1>3, <1>4 DEF Side, Covers

\* What Kept returns, for a sequence that is given by an expression.
Within(part, whole) == \A i \in DOMAIN part : \E j \in DOMAIN whole : part[i] = whole[j]
Retains(whole, T, part) ==
    \A j \in DOMAIN whole : whole[j] \in T => \E i \in DOMAIN part : part[i] = whole[j]

LEMMA KeptParts ==
    ASSUME NEW S, NEW s \in Seq(S), NEW T
    PROVE  /\ Kept(s, T) \in Seq(S) /\ Within(Kept(s, T), s) /\ Retains(s, T, Kept(s, T))
           /\ \A i \in DOMAIN Kept(s, T) : Kept(s, T)[i] \in T
BY KeptElements DEF Within, Retains

\* Taking an arm's steps from the queue leaves the other arm's.
LEMMA WithoutSideElements ==
    ASSUME NEW sequence \in Seq(TrueSteps), NEW side
    PROVE  LET rest == WithoutSide(sequence, side)
           IN  /\ rest \in Seq(TrueSteps)
               /\ \A i \in DOMAIN rest :
                     /\ \E j \in DOMAIN sequence : rest[i] = sequence[j]
                     /\ rest[i].side # side \/ rest[i].kind = "home"
               /\ KeepsAhead(sequence, rest, side)
<1> DEFINE wanted == {queued \in ToSet(sequence) : queued.side # side \/ queued.kind = "home"}
           rest == Kept(sequence, wanted)
<1>1. /\ rest \in Seq(TrueSteps)
      /\ \A i \in DOMAIN rest : rest[i] \in wanted /\ \E j \in DOMAIN sequence : rest[i] = sequence[j]
      /\ \A j \in DOMAIN sequence : sequence[j] \in wanted => \E i \in DOMAIN rest : rest[i] = sequence[j]
  <2> HIDE DEF wanted
  <2> QED BY KeptElements
<1>2. rest = WithoutSide(sequence, side)
  BY DEF WithoutSide
<1>3. ASSUME NEW s, s # side, Ahead(sequence, s)
      PROVE  Ahead(rest, s)
  <2>1. PICK j \in DOMAIN sequence : IsTarget(sequence[j], s)
    BY <1>3 DEF Ahead
  <2>2. sequence[j] \in wanted
    BY <1>3, <2>1 DEF ToSet, IsTarget
  <2> HIDE DEF rest, wanted
  <2>3. QED
    BY <1>1, <2>1, <2>2 DEF Ahead
<1> HIDE DEF rest
<1>4. QED
  BY <1>1, <1>2, <1>3 DEF KeepsAhead

-----------------------------------------------------------------------------
(***************************************************************************)
(* What holds of the executor's record besides: its steps are in order     *)
(* (Arranged, Routed, OwnKinds), the arms asked for are accounted for      *)
(* (Accounts), and a busy node is owed an answer (Traffic).  S stands for  *)
(* the arms of the request a callback starts with, and X for what the gate *)
(* owes; no method changes either.                                         *)
(***************************************************************************)
Plans == [side : Side, kind : StepKinds \union {"none"}]

\* The types; a node without a request has nothing to do.
Arranged(n) ==
    /\ DOMAIN n = Fields
    /\ n.request \in Requests
    /\ n.step \in Steps /\ n.retry_timer \in Steps
    /\ n.side \in Side
    /\ n.sequence \in Seq(TrueSteps)
    /\ n.held \subseteq Side /\ n.failed \subseteq Side /\ n.evading \subseteq Side
    /\ n.request = "" => n.step = NoStep /\ n.sequence = <<>>

\* Guide steps come first in the queue, behind a guide step of the same arm, and
\* have their guide points.
Routed(n) ==
    /\ IsRoute(n.step) => n.waypoints
    /\ n.step # NoStep => n.side = n.step.side
    /\ \A i \in DOMAIN n.sequence : IsRoute(n.sequence[i]) =>
          /\ IsRoute(n.step) /\ n.sequence[i].side = n.step.side
          /\ \A j \in 1 .. i : IsRoute(n.sequence[j])

\* Home and the saved posture are no part of a request for markers.
Suits(step, request) ==
    step.kind \in {"home", "idle_restore"} => request \notin TargetRequests \union {""}
OwnKinds(n) ==
    /\ Suits(n.step, n.request)
    /\ \A i \in DOMAIN n.sequence : Suits(n.sequence[i], n.request)

Settled(n, s) == s \in n.held \union n.failed

Accounts(n, S) ==
    /\ n.request \in TargetRequests =>
          /\ SidesOf(n.request) = S
          /\ \A s \in S : Settled(n, s) \/ Ahead(n.sequence, s) \/ IsTarget(n.step, s)
    /\ n.request = "" => \A s \in S : Settled(n, s)
    /\ n.request \notin TargetRequests \union {""} => S = {}

\* The same without the current step, which may then be left.
Ready(n, S) ==
    n.request \in TargetRequests => \A s \in S : Settled(n, s) \/ Ahead(n.sequence, s)

Owes(n, X) ==
    n.busy => \/ n.planner_mode # "dynamic" \/ X
              \/ n.publish # <<>> \/ n.plans # <<>>
              \/ \E i \in DOMAIN n.goals : n.goals[i].current

Traffic(n, X) ==
    /\ n.safety \in Contract!States
    /\ n.plans \in Seq(Plans) /\ n.goals \in Seq(Goal) /\ n.publish \in Seq(Trajectory)
    /\ Owes(n, X)

Good(n, S, X) ==
    Arranged(n) /\ Routed(n) /\ OwnKinds(n) /\ Accounts(n, S) /\ Traffic(n, X)

\* m differs from n in nothing that matters here, except that it may be free.
SameSteps(n, m) ==
    /\ DOMAIN m = Fields
    /\ m.request = n.request /\ m.step = n.step /\ m.side = n.side
    /\ m.sequence = n.sequence /\ m.waypoints = n.waypoints
    /\ m.held = n.held /\ m.failed = n.failed
    /\ m.retry_timer \in {n.retry_timer, n.step, NoStep}
    /\ m.evading \in {n.evading, {}}

SameTraffic(n, m) ==
    /\ m.safety = n.safety /\ m.plans = n.plans /\ m.goals = n.goals
    /\ m.publish = n.publish /\ m.planner_mode = n.planner_mode
    /\ m.busy = n.busy \/ m.busy = FALSE

LEMMA NoStepIsNone ==
    /\ NoStep \in Steps /\ NoStep.kind = "none" /\ ~IsRoute(NoStep)
    /\ \A s : ~IsTarget(NoStep, s)
    /\ \A request : Suits(NoStep, request)
BY DEF NoStep, Step, Steps, IsRoute, IsTarget, Suits, RouteKinds, TargetKinds

LEMMA SameStepsArranged ==
    ASSUME NEW n, NEW S, NEW m, SameSteps(n, m),
           Arranged(n), Routed(n), OwnKinds(n), Accounts(n, S)
    PROVE  Arranged(m) /\ Routed(m) /\ OwnKinds(m) /\ Accounts(m, S)
<1>1. Arranged(m)
  BY NoStepIsNone DEF SameSteps, Arranged
<1>2. Routed(m)
  BY DEF SameSteps, Routed
<1>3. OwnKinds(m)
  BY DEF SameSteps, OwnKinds
<1>4. Accounts(m, S)
  BY DEF SameSteps, Accounts, Settled
<1>5. QED
  BY <1>1, <1>2, <1>3, <1>4

LEMMA SameTrafficOwes ==
    ASSUME NEW n, NEW X, NEW m, SameTraffic(n, m), Traffic(n, X)
    PROVE  Traffic(m, X)
BY DEF SameTraffic, Traffic, Owes

LEMMA AlikeGood ==
    ASSUME NEW S, NEW X, NEW n, Good(n, S, X), NEW m, SameSteps(n, m), SameTraffic(n, m)
    PROVE  Good(m, S, X)
BY SameStepsArranged, SameTrafficOwes DEF Good

\* A current step is one of an arm.
LEMMA StepOfArm ==
    ASSUME NEW n, Arranged(n), Routed(n), n.step # NoStep
    PROVE  n.step \in TrueSteps /\ n.step.side = n.side /\ n.step.kind \in StepKinds
BY DEF Arranged, Routed, Steps, TrueSteps

-----------------------------------------------------------------------------
\* Sending goals.

LEMMA SendPlanGood ==
    ASSUME NEW S, NEW X, NEW n, Good(n, S, X), NEW m \in SendPlan(n)
    PROVE  Good(m, S, X)
<1> DEFINE plan == Step(n.side, n.step.kind)
           blocked == [Shown(n) EXCEPT !.resume = TRUE]
           shown == Shown(n)
           sent == [Shown(n) EXCEPT !.busy = TRUE, !.plans = Append(@, plan)]
<1>1. /\ SameSteps(n, shown) /\ SameTraffic(n, shown)
      /\ SameSteps(n, blocked) /\ SameTraffic(n, blocked)
  BY DEF Good, Arranged, SameSteps, SameTraffic, Shown, Fields
<1>2. SameSteps(n, sent)
  BY DEF Good, Arranged, SameSteps, Shown, Fields
<1>3. Traffic(sent, X)
  <2>1. plan \in Plans
    <3>1. n.step.kind \in StepKinds \union {"none"} /\ n.side \in Side
      BY NoStepIsNone DEF Good, Arranged, Steps
    <3>2. QED
      BY <3>1 DEF Plans, Step
  <2>2. /\ sent.plans = Append(n.plans, plan) /\ sent.goals = n.goals
        /\ sent.safety = n.safety /\ sent.publish = n.publish
    BY DEF Good, Arranged, Shown, Fields
  <2> HIDE DEF sent, plan
  <2>3. Append(n.plans, plan) \in Seq(Plans) /\ Append(n.plans, plan) # <<>>
    BY <2>1 DEF Good, Traffic
  <2>4. QED
    BY <2>2, <2>3 DEF Good, Traffic, Owes
<1>4. Good(sent, S, X)
  BY <1>2, <1>3, SameStepsArranged DEF Good
<1>5. m \in {shown, blocked, sent}
  BY DEF SendPlan
<1>6. QED
  BY <1>1, <1>4, <1>5, AlikeGood

\* A cancelled node owes nothing and is owed nothing.
LEMMA CancelMotionTraffic ==
    ASSUME NEW X, NEW Y, NEW n, DOMAIN n = Fields, Traffic(n, Y)
    PROVE  LET m == CancelMotion(n)
           IN  /\ Traffic(m, X) /\ SameSteps(n, m) /\ m.retry_timer = NoStep
               /\ m.safety = n.safety /\ m.busy = FALSE /\ m.evading = n.evading
<1> DEFINE m == CancelMotion(n)
           mark(g) == [g EXCEPT !.current = FALSE, !.handle = FALSE,
                                !.cancel = g.cancel \/ g.handle]
<1>1. SameSteps(n, m) /\ m.retry_timer = NoStep /\ m.evading = n.evading
  BY DEF SameSteps, CancelMotion, Fields
<1>2. /\ m.goals = [i \in DOMAIN n.goals |-> mark(n.goals[i])]
      /\ m.plans = <<>> /\ m.publish = n.publish /\ m.safety = n.safety /\ m.busy = FALSE
  BY DEF CancelMotion, Fields
<1>3. n.goals \in Seq(Goal)
  BY DEF Traffic
<1>4. \A g \in Goal : mark(g) \in Goal
  BY DEF Goal
<1> HIDE DEF mark, m
<1>5. m.goals \in Seq(Goal)
  <2>1. DOMAIN n.goals = 1 .. Len(n.goals) /\ Len(n.goals) \in Nat
    BY <1>3
  <2>2. \A i \in DOMAIN n.goals : mark(n.goals[i]) \in Goal
    BY <1>3, <1>4
  <2>3. QED
    BY <1>2, <2>1, <2>2
<1>6. <<>> \in Seq(Plans)
  OBVIOUS
<1>7. Traffic(m, X)
  BY <1>2, <1>5, <1>6 DEF Traffic, Owes
<1>8. QED
  BY <1>1, <1>2, <1>7 DEF m

LEMMA CancelMotionGood ==
    ASSUME NEW S, NEW X, NEW Y, NEW n, Good(n, S, Y)
    PROVE  Good(CancelMotion(n), S, X) /\ CancelMotion(n).safety = n.safety
BY CancelMotionTraffic, SameStepsArranged DEF Good, Arranged

\* A goal sent is owed an answer.
LEMMA ExecuteGood ==
    ASSUME NEW S, NEW X, NEW Y, NEW n, Good(n, S, Y), NEW path \in Trajectory,
           NEW m \in Execute(n, path)
    PROVE  Good(m, S, X)
<1> DEFINE g == [side |-> n.side, trajectory |-> path, phase |-> "sent", current |-> TRUE,
                 known |-> FALSE, handle |-> FALSE, cancel |-> FALSE]
           free == [Shown(n) EXCEPT !.busy = FALSE]
           sent == [Shown(n) EXCEPT !.goals = Append(@, g)]
<1>1. SameSteps(n, free) /\ SameSteps(n, sent)
  BY DEF Good, Arranged, SameSteps, Shown, Fields
<1>2. g \in Goal /\ g.current
  BY DEF Good, Arranged, Goal
<1>3. /\ free.safety = n.safety /\ free.plans = n.plans /\ free.goals = n.goals
      /\ free.publish = n.publish /\ free.busy = FALSE
      /\ sent.safety = n.safety /\ sent.plans = n.plans /\ sent.goals = Append(n.goals, g)
      /\ sent.publish = n.publish
  BY DEF Good, Arranged, Shown, Fields
<1>4. m \in {free, sent}
  BY DEF Execute
<1> HIDE DEF g, free, sent
<1>5. Traffic(free, X)
  BY <1>3 DEF Good, Traffic, Owes
<1>6. Traffic(sent, X)
  <2>1. n.goals \in Seq(Goal)
    BY DEF Good, Traffic
  <2>2. /\ Append(n.goals, g) \in Seq(Goal)
        /\ Len(n.goals) + 1 \in DOMAIN Append(n.goals, g)
        /\ Append(n.goals, g)[Len(n.goals) + 1] = g
    BY <1>2, <2>1
  <2>3. QED
    BY <1>2, <1>3, <2>2 DEF Good, Traffic, Owes
<1>7. QED
  BY <1>1, <1>4, <1>5, <1>6, SameStepsArranged DEF Good

-----------------------------------------------------------------------------
\* Starting a step.

LEMMA ElementOf ==
    ASSUME NEW T, NEW q \in Seq(T)
    PROVE  \A i \in DOMAIN q : q[i] \in T
OBVIOUS

LEMMA FirstAndRest ==
    ASSUME NEW T, NEW q \in Seq(T), q # <<>>
    PROVE  /\ 1 \in DOMAIN q /\ Len(q) \in DOMAIN q /\ Head(q) = q[1] /\ q[1] \in T
           /\ Tail(q) \in Seq(T)
           /\ \A i \in DOMAIN Tail(q) : i + 1 \in DOMAIN q /\ Tail(q)[i] = q[i + 1]
           /\ \A i \in DOMAIN q :
                 i = 1 \/ (i - 1 \in DOMAIN Tail(q) /\ Tail(q)[i - 1] = q[i])
<1>1. Len(q) \in Nat /\ Len(q) # 0 /\ DOMAIN q = 1 .. Len(q)
  OBVIOUS
<1>2. /\ Tail(q) \in Seq(T) /\ Len(Tail(q)) = Len(q) - 1
      /\ DOMAIN Tail(q) = 1 .. (Len(q) - 1)
      /\ \A i \in 1 .. (Len(q) - 1) : Tail(q)[i] = q[i + 1]
  BY <1>1
<1>3. 1 \in DOMAIN q /\ Len(q) \in DOMAIN q /\ Head(q) = q[1] /\ q[1] \in T
  BY <1>1
<1>4. \A i \in DOMAIN Tail(q) : i + 1 \in DOMAIN q /\ Tail(q)[i] = q[i + 1]
  BY <1>1, <1>2
<1>5. ASSUME NEW i \in DOMAIN q, i # 1
      PROVE  i - 1 \in DOMAIN Tail(q) /\ Tail(q)[i - 1] = q[i]
  <2>1. i \in Nat /\ i - 1 \in 1 .. (Len(q) - 1) /\ (i - 1) + 1 = i
    BY <1>1, <1>5
  <2>2. QED
    BY <1>2, <2>1
<1>6. QED
  BY <1>2, <1>3, <1>4, <1>5

LEMMA ConcatParts ==
    ASSUME NEW T, NEW f \in Seq(T), NEW q \in Seq(T)
    PROVE  /\ f \o q \in Seq(T)
           /\ \A i \in DOMAIN (f \o q) :
                 \/ i \in DOMAIN f /\ (f \o q)[i] = f[i]
                 \/ i > Len(f) /\ i - Len(f) \in DOMAIN q /\ (f \o q)[i] = q[i - Len(f)]
           /\ \A i \in DOMAIN f : i \in DOMAIN (f \o q) /\ (f \o q)[i] = f[i]
           /\ \A i \in DOMAIN q :
                 i + Len(f) \in DOMAIN (f \o q) /\ (f \o q)[i + Len(f)] = q[i]
<1>1. f \o q \in Seq(T)
  OBVIOUS
<1>2. Len(f) \in Nat /\ Len(q) \in Nat /\ DOMAIN f = 1 .. Len(f) /\ DOMAIN q = 1 .. Len(q)
  OBVIOUS
<1>3. Len(f \o q) = Len(f) + Len(q)
  OBVIOUS
<1>4. DOMAIN (f \o q) = 1 .. (Len(f) + Len(q))
  OBVIOUS
<1>5. ASSUME NEW i \in 1 .. (Len(f) + Len(q))
      PROVE (f \o q)[i] = IF i <= Len(f) THEN f[i] ELSE q[i - Len(f)]
  OBVIOUS
<1>6. ASSUME NEW i \in DOMAIN (f \o q)
      PROVE  \/ i \in DOMAIN f /\ (f \o q)[i] = f[i]
             \/ i > Len(f) /\ i - Len(f) \in DOMAIN q /\ (f \o q)[i] = q[i - Len(f)]
  <2>1. i \in 1 .. (Len(f) + Len(q))
    BY <1>4
  <2>2. CASE i <= Len(f)
    BY <1>2, <1>5, <2>1, <2>2
  <2>3. CASE i > Len(f)
    <3>1. i - Len(f) \in DOMAIN q
      BY <1>2, <2>1, <2>3
    <3>2. QED
      BY <1>2, <1>5, <2>1, <2>3, <3>1
  <2>4. QED
    BY <1>2, <2>1, <2>2, <2>3
<1>7. ASSUME NEW i \in DOMAIN f
      PROVE  i \in DOMAIN (f \o q) /\ (f \o q)[i] = f[i]
  BY <1>2, <1>4, <1>5
<1>8. ASSUME NEW i \in DOMAIN q
      PROVE  i + Len(f) \in DOMAIN (f \o q) /\ (f \o q)[i + Len(f)] = q[i]
  <2>1. i + Len(f) \in 1 .. (Len(f) + Len(q)) /\ ~(i + Len(f) <= Len(f)) /\ (i + Len(f)) - Len(f) = i
    BY <1>2
  <2>2. QED
    BY <1>4, <1>5, <2>1
<1>9. QED
  BY <1>1, <1>6, <1>7, <1>8

LEMMA PlanRouteWaypointGood ==
    ASSUME NEW S, NEW X, NEW n, Good(n, S, X), NEW m \in PlanRouteWaypoint(n)
    PROVE  Good(m, S, X)
<1>1. SameSteps(n, Shown(n)) /\ SameTraffic(n, Shown(n))
  BY DEF Good, Arranged, SameSteps, SameTraffic, Shown, Fields
<1>2. QED
  BY <1>1, AlikeGood, SendPlanGood DEF PlanRouteWaypoint

\* The guide steps go in front of a queue that has none.
LEMMA RouteInsteadGood ==
    ASSUME NEW S, NEW X, NEW n, Good(n, S, X), n.step.kind \in TargetKinds
    PROVE  Good(RouteInstead(n), S, X)
<1> DEFINE m == RouteInstead(n)
           front == <<Step(n.side, "under_entry"), Step(n.side, "under_exit"),
                      Step(n.side, "under_recover"), n.step>>
           approach == Step(n.side, "under_approach")
<1>1. /\ m.sequence = front \o n.sequence /\ m.step = approach /\ m.waypoints = TRUE
      /\ DOMAIN m = Fields /\ m.request = n.request /\ m.side = n.side
      /\ m.held = n.held /\ m.failed = n.failed /\ m.evading = n.evading
      /\ m.retry_timer = n.retry_timer /\ SameTraffic(n, m)
  BY DEF Good, Arranged, RouteInstead, SameTraffic, Fields
<1>2. n.step # NoStep /\ ~IsRoute(n.step) /\ Suits(n.step, n.request)
  BY NoStepIsNone DEF TargetKinds, RouteKinds, IsRoute, Suits, NoStep, Step
<1>3. n.step \in TrueSteps /\ n.step.side = n.side /\ n.side \in Side
  BY <1>2, StepOfArm DEF Good, Arranged
<1>4. n.sequence \in Seq(TrueSteps) /\ HasNoRoute(n.sequence)
  BY <1>2 DEF Good, Arranged, Routed, HasNoRoute
<1>5. /\ approach \in TrueSteps /\ IsRoute(approach) /\ approach.side = n.side
      /\ Suits(approach, n.request)
      /\ front \in Seq(TrueSteps) /\ Len(front) = 4 /\ front[4] = n.step
      /\ \A i \in 1 .. 3 : IsRoute(front[i]) /\ front[i].side = n.side /\ Suits(front[i], n.request)
  <2>1. ASSUME NEW kind \in RouteKinds
        PROVE  /\ Step(n.side, kind) \in TrueSteps /\ IsRoute(Step(n.side, kind))
               /\ Step(n.side, kind).side = n.side /\ Suits(Step(n.side, kind), n.request)
    BY <1>3 DEF Step, TrueSteps, StepKinds, IsRoute, RouteKinds, Suits
  <2>2. /\ "under_approach" \in RouteKinds /\ "under_entry" \in RouteKinds
        /\ "under_exit" \in RouteKinds /\ "under_recover" \in RouteKinds
    BY DEF RouteKinds
  <2>3. /\ front[1] = Step(n.side, "under_entry") /\ front[2] = Step(n.side, "under_exit")
        /\ front[3] = Step(n.side, "under_recover") /\ front[4] = n.step /\ Len(front) = 4
    OBVIOUS
  <2>4. front \in Seq(TrueSteps)
    BY <1>3, <2>1, <2>2
  <2> HIDE DEF front
  <2>5. \A i \in 1 .. 3 : i = 1 \/ i = 2 \/ i = 3
    OBVIOUS
  <2>6. QED
    BY <2>1, <2>2, <2>3, <2>4, <2>5
<1> HIDE DEF front, approach, m
<1>6. /\ m.sequence \in Seq(TrueSteps)
      /\ \A i \in DOMAIN m.sequence :
            \/ i \in 1 .. 3 /\ m.sequence[i] = front[i]
            \/ i = 4 /\ m.sequence[i] = n.step
            \/ i > 4 /\ i - 4 \in DOMAIN n.sequence /\ m.sequence[i] = n.sequence[i - 4]
      /\ \A i \in 1 .. 4 : i \in DOMAIN m.sequence /\ m.sequence[i] = front[i]
      /\ \A i \in DOMAIN n.sequence : i + 4 \in DOMAIN m.sequence /\ m.sequence[i + 4] = n.sequence[i]
  <2>1. \A i \in 1 .. 4 : i \in 1 .. 3 \/ i = 4
    OBVIOUS
  <2>2. /\ m.sequence \in Seq(TrueSteps)
        /\ \A i \in DOMAIN m.sequence :
              \/ i \in 1 .. 4 /\ m.sequence[i] = front[i]
              \/ i > 4 /\ i - 4 \in DOMAIN n.sequence /\ m.sequence[i] = n.sequence[i - 4]
        /\ \A i \in 1 .. 4 : i \in DOMAIN m.sequence /\ m.sequence[i] = front[i]
        /\ \A i \in DOMAIN n.sequence :
              i + 4 \in DOMAIN m.sequence /\ m.sequence[i + 4] = n.sequence[i]
    <3>1. front \in Seq(TrueSteps) /\ n.sequence \in Seq(TrueSteps)
      BY <1>4, <1>5
    <3>2. /\ front \o n.sequence \in Seq(TrueSteps)
          /\ \A i \in DOMAIN (front \o n.sequence) :
                \/ i \in DOMAIN front /\ (front \o n.sequence)[i] = front[i]
                \/ /\ i > Len(front) /\ i - Len(front) \in DOMAIN n.sequence
                   /\ (front \o n.sequence)[i] = n.sequence[i - Len(front)]
          /\ \A i \in DOMAIN front :
                i \in DOMAIN (front \o n.sequence) /\ (front \o n.sequence)[i] = front[i]
          /\ \A i \in DOMAIN n.sequence :
                /\ i + Len(front) \in DOMAIN (front \o n.sequence)
                /\ (front \o n.sequence)[i + Len(front)] = n.sequence[i]
      BY <3>1, ConcatParts
    <3>3. m.sequence = front \o n.sequence
      BY <1>1
    <3>4. Len(front) = 4 /\ DOMAIN front = 1 .. 4
      BY <1>5
    <3>5. QED
      BY <3>2, <3>3, <3>4, Zenon
  <2>3. QED
    BY <1>5, <2>1, <2>2
<1>7. Arranged(m)
  <2>1. n.request # ""
    BY <1>2 DEF Good, Arranged
  <2>2. QED
    BY <1>1, <1>5, <1>6, <2>1 DEF Good, Arranged, Steps, TrueSteps
<1>8. Routed(m)
  <2>1. ASSUME NEW i \in DOMAIN m.sequence, IsRoute(m.sequence[i])
        PROVE  i \in 1 .. 3 /\ m.sequence[i] = front[i]
    BY <1>2, <1>4, <1>6, <2>1 DEF HasNoRoute
  <2>2. \A j \in 1 .. 3 : j \in DOMAIN m.sequence /\ m.sequence[j] = front[j]
    <3>1. \A j \in 1 .. 3 : j \in 1 .. 4
      OBVIOUS
    <3>2. QED
      BY <1>6, <3>1
  <2>3. QED
    BY <1>1, <1>5, <2>1, <2>2 DEF Routed
<1>9. OwnKinds(m)
  BY <1>1, <1>2, <1>5, <1>6 DEF Good, OwnKinds
<1>10. Accounts(m, S)
  <2>1. ASSUME NEW s, Ahead(n.sequence, s) \/ IsTarget(n.step, s)
        PROVE  Ahead(m.sequence, s)
    <3>1. 4 \in DOMAIN m.sequence /\ m.sequence[4] = n.step
      BY <1>5, <1>6
    <3>2. QED
      BY <1>6, <2>1, <3>1 DEF Ahead
  <2>2. QED
    BY <1>1, <2>1 DEF Good, Accounts, Settled
<1>11. QED
  BY <1>1, <1>7, <1>8, <1>9, <1>10, SameTrafficOwes DEF Good, m

LEMMA PlanTargetOrUnderRouteGood ==
    ASSUME NEW S, NEW X, NEW n, Good(n, S, X), n.step.kind \in TargetKinds,
           NEW m \in PlanTargetOrUnderRoute(n)
    PROVE  Good(m, S, X)
BY RouteInsteadGood, SendPlanGood, PlanRouteWaypointGood DEF PlanTargetOrUnderRoute

\* A request that ends has accounted for its arms.
LEMMA CompleteGood ==
    ASSUME NEW S, NEW X, NEW n, Good(n, S, X), Ready(n, S), n.sequence = <<>>
    PROVE  Good(Complete(n), S, X)
<1> DEFINE m == Complete(n)
<1>1. /\ m.request = "" /\ m.step = NoStep /\ m.side = n.side /\ m.sequence = n.sequence
      /\ DOMAIN m = Fields /\ m.held = n.held /\ m.failed = n.failed
      /\ m.evading \in {n.evading, {}}
      /\ m.retry_timer = n.retry_timer /\ SameTraffic(n, m)
  BY DEF Good, Arranged, Complete, CompleteEvade, CompleteRestore, ClearIdle, Shown,
         SameTraffic, Fields
<1> HIDE DEF m
<1>2. Arranged(m)
  BY <1>1, NoStepIsNone DEF Good, Arranged, Requests
<1>3. Routed(m) /\ OwnKinds(m)
  <2>1. DOMAIN m.sequence = {}
    <3>1. DOMAIN n.sequence = {}
      OBVIOUS
    <3>2. QED
      BY <1>1, <3>1
  <2>2. QED
    BY <1>1, <2>1, NoStepIsNone DEF Routed, OwnKinds
<1>4. Accounts(m, S)
  <2>1. ASSUME NEW s \in S PROVE Settled(n, s)
    <3>1. ~Ahead(n.sequence, s)
      <4>1. DOMAIN n.sequence = {}
        OBVIOUS
      <4>2. QED
        BY <4>1 DEF Ahead
    <3>2. CASE n.request \in TargetRequests
      BY <3>1, <3>2 DEF Ready
    <3>3. CASE n.request = ""
      BY <3>3 DEF Good, Accounts
    <3>4. CASE n.request \notin TargetRequests \union {""}
      BY <3>4 DEF Good, Accounts
    <3>5. QED
      BY <3>2, <3>3, <3>4
  <2>2. QED
    BY <1>1, <2>1 DEF Accounts, Settled, TargetRequests
<1>5. QED
  BY <1>1, <1>2, <1>3, <1>4, SameTrafficOwes DEF Good, m

LEMMA RestoreLostGood ==
    ASSUME NEW S, NEW X, NEW n, Good(n, S, X), n.step.kind = "idle_restore"
    PROVE  Good(RestoreLost(n), S, X)
<1> DEFINE lost == [n EXCEPT !.failed = @ \union {n.side}, !.step = NoStep]
           sides == {n.sequence[i].side : i \in DOMAIN n.sequence}
           skipped == [lost EXCEPT
               !.failed = @ \union sides, !.sequence = <<>>,
               !.side = IF n.sequence = <<>> THEN @ ELSE Last(n.sequence).side]
           waits == [Shown(lost) EXCEPT !.resume = TRUE]
<1>1. /\ n.request \notin TargetRequests \union {""} /\ S = {}
      /\ n.sequence \in Seq(TrueSteps) /\ HasNoRoute(n.sequence)
  BY DEF Good, Arranged, Routed, OwnKinds, Suits, Accounts, HasNoRoute, IsRoute, RouteKinds
<1>2. /\ sides \subseteq Side
      /\ n.sequence # <<>> => Last(n.sequence).side \in Side
  <2>1. \A i \in DOMAIN n.sequence : n.sequence[i].side \in Side
    <3>1. \A i \in DOMAIN n.sequence : n.sequence[i] \in TrueSteps
      BY <1>1, ElementOf
    <3>2. QED
      BY <3>1 DEF TrueSteps
  <2>2. n.sequence # <<>> => Len(n.sequence) \in DOMAIN n.sequence
    BY <1>1, FirstAndRest
  <2>3. QED
    BY <2>1, <2>2 DEF Last
<1>3. /\ waits.failed = n.failed \union {n.side} /\ waits.step = NoStep
      /\ waits.sequence = n.sequence /\ waits.side = n.side /\ waits.request = n.request
      /\ DOMAIN waits = Fields /\ waits.held = n.held /\ waits.evading = n.evading
      /\ waits.retry_timer = n.retry_timer /\ SameTraffic(n, waits)
  BY DEF Good, Arranged, Shown, SameTraffic, Fields
<1>4. /\ skipped.failed = n.failed \union {n.side} \union sides /\ skipped.step = NoStep
      /\ skipped.sequence = <<>> /\ skipped.request = n.request
      /\ skipped.side = n.side \/ (n.sequence # <<>> /\ skipped.side = Last(n.sequence).side)
      /\ DOMAIN skipped = Fields /\ skipped.held = n.held /\ skipped.evading = n.evading
      /\ skipped.retry_timer = n.retry_timer /\ SameTraffic(n, skipped)
  BY DEF Good, Arranged, SameTraffic, Fields
<1>5. RestoreLost(n) \in {waits, Complete(skipped)}
  BY DEF RestoreLost
<1> HIDE DEF sides, skipped, waits
<1>6. Good(waits, S, X)
  <2>1. Arranged(waits)
    BY <1>1, <1>3, NoStepIsNone DEF Good, Arranged
  <2>2. Routed(waits) /\ OwnKinds(waits)
    BY <1>1, <1>3, NoStepIsNone DEF Good, Routed, OwnKinds, HasNoRoute
  <2>3. Accounts(waits, S)
    BY <1>1, <1>3 DEF Accounts
  <2>4. QED
    BY <1>3, <2>1, <2>2, <2>3, SameTrafficOwes DEF Good
<1>7. Good(skipped, S, X) /\ Ready(skipped, S)
  <2>1. Arranged(skipped)
    <3>1. <<>> \in Seq(TrueSteps)
      OBVIOUS
    <3>2. QED
      BY <1>1, <1>2, <1>4, <3>1, NoStepIsNone DEF Good, Arranged
  <2>2. Routed(skipped) /\ OwnKinds(skipped)
    BY <1>4, NoStepIsNone DEF Routed, OwnKinds
  <2>3. Accounts(skipped, S) /\ Ready(skipped, S)
    BY <1>1, <1>4 DEF Accounts, Ready
  <2>4. QED
    BY <1>4, <2>1, <2>2, <2>3, SameTrafficOwes DEF Good
<1>8. Good(Complete(skipped), S, X)
  BY <1>4, <1>7, CompleteGood
<1>9. QED
  BY <1>5, <1>6, <1>8

LEMMA PlanStepGood ==
    ASSUME NEW S, NEW X, NEW n, Good(n, S, X), NEW m \in PlanStep(n)
    PROVE  Good(m, S, X)
BY SendPlanGood, PlanRouteWaypointGood, PlanTargetOrUnderRouteGood, RestoreLostGood
   DEF PlanStep

\* The head of the queue becomes the current step.
LEMMA NextStepGood ==
    ASSUME NEW S, NEW X, NEW n, Good(n, S, X), Ready(n, S), n.sequence # <<>>
    PROVE  Good([n EXCEPT !.step = Head(n.sequence), !.side = Head(n.sequence).side,
                          !.sequence = Tail(@)], S, X)
<1> DEFINE m == [n EXCEPT !.step = Head(n.sequence), !.side = Head(n.sequence).side,
                          !.sequence = Tail(@)]
<1>0. n.sequence \in Seq(TrueSteps) /\ Head(n.sequence) = n.sequence[1]
  <2>1. n.sequence \in Seq(TrueSteps)
    BY DEF Good, Arranged
  <2>2. QED
    BY <2>1, FirstAndRest
<1>1. /\ m.step = n.sequence[1] /\ m.side = n.sequence[1].side /\ m.sequence = Tail(n.sequence)
      /\ m.waypoints = n.waypoints /\ DOMAIN m = Fields /\ m.request = n.request
      /\ m.held = n.held /\ m.failed = n.failed /\ m.evading = n.evading
      /\ m.retry_timer = n.retry_timer /\ SameTraffic(n, m)
  BY <1>0 DEF Good, Arranged, SameTraffic, Fields
<1> HIDE DEF m
<1>2. /\ n.sequence \in Seq(TrueSteps) /\ 1 \in DOMAIN n.sequence
      /\ n.sequence[1] \in TrueSteps
      /\ Tail(n.sequence) \in Seq(TrueSteps)
      /\ \A i \in DOMAIN Tail(n.sequence) :
            i + 1 \in DOMAIN n.sequence /\ Tail(n.sequence)[i] = n.sequence[i + 1]
      /\ \A i \in DOMAIN n.sequence :
            i = 1 \/ (i - 1 \in DOMAIN Tail(n.sequence) /\ Tail(n.sequence)[i - 1] = n.sequence[i])
  BY <1>0, FirstAndRest
<1>3. n.request # ""
  BY DEF Good, Arranged
<1>4. Arranged(m)
  BY <1>1, <1>2, <1>3 DEF Good, Arranged, Steps, TrueSteps
<1>5. Routed(m)
  <2>1. IsRoute(n.sequence[1]) => n.waypoints
    BY <1>2 DEF Good, Routed
  <2>2. ASSUME NEW i \in DOMAIN m.sequence, IsRoute(m.sequence[i])
        PROVE  /\ IsRoute(m.step) /\ m.sequence[i].side = m.step.side
               /\ \A j \in 1 .. i : IsRoute(m.sequence[j])
    <3>1. /\ i \in Nat /\ i + 1 \in DOMAIN n.sequence /\ IsRoute(n.sequence[i + 1])
          /\ m.sequence[i] = n.sequence[i + 1]
      BY <1>1, <1>2, <2>2
    <3>2. /\ n.sequence[i + 1].side = n.step.side
          /\ \A j \in 1 .. (i + 1) : IsRoute(n.sequence[j])
      BY <3>1 DEF Good, Routed
    <3>3. IsRoute(n.sequence[1]) /\ n.sequence[1].side = n.step.side
      <4>1. 1 \in 1 .. (i + 1)
        BY <3>1
      <4>2. QED
        BY <1>2, <3>2, <4>1 DEF Good, Routed
    <3>4. \A j \in 1 .. i : IsRoute(m.sequence[j])
      <4>1. \A j \in 1 .. i : j \in DOMAIN m.sequence /\ j + 1 \in 1 .. (i + 1)
        BY <1>1, <1>2
      <4>2. QED
        BY <1>1, <1>2, <3>2, <4>1
    <3>5. QED
      BY <1>1, <3>1, <3>2, <3>3, <3>4
  <2>3. QED
    BY <1>1, <2>1, <2>2 DEF Routed
<1>6. OwnKinds(m)
  BY <1>1, <1>2 DEF Good, OwnKinds
<1>7. Accounts(m, S)
  <2>1. ASSUME NEW s, Ahead(n.sequence, s)
        PROVE  Ahead(m.sequence, s) \/ IsTarget(m.step, s)
    <3>1. PICK i \in DOMAIN n.sequence : IsTarget(n.sequence[i], s)
      BY <2>1 DEF Ahead
    <3>2. CASE i = 1
      BY <1>1, <3>1, <3>2
    <3>3. CASE i # 1
      <4>1. i - 1 \in DOMAIN m.sequence /\ m.sequence[i - 1] = n.sequence[i]
        BY <1>1, <1>2, <3>3
      <4>2. QED
        BY <3>1, <4>1 DEF Ahead
    <3>4. QED
      BY <3>2, <3>3
  <2>2. QED
    BY <1>1, <1>3, <2>1 DEF Good, Accounts, Ready, Settled
<1>8. QED
  BY <1>1, <1>4, <1>5, <1>6, <1>7, SameTrafficOwes DEF Good, m

LEMMA StartNextStepGood ==
    ASSUME NEW S, NEW X, NEW n, Good(n, S, X), Ready(n, S), NEW m \in StartNextStep(n)
    PROVE  Good(m, S, X)
<1> DEFINE shown == Shown(n)
           waits == [Shown(n) EXCEPT !.resume = (n.request # "")]
           next == [n EXCEPT !.step = Head(n.sequence), !.side = Head(n.sequence).side,
                             !.sequence = Tail(@)]
<1>1. /\ SameSteps(n, shown) /\ SameTraffic(n, shown)
      /\ SameSteps(n, waits) /\ SameTraffic(n, waits)
  BY DEF Good, Arranged, SameSteps, SameTraffic, Shown, Fields
<1>2. \/ m \in {shown, waits}
      \/ n.sequence = <<>> /\ m = Complete(n)
      \/ n.sequence # <<>> /\ m \in PlanStep(next)
  BY DEF StartNextStep
<1> HIDE DEF next, shown, waits
<1>3. n.sequence # <<>> => Good(next, S, X)
  BY NextStepGood DEF next
<1>4. QED
  BY <1>1, <1>2, <1>3, AlikeGood, CompleteGood, PlanStepGood

-----------------------------------------------------------------------------
\* A queue without guide steps, and no current step.
LEMMA FreshQueue ==
    ASSUME NEW S, NEW X, NEW m, DOMAIN m = Fields, Traffic(m, X),
           m.request \in Requests, m.step = NoStep, m.side \in Side, m.retry_timer \in Steps,
           m.sequence \in Seq(TrueSteps), HasNoRoute(m.sequence),
           \A i \in DOMAIN m.sequence : Suits(m.sequence[i], m.request),
           m.held \subseteq Side, m.failed \subseteq Side, m.evading \subseteq Side,
           m.request = "" => m.sequence = <<>> /\ \A s \in S : Settled(m, s),
           m.request \in TargetRequests =>
               SidesOf(m.request) = S /\ \A s \in S : Settled(m, s) \/ Ahead(m.sequence, s),
           m.request \notin TargetRequests \union {""} => S = {}
    PROVE  Good(m, S, X) /\ Ready(m, S)
<1>1. Arranged(m)
  BY NoStepIsNone DEF Arranged
<1>2. Routed(m)
  BY NoStepIsNone DEF Routed, HasNoRoute
<1>3. OwnKinds(m)
  BY NoStepIsNone DEF OwnKinds
<1>4. Accounts(m, S) /\ Ready(m, S)
  BY DEF Accounts, Ready
<1>5. QED
  BY <1>1, <1>2, <1>3, <1>4 DEF Good

LEMMA SidesOfAreArms ==
    ASSUME NEW request
    PROVE  /\ SidesOf(request) \subseteq Side
           /\ request \notin TargetRequests => SidesOf(request) = {}
BY DEF SidesOf, TargetRequests

LEMMA BeginRequestGood ==
    ASSUME NEW S, NEW X, NEW Y, NEW n, Arranged(n), Traffic(n, Y),
           NEW request \in Requests \ {""}, NEW sequence \in Seq(TrueSteps),
           HasNoRoute(sequence), \A i \in DOMAIN sequence : Suits(sequence[i], request),
           request \in TargetRequests => SidesOf(request) = S /\ \A s \in S : Ahead(sequence, s),
           request \notin TargetRequests => S = {},
           NEW m \in BeginRequest(n, request, sequence)
    PROVE  Good(m, S, X)
<1> DEFINE cancelled == CancelMotion(n)
           begun == [cancelled EXCEPT
               !.state = "other", !.request = request, !.sequence = sequence, !.step = NoStep,
               !.resume = FALSE, !.waypoints = FALSE, !.refreshes = <<>>, !.routed = {},
               !.route_active = FALSE, !.failures = <<>>, !.retries = <<>>, !.failed = {},
               !.waiting = FALSE]
<1>1. /\ Traffic(cancelled, X) /\ SameSteps(n, cancelled) /\ cancelled.retry_timer = NoStep
      /\ cancelled.evading = n.evading
  BY CancelMotionTraffic DEF Arranged
<1>2. m \in StartNextStep(begun)
  BY DEF BeginRequest
<1> HIDE DEF cancelled
<1>3. /\ DOMAIN begun = Fields /\ begun.request = request /\ begun.sequence = sequence
      /\ begun.step = NoStep /\ begun.failed = {} /\ begun.held = n.held
      /\ begun.side = n.side /\ begun.evading = n.evading /\ begun.retry_timer = NoStep
      /\ SameTraffic(cancelled, begun)
  BY <1>1 DEF SameSteps, SameTraffic, Fields
<1> HIDE DEF begun
<1>4. Good(begun, S, X) /\ Ready(begun, S)
  <2>1. Traffic(begun, X)
    BY <1>1, <1>3, SameTrafficOwes
  <2>2. /\ begun.side \in Side /\ begun.retry_timer \in Steps
        /\ begun.held \subseteq Side /\ begun.evading \subseteq Side
    BY <1>3, NoStepIsNone DEF Arranged
  <2>3. QED
    BY <1>3, <2>1, <2>2, FreshQueue
<1>5. QED
  BY <1>2, <1>4, StartNextStepGood

\* A request with one kind of step for each arm.
LEMMA BeginStepsGood ==
    ASSUME NEW S, NEW X, NEW Y, NEW n, Arranged(n), Traffic(n, Y),
           NEW request \in Requests \ {""}, NEW sides,
           NEW kind \in TargetKinds \union CrisisKinds \union {"home", "idle_restore"},
           kind \in {"home", "idle_restore"} => request \notin TargetRequests,
           request \in TargetRequests =>
               SidesOf(request) = S /\ S \subseteq sides /\ kind \in TargetKinds,
           request \notin TargetRequests => S = {},
           NEW m \in BeginRequest(n, request, StepsOf(sides, kind))
    PROVE  Good(m, S, X)
<1> DEFINE sequence == StepsOf(sides, kind)
<1>1. kind \in StepKinds /\ kind \notin RouteKinds
  BY DEF StepKinds, TargetKinds, CrisisKinds, RouteKinds
<1>2. /\ sequence \in Seq(TrueSteps)
      /\ \A i \in DOMAIN sequence : sequence[i].kind = kind /\ sequence[i].side \in sides
      /\ Covers(sequence, sides)
  BY <1>1, StepsOfElements
<1>3. m \in BeginRequest(n, request, sequence)
  OBVIOUS
<1> HIDE DEF sequence
<1>4. HasNoRoute(sequence)
  BY <1>1, <1>2 DEF HasNoRoute, IsRoute
<1>5. \A i \in DOMAIN sequence : Suits(sequence[i], request)
  BY <1>2 DEF Suits
<1>6. request \in TargetRequests => \A s \in S : Ahead(sequence, s)
  <2>1. ASSUME request \in TargetRequests, NEW s \in S
        PROVE  Ahead(sequence, s)
    <3>1. s \in sides \intersect Side
      BY <2>1, SidesOfAreArms
    <3>2. QED
      BY <1>2, <2>1, <3>1 DEF Ahead, IsTarget, Covers
  <2>2. QED
    BY <2>1
<1>7. QED
  BY <1>2, <1>3, <1>4, <1>5, <1>6, BeginRequestGood

\* Going on without a current step leaves nothing out.
LEMMA ContinueRequestGood ==
    ASSUME NEW S, NEW X, NEW n, Good(n, S, X), NEW m \in ReplanLastRequest(n) \union ContinueRequest(n)
    PROVE  Good(m, S, X)
<1> DEFINE free == [n EXCEPT !.busy = FALSE]
<1>1. SameSteps(n, free) /\ SameTraffic(n, free)
  BY DEF Good, Arranged, SameSteps, SameTraffic, Fields
<1>2. \/ n.step = NoStep /\ m \in StartNextStep(n) \union StartNextStep(free)
      \/ m \in PlanStep(free)
  BY DEF ReplanLastRequest, ContinueRequest
<1> HIDE DEF free
<1>3. Good(free, S, X)
  BY <1>1, AlikeGood
<1>4. n.step = NoStep => Ready(n, S) /\ Ready(free, S)
  BY <1>1, NoStepIsNone DEF Good, Accounts, Ready, SameSteps, Settled
<1>5. QED
  BY <1>2, <1>3, <1>4, StartNextStepGood, PlanStepGood

-----------------------------------------------------------------------------
\* Routes and retries.

\* Without the active arm's steps the queue has no guide step.
LEMMA RestOfQueue ==
    ASSUME NEW S, NEW X, NEW n, Good(n, S, X), NEW side,
           n.step # NoStep => n.step.side = side
    PROVE  LET rest == WithoutSide(n.sequence, side)
           IN  /\ rest \in Seq(TrueSteps) /\ HasNoRoute(rest)
               /\ \A i \in DOMAIN rest : Suits(rest[i], n.request)
               /\ KeepsAhead(n.sequence, rest, side)
               /\ n.sequence = <<>> => rest = <<>>
<1> DEFINE rest == WithoutSide(n.sequence, side)
<1>1. /\ rest \in Seq(TrueSteps)
      /\ \A i \in DOMAIN rest :
            /\ \E j \in DOMAIN n.sequence : rest[i] = n.sequence[j]
            /\ rest[i].side # side \/ rest[i].kind = "home"
      /\ KeepsAhead(n.sequence, rest, side)
  BY WithoutSideElements DEF Good, Arranged
<1> HIDE DEF rest
<1>2. HasNoRoute(rest)
  <2>1. SUFFICES ASSUME NEW i \in DOMAIN rest, IsRoute(rest[i]) PROVE FALSE
    BY DEF HasNoRoute
  <2>2. PICK j \in DOMAIN n.sequence : rest[i] = n.sequence[j]
    BY <1>1
  <2>3. IsRoute(n.step) /\ n.sequence[j].side = n.step.side
    BY <2>1, <2>2 DEF Good, Routed
  <2>4. rest[i].side = side
    BY <2>2, <2>3, NoStepIsNone
  <2>5. rest[i].kind # "home"
    BY <2>1 DEF IsRoute, RouteKinds
  <2>6. QED
    BY <1>1, <2>4, <2>5
<1>3. \A i \in DOMAIN rest : Suits(rest[i], n.request)
  BY <1>1 DEF Good, OwnKinds
<1>4. ASSUME n.sequence = <<>> PROVE rest = <<>>
  <2>1. DOMAIN n.sequence = {}
    BY <1>4
  <2>2. DOMAIN rest = {}
    BY <1>1, <2>1
  <2>3. QED
    BY <1>1, <2>2
<1>5. QED
  BY <1>1, <1>2, <1>3, <1>4 DEF rest

LEMMA TargetStep ==
    ASSUME NEW n, NEW side \in Side
    PROVE  LET t == Step(side, TargetKind(n))
           IN  /\ t \in TrueSteps /\ ~IsRoute(t) /\ IsTarget(t, side) /\ t.side = side
               /\ t # NoStep /\ \A request : Suits(t, request)
BY DEF Step, TargetKind, TrueSteps, StepKinds, TargetKinds, IsRoute, IsTarget, RouteKinds,
       Suits, NoStep

LEMMA GiveUpGood ==
    ASSUME NEW S, NEW X, NEW n, Good(n, S, X), NEW side \in Side,
           n.step # NoStep => n.step.side = side, NEW m \in GiveUp(n, side)
    PROVE  Good(m, S, X)
<1> DEFINE rest == WithoutSide(n.sequence, side)
           given_up == [n EXCEPT !.failed = @ \union {side}, !.state = "other",
                                 !.sequence = WithoutSide(@, side), !.step = NoStep]
<1>1. m \in StartNextStep(given_up)
  BY DEF GiveUp
<1>2. /\ DOMAIN given_up = Fields /\ given_up.request = n.request
      /\ given_up.sequence = rest /\ given_up.step = NoStep
      /\ given_up.failed = n.failed \union {side} /\ given_up.held = n.held
      /\ given_up.side = n.side /\ given_up.evading = n.evading
      /\ given_up.retry_timer = n.retry_timer /\ SameTraffic(n, given_up)
  BY DEF Good, Arranged, SameTraffic, Fields
<1>3. /\ rest \in Seq(TrueSteps) /\ HasNoRoute(rest)
      /\ \A i \in DOMAIN rest : Suits(rest[i], n.request)
      /\ KeepsAhead(n.sequence, rest, side)
      /\ n.sequence = <<>> => rest = <<>>
  BY RestOfQueue
<1> HIDE DEF rest, given_up
<1>4. ASSUME n.request \in TargetRequests, NEW s \in S
      PROVE  Settled(given_up, s) \/ Ahead(rest, s)
  <2>1. CASE s = side
    BY <1>2, <2>1 DEF Settled
  <2>2. CASE s # side
    <3>1. ~IsTarget(n.step, s)
      BY <2>2, NoStepIsNone DEF IsTarget
    <3>2. Settled(n, s) \/ Ahead(n.sequence, s)
      BY <1>4, <3>1 DEF Good, Accounts
    <3>3. QED
      BY <1>2, <1>3, <2>2, <3>2 DEF Settled, KeepsAhead
  <2>3. QED
    BY <2>1, <2>2
<1>5. Traffic(given_up, X)
  BY <1>2, SameTrafficOwes DEF Good
<1>6. Good(given_up, S, X) /\ Ready(given_up, S)
  <2>1. given_up.request = "" => given_up.sequence = <<>> /\ \A s \in S : Settled(given_up, s)
    BY <1>2, <1>3 DEF Good, Arranged, Accounts, Settled
  <2>2. given_up.request \in TargetRequests =>
            /\ SidesOf(given_up.request) = S
            /\ \A s \in S : Settled(given_up, s) \/ Ahead(given_up.sequence, s)
    BY <1>2, <1>4 DEF Good, Accounts
  <2>3. given_up.request \notin TargetRequests \union {""} => S = {}
    BY <1>2 DEF Good, Accounts
  <2>4. /\ given_up.request \in Requests /\ given_up.side \in Side
        /\ given_up.retry_timer \in Steps /\ given_up.held \subseteq Side
        /\ given_up.failed \subseteq Side /\ given_up.evading \subseteq Side
    BY <1>2 DEF Good, Arranged
  <2>5. QED
    BY <1>2, <1>3, <1>5, <2>1, <2>2, <2>3, <2>4, FreshQueue
<1>7. QED
  BY <1>1, <1>6, StartNextStepGood


\* Steps that may follow in a request: no guide steps, and of its own kinds.
Fitting(sequence, request) ==
    /\ sequence \in Seq(TrueSteps) /\ HasNoRoute(sequence)
    /\ \A i \in DOMAIN sequence : Suits(sequence[i], request)

LEMMA JoinFitting ==
    ASSUME NEW request, NEW f, NEW q, Fitting(f, request), Fitting(q, request)
    PROVE  Fitting(f \o q, request)
<1>1. f \in Seq(TrueSteps) /\ q \in Seq(TrueSteps)
  BY DEF Fitting
<1>2. /\ f \o q \in Seq(TrueSteps)
      /\ \A i \in DOMAIN (f \o q) :
            \/ i \in DOMAIN f /\ (f \o q)[i] = f[i]
            \/ i > Len(f) /\ i - Len(f) \in DOMAIN q /\ (f \o q)[i] = q[i - Len(f)]
  BY <1>1, ConcatParts
<1> DEFINE r == f \o q
<1>3. /\ r \in Seq(TrueSteps)
      /\ \A i \in DOMAIN r : (\E j \in DOMAIN f : r[i] = f[j]) \/ (\E j \in DOMAIN q : r[i] = q[j])
  BY <1>2
<1> HIDE DEF r
<1>4. Fitting(r, request)
  BY <1>3 DEF Fitting, HasNoRoute
<1>5. QED
  BY <1>4 DEF r

LEMMA JoinAhead ==
    ASSUME NEW f \in Seq(TrueSteps), NEW q \in Seq(TrueSteps), NEW s,
           Ahead(f, s) \/ Ahead(q, s)
    PROVE  Ahead(f \o q, s)
<1>1. /\ \A i \in DOMAIN f : i \in DOMAIN (f \o q) /\ (f \o q)[i] = f[i]
      /\ \A i \in DOMAIN q : i + Len(f) \in DOMAIN (f \o q) /\ (f \o q)[i + Len(f)] = q[i]
  BY ConcatParts
<1> DEFINE r == f \o q
<1>2. /\ \A i \in DOMAIN f : \E j \in DOMAIN r : r[j] = f[i]
      /\ \A i \in DOMAIN q : \E j \in DOMAIN r : r[j] = q[i]
  BY <1>1
<1> HIDE DEF r
<1>3. Ahead(r, s)
  BY <1>2 DEF Ahead
<1>4. QED
  BY <1>3 DEF r

LEMMA OneStep ==
    ASSUME NEW request, NEW t \in TrueSteps, ~IsRoute(t), Suits(t, request)
    PROVE  /\ Fitting(<<t>>, request)
           /\ \A s : IsTarget(t, s) => Ahead(<<t>>, s)
<1> DEFINE f == <<t>>
<1>1. f \in Seq(TrueSteps) /\ DOMAIN f = {1} /\ f[1] = t
  OBVIOUS
<1> HIDE DEF f
<1>2. Fitting(f, request) /\ \A s : IsTarget(t, s) => Ahead(f, s)
  BY <1>1 DEF Fitting, HasNoRoute, Ahead
<1>3. QED
  BY <1>2 DEF f

\* A current step is that of the active arm, and there is a request.
LEMMA CurrentStep ==
    ASSUME NEW S, NEW X, NEW n, Good(n, S, X), n.step # NoStep
    PROVE  /\ n.side = n.step.side /\ n.side \in Side /\ n.step \in TrueSteps
           /\ n.step.kind \in StepKinds /\ n.request # ""
BY StepOfArm DEF Good, Arranged, Routed

LEMMA RestartDynamicRouteGood ==
    ASSUME NEW S, NEW X, NEW n, Good(n, S, X), n.step # NoStep, NEW side, side = n.step.side,
           NEW m \in RestartDynamicRoute(n, side)
    PROVE  Good(m, S, X)
<1> DEFINE t == Step(side, TargetKind(n))
           rest == WithoutSide(n.sequence, side)
           restarted == [NoRouteFor(n, side) EXCEPT
               !.sequence = <<Step(side, TargetKind(n))>> \o WithoutSide(@, side),
               !.step = NoStep, !.failed = @ \ {side}, !.resume = FALSE, !.state = "other"]
           queue == <<t>> \o rest
<1>1. m \in StartNextStep(restarted)
  BY DEF RestartDynamicRoute
<1>2. /\ DOMAIN restarted = Fields /\ restarted.request = n.request
      /\ restarted.sequence = queue /\ restarted.step = NoStep
      /\ restarted.failed = n.failed \ {side} /\ restarted.held = n.held
      /\ restarted.side = n.side /\ restarted.evading = n.evading
      /\ restarted.retry_timer = n.retry_timer /\ SameTraffic(n, restarted)
  BY DEF Good, Arranged, SameTraffic, Fields, NoRouteFor
<1>3. side \in Side /\ n.request # ""
  BY CurrentStep
<1>4. t \in TrueSteps /\ ~IsRoute(t) /\ IsTarget(t, side) /\ Suits(t, n.request)
  BY <1>3, TargetStep
<1>5. Fitting(rest, n.request) /\ KeepsAhead(n.sequence, rest, side)
  BY RestOfQueue DEF Fitting
<1> HIDE DEF t, rest, restarted
<1>6. Fitting(<<t>>, n.request) /\ Ahead(<<t>>, side)
  BY <1>4, OneStep
<1>7. Fitting(queue, n.request)
  BY <1>5, <1>6, JoinFitting
<1>8. \A s : s = side \/ Ahead(rest, s) => Ahead(queue, s)
  BY <1>5, <1>6, JoinAhead DEF Fitting
<1> HIDE DEF queue
<1>9. ASSUME n.request \in TargetRequests, NEW s \in S
      PROVE  Settled(restarted, s) \/ Ahead(queue, s)
  <2>1. CASE s = side
    BY <1>8, <2>1
  <2>2. CASE s # side
    <3>1. ~IsTarget(n.step, s)
      BY <2>2 DEF IsTarget
    <3>2. Settled(n, s) \/ Ahead(n.sequence, s)
      BY <1>9, <3>1 DEF Good, Accounts
    <3>3. QED
      BY <1>2, <1>5, <1>8, <2>2, <3>2 DEF Settled, KeepsAhead
  <2>3. QED
    BY <2>1, <2>2
<1>10. Traffic(restarted, X)
  BY <1>2, SameTrafficOwes DEF Good
<1>11. Good(restarted, S, X) /\ Ready(restarted, S)
  <2>1. restarted.request \in TargetRequests =>
            /\ SidesOf(restarted.request) = S
            /\ \A s \in S : Settled(restarted, s) \/ Ahead(restarted.sequence, s)
    BY <1>2, <1>9 DEF Good, Accounts
  <2>2. restarted.request \notin TargetRequests \union {""} => S = {}
    BY <1>2 DEF Good, Accounts
  <2>3. /\ restarted.request \in Requests /\ restarted.side \in Side
        /\ restarted.retry_timer \in Steps /\ restarted.held \subseteq Side
        /\ restarted.failed \subseteq Side /\ restarted.evading \subseteq Side
    BY <1>2 DEF Good, Arranged
  <2>4. QED
    BY <1>2, <1>3, <1>7, <1>10, <2>1, <2>2, <2>3, FreshQueue DEF Fitting
<1>12. QED
  BY <1>1, <1>11, StartNextStepGood

LEMMA WaitForClearPathGood ==
    ASSUME NEW S, NEW X, NEW n, Good(n, S, X), n.step # NoStep, NEW side, side = n.step.side
    PROVE  Good(WaitForClearPath(n, side), S, X)
<1> DEFINE t == Step(side, TargetKind(n))
           rest == WithoutSide(n.sequence, side)
           m == WaitForClearPath(n, side)
<1>1. /\ DOMAIN m = Fields /\ m.request = n.request /\ m.sequence = rest /\ m.step = t
      /\ m.failed = n.failed /\ m.held = n.held /\ m.side = side /\ m.evading = n.evading
      /\ m.retry_timer = n.retry_timer /\ SameTraffic(n, m)
  BY DEF Good, Arranged, SameTraffic, Fields, NoRouteFor, WaitForClearPath
<1>2. side \in Side /\ n.request # ""
  BY CurrentStep
<1>3. /\ t \in TrueSteps /\ ~IsRoute(t) /\ IsTarget(t, side) /\ Suits(t, n.request)
      /\ t.side = side
  BY <1>2, TargetStep
<1>4. /\ rest \in Seq(TrueSteps) /\ HasNoRoute(rest)
      /\ \A i \in DOMAIN rest : Suits(rest[i], n.request)
      /\ KeepsAhead(n.sequence, rest, side)
  BY RestOfQueue
<1> HIDE DEF t, rest, m
<1>5. Arranged(m)
  BY <1>1, <1>2, <1>3, <1>4 DEF Good, Arranged, Steps, TrueSteps
<1>6. Routed(m) /\ OwnKinds(m)
  BY <1>1, <1>3, <1>4 DEF Routed, OwnKinds, HasNoRoute
<1>7. ASSUME n.request \in TargetRequests, NEW s \in S
      PROVE  Settled(m, s) \/ Ahead(m.sequence, s) \/ IsTarget(m.step, s)
  <2>1. CASE s = side
    BY <1>1, <1>3, <2>1
  <2>2. CASE s # side
    <3>1. ~IsTarget(n.step, s)
      BY <2>2 DEF IsTarget
    <3>2. Settled(n, s) \/ Ahead(n.sequence, s)
      BY <1>7, <3>1 DEF Good, Accounts
    <3>3. QED
      BY <1>1, <1>4, <2>2, <3>2 DEF Settled, KeepsAhead
  <2>3. QED
    BY <2>1, <2>2
<1>8. Accounts(m, S)
  BY <1>1, <1>2, <1>7 DEF Good, Accounts
<1>9. QED
  BY <1>1, <1>5, <1>6, <1>8, SameTrafficOwes DEF Good, m

\* A retry timer that fires.
LEMMA RetryTimerGood ==
    ASSUME NEW S, NEW X, NEW n, Good(n, S, X), NEW m \in RetryTimer(n)
    PROVE  Good(m, S, X)
<1> DEFINE fired == [n EXCEPT !.retry_timer = NoStep]
<1>1. SameSteps(n, fired) /\ SameTraffic(n, fired)
  BY DEF Good, Arranged, SameSteps, SameTraffic, Fields
<1>2. m = fired \/ m \in PlanStep(fired)
  BY DEF RetryTimer
<1> HIDE DEF fired
<1>3. QED
  BY <1>1, <1>2, AlikeGood, PlanStepGood

LEMMA RetryWaitingGood ==
    ASSUME NEW S, NEW X, NEW n, Good(n, S, X), NEW m \in RetryWaiting(n)
    PROVE  Good(m, S, X)
<1> DEFINE tries == [n EXCEPT !.retries = Counted(@, n.step, WaitingRetries)]
           free == [tries EXCEPT !.resume = FALSE]
           timed == ScheduleRetry([tries EXCEPT
               !.resume = FALSE, !.state = "other",
               !.failures = Popped(@, n.step), !.routed = @ \ {n.step}], n.step)
<1>1. /\ SameSteps(n, free) /\ SameTraffic(n, free)
      /\ SameSteps(n, timed) /\ SameTraffic(n, timed)
  BY DEF Good, Arranged, SameSteps, SameTraffic, Fields, ScheduleRetry
<1>2. \/ m \in {n, timed}
      \/ n.step.kind \in TargetKinds /\ m \in GiveUp(free, n.step.side)
  BY DEF RetryWaiting
<1> HIDE DEF tries, free, timed
<1>3. Good(free, S, X) /\ Good(timed, S, X)
  BY <1>1, AlikeGood
<1>4. n.step.kind \in TargetKinds => n.step # NoStep
  BY NoStepIsNone DEF TargetKinds
<1>5. n.step.kind \in TargetKinds => n.step.side \in Side /\ free.step = n.step
  <2>1. free.step = n.step
    BY <1>1 DEF SameSteps
  <2>2. n.step # NoStep => n.step.side \in Side
    BY CurrentStep
  <2>3. QED
    BY <1>4, <2>1, <2>2
<1>6. QED
  BY <1>2, <1>3, <1>5, GiveUpGood

-----------------------------------------------------------------------------
\* Evading.

LEMMA StepsFitting ==
    ASSUME NEW request, NEW sides, NEW kind \in TargetKinds \union CrisisKinds
    PROVE  Fitting(StepsOf(sides, kind), request)
<1> DEFINE steps == StepsOf(sides, kind)
<1>1. kind \in StepKinds /\ kind \notin RouteKinds \union {"home", "idle_restore"}
  BY DEF StepKinds, TargetKinds, CrisisKinds, RouteKinds
<1>2. /\ steps \in Seq(TrueSteps)
      /\ \A i \in DOMAIN steps : steps[i].kind = kind
  BY <1>1, StepsOfElements
<1> HIDE DEF steps
<1>3. Fitting(steps, request)
  BY <1>1, <1>2 DEF Fitting, HasNoRoute, IsRoute, Suits
<1>4. QED
  BY <1>3 DEF steps

\* The rest of the queue behind an evasion: no guide steps, and every target.
LEMMA KeptFitting ==
    ASSUME NEW S, NEW X, NEW n, Good(n, S, X), n.step # NoStep
    PROVE  LET kept == Kept(n.sequence, {queued \in ToSet(n.sequence) :
                           ~(queued.side = n.step.side /\ queued.kind \in RouteKinds)})
           IN  /\ Fitting(kept, n.request)
               /\ KeepsAhead(n.sequence, kept, "none")
<1> DEFINE wanted == {queued \in ToSet(n.sequence) :
                         ~(queued.side = n.step.side /\ queued.kind \in RouteKinds)}
           kept == Kept(n.sequence, wanted)
<1>1. n.sequence \in Seq(TrueSteps)
  BY DEF Good, Arranged
<1>2. /\ kept \in Seq(TrueSteps)
      /\ \A i \in DOMAIN kept : kept[i] \in wanted /\ \E j \in DOMAIN n.sequence : kept[i] = n.sequence[j]
      /\ \A j \in DOMAIN n.sequence : n.sequence[j] \in wanted => \E i \in DOMAIN kept : kept[i] = n.sequence[j]
  <2> HIDE DEF wanted
  <2>1. /\ kept \in Seq(TrueSteps) /\ Within(kept, n.sequence)
        /\ Retains(n.sequence, wanted, kept) /\ \A i \in DOMAIN kept : kept[i] \in wanted
    BY <1>1, KeptParts
  <2> HIDE DEF kept
  <2>2. QED
    BY <2>1 DEF Within, Retains
<1>3. \A i \in DOMAIN kept : ~(kept[i].side = n.step.side /\ kept[i].kind \in RouteKinds)
  <2> HIDE DEF kept
  <2> QED BY <1>2
<1>4. \A j \in DOMAIN n.sequence :
         n.sequence[j].kind \in TargetKinds => n.sequence[j] \in wanted
  BY DEF ToSet, TargetKinds, RouteKinds
<1> HIDE DEF wanted, kept
<1>5. HasNoRoute(kept)
  BY <1>2, <1>3 DEF HasNoRoute, Good, Routed, IsRoute
<1>6. \A i \in DOMAIN kept : Suits(kept[i], n.request)
  BY <1>2 DEF Good, OwnKinds
<1>7. KeepsAhead(n.sequence, kept, "none")
  BY <1>2, <1>4 DEF KeepsAhead, Ahead, IsTarget
<1>8. QED
  BY <1>2, <1>5, <1>6, <1>7 DEF Fitting, kept, wanted

\* The interrupted step, or the target its guide steps led to, is kept.
LEMMA InterruptedStep ==
    ASSUME NEW S, NEW X, NEW n, Good(n, S, X), n.step # NoStep
    PROVE  LET interrupted == IF n.step.kind \in RouteKinds
                              THEN Step(n.step.side, TargetKind(n)) ELSE n.step
           IN  /\ interrupted \in TrueSteps /\ ~IsRoute(interrupted)
               /\ Suits(interrupted, n.request)
               /\ \A s : IsTarget(n.step, s) => IsTarget(interrupted, s)
<1>1. n.step.side \in Side /\ n.step \in TrueSteps /\ Suits(n.step, n.request)
  BY CurrentStep DEF Good, OwnKinds
<1>2. CASE n.step.kind \in RouteKinds
  <2>1. \A s : ~IsTarget(n.step, s)
    BY <1>2 DEF IsTarget, TargetKinds, RouteKinds
  <2>2. QED
    BY <1>1, <1>2, <2>1, TargetStep
<1>3. CASE n.step.kind \notin RouteKinds
  BY <1>1, <1>3 DEF IsRoute
<1>4. QED
  BY <1>2, <1>3

LEMMA SafetyEvadeSequenceFits ==
    ASSUME NEW S, NEW X, NEW n, Good(n, S, X), n.step # NoStep, NEW sides
    PROVE  /\ Fitting(SafetyEvadeSequence(n, sides), n.request)
           /\ KeepsAhead(n.sequence, SafetyEvadeSequence(n, sides), "none")
           /\ KeepsAhead(<<n.step>>, SafetyEvadeSequence(n, sides), "none")
<1> DEFINE evades == StepsOf(sides, "safety_evade")
           interrupted == IF n.step.kind \in RouteKinds
                          THEN Step(n.step.side, TargetKind(n)) ELSE n.step
           kept == Kept(n.sequence, {queued \in ToSet(n.sequence) :
                       ~(queued.side = n.step.side /\ queued.kind \in RouteKinds)})
           longer == <<interrupted>> \o kept
           back == IF kept # <<>> /\ Head(kept) = interrupted THEN kept ELSE longer
           all == evades \o back
<1>1. all = SafetyEvadeSequence(n, sides)
  BY DEF SafetyEvadeSequence
<1>2. Fitting(kept, n.request) /\ KeepsAhead(n.sequence, kept, "none")
  BY KeptFitting
<1>3. /\ interrupted \in TrueSteps /\ ~IsRoute(interrupted)
      /\ Suits(interrupted, n.request)
      /\ \A s : IsTarget(n.step, s) => IsTarget(interrupted, s)
  BY InterruptedStep
<1>4. Fitting(evades, n.request)
  BY StepsFitting DEF CrisisKinds
<1> HIDE DEF evades, interrupted, kept
<1>5. Fitting(<<interrupted>>, n.request) /\ \A s : IsTarget(interrupted, s) => Ahead(<<interrupted>>, s)
  BY <1>3, OneStep
<1>6. Fitting(longer, n.request)
  BY <1>2, <1>5, JoinFitting
<1>7. ASSUME NEW s, Ahead(kept, s) \/ IsTarget(interrupted, s)
      PROVE  Ahead(longer, s)
  <2>1. <<interrupted>> \in Seq(TrueSteps) /\ kept \in Seq(TrueSteps)
    BY <1>2, <1>5 DEF Fitting
  <2>2. Ahead(<<interrupted>>, s) \/ Ahead(kept, s)
    BY <1>5, <1>7
  <2>3. QED
    BY <2>1, <2>2, JoinAhead
<1> HIDE DEF longer
<1>8. ASSUME NEW s, kept # <<>>, Head(kept) = interrupted, IsTarget(interrupted, s)
      PROVE  Ahead(kept, s)
  <2>1. 1 \in DOMAIN kept /\ kept[1] = interrupted
    <3>1. kept \in Seq(TrueSteps)
      BY <1>2 DEF Fitting
    <3>2. 1 \in DOMAIN kept /\ Head(kept) = kept[1]
      BY <1>8, <3>1, FirstAndRest
    <3>3. QED
      BY <1>8, <3>2
  <2>2. QED
    BY <1>8, <2>1 DEF Ahead
<1>9. Fitting(back, n.request)
  BY <1>2, <1>6
<1>10. \A s : Ahead(kept, s) \/ IsTarget(interrupted, s) => Ahead(back, s)
  BY <1>7, <1>8
<1> HIDE DEF back
<1>11. Fitting(all, n.request)
  BY <1>4, <1>9, JoinFitting
<1>12. \A s : Ahead(back, s) => Ahead(all, s)
  <2>1. evades \in Seq(TrueSteps) /\ back \in Seq(TrueSteps)
    BY <1>4, <1>9 DEF Fitting
  <2>2. QED
    BY <2>1, JoinAhead
<1> HIDE DEF all
<1>13. KeepsAhead(n.sequence, all, "none")
  BY <1>2, <1>10, <1>12 DEF KeepsAhead
<1>14. KeepsAhead(<<n.step>>, all, "none")
  <2>1. \A s : Ahead(<<n.step>>, s) => IsTarget(n.step, s)
    <3> DEFINE one == <<n.step>>
    <3>1. DOMAIN one = {1} /\ one[1] = n.step
      OBVIOUS
    <3> HIDE DEF one
    <3>2. \A s : Ahead(one, s) => IsTarget(n.step, s)
      BY <3>1 DEF Ahead
    <3>3. QED
      BY <3>2 DEF one
  <2>2. QED
    BY <1>3, <1>10, <1>12, <2>1 DEF KeepsAhead
<1>15. QED
  BY <1>1, <1>11, <1>13, <1>14

LEMMA WithHeldTargetsFits ==
    ASSUME NEW n, NEW request, NEW sides, NEW sequence, Fitting(sequence, request)
    PROVE  /\ Fitting(WithHeldTargets(n, sequence, sides), request)
           /\ \A s : Ahead(sequence, s) => Ahead(WithHeldTargets(n, sequence, sides), s)
<1> DEFINE back == StepsOf(n.held \intersect sides, "model_target")
           new == Kept(back, ToSet(back) \ ToSet(sequence))
           all == sequence \o new
<1>1. all = WithHeldTargets(n, sequence, sides)
  BY DEF WithHeldTargets
<1>2. Fitting(back, request)
  BY StepsFitting DEF TargetKinds
<1> HIDE DEF back
<1>3. /\ new \in Seq(TrueSteps)
      /\ \A i \in DOMAIN new : \E j \in DOMAIN back : new[i] = back[j]
  <2> DEFINE fresh == ToSet(back) \ ToSet(sequence)
  <2>1. back \in Seq(TrueSteps)
    BY <1>2 DEF Fitting
  <2> HIDE DEF fresh
  <2>2. Kept(back, fresh) \in Seq(TrueSteps) /\ \A i \in DOMAIN Kept(back, fresh) : \E j \in DOMAIN back : Kept(back, fresh)[i] = back[j]
    BY <2>1, KeptElements
  <2>3. QED
    BY <2>2 DEF fresh
<1> HIDE DEF new
<1>4. Fitting(new, request)
  BY <1>2, <1>3 DEF Fitting, HasNoRoute
<1>5. Fitting(all, request)
  BY <1>4, JoinFitting
<1>6. \A s : Ahead(sequence, s) => Ahead(all, s)
  <2>1. sequence \in Seq(TrueSteps) /\ new \in Seq(TrueSteps)
    BY <1>4 DEF Fitting
  <2>2. QED
    BY <2>1, JoinAhead
<1>7. QED
  BY <1>1, <1>5, <1>6

LEMMA EvadeFromRequestGood ==
    ASSUME NEW S, NEW X, NEW n, Good(n, S, X), n.step # NoStep, NEW sides,
           NEW m \in EvadeFromRequest(n, sides)
    PROVE  Good(m, S, X)
<1> DEFINE evade == SafetyEvadeSequence(n, sides)
           queue == WithHeldTargets(n, evade, sides)
           evading == [n EXCEPT
               !.sequence = WithHeldTargets(n, SafetyEvadeSequence(n, sides), sides),
               !.step = NoStep, !.waypoints = FALSE, !.route_active = FALSE,
               !.routed = {step \in @ : step.side \notin sides},
               !.resume = FALSE, !.state = "other"]
<1>1. m \in StartNextStep(evading)
  BY DEF EvadeFromRequest
<1>2. /\ DOMAIN evading = Fields /\ evading.request = n.request
      /\ evading.sequence = queue /\ evading.step = NoStep
      /\ evading.failed = n.failed /\ evading.held = n.held
      /\ evading.side = n.side /\ evading.evading = n.evading
      /\ evading.retry_timer = n.retry_timer /\ SameTraffic(n, evading)
  BY DEF Good, Arranged, SameTraffic, Fields
<1>3. /\ Fitting(evade, n.request) /\ KeepsAhead(n.sequence, evade, "none")
      /\ KeepsAhead(<<n.step>>, evade, "none")
  BY SafetyEvadeSequenceFits
<1> HIDE DEF evade, evading
<1>4. Fitting(queue, n.request) /\ \A s : Ahead(evade, s) => Ahead(queue, s)
  BY <1>3, WithHeldTargetsFits
<1> HIDE DEF queue
<1>5. ASSUME n.request \in TargetRequests, NEW s \in S
      PROVE  Settled(evading, s) \/ Ahead(queue, s)
  <2>1. s # "none"
    <3>1. s \in Side
      BY <1>5, SidesOfAreArms DEF Good, Accounts
    <3>2. QED
      BY <3>1, PoseGoalAssumption DEF Side
  <2>2. IsTarget(n.step, s) => Ahead(<<n.step>>, s)
    <3> DEFINE one == <<n.step>>
    <3>1. 1 \in DOMAIN one /\ one[1] = n.step
      OBVIOUS
    <3> HIDE DEF one
    <3>2. IsTarget(n.step, s) => Ahead(one, s)
      BY <3>1 DEF Ahead
    <3>3. QED
      BY <3>2 DEF one
  <2>3. QED
    BY <1>2, <1>3, <1>4, <1>5, <2>1, <2>2 DEF Good, Accounts, Settled, KeepsAhead
<1>6. Traffic(evading, X)
  BY <1>2, SameTrafficOwes DEF Good
<1>7. Good(evading, S, X) /\ Ready(evading, S)
  <2>1. evading.request \in TargetRequests =>
            /\ SidesOf(evading.request) = S
            /\ \A s \in S : Settled(evading, s) \/ Ahead(evading.sequence, s)
    BY <1>2, <1>5 DEF Good, Accounts
  <2>2. evading.request \notin TargetRequests \union {""} => S = {}
    BY <1>2 DEF Good, Accounts
  <2>3. /\ evading.request \in Requests /\ evading.side \in Side
        /\ evading.retry_timer \in Steps /\ evading.held \subseteq Side
        /\ evading.failed \subseteq Side /\ evading.evading \subseteq Side
    BY <1>2 DEF Good, Arranged
  <2>4. n.request # ""
    BY CurrentStep
  <2>5. QED
    BY <1>2, <1>4, <1>6, <2>1, <2>2, <2>3, <2>4, FreshQueue DEF Fitting
<1>8. QED
  BY <1>1, <1>7, StartNextStepGood

LEMMA EvadeFromHoldGood ==
    ASSUME NEW X, NEW Y, NEW n, Arranged(n), Traffic(n, Y), NEW sides \in SUBSET Side,
           NEW m \in EvadeFromHold(n, sides)
    PROVE  Good(m, {}, X)
<1> DEFINE lifting == [n EXCEPT !.evading = sides, !.evaded = FALSE]
<1>1. Arranged(lifting) /\ SameTraffic(n, lifting)
  BY DEF Arranged, SameTraffic, Fields
<1>2. m \in BeginRequest(lifting, "idle_evade", StepsOf(sides, "idle_evade"))
  BY DEF EvadeFromHold
<1> HIDE DEF lifting
<1>3. Traffic(lifting, Y)
  BY <1>1, SameTrafficOwes
<1>4. /\ "idle_evade" \in Requests \ {""} /\ "idle_evade" \notin TargetRequests
      /\ "idle_evade" \in TargetKinds \union CrisisKinds \union {"home", "idle_restore"}
  BY DEF Requests, TargetRequests, CrisisKinds
<1>5. QED
  BY <1>1, <1>2, <1>3, <1>4, BeginStepsGood

LEMMA BeginActiveCrisisEvadeGood ==
    ASSUME NEW S, NEW X, NEW n, Good(n, S, X), NEW m \in BeginActiveCrisisEvade(n)
    PROVE  Good(m, S, X)
<1> DEFINE again == [n EXCEPT !.resume = FALSE, !.state = "other"]
<1>1. SameSteps(n, again) /\ SameTraffic(n, again)
  BY DEF Good, Arranged, SameSteps, SameTraffic, Fields
<1>2. \/ m = n
      \/ /\ n.request \in {"idle_evade", "idle_restore"}
         /\ \E sides \in SUBSET Side : m \in EvadeFromHold(n, sides)
      \/ m \in ReplanLastRequest(again)
      \/ n.step # NoStep /\ \E sides \in SUBSET Side : m \in EvadeFromRequest(n, sides)
  BY DEF BeginActiveCrisisEvade, NonEmpty, Good, Arranged
<1> HIDE DEF again
<1>3. n.request \in {"idle_evade", "idle_restore"} => S = {}
  BY DEF Good, Accounts, TargetRequests
<1>4. Good(again, S, X)
  BY <1>1, AlikeGood
<1>5. QED
  BY <1>2, <1>3, <1>4, EvadeFromHoldGood, ContinueRequestGood, EvadeFromRequestGood DEF Good

\* The next task of an idle arm has a step, and so keeps its request.
LEMMA IdleBegins ==
    ASSUME NEW n, Arranged(n), NEW sides \in NonEmpty(Side),
           NEW request \in {"idle_evade", "idle_restore"},
           request = "idle_restore" => n.saved,
           NEW m \in BeginRequest(n, request, StepsOf(sides, request))
    PROVE  m.request = request
<1> DEFINE steps == StepsOf(sides, request)
           cancelled == CancelMotion(n)
           begun == [cancelled EXCEPT
               !.state = "other", !.request = request, !.sequence = steps, !.step = NoStep,
               !.resume = FALSE, !.waypoints = FALSE, !.refreshes = <<>>, !.routed = {},
               !.route_active = FALSE, !.failures = <<>>, !.retries = <<>>, !.failed = {},
               !.waiting = FALSE]
           next == [begun EXCEPT !.step = Head(begun.sequence), !.side = Head(begun.sequence).side,
                                 !.sequence = Tail(@)]
<1>1. DOMAIN cancelled = Fields /\ cancelled.busy = FALSE /\ cancelled.saved = n.saved
  BY DEF Arranged, CancelMotion, Fields
<1>2. /\ steps # <<>> /\ Head(steps) = steps[1] /\ steps[1].kind = request
  <2>1. request \in StepKinds
    BY DEF StepKinds, CrisisKinds
  <2>2. /\ steps \in Seq(TrueSteps) /\ \A i \in DOMAIN steps : steps[i].kind = request
        /\ Covers(steps, sides)
    BY <2>1, StepsOfElements
  <2> HIDE DEF steps
  <2>3. PICK i \in DOMAIN steps : TRUE
    <3>1. PICK s \in sides : s \in Side
      BY DEF NonEmpty
    <3>2. QED
      BY <2>2, <3>1 DEF Covers
  <2>4. steps # <<>>
    <3>1. DOMAIN <<>> = {}
      OBVIOUS
    <3>2. QED
      BY <2>3, <3>1
  <2>5. QED
    BY <2>2, <2>4, FirstAndRest
<1> HIDE DEF steps
<1>3. m \in StartNextStep(begun)
  BY DEF BeginRequest, steps
<1> HIDE DEF cancelled
<1>4. /\ DOMAIN begun = Fields /\ begun.request = request /\ begun.sequence = steps
      /\ begun.busy = FALSE /\ begun.saved = n.saved
  BY <1>1 DEF Fields
<1> HIDE DEF begun
<1>5. /\ DOMAIN next = Fields /\ next.request = request /\ next.step = steps[1]
      /\ next.saved = n.saved
  BY <1>2, <1>4 DEF Fields
<1>6. m \in {[Shown(begun) EXCEPT !.resume = (begun.request # "")]} \union PlanStep(next)
  BY <1>2, <1>3, <1>4 DEF StartNextStep
<1> HIDE DEF next
<1>7. m \in {[Shown(begun) EXCEPT !.resume = (begun.request # "")]} \union SendPlan(next)
  BY <1>2, <1>5, <1>6 DEF PlanStep, TargetKinds, RouteKinds, CrisisKinds
<1>8. QED
  BY <1>4, <1>5, <1>7 DEF SendPlan, Shown, Fields

\* What a callback may leave: a good record, or one whose request had ended and
\* which has begun to lift an idle arm or to put it back.
Fine(m, S, X) ==
    \/ Good(m, S, X)
    \/ Good(m, {}, X) /\ m.request \in {"idle_evade", "idle_restore"}

LEMMA IdleAvoidanceTickFine ==
    ASSUME NEW S, NEW X, NEW n, Good(n, S, X), NEW m \in IdleAvoidanceTick(n)
    PROVE  Fine(m, S, X)
<1>1. /\ Arranged(n) /\ Traffic(n, X)
      /\ "idle_restore" \in Requests \ {""} /\ "idle_restore" \notin TargetRequests
      /\ "idle_evade" \in Requests \ {""} /\ "idle_evade" \notin TargetRequests
      /\ "idle_evade" \in CrisisKinds
  BY DEF Good, Requests, TargetRequests, CrisisKinds
<1>2. CASE m = n
  BY <1>2 DEF Fine
<1>3. ASSUME n.saved, n.evading # {},
             m \in BeginRequest(n, "idle_restore", StepsOf(n.evading, "idle_restore"))
      PROVE  Fine(m, S, X)
  <2>1. n.evading \in NonEmpty(Side)
    BY <1>1, <1>3 DEF Arranged, NonEmpty
  <2>2. m.request = "idle_restore"
    BY <1>1, <1>3, <2>1, IdleBegins
  <2>3. Good(m, {}, X)
    BY <1>1, <1>3, BeginStepsGood
  <2>4. QED
    BY <2>2, <2>3 DEF Fine
<1>4. ASSUME NEW sides \in NonEmpty(Side), m \in IdleLift(n, sides)
      PROVE  Fine(m, S, X)
  <2> DEFINE lifting == [n EXCEPT !.saved = TRUE, !.evading = sides]
  <2>1. Arranged(lifting) /\ SameTraffic(n, lifting)
    BY <1>1 DEF Arranged, SameTraffic, Fields, NonEmpty
  <2>2. m \in BeginRequest(lifting, "idle_evade", StepsOf(sides, "idle_evade"))
    BY <1>4 DEF IdleLift
  <2> HIDE DEF lifting
  <2>3. Traffic(lifting, X)
    BY <1>1, <2>1, SameTrafficOwes
  <2>4. m.request = "idle_evade"
    BY <2>1, <2>2, IdleBegins
  <2>5. Good(m, {}, X)
    BY <1>1, <2>1, <2>2, <2>3, BeginStepsGood
  <2>6. QED
    BY <2>4, <2>5 DEF Fine
<1>5. QED
  BY <1>2, <1>3, <1>4 DEF IdleAvoidanceTick

-----------------------------------------------------------------------------
\* The callbacks.

LEMMA SafetyOutcomesFine ==
    ASSUME NEW S, NEW X, NEW before, Good(before, S, X), NEW safety \in Contract!States,
           NEW m \in SafetyOutcomes(before, safety)
    PROVE  Fine(m, S, X)
<1> DEFINE n == [before EXCEPT
               !.safety = safety,
               !.reset_requested =
                   @ /\ safety # "EMERGENCY_STOP" /\ before.safety # "EMERGENCY_STOP"]
           cancelled == CancelMotion(n)
           stopped == [CancelMotion(n) EXCEPT !.resume = (n.request # ""), !.state = "other"]
           free == [n EXCEPT !.resume = FALSE, !.state = "other"]
           shown == Shown(n)
           continues == [Shown(n) EXCEPT !.resume = FALSE]
<1>1. Good(n, S, X)
  <2>1. SameSteps(before, n)
    BY DEF Good, Arranged, SameSteps, Fields
  <2>2. Traffic(n, X)
    <3>1. /\ n.safety = safety /\ n.plans = before.plans /\ n.goals = before.goals
          /\ n.publish = before.publish /\ n.planner_mode = before.planner_mode
          /\ n.busy = before.busy
      BY DEF Good, Arranged, Fields
    <3> HIDE DEF n
    <3>2. QED
      BY <3>1 DEF Good, Traffic, Owes
  <2>3. QED
    BY <2>1, <2>2, SameStepsArranged DEF Good
<1>2. /\ \/ m \in {before, n, continues}
         \/ m \in RestartDynamicRoute(n, n.side) /\ n.step.kind \in TargetKinds \union RouteKinds
         \/ m \in ReplanLastRequest(free)
         \/ \E r \in SafetyReaction(n, before.safety) : m \in IdleAvoidanceTick(r)
      /\ \A r \in SafetyReaction(n, before.safety) :
            \/ r \in {n, shown, stopped}
            \/ r \in BeginActiveCrisisEvade(stopped)
            \/ r \in ContinueRequest(free)
  BY DEF SafetyOutcomes, SafetyReaction, RoutesAgain
<1> HIDE DEF n
<1>3. /\ SameSteps(n, free) /\ SameTraffic(n, free)
      /\ SameSteps(n, shown) /\ SameTraffic(n, shown)
      /\ SameSteps(n, continues) /\ SameTraffic(n, continues)
  BY <1>1 DEF Good, Arranged, SameSteps, SameTraffic, Shown, Fields
<1>4. Good(cancelled, S, X)
  BY <1>1, CancelMotionGood
<1>5. SameSteps(cancelled, stopped) /\ SameTraffic(cancelled, stopped)
  BY <1>4 DEF Good, Arranged, SameSteps, SameTraffic, Fields
<1> HIDE DEF cancelled, stopped, free, shown, continues
<1>6. /\ Good(stopped, S, X) /\ Good(free, S, X) /\ Good(shown, S, X)
      /\ Good(continues, S, X)
  BY <1>1, <1>3, <1>4, <1>5, AlikeGood
<1>7. \A r \in SafetyReaction(n, before.safety) : Good(r, S, X)
  BY <1>1, <1>2, <1>6, BeginActiveCrisisEvadeGood, ContinueRequestGood
<1>8. ASSUME m \in RestartDynamicRoute(n, n.side), n.step.kind \in TargetKinds \union RouteKinds
      PROVE  Good(m, S, X)
  <2>1. n.step # NoStep
    BY <1>8, NoStepIsNone DEF TargetKinds, RouteKinds
  <2>2. n.side = n.step.side
    BY <1>1, <2>1, CurrentStep
  <2>3. QED
    BY <1>1, <1>8, <2>1, <2>2, RestartDynamicRouteGood
<1>9. QED
  BY <1>1, <1>2, <1>6, <1>7, <1>8, ContinueRequestGood, IdleAvoidanceTickFine DEF Fine

\* The arms of the request a record is left with.
LEMMA OwnArms ==
    ASSUME NEW S, NEW X, NEW m, Good(m, S, X)
    PROVE  Good(m, SidesOf(m.request), X)
<1>1. /\ m.request \in TargetRequests => SidesOf(m.request) = S
      /\ m.request \notin TargetRequests => SidesOf(m.request) = {}
  BY SidesOfAreArms DEF Good, Accounts
<1>2. Accounts(m, SidesOf(m.request))
  BY <1>1 DEF Good, Accounts, TargetRequests
<1>3. QED
  BY <1>2 DEF Good

OperatorCommands == TargetRequests \union {"home", "pause", "resume", "reset"}

LEMMA CommandOutcomesGood ==
    ASSUME NEW S, NEW X, NEW n, Good(n, S, X), NEW command \in OperatorCommands,
           NEW m \in CommandOutcomes(n, command)
    PROVE  Good(m, SidesOf(m.request), X)
<1> DEFINE cancelled == CancelMotion(n)
           cleared == ClearIdle(n)
           home == [ClearIdle(n) EXCEPT !.held = {}]
           paused == [CancelMotion(n) EXCEPT !.resume = (n.busy \/ n.request # ""), !.state = "other"]
           resumed == [n EXCEPT !.resume = FALSE]
           reset == [ClearIdle(CancelMotion(n)) EXCEPT
                        !.sequence = <<>>, !.step = NoStep, !.request = "", !.resume = FALSE,
                        !.waiting = FALSE, !.held = {}, !.state = "other"]
<1>1. Arranged(n) /\ Traffic(n, X) /\ DOMAIN n = Fields
  BY DEF Good, Arranged
<1>2. ASSUME NEW request \in TargetRequests, m \in MoveOutcomes(n, request)
      PROVE  \E T : Good(m, T, X)
  <2> DEFINE moved == [ClearIdle(n) EXCEPT !.held = @ \ SidesOf(request)]
             shown == Shown(ClearIdle(n))
             kind == IF request = "target" THEN "explicit_target" ELSE "model_target"
  <2>1. SameSteps(n, shown) /\ SameTraffic(n, shown)
    BY <1>1 DEF Shown, ClearIdle, SameSteps, SameTraffic, Fields
  <2>2. Arranged(moved) /\ SameTraffic(n, moved)
    BY <1>1 DEF Arranged, ClearIdle, SameTraffic, Fields
  <2>3. m = shown \/ m \in BeginRequest(moved, request, StepsOf(SidesOf(request), kind))
    BY <1>2 DEF MoveOutcomes
  <2>4. kind \in TargetKinds /\ request \in Requests \ {""}
    BY DEF TargetKinds, Requests, TargetRequests
  <2>5. kind \notin {"home", "idle_restore"}
    OBVIOUS
  <2> HIDE DEF moved, shown, kind
  <2>6. Traffic(moved, X)
    BY <1>1, <2>2, SameTrafficOwes
  <2>7. m \in BeginRequest(moved, request, StepsOf(SidesOf(request), kind))
           => Good(m, SidesOf(request), X)
    BY <2>2, <2>4, <2>5, <2>6, BeginStepsGood
  <2>8. Good(shown, S, X)
    BY <2>1, AlikeGood
  <2>9. QED
    BY <2>3, <2>7, <2>8
<1>3. ASSUME m \in HomeOutcomes(n)
      PROVE  Good(m, {}, X)
  <2>1. Arranged(home) /\ SameTraffic(n, home)
    BY <1>1 DEF Arranged, ClearIdle, SameTraffic, Fields
  <2>2. m \in BeginRequest(home, "home_both", StepsOf(Side, "home"))
    BY <1>3 DEF HomeOutcomes
  <2> HIDE DEF home
  <2>3. Traffic(home, X)
    BY <1>1, <2>1, SameTrafficOwes
  <2>4. "home_both" \in Requests \ {""} /\ "home_both" \notin TargetRequests
    BY DEF Requests, TargetRequests
  <2>5. QED
    BY <2>1, <2>2, <2>3, <2>4, BeginStepsGood
<1>4. Good(cancelled, S, X)
  BY CancelMotionGood
<1>5. SameSteps(cancelled, paused) /\ SameTraffic(cancelled, paused)
  BY <1>4 DEF Good, Arranged, SameSteps, SameTraffic, Fields
<1>6. SameSteps(n, resumed) /\ SameTraffic(n, resumed)
  BY <1>1 DEF SameSteps, SameTraffic, Fields
<1>7. Good(reset, {}, X)
  <2>1. /\ DOMAIN reset = Fields /\ reset.request = "" /\ reset.step = NoStep
        /\ reset.sequence = <<>> /\ reset.held = {} /\ reset.evading = {}
        /\ reset.failed = cancelled.failed /\ reset.side = cancelled.side
        /\ reset.retry_timer = cancelled.retry_timer /\ SameTraffic(cancelled, reset)
    BY <1>4 DEF Good, Arranged, SameTraffic, ClearIdle, Fields
  <2> HIDE DEF reset, cancelled
  <2>2. Traffic(reset, X)
    BY <1>4, <2>1, SameTrafficOwes DEF Good
  <2>3. <<>> \in Seq(TrueSteps) /\ DOMAIN <<>> = {}
    OBVIOUS
  <2>4. Fitting(reset.sequence, "")
    BY <2>1, <2>3 DEF Fitting, HasNoRoute
  <2>5. "" \in Requests /\ "" \notin TargetRequests
    BY DEF Requests, TargetRequests
  <2>6. reset.side \in Side /\ reset.retry_timer \in Steps /\ reset.failed \subseteq Side
    BY <1>4, <2>1 DEF Good, Arranged
  <2>7. QED
    BY <2>1, <2>2, <2>4, <2>5, <2>6, FreshQueue DEF Fitting
<1>8. \/ \E request \in TargetRequests : m \in MoveOutcomes(n, request)
      \/ m \in HomeOutcomes(n)
      \/ m \in {n, paused, reset}
      \/ m \in ContinueRequest(resumed)
  <2>1. /\ "home" \notin TargetRequests /\ "pause" \notin TargetRequests
        /\ "resume" \notin TargetRequests /\ "reset" \notin TargetRequests
    BY DEF TargetRequests
  <2>2. QED
    BY <2>1 DEF CommandOutcomes, OperatorCommands, PauseOutcomes, ResumeOutcomes, ResetOutcomes
<1> HIDE DEF cancelled, cleared, home, paused, resumed, reset
<1>9. Good(paused, S, X) /\ Good(resumed, S, X)
  BY <1>4, <1>5, <1>6, AlikeGood
<1>10. \E T : Good(m, T, X)
  BY <1>2, <1>3, <1>7, <1>8, <1>9, ContinueRequestGood
<1>11. QED
  BY <1>10, OwnArms

LEMMA CollisionOutcomesFine ==
    ASSUME NEW S, NEW X, NEW n, Good(n, S, X), NEW m \in AddOutcomes(n) \union RemoveOutcomes(n)
    PROVE  Fine(m, S, X)
<1> DEFINE seen == [n EXCEPT !.obstacle = TRUE]
           gone == [n EXCEPT !.obstacle = FALSE, !.waiting = FALSE]
           retried == ScheduleRetry([gone EXCEPT !.resume = FALSE, !.state = "other",
                                               !.failures = Popped(@, gone.step)], gone.step)
<1>1. /\ SameSteps(n, seen) /\ SameTraffic(n, seen)
      /\ SameSteps(n, gone) /\ SameTraffic(n, gone)
      /\ SameSteps(n, retried) /\ SameTraffic(n, retried)
  BY DEF Good, Arranged, SameSteps, SameTraffic, ScheduleRetry, Fields
<1>2. \/ m \in {n, gone, retried}
      \/ \E r \in {seen} \union RetryWaiting(seen) : m \in IdleAvoidanceTick(r)
  BY DEF AddOutcomes, RemoveOutcomes
<1> HIDE DEF seen, gone, retried
<1>3. Good(seen, S, X) /\ Good(gone, S, X) /\ Good(retried, S, X)
  BY <1>1, AlikeGood
<1>4. QED
  BY <1>2, <1>3, RetryWaitingGood, IdleAvoidanceTickFine DEF Fine

\* RemoveAt leaves every other element.
LEMMA RemoveAtParts ==
    ASSUME NEW T, NEW q \in Seq(T), NEW i \in DOMAIN q
    PROVE  /\ RemoveAt(q, i) \in Seq(T) /\ Within(RemoveAt(q, i), q)
           /\ \A j \in DOMAIN q \ {i} :
                 \E k \in DOMAIN RemoveAt(q, i) : RemoveAt(q, i)[k] = q[j]
<1> DEFINE before == SubSeq(q, 1, i - 1)
           after == SubSeq(q, i + 1, Len(q))
           rest == before \o after
<1>1. rest = RemoveAt(q, i)
  BY DEF RemoveAt
<1>2. i \in 1 .. Len(q) /\ Len(q) \in Nat
  OBVIOUS
<1>3. /\ before \in Seq(T) /\ Len(before) = i - 1 /\ DOMAIN before = 1 .. (i - 1)
      /\ \A j \in 1 .. (i - 1) : j \in DOMAIN q /\ before[j] = q[j]
  BY <1>2
<1>4. /\ after \in Seq(T) /\ Len(after) = Len(q) - i /\ DOMAIN after = 1 .. (Len(q) - i)
      /\ \A j \in 1 .. (Len(q) - i) : i + j \in DOMAIN q /\ after[j] = q[i + j]
  BY <1>2
<1> HIDE DEF before, after
<1>5. /\ rest \in Seq(T)
      /\ \A k \in DOMAIN rest :
            \/ k \in DOMAIN before /\ rest[k] = before[k]
            \/ k > Len(before) /\ k - Len(before) \in DOMAIN after /\ rest[k] = after[k - Len(before)]
      /\ \A k \in DOMAIN before : k \in DOMAIN rest /\ rest[k] = before[k]
      /\ \A k \in DOMAIN after : k + Len(before) \in DOMAIN rest /\ rest[k + Len(before)] = after[k]
  <2>1. before \in Seq(T) /\ after \in Seq(T)
    BY <1>3, <1>4
  <2>2. QED
    BY <2>1, ConcatParts
<1> HIDE DEF rest
<1>6. \A k \in DOMAIN rest : \E j \in DOMAIN q : rest[k] = q[j]
  BY <1>3, <1>4, <1>5
<1>7. ASSUME NEW j \in DOMAIN q, j # i
      PROVE  \E k \in DOMAIN rest : rest[k] = q[j]
  <2>1. CASE j < i
    <3>1. j \in 1 .. (i - 1)
      BY <1>2, <2>1
    <3>2. QED
      BY <1>3, <1>5, <3>1
  <2>2. CASE j > i
    <3>1. j - i \in 1 .. (Len(q) - i) /\ i + (j - i) = j
      BY <1>2, <2>2
    <3>2. after[j - i] = q[j] /\ j - i \in DOMAIN after
      BY <1>4, <3>1
    <3>3. QED
      BY <1>5, <3>2
  <2>3. QED
    BY <1>2, <1>7, <2>1, <2>2
<1>8. QED
  BY <1>1, <1>5, <1>6, <1>7 DEF Within

\* A failure with a current step.
LEMMA RouteFailureGood ==
    ASSUME NEW S, NEW X, NEW n, Good(n, S, X), n.step.kind \in RouteKinds, NEW failed,
           NEW m \in RouteFailure(n, failed)
    PROVE  Good(m, S, X)
<1> DEFINE refreshed == [n EXCEPT !.refreshes = Counted(@, n.step.side, RouteRefreshes),
                                  !.failures = failed]
           again == [n EXCEPT !.failures = failed]
           timed == ScheduleRetry([again EXCEPT !.state = "other"], n.step)
<1>1. /\ SameSteps(n, refreshed) /\ SameTraffic(n, refreshed)
      /\ SameSteps(n, again) /\ SameTraffic(n, again)
      /\ SameSteps(n, timed) /\ SameTraffic(n, timed)
  BY DEF Good, Arranged, SameSteps, SameTraffic, ScheduleRetry, Fields
<1>2. \/ m \in RestartDynamicRoute(refreshed, n.step.side)
      \/ m \in RestartDynamicRoute(again, n.step.side)
      \/ m \in {timed, WaitForClearPath(again, n.step.side)}
      \/ m \in GiveUp(again, n.side)
  BY DEF RouteFailure
<1> HIDE DEF refreshed, again, timed
<1>3. Good(refreshed, S, X) /\ Good(again, S, X) /\ Good(timed, S, X)
  BY <1>1, AlikeGood
<1>4. n.step # NoStep
  BY NoStepIsNone DEF RouteKinds
<1>5. refreshed.step = n.step /\ again.step = n.step
  BY <1>1 DEF SameSteps
<1>6. n.side \in Side /\ n.step.side = n.side
  BY <1>4, CurrentStep
<1>7. m \in RestartDynamicRoute(refreshed, n.step.side) => Good(m, S, X)
  BY <1>3, <1>4, <1>5, RestartDynamicRouteGood
<1>8. m \in RestartDynamicRoute(again, n.step.side) => Good(m, S, X)
  BY <1>3, <1>4, <1>5, RestartDynamicRouteGood
<1>9. Good(WaitForClearPath(again, n.step.side), S, X)
  BY <1>3, <1>4, <1>5, WaitForClearPathGood
<1>10. m \in GiveUp(again, n.side) => Good(m, S, X)
  BY <1>3, <1>5, <1>6, GiveUpGood
<1>11. QED
  BY <1>2, <1>3, <1>7, <1>8, <1>9, <1>10

LEMMA GiveUpActiveGood ==
    ASSUME NEW S, NEW X, NEW n, Good(n, S, X), NEW m \in GiveUp(n, n.side)
    PROVE  Good(m, S, X)
<1>1. n.side \in Side /\ (n.step # NoStep => n.step.side = n.side)
  BY DEF Good, Arranged, Routed
<1>2. QED
  BY <1>1, GiveUpGood

LEMMA PlanFailureGood ==
    ASSUME NEW S, NEW X, NEW n, Good(n, S, X), NEW m \in PlanFailure(n)
    PROVE  Good(m, S, X)
<1>1. ASSUME NEW failed, m \in CrisisFailure(n, failed)
      PROVE  Good(m, S, X)
  <2> DEFINE again == [n EXCEPT !.failures = failed, !.state = "other"]
  <2>1. SameSteps(n, again) /\ SameTraffic(n, again) /\ again.side = n.side
    BY DEF Good, Arranged, SameSteps, SameTraffic, Fields
  <2>2. m \in SendPlan(again) \union GiveUp(again, again.side)
    BY <1>1, <2>1 DEF CrisisFailure
  <2> HIDE DEF again
  <2>3. Good(again, S, X)
    BY <2>1, AlikeGood
  <2>4. QED
    BY <2>2, <2>3, SendPlanGood, GiveUpActiveGood
<1>2. ASSUME NEW failed, m \in TargetFailure(n, failed)
      PROVE  Good(m, S, X)
  <2> DEFINE again == [n EXCEPT !.failures = failed]
             waits == [again EXCEPT !.resume = TRUE, !.waiting = TRUE, !.state = "wait_obstacle"]
             timed == ScheduleRetry([again EXCEPT !.routed = @ \ {n.step}, !.state = "other"], n.step)
  <2>1. /\ SameSteps(n, again) /\ SameTraffic(n, again) /\ again.side = n.side
        /\ SameSteps(n, waits) /\ SameTraffic(n, waits)
        /\ SameSteps(n, timed) /\ SameTraffic(n, timed)
    BY DEF Good, Arranged, SameSteps, SameTraffic, ScheduleRetry, Fields
  <2>2. m \in {waits, timed} \union GiveUp(again, again.side)
    BY <1>2, <2>1 DEF TargetFailure
  <2> HIDE DEF again, waits, timed
  <2>3. Good(again, S, X) /\ Good(waits, S, X) /\ Good(timed, S, X)
    BY <2>1, AlikeGood
  <2>4. QED
    BY <2>2, <2>3, GiveUpActiveGood
<1>3. \/ \E failed : m \in CrisisFailure(n, failed)
      \/ n.step.kind \in RouteKinds /\ \E failed : m \in RouteFailure(n, failed)
      \/ \E failed : m \in TargetFailure(n, failed)
      \/ m \in GiveUp(n, n.side)
  BY DEF PlanFailure
<1>4. QED
  BY <1>1, <1>2, <1>3, RouteFailureGood, GiveUpActiveGood

\* An answer of MoveIt has come: a node that stays busy has sent the path on.
LEMMA PlanOutcomesGood ==
    ASSUME NEW S, NEW X, NEW before, Good(before, S, X), NEW i \in DOMAIN before.plans,
           NEW m \in PlanOutcomes(before, i)
    PROVE  Good(m, S, X)
<1> DEFINE n == [before EXCEPT !.plans = RemoveAt(@, i)]
           found == [n EXCEPT !.failures = Popped(@, n.step)]
           path == [side |-> before.plans[i].side,
                    escape |-> before.plans[i].kind \in CrisisKinds]
           free == [n EXCEPT !.busy = FALSE]
           shown == [Shown(n) EXCEPT !.busy = FALSE]
           ready == [Shown(found) EXCEPT !.busy = FALSE]
           sent == [Shown(found) EXCEPT !.publish = <<path>>]
           stopped == [Shown(found) EXCEPT !.busy = FALSE, !.resume = TRUE]
<1>1. before.plans \in Seq(Plans) /\ before.goals \in Seq(Goal) /\ before.safety \in Contract!States
  BY DEF Good, Traffic
<1>2. RemoveAt(before.plans, i) \in Seq(Plans)
  BY <1>1, RemoveAtParts
<1>3. path \in Trajectory
  <2>1. before.plans[i] \in Plans
    BY <1>1
  <2>2. QED
    BY <2>1 DEF Plans, Trajectory
<1>4. /\ SameSteps(before, n) /\ SameSteps(before, found) /\ SameSteps(before, free)
      /\ SameSteps(before, shown) /\ SameSteps(before, ready) /\ SameSteps(before, sent)
      /\ SameSteps(before, stopped)
  BY DEF Good, Arranged, SameSteps, Shown, Fields
<1>5. /\ n.plans = RemoveAt(before.plans, i) /\ found.plans = n.plans /\ free.plans = n.plans
      /\ shown.plans = n.plans /\ ready.plans = n.plans /\ sent.plans = n.plans
      /\ stopped.plans = n.plans
      /\ n.goals = before.goals /\ found.goals = before.goals /\ free.goals = before.goals
      /\ shown.goals = before.goals /\ ready.goals = before.goals /\ sent.goals = before.goals
      /\ stopped.goals = before.goals
  BY DEF Good, Arranged, Shown, Fields
<1>6. /\ n.safety = before.safety /\ found.safety = before.safety /\ free.safety = before.safety
      /\ shown.safety = before.safety /\ ready.safety = before.safety /\ sent.safety = before.safety
      /\ stopped.safety = before.safety
      /\ n.publish = before.publish /\ found.publish = before.publish
      /\ free.publish = before.publish /\ shown.publish = before.publish
      /\ ready.publish = before.publish /\ stopped.publish = before.publish
      /\ sent.publish = <<path>>
      /\ free.busy = FALSE /\ shown.busy = FALSE /\ ready.busy = FALSE /\ stopped.busy = FALSE
  BY DEF Good, Arranged, Shown, Fields
<1>7. \/ m \in {free, shown, ready, sent, stopped}
      \/ m \in PlanFailure(free)
      \/ m \in Execute(found, path)
  BY DEF PlanOutcomes, PlanSuccess
<1> HIDE DEF n, found, path, free, shown, ready, sent, stopped
<1>8. <<path>> \in Seq(Trajectory) /\ <<path>> # <<>> /\ before.publish \in Seq(Trajectory)
  BY <1>3 DEF Good, Traffic
<1>9. /\ Traffic(found, TRUE) /\ Traffic(free, X) /\ Traffic(shown, X) /\ Traffic(ready, X)
      /\ Traffic(stopped, X) /\ Traffic(sent, X)
  BY <1>1, <1>2, <1>5, <1>6, <1>8 DEF Traffic, Owes
<1>10. /\ Good(found, S, TRUE) /\ Good(free, S, X) /\ Good(shown, S, X) /\ Good(ready, S, X)
       /\ Good(stopped, S, X) /\ Good(sent, S, X)
  BY <1>4, <1>9, SameStepsArranged DEF Good
<1>11. QED
  BY <1>3, <1>7, <1>10, PlanFailureGood, ExecuteGood

LEMMA ReplanRequestOutcomesGood ==
    ASSUME NEW S, NEW X, NEW n, Good(n, S, X), NEW m \in ReplanRequestOutcomes(n)
    PROVE  Good(m, S, X)
<1> DEFINE stopped == CancelMotion(n)
           shown == Shown(stopped)
           waits == [Shown(stopped) EXCEPT !.resume = TRUE]
<1>1. Good(stopped, S, X)
  BY CancelMotionGood
<1>2. stopped.step = n.step /\ stopped.side = n.side
  BY CancelMotionTraffic DEF Good, Arranged, SameSteps
<1>3. /\ SameSteps(stopped, shown) /\ SameTraffic(stopped, shown)
      /\ SameSteps(stopped, waits) /\ SameTraffic(stopped, waits)
  BY <1>1 DEF Good, Arranged, SameSteps, SameTraffic, Shown, Fields
<1>4. \/ m \in {n, waits} \union ReplanLastRequest(shown)
      \/ n.step # NoStep /\ m \in RestartDynamicRoute(stopped, n.side)
  BY DEF ReplanRequestOutcomes
<1> HIDE DEF stopped, shown, waits
<1>5. Good(shown, S, X) /\ Good(waits, S, X)
  BY <1>1, <1>3, AlikeGood
<1>6. n.step # NoStep => n.side = n.step.side
  BY CurrentStep
<1>7. QED
  BY <1>1, <1>2, <1>4, <1>5, <1>6, ContinueRequestGood, RestartDynamicRouteGood

-----------------------------------------------------------------------------
\* Controller goals.

\* Goals are marked, or one is forgotten that no longer counts.
LEMMA GoalsGood ==
    ASSUME NEW S, NEW X, NEW n, Good(n, S, X), NEW goals \in Seq(Goal),
           \A i \in DOMAIN n.goals : n.goals[i].current => \E j \in DOMAIN goals : goals[j].current
    PROVE  Good([n EXCEPT !.goals = goals], S, X)
<1> DEFINE m == [n EXCEPT !.goals = goals]
<1>1. /\ SameSteps(n, m) /\ m.goals = goals /\ m.safety = n.safety /\ m.plans = n.plans
      /\ m.publish = n.publish /\ m.busy = n.busy /\ m.planner_mode = n.planner_mode
  BY DEF Good, Arranged, SameSteps, Fields
<1> HIDE DEF m
<1>2. Traffic(m, X)
  BY <1>1 DEF Good, Traffic, Owes
<1>3. QED
  BY <1>1, <1>2, SameStepsArranged DEF Good, m

\* A free node may have lost any goal.
LEMMA FreeGood ==
    ASSUME NEW S, NEW X, NEW Y, NEW n, Good(n, S, X), NEW m, SameSteps(n, m),
           m.goals \in Seq(Goal), m.busy = FALSE, m.safety = n.safety, m.plans = n.plans,
           m.publish = n.publish
    PROVE  Good(m, S, Y)
<1>1. Traffic(m, Y)
  BY DEF Good, Traffic, Owes
<1>2. QED
  BY <1>1, SameStepsArranged DEF Good

LEMMA MarkedGoals ==
    ASSUME NEW goals \in Seq(Goal), NEW marked,
           marked = [i \in DOMAIN goals |-> marked[i]],
           \A i \in DOMAIN goals : marked[i] \in Goal
    PROVE  marked \in Seq(Goal) /\ DOMAIN marked = DOMAIN goals
<1>1. DOMAIN goals = 1 .. Len(goals) /\ Len(goals) \in Nat
  OBVIOUS
<1>2. QED
  BY <1>1

LEMMA AcceptedOutcomesGood ==
    ASSUME NEW S, NEW X, NEW n, Good(n, S, X), NEW i \in DOMAIN n.goals,
           NEW m \in AcceptedOutcomes(n, i)
    PROVE  Good(m, S, X)
<1> DEFINE kept == [j \in DOMAIN n.goals |->
                       [n.goals[j] EXCEPT !.handle = (i = j), !.known = @ \/ i = j]]
           late == [j \in DOMAIN n.goals |->
                       IF j = i THEN [n.goals[j] EXCEPT !.known = TRUE, !.cancel = TRUE]
                       ELSE n.goals[j]]
<1>1. n.goals \in Seq(Goal) /\ \A j \in DOMAIN n.goals : n.goals[j] \in Goal
  BY DEF Good, Traffic
<1>2. /\ kept = [j \in DOMAIN n.goals |-> kept[j]]
      /\ \A j \in DOMAIN n.goals : kept[j] \in Goal /\ kept[j].current = n.goals[j].current
  BY <1>1 DEF Goal
<1>3. /\ late = [j \in DOMAIN n.goals |-> late[j]]
      /\ \A j \in DOMAIN n.goals : late[j] \in Goal /\ late[j].current = n.goals[j].current
  BY <1>1 DEF Goal
<1>4. m \in {[n EXCEPT !.goals = kept], [n EXCEPT !.goals = late]}
  <2>1. [n EXCEPT !.goals[i].known = TRUE, !.goals[i].cancel = TRUE] = [n EXCEPT !.goals = late]
    BY <1>1 DEF Good, Arranged, Fields, Goal
  <2>2. QED
    BY <2>1 DEF AcceptedOutcomes
<1> HIDE DEF kept, late
<1>5. kept \in Seq(Goal) /\ DOMAIN kept = DOMAIN n.goals
  BY <1>1, <1>2, MarkedGoals
<1>6. late \in Seq(Goal) /\ DOMAIN late = DOMAIN n.goals
  BY <1>1, <1>3, MarkedGoals
<1>7. Good([n EXCEPT !.goals = kept], S, X)
  BY <1>2, <1>5, GoalsGood
<1>8. Good([n EXCEPT !.goals = late], S, X)
  BY <1>3, <1>6, GoalsGood
<1>9. QED
  BY <1>4, <1>7, <1>8

LEMMA RejectedOutcomesGood ==
    ASSUME NEW S, NEW X, NEW n, Good(n, S, X), NEW i \in DOMAIN n.goals,
           NEW m \in RejectedOutcomes(n, i)
    PROVE  Good(m, S, X)
<1> DEFINE goals == RemoveAt(n.goals, i)
           rest == [n EXCEPT !.goals = RemoveAt(@, i)]
           free == [Shown(rest) EXCEPT !.busy = FALSE]
<1>1. /\ goals \in Seq(Goal)
      /\ \A j \in DOMAIN n.goals \ {i} : \E k \in DOMAIN goals : goals[k] = n.goals[j]
  BY RemoveAtParts DEF Good, Traffic
<1>2. /\ SameSteps(n, free) /\ free.goals = goals /\ free.busy = FALSE
      /\ free.safety = n.safety /\ free.plans = n.plans /\ free.publish = n.publish
  BY DEF Good, Arranged, SameSteps, Shown, Fields
<1>3. IF n.goals[i].current THEN m = free ELSE m = [n EXCEPT !.goals = goals]
  BY DEF RejectedOutcomes
<1> HIDE DEF goals, rest, free
<1>4. CASE n.goals[i].current
  BY <1>1, <1>2, <1>3, <1>4, FreeGood
<1>5. CASE ~n.goals[i].current
  <2>1. \A j \in DOMAIN n.goals : n.goals[j].current => \E k \in DOMAIN goals : goals[k].current
    BY <1>1, <1>5
  <2>2. QED
    BY <1>1, <1>3, <1>5, <2>1, GoalsGood
<1>6. QED
  BY <1>4, <1>5

\* A goal has been reached: the active arm now holds its marker.
LEMMA ReachedGood ==
    ASSUME NEW S, NEW X, NEW n, Good(n, S, X), NEW m \in Reached(n)
    PROVE  Good(m, S, X)
<1> DEFINE reached == [n EXCEPT
               !.state = "other",
               !.held = CASE n.step.kind \in TargetKinds -> @ \union {n.side}
                          [] n.step.kind = "home" -> @ \ {n.side}
                          [] OTHER -> @,
               !.route_active = @ /\ n.step.kind # "under_recover"]
<1>1. m \in StartNextStep(reached)
  BY DEF Reached
<1>2. /\ DOMAIN reached = Fields /\ reached.request = n.request /\ reached.step = n.step
      /\ reached.side = n.side /\ reached.sequence = n.sequence
      /\ reached.waypoints = n.waypoints /\ reached.failed = n.failed
      /\ reached.retry_timer = n.retry_timer /\ reached.evading = n.evading
      /\ SameTraffic(n, reached)
  BY DEF Good, Arranged, SameTraffic, Fields
<1>3. /\ reached.held \in {n.held, n.held \union {n.side}, n.held \ {n.side}}
      /\ n.step.kind \in TargetKinds => reached.held = n.held \union {n.side}
      /\ n.step.kind # "home" => n.held \subseteq reached.held
  BY DEF Good, Arranged, Fields, TargetKinds
<1> HIDE DEF reached
<1>4. Arranged(reached)
  <2>1. reached.held \subseteq Side
    BY <1>3 DEF Good, Arranged
  <2>2. QED
    BY <1>2, <2>1 DEF Good, Arranged
<1>5. Routed(reached) /\ OwnKinds(reached)
  BY <1>2 DEF Good, Routed, OwnKinds
<1>6. ASSUME n.request \in TargetRequests \union {""}
      PROVE  n.held \subseteq reached.held
  BY <1>3, <1>6 DEF Good, OwnKinds, Suits
<1>7. ASSUME n.request \in TargetRequests, NEW s \in S
      PROVE  Settled(reached, s) \/ Ahead(reached.sequence, s)
  <2>1. CASE IsTarget(n.step, s)
    <3>1. n.step # NoStep
      BY <2>1, NoStepIsNone
    <3>2. n.side = s /\ n.step.kind \in TargetKinds
      BY <2>1, <3>1, CurrentStep DEF IsTarget
    <3>3. QED
      BY <1>3, <3>2 DEF Settled
  <2>2. CASE Settled(n, s) \/ Ahead(n.sequence, s)
    BY <1>2, <1>6, <1>7, <2>2 DEF Settled
  <2>3. QED
    BY <1>7, <2>1, <2>2 DEF Good, Accounts
<1>8. Accounts(reached, S) /\ Ready(reached, S)
  BY <1>2, <1>6, <1>7 DEF Good, Accounts, Ready, Settled
<1>9. Good(reached, S, X)
  BY <1>2, <1>4, <1>5, <1>8, SameTrafficOwes DEF Good
<1>10. QED
  BY <1>1, <1>8, <1>9, StartNextStepGood

LEMMA ResultOutcomesGood ==
    ASSUME NEW S, NEW X, NEW before, Good(before, S, X), NEW i \in DOMAIN before.goals,
           NEW m \in ResultOutcomes(before, i)
    PROVE  Good(m, S, X)
<1> DEFINE goals == RemoveAt(before.goals, i)
           rest == [before EXCEPT !.goals = RemoveAt(@, i)]
           bare == [j \in DOMAIN goals |-> [goals[j] EXCEPT !.handle = FALSE]]
           n == [rest EXCEPT !.busy = FALSE,
                             !.goals = [j \in DOMAIN @ |-> [rest.goals[j] EXCEPT !.handle = FALSE]]]
           shown == Shown(n)
<1>1. /\ goals \in Seq(Goal)
      /\ \A j \in DOMAIN before.goals \ {i} : \E k \in DOMAIN goals : goals[k] = before.goals[j]
  BY RemoveAtParts DEF Good, Traffic
<1>2. rest.goals = goals /\ rest = [before EXCEPT !.goals = goals] /\ DOMAIN rest = Fields
  BY DEF Good, Arranged, Fields
<1>3. /\ SameSteps(before, n) /\ n.goals = bare /\ n.busy = FALSE
      /\ n.safety = before.safety /\ n.plans = before.plans /\ n.publish = before.publish
  BY <1>2 DEF Good, Arranged, SameSteps, Fields
<1>4. /\ SameSteps(before, shown) /\ shown.goals = bare /\ shown.busy = FALSE
      /\ shown.safety = before.safety /\ shown.plans = before.plans
      /\ shown.publish = before.publish
  BY <1>3 DEF SameSteps, Shown, Fields
<1>5. IF before.goals[i].current THEN m \in {shown, n} \union Reached(n) ELSE m = rest
  BY DEF ResultOutcomes
<1>6. bare = [j \in DOMAIN goals |-> bare[j]]
  OBVIOUS
<1>7. \A j \in DOMAIN goals : bare[j] \in Goal
  <2>1. \A j \in DOMAIN goals : goals[j] \in Goal
    <3> HIDE DEF goals
    <3> QED BY <1>1, ElementOf
  <2> HIDE DEF goals
  <2>2. QED
    BY <2>1 DEF Goal
<1> HIDE DEF goals, rest, bare, n, shown
<1>8. bare \in Seq(Goal)
  BY <1>1, <1>6, <1>7, MarkedGoals
<1>9. Good(n, S, X) /\ Good(shown, S, X)
  BY <1>3, <1>4, <1>8, FreeGood
<1>10. CASE before.goals[i].current
  BY <1>5, <1>9, <1>10, ReachedGood
<1>11. CASE ~before.goals[i].current
  <2>1. \A j \in DOMAIN before.goals : before.goals[j].current => \E k \in DOMAIN goals : goals[k].current
    BY <1>1, <1>11
  <2>2. QED
    BY <1>1, <1>2, <1>5, <1>11, <2>1, GoalsGood
<1>12. QED
  BY <1>10, <1>11

LEMMA SupersedeGood ==
    ASSUME NEW S, NEW X, NEW n, Good(n, S, X), NEW i \in DOMAIN n.goals
    PROVE  Good([n EXCEPT !.goals = Supersede(@, i)], S, X)
<1> DEFINE goals == Supersede(n.goals, i)
<1>1. n.goals \in Seq(Goal) /\ \A j \in DOMAIN n.goals : n.goals[j] \in Goal
  BY DEF Good, Traffic
<1>2. /\ goals = [j \in DOMAIN n.goals |-> goals[j]]
      /\ \A j \in DOMAIN n.goals : goals[j] \in Goal /\ goals[j].current = n.goals[j].current
  BY <1>1 DEF Supersede, Goal
<1>3. [n EXCEPT !.goals = Supersede(@, i)] = [n EXCEPT !.goals = goals]
  BY DEF Good, Arranged, Fields
<1> HIDE DEF goals
<1>4. goals \in Seq(Goal) /\ DOMAIN goals = DOMAIN n.goals
  BY <1>1, <1>2, MarkedGoals
<1>5. Good([n EXCEPT !.goals = goals], S, X)
  BY <1>2, <1>4, GoalsGood
<1>6. QED
  BY <1>3, <1>5

LEMMA PublishStateFine ==
    ASSUME NEW S, NEW X, NEW n, Good(n, S, X), NEW r \in RecoveryTick(n),
           NEW m \in IdleAvoidanceTick(r)
    PROVE  Fine(m, S, X)
<1> DEFINE asked == [Shown(n) EXCEPT !.reset_requested = TRUE]
<1>1. SameSteps(n, asked) /\ SameTraffic(n, asked)
  BY DEF Good, Arranged, SameSteps, SameTraffic, Shown, Fields
<1>2. r \in {n, asked}
  BY DEF RecoveryTick
<1> HIDE DEF asked
<1>3. Good(r, S, X)
  BY <1>1, <1>2, AlikeGood
<1>4. QED
  BY <1>3, IdleAvoidanceTickFine

-----------------------------------------------------------------------------
(***************************************************************************)
(* The system.  What the gate owes is a trajectory that waits in it or is  *)
(* on its way to or from it.  An operator who may switch the layer off     *)
(* and on again can lose an answer: the executor drops what reaches it     *)
(* while the layer is off.                                                 *)
(***************************************************************************)
Owed == "dynamic" \in Commands \/ input # <<>> \/ pending # <<>> \/ trajectory # <<>>

Paths ==
    /\ input \in Seq(Trajectory) /\ trajectory \in Seq(Trajectory)
    /\ pending \in Seq(Trajectory) /\ Len(pending) <= 1

Heard ==
    /\ state \in Contract!States /\ pose_inbox \in Seq(Contract!States)
    /\ budget \in [commands : Nat, changes : Nat, hand : Nat]

PoseInv == Good(pose, SidesOf(pose.request), Owed) /\ pose.publish = <<>>

SystemInv == PoseInv /\ Paths /\ Heard

\* Where a callback may go: an operator's command may begin another request.
Moves ==
    /\ \/ Fine(pose', SidesOf(pose.request), Owed')
       \/ /\ Good(pose', SidesOf(pose'.request), Owed')
          /\ budget'.commands # budget.commands
    /\ pose'.publish = <<>>

LEMMA FineOwn ==
    ASSUME NEW S, NEW X, NEW m, Fine(m, S, X)
    PROVE  Good(m, SidesOf(m.request), X)
BY OwnArms DEF Fine

\* A record is left: what it has published is owed by the gate now.
LEMMA PublishedGood ==
    ASSUME NEW S, NEW X, NEW Y, NEW n, Good(n, S, X), X => Y, n.publish # <<>> => Y
    PROVE  /\ Good([n EXCEPT !.publish = <<>>], S, Y)
           /\ [n EXCEPT !.publish = <<>>].publish = <<>>
           /\ [n EXCEPT !.publish = <<>>].request = n.request
<1> DEFINE m == [n EXCEPT !.publish = <<>>]
<1>1. SameSteps(n, m) /\ m.publish = <<>> /\ m.request = n.request
  BY DEF Good, Arranged, SameSteps, Fields
<1>2. /\ m.safety = n.safety /\ m.plans = n.plans /\ m.goals = n.goals
      /\ m.busy = n.busy /\ m.planner_mode = n.planner_mode
  BY DEF Good, Arranged, Fields
<1> HIDE DEF m
<1>3. <<>> \in Seq(Trajectory)
  OBVIOUS
<1>4. Traffic(m, Y)
  BY <1>1, <1>2, <1>3 DEF Good, Traffic, Owes
<1>5. QED
  BY <1>1, <1>4, SameStepsArranged DEF Good, m

LEMMA LeaveFine ==
    ASSUME Paths, pending' = pending, trajectory' = trajectory, NEW S, NEW n, Fine(n, S, Owed),
           pose' = [n EXCEPT !.publish = <<>>], input' = input \o n.publish
    PROVE  Fine(pose', S, Owed') /\ pose'.publish = <<>> /\ input' \in Seq(Trajectory)
<1>1. n.publish \in Seq(Trajectory)
  BY DEF Fine, Good, Traffic
<1>2. input \in Seq(Trajectory)
  BY DEF Paths
<1>3. /\ input \o n.publish \in Seq(Trajectory)
      /\ input # <<>> \/ n.publish # <<>> => input \o n.publish # <<>>
  BY <1>1, <1>2
<1>4. (Owed => Owed') /\ (n.publish # <<>> => Owed')
  BY <1>3 DEF Owed
<1>5. ASSUME NEW T, Good(n, T, Owed)
      PROVE  /\ Good(pose', T, Owed') /\ pose'.publish = <<>>
             /\ pose'.request = n.request
  BY <1>4, <1>5, PublishedGood
<1>6. QED
  BY <1>3, <1>5 DEF Fine

\* The node's callbacks, with the gate and what is on its way left alone.
LEMMA CallbackMoves ==
    ASSUME PoseInv, Paths, UNCHANGED <<pending, trajectory>>,
           NEW outcomes, Leave(outcomes),
           \A m \in outcomes : Fine(m, SidesOf(pose.request), Owed)
    PROVE  Moves /\ Paths'
<1>1. PICK n \in outcomes : pose' = [n EXCEPT !.publish = <<>>] /\ input' = input \o n.publish
  BY DEF Leave
<1>2. Fine(n, SidesOf(pose.request), Owed)
  OBVIOUS
<1>3. /\ Fine(pose', SidesOf(pose.request), Owed') /\ pose'.publish = <<>>
      /\ input' \in Seq(Trajectory)
  BY <1>1, <1>2, LeaveFine
<1>4. QED
  BY <1>3 DEF Moves, Paths

LEMMA OperatorMoves ==
    ASSUME PoseInv, Paths, Heard, Operator
    PROVE  Moves /\ Paths' /\ Heard'
<1> DEFINE Left(n) == /\ Good(n, SidesOf(n.request), Owed)
                      /\ pose' = [n EXCEPT !.publish = <<>>] /\ input' = input \o n.publish
<1>1. budget.commands \in Nat /\ budget.commands > 0 /\ budget' = [budget EXCEPT !.commands = @ - 1]
  BY DEF Operator, Spend, Heard
<1>2. budget'.commands # budget.commands /\ budget' \in [commands : Nat, changes : Nat, hand : Nat]
  BY <1>1 DEF Heard
<1>3. UNCHANGED <<pending, trajectory, pose_inbox, state>>
  BY DEF Operator, Command, Planner, supervisorVars, gateVars
<1>4. \E n : Left(n)
  <2>1. ASSUME NEW command \in Commands \ {"moveit", "dynamic"}, Command(command)
        PROVE  \E n : Left(n)
    <3>1. PICK n \in CommandOutcomes(pose, command) :
              pose' = [n EXCEPT !.publish = <<>>] /\ input' = input \o n.publish
      BY <2>1 DEF Command, Leave
    <3>2. command \in OperatorCommands
      BY BoundAssumption DEF OperatorCommands
    <3>3. Good(n, SidesOf(n.request), Owed)
      BY <3>2, CommandOutcomesGood DEF PoseInv
    <3>4. QED
      BY <3>1, <3>3
  <2>2. ASSUME NEW mode \in Commands \intersect {"moveit", "dynamic"}, Planner(mode)
        PROVE  \E n : Left(n)
    <3> DEFINE n == [pose EXCEPT !.planner_mode = mode]
    <3>1. pose' = [n EXCEPT !.publish = <<>>] /\ input' = input \o n.publish
      BY <2>2 DEF Planner, Leave
    <3>2. /\ SameSteps(pose, n) /\ n.safety = pose.safety /\ n.plans = pose.plans
          /\ n.goals = pose.goals /\ n.publish = pose.publish /\ n.busy = pose.busy
          /\ n.planner_mode = mode
      BY DEF PoseInv, Good, Arranged, SameSteps, Fields
    <3> HIDE DEF n
    <3>3. Traffic(n, Owed)
      BY <3>2 DEF PoseInv, Good, Traffic, Owes, Owed
    <3>4. Good(n, SidesOf(pose.request), Owed)
      BY <3>2, <3>3, SameStepsArranged DEF PoseInv, Good
    <3>5. QED
      BY <3>1, <3>4, OwnArms
  <2>3. QED
    BY <2>1, <2>2 DEF Operator
<1>5. PICK n : Left(n)
  BY <1>4
<1>6. /\ Fine(pose', SidesOf(n.request), Owed') /\ pose'.publish = <<>>
      /\ input' \in Seq(Trajectory)
  BY <1>3, <1>5, LeaveFine DEF Fine
<1>7. Good(pose', SidesOf(pose'.request), Owed')
  BY <1>6, FineOwn
<1>8. QED
  BY <1>2, <1>3, <1>6, <1>7 DEF Moves, Paths, Heard

LEMMA HeadOfInbox ==
    ASSUME NEW T, NEW q \in Seq(T), q # <<>>
    PROVE  Head(q) \in T /\ Tail(q) \in Seq(T)
BY FirstAndRest

\* A path that the gate has released reaches the executor: it is sent on as a
\* goal, or nothing waits for it.
LEMMA DynamicTrajectoryMoves ==
    ASSUME PoseInv, Paths, DynamicTrajectory, UNCHANGED pending
    PROVE  Moves /\ Paths'
<1>1. PICK n \in (IF pose.planner_mode = "dynamic" /\ pose.busy
                  THEN Execute(pose, Head(trajectory)) ELSE {pose}) :
          pose' = [n EXCEPT !.publish = <<>>] /\ input' = input \o n.publish
  BY DEF DynamicTrajectory, Leave
<1>2. trajectory # <<>> /\ trajectory \in Seq(Trajectory) /\ trajectory' = Tail(trajectory)
  BY DEF DynamicTrajectory, Paths
<1>3. Head(trajectory) \in Trajectory /\ trajectory' \in Seq(Trajectory)
  BY <1>2, HeadOfInbox
<1>4. Good(n, SidesOf(pose.request), FALSE)
  <2>1. CASE pose.planner_mode = "dynamic" /\ pose.busy
    BY <1>1, <1>3, <2>1, ExecuteGood DEF PoseInv
  <2>2. CASE ~(pose.planner_mode = "dynamic" /\ pose.busy)
    BY <1>1, <2>2 DEF PoseInv, Good, Traffic, Owes
  <2>3. QED
    BY <2>1, <2>2
<1>5. n.publish \in Seq(Trajectory) /\ input \in Seq(Trajectory)
  BY <1>4 DEF Good, Traffic, Paths
<1>6. /\ input \o n.publish \in Seq(Trajectory)
      /\ n.publish # <<>> => input \o n.publish # <<>>
  BY <1>5
<1>7. n.publish # <<>> => Owed'
  BY <1>1, <1>6 DEF Owed
<1>8. Good(pose', SidesOf(pose.request), Owed') /\ pose'.publish = <<>>
  BY <1>1, <1>4, <1>7, PublishedGood
<1>9. QED
  BY <1>1, <1>3, <1>6, <1>8 DEF Moves, Fine, Paths

LEMMA ExecutorMoves ==
    ASSUME PoseInv, Paths, Heard, Executor
    PROVE  Moves /\ Paths' /\ Heard'
<1> DEFINE S == SidesOf(pose.request)
<1>1. UNCHANGED <<pending, state, budget>>
  BY DEF Executor, supervisorVars, gateVars
<1>2. Good(pose, S, Owed)
  BY DEF PoseInv
<1> HIDE DEF S
<1>3. CASE SafetyCallback
  <2>1. Head(pose_inbox) \in Contract!States /\ pose_inbox' \in Seq(Contract!States)
    BY <1>3, HeadOfInbox DEF SafetyCallback, Heard
  <2>2. \A m \in SafetyOutcomes(pose, Head(pose_inbox)) : Fine(m, S, Owed)
    BY <1>2, <2>1, SafetyOutcomesFine
  <2>3. Leave(SafetyOutcomes(pose, Head(pose_inbox))) /\ UNCHANGED <<pending, trajectory>>
    BY <1>1, <1>3 DEF SafetyCallback
  <2>4. QED
    BY <1>1, <2>1, <2>2, <2>3, CallbackMoves DEF S, Heard
<1>4. CASE SafetyDistanceCallback
  <2>1. Leave(RetryWaiting(pose)) /\ UNCHANGED <<pending, trajectory, pose_inbox>>
    BY <1>1, <1>4 DEF SafetyDistanceCallback
  <2>2. \A m \in RetryWaiting(pose) : Fine(m, S, Owed)
    BY <1>2, RetryWaitingGood DEF Fine
  <2>3. QED
    BY <1>1, <2>1, <2>2, CallbackMoves DEF S, Heard
<1>5. CASE PlanResult
  <2>1. PICK i \in DOMAIN pose.plans : Leave(PlanOutcomes(pose, i))
    BY <1>5 DEF PlanResult
  <2>2. \A m \in PlanOutcomes(pose, i) : Fine(m, S, Owed)
    BY <1>2, PlanOutcomesGood DEF Fine
  <2>3. UNCHANGED <<pending, trajectory, pose_inbox>>
    BY <1>1, <1>5 DEF PlanResult
  <2>4. QED
    BY <1>1, <2>1, <2>2, <2>3, CallbackMoves DEF S, Heard
<1>6. CASE DynamicTrajectory
  <2>1. UNCHANGED pose_inbox
    BY <1>6 DEF DynamicTrajectory
  <2>2. QED
    BY <1>1, <1>6, <2>1, DynamicTrajectoryMoves DEF Heard
<1>7. CASE DynamicReplanRequest
  <2>1. Leave(ReplanRequestOutcomes(pose)) /\ UNCHANGED <<pending, trajectory, pose_inbox>>
    BY <1>1, <1>7 DEF DynamicReplanRequest
  <2>2. \A m \in ReplanRequestOutcomes(pose) : Fine(m, S, Owed)
    BY <1>2, ReplanRequestOutcomesGood DEF Fine
  <2>3. QED
    BY <1>1, <2>1, <2>2, CallbackMoves DEF S, Heard
<1>8. CASE TrajectoryResponse
  <2>1. PICK i \in DOMAIN pose.goals :
            Leave(AcceptedOutcomes(pose, i)) \/ Leave(RejectedOutcomes(pose, i))
    BY <1>8 DEF TrajectoryResponse
  <2>2. /\ \A m \in AcceptedOutcomes(pose, i) : Fine(m, S, Owed)
        /\ \A m \in RejectedOutcomes(pose, i) : Fine(m, S, Owed)
    BY <1>2, AcceptedOutcomesGood, RejectedOutcomesGood DEF Fine
  <2>3. UNCHANGED <<pending, trajectory, pose_inbox>>
    BY <1>1, <1>8 DEF TrajectoryResponse
  <2>4. QED
    BY <1>1, <2>1, <2>2, <2>3, CallbackMoves DEF S, Heard
<1>9. CASE TrajectoryResult
  <2>1. PICK i \in DOMAIN pose.goals : Leave(ResultOutcomes(pose, i))
    BY <1>9 DEF TrajectoryResult
  <2>2. \A m \in ResultOutcomes(pose, i) : Fine(m, S, Owed)
    BY <1>2, ResultOutcomesGood DEF Fine
  <2>3. UNCHANGED <<pending, trajectory, pose_inbox>>
    BY <1>1, <1>9 DEF TrajectoryResult
  <2>4. QED
    BY <1>1, <2>1, <2>2, <2>3, CallbackMoves DEF S, Heard
<1>10. CASE RetryTimerFires
  <2>1. Leave(RetryTimer(pose)) /\ UNCHANGED <<pending, trajectory, pose_inbox>>
    BY <1>1, <1>10 DEF RetryTimerFires
  <2>2. \A m \in RetryTimer(pose) : Fine(m, S, Owed)
    BY <1>2, RetryTimerGood DEF Fine
  <2>3. QED
    BY <1>1, <2>1, <2>2, CallbackMoves DEF S, Heard
<1>11. CASE PublishState
  <2> DEFINE outcomes == UNION {IdleAvoidanceTick(n) : n \in RecoveryTick(pose)}
  <2>1. Leave(outcomes) /\ UNCHANGED <<pending, trajectory, pose_inbox>>
    BY <1>1, <1>11 DEF PublishState
  <2>2. \A m \in outcomes : Fine(m, S, Owed)
    BY <1>2, PublishStateFine
  <2> HIDE DEF outcomes
  <2>3. QED
    BY <1>1, <2>1, <2>2, CallbackMoves DEF S, Heard
<1>12. QED
  BY <1>3, <1>4, <1>5, <1>6, <1>7, <1>8, <1>9, <1>10, <1>11 DEF Executor

\* A step of the others.
LEMMA OthersMove ==
    ASSUME PoseInv, UNCHANGED pose, Owed => Owed'
    PROVE  Moves
<1>1. Good(pose, SidesOf(pose.request), Owed')
  BY DEF PoseInv, Good, Traffic, Owes
<1>2. QED
  BY <1>1 DEF PoseInv, Moves, Fine

LEMMA HandMoves ==
    ASSUME PoseInv, Paths, Heard, Hand
    PROVE  Moves /\ Paths' /\ Heard'
<1>1. Heard'
  BY DEF Hand, Spend, Heard, supervisorVars, DynamicCollision
<1>2. CASE DynamicCollision /\ UNCHANGED gateVars
  <2>1. /\ Leave(AddOutcomes(pose)) \/ Leave(RemoveOutcomes(pose))
        /\ UNCHANGED <<pending, trajectory>>
    BY <1>2 DEF DynamicCollision, gateVars
  <2>2. /\ \A m \in AddOutcomes(pose) : Fine(m, SidesOf(pose.request), Owed)
        /\ \A m \in RemoveOutcomes(pose) : Fine(m, SidesOf(pose.request), Owed)
    BY CollisionOutcomesFine DEF PoseInv
  <2>3. QED
    BY <1>1, <2>1, <2>2, CallbackMoves
<1>3. CASE Gate!RequestSpatialReplan /\ UNCHANGED <<pose, pose_inbox>>
  BY <1>1, <1>3 DEF Gate!RequestSpatialReplan, PoseInv, Paths, Owed, Moves, Fine
<1>4. QED
  BY <1>2, <1>3 DEF Hand

\* The gate loses no trajectory but for a newer one.
LEMMA GateMoves ==
    ASSUME PoseInv, Paths, Heard, GateStep
    PROVE  Moves /\ Paths' /\ Heard'
<1>1. UNCHANGED <<pose, pose_inbox, state, budget>>
  BY DEF GateStep, supervisorVars
<1>2. ASSUME NEW safety, NEW held \in Seq(Trajectory), Len(held) <= 1,
             Gate!EmitIfSafe(safety, held)
      PROVE  /\ trajectory' \in Seq(Trajectory) /\ pending' \in Seq(Trajectory) /\ Len(pending') <= 1
             /\ held # <<>> \/ trajectory # <<>> => pending' # <<>> \/ trajectory' # <<>>
  <2>1. trajectory \in Seq(Trajectory)
    BY DEF Paths
  <2>2. /\ trajectory \o held \in Seq(Trajectory)
        /\ trajectory # <<>> \/ held # <<>> => trajectory \o held # <<>>
    BY <1>2, <2>1
  <2>3. <<>> \in Seq(Trajectory) /\ Len(<<>>) = 0
    OBVIOUS
  <2>4. \/ pending' = held /\ trajectory' = trajectory
        \/ held # <<>> /\ pending' = <<>> /\ trajectory' = trajectory \o held
    BY <1>2 DEF Gate!EmitIfSafe
  <2>5. CASE pending' = held /\ trajectory' = trajectory
    BY <1>2, <2>1, <2>5
  <2>6. CASE held # <<>> /\ pending' = <<>> /\ trajectory' = trajectory \o held
    <3>1. trajectory' # <<>> /\ trajectory' \in Seq(Trajectory)
      BY <2>2, <2>6
    <3>2. QED
      BY <2>3, <2>6, <3>1
  <2>7. QED
    BY <2>4, <2>5, <2>6
<1>3. CASE Gate!GateSafety
  <2>1. Gate!EmitIfSafe(Head(gate_inbox), pending) \/ UNCHANGED <<pending, trajectory>>
    BY <1>3 DEF Gate!GateSafety
  <2>2. UNCHANGED input
    BY <1>3 DEF Gate!GateSafety
  <2>3. Paths' /\ (Owed => Owed')
    BY <1>2, <2>1, <2>2 DEF Paths, Owed
  <2>4. QED
    BY <1>1, <2>3, OthersMove DEF Heard
<1>4. CASE Gate!NominalTrajectory
  <2>1. /\ Gate!EmitIfSafe(gate_state, <<Head(input)>>)
        /\ input # <<>> /\ input' = Tail(input)
    BY <1>4 DEF Gate!NominalTrajectory
  <2>2. Head(input) \in Trajectory /\ Tail(input) \in Seq(Trajectory)
    BY <2>1, HeadOfInbox DEF Paths
  <2>3. /\ <<Head(input)>> \in Seq(Trajectory) /\ Len(<<Head(input)>>) <= 1
        /\ <<Head(input)>> # <<>>
    BY <2>2
  <2>4. Paths' /\ Owed'
    BY <1>2, <2>1, <2>2, <2>3 DEF Paths, Owed
  <2>5. QED
    BY <1>1, <2>4, OthersMove DEF Heard
<1>5. CASE Gate!ActivityEnds
  <2>1. UNCHANGED <<pending, input, trajectory>>
    BY <1>5 DEF Gate!ActivityEnds
  <2>2. Paths' /\ (Owed => Owed')
    BY <2>1 DEF Paths, Owed
  <2>3. QED
    BY <1>1, <2>2, OthersMove DEF Heard
<1>6. QED
  BY <1>3, <1>4, <1>5 DEF GateStep

LEMMA SupervisorMoves ==
    ASSUME PoseInv, Paths, Heard, Supervisor
    PROVE  Moves /\ Paths' /\ Heard'
<1>1. UNCHANGED <<pose, input, trajectory, pending>>
  BY DEF Supervisor
<1>2. state' \in Contract!States
  BY DEF Supervisor, Heard, Contract!Next, Contract!Step, Contract!States, Contract!Hold,
         Contract!Latch, Contract!Slow, Contract!Advance, Contract!Successor, Contract!Stop,
         Contract!Resume, Contract!Reset, Contract!Restart
<1>3. pose_inbox' \in Seq(Contract!States)
  BY <1>2 DEF Supervisor, Heard
<1>4. budget' \in [commands : Nat, changes : Nat, hand : Nat]
  BY DEF Supervisor, Spend, Heard
<1>5. Paths' /\ (Owed => Owed')
  BY <1>1 DEF Paths, Owed
<1>6. QED
  BY <1>1, <1>2, <1>3, <1>4, <1>5, OthersMove DEF Heard

LEMMA ControllerMoves ==
    ASSUME PoseInv, Paths, Heard, ControllerStep
    PROVE  Moves /\ Paths' /\ Heard'
<1>1. UNCHANGED <<pose_inbox, input, trajectory, pending, state, budget>>
  BY DEF ControllerStep, ControllerAccepts, supervisorVars, gateVars
<1>2. PICK i \in DOMAIN pose.goals : pose' = [pose EXCEPT !.goals = Supersede(@, i)]
  BY DEF ControllerStep, ControllerAccepts
<1>3. Good(pose', SidesOf(pose.request), Owed)
  BY <1>2, SupersedeGood DEF PoseInv
<1>4. pose'.publish = <<>>
  BY <1>2 DEF PoseInv, Good, Arranged, Fields
<1>5. Paths' /\ Heard' /\ (Owed => Owed')
  BY <1>1 DEF Paths, Heard, Owed
<1>6. Good(pose', SidesOf(pose.request), Owed')
  BY <1>3, <1>5 DEF Good, Traffic, Owes
<1>7. QED
  BY <1>4, <1>5, <1>6 DEF Moves, Fine

LEMMA SystemMoves == SystemInv /\ [Next]_vars => Moves /\ Paths' /\ Heard'
<1> SUFFICES ASSUME SystemInv, [Next]_vars PROVE Moves /\ Paths' /\ Heard'
  OBVIOUS
<1>1. PoseInv /\ Paths /\ Heard
  BY DEF SystemInv
<1>2. CASE UNCHANGED vars
  <2>1. UNCHANGED <<pose, pose_inbox, input, trajectory, pending, state, budget>>
    BY <1>2 DEF vars, poseVars, supervisorVars, gateVars
  <2>2. Paths' /\ Heard' /\ (Owed => Owed')
    BY <1>1, <2>1 DEF Paths, Heard, Owed
  <2>3. QED
    BY <1>1, <2>1, <2>2, OthersMove
<1>3. QED
  BY <1>1, <1>2, SupervisorMoves, OperatorMoves, HandMoves, ExecutorMoves, GateMoves,
     ControllerMoves DEF Next

LEMMA SystemStep == SystemInv /\ [Next]_vars => SystemInv'
<1> SUFFICES ASSUME SystemInv, [Next]_vars PROVE SystemInv'
  OBVIOUS
<1>1. Moves /\ Paths' /\ Heard'
  BY SystemMoves
<1>2. Good(pose', SidesOf(pose'.request), Owed')
  BY <1>1, FineOwn DEF Moves
<1>3. QED
  BY <1>1, <1>2 DEF SystemInv, PoseInv, Moves

LEMMA SystemInit == Init => SystemInv
<1> SUFFICES ASSUME Init PROVE SystemInv
  OBVIOUS
<1>1. PICK seen \in BOOLEAN : pose = [InitialNode EXCEPT !.obstacle = seen]
  BY DEF Init, PoseInit
<1>2. /\ DOMAIN pose = Fields /\ pose.request = "" /\ pose.step = NoStep
      /\ pose.sequence = <<>> /\ pose.side = "left" /\ pose.retry_timer = NoStep
      /\ pose.held = {} /\ pose.failed = {} /\ pose.evading = {}
  BY <1>1 DEF InitialNode, Fields
<1>3. /\ pose.safety = "SAFE" /\ pose.busy = FALSE /\ pose.plans = <<>> /\ pose.goals = <<>>
      /\ pose.publish = <<>>
  BY <1>1 DEF InitialNode
<1>4. "left" \in Side /\ "" \in Requests /\ "" \notin TargetRequests
  BY PoseGoalAssumption DEF Side, Requests, TargetRequests
<1>5. /\ <<>> \in Seq(TrueSteps) /\ <<>> \in Seq(Plans) /\ <<>> \in Seq(Goal)
      /\ <<>> \in Seq(Trajectory) /\ DOMAIN <<>> = {} /\ Len(<<>>) = 0
      /\ <<>> \in Seq(Contract!States)
  OBVIOUS
<1>6. Traffic(pose, Owed)
  BY <1>3, <1>5 DEF Traffic, Owes, Contract!States
<1>7. Fitting(pose.sequence, "")
  BY <1>2, <1>5 DEF Fitting, HasNoRoute
<1>8. SidesOf("") = {}
  BY <1>4, SidesOfAreArms
<1>9. Good(pose, {}, Owed)
  BY <1>2, <1>4, <1>6, <1>7, NoStepIsNone, FreshQueue DEF Fitting
<1>10. Paths
  BY <1>5 DEF Init, PoseInit, Gate!GateInit, Paths
<1>11. Heard
  BY <1>5, BoundAssumption DEF Init, PoseInit, Contract!Init, Contract!States, Heard
<1>12. QED
  BY <1>2, <1>3, <1>8, <1>9, <1>10, <1>11 DEF SystemInv, PoseInv

LEMMA SystemAlways == Spec => []SystemInv
BY SystemInit, SystemStep, PTL DEF Spec

\* Type correctness of the executor, of the supervisor's announcements on their
\* way and of the gate, which holds at most one trajectory.
THEOREM MotionTypeCorrect == Spec => []TypeOK
<1>1. SystemInv => TypeOK
  <2> SUFFICES ASSUME SystemInv PROVE TypeOK
    OBVIOUS
  <2>1. pose.sequence \in Seq(Steps)
    <3>1. pose.sequence \in Seq(TrueSteps)
      BY DEF SystemInv, PoseInv, Good, Arranged
    <3>2. TrueSteps \subseteq Steps
      BY DEF TrueSteps, Steps
    <3>3. QED
      BY <3>1, <3>2
  <2>2. QED
    BY <2>1 DEF SystemInv, PoseInv, Good, Arranged, Traffic, Paths, TypeOK
<1>2. QED
  BY <1>1, SystemAlways, PTL

\* _plan_route_waypoint never finds its guide points gone: guide steps are queued
\* with their points, in front, and whatever throws the points away (an evasion, a
\* refresh, a new request, waiting for a clear path) takes the guide steps along.
THEOREM RoutesHaveWaypoints == Spec => []RouteHasWaypoints
<1>1. SystemInv => RouteHasWaypoints
  BY DEF SystemInv, PoseInv, Good, Routed, IsRoute, RouteHasWaypoints
<1>2. QED
  BY <1>1, SystemAlways, PTL

\* No marker of a request is forgotten by a route, an evasion, a retry or a
\* failure: each arm holds it, was given up visibly, or has its target step ahead.
THEOREM TargetsAreAccounted == Spec => []TargetsAccounted
<1>1. SystemInv => TargetsAccounted
  <2> SUFFICES ASSUME SystemInv, NEW s \in SidesOf(pose.request)
               PROVE  \/ s \in pose.held \union pose.failed
                      \/ \E step \in Queue(pose) : step.side = s /\ step.kind \in TargetKinds
    BY DEF TargetsAccounted
  <2>1. pose.request \in TargetRequests
    BY SidesOfAreArms
  <2>2. Settled(pose, s) \/ Ahead(pose.sequence, s) \/ IsTarget(pose.step, s)
    BY <2>1 DEF SystemInv, PoseInv, Good, Accounts
  <2>3. QED
    BY <2>2 DEF Settled, Ahead, IsTarget, Queue, ToSet
<1>2. QED
  BY <1>1, SystemAlways, PTL

\* In the runs the operator does not switch the dynamic layer off and on again; then
\* a busy executor is always owed an answer, through every cancel, supersession,
\* refusal and late result.
THEOREM AnswersAreOwed == "dynamic" \notin Commands => (Spec => []AnswerOwed)
<1> SUFFICES ASSUME "dynamic" \notin Commands PROVE Spec => []AnswerOwed
  OBVIOUS
<1>1. SystemInv => AnswerOwed
  BY DEF SystemInv, PoseInv, Good, Traffic, Owes, Owed, AnswerOwed
<1>2. QED
  BY <1>1, SystemAlways, PTL

\* A marker request that ends by itself ends visibly, and the idle evasion that may
\* begin in the same callback does not wipe the failures before they are shown.
THEOREM RequestsEndVisibly == Spec => EndsVisibly
<1> DEFINE Visibly == pose.request \in TargetRequests /\ pose'.request = ""
                          /\ budget'.commands = budget.commands
                      => SidesOf(pose.request) \subseteq pose'.held \union pose'.failed
<1>1. SystemInv /\ [Next]_vars => [Visibly]_vars
  <2> SUFFICES ASSUME SystemInv, [Next]_vars, pose.request \in TargetRequests,
                      pose'.request = "", budget'.commands = budget.commands
               PROVE  SidesOf(pose.request) \subseteq pose'.held \union pose'.failed
    OBVIOUS
  <2>1. Fine(pose', SidesOf(pose.request), Owed')
    BY SystemMoves DEF Moves
  <2>2. Accounts(pose', SidesOf(pose.request))
    BY <2>1 DEF Fine, Good
  <2>3. QED
    BY <2>2 DEF Accounts, Settled
<1>2. QED
  BY <1>1, SystemAlways, PTL DEF Spec, EndsVisibly
=============================================================================

------------------------------ MODULE SortingTask ------------------------------
(***************************************************************************)
(* The node that sorts the cubes (openarm_sorting_task/node.py with        *)
(* openarm_sim/state_machine.py and grasp.py) and the servers it calls.    *)
(* An exception that no callback catches ends the node.  Poses and         *)
(* trajectories are left out; the backoff after a failure is over when     *)
(* the next tick counts.                                                   *)
(***************************************************************************)
EXTENDS Integers, Sequences, SequencesExt

CONSTANTS
    NumCubes,       \* the cubes are numbered from 0
    Attempts,       \* grasp.physical_attempts
    MaxReplans,     \* maximum_replan_attempts
    GraspModes,     \* the grasp modes the node may be started with
    PlannerModes,   \* and the planner modes
    MaxEvents       \* bound on commands, failures and changes of the safety state

VARIABLES
    task,       \* machine.task_state
    safety,     \* machine.safety_state
    job,        \* the cube, the flags and the counters of the node
    busy,
    calls,      \* what was asked of a server and not answered to the end
    scene,      \* the cubes of the planning scene: in the world and attached
    bridge,     \* the state the safety bridge publishes
    dead,       \* ghost: an exception has ended the node
    stale,      \* ghost: a reset has left calls behind
    events

vars == <<task, safety, job, busy, calls, scene, bridge, dead, stale, events>>
Cubes == 0 .. (NumCubes - 1)
Sequence == <<"HOME", "SELECT_OBJECT", "PRE_GRASP", "GRASP", "LIFT", "TRANSIT",
              "PLACE", "RETREAT", "NEXT_OBJECT", "DONE">>
Blocked(state) == state \in {"PAUSE", "EMERGENCY_STOP"}

\* The cubes as the planning scene has them.
WorldCubes == [world |-> Cubes, attached |-> {}]
RemoveWorldCube == [scene EXCEPT !.world = @ \ {job.cube}]
AttachCube == [scene EXCEPT !.attached = @ \cup {job.cube}]
DetachCube == [scene EXCEPT !.attached = @ \ {job.cube}]
AddPlacedCube == [scene EXCEPT !.world = @ \cup {job.cube}]

Init ==
    /\ task = "HOME" /\ safety = "SAFE"
    /\ \E g \in GraspModes, p \in PlannerModes :
           job = [cube |-> 0, selected |-> FALSE, home |-> FALSE, started |-> TRUE,
                  failures |-> 0, fatal |-> FALSE, attempt |-> 0, assist |-> FALSE,
                  grasp |-> g, planner |-> p]
    /\ busy = FALSE /\ calls = <<>> /\ scene = WorldCubes
    /\ bridge = "SAFE" /\ dead = FALSE /\ stale = FALSE /\ events = 0

Spend == events < MaxEvents /\ events' = events + 1
Free == UNCHANGED events

-----------------------------------------------------------------------------
\* TaskStateMachine.advance and set_safety raise rather than leave a stop.
Following(state) ==
    IF state = "DONE" THEN state
    ELSE Sequence[1 + CHOOSE i \in 1 .. 9 : Sequence[i] = state]

Advance ==
    IF Blocked(safety) THEN dead' = TRUE /\ UNCHANGED task
    ELSE task' = Following(task) /\ UNCHANGED dead

SetSafety(state) ==
    IF safety = "EMERGENCY_STOP" /\ state = "SAFE" THEN dead' = TRUE /\ UNCHANGED safety
    ELSE safety' = state /\ UNCHANGED dead

\* A call leaves: its server is there, or the call is not made.
Call(kind, others) ==
    calls' = Append(others, [kind |-> kind, stage |-> "sent", held |-> FALSE, canceled |-> FALSE])

Without(i) == RemoveAt(calls, i)

\* The handle of a kind is forgotten with every result of that kind.
Unheld(sequence, kind) ==
    [j \in DOMAIN sequence |->
        IF sequence[j].kind = kind THEN [sequence[j] EXCEPT !.held = FALSE] ELSE sequence[j]]

CanceledHandles ==
    [j \in DOMAIN calls |->
        IF calls[j].held THEN [calls[j] EXCEPT !.canceled = TRUE] ELSE calls[j]]

\* _record_planning_failure
RecordFailure ==
    /\ job' = [job EXCEPT !.failures = @ + 1, !.fatal = (job.failures + 1 >= MaxReplans)]
    /\ SetSafety("REPLAN")

-----------------------------------------------------------------------------
Ready == ~dead /\ job.started /\ ~busy /\ ~job.fatal /\ safety = "SAFE"

\* _tick: a motion of the state is planned; before the grasp its cube leaves
\* the world.
SendMotion ==
    /\ Ready /\ task \notin {"SELECT_OBJECT", "NEXT_OBJECT", "DONE"}
    /\ scene' = IF task = "GRASP" THEN RemoveWorldCube ELSE scene
    /\ \/ Free /\ busy' = TRUE /\ Call("plan", calls)
       \/ Spend /\ UNCHANGED <<busy, calls>>
    /\ UNCHANGED <<task, safety, job, bridge, dead, stale>>

Select ==
    /\ Ready /\ task = "SELECT_OBJECT" /\ Free
    /\ task' = IF job.cube \in Cubes THEN "PRE_GRASP" ELSE "DONE"
    /\ UNCHANGED <<safety, job, busy, calls, scene, bridge, dead, stale>>

NextObject ==
    /\ Ready /\ task = "NEXT_OBJECT" /\ Free
    /\ IF job.selected
       THEN task' = "DONE" /\ job' = [job EXCEPT !.started = FALSE]
       ELSE /\ job' = [job EXCEPT !.cube = @ + 1]
            /\ task' = IF job.cube + 1 >= NumCubes THEN "DONE" ELSE "SELECT_OBJECT"
    /\ UNCHANGED <<safety, busy, calls, scene, bridge, dead, stale>>

\* _start_grasp_attempt and _command_gripper
Gripper(kind, others) ==
    \/ Free /\ busy' = TRUE /\ Call(kind, others)
    \/ Spend /\ busy' = FALSE /\ calls' = others

\* _motion_complete, after a success of the call with index i
MotionComplete(others) ==
    /\ UNCHANGED <<safety, bridge, stale>>
    /\ \/ /\ task = "HOME" /\ job.home /\ Free /\ busy' = FALSE /\ calls' = others
          /\ job' = [job EXCEPT !.home = FALSE, !.started = FALSE, !.failures = 0]
          /\ UNCHANGED <<task, scene, dead>>
       \/ /\ task = "GRASP" /\ Gripper("close", others)
          /\ job' = [job EXCEPT !.attempt = 1, !.failures = 0]
          /\ UNCHANGED <<task, scene, dead>>
       \/ /\ task = "PLACE" /\ Gripper("open", others)
          /\ job' = [job EXCEPT !.failures = 0] /\ UNCHANGED <<task, scene, dead>>
       \/ /\ task \notin {"GRASP", "PLACE"} /\ ~(task = "HOME" /\ job.home)
          /\ Free /\ busy' = FALSE /\ calls' = others
          /\ job' = [job EXCEPT !.failures = 0]
          /\ scene' = IF task = "RETREAT" /\ job.cube \in Cubes
                      THEN AddPlacedCube ELSE scene
          /\ Advance

\* _execute_trajectory, with a trajectory that has points
Execute(others) ==
    \/ Free /\ UNCHANGED busy /\ Call("motion", others)
    \/ Spend /\ busy' = FALSE /\ calls' = others

\* _send_trajectory; what goes to the gate is not looked at, an empty one for
\* the controller is refused.
SendTrajectory(others) ==
    \/ /\ job.planner = "dynamic" /\ Free /\ Call("path", others)
       /\ UNCHANGED <<busy, safety, dead>>
    \/ job.planner # "dynamic" /\ Execute(others) /\ UNCHANGED <<safety, dead>>
    \/ /\ job.planner # "dynamic" /\ Spend /\ busy' = FALSE /\ calls' = others
       /\ SetSafety("REPLAN")

\* A seeded fault: a plan that comes during a pause is dropped without a word.
PlanComesSilently(i) ==
    LET others == Unheld(Without(i), "plan") IN
    IF Blocked(safety) THEN calls' = others /\ Free /\ UNCHANGED <<busy, safety, dead>>
    ELSE SendTrajectory(others)

\* _move_result with a plan: nothing is sent during a pause.
PlanComes(i) ==
    LET others == Unheld(Without(i), "plan") IN
    IF Blocked(safety) THEN calls' = others /\ Free /\ busy' = FALSE /\ UNCHANGED <<safety, dead>>
    ELSE SendTrajectory(others)

\* _move_goal_response and _trajectory_goal_response
Answered(i) ==
    /\ calls[i].stage = "sent" /\ calls[i].kind \in {"plan", "motion"}
    /\ UNCHANGED <<task, scene, bridge, stale>>
    /\ \/ /\ Free /\ UNCHANGED <<safety, job, busy, dead>>
          /\ calls' = [Unheld(calls, calls[i].kind) EXCEPT ![i].stage = "running", ![i].held = TRUE]
       \/ /\ Spend /\ busy' = FALSE /\ calls' = Without(i)
          /\ IF calls[i].kind = "plan" THEN RecordFailure ELSE SetSafety("REPLAN") /\ UNCHANGED job

\* _move_result
PlanResult(i) ==
    /\ calls[i].kind = "plan" /\ calls[i].stage = "running"
    /\ UNCHANGED <<task, scene, bridge, stale>>
    /\ \/ PlanComes(i) /\ UNCHANGED job
       \/ /\ IF calls[i].canceled THEN Free ELSE Spend
          /\ busy' = FALSE /\ calls' = Unheld(Without(i), "plan") /\ RecordFailure

\* _dynamic_trajectory with what the gate lets through, and the gate, which
\* drops an empty trajectory without a word: nothing answers the node then.
PathComes(i) ==
    /\ calls[i].kind = "path" /\ calls[i].stage = "sent"
    /\ UNCHANGED <<task, safety, job, scene, bridge, dead, stale>>
    /\ \/ busy /\ job.planner = "dynamic" /\ Execute(Without(i))
       \/ ~(busy /\ job.planner = "dynamic") /\ Free /\ UNCHANGED busy /\ calls' = Without(i)
       \/ Spend /\ UNCHANGED busy /\ calls' = [calls EXCEPT ![i].stage = "dropped"]

\* _trajectory_result
MotionResult(i) ==
    /\ calls[i].kind = "motion" /\ calls[i].stage = "running"
    /\ \/ MotionComplete(Unheld(Without(i), "motion"))
       \/ /\ IF calls[i].canceled THEN Free ELSE Spend
          /\ busy' = FALSE /\ calls' = Unheld(Without(i), "motion")
          /\ UNCHANGED <<task, scene, bridge, stale>>
          /\ IF Blocked(safety) THEN UNCHANGED <<safety, job, dead>> ELSE RecordFailure

-----------------------------------------------------------------------------
\* _complete_grasp
CompleteGrasp(assist, others) ==
    /\ Free /\ busy' = FALSE /\ calls' = others /\ UNCHANGED safety
    /\ scene' = AttachCube
    /\ job' = [job EXCEPT !.assist = assist] /\ Advance

\* The decision of grasp_decision, which raises without an attempt.
ClosedGripper(others) ==
    IF job.attempt < 1
    THEN /\ dead' = TRUE /\ Free /\ busy' = FALSE /\ calls' = others
         /\ UNCHANGED <<task, safety, job, scene>>
    ELSE \/ job.grasp = "magnetic" /\ CompleteGrasp(TRUE, others)
         \/ job.grasp # "magnetic" /\ CompleteGrasp(FALSE, others)
         \/ /\ job.grasp # "magnetic" /\ job.attempt < Attempts
            /\ Gripper("reopen", others) /\ UNCHANGED <<task, safety, job, scene, dead>>
         \/ job.grasp = "auto" /\ job.attempt >= Attempts /\ CompleteGrasp(TRUE, others)
         \/ /\ job.grasp = "physical" /\ job.attempt >= Attempts
            /\ Free /\ busy' = FALSE /\ calls' = others
            /\ job' = [job EXCEPT !.fatal = TRUE] /\ SetSafety("REPLAN") /\ UNCHANGED <<task, scene>>

\* A seeded fault: the gripper that was opened to try again counts as opened
\* over the bin.
GripperResultPlacing(i) ==
    LET others == Without(i) IN
    /\ calls[i].kind \in {"close", "open", "reopen"} /\ UNCHANGED <<bridge, stale>>
    /\ \/ calls[i].kind = "close" /\ ClosedGripper(others)
       \/ /\ calls[i].kind \in {"open", "reopen"} /\ Free /\ busy' = FALSE /\ calls' = others
          /\ scene' = DetachCube
          /\ job' = [job EXCEPT !.assist = FALSE] /\ UNCHANGED safety /\ Advance
       \/ /\ Spend /\ busy' = FALSE /\ calls' = others
          /\ SetSafety("EMERGENCY_STOP") /\ UNCHANGED <<task, job, scene>>

\* _gripper_goal_response and _gripper_result; the handle is not kept.
GripperResult(i) ==
    LET others == Without(i) IN
    /\ calls[i].kind \in {"close", "open", "reopen"} /\ UNCHANGED <<bridge, stale>>
    /\ \/ /\ job.cube \notin Cubes /\ Free /\ busy' = FALSE /\ calls' = others
          /\ UNCHANGED <<task, safety, job, scene, dead>>
       \/ job.cube \in Cubes /\ calls[i].kind = "close" /\ ClosedGripper(others)
       \/ /\ job.cube \in Cubes /\ calls[i].kind = "reopen" /\ Gripper("close", others)
          /\ job' = [job EXCEPT !.attempt = @ + 1] /\ UNCHANGED <<task, safety, scene, dead>>
       \/ /\ job.cube \in Cubes /\ calls[i].kind = "open" /\ Free /\ busy' = FALSE /\ calls' = others
          /\ scene' = DetachCube
          /\ job' = [job EXCEPT !.assist = FALSE] /\ UNCHANGED safety /\ Advance
       \/ /\ Spend /\ busy' = FALSE /\ calls' = others
          /\ SetSafety("EMERGENCY_STOP") /\ UNCHANGED <<task, job, scene>>

Answer ==
    /\ ~dead
    /\ \E i \in DOMAIN calls :
           Answered(i) \/ PlanResult(i) \/ PathComes(i) \/ MotionResult(i) \/ GripperResult(i)

-----------------------------------------------------------------------------
\* _on_safety; RECOVER takes the machine to SAFE, also from EMERGENCY_STOP.
OnSafety(state) ==
    /\ ~dead /\ bridge' = state
    /\ calls' = IF Blocked(state) THEN CanceledHandles ELSE calls
    /\ IF state = "RECOVER" THEN safety' = "SAFE" /\ UNCHANGED dead ELSE SetSafety(state)
    /\ UNCHANGED <<task, job, busy, scene, stale>>

\* The bridge publishes its state again, gets worse, or gets better, step by step.
SafetyAgain == Free /\ OnSafety(bridge)
SafetyWorse ==
    /\ Spend
    /\ \E state \in {"PAUSE", "EMERGENCY_STOP"} \ {bridge} : OnSafety(state)
SafetyBetter ==
    \/ Free /\ Blocked(bridge) /\ OnSafety("REPLAN")
    \/ Free /\ bridge = "REPLAN" /\ OnSafety("RECOVER")
    \/ Free /\ bridge = "RECOVER" /\ OnSafety("SAFE")

\* _on_command
Renewed == /\ task' = "HOME" /\ safety' = "SAFE"

Start ==
    /\ job' = [job EXCEPT !.selected = FALSE, !.home = FALSE, !.started = TRUE]
    /\ UNCHANGED <<task, safety, busy, calls, stale>>
Pick(cube) ==
    /\ ~busy /\ Renewed /\ UNCHANGED <<busy, calls, stale>>
    /\ job' = [job EXCEPT !.cube = cube, !.selected = TRUE, !.home = FALSE, !.failures = 0,
                          !.fatal = FALSE, !.attempt = 0, !.assist = FALSE, !.started = TRUE]
Home ==
    /\ ~busy /\ Renewed /\ UNCHANGED <<busy, calls, stale>>
    /\ job' = [job EXCEPT !.selected = FALSE, !.home = TRUE, !.failures = 0,
                          !.fatal = FALSE, !.started = TRUE]
PauseTask == safety' = "PAUSE" /\ UNCHANGED <<task, job, busy, calls, stale>>
ResumeTask == safety' = "SAFE" /\ UNCHANGED <<task, job, busy, calls, stale>>
Reset ==
    /\ Renewed /\ calls' = CanceledHandles /\ busy' = FALSE
    /\ job' = [job EXCEPT !.cube = 0, !.selected = FALSE, !.home = FALSE, !.failures = 0,
                          !.fatal = FALSE, !.attempt = 0, !.assist = FALSE, !.started = FALSE]
    /\ stale' = (stale \/ calls # <<>>)
ChangeModes ==
    /\ ~busy /\ UNCHANGED <<task, safety, busy, calls, stale>>
    /\ \/ \E p \in PlannerModes : job' = [job EXCEPT !.planner = p]
       \/ ~job.started /\ \E g \in GraspModes : job' = [job EXCEPT !.grasp = g]

OnCommand ==
    /\ ~dead /\ Spend /\ UNCHANGED <<scene, bridge, dead>>
    /\ \/ Start \/ Home \/ PauseTask \/ ResumeTask \/ Reset \/ ChangeModes
       \/ \E cube \in Cubes : Pick(cube)

Next ==
    \/ SendMotion \/ Select \/ NextObject \/ Answer
    \/ SafetyAgain \/ SafetyWorse \/ SafetyBetter \/ OnCommand

\* The timer ticks, the servers and the gate answer, and the bridge goes on
\* publishing; that it ever gets better is not assumed.
TaskFairness ==
    /\ WF_vars(SendMotion) /\ WF_vars(Select) /\ WF_vars(NextObject) /\ WF_vars(Answer)
    /\ WF_vars(SafetyAgain)

TaskSpec == Init /\ [][Next]_vars /\ TaskFairness

-----------------------------------------------------------------------------
\* Until a reset abandons a call, the node waits for exactly one call while it
\* is busy and for none otherwise, so that no answer is taken for another
\* motion's, and the gripper opens over the bin only while the planning scene
\* has the cube in the hand.
OneCallAtATime ==
    ~stale => /\ Len(calls) = (IF busy THEN 1 ELSE 0)
              /\ \A i \in DOMAIN calls :
                     calls[i].kind = "open" => job.cube \in scene.attached

\* A started task does not hang: whatever fails, pauses or is cancelled on the
\* way, it is done, it has given up, it was stopped by a command, an exception
\* has ended the node or the bridge keeps it stopped.  The code leaves one more
\* way to hang: an empty plan that the gate drops keeps the node busy for ever.
Lost == \E i \in DOMAIN calls : calls[i].stage = "dropped"
Ended ==
    \/ task = "DONE" \/ job.fatal \/ ~job.started \/ dead \/ stale
    \/ Blocked(bridge) \/ bridge = "REPLAN" \/ Lost

TaskSettles == <>[]Ended

=============================================================================

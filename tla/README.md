# Verification of social-safety-decision

TLA+ models, model-checking runs and machine-checked proofs for the control
logic of this repository: the safety supervisor of the OpenArm manipulator, the
nodes that move the arm under it, the perception pipeline and its switches, the
tracked-obstacle node with its remote control, and the nodes of the simulators.
Paths below are relative to the repository; `sorting_task/`, `safety_bridge/`,
`dynamic_avoidance/`, `isaac_bridge/`, `sim_bringup/`, `perception_adapter/`
stand for the Python packages under `openarm_isaac_sim_test/ros2_ws/src/`.

## 1. The system

A camera sees a table with two robot arms and people's hands. Perception
(`realtime_safety/`) turns frames into obstacle clouds; the control side
(`openarm_isaac_sim_test/`) slows, pauses, diverts or stops the arms.

```
 camera -> tracker node / scheduler -> obstacle mux -> perception cloud
                                                          |
 hand (simulator) ----------- distance ----------> safety supervisor
                                                  |  state   | hand body
             operator --commands-->  goal executor <---------+
                                      |  ^   |  ^            |
                     nominal paths    v  |   v  | answers    v
                              dynamic gate   MoveIt, controllers
```

### Components, their state and their operations

| component | state | operations | what is hard | what makes it correct |
|---|---|---|---|---|
| safety supervisor (`safety_bridge/policy.py`, `node.py`) | state, latch, contact and clear timers, grace, last observation; obstacle body in the planning scene | distance and cloud callbacks, watchdog timer, operator commands, reset service, source switch | callbacks racing a timer, silence, restarts, messages lost before discovery | a latched stop is never announced as motion; silence stops; the scene matches what is seen; states follow the contract |
| goal executor (`sorting_task/pose_goal.py`) | request, queue of steps, current step, busy, retry counters, waypoints, saved posture, generation, handles | operator commands, safety state, distance, hand, plan and trajectory answers, gate messages, timers | answers of older requests, several goals and one handle, evading in the middle of a route, partial failure | nothing moves after a known stop; no marker is forgotten; requests end visibly; busy implies an answer is owed |
| dynamic gate (`dynamic_avoidance/node.py`) | known safety state, held trajectory, active window | safety state, nominal trajectory, obstacle motion | hears of the supervisor later or earlier than the executor | holds the newest path only, releases it when motion is allowed |
| MoveIt, trajectory controllers | goals | accept, reject, supersede, answer | answers in any order | external |
| Isaac action servers (`isaac_bridge/control.py`) | active trajectory and gripper, pause flag, attached cube | simulation step, action threads, safety state, attach and detach | two threads and a lock, state read outside it, all threads taken by goals | every goal is answered, none falsely; a cube is let go by its own detach |
| Gazebo gateway (`sim_bringup/gazebo_openarm_gateway.py`) | home to resume, pending results, handles | home, pause, resume, reset, stop, answers | results of a cancelled home | a stopped home does not come back |
| Gazebo hand, planning scene, camera (`sim_bringup/`) | target and path; mirrored poses and source; pose history | ticks, edits, model states, commands | reports out of step with moves, low-rate poses for high-rate clouds | all end at what the simulator shows |
| perception adapter, resampler (`perception_adapter/`) | bundles by stamp; mask, buffers | images, clouds, results | late, early and lost messages | a cloud is of its time |
| sorting task node (`sorting_task/node.py`) | task and safety state, calls, planning scene | tick, commands, answers, safety | cancel, retry, failure in the middle | it does not hang; one call at a time |
| EdgeTAM control (`ros2_bridge/edgetam_control.py`) | requested and active mode, pending and inflight request, generation | request, dispatch, poll, answer, diagnostics | timeouts racing late answers, two dispatching threads | the reported mode is the node's |
| tracked-obstacle node (`edgetam_tracker/`) | enable switch, loader, model, contexts, generations, queue of bundles | enable and disable, load, submit, poll, publish, stale check | loader thread, results of an older generation | masks of an old context are never used; loading ends |
| hand tracks, background, synchroniser (`edgetam_tracker/`) | track ids, hits, holds; baseline and depth factors; pending and processed stamps | frame, mask, calibration, clock reset; raw, synchronised, flush | holds renewed by holds, fallback then late synchronisation | outputs are earned; stale corrections are short; only a restart of the clock resets |
| pipeline (`realtime_safety/scheduler.py`, `pipeline/video_source.py`, `frame_queue.py`) | queues, perceptions, cloud, epoch, playback | capture, fast, reconstruction and safety threads, commands | threads over shared state, resets between two lock sections, end of input | the end is announced when all is done; old geometry goes |
| model and method switches (`scheduler.py`, `mast3r_slam_adapter.py`) | requested and active name, generation, backend, process | request, load, swap, fail, close | requests while loading, time-outs and late answers | no backend leaks or is used closed; the newest request gets through |
| people branch, safety decision (`scheduler.py`, `safety_decision.py`, `tracker_3d.py`) | tracks, holds, latched level | update, switch, reset | holds over misses, counters in both directions | no flashing, STOP is released late |
| obstacle source (`obstacle_cloud_mux.py`, `edge_relationship.py`, `gui/dashboard.py`, `app.py`) | requested, active and pending source; panel and held line | request, first cloud, roll-back, announcement | four threads write one panel, announcements out of order | the switch completes; the source that was left does not speak |
| metric scene, arm placement (`gui/reconstruction_scene.py`, `openarm_scene.py`) | plane, tag anchor, joints | frame, recalibration, reset, joint state | drawing races the GUI | an anchor is of its plane and stays |
| ROS publishers, RGB-D bridge (`ros2_bridge/`) | shared runtime, newest message, mailbox | start, stop, give, send, repeat | owners come and go, slow drawing | the newest gets through; repeated data keep their age |
| neural networks, geometry, export, evaluation scripts | - | - | numeric or display | not modelled |

PROJECT.json lists each of them with its sources, and every hazard with its
line.

## 2. Modules

| module | stands for |
|---|---|
| `SafetyPolicy` | `SafetyPolicy` in `policy.py`, as an operator for each method; clocks are ages in ticks, each capped one past the largest duration it is compared with |
| `SafetyBridge` | the node around it: obstacle sources, watchdog, planning scene, commands, restart |
| `SafetyContract` | the abstract supervisor: which state may follow which, without time or distance |
| `SafetyBridge_proofs` | theorems about `SafetyBridge` |
| `PoseGoalMethods` | the methods of `OpenArmPoseGoal`; the node's attributes are one record, a method is the set of records it may leave |
| `PoseGoal` | its callbacks, one action each, with the messages on their way |
| `DynamicGate` | the dynamic avoidance node |
| `MotionSystem` | executor, gate, MoveIt and controllers composed with `SafetyContract` |
| `MotionSystem_proofs` | theorems about `MotionSystem` |
| `EdgeTamSwitch` | the abstract refinement: what the tracker's diagnostics say of its switch and its model |
| `EdgeTamTracker` | the tracked-obstacle node and `EdgeTAMWrapper`, one action per section under a lock |
| `EdgeTamTracker_proofs` | theorems about `EdgeTamTracker` |
| `EdgeTamControl` | `EdgeTAMControlBridge` of the dashboard, composed with `EdgeTamSwitch` |
| `EdgeTamControl_proofs` | theorems about `EdgeTamControl` |
| `RealtimePipeline`, `VideoSource` | the scheduler's capture, fast, reconstruction and safety threads with the bounded queues between them, and the source in front |
| `RealtimePipeline_proofs` | theorem about `RealtimePipeline` |
| `SegmentationSwitch`, `ReconstructionSwitch`, `Mast3rSlam` | the two switches of the scheduler and the SLAM process behind its pipe |
| `ObstacleSwitch`, `ObstaclePanel` | the obstacle source from request to relationship, and the panel that shows it |
| `PeopleBranch`, `SafetyBranch` | the people worker with its holds; tracker, level and debounce |
| `ArmPlacement` | plane, tag, joints and the pose told to the controller |
| `RosPublishers`, `RgbdScene` | the shared ROS runtime and what is published on it; the RGB-D display |
| `HandTracks`, `BackgroundFilter`, `SensorSync` | the geometry side of the tracked-obstacle node |
| `IsaacBridge`, `GazeboGateway`, `GazeboHand`, `SceneMirror`, `CameraPlacement` | the simulators' nodes, each with the simulator it follows |
| `MaskAdapter`, `ObstacleResampler`, `SortingTask` | the perception adapter, the resampler, the sorting node |
| `MCMotion`, `MCMotionCases`, `MCPipeline` | instances for TLC |
| `MCPerception`, `MCSimulation` | the components that share no state, one per behaviour, with their constants |
| `Perception_proofs`, `Simulation_proofs` | theorems about those two, a section for each component |

**Correspondence.** A variable or record field has the name of the attribute
it stands for, or the comment beside it gives that name. A callback runs to
its end before the next one starts (each node has one executor thread; the
supervisor's timer and callbacks share it as well), so a callback is one
action, calls included. The executor's methods call one another through
several levels (`_safety` -> `_cancel_motion` -> `_begin_active_crisis_evade`
-> `_start_next_step` -> `_plan_...` -> `_send_plan`), which is why methods
are operators on a record and not actions. They yield sets because geometry is
abstract: which arms are near the hand, whether the straight path crosses it,
whether a transform, a server or the joint states are available, whether a
distance is dangerous, and whether a waiting interval is over are choices.
The numbers of retries are counted exactly up to one past their limit, where
no comparison tells larger values apart.

A generation counter in the code (`_request_generation`) is the field
`current` of a goal in flight and, for plans, membership in `plans`: the code
only ever compares a captured generation with the present one, and the
counter only grows, so "still equal" is all that can be seen of it.

**The messages.** The state of the supervisor reaches the executor and the
gate over two topics, each in order, neither in step with the other
(`pose_inbox`, `gate_inbox`). Paths go from the executor to the gate and back
in order (`input`, `trajectory`). Answers of MoveIt and of the controllers
arrive in any order.

**Composition.** The motion modules see the supervisor through
`SafetyContract`, and `SafetyBridge` is shown (run `safety_bridge`, theorem
`BridgeImplementsContract`) to implement that contract. `MotionSystem` thus
stands for the composition with the real supervisor, without its clocks. The
contract lets a restarted supervisor begin at SAFE from any state, because the
real one does (`Restart`); all else it may do is in `Step`, and
`ImplementsContract` says as well that only a restart of the node uses `Restart`.

In the same way `EdgeTamControl` sees the tracker through `EdgeTamSwitch`, which
`EdgeTamTracker` implements (run `edgetam_tracker`, theorem
`TrackerImplementsSwitch`; `loaded` is whether the node holds a wrapper).

**Threads of the refinement.** The tracker's executor, geometry worker, model
loader and inference worker interleave between sections under
`_edge_context_lock`, `_publication_lock` and the wrapper's `_submit_lock`; a
program counter (`worker.at`, `call`, `loader`) says which section comes next,
with the locals it has read. A cloud, a mask or a context is the frame and the
generation it is of. The age of a context and the quality of a mask are choices.
Stamps count bundles, so that a regression of one is a clock reset; a duplicate
or late bundle is one that is dropped. In the bridge, requests and calls are
records, and the identity tests of the code (`is request`, `is future`) compare
them; deadlines may be over at any time. The timer and the diagnostics callback
share a mutually exclusive callback group of a two-threaded executor, while the
callback of an answer runs as a task on the other thread at the same time. The
service call is made without the lock, so two threads may make it for the same
pending request. A successful answer and the node's work for it are one step,
since the node has one executor thread.

**The pipeline.** `RealtimePipeline` has one program counter for each thread of
the scheduler and one action for each section between two of its locks or
queues. A frame is its number and the epoch (the count of resets) it was
captured in; what a network makes of it is a choice between success and failure.
`PutLatest` is the dropping `put_latest` of its queues, `VideoSource` the
capture with files, cameras and streams.

**Many small machines in one run.** `MCPerception` and `MCSimulation` hold
components that share no state worth composing: `part` says which component a
behaviour is of, the slots `v1`, `v2`, ... hold its variables, and each module
is instantiated with slots for variables. A behaviour never changes `part`, so
the run checks each component by itself, with its own constants; a property of
the run names for each component the definition it stands for. `MCMotionCases`
extends `MotionSystem` with a second instance of it over the same variables; the
properties are those of `MotionSystem`, read in both. The components of a merged
property each have a seeded fault (a definition marked as one, next to the
definition it breaks), and each of those faults makes the run fail; PROJECT.json
lists one for each property.

**Where a component ends.** What a component meets from outside is part of its
module: the simulator that moves models and states them at its own rate, the
servers that refuse, fail or answer late, topics that lose messages or keep the
newest only, the user who asks for something else in the meantime. Messages of
one topic keep their order, those of two topics do not.

## 3. Runs

| run | instance | what it shows |
|---|---|---|
| `safety_bridge` | both obstacle sources, all operator commands, lost messages, restarts, small durations | type, latch, watchdog, planning-scene hygiene, the contract; recovery or stop, and the latch on persistent contact, under fairness |
| `latched_stop_downgraded` | same | finding: a latched stop is announced as PAUSE |
| `motion_one_arm` | one arm, no retries, every operator command, two goals at the controller; (commands, supervisor changes, hand messages) one of (1,2,0), (1,1,1), (2,1,0) | types and the gate's one held path, nothing survives a known stop, a busy executor is owed an answer |
| `motion_cases` | two arms, no retries, a command for both markers, one supervisor change or one hand message; and one arm, every retry limit 1, a command to the explicit target, one supervisor change | no marker is forgotten, routes keep their guide points, requests end visibly |
| `pause_passed_by_ordinary_path` | one arm | finding |
| `stop_leaves_goal_running` | one arm, two goals | finding |
| `edgetam_tracker` | 3 frames, 3 stamps, 2 service calls or stale periods, 2 contexts | late results, switching, clock resets and gaps in any order: nothing of an old context is used, corrections follow their own output, diagnostics follow the switch |
| `edgetam_control` | initial mode point cloud (the default), 2 requests, 2 calls, 1 report on its way | answers announce the newest request only; no announcement without a model; a loading state ends |
| `pipeline` | one-place queues, short inputs, one playback command of each kind in the plans of `MCPlans` | the end of the input is announced only after the work, every run ends, geometry of before a reset goes |
| `perception` | fourteen components, see below | switches, holds, reconnection, publication |
| `simulation` | eight components, see below | answers, mirrors, freshness |
| `debounce_skipped` | the safety decision in `MCPerception` | finding: a STOP is released at once by way of DEGRADED |

**Bounds.** `Budgets` is the set of combinations of commands, supervisor
changes and hand messages a behaviour may have; a behaviour picks one at the
start and every event spends from it. Answers, timers, gate steps and failures
are not bounded: a retry that may happen does. `MaxGoals` bounds the controller
goals alive at a time. The combinations are chosen so that each kind of event
meets each other kind at every point of a request: two changes cover pause then
anything, one change with a hand message covers the gate asking for a path
while the supervisor changes its mind, two commands with a change cover
preemption. The executor's records are checked with one arm for orderings and
with two for what an arm does to the other. Larger bounds were tried for
single properties without a difference (one arm with two changes and a hand
message: 3.4 million states).

**Deadlock** is not checked in the motion runs: once the budget is spent and
all answers have come, the system has stopped, as the real one does. It is not
checked in the two refinement instances for the same reason: frames, requests
and calls are counted, and the node waits when they are used up.

The bounds of the refinement: three frames are a correction, the output that
makes it late, and one more submission than the two contexts kept; two service
calls are a disable and an enable around them. Two requests are a superseded one
and its successor, two calls let both threads call for the same request.
The other initial mode was tried as well, without a difference; the theorems
hold for both.

In `perception` and `simulation` each component has the smallest bounds at which
its faults show and every action happens: two requests or generations for a
switch (one superseded, one newest), two models, one hold or miss more than the
limit under test, one or two objects (tracks do not influence each other), three
or four stamps (a late one, its successor and the one that pushes it out), a
transit of one message, two edits. The debounce and the confirmation hits have
the values of the configuration (3 hits, 5 updates). The numbers are in the
configurations of `MCPerception` and `MCSimulation`, but for those of the
components without a theorem (`ObstaclePanel`, `RgbdScene`, `GazeboHand`,
`SceneMirror`), which their instances give. `IsaacBridge` runs with two goals on
two threads, so that the goals can take all of them as three can take the
executor's three.
`GazeboGateway` has both arms, two homes and four commands: the shortest way back
of a stopped home takes four. Deadlock is not checked in `pipeline`, `perception`
and `simulation`: what users, simulators and inputs do is counted, and when it
is used up the components wait, as the real ones do; that they stop in the right
place is what the liveness properties say.

**Fairness.** In `safety_bridge` time passes and the watchdog's timer fires
(rclpy's timer runs as long as the node spins). Nothing is assumed of the
sources: observations may stop for ever, which leads to a latched stop, not to
SAFE, and `RecoversOrStops` says just that. In `pipeline`, `perception` and
`simulation` each thread of the code is weakly fair: Python's threads, rclpy's
executors and timers and the simulators' loops keep running, and a call that was
made comes back; only a plan that the dynamic gate has dropped never does. Strong
fairness is assumed in three places only: of a thread
that waits for a lock others take again and again (`Install` of `IsaacBridge`),
of a subscription whose publisher keeps publishing (`OnSource` of the mux), and
of a queue with room again and again (`SceneMirror`'s diffs). Each component
module states its fairness next to its specification, with the reason;
`MCPerception` and `MCSimulation` restate it as disjunctions over the
components, which is the same since `part` never changes. No fairness is assumed
of operators, users, edits, failures, restarts or the hand, and none of the end of
a PAUSE or of an EMERGENCY_STOP. The properties of the
motion side and of the refinement are safety properties; what could be stuck
there is stated as one (`AnswerOwed`, `LoadingIsOwed`).

**What the properties say**, beyond types:

- `StopLeavesNothing`: after the executor has heard of an emergency stop it is
  not busy, awaits no plan and no goal it has sent still counts.
- `AnswerOwed`: in dynamic mode `busy` means that an answer or message is on
  its way which clears it. It is stated for dynamic mode only: switching the
  planner mode while a path is in the gate loses that path
  (`_dynamic_trajectory` drops it) and the executor stays busy until the next
  command or safety transition.
- `RouteHasWaypoints`: a guide step is never reached without its guide points,
  whatever evasions and refreshes have thrown away.
- `TargetsAccounted`, `EndsVisibly`: a marker asked for is held, failed, or
  still queued; a marker request that ends by itself shows each of its arms.
- `LatchedNeverRuns`, `SilenceStops`, `FlagFollowsScene`, `NoForeignBody`,
  `ImplementsContract`, `RecoversOrStops`, `PersistentContactLatches`: see the
  comments in `SafetyBridge`.
- `CorrectsTheLastOutput`: a correction directly follows the geometry output of
  its own frame.
- `DisabledHoldsNothing`, `MasksAreCurrent`: after a disable has been answered
  nothing of the refinement is left or comes back; masks are never of an earlier
  generation.
- `ResultKeepsItsContext`: a result that can still be taken finds its exact
  frame, unless the context limit has pushed it out.
- `AnswersAnnounceNewest`, `NeverActiveUnloaded`: what the dashboard announces
  because of an answer is the mode asked for last and handled by the node, and
  the refinement is announced only once there is a model.
- `LoadingIsOwed`: a request for the point-cloud mode is not shown as loading
  when nothing is under way that could end it.

- `EndIsEarned`, `EveryRunEnds`, `StaleGeometryGoes` (`RealtimePipeline`): the
  source counts as finished only when the frames taken from it are worked off or
  replaced; a run whose threads keep going ends or waits for a command; a cloud
  captured before a reset is replaced once a frame of the new input has been
  captured.
- `BackendsAreSound`: no segmentation or reconstruction backend is leaked, closed
  in use or used unloaded, an anchor that St4RTrack uses was not set before a reset
  the worker has noticed, at most two frames of former inputs are given to the models
  after a reset, and an answer of MASt3R-SLAM is never taken for another call's,
  through time-outs, ends and restarts of its process. The anchor itself may be one of
  those two frames: see section 4.
- `NewestGetsThrough`, `SwitchesSettle`, `NoEcho`: the newest model request, display
  frame and cloud get through; the obstacle source asked for last takes over and
  the panel settles on it; the source that was left does not overwrite the
  relationships.
- `OutputsAreSteady`: STOP gives way to SAFE, CAUTION or WARNING only after its
  release updates, the motion state of a track does not flicker, and a switch of the
  segmentation model blanks nothing that stays in view. It says nothing of what
  follows a DEGRADED, which replaces STOP at once and ends the debounce: finding 4.
- `PlaceIsLatched`, `OutputIsEarned`, `TrackerIsSteady`, `EndsAreHonest`: see the
  comments in `MCPerception`; each relates what is shown now to what was measured
  several frames earlier.
- `GoalsAreAnswered`, `AnswersAreHonest`: the action servers and the sorting node
  neither hang nor report what did not happen. For the sorting node a task may also be
  stopped for good by a command, an exception or a safety bridge that keeps it
  stopped, and it is left out when the gate has dropped its plan (section 4).
  `FollowsTheScene`: what follows the
  simulator ends where the simulator is. `NothingUnwanted`,
  `CloudsAreOfTheirTime`: what was ended stays ended, what expired is not shown.

## 4. Findings

Four disagreements between the code and what the repository says of it, each
a run with a counterexample; PROJECT.json quotes both sides.

1. A latched stop is announced as PAUSE (`policy.py:47`).
2. An ordinary path passes PAUSE: released by the gate before, executed by the
   busy executor after (`pose_goal.py:1449`).
3. One handle for several goals: an emergency stop may cancel none
   (`pose_goal.py:1559`).
4. STOP, DEGRADED, SAFE on consecutive updates: the debounce is skipped
   (`safety_decision.py:73`), although `README.md:226` promises "debounced release".

The modules define further claims of the repository that TLC refutes on the
models. No run is spent on them; each can be checked as an invariant or action
property of an instance of its module.

| definition | the claim | what the code does |
|---|---|---|
| `SafetyBridge.ContinuousClearBeforeRelease` | `sorting_task.yaml:110` "one continuous clear second before SAFE" | `clear_since_sec` survives a contact frame (`policy.py:28`) |
| `MotionSystem.EvadedArmCanReturn` | the evaded arm returns to its saved posture | a rejected command drops the posture of an evade under way (`pose_goal.py:228`) |
| `EdgeTamControl.LatestRequestWins` | `test_latest_request_wins` | a request for the mode still announced is answered as active and never sent (`edgetam_control.py:320`); a dispatch may also call for a superseded request (`:374`) |
| `RealtimePipeline.SafetyKeepsTicking` | `README.md:258` "Every safety tick ... publishes a current decision." | a reset between two lock sections empties the deque whose minimum is taken, and the thread ends (`scheduler.py:2263`) |
| `ReconstructionSwitch.RequestsAreServed` | `scheduler.py:841` "Queue one ... method switch" | the commit of a load overwrites a request made meanwhile (`scheduler.py:1535`) |
| `ObstacleSwitch.YoloStaysAlive` | `scheduler.py:147` "Keep YOLO alive until a requested Edge source actually takes over." | acknowledgements of the mux arrive on several threads, and the older one may be stored last (`scheduler.py:576`) |
| `PeopleBranch.CloudSurvivesAMiss` | `README.md:211` "isolated segmentation/depth failures do not flash an obstacle off" | a miss before the cloud's hold is armed, or a raised update, publishes an empty cloud |
| `HandTracks.EmptyIsWitnessed` | `tracked_obstacle_node.py:2007` "safety output held" | an empty output is published in that case |
| `BackgroundFilter.PartialIsNotUsed`, `FactorIsSlewed` | `pointcloud_preprocessor.py:853` "A partial correction is not safe for subtraction", `:784` "slew-limit" | the hold returns the factor of a ramp under way (`:873`) |
| `RgbdScene.DrawsOffTheCallback` | `rgbd_scene_bridge.py:473` "must never run in the ROS image callback" | it does while the worker has not been started or has been stopped (`:654`) |
| `CameraPlacement.TransformIsOfItsTime` | `gazebo_scene_pose_sync.py:42` "always have a temporally valid transform" | an old pose is stamped with the present time |
| `SceneMirror.MirrorsEveryEdit` | `gazebo_planning_scene.py:76` "Mirror direct Gazebo edits" | a hand removed in ground truth is never taken out |
| `ArmPlacement.BaseIsTheTag`, `PoseIsMeasured` | `docs/openarm_gui.md:65`, `openarm_scene.py:394` "only when FK is fresh" | the configured base and manual joints are reported as well |
| `ObstaclePanel.EdgeKeepsOff` | `app.py:583` "must not move the effective GUI selection away from the YOLO mux" | the mode is read before the write, YOLO may be chosen in between |
| `ObstacleResampler.ClearedStaysClear` | `realtime_obstacle_resampler.py:593` "clear the old optical-flow mask" | a result that was waiting seeds it again |

Met while modelling and stated nowhere: a loader thread that has failed but not
ended is taken for a live one (`tracked_obstacle_node.py:1226`), so that an
enable in that moment stays at "loading"; in the sorting node a motion that
succeeds after a pause, or a gripper failure followed by SAFE, raises and ends the
node (`dead` in `SortingTask`); a reset leaves calls behind whose answers advance
the next task (`stale`). In dynamic mode that node publishes a plan without looking
at it (`openarm_sorting_task/node.py:243`), and the gate drops one without points
without a word (`openarm_dynamic_avoidance/node.py:378`): no answer ever comes and
the node stays busy (`Lost` in `SortingTask`). The reconstruction worker takes its
frame before it notices a reset (`scheduler.py:1575`), so the frame in its hand, or
one that capture puts late, may become the anchor of the new input
(`AnchorIsOfTheInput` in `ReconstructionSwitch`, which TLC refutes); with an
`anchor_interval` of 0 it stays the anchor until the next reset.

## 5. Proofs

Checked by TLAPS for every value of the constants. Each safety invariant and
each action property that a passing run checks is stated by a theorem; the name
of a theorem says the same as its property. An invariant is
proved from an inductive one in the usual three steps (it holds initially, every
step keeps it, it implies the property); what follows says what had to be added
to make it inductive, since that is where the reason lies.

`SafetyBridge_proofs` (any durations, thresholds and grace):

- `TypeCorrect`: the invariant is inductive as it stands; the content is that
  every age stays within its cap, which is what makes the capped clocks exact.
- `LatchHolds`: from an invariant relating latch, state and timers.
- `WatchdogStops`: the age of the last observation bounds how long a silent
  source can go unnoticed; the invariant relates that age to the timer's.
- `SceneFlagIsTrue`, `ForeignBodyIsGone`: inductive together with the types; what
  an addition or a removal makes of the scene, delivered or lost, is stated once
  (`AddOutcome`, `RemoveOutcome`) and cited for each callback that publishes one.
- `BridgeImplementsContract`: initial states map to initial states, each action
  to a contract step or a stutter, and only a restart to the contract's; one lemma
  for what a method of the policy does (`MethodStep`).

`MotionSystem_proofs` (any arms, retry limits, budgets and goals):

- `StopLeavesNothingAlways`: the inductive invariant is `Calm(pose)`: the
  record has the node's fields, its goals form a sequence of goals, and where
  an emergency stop is known nothing is in flight. It says more than the
  property only about shape; the argument is that calm records are closed under
  every method. There is one lemma per method, following the call graph
  upwards: `_cancel_motion` makes any record calm, `_send_plan` does nothing
  where a stop is known, changes that touch neither goals nor plans keep a
  record calm (`Undisturbed`), answers can count only where no stop is known,
  and so `_execute` is reached only there. `_safety`, the one callback that
  changes what is known of the supervisor, cancels first.
- `MotionTypeCorrect`, `RoutesHaveWaypoints`, `TargetsAreAccounted`,
  `AnswersAreOwed`, `RequestsEndVisibly` rest on one predicate of the record,
  `Good`. Its parts: the queue and the current step are
  of the node's kinds and of known arms (`Arranged`); guide steps lie in front,
  belong to the active arm and have their points (`Routed`); steps suit the
  request (`OwnKinds`); every arm of a marker request is settled or has its target
  ahead (`Accounts`); a busy record is owed an answer that counts (`Traffic`,
  `Owes`). Again one lemma for each method shows that it keeps `Good`. Callbacks
  after which a request may end and an idle lift or restore begin at once have
  the weaker `Fine`, which allows just that; it is what `RequestsEndVisibly` needs,
  because the failures must be shown before the new motion wipes them.
  `AnswersAreOwed` has the hypothesis that the operator never switches the dynamic
  layer off and on: doing so loses the path in the gate (section 3).
  `_clear_route_steps` filters the queue; the proof describes the result by a
  recursive function of its own (`KeptBelow`), as `SelectSeq` cannot be expanded.

`EdgeTamTracker_proofs` (any numbers of frames, calls and contexts kept):

- `MasksStayCurrent`: inductive with the types of the generations; masks are
  written under the lock that checks the generation, and every change of the
  generation clears them.
- `DisabledStaysEmpty`: needs that a disabled node whose invalidation is done
  has no job of the present stream in inference, which is why a job that ends
  later shows nothing.
- `TrackerTypeCorrect` (`TypeInv`): what each program counter carries, and that
  the contexts kept are the newest ones.
- `ResultFindsItsContext` (`KeepInv`): a sequence number newer than the last one
  taken still has its context, or as many submissions came after it as contexts
  are kept; in every place a result can wait in.
- `CorrectionsAreDirect` (`DirectInv`): a context carries the serial of its own
  geometry output and every later output has a larger one, so a worker that finds
  the serial unchanged corrects the last output, although it read the context
  several sections earlier.
- `TrackerImplementsSwitch`: needs that a worker past its enable check holds a
  wrapper, and that a loader at work means there is none yet; each action is then
  a switch step or a stutter.

`EdgeTamControl_proofs` (any numbers of requests, calls and reports):

- `ActiveIsLoaded`: whatever claims a model (the status, each report on its way,
  the bridge's record of the last one) was true when made, and a model stays.
- `AnnouncesNewest`: the invariant `OutInv` follows a call through the channel.
  Calls carry numbers no earlier call has, so an answer with the number of what
  is in flight is about that request; the node has then handled its generation,
  and the generation asked for last is the only one that counts. The lemmas
  separate steps in which threads only let go of a call (`NothingNew`) from those
  that post one.
- `NothingLoadsForEver` (`OwedInv`): while a call for an older request is out, the
  newest request is still pending, because no thread reads a pending request
  while a call is out. So whoever let go of a call leaves the newest one behind,
  pending or called for.

`RealtimePipeline_proofs` (any queue size, plans and commands):

- `TheEndIsEarned` (`EndInv`): until an incident (a command, a reset, a failure;
  they are counted, and after one the property says nothing) every frame in a queue
  or in a thread's hands is strictly newer than what is shown of its branch and no
  newer than what was put into it; and a snapshot of the renderer that is old has
  been judged only if its cloud is still the newest. So a renderer that sees the last
  frame perceived, reconstructed and judged knows that every queue is empty.

`Perception_proofs` (a section for each component; any counts, holds, delays,
stamps, models and objects):

- `BackendsStaySound`. Segmentation: the worker's candidate and the installed
  backend are told apart by the number of the request they were made for, and
  what is open is just these two. Reconstruction: `MethodFits` says for each method
  which backends it needs, that the anchor was set no earlier than the reset noticed
  last, and that each frame of a former input given to a model since the queue was
  emptied was then in the worker's hand or in capture's (`FewOldFrames`).
  MASt3R-SLAM: `Token`: of a call there is one token, as the request written, the
  request served or the reply, since a client that gave up replaces process and
  pipe; and a map that holds keyframes was begun by the first image (`MapIsClean`).
- `TrackerStaysSteady`. The frames bridged are no more than the invalid ones in a
  row, which the code counts. No stamp processed or waiting is ahead of the
  sensors' clock until it restarts.
- `NothingEchoes`: the bridge keeps mode and holder in one record behind one lock,
  so its steps are five (`BridgeSteps`), none an echo.
- `OutputsStaySteady`. Decision: while STOP is latched the releases counted are no
  more than the calm updates seen. Track: the counter that moves up and down is
  bounded by the observations since the last change of the motion state
  (`Balanced`), with the change at either end of it. People: for an object in view,
  hits of the new tracker and what is left of the hold add up to the confirmation
  hits at least (`Covered`), and as each update lowers one and raises the other,
  the hold cannot end first.
- `PlaceStaysLatched`: a scene with a tag is metric and has the tag of its own
  plane, and so has the arm placed by it, at every point of a drawing.
- `EndsStayHonest`. Video: the delay is always between the two bounds and the
  position one past the index. ROS: the users counted are the handles held, of the
  live runtime. Relationship: the age in a message of the latest perception is the
  time it was sent less the time that perception was given.
- `OutputStaysEarned`: frames judged in vain and what is left of a hold make up at
  most the two holds together (`Lasting`): a vain frame uses up the memory of the
  mask or a hold, and only a measured or remembered mask renews a hold. Numbers not
  given yet have no hold, so no track inherits one.

`Simulation_proofs` (a section for each component; any goals, cubes, stamps,
retries and transit):

- `AnswersStayHonest`. Isaac: a goal in a slot has not ended, and each of the thread's
  locals is of its own goal (`Sound`). Sorting: until a reset leaves calls behind
  the task is idle without a call or busy with one that suits its state, and the
  cube is attached while it is carried.
- `NothingUnwantedHappens`: a cube is joined to the hand only by its attach; a home
  that can be resumed, or is running, is wanted.
- `CloudsKeepTheirTime`. Resampler: the mask in use is at most the tolerance after the
  result it was seeded from. Adapter: the last stamp published is no newer than
  the newest of any part (`InOrder`), and a stamp that still misses a part has lost
  none of the others while fewer than `Keep` later ones have begun (`NothingLost`).
  Camera: an entry of the history no newer than the cloud was made no later than the
  pose the cloud was taken at.

Assumptions: only those named in the modules. They bound constants as the code
does (`BoundAssumption`, `BoundsAssumption`, `DurationAssumption`,
`StartupAssumption`, `ControlAssumption`, `PipelineAssumption`; `FramesAssumption`,
`CountsAssumption` and `MethodsAssumption` of `MCPerception`, after the validation
of the configuration; `NumbersAssumption` of `MCSimulation`), or say that an absent
value is none of the values it stands beside (the `NoneAssumption`s,
`NoFrameAssumption`, `PoseGoalAssumption`). TLC evaluates them in the runs.

**Model-checked only.** Liveness is out of TLAPS's reach: `RecoversOrStops` and
`PersistentContactLatches` of the supervisor, `EveryRunEnds` and `StaleGeometryGoes`
of the pipeline, `NewestGetsThrough` and `SwitchesSettle` of perception,
`GoalsAreAnswered` and `FollowsTheScene` of the simulators. With it stay the
components that have only such a property: `ObstaclePanel`, `RgbdScene`,
`GazeboHand`, `SceneMirror`. The findings are counterexamples and need no proof.

## 6. Plan

1. The external controller of `MotionSystem` replaced by `IsaacBridge`; the
   synchroniser in front of the tracker, the mux behind it.
2. Liveness of the tracker under fairness of its threads; safety properties of
   `ObstaclePanel` and `SceneMirror` that can be proved.

## 7. Not modelled

Image and point-cloud mathematics, neural networks, kinematics: numeric, outside
what TLC enumerates; where they decide something, the model chooses. Display
handles beyond the panels above, recording, the renderer, evaluation and scenario
scripts, scene building, command-line handling: no protocol state.
`openarm_control.py`: forwarding only. Within modelled components, PROJECT.json
names what is left out under each component's note.

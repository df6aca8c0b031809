-------------------------------- MODULE MCSimulation -------------------------
(***************************************************************************)
(* The components around the arms: the two simulators' bridges, the nodes  *)
(* that feed MoveIt from the simulator and from the cameras, and the       *)
(* sorting task.  Each is checked by itself: a behaviour is one of one     *)
(* component, which part names and whose variables live in the slots.      *)
(***************************************************************************)
EXTENDS Integers

CONSTANTS
    None,   \* what a slot without a variable holds, and the absent values
    Gone    \* the pose of a model that was removed

\* Of the components that are proved about; those of the others are given below.
CONSTANTS
    Goals, Threads, Duration, IsaacCubes, MaxBridgeEvents,         \* Isaac
    Sides, MaxHomes, MaxCommands,                                  \* Gateway
    NumCubes, Attempts, MaxReplans, GraspModes, PlannerModes, MaxTaskEvents,  \* Sorting
    LastStamp,                                                     \* Resampler, Adapter
    CloudEvery, Timeout, Tolerance, ClearUpdates, MaximumFrames,   \* Resampler
    Keep,                                                          \* Adapter
    LastTick, MaxEdits, History, Transit                           \* Camera

\* The tolerance is clamped at zero, the rest are constants of the code or counts.
ASSUME NumbersAssumption ==
    /\ NumCubes \in Nat /\ MaxReplans \in Int /\ LastStamp \in Nat /\ Keep \in Nat \ {0}
    /\ Timeout \in Int /\ Tolerance \in Nat

\* An absent value is none of the values it stands beside.
ASSUME NoneAssumption ==
    /\ None \notin Goals /\ None \notin IsaacCubes /\ None \notin Int
    /\ None \notin {"succeeded", "aborted", "canceled"}
    /\ None \notin [stamp : Nat, pose : Nat]
    /\ None \notin [stamp : Nat, pose : Nat, used : Nat, early : BOOLEAN]

VARIABLES
    part,    \* the component of this behaviour
    v1, v2, v3, v4, v5, v6, v7, v8, v9, v10   \* its variables

slots ==
    <<v1, v2, v3, v4, v5, v6, v7, v8, v9, v10>>

\* The slots from the given one on, for a component that needs fewer.
From10 == <<v10>>
From8 == <<v8, v9, v10>>
From7 == <<v7, v8, v9, v10>>
From6 == <<v6, v7, v8, v9, v10>>
Empty10 == v10 = None
Empty8 == v8 = None /\ v9 = None /\ Empty10
Empty7 == v7 = None /\ Empty8
Empty6 == v6 = None /\ Empty7

-----------------------------------------------------------------------------
Isaac == INSTANCE IsaacBridge WITH
    goals <- v1, slots <- v2, paused <- v3, inbox <- v4, sim <- v5, cubes <- v6,
    sent <- v7, Cubes <- IsaacCubes, MaxEvents <- MaxBridgeEvents

Gateway == INSTANCE GazeboGateway WITH
    task <- v1, safety <- v2, resumeHome <- v3, pending <- v4, handles <- v5,
    goals <- v6, homes <- v7, wanted <- v8, commands <- v9

Hand == INSTANCE GazeboHand WITH
    hand <- v1, pending <- v2, asked <- v3, real <- v4, report <- v5, actual <- v6,
    events <- v7, Reach <- 2, Low <- 1, High <- 2, Path <- <<2, 1>>, MaxEvents <- 3

Resampler == INSTANCE ObstacleResampler WITH
    seen <- v1, images <- v2, frames <- v3, paired <- v4, waiting <- v5,
    seed <- v6, base <- v7, empties <- v8, out <- v9, gone <- v10

Adapter == INSTANCE MaskAdapter WITH
    seen <- v1, info <- v2, inputs <- v3, out <- v4, arrived <- v5

Sorting == INSTANCE SortingTask WITH
    task <- v1, safety <- v2, job <- v3, busy <- v4, calls <- v5, scene <- v6,
    bridge <- v7, dead <- v8, stale <- v9, events <- v10,
    MaxEvents <- MaxTaskEvents

Camera == INSTANCE CameraPlacement WITH
    world <- v1, states <- v2, sync <- v3, poses <- v4, adapter <- v5, cloud <- v6,
    placed <- v7

Mirror == INSTANCE SceneMirror WITH
    models <- v1, states <- v2, commands <- v3, mirror <- v4, diffs <- v5,
    scene <- v6, MaxMoves <- 1, MaxSwitches <- 2, Transit <- 1, Gone <- Gone

-----------------------------------------------------------------------------
Init ==
    \/ part = "isaac" /\ Isaac!Init /\ Empty8
    \/ part = "gateway" /\ Gateway!Init /\ Empty10
    \/ part = "hand" /\ Hand!Init /\ Empty8
    \/ part = "resampler" /\ Resampler!Init
    \/ part = "adapter" /\ Adapter!Init /\ Empty6
    \/ part = "sorting" /\ Sorting!Init
    \/ part = "camera" /\ Camera!CameraInit /\ Empty8
    \/ part = "mirror" /\ Mirror!MirrorInit /\ Empty7

Next ==
    /\ UNCHANGED part
    /\ \/ part = "isaac" /\ Isaac!Next /\ UNCHANGED From8
       \/ part = "gateway" /\ Gateway!Next /\ UNCHANGED From10
       \/ part = "hand" /\ Hand!Next /\ UNCHANGED From8
       \/ part = "resampler" /\ Resampler!Next
       \/ part = "adapter" /\ Adapter!Next /\ UNCHANGED From6
       \/ part = "sorting" /\ Sorting!Next
       \/ part = "camera" /\ Camera!CameraNext /\ UNCHANGED From8
       \/ part = "mirror" /\ Mirror!MirrorNext /\ UNCHANGED From7

\* An action of a component as a step of this module.
OfIsaac(A) == part = "isaac" /\ A /\ UNCHANGED From8
OfHand(A) == part = "hand" /\ A /\ UNCHANGED From8
OfSorting(A) == part = "sorting" /\ A
OfCamera(A) == part = "camera" /\ A /\ UNCHANGED From8
OfMirror(A) == part = "mirror" /\ A /\ UNCHANGED From7

\* The fairness each component states for itself: part never changes, so a
\* disjunction over the components is fair to the one that runs.
Fairness ==
    /\ WF_slots(\/ OfIsaac(Isaac!Simulation) \/ OfHand(Hand!OnModelStates)
                \/ OfCamera(Camera!StateModelsAgain) \/ OfMirror(Mirror!StateModels)
                \/ OfSorting(Sorting!SendMotion))
    /\ WF_slots(\/ OfIsaac(Isaac!SafetyCallback) \/ OfHand(Hand!Tick)
                \/ OfCamera(Camera!TakeCloudAgain) \/ OfMirror(Mirror!States)
                \/ OfSorting(Sorting!Select))
    /\ WF_slots(\/ OfIsaac(Isaac!Callbacks(1)) \/ OfHand(Hand!Serve)
                \/ OfCamera(Camera!OnStates) \/ OfMirror(Mirror!ApplyDiff)
                \/ OfSorting(Sorting!NextObject))
    /\ WF_slots(\/ OfIsaac(Isaac!Callbacks(2)) \/ OfHand(Hand!Report)
                \/ OfCamera(Camera!PublishCameraPose) \/ OfSorting(Sorting!Answer))
    /\ WF_slots(OfCamera(Camera!CameraPoseCallback) \/ OfSorting(Sorting!SafetyAgain))
    /\ WF_slots(OfCamera(Camera!PointsCallback))
    /\ WF_slots(OfCamera(\E edits \in 0 .. 1 : Camera!Tick(edits)))
    /\ SF_slots(OfIsaac(Isaac!Install(1)) \/ OfMirror(Mirror!SourceCommand))
    /\ SF_slots(OfIsaac(Isaac!Install(2)) \/ OfMirror(Mirror!PublishScene))

SimulationSpec == Init /\ [][Next]_<<part, slots>> /\ Fairness

-----------------------------------------------------------------------------
\* Every goal for the simulated arms is answered and the safety state is heard,
\* although both need the same threads (control.py, runtime.py), and a started
\* sorting task does not hang, whatever fails or pauses on the way (node.py),
\* unless the safety bridge keeps it stopped or the gate has dropped its plan.
GoalsAreAnswered ==
    <>[](/\ part = "isaac" => Isaac!Quiet
         /\ part = "sorting" => Sorting!Ended)

\* Whatever is moved in the simulator, all that follow it end at what it shows:
\* the hand's controller (gazebo_hand_controller.py), MoveIt's planning scene
\* (gazebo_planning_scene.py) and the place of the clouds
\* (gazebo_scene_pose_sync.py, gazebo_rgbd_adapter.py).
FollowsTheScene ==
    <>[](/\ part = "hand" => Hand!Settled
         /\ part = "mirror" => Mirror!Settled
         /\ part = "camera" => Camera!Followed)

\* No goal is reported to have succeeded that did not settle (control.py), and
\* the sorting node waits for one call at a time and opens the gripper only
\* over a held cube (node.py).
AnswersAreHonest ==
    /\ part = "isaac" => Isaac!SuccessIsSettled
    /\ part = "sorting" => Sorting!OneCallAtATime

\* What was ended stays ended: a cube is let go by its own detach only
\* (_update_cube_attachment), and a home that was stopped or reset does not
\* come back with a resume (gazebo_openarm_gateway.py).
NothingUnwanted ==
    [][/\ part = "isaac" => Isaac!HoldsCubes
       /\ part = "gateway" => Gateway!NoUnwantedHome]_<<part, slots>>

\* A cloud belongs to its time: it is placed by no later edit of the camera
\* (gazebo_rgbd_adapter.py), shows no obstacle of an expired result
\* (realtime_obstacle_resampler.py), and a late mask still finds its frame
\* (openarm_perception_adapter/node.py).
CloudsAreOfTheirTime ==
    /\ [](part = "camera" => Camera!NoFutureEdit)
    /\ [][/\ part = "resampler" => Resampler!GeometryIsFresh
          /\ part = "adapter" => Adapter!LateMaskFindsItsFrame]_<<part, slots>>
=============================================================================

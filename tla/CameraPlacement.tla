---------------------------- MODULE CameraPlacement ----------------------------
(***************************************************************************)
(* How a Gazebo RGB-D cloud gets its place in the world: Gazebo states the *)
(* models' poses at a low rate, gazebo_scene_pose_sync repeats the last    *)
(* camera pose at sensor rate under the time it repeats it, and            *)
(* gazebo_rgbd_adapter places each cloud with the newest pose not newer    *)
(* than the cloud (openarm_sim_bringup).                                   *)
(*                                                                         *)
(* A pose is the number of edits of the camera model that led to it.  The  *)
(* two topics between the processes are in order; the cloud topic keeps    *)
(* one message.  Points, crop and colours are left out.                    *)
(***************************************************************************)
EXTENDS Integers, Sequences, SequencesExt

CONSTANTS
    LastTick,     \* bound on the simulator's clock
    MaxEdits,     \* bound on the edits of the camera model
    History,      \* maxlen of _pose_history
    Transit,      \* bound on the pose messages on their way
    None          \* no message, no pose

VARIABLES
    world,      \* the clock and the camera's true pose
    states,     \* the newest ModelStates message on its way
    sync,       \* gazebo_scene_pose_sync: _camera_pose
    poses,      \* /sim/camera/pose on its way
    adapter,    \* gazebo_rgbd_adapter: its configured pose and _pose_history
    cloud,      \* /rgbd/points on its way, with the true pose it was taken from
    placed      \* the last cloud published in the world frame

cameraVars == <<world, states, sync, poses, adapter, cloud, placed>>

CameraInit ==
    /\ world = [now |-> 0, pose |-> 0]
    /\ states = None /\ sync = None /\ poses = <<>>
    /\ adapter = <<>> /\ cloud = None /\ placed = None

-----------------------------------------------------------------------------
\* The simulator: time passes, an editor may move the camera as it does, and
\* ModelStates and clouds go out.
Tick(edits) ==
    /\ world.now < LastTick /\ world.pose + edits <= MaxEdits
    /\ world' = [now |-> world.now + 1, pose |-> world.pose + edits]
    /\ UNCHANGED <<states, sync, poses, adapter, cloud, placed>>

StateModels ==
    /\ states' = world.pose
    /\ UNCHANGED <<world, sync, poses, adapter, cloud, placed>>

TakeCloud ==
    /\ cloud' = [stamp |-> world.now, pose |-> world.pose]
    /\ UNCHANGED <<world, states, sync, poses, adapter, placed>>

-----------------------------------------------------------------------------
\* A seeded fault: only the first pose is taken over.
OnStatesFrozen ==
    /\ states # None
    /\ sync' = (IF sync = None THEN states ELSE sync) /\ states' = None
    /\ UNCHANGED <<world, poses, adapter, cloud, placed>>

\* The camera pose is taken from every message; only the scene poses, which
\* nothing here reads, are throttled.
OnStates ==
    /\ states # None
    /\ sync' = states /\ states' = None
    /\ UNCHANGED <<world, poses, adapter, cloud, placed>>

\* The timer stamps the pose it holds with the present time.
PublishCameraPose ==
    /\ sync # None /\ Len(poses) < Transit
    /\ poses' = Append(poses, [stamp |-> world.now, pose |-> sync])
    /\ UNCHANGED <<world, states, sync, adapter, cloud, placed>>

CameraPoseCallback ==
    /\ poses # <<>>
    /\ adapter' = LET longer == Append(adapter, Head(poses))
                  IN  IF Len(longer) > History THEN Tail(longer) ELSE longer
    /\ poses' = Tail(poses)
    /\ UNCHANGED <<world, states, sync, cloud, placed>>

\* A seeded fault: the newest pose, whatever its time.
PoseForStampNewest(stamp) == IF adapter = <<>> THEN 0 ELSE Last(adapter).pose

\* Without a live pose the configured one, which is the camera's first.
PoseForStamp(stamp) ==
    LET past == SelectLastInSeq(adapter, LAMBDA p : p.stamp <= stamp)
    IN  IF adapter = <<>> THEN 0 ELSE adapter[IF past > 0 THEN past ELSE 1].pose

\* A cloud without x, y and z is refused: it is the cloud never taken.
PointsCallback ==
    /\ cloud # None
    /\ placed' = [stamp |-> cloud.stamp, pose |-> cloud.pose, used |-> PoseForStamp(cloud.stamp),
                  early |-> adapter # <<>> /\ cloud.stamp < Head(adapter).stamp]
    /\ cloud' = None
    /\ UNCHANGED <<world, states, sync, poses, adapter>>

CameraNext ==
    \/ \E edits \in 0 .. 1 : Tick(edits)
    \/ StateModels \/ TakeCloud
    \/ OnStates \/ PublishCameraPose \/ CameraPoseCallback \/ PointsCallback

\* Gazebo and the two nodes keep running.
StateModelsAgain == states = None /\ StateModels
TakeCloudAgain == cloud = None /\ TakeCloud

CameraFairness ==
    /\ WF_cameraVars(StateModelsAgain) /\ WF_cameraVars(TakeCloudAgain)
    /\ WF_cameraVars(OnStates) /\ WF_cameraVars(PublishCameraPose)
    /\ WF_cameraVars(CameraPoseCallback) /\ WF_cameraVars(PointsCallback)
    /\ WF_cameraVars(\E edits \in 0 .. 1 : Tick(edits))

CameraSpec == CameraInit /\ [][CameraNext]_cameraVars /\ CameraFairness

-----------------------------------------------------------------------------
\* A cloud is never placed with an edit of the camera that came after it, unless
\* it is older than every pose held (gazebo_rgbd_adapter.py:250-261), and once
\* the editing is over clouds are placed by the camera's true pose
\* (gazebo_scene_pose_sync.py:42-44, "without freezing camera edits").
NoFutureEdit == placed # None /\ ~placed.early => placed.used <= placed.pose

Followed == placed # None /\ placed.used = placed.pose

EditsAreFollowed == <>[]Followed

CloudsArePlaced == []NoFutureEdit /\ EditsAreFollowed

\* What the comment at gazebo_scene_pose_sync.py:42-44 says of every frame: its
\* transform is valid for its time.
\* The code does not keep it.
TransformIsOfItsTime == placed # None => placed.used = placed.pose

=============================================================================

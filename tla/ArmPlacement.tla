----------------------------- MODULE ArmPlacement -----------------------------
(***************************************************************************)
(* Where the reconstructed scene puts the robot arm: the scale of the      *)
(* AprilTag (pipeline/apriltag_calibration.py), the work plane and the tag *)
(* anchor of ReconstructionScene3D (gui/reconstruction_scene.py), the copy *)
(* OpenArmScene keeps of them (gui/openarm_scene.py), and the joint states *)
(* it poses the URDF with.  robot_arm_state, the pose the relationship     *)
(* topic carries, is made of all four.  Three threads: the reconstruction  *)
(* worker, the display worker and the callbacks of the GUI; a ROS callback *)
(* brings the joint states.                                                *)
(***************************************************************************)
EXTENDS Integers

CONSTANTS
    Anchored,     \* openarm.base_anchor = "apriltag"
    Warmup,       \* apriltag_warmup_detections
    HoldFrames,   \* apriltag_hold_frames
    MaxFits,      \* bound on the planes fitted
    MaxCommands,  \* bound on the operator's commands
    None

VARIABLES
    cal,       \* the calibrator: scaled, hits, age; reset: its reset is due
    recon,     \* the frame being reconstructed: "idle" or "busy"
    cloud,     \* the newest cloud of the pipeline: None or a kind of Clouds
    drawing,   \* the cloud the display worker has read and not yet drawn
    scene,     \* _bev_enabled, _bev_calibration, the anchor, _last_apriltag_scale
    arm,       \* the plane and the anchor OpenArmScene was given last
    joints,    \* _last_received_at, matched joints, follow, values, pose of the URDF
    op,        \* fits and commands so far
    resetting  \* a reset has emptied the pipeline and not yet the scene

vars == <<cal, recon, cloud, drawing, scene, arm, joints, op, resetting>>

\* Raw: no scale yet.  Scaled: the scale of a tag unseen for too long.
\* Tagged: scaled, the tag seen within HoldFrames.
Clouds == {"raw", "scaled", "tagged"}
NoScale == [scaled |-> FALSE, hits |-> 0, age |-> HoldFrames + 1, reset |-> FALSE]

Init ==
    /\ cal = NoScale /\ recon = "idle" /\ cloud = None /\ drawing = None
    /\ scene = [bev |-> TRUE, plane |-> None, tag |-> None, metric |-> FALSE]
    /\ arm = [plane |-> None, tag |-> None]
    /\ joints = [age |-> "never", matched |-> FALSE, follow |-> TRUE,
                 values |-> "zero", pose |-> "zero"]
    /\ op = [fits |-> 0, commands |-> 0] /\ resetting = FALSE

-----------------------------------------------------------------------------
\* _measure and _accept_candidate: the tag is found and believed, or not.
Sightings == BOOLEAN

\* calibrate: the first scale needs Warmup sightings; a hidden tag never
\* changes the scale.
Calibrated(c, seen) ==
    LET hits == IF seen /\ c.hits < Warmup THEN c.hits + 1 ELSE c.hits IN
    [c EXCEPT !.hits = hits,
              !.scaled = c.scaled \/ hits >= Warmup,
              !.age = IF seen THEN 0 ELSE IF c.age <= HoldFrames THEN c.age + 1 ELSE c.age]

KindOf(c) == IF ~c.scaled THEN "raw" ELSE IF c.age <= HoldFrames THEN "tagged" ELSE "scaled"

\* A frame is taken; a reset of the pipeline reaches the calibrator here.
TakeFrame ==
    /\ recon = "idle" /\ recon' = "busy"
    /\ cal' = IF cal.reset THEN NoScale ELSE cal
    /\ UNCHANGED <<cloud, drawing, scene, arm, joints, op, resetting>>

StoreCloud(seen) ==
    /\ recon = "busy" /\ recon' = "idle"
    /\ cal' = Calibrated(cal, seen) /\ cloud' = KindOf(cal')
    /\ UNCHANGED <<drawing, scene, arm, joints, op, resetting>>

-----------------------------------------------------------------------------
\* set_spatial_context
SpatialContext(s) == arm' = [plane |-> s.plane, tag |-> s.tag]

\* A seeded fault: every cloud with the tag rebases the plane.
NeedsRebaseEachTime(s, kind) == kind = "tagged"

\* update_pointcloud: the plane is refitted when model units first become metric.
NeedsRebase(s, kind) == kind = "tagged" /\ ~s.metric

\* _update_metric_bev: nothing while the view is off or the first tag is
\* awaited; else the plane is fitted when there is none, which may fail.
MayFit(s, kind) ==
    s.bev /\ s.plane = None /\ (Anchored /\ ~s.metric => kind # "raw")

\* _update_apriltag_locked: the first tag seen on the plane is the anchor.
TagAfter(s, kind) ==
    IF s.bev /\ s.plane # None /\ kind = "tagged" /\ s.tag = None THEN s.plane ELSE s.tag

\* The display worker reads the newest cloud and draws it later.
ReadCloud ==
    /\ drawing = None /\ cloud # None /\ drawing' = cloud
    /\ UNCHANGED <<cal, recon, cloud, scene, arm, joints, op, resetting>>

Draw(fitted) ==
    /\ drawing # None /\ drawing' = None
    /\ LET rebase == NeedsRebase(scene, drawing)
           based == [scene EXCEPT !.plane = IF rebase THEN None ELSE @,
                                  !.metric = @ \/ rebase]
           fits == MayFit(based, drawing) /\ fitted
           plane == IF fits THEN op.fits + 1 ELSE based.plane IN
       /\ fitted => MayFit(based, drawing) /\ op.fits < MaxFits
       /\ op' = IF fits THEN [op EXCEPT !.fits = @ + 1] ELSE op
       /\ scene' = [based EXCEPT !.plane = plane,
                                 !.tag = TagAfter([based EXCEPT !.plane = plane], drawing)]
    /\ SpatialContext(scene')
    /\ UNCHANGED <<cal, recon, cloud, joints, resetting>>

-----------------------------------------------------------------------------
Command == op.commands < MaxCommands /\ op' = [op EXCEPT !.commands = @ + 1]

\* set_metric_bev_enabled, set_top_down_view
SetBev(enabled) ==
    /\ Command /\ scene.bev # enabled
    /\ scene' = [scene EXCEPT !.bev = enabled] /\ SpatialContext(scene')
    /\ UNCHANGED <<cal, recon, cloud, drawing, joints, resetting>>

\* A seeded fault: the anchor is kept for the next plane.
RecalibratedKeepsTag(s) == [s EXCEPT !.plane = None, !.metric = FALSE]

Recalibrated(s) == [s EXCEPT !.plane = None, !.tag = None, !.metric = FALSE]

\* recalibrate_metric_bev, set_view_correction: the arm is told by the next
\* cloud only.
Recalibrate ==
    /\ Command /\ scene' = Recalibrated(scene)
    /\ UNCHANGED <<cal, recon, cloud, drawing, arm, joints, resetting>>

\* A seek, a restart or a new field of view: _reset_runtime_state empties
\* the pipeline, then the scene; the calibrator's turn comes with a frame.
ResetPipeline ==
    /\ ~resetting /\ Command /\ resetting' = TRUE
    /\ cloud' = None /\ cal' = [cal EXCEPT !.reset = TRUE]
    /\ UNCHANGED <<recon, drawing, scene, arm, joints>>

ResetScene ==
    /\ resetting /\ resetting' = FALSE
    /\ scene' = Recalibrated(scene) /\ SpatialContext(scene')
    /\ UNCHANGED <<cal, recon, cloud, drawing, joints, op>>

-----------------------------------------------------------------------------
\* map_openarm_joint_positions: how many joints of the URDF a message names.
Matches == {"none", "some", "all"}

\* _on_joint_state and update_joint_state: joints that match no link of the
\* URDF only clear the count.
JointState(matched) ==
    /\ joints' = IF matched = "none" THEN [joints EXCEPT !.matched = FALSE]
                 ELSE [joints EXCEPT !.age = "fresh", !.matched = matched = "all",
                                     !.values = "ros",
                                     !.pose = IF joints.follow THEN "ros" ELSE @]
    /\ UNCHANGED <<cal, recon, cloud, drawing, scene, arm, op, resetting>>

\* stale_after_s without a joint state.
JointsAge ==
    /\ joints.age = "fresh" /\ joints' = [joints EXCEPT !.age = "stale"]
    /\ UNCHANGED <<cal, recon, cloud, drawing, scene, arm, op, resetting>>

\* _on_manual_joint: a slider moves the URDF while it does not follow.
ManualJoint ==
    /\ Command /\ ~joints.follow
    /\ joints' = [joints EXCEPT !.values = "manual", !.pose = "manual"]
    /\ UNCHANGED <<cal, recon, cloud, drawing, scene, arm, resetting>>

\* _on_follow_ros
SetFollow(follow) ==
    /\ Command /\ joints.follow # follow
    /\ joints' = [joints EXCEPT !.follow = follow,
                      !.pose = IF follow /\ joints.age # "never" THEN joints.values ELSE @]
    /\ UNCHANGED <<cal, recon, cloud, drawing, scene, arm, resetting>>

\* _set_zero_pose
ZeroPose ==
    /\ Command
    /\ joints' = [joints EXCEPT !.follow = FALSE, !.values = "zero", !.pose = "zero"]
    /\ UNCHANGED <<cal, recon, cloud, drawing, scene, arm, resetting>>

-----------------------------------------------------------------------------
Next ==
    \/ TakeFrame
    \/ \E seen \in Sightings : StoreCloud(seen)
    \/ ReadCloud
    \/ \E fitted \in BOOLEAN : Draw(fitted)
    \/ \E enabled \in BOOLEAN : SetBev(enabled)
    \/ Recalibrate \/ ResetPipeline \/ ResetScene
    \/ \E matched \in Matches : JointState(matched)
    \/ JointsAge \/ ManualJoint \/ ZeroPose
    \/ \E follow \in BOOLEAN : SetFollow(follow)

ArmSpec == Init /\ [][Next]_vars

\* _base_work_position_locked: the configured offset from the tag, or the
\* configured position where there is no tag.
Base == IF Anchored /\ arm.tag # None THEN "tag" ELSE "position"

\* robot_arm_state: what the relationship topic says of the arm, if anything.
RobotArmState ==
    IF arm.plane = None \/ ~joints.matched \/ joints.age # "fresh" THEN None
    ELSE [base |-> Base, pose |-> joints.pose]

-----------------------------------------------------------------------------
\* The anchor of the arm is a tag measured on the arm's own work plane, and
\* once there is an anchor neither it nor the plane moves, whatever comes and
\* goes in the picture, but for a recalibration or a reset, which drop both
\* ("only manual recalibration changes them", _update_metric_bev).
AnchorIsOfThePlane == arm.tag # None => arm.tag = arm.plane
PlaceIsLatched ==
    scene.tag # None /\ <<scene.plane, scene.tag>> # <<scene.plane, scene.tag>>'
        => scene'.plane = None /\ scene'.tag = None /\ UNCHANGED drawing

\* "base = AprilTag center + openarm.base_from_apriltag_xyz" (docs/openarm_gui.md):
\* the pose the controller is told of is never taken from the configured position.
\* The code does not keep it.
BaseIsTheTag == Anchored /\ RobotArmState # None => RobotArmState.base = "tag"

\* "Return a controller-facing camera-frame TCP only when FK is fresh"
\* (robot_arm_state): the pose is that of the joint states.
\* The code does not keep it.
PoseIsMeasured == RobotArmState # None => RobotArmState.pose = "ros"

=============================================================================

------------------------------- MODULE RgbdScene -------------------------------
(***************************************************************************)
(* RgbdImageSceneBridge and its RgbdFrameProjector                         *)
(* (realtime_safety/ros2_bridge/rgbd_scene_bridge.py): synchronised RGB,   *)
(* depth and CameraInfo become one metric cloud, placed by the camera pose *)
(* of its time, handed to the pipeline in the ROS callback and to the      *)
(* display through a one-slot mailbox.  RgbdSceneBridge, which takes ready *)
(* clouds and has no thread of its own, is the case that always draws in   *)
(* the callback.                                                           *)
(*                                                                         *)
(* Three threads: the owner (start, close), the ROS executor (one callback *)
(* of this node at a time) and the display worker.  Geometry is left out:  *)
(* a frame is its stamp and the stamp of the pose it was placed with.      *)
(***************************************************************************)
EXTENDS Integers, Sequences, SequencesExt

CONSTANTS
    LastStamp,    \* bound on the camera's clock
    History,      \* maxlen of _pose_history
    None          \* no frame, no pose

VARIABLES
    owner,      \* where start and close are
    poses,      \* _pose_history: stamps in order of arrival
    callback,   \* the image callback in the executor: None, or its frame and stage
    mailbox,    \* _debug_pending
    display,    \* the worker, the frame it draws and the newest frame drawn
    given       \* ghost: the newest frame the pipeline was given

sceneVars == <<owner, poses, callback, mailbox, display, given>>

SceneInit ==
    /\ owner = "off" /\ poses = <<>> /\ callback = None /\ mailbox = None
    /\ display = [thread |-> FALSE, drawing |-> None, newest |-> 0]
    /\ given = 0

-----------------------------------------------------------------------------
\* start adds the node to the executor before its worker exists; close gives
\* the worker up, waits at most three seconds for it and removes the node.
AddNode ==
    /\ owner = "off" /\ owner' = "adding"
    /\ UNCHANGED <<poses, callback, mailbox, display, given>>

StartWorker ==
    /\ owner = "adding" /\ owner' = "on"
    /\ display' = [display EXCEPT !.thread = TRUE]
    /\ UNCHANGED <<poses, callback, mailbox, given>>

StopWorker ==
    /\ owner = "on" /\ owner' = "stopping"
    /\ mailbox' = None /\ display' = [display EXCEPT !.thread = FALSE]
    /\ UNCHANGED <<poses, callback, given>>

RemoveNode ==
    /\ owner = "stopping" /\ owner' = "closed"
    /\ UNCHANGED <<poses, callback, mailbox, display, given>>

Served == owner \in {"adding", "on", "stopping"}

-----------------------------------------------------------------------------
\* update_camera_pose keeps the last History poses; a pose in another frame or
\* that is not finite is refused, which is the pose that never comes.
ReceiveCameraPose(stamp) ==
    /\ Served /\ callback = None
    /\ poses # <<>> => Last(poses) < stamp
    /\ poses' = LET longer == Append(poses, stamp)
                IN  IF Len(longer) > History THEN Tail(longer) ELSE longer
    /\ UNCHANGED <<owner, callback, mailbox, display, given>>

\* The newest arrival not newer than the images; the oldest pose when all are
\* newer; without any pose the configured extrinsics are used.
PoseForStamp(stamp) ==
    LET past == SelectLastInSeq(poses, LAMBDA p : p <= stamp)
    IN  IF poses = <<>> THEN None ELSE poses[IF past > 0 THEN past ELSE 1]

\* A triple the synchroniser matched; the projector refuses stamps too far
\* apart and sizes that differ, and the frame is dropped.
ReceiveSynchronized(stamp, projects) ==
    /\ Served /\ callback = None
    /\ stamp > display.newest /\ (mailbox # None => stamp > mailbox.stamp)
    /\ (display.drawing # None => stamp > display.drawing.stamp)
    /\ callback' = IF projects
                   THEN [stamp |-> stamp, pose |-> PoseForStamp(stamp), stage |-> "raw"]
                   ELSE None
    /\ given' = IF projects THEN stamp ELSE given
    /\ UNCHANGED <<owner, poses, mailbox, display>>

\* The pipeline has taken the cloud; whether there is a worker is looked up
\* only now.
OfferToDisplay ==
    /\ callback # None /\ callback.stage = "raw"
    /\ IF display.thread
         THEN mailbox' = callback /\ callback' = None
         ELSE callback' = [callback EXCEPT !.stage = "draw"] /\ UNCHANGED mailbox
    /\ UNCHANGED <<owner, poses, display, given>>

DrawInCallback ==
    /\ callback # None /\ callback.stage = "draw"
    /\ callback' = None /\ display' = [display EXCEPT !.newest = callback.stamp]
    /\ UNCHANGED <<owner, poses, mailbox, given>>

-----------------------------------------------------------------------------
\* The worker takes the one pending frame; drawing is a slow call.
TakeFrame ==
    /\ display.thread /\ display.drawing = None /\ mailbox # None
    /\ display' = [display EXCEPT !.drawing = mailbox]
    /\ mailbox' = None
    /\ UNCHANGED <<owner, poses, callback, given>>

\* A seeded fault: the mailbox is emptied only when the drawing is done.
DrawClears ==
    /\ display.drawing # None
    /\ display' = [display EXCEPT !.drawing = None, !.newest = display.drawing.stamp]
    /\ mailbox' = None
    /\ UNCHANGED <<owner, poses, callback, given>>

\* A draw that raises is logged; it ends the frame just as well.
Draw ==
    /\ display.drawing # None
    /\ display' = [display EXCEPT !.drawing = None, !.newest = display.drawing.stamp]
    /\ UNCHANGED <<owner, poses, callback, mailbox, given>>

SceneNext ==
    \/ AddNode \/ StartWorker \/ StopWorker \/ RemoveNode
    \/ \E stamp \in 1 .. LastStamp :
          \/ ReceiveCameraPose(stamp)
          \/ \E projects \in BOOLEAN : ReceiveSynchronized(stamp, projects)
    \/ OfferToDisplay \/ DrawInCallback \/ TakeFrame \/ Draw

\* The threads run; nothing obliges the camera to send, or the owner to stop.
SceneFairness ==
    WF_sceneVars(OfferToDisplay \/ DrawInCallback) /\ WF_sceneVars(TakeFrame) /\ WF_sceneVars(Draw)

SceneSpec == SceneInit /\ [][SceneNext]_sceneVars /\ SceneFairness

-----------------------------------------------------------------------------
\* A frame the pipeline was given while the bridge is on reaches the display,
\* or a newer one does, however slow the drawing is; only closing loses it
\* (the one-slot mailbox of the comment at rgbd_scene_bridge.py:471-476).
NewestDrawn == display.newest >= given \/ owner \in {"stopping", "closed"}

NewestIsDrawn == []<>NewestDrawn

\* Drawing never runs in the ROS image callback of a bridge that draws with a
\* worker (the comment at rgbd_scene_bridge.py:471-476).
\* The code does not keep it.
DrawsOffTheCallback == ~(callback # None /\ callback.stage = "draw")

=============================================================================

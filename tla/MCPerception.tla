-------------------------------- MODULE MCPerception -------------------------
(***************************************************************************)
(* The components of perception that run beside the pipeline: those of the *)
(* application and those of the tracked-obstacle node.  Each is checked by *)
(* itself: a behaviour is one of one component, which part names and whose *)
(* variables live in the slots.                                            *)
(***************************************************************************)
EXTENDS Integers

CONSTANT None    \* what a slot without a variable holds, and the absent values

\* Of the components that are proved about; those of the two others are given below.
CONSTANTS
    Models, Unknown, MaxGeneration,                              \* Segmentation
    DepthModes, MaxMethodRequests,                               \* Methods
    MaxCalls, MaxKeyframes, LoopClosure,                         \* Slam
    WarmupFrames, CalibrationFrames, Factors, Spread,            \* Background
    WindowFrames, MinValidFrames, AlignmentHold,
    LastStamp, LastStampAgain, QueueSize, MaxDataAge, ResetThreshold,  \* Sync
    ObstacleModes, MaxModeRequests,                              \* Mux
    TrackIds, MaxTrackMissing, MinimumDynamicHits, ReleaseUpdates,     \* Safety
    Objects, PersonHits, MaxPersonMissing,                       \* People
    CloudHold, MaskHold, CenterHold,
    Anchored, Warmup, TagHold, MaxFits, MaxCommands,             \* Arm
    MinDelay, MaxDelay,                                          \* Video
    MaxUpdates, MaxRuntimes, LastTick, Interval,                 \* Ros
    MaxId, HandHits, MaximumOccludedFrames, MaximumMissedFrames, \* Hands
    MaximumTentativeMisses, MinimumMotionHits, HandHold, TemporalHold

\* reconstruction.depth_mode_options lists supported methods (validation.py).
ASSUME MethodsAssumption ==
    DepthModes \subseteq
        {"video_depth", "fast_depth", "mast3r_slam", "st4rtrack", "hybrid", "rgbd"}

\* alignment_hold_frames is validated; max_data_age_sec (0.35) is below the threshold
\* of a reset (at least 1), and the queue of the tracker keeps at least one bundle.
ASSUME FramesAssumption ==
    /\ AlignmentHold \in Nat
    /\ MaxDataAge \in Int /\ ResetThreshold \in Int /\ MaxDataAge <= ResetThreshold
    /\ QueueSize \in Nat \ {0}

\* validation.py: a track needs a hit to be confirmed, and holds are not negative; the
\* hand gate takes max(..., 0) of its hold.  video_source.py doubles a delay of 1 s up
\* to 10 s, and a publisher's interval is one over its rate, or 0 (ros2_bridge).
ASSUME CountsAssumption ==
    /\ MinimumDynamicHits \in Int /\ ReleaseUpdates \in Int
    /\ PersonHits \in Nat \ {0} /\ CloudHold \in Nat
    /\ HandHold \in Nat /\ TemporalHold \in Nat
    /\ MinDelay \in Nat /\ MaxDelay \in Int /\ MinDelay <= MaxDelay
    /\ Interval \in Nat

\* An absent value is none of the values it stands beside.
ASSUME NoneAssumption ==
    /\ None \notin Int
    /\ None \notin [model : Models, number : Nat]
    /\ None \notin [hits : Int, missing : Int]
    /\ LET requests == [command : {"start", "infer", "reset"}, number : Nat]
       IN  /\ None \notin requests
           /\ None \notin [pc : {"starting", "read", "infer", "reset", "exited"},
                           map : [keyframes : Nat, sequence : {0, 1}],
                           serves : requests \union {None}]

VARIABLES
    part,    \* the component of this behaviour
    v1, v2, v3, v4, v5, v6, v7, v8, v9, v10, v11, v12, v13, v14   \* its variables

slots ==
    <<v1, v2, v3, v4, v5, v6, v7, v8, v9, v10, v11, v12, v13, v14>>

\* The slots from the given one on, for a component that needs fewer.
From12 == <<v12, v13, v14>>
From11 == <<v11, v12, v13, v14>>
From10 == <<v10, v11, v12, v13, v14>>
From8 == <<v8, v9, v10, v11, v12, v13, v14>>
From7 == <<v7, v8, v9, v10, v11, v12, v13, v14>>
From2 == <<v2, v3, v4, v5, v6, v7, v8, v9, v10, v11, v12, v13, v14>>
Empty12 == v12 = None /\ v13 = None /\ v14 = None
Empty11 == v11 = None /\ Empty12
Empty10 == v10 = None /\ Empty11
Empty8 == v8 = None /\ v9 = None /\ Empty10
Empty7 == v7 = None /\ Empty8
Empty2 == v2 = None /\ v3 = None /\ v4 = None /\ v5 = None /\ v6 = None /\ Empty7

-----------------------------------------------------------------------------
Segmentation == INSTANCE SegmentationSwitch WITH
    request <- v1, generation <- v2, active <- v3, backend <- v4, ready <- v5,
    errors <- v6, opened <- v7, preflight <- v8, frame <- v9, needed <- v10,
    stopping <- v11, worker <- v12, gui <- v13, shown <- v14

Methods == INSTANCE ReconstructionSwitch WITH
    active <- v1, requested <- v2, ready <- v3, loaded <- v4, frames <- v5,
    worker <- v6, anchored <- v7, epoch <- v8, gui <- v9, waiting <- v10,
    requests <- v11, Methods <- DepthModes, MaxRequests <- MaxMethodRequests

Slam == INSTANCE Mast3rSlam WITH
    calls <- v1, client <- v2, usable <- v3, process <- v4, stdin <- v5,
    stdout <- v6

Mux == INSTANCE ObstacleSwitch WITH
    mux <- v1, yoloCloud <- v2, inbox <- v3, acks <- v4, request <- v5,
    active <- v6, gui <- v7, worker <- v8, yolo <- v9, rel <- v10, requests <- v11,
    Modes <- ObstacleModes, MaxRequests <- MaxModeRequests

Panel == INSTANCE ObstaclePanel WITH
    request <- v1, active <- v2, mux <- v3, edge <- v4, held <- v5, yolo <- v6,
    gui <- v7, due <- v8, panel <- v9, bounds <- v10,
    Modes <- ObstacleModes, MaxRequests <- MaxModeRequests, MaxHolds <- 1

Safety == INSTANCE SafetyBranch WITH
    tracks <- v1, latched <- v2, releases <- v3, level <- v4, calm <- v5,
    steady <- v6, degraded <- v7, Ids <- TrackIds, MaxMissing <- MaxTrackMissing

People == INSTANCE PeopleBranch WITH
    flat <- v1, solid <- v2, cache <- v3, arm <- v4, gates <- v5, cloud <- v6,
    relation <- v7, boxes <- v8, inView <- v9,
    ConfirmationHits <- PersonHits, MaxMissing <- MaxPersonMissing

Arm == INSTANCE ArmPlacement WITH
    cal <- v1, recon <- v2, cloud <- v3, drawing <- v4, scene <- v5, arm <- v6,
    joints <- v7, op <- v8, resetting <- v9, HoldFrames <- TagHold

Video == INSTANCE VideoSource WITH
    source <- v1, NoFrame <- None

Rgbd == INSTANCE RgbdScene WITH
    owner <- v1, poses <- v2, callback <- v3, mailbox <- v4, display <- v5,
    given <- v6, LastStamp <- 4, History <- 2

Ros == INSTANCE RosPublishers WITH
    now <- v1, runtime <- v2, handle <- v3, worker <- v4, cloud <- v5,
    relation <- v6

Hands == INSTANCE HandTracks WITH
    background <- v1, tracks <- v2, nextId <- v3, motion <- v4, accepted <- v5,
    holds <- v6, memory <- v7, output <- v8, verified <- v9, unseen <- v10,
    ConfirmationHits <- HandHits, HoldFrames <- HandHold

Background == INSTANCE BackgroundFilter WITH
    warmup <- v1, calibration <- v2, baseline <- v3, window <- v4, factor <- v5,
    hasLock <- v6, invalid <- v7, result <- v8, bridged <- v9, proved <- v10

Sync == INSTANCE SensorSync WITH
    epoch <- v1, clock <- v2, arriving <- v3, unpaired <- v4, pending <- v5,
    done <- v6, queue <- v7, last <- v8, reset <- v9

-----------------------------------------------------------------------------
Init ==
    \/ part = "segmentation" /\ Segmentation!Init
    \/ part = "methods" /\ Methods!Init /\ Empty12
    \/ part = "slam" /\ Slam!Init /\ Empty7
    \/ part = "mux" /\ Mux!Init /\ Empty12
    \/ part = "panel" /\ Panel!Init /\ Empty11
    \/ part = "safety" /\ Safety!Init /\ Empty8
    \/ part = "people" /\ People!Init /\ Empty10
    \/ part = "arm" /\ Arm!Init /\ Empty10
    \/ part = "video" /\ Video!Init /\ Empty2
    \/ part = "rgbd" /\ Rgbd!SceneInit /\ Empty7
    \/ part = "ros" /\ Ros!RosInit /\ Empty7
    \/ part = "hands" /\ Hands!Init /\ Empty11
    \/ part = "background" /\ Background!Init /\ Empty11
    \/ part = "sync" /\ Sync!Init /\ Empty10

Next ==
    /\ UNCHANGED part
    /\ \/ part = "segmentation" /\ Segmentation!Next
       \/ part = "methods" /\ Methods!Next /\ UNCHANGED From12
       \/ part = "slam" /\ Slam!Next /\ UNCHANGED From7
       \/ part = "mux" /\ Mux!Next /\ UNCHANGED From12
       \/ part = "panel" /\ Panel!Next /\ UNCHANGED From11
       \/ part = "safety" /\ Safety!Next /\ UNCHANGED From8
       \/ part = "people" /\ People!Next /\ UNCHANGED From10
       \/ part = "arm" /\ Arm!Next /\ UNCHANGED From10
       \/ part = "video" /\ Video!Next /\ UNCHANGED From2
       \/ part = "rgbd" /\ Rgbd!SceneNext /\ UNCHANGED From7
       \/ part = "ros" /\ Ros!RosNext /\ UNCHANGED From7
       \/ part = "hands" /\ Hands!Next /\ UNCHANGED From11
       \/ part = "background" /\ Background!Next /\ UNCHANGED From11
       \/ part = "sync" /\ Sync!Next /\ UNCHANGED From10

\* An action of a component as a step of this module.
OfSegmentation(A) == part = "segmentation" /\ A
OfMux(A) == part = "mux" /\ A /\ UNCHANGED From12
OfPanel(A) == part = "panel" /\ A /\ UNCHANGED From11
OfRgbd(A) == part = "rgbd" /\ A /\ UNCHANGED From7
OfRos(A) == part = "ros" /\ A /\ UNCHANGED From7

\* The fairness each component states for itself: part never changes, so a
\* disjunction over the components is fair to the one that runs.
Fairness ==
    /\ WF_slots(\/ OfSegmentation(Segmentation!Worker) \/ OfMux(Mux!Gui) \/ OfPanel(Panel!Gui)
                \/ OfRgbd(Rgbd!OfferToDisplay \/ Rgbd!DrawInCallback) \/ OfRos(Ros!TakeCloud))
    /\ WF_slots(\/ OfSegmentation(Segmentation!Announce) \/ OfMux(Mux!Worker)
                \/ OfPanel(Panel!MuxTakes) \/ OfRgbd(Rgbd!TakeFrame)
                \/ OfRos(\E o \in {"sent", "empty", "raised"} : Ros!SendCloud(o)))
    /\ WF_slots(\/ OfSegmentation(Segmentation!FrameArrives) \/ OfMux(Mux!Announce("ros"))
                \/ OfPanel(Panel!Diagnostics) \/ OfRgbd(Rgbd!Draw) \/ OfRos(Ros!RepeatState))
    /\ WF_slots(OfMux(Mux!EdgeCloud) \/ OfPanel(Panel!TellYolo) \/ OfRos(Ros!Tick))
    /\ \A source \in {"edge", "yolo"} : SF_slots(OfMux(Mux!OnSource(source)))
    /\ \A thread \in {"gui", "mux", "edge", "worker"} : WF_slots(OfPanel(Panel!WriteOf(thread)))

PerceptionSpec == Init /\ [][Next]_<<part, slots>> /\ Fairness

-----------------------------------------------------------------------------
\* No backend is leaked, closed in use or used without its model; no anchor is
\* used that was set before a reset the worker has noticed, and at most two
\* frames of a former input are reconstructed after the queue was emptied; and
\* no answer of MASt3R-SLAM is taken for another's
\* (_apply_pending_segmentation_switch, _reconstruction_worker and
\* mast3r_slam_adapter.py).
BackendsAreSound ==
    /\ part = "segmentation" => Segmentation!NothingLeaks
    /\ part = "methods" =>
         Methods!UsesAreLoaded /\ Methods!AnchorIsCurrent /\ Methods!OldFramesRunOut
    /\ part = "slam" => Slam!AnswersMatch /\ Slam!SkippedResetIsClean

\* The newest of what was asked for or given gets through: the segmentation
\* model (_apply_pending_segmentation_switch), the frame for the display
\* (rgbd_scene_bridge.py) and the cloud for ROS (pointcloud_publisher.py).
NewestGetsThrough ==
    []<>(/\ part = "segmentation" => Segmentation!NewestServed
         /\ part = "rgbd" => Rgbd!NewestDrawn
         /\ part = "ros" => Ros!NewestTried)

\* The obstacle source asked for last takes over, from whatever requests,
\* rollbacks and announcements came before (obstacle_cloud_mux.py,
\* request_obstacle_backend_mode), and the panel settles on the pipeline that
\* feeds the controller (update_obstacle_backend_status and its four writers).
SwitchesSettle ==
    <>[](/\ part = "mux" => Mux!Completed
         /\ part = "panel" => Panel!Settled)

\* A relationship of YOLO never replaces one of Edge once YOLO has been left,
\* and the other way round (edge_relationship.py).
NoEcho == [][part = "mux" => Mux!NoEcho]_<<part, slots>>

\* STOP gives way late to any level but DEGRADED, after which the code owes no
\* debounce; the motion state of a track does not flicker; and a model switch
\* never blanks what stays in view (SafetyDecisionEngine._debounce, Tracker3D,
\* _people_worker).
OutputsAreSteady ==
    /\ [](part = "safety" => Safety!StopIsReleasedLate)
    /\ [][part = "safety" => Safety!MotionIsSteady /\ Safety!StopGivesWayLate]_<<part, slots>>
    /\ [](part = "people" => People!SwitchKeepsObstacles)

\* The anchor of the arm is a tag measured on its own plane, and both stay
\* until they are dropped together (_update_metric_bev, openarm_scene.py).
PlaceIsLatched ==
    /\ [](part = "arm" => Arm!AnchorIsOfThePlane)
    /\ [][part = "arm" => Arm!PlaceIsLatched]_<<part, slots>>

\* The frame numbers of a file are its positions, only a decoded frame or a new
\* opening ends the growth of the reconnection delay (video_source.py), one
\* user's close never takes the ROS runtime from another, and a repeated
\* relationship never looks fresher than it is (runtime.py,
\* relationship_publisher.py).
EndsAreHonest ==
    /\ [](/\ part = "video" => Video!FramesAreCounted
          /\ part = "ros" => Ros!RuntimeIsShared)
    /\ [][/\ part = "video" => Video!BackOffIsKept
          /\ part = "ros" => Ros!AgeIsHonest]_<<part, slots>>

\* A published hand overlapped a hand mask during its own life, and not too
\* long ago (_filter_hand_tracks, hand_semantic_gate.py).
OutputIsEarned == [][part = "hands" => Hands!OutputIsEarned]_<<part, slots>>

\* A stale depth factor is used for few frames only, and the tracker is reset
\* by nothing but a restart of the clock (pointcloud_preprocessor.py,
\* sensor_sync.py).
TrackerIsSteady ==
    /\ part = "background" => Background!LockIsBridgedBriefly
    /\ part = "sync" => Sync!OnlyRestartsReset

-----------------------------------------------------------------------------
\* README.md: "SAFE, CAUTION, WARNING, STOP, and DEGRADED with immediate STOP
\* and debounced release."  The code does not keep it.
ReleaseIsDebounced == part = "safety" => Safety!ReleaseIsDebounced
=============================================================================

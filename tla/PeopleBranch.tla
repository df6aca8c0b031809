----------------------------- MODULE PeopleBranch -----------------------------
(***************************************************************************)
(* What one update of the YOLO branch computes and publishes               *)
(* (scheduler.py: _people_worker, with StableTracker2D, Tracker3D,         *)
(* RobotSelfFilter, the fused observations and the two output gates).      *)
(* Images and clouds are abstracted to which objects the detector finds,   *)
(* which of them are only the arm, which are confident and yield enough    *)
(* depth points (deep), and whether the green arm is found and measured.   *)
(***************************************************************************)
EXTENDS Integers, FiniteSets

CONSTANTS
    Objects,
    ConfirmationHits,   \* tracking.confirmation_hits
    MaxMissing,         \* tracking.max_missing
    CloudHold,          \* tracking.obstacle_cloud_hold_updates
    MaskHold,           \* segmentation.robot_mask_hold_frames
    CenterHold,         \* segmentation.robot_center_hold_frames
    None

VARIABLES
    flat,       \* StableTracker2D: per object None or hits and missing
    solid,      \* Tracker3D: per object None or missing
    cache,      \* observation_cache: the objects fused with their last cloud
    arm,        \* RobotSelfFilter: frames the mask and the center have been held
    gates,      \* per output, last_..._valid and the hold updates left
    cloud,      \* the obstacle cloud published last: "none", "empty" or "points"
    relation,   \* the relationship published last: the arm and the obstacles
    boxes,      \* the people published to the snapshot
    inView      \* ghost: all objects were seen since the last cloud with points

vars == <<flat, solid, cache, arm, gates, cloud, relation, boxes, inView>>

Lost == [o \in Objects |-> None]
NoArm == [mask |-> None, center |-> None]
Shut == [valid |-> FALSE, hold |-> 0]

Init ==
    /\ flat = Lost /\ solid = Lost /\ cache = {} /\ arm = NoArm
    /\ gates = [cloud |-> Shut, relation |-> Shut]
    /\ cloud = "none" /\ relation = [arm |-> None, obstacles |-> {}]
    /\ boxes = {} /\ inView = FALSE

-----------------------------------------------------------------------------
\* StableTracker2D.update: a detection continues its track or starts one.
Flat(seen) ==
    [o \in Objects |->
        IF o \in seen
        THEN [hits |-> IF flat[o] = None THEN 1
                       ELSE IF flat[o].hits < ConfirmationHits THEN flat[o].hits + 1
                       ELSE ConfirmationHits,
              missing |-> 0]
        ELSE IF flat[o] = None \/ flat[o].missing >= MaxMissing THEN None
        ELSE [flat[o] EXCEPT !.missing = @ + 1]]

Confirmed(tracks) ==
    {o \in Objects : tracks[o] # None /\ tracks[o].missing = 0
                     /\ tracks[o].hits >= ConfirmationHits}

\* Tracker3D.update
Solid(observed) ==
    [o \in Objects |->
        IF o \in observed THEN 0
        ELSE IF solid[o] = None \/ solid[o] >= MaxMissing THEN None ELSE solid[o] + 1]

Retained(tracks) == {o \in Objects : tracks[o] # None /\ tracks[o] <= CloudHold}

\* RobotSelfFilter: the mask of the green arm and its center are measured,
\* or held for some frames.
Held(age, limit) == IF age = None \/ age >= limit THEN None ELSE age + 1
MaskAfter(green) == IF green THEN 0 ELSE Held(arm.mask, MaskHold)
CenterAfter(mask, measured) ==
    IF mask # None /\ measured THEN 0 ELSE Held(arm.center, CenterHold)

\* filter_obstacles: what is only the arm is no obstacle.
Accepted(detected, onArm, mask) == IF mask = None THEN detected ELSE detected \ onArm

\* ObstacleExtractor3D.extract: confirmed objects with enough points in depth.
Extracted(confirmed, deep) == confirmed \cap deep

\* _current_observations_with_fusion: the cached clouds of objects that are
\* not observed now are deleted, never published.
Fused(observed) == cache' = observed

ArmShown(state) ==
    IF state.center = None THEN "configured" ELSE IF state.center = 0 THEN "fresh" ELSE "held"

\* _model_switch_output_gate: publish now, and the gate afterwards.
Publishes(gate, valid) == valid \/ ~gate.valid \/ gate.hold = 0
GateAfter(gate, valid) ==
    IF valid THEN [valid |-> TRUE, hold |-> 0]
    ELSE IF gate.valid /\ gate.hold > 0 THEN [gate EXCEPT !.hold = @ - 1]
    ELSE Shut

-----------------------------------------------------------------------------
\* The obstacle cloud and the relationships go out when their gates let them.
PublishCloud(observed) ==
    cloud' = IF ~Publishes(gates.cloud, observed # {}) THEN cloud
             ELSE IF observed = {} THEN "empty" ELSE "points"

PublishRelation(related, state) ==
    relation' = IF Publishes(gates.relation, related # {})
                THEN [arm |-> ArmShown(state), obstacles |-> related]
                ELSE relation

\* Measured and held people alike, once their tracks are confirmed.
Visible(tracks) ==
    {o \in Objects : tracks[o] # None /\ tracks[o].hits >= ConfirmationHits}

\* An update with a ready model.
Update(detected, onArm, deep, green, measured) ==
    LET mask == MaskAfter(green)
        state == [mask |-> mask, center |-> CenterAfter(mask, measured)]
        seen == Accepted(detected, onArm, mask)
        tracks == Flat(seen)
        observed == Extracted(Confirmed(tracks), deep)
        related == Retained(Solid(observed))
    IN
    /\ arm' = state /\ flat' = tracks /\ solid' = Solid(observed)
    /\ Fused(observed) /\ PublishCloud(observed) /\ PublishRelation(related, state)
    /\ gates' = [cloud |-> GateAfter(gates.cloud, observed # {}),
                 relation |-> GateAfter(gates.relation, related # {})]
    /\ boxes' = Visible(tracks)
    /\ inView' = (seen = Objects /\ deep = Objects /\ (inView \/ observed # {}))

\* Without a model only an empty relationship goes out; an update that raises
\* clears the snapshot.
NoModel ==
    /\ relation' = [arm |-> None, obstacles |-> {}] /\ boxes' = {} /\ inView' = FALSE
    /\ UNCHANGED <<flat, solid, cache, arm, gates, cloud>>

UpdateRaises ==
    /\ boxes' = {} /\ inView' = FALSE
    /\ UNCHANGED <<flat, solid, cache, arm, gates, cloud, relation>>

Forget == flat' = Lost /\ solid' = Lost /\ cache' = {} /\ arm' = NoArm

\* A seeded fault: the hold is one update short of what the trackers need.
RearmedShort(gate) == [gate EXCEPT !.hold = IF gate.valid THEN ConfirmationHits - 2 ELSE 0]

Rearmed(gate) == [gate EXCEPT !.hold = IF gate.valid THEN ConfirmationHits ELSE 0]

\* A new segmentation model: the trackers are reset, the outputs are held.
ModelSwitch ==
    /\ Forget
    /\ gates' = [cloud |-> Rearmed(gates.cloud), relation |-> Rearmed(gates.relation)]
    /\ UNCHANGED <<cloud, relation, boxes, inView>>

\* Another pipeline mode: only the gate of the cloud is shut.
ModeChange ==
    /\ Forget
    /\ gates' = [gates EXCEPT !.cloud = Shut]
    /\ boxes' = {} /\ inView' = FALSE
    /\ UNCHANGED <<cloud, relation>>

\* A reset of the pipeline.
Reset ==
    /\ Forget
    /\ gates' = [cloud |-> Shut, relation |-> Shut] /\ inView' = FALSE
    /\ UNCHANGED <<cloud, relation, boxes>>

Next ==
    \/ \E detected, onArm, deep \in SUBSET Objects, green, measured \in BOOLEAN :
          Update(detected, onArm, deep, green, measured)
    \/ NoModel \/ UpdateRaises \/ ModelSwitch \/ ModeChange \/ Reset

-----------------------------------------------------------------------------
\* Switching the segmentation model never blanks the obstacle cloud nor the
\* relationships of objects that stay in view, however often the model is
\* switched while the new tracker still earns its confirmation hits.
SwitchKeepsObstacles == inView => cloud = "points" /\ relation.obstacles # {}

\* README.md: "The ROS obstacle cloud uses a separate conservative 24-update
\* hold plus motion alignment, so isolated segmentation/depth failures do not
\* flash an obstacle off."
\* The code does not keep it.
CloudSurvivesAMiss ==
    cloud = "points" /\ cloud' = "empty" => Retained(solid') = {}

=============================================================================

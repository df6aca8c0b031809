----------------------------- MODULE SafetyBranch -----------------------------
(***************************************************************************)
(* What one tick of the safety worker computes                             *)
(* (realtime_safety/scheduler.py: _safety_worker, with Tracker3D,          *)
(* DangerZonePredictor, LocalSafetyPlanner and SafetyDecisionEngine).      *)
(* Positions, covariances and times are abstracted to what the decisions   *)
(* see: which tracks a cloud observes, how fast each one moves, how        *)
(* dangerous its zone is, and whether a path is left.                      *)
(***************************************************************************)
EXTENDS Integers, FiniteSets

CONSTANTS
    Ids,                  \* track ids
    MaxMissing,           \* tracking.max_missing
    MinimumDynamicHits,   \* tracking.minimum_dynamic_hits
    ReleaseUpdates,       \* safety.release_safe_updates
    None

VARIABLES
    tracks,      \* Tracker3D._filters: id to missing, dynamic_hits, motion_state; or None
    latched,     \* SafetyDecisionEngine._latched
    releases,    \* _release_count
    level,       \* safety_state of the newest snapshot
    calm,        \* ghost: judgements other than STOP since the last STOP, up to ReleaseUpdates
    steady,      \* ghost: per id, observations since the motion state changed last
    degraded     \* ghost: whether a DEGRADED came since the last raw STOP

vars == <<tracks, latched, releases, level, calm, steady, degraded>>

Severities == [SAFE |-> 0, CAUTION |-> 1, WARNING |-> 2, STOP |-> 3]
Levels == DOMAIN Severities
Live == {id \in Ids : tracks[id] # None}
Bigger(a, b) == IF a >= b THEN a ELSE b

Init ==
    /\ tracks = [id \in Ids |-> None]
    /\ latched = "SAFE" /\ releases = 0 /\ level = "SAFE"
    /\ calm = ReleaseUpdates /\ steady = [id \in Ids |-> 0] /\ degraded = FALSE

-----------------------------------------------------------------------------
\* Tracker3D.update: an observed filter is corrected, a missing one coasts
\* until it has been missing for too long.
\* _update_motion_state: speeds are "fast" (at least dynamic_enter_speed),
\* "slow" (at most dynamic_exit_speed) or "between".
\* A seeded fault: one slow observation makes a dynamic track static.
MotionAfterEager(track, speed) ==
    IF track.motion = "static"
    THEN LET count == IF speed = "fast" THEN track.dynamic + 1 ELSE 0
         IN [track EXCEPT !.dynamic = count,
               !.motion = IF count >= MinimumDynamicHits THEN "dynamic" ELSE "static"]
    ELSE IF speed = "slow"
    THEN [track EXCEPT !.dynamic = 0, !.motion = "static"]
    ELSE [track EXCEPT !.dynamic = MinimumDynamicHits]

MotionAfter(track, speed) ==
    IF track.motion = "static"
    THEN LET count == IF speed = "fast" THEN track.dynamic + 1 ELSE 0
         IN [track EXCEPT !.dynamic = count,
               !.motion = IF count >= MinimumDynamicHits THEN "dynamic" ELSE "static"]
    ELSE IF speed = "slow"
    THEN LET count == Bigger(track.dynamic - 1, 0)
         IN [track EXCEPT !.dynamic = count,
               !.motion = IF count = 0 THEN "static" ELSE "dynamic"]
    ELSE [track EXCEPT !.dynamic = MinimumDynamicHits]

Observed(track, speed) ==
    IF track = None THEN [missing |-> 0, dynamic |-> 0, motion |-> "static"]
    ELSE [MotionAfter(track, speed) EXCEPT !.missing = 0]

Coasted(track) ==
    IF track = None \/ track.missing >= MaxMissing THEN None
    ELSE [track EXCEPT !.missing = @ + 1]

UpdateTracks(seen, speed) ==
    /\ tracks' = [id \in Ids |-> IF id \in seen THEN Observed(tracks[id], speed[id])
                                 ELSE Coasted(tracks[id])]
    /\ steady' = [id \in Ids |->
         IF tracks'[id] = None \/ tracks[id] = None THEN 0
         ELSE IF tracks'[id].motion # tracks[id].motion THEN 1
         ELSE IF id \in seen /\ steady[id] # 0 /\ steady[id] <= MinimumDynamicHits
              THEN steady[id] + 1 ELSE steady[id]]

\* predict_to: between two clouds the filters are only read.
PredictTracks == UNCHANGED <<tracks, steady>>

-----------------------------------------------------------------------------
\* danger.predict and planner.plan after the tracks have moved: a zone for
\* each track, CAUTION only for one that approaches, and STOP from the
\* planner only when some zone blocks every path.
ZoneLevels(track) ==
    IF track.motion = "dynamic" THEN Levels ELSE Levels \ {"CAUTION"}

Raw(zones, blocked) ==
    IF blocked THEN "STOP"
    ELSE CHOOSE l \in Levels :
           /\ l \in {"SAFE"} \cup {zones[id] : id \in DOMAIN zones}
           /\ \A id \in DOMAIN zones : Severities[zones[id]] <= Severities[l]

\* SafetyDecisionEngine.update without valid depth or a model.
Judged(raw, valid) == IF ~valid /\ raw # "STOP" THEN "DEGRADED" ELSE raw

Required ==
    IF latched = "STOP" THEN ReleaseUpdates ELSE Bigger(2, ReleaseUpdates \div 2)

\* A seeded fault: the count of calmer updates survives a relapse.
DebounceForgetful(raw) ==
    IF raw = "DEGRADED" \/ latched = "DEGRADED"
    THEN latched' = raw /\ releases' = IF raw = "DEGRADED" THEN 0 ELSE releases
    ELSE IF Severities[raw] >= Severities[latched]
    THEN latched' = raw /\ releases' = releases
    ELSE IF releases + 1 >= Required
    THEN latched' = raw /\ releases' = 0
    ELSE latched' = latched /\ releases' = releases + 1

\* _debounce
Debounce(raw) ==
    IF raw = "DEGRADED" \/ latched = "DEGRADED"
    THEN latched' = raw /\ releases' = IF raw = "DEGRADED" THEN 0 ELSE releases
    ELSE IF Severities[raw] >= Severities[latched]
    THEN latched' = raw /\ releases' = 0
    ELSE IF releases + 1 >= Required
    THEN latched' = raw /\ releases' = 0
    ELSE latched' = latched /\ releases' = releases + 1

Decide(raw) ==
    /\ Debounce(raw)
    /\ level' = latched'
    /\ calm' = IF raw = "STOP" THEN 0 ELSE IF calm < ReleaseUpdates THEN calm + 1 ELSE calm
    /\ degraded' = (raw # "STOP" /\ (degraded \/ raw = "DEGRADED"))

-----------------------------------------------------------------------------
\* One tick, with a new cloud or between two.
Tick(valid) ==
    /\ \/ \E seen \in SUBSET Ids, speed \in [Ids -> {"fast", "between", "slow"}] :
            UpdateTracks(seen, speed)
       \/ PredictTracks
    /\ LET live == {id \in Ids : tracks'[id] # None} IN
       \E zones \in [live -> Levels], blocked \in BOOLEAN :
         /\ \A id \in live : zones[id] \in ZoneLevels(tracks'[id])
         /\ blocked => \E id \in live : zones[id] # "SAFE"
         /\ Decide(Judged(Raw(zones, blocked), valid))

\* A reset of the pipeline that the worker notices at its next tick.
Reset ==
    /\ tracks' = [id \in Ids |-> None] /\ steady' = [id \in Ids |-> 0]
    /\ latched' = "SAFE" /\ releases' = 0 /\ calm' = ReleaseUpdates /\ degraded' = FALSE
    /\ UNCHANGED level

Next == (\E valid \in BOOLEAN : Tick(valid)) \/ Reset

-----------------------------------------------------------------------------
\* STOP gives way to SAFE, CAUTION or WARNING only after release_safe_updates
\* calmer judgements in a row, whatever zones, blocked paths and relapses
\* there were (_debounce), or after a reset of the pipeline, which starts over.
\* To DEGRADED it gives way at once.
StopGivesWayLate ==
    level = "STOP" => level' \in {"STOP", "DEGRADED"} \/ calm' >= ReleaseUpdates

\* As long as no DEGRADED has come since the last STOP, no calmer level has
\* been announced too early.  A DEGRADED ends the debounce: after it any level
\* may be announced at once, which ReleaseIsDebounced shows.
Released == level \in {"SAFE", "CAUTION", "WARNING"}
StopIsReleasedLate == Released /\ ~degraded => calm >= ReleaseUpdates

\* The motion state does not flicker: between two changes of it lie at least
\* minimum_dynamic_hits observations, whatever the speeds and the occlusions.
MotionIsSteady ==
    \A id \in Ids :
        tracks[id] # None /\ tracks'[id] # None /\ tracks'[id].motion # tracks[id].motion
            => steady[id] = 0 \/ steady[id] >= MinimumDynamicHits

\* README.md: "SAFE, CAUTION, WARNING, STOP, and DEGRADED with immediate STOP
\* and debounced release."
\* The code does not keep it.
ReleaseIsDebounced == Released => calm >= ReleaseUpdates

=============================================================================

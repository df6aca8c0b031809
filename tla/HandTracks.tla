----------------------------- MODULE HandTracks -----------------------------
(***************************************************************************)
(* What the tracked-obstacle node makes of one geometry frame: background  *)
(* subtraction, the 3D tracker with its reusable track numbers, the motion *)
(* gate, the RGB hand gate with its retention counters, and the output     *)
(* that is published or held.  The four keep memories that are cleared at  *)
(* different moments, and track numbers start again at 1 after a reset, so *)
(* a memory that survives a reset speaks of another body.                  *)
(*                                                                         *)
(* Abstracted: points, boxes and scores.  Which clusters match a track,    *)
(* which tracks moved, which prompts overlap a hand mask and which parts   *)
(* of a frame can be used are chosen freely for every frame; the shipped   *)
(* configuration is modelled, with the motion gate and the hand gate on.   *)
(***************************************************************************)
EXTENDS Naturals, FiniteSets

CONSTANTS MaxId,              \* bound on the track numbers given between two resets
          ConfirmationHits, MaximumOccludedFrames, MaximumMissedFrames,
          MaximumTentativeMisses,
          MinimumMotionHits,  \* hits before the motion gate accepts a track
          HoldFrames,         \* _hand_semantic_hold_frames
          TemporalHold,       \* temporal_hold_frames of the hand detector
          None

VARIABLES background,  \* state of the StaticBackgroundFilter
          tracks,      \* the tracker's _tracks, by track number
          nextId,      \* its _next_track_id
          motion,      \* the motion gate's _motion_hits
          accepted,    \* the motion gate's _accepted
          holds,       \* _hand_semantic_holds
          memory,      \* the detector's _temporal_misses, None without _temporal_detections
          output,      \* the last publication
          verified,    \* history: live tracks that once overlapped a hand mask
          unseen       \* history: frames judged in vain since the detector measured a hand

handVars == <<background, tracks, nextId, motion, accepted, holds, memory, output,
              verified, unseen>>

Ids == 1..MaxId
Live == DOMAIN tracks
Only(f, S) == [x \in DOMAIN f \cap S |-> f[x]]
NoTracks == [x \in {} |-> 0]

(* A detection is remembered and carried along by optical flow for at most *)
(* TemporalHold frames in a row; where the flow fails the mask stays put.  *)
Seen ==
    {[kind |-> "measured", memory |-> 0],
     IF memory # None /\ memory < TemporalHold
       THEN [kind |-> "carried", memory |-> memory + 1]
       ELSE [kind |-> "nothing", memory |-> None]}
NotAsked == [kind |-> "unasked", memory |-> memory]

Init ==
    /\ background \in {"DISABLED", "WARMING_UP"}
    /\ tracks = NoTracks /\ nextId = 1
    /\ motion = NoTracks /\ accepted = {}
    /\ holds = NoTracks
    /\ memory = None
    /\ output = [kind |-> "none", ids |-> {}]
    /\ verified = {} /\ unseen = 0

-----------------------------------------------------------------------------
(* The 3D tracker.  A near cluster confirms its track at once; a track     *)
(* that was ever confirmed survives more misses than one that never was.   *)

Measured(t, near) ==
    LET sure == t.ever \/ near \/ t.hits + 1 >= ConfirmationHits
    IN  [state |-> IF sure THEN "CONFIRMED" ELSE "TENTATIVE", ever |-> sure,
         hits |-> IF sure THEN 0 ELSE t.hits + 1, missed |-> 0]

Missed(t) ==
    LET n == t.missed + 1
    IN  [state |-> IF t.ever /\ n <= MaximumOccludedFrames THEN "OCCLUDED"
                   ELSE IF n <= (IF t.ever THEN MaximumMissedFrames
                                          ELSE MaximumTentativeMisses) THEN "LOST"
                   ELSE "DELETED",
         ever |-> t.ever, hits |-> 0, missed |-> n]

Fresh == [state |-> "TENTATIVE", ever |-> FALSE, hits |-> 0, missed |-> 0]

(* One update: tracks in hit are matched, the others missed, born new ones *)
(* start; late says that the retention times have run out meanwhile.       *)
Updated(old, first, hit, born, near, late) ==
    LET moved == [i \in DOMAIN old \cup first..(first + born - 1) |->
                    IF i \notin DOMAIN old THEN Measured(Fresh, i \in near)
                    ELSE IF i \in hit THEN Measured(old[i], i \in near)
                    ELSE IF late THEN [Missed(old[i]) EXCEPT !.state = "DELETED"]
                    ELSE Missed(old[i])]
    IN  Only(moved, {i \in DOMAIN moved : moved[i].state # "DELETED"})

-----------------------------------------------------------------------------
(* The motion gate, asked only when the RGB hand mask did not seed the     *)
(* geometry: young tracks that moved often enough are let through.         *)

GateHits(now, moving) ==
    LET before(i) == IF i \in DOMAIN motion THEN motion[i] ELSE 0
    IN  [i \in {j \in DOMAIN now \ accepted : j \in DOMAIN motion \/ now[j].state # "LOST"} |->
            IF now[i].state = "LOST" THEN before(i)
            ELSE IF i \notin moving THEN 0
            ELSE IF before(i) >= MinimumMotionHits THEN before(i) ELSE before(i) + 1]

GateAccepts(now, hits) ==
    (accepted \cap DOMAIN now)
      \cup {i \in DOMAIN hits : now[i].state = "CONFIRMED" /\ hits[i] >= MinimumMotionHits}

-----------------------------------------------------------------------------
(* The hand gate.  A candidate that overlaps a hand mask is retained for   *)
(* HoldFrames further frames; every frame without overlap uses one up.     *)

Spend(held, ids) ==
    Only([i \in DOMAIN held |-> IF i \in ids /\ held[i] > 0 THEN held[i] - 1 ELSE held[i]],
         {i \in DOMAIN held : i \in ids => held[i] > 0})

Overlapped(held, candidates, hands) ==
    LET left == Spend(Only(held, candidates), candidates \ hands)
    IN  [i \in DOMAIN left \cup hands |-> IF i \in hands THEN HoldFrames ELSE left[i]]

(* The retained tracks are published, or, when there is no usable RGB, the *)
(* tracks retained so far, provided all candidates are among them.         *)
Judge(candidates, valid, failed, hands) ==
    IF valid /\ failed
      THEN [holds |-> NoTracks, publish |-> FALSE]
    ELSE IF valid
      THEN [holds |-> Overlapped(holds, candidates, hands), publish |-> TRUE]
    ELSE IF candidates # {} /\ candidates \subseteq DOMAIN holds
      THEN LET left == Spend(holds, candidates)
           IN  [holds |-> left, publish |-> DOMAIN left # {}]
    ELSE [holds |-> NoTracks, publish |-> FALSE]

-----------------------------------------------------------------------------
\* A fault: the retention counters outlive the numbers they are kept under.
ForgetBodiesOnly ==
    /\ tracks' = NoTracks /\ nextId' = 1
    /\ motion' = NoTracks /\ accepted' = {}
    /\ verified' = {}
    /\ UNCHANGED holds

ForgetBodies ==
    /\ tracks' = NoTracks /\ nextId' = 1
    /\ motion' = NoTracks /\ accepted' = {}
    /\ holds' = NoTracks
    /\ verified' = {}

(* A time stamp that jumps far back is a clock reset; the frame itself is  *)
(* then processed with empty memories (the next frame).                    *)
ClockReset ==
    /\ ForgetBodies
    /\ UNCHANGED <<background, memory, output, unseen>>

(* The baseline is not built yet: nothing is published, nothing is kept.   *)
Calibrate ==
    /\ background \in {"WARMING_UP", "CALIBRATING"}
    /\ background' \in {background, "CALIBRATING"}
    /\ ForgetBodies
    /\ UNCHANGED <<memory, output, unseen>>

BaselineReady ==
    /\ background = "CALIBRATING"
    /\ background' = "READY"
    /\ UNCHANGED <<tracks, nextId, motion, accepted, holds, memory, output, verified, unseen>>

(* The tracker's part of a frame: hit tracks are matched, born new ones    *)
(* start, and of the ones not yet confirmed those in near are confirmed.   *)
Track(hit, born, late) ==
    \E near \in SUBSET ({i \in hit : ~tracks[i].ever} \cup nextId..(nextId + born - 1)) :
        /\ nextId + born <= MaxId + 1
        /\ late => hit # Live
        /\ tracks' = Updated(tracks, nextId, hit, born, near, late)
        /\ nextId' = nextId + born

MotionGate ==
    \E moving \in SUBSET (Live \ accepted) :
        LET hits == GateHits(tracks', moving)
        IN  /\ accepted' = GateAccepts(tracks', hits)
            /\ motion' = Only(hits, DOMAIN tracks' \ accepted')

(* Tracks that get a prompt, if their projection is large enough and small *)
(* enough, and the sets of them whose prompts can overlap a hand mask.     *)
Promptable(candidates) == {i \in candidates : tracks'[i].state # "TENTATIVE"}
HandsAmong(prompted, look) ==
    IF look.kind \in {"measured", "carried"} THEN SUBSET prompted ELSE {{}}

(* The hand gate's part.  The frame is valid if RGB is usable, can be      *)
(* projected and leaves no candidate without a prompt or a hold; tentative *)
(* tracks get no prompt, and those in hands overlap a mask the detector    *)
(* returned.                                                               *)
(* early is what the detector said if it was already asked for a seed.     *)
HandGate(candidates, rgb, early) ==
    LET promptable == Promptable(candidates) IN
    \E valid, failed, prompted \in BOOLEAN :
    \E look \in IF early = NotAsked THEN Seen \cup {NotAsked} ELSE {early} :
        /\ valid => rgb /\ (candidates \subseteq DOMAIN holds \/ prompted)
        /\ prompted => valid /\ promptable # {}
        /\ failed => valid /\ early = NotAsked
        /\ early = NotAsked => (look # NotAsked <=> valid /\ ~failed)
        /\ memory' = look.memory
        /\ unseen' = IF look.kind = "measured" THEN 0
                     ELSE IF ~valid \/ failed \/ unseen > TemporalHold + HoldFrames THEN unseen
                     ELSE unseen + 1
        /\ \E hands \in HandsAmong(IF prompted THEN promptable ELSE {}, look) :
              LET judged == Judge(candidates, valid, failed, hands)
              IN  /\ holds' = judged.holds
                  /\ verified' = (verified \cup hands) \cap DOMAIN tracks'
                  /\ output' = IF judged.publish
                                 THEN [kind |-> IF valid THEN "verified" ELSE "held",
                                       ids |-> candidates \cap DOMAIN judged.holds]
                                 ELSE output

(* With a baseline and usable RGB the geometry is seeded from the hand     *)
(* masks: without a hand there is no cluster, and motion is not asked for. *)
SeededFrame ==
    /\ background = "READY"
    /\ \E look \in Seen, late \in BOOLEAN :
       \E hit \in SUBSET Live, born \in 0..1 :
        /\ look.kind = "nothing" => hit = {} /\ born = 0
        /\ Track(hit, born, late)
        /\ UNCHANGED <<motion, accepted, background>>
        /\ HandGate({i \in DOMAIN tracks' : tracks'[i].state \in {"CONFIRMED", "OCCLUDED"}},
                    TRUE, look)

(* Without RGB, or without a baseline to subtract, the clusters of the     *)
(* whole cloud are tracked; where the seed's projection failed, none.      *)
PlainFrame ==
    /\ background \in {"READY", "DISABLED"}
    /\ \E rgb, late \in BOOLEAN :
       \E hit \in SUBSET Live, born \in 0..1 :
        /\ background = "READY" /\ rgb => hit = {} /\ born = 0
        /\ Track(hit, born, late)
        /\ MotionGate
        /\ HandGate(accepted', rgb, NotAsked)
        /\ UNCHANGED background

(* No geometry for a while: retained tracks the motion gate let through    *)
(* are published as predictions.                                           *)
Predict ==
    LET ids == Live \cap accepted \cap DOMAIN holds
    IN  /\ ids # {}
        /\ output' = [kind |-> "predicted", ids |-> ids]
        /\ UNCHANGED <<background, tracks, nextId, motion, accepted, holds, memory,
                       verified, unseen>>

Next == ClockReset \/ Calibrate \/ BaselineReady \/ SeededFrame \/ PlainFrame \/ Predict

-----------------------------------------------------------------------------
(* Whatever is published as a hand is a track that overlapped a hand mask  *)
(* during its own life, never one that inherited the number of another,    *)
(* and since the detector last measured a hand no more frames were judged  *)
(* in vain than carrying a mask and then retaining a track can bridge.     *)
OutputIsEarned ==
    output' # output =>
        /\ output'.ids \subseteq verified'
        /\ output'.ids # {} => unseen' <= TemporalHold + HoldFrames

(* An empty output says that the scene is clear; without usable RGB the    *)
(* node says it holds its output instead.                                  *)
(* The code does not keep it.                                              *)
EmptyIsWitnessed == output.kind = "held" => output.ids # {}
=============================================================================

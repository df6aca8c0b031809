--------------------------- MODULE ObstacleResampler ---------------------------
(***************************************************************************)
(* The node that carries a neural obstacle seed from one RGB-D frame to    *)
(* the next (openarm_perception_adapter/realtime_obstacle_resampler.py).   *)
(* Images, organized clouds and neural results arrive on three topics,     *)
(* each in the order of its stamps and with losses.  A mask is the result  *)
(* it was seeded from; what the optical flow and the depth leave of it is  *)
(* enough for a cloud, or not.                                             *)
(***************************************************************************)
EXTENDS Integers, FiniteSets

CONSTANTS
    LastStamp,      \* bound on the stamps
    CloudEvery,     \* a cloud comes with every CloudEvery-th image
    Timeout,        \* model_timeout_sec
    Tolerance,      \* model_sync_tolerance_sec
    ClearUpdates,   \* empty_model_clear_updates
    MaximumFrames,  \* maximum_buffer_frames
    None

VARIABLES
    seen,       \* the last stamp of each topic
    images,     \* _images
    frames,     \* _frames: the stamps of the clouds held
    paired,     \* those of them that have their image
    waiting,    \* _pending_models
    seed,       \* _mask: None or the result it was seeded from
    base,       \* _model_stamp_ns, None when cleared
    empties,    \* _empty_model_updates
    out,        \* the cloud published last: its stamp and its seed
    gone        \* ghost: the last result that cleared the mask

vars == <<seen, images, frames, paired, waiting, seed, base, empties, out, gone>>
Stamps == 1 .. LastStamp
Newest(S) == CHOOSE s \in S : \A t \in S : t <= s
Trimmed(S) == {s \in S : Cardinality({t \in S : t > s}) < MaximumFrames}

Init ==
    /\ seen = [rgb |-> 0, cloud |-> 0, model |-> 0]
    /\ images = {} /\ frames = {} /\ paired = {} /\ waiting = {}
    /\ seed = None /\ base = None /\ empties = 0
    /\ out = [stamp |-> 0, seed |-> None] /\ gone = 0

-----------------------------------------------------------------------------
Gap(s, t) == IF s < t THEN t - s ELSE s - t

\* nearest_timestamp, the earlier of two equally near ones
Near(S, s) == {t \in S : Gap(s, t) <= Tolerance}
Nearest(S, s) ==
    CHOOSE t \in Near(S, s) : \A u \in Near(S, s) :
        Gap(s, t) < Gap(s, u) \/ (Gap(s, t) = Gap(s, u) /\ t <= u)

\* _trim_buffers, with the clouds and the waiting results given
Trim(held, results) ==
    /\ frames' = Trimmed(held)
    /\ waiting' = {m \in Trimmed(results) :
                       frames' # {} => Newest(frames') - m <= Tolerance}

Cleared == seed' = None /\ base' = None /\ empties' = 0

\* A seeded fault: a frame that keeps the geometry renews the seed.
PublishRenewing(s, m, from) ==
    IF m # None /\ s - from <= Timeout
    THEN /\ seed' = m /\ base' = s /\ UNCHANGED empties
         /\ \/ out' = [stamp |-> s, seed |-> m]
            \/ UNCHANGED out
    ELSE Cleared /\ out' = [stamp |-> s, seed |-> None]

\* _process_frame: a mask within its time gives a cloud or, where the flow
\* and the depth leave too few points, nothing; otherwise the mask goes and an
\* empty cloud says so.
Publish(s, m, from) ==
    IF m # None /\ s - from <= Timeout
    THEN /\ seed' = m /\ base' = from /\ UNCHANGED empties
         /\ \/ out' = [stamp |-> s, seed |-> m]
            \/ UNCHANGED out
    ELSE Cleared /\ out' = [stamp |-> s, seed |-> None]

\* A frame is complete: the nearest waiting result is applied to it, unless
\* it seeds too few pixels, and the frame is processed.
Complete(s, held) ==
    IF Near(waiting, s) = {}
    THEN Publish(s, seed, base) /\ Trim(held, waiting)
    ELSE LET m == Nearest(waiting, s) IN
         /\ Publish(s, m, s) \/ Publish(s, seed, base)
         /\ Trim(held, waiting \ {m})

ReceiveRgb(s) ==
    /\ s > seen.rgb /\ seen' = [seen EXCEPT !.rgb = s]
    /\ images' = Trimmed(images \cup {s}) /\ UNCHANGED gone
    /\ IF s \in frames
       THEN Complete(s, frames) /\ paired' = (paired \cup {s}) \cap frames'
       ELSE /\ Trim(frames, waiting) /\ UNCHANGED <<paired, seed, base, empties, out>>

ReceiveRgbd(s) ==
    /\ s > seen.cloud /\ s % CloudEvery = 0 /\ seen' = [seen EXCEPT !.cloud = s]
    /\ UNCHANGED <<images, gone>>
    /\ IF s \in images
       THEN Complete(s, frames \cup {s}) /\ paired' = (paired \cup {s}) \cap frames'
       ELSE /\ Trim(frames \cup {s}, waiting) /\ paired' = paired \cap frames'
            /\ UNCHANGED <<seed, base, empties, out>>

\* _receive_model for a result with too few points once the robot's own are
\* filtered out
ReceiveEmpty(m) ==
    /\ m > seen.model /\ seen' = [seen EXCEPT !.model = m]
    /\ UNCHANGED <<images, frames, paired, waiting, out>>
    /\ IF empties + 1 >= ClearUpdates
       THEN Cleared /\ gone' = m
       ELSE empties' = empties + 1 /\ UNCHANGED <<seed, base, gone>>

\* and for one with points: it is applied to the frame of its own image, or
\* waits for the cloud.
ReceiveModel(m) ==
    /\ m > seen.model /\ seen' = [seen EXCEPT !.model = m]
    /\ empties' = 0 /\ UNCHANGED <<images, paired, out, gone>>
    /\ IF m \in paired
       THEN /\ UNCHANGED <<frames, waiting>>
            /\ \/ seed' = m /\ base' = m
               \/ UNCHANGED <<seed, base>>
       ELSE Trim(frames, waiting \cup {m}) /\ UNCHANGED <<seed, base>>

Next ==
    \E s \in Stamps :
        ReceiveRgb(s) \/ ReceiveRgbd(s) \/ ReceiveModel(s) \/ ReceiveEmpty(s)

ResamplerSpec == Init /\ [][Next]_vars

-----------------------------------------------------------------------------
\* However late images, clouds and results come, and whichever of them are
\* lost, an obstacle is never published with geometry from a result older than
\* the timeout and the tolerance allow, and clouds are published in the order
\* of their stamps.
GeometryIsFresh ==
    /\ out'.stamp >= out.stamp
    /\ out'.seed # None => out'.stamp - out'.seed <= Timeout + Tolerance

\* The comment in _receive_model: two empty results mean that the hand has
\* left, so no obstacle from an earlier result is published after them.
\* The code does not keep it.
ClearedStaysClear == out' # out /\ out'.seed # None => out'.seed > gone

=============================================================================

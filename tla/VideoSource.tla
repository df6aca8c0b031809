----------------------------- MODULE VideoSource -----------------------------
(***************************************************************************)
(* One input of the vision pipeline: a file, a camera, a network stream or *)
(* a ROS 2 topic (realtime_safety/pipeline/video_source.py).  Every method *)
(* holds the source's own lock, so each is one action.  Images are         *)
(* abstracted to their frame index; what the device answers is a           *)
(* nondeterministic choice.                                                *)
(***************************************************************************)
EXTENDS Integers, FiniteSetsExt

CONSTANTS
    MinDelay,    \* NETWORK_RECONNECT_INITIAL_DELAY_SECONDS
    MaxDelay,    \* NETWORK_RECONNECT_MAX_DELAY_SECONDS
    NoFrame      \* what read returns without a frame

VARIABLE source   \* the VideoSource object

States == {"stopped", "running", "paused", "ended"}
Kinds == {"file", "camera", "network", "ros2"}

Live(s) == s.kind # "file"
Remote(s) == s.kind \in {"network", "ros2"}

Fresh(kind, loop, length) ==
    [kind |-> kind, loop |-> loop, length |-> length,
     state |-> "stopped", open |-> FALSE, index |-> -1, next |-> 0, delay |-> MinDelay]

Closed(s) == [s EXCEPT !.open = FALSE, !.state = "stopped"]

Opened(s) ==
    [s EXCEPT !.open = TRUE, !.index = -1, !.next = 0, !.delay = MinDelay,
              !.state = "running"]

\* A network source that cannot be opened runs all the same and reconnects;
\* any other one is left closed and open raises.
Unopened(s) ==
    IF s.kind = "network"
    THEN [Closed(s) EXCEPT !.index = -1, !.delay = MinDelay, !.state = "running"]
    ELSE Closed(s)

Rewound(s) == [s EXCEPT !.index = -1, !.next = 0, !.state = "running"]

BackedOff(s) ==
    [s EXCEPT !.open = FALSE,
              !.delay = Min({Max({2 * @, MinDelay}), MaxDelay})]

Decoded(s) ==
    [s EXCEPT !.index = @ + 1, !.next = IF Live(s) THEN @ ELSE @ + 1,
              !.delay = IF s.kind = "network" THEN MinDelay ELSE @]

-----------------------------------------------------------------------------
Open ==
    \/ source' = Opened(source)
    \/ source.kind # "ros2" /\ source' = Unopened(source)

Pause == source.state = "running" /\ source' = [source EXCEPT !.state = "paused"]
Resume == source.state = "paused" /\ source' = [source EXCEPT !.state = "running"]
Stop == source' = Closed(source)

\* A file that is open is rewound; everything else is opened anew.
Restart ==
    IF ~Remote(source) /\ source.open THEN source' = Rewound(source) ELSE Open

Seek(position) ==
    /\ ~Live(source) /\ source.open
    /\ source' = [source EXCEPT !.next = position, !.index = position - 1]

-----------------------------------------------------------------------------
\* The outcomes of one grab from an open device: a file knows its end.
GrabFrame(s, frame) ==
    /\ s.kind = "file" => s.next < s.length
    /\ source' = Decoded(s) /\ frame = s.index + 1

GrabNothing(s, frame) ==
    /\ s.kind # "file" \/ s.next >= s.length
    /\ IF s.kind = "file" /\ s.loop
         THEN source' = Decoded(Rewound(s)) /\ frame = 0
         ELSE /\ frame = NoFrame
              /\ source' = IF s.kind = "network" THEN BackedOff(s)
                           ELSE [s EXCEPT !.state = "ended"]

Grab(s, frame) == GrabFrame(s, frame) \/ GrabNothing(s, frame)

\* A seeded fault: a stream that opens is taken for a healthy one.
ReconnectTrusting(frame) ==
    \/ Grab([source EXCEPT !.open = TRUE, !.delay = MinDelay], frame)
    \/ source' = BackedOff(source) /\ frame = NoFrame

\* A lost network stream is reopened once its delay has passed; a failure
\* doubles the delay, and only a decoded frame resets it.
Reconnect(frame) ==
    \/ Grab([source EXCEPT !.open = TRUE], frame)
    \/ source' = BackedOff(source) /\ frame = NoFrame

ReadTopic(frame) ==
    \/ source' = [source EXCEPT !.index = @ + 1] /\ frame = source.index + 1
    \/ source' = source /\ frame = NoFrame

Read(frame) ==
    /\ source.state = "running"
    /\ IF source.kind = "ros2" THEN source.open /\ ReadTopic(frame)
       ELSE IF source.open THEN Grab(source, frame)
       ELSE source.kind = "network" /\ Reconnect(frame)

-----------------------------------------------------------------------------
\* A source by itself; length is the number of frames of a file and bounds
\* those of a stream.
Init ==
    \E kind \in Kinds, loop \in BOOLEAN, length \in 1 .. 3 :
        source = Fresh(kind, loop, length)

Next ==
    \/ Open \/ Pause \/ Resume \/ Stop \/ Restart
    \/ \E position \in 0 .. source.length - 1 : Seek(position)
    \/ source.index < source.length /\ \E frame \in {NoFrame} \cup 0 .. source.length : Read(frame)

\* The frame numbers of a file are its positions, through seeks, loops and
\* restarts: the workers compare clouds and frames by them.
FramesAreCounted == ~Live(source) /\ source.open => source.next = source.index + 1

\* The delay before a reconnection only grows until a frame is decoded or the
\* source is opened anew: "Merely opening a TCP connection is insufficient"
\* (video_source.py:410-412).
BackOffIsKept ==
    source'.delay < source.delay =>
        /\ source'.delay = MinDelay
        /\ source'.index \in {-1, source.index + 1}

=============================================================================

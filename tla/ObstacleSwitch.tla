---------------------------- MODULE ObstacleSwitch ----------------------------
(***************************************************************************)
(* Which pipeline owns the controller's obstacle cloud and the arm         *)
(* relationships: ObstacleCloudMux (ros2_bridge/obstacle_cloud_mux.py),    *)
(* EdgeTAMRelationshipBridge (edge_relationship.py), the GUI's command and *)
(* the mode of the people worker (scheduler.py).  Four threads: the        *)
(* dashboard's command, the callbacks of the mux's node, the callbacks of  *)
(* the relationship node, and the people worker.  The mux changes under    *)
(* its lock and announces the change after it.                             *)
(***************************************************************************)
EXTENDS Integers

CONSTANTS
    Modes,         \* obstacle_perception.backend_options
    MaxRequests,   \* bound on the commands of the dashboard
    None

VARIABLES
    mux,        \* _requested_mode, _active_mode, _active_source, _pending_source, _state
    yoloCloud,  \* the age of _last_received_at["yolo"]: "none", "fresh", "stale"
    inbox,      \* per source, whether a candidate cloud waits for the mux
    acks,       \* per announcing thread, the status it still has to deliver
    request,    \* _requested_obstacle_backend_mode
    active,     \* _active_obstacle_backend_mode, the copy of the pipeline
    gui,        \* the command being handled: its step, the mode, the previous one
    worker,     \* the people worker: its step, pipeline_mode, last_pipeline_mode
    yolo,       \* the segmentation backend: "unloaded", "ready" or "failed"
    rel,        \* the relationship bridge: _active_mode and whose state is retained
    requests    \* commands so far

vars == <<mux, yoloCloud, inbox, acks, request, active, gui, worker, yolo, rel, requests>>
muxVars == <<mux, yoloCloud, inbox, acks>>

Sources == {"edge", "yolo"}
Source(mode) == IF mode = "yolo" THEN "yolo" ELSE "edge"
Idle == [pc |-> "idle", mode |-> None, previous |-> None]

Init ==
    /\ request \in Modes /\ active = request
    /\ mux = [req |-> request, act |-> request, src |-> Source(request),
              pending |-> None, state |-> "waiting"]
    /\ yoloCloud = "none" /\ inbox = [s \in Sources |-> FALSE]
    /\ acks = [t \in {"gui", "ros"} |-> None]
    /\ gui = Idle
    /\ worker = [pc |-> "idle", mode |-> request, last |-> request]
    /\ yolo = "unloaded" /\ rel = [mode |-> request, holds |-> None] /\ requests = 0

Status(m) == [requested |-> m.req, active |-> m.act, state |-> m.state]

-----------------------------------------------------------------------------
\* handle_command("obstacle_backend"): the wanted mode first, then the mux ...
Ask(mode) ==
    /\ gui.pc = "idle" /\ requests < MaxRequests /\ requests' = requests + 1
    /\ request' = mode
    /\ gui' = [pc |-> "mux", mode |-> mode, previous |-> request]
    /\ UNCHANGED <<muxVars, active, worker, yolo, rel>>

\* request_mode: at once when the source is the active one, else when its
\* first cloud comes.
AskMux ==
    /\ gui.pc \in {"mux", "undo"}
    /\ LET same == Source(gui.mode) = mux.src IN
       mux' = [mux EXCEPT !.req = gui.mode,
                          !.act = IF same THEN gui.mode ELSE @,
                          !.pending = IF same THEN None ELSE Source(gui.mode),
                          !.state = IF same THEN "active" ELSE "waiting"]
    /\ acks' = [acks EXCEPT !["gui"] = Status(mux')]
    /\ gui' = [gui EXCEPT !.pc = IF @ = "mux" THEN "announce" ELSE "announce_undo"]
    /\ UNCHANGED <<yoloCloud, inbox, request, active, worker, yolo, rel, requests>>

\* update_obstacle_mux_status
Announce(thread) ==
    /\ acks[thread] # None
    /\ active' = acks[thread].active
    /\ acks' = [acks EXCEPT ![thread] = None]
    /\ gui' = IF thread = "gui"
              THEN [gui EXCEPT !.pc = IF @ = "announce" THEN "control" ELSE "relate"] ELSE gui
    /\ UNCHANGED <<mux, yoloCloud, inbox, request, worker, yolo, rel, requests>>

\* set_mode of the relationship bridge: the retained state stays, and the
\* next sample to arrive is forwarded.
SetRelationshipMode(mode) == rel' = [rel EXCEPT !.mode = mode]

\* ... then the EdgeTAM controller and the relationship bridge.
Control ==
    /\ gui.pc = "control"
    /\ SetRelationshipMode(gui.mode) /\ gui' = Idle
    /\ UNCHANGED <<muxVars, request, active, worker, yolo, requests>>

\* The controller raised: the wanted mode, the mux and the bridge go back.
ControlFails ==
    /\ gui.pc = "control"
    /\ request' = gui.previous
    /\ gui' = [pc |-> "undo", mode |-> gui.previous, previous |-> None]
    /\ UNCHANGED <<muxVars, active, worker, yolo, rel, requests>>

Relate ==
    /\ gui.pc = "relate"
    /\ SetRelationshipMode(gui.mode) /\ gui' = Idle
    /\ UNCHANGED <<muxVars, request, active, worker, yolo, requests>>

-----------------------------------------------------------------------------
\* _on_source: the first cloud of the pending source makes it the active one.
Taken(source) ==
    IF source = mux.pending
    THEN [mux EXCEPT !.src = source, !.act = mux.req, !.pending = None, !.state = "active"]
    ELSE IF source = mux.src /\ mux.state = "error"
    THEN [mux EXCEPT !.state = IF mux.pending = None THEN "active" ELSE "waiting"]
    ELSE mux

OnSource(source) ==
    /\ inbox[source] /\ acks["ros"] = None
    /\ inbox' = [inbox EXCEPT ![source] = FALSE]
    /\ yoloCloud' = IF source = "yolo" THEN "fresh" ELSE yoloCloud
    /\ mux' = Taken(source)
    /\ acks' = IF mux' = mux THEN acks ELSE [acks EXCEPT !["ros"] = Status(mux')]
    /\ UNCHANGED <<request, active, gui, worker, yolo, rel, requests>>

\* Longer than stale_timeout_sec without a YOLO cloud.
Age ==
    /\ yoloCloud = "fresh" /\ yoloCloud' = "stale"
    /\ UNCHANGED <<mux, inbox, acks, request, active, gui, worker, yolo, rel, requests>>

\* _check_stale: reported, never left.
CheckStale ==
    /\ acks["ros"] = None /\ mux.src = "yolo" /\ yoloCloud = "stale" /\ mux.state # "error"
    /\ mux' = [mux EXCEPT !.state = "error"]
    /\ acks' = [acks EXCEPT !["ros"] = Status(mux')]
    /\ UNCHANGED <<yoloCloud, inbox, request, active, gui, worker, yolo, rel, requests>>

-----------------------------------------------------------------------------
\* The tracked-obstacle node keeps publishing its cloud and its tracks, in
\* every mode; handle_message forwards them while Edge owns the relationships.
EdgeCloud ==
    /\ ~inbox["edge"] /\ inbox' = [inbox EXCEPT !["edge"] = TRUE]
    /\ UNCHANGED <<mux, yoloCloud, acks, request, active, gui, worker, yolo, rel, requests>>

EdgeSample ==
    /\ rel.mode # "yolo" /\ rel' = [rel EXCEPT !.holds = "edge"]
    /\ UNCHANGED <<muxVars, request, active, gui, worker, yolo, requests>>

-----------------------------------------------------------------------------
\* A seeded fault: YOLO runs for the source that is active only.
NeedsActiveOnly(r, a) == a = "yolo"

\* _needs_yolo_pipeline
NeedsYolo(r, a) == "yolo" \in {r, a}

\* One turn of the people worker: the modes are read, the segmentation
\* model is loaded when YOLO runs for the first time; the branch follows.
ReadModes ==
    /\ worker.pc = "idle"
    /\ LET needs == NeedsYolo(request, active) IN
       /\ worker' = [worker EXCEPT !.pc = "branch", !.mode = IF needs THEN "yolo" ELSE active]
       /\ IF needs /\ yolo = "unloaded" THEN yolo' \in {"ready", "failed"} ELSE UNCHANGED yolo
    /\ UNCHANGED <<muxVars, request, active, gui, rel, requests>>

\* A seeded fault: the mode read at the start of the turn decides.
YoloPublishesBlindly == rel' = [rel EXCEPT !.holds = "yolo"]

\* publish of the bridge: ignored while Edge owns the relationships, also
\* when the inference began before the switch.
YoloPublishes == rel' = IF rel.mode = "yolo" THEN [rel EXCEPT !.holds = "yolo"] ELSE rel

\* The YOLO branch publishes a candidate cloud and a relationship, without a
\* model only an empty relationship; the Edge branch clears the relationship
\* when the mode has changed.
Branch ==
    /\ worker.pc = "branch"
    /\ worker' = [worker EXCEPT !.pc = "idle", !.last = worker.mode]
    /\ IF worker.mode = "yolo" \/ worker.mode # worker.last THEN YoloPublishes
       ELSE UNCHANGED rel
    /\ inbox' = IF worker.mode = "yolo" /\ yolo = "ready" THEN [inbox EXCEPT !["yolo"] = TRUE]
                ELSE inbox
    /\ UNCHANGED <<mux, yoloCloud, acks, request, active, gui, yolo, requests>>

-----------------------------------------------------------------------------
Gui == AskMux \/ Announce("gui") \/ Control \/ ControlFails \/ Relate
Worker == ReadModes \/ Branch

Next ==
    \/ \E mode \in Modes : Ask(mode)
    \/ Gui \/ Worker
    \/ Announce("ros") \/ CheckStale \/ Age
    \/ \E source \in Sources : OnSource(source)
    \/ EdgeCloud \/ EdgeSample

\* The threads run, the executor serves every topic, and the tracked-obstacle
\* node publishes.
Fairness ==
    /\ WF_vars(Gui) /\ WF_vars(Worker) /\ WF_vars(Announce("ros"))
    /\ WF_vars(EdgeCloud) /\ \A source \in Sources : SF_vars(OnSource(source))

SwitchSpec == Init /\ [][Next]_vars /\ Fairness

-----------------------------------------------------------------------------
\* The mode the operator asked for last takes over, from whatever request,
\* rollback and announcement came before; only YOLO without a model does not
\* (request_mode, _on_source and _needs_yolo_pipeline together).
Completed == gui = Idle /\ (mux.act = request \/ (request = "yolo" /\ yolo = "failed"))

SwitchCompletes == <>[]Completed

\* Once the operator has left YOLO no YOLO inference, not even one that was
\* running, replaces a relationship of Edge, and the other way round.
NoEcho ==
    rel'.holds # rel.holds => (rel'.holds = "yolo") = (rel.mode = "yolo")

\* _needs_yolo_pipeline: "Keep YOLO alive until a requested Edge source
\* actually takes over", whenever every acknowledgement has been delivered.
\* The code does not keep it.
YoloStaysAlive ==
    (\A thread \in DOMAIN acks : acks[thread] = None) /\ mux.src = "yolo"
        => NeedsYolo(request, active)

=============================================================================

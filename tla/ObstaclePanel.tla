----------------------------- MODULE ObstaclePanel -----------------------------
(***************************************************************************)
(* The panel that tells the operator which pipeline feeds the controller's *)
(* obstacle cloud and whether its output is held: Dashboard                *)
(* .update_obstacle_backend_status (gui/dashboard.py).  Four threads write *)
(* it without a lock: the operator's command (scheduler.py), the callbacks *)
(* of the obstacle-cloud mux, those of the EdgeTAM control bridge          *)
(* (update_edge_status, app.py), and the people worker.  Each looks at the *)
(* mode first and writes later.  The mux and the control bridge have       *)
(* modules of their own (ObstacleSwitch, EdgeTamControl); here they only   *)
(* switch.                                                                 *)
(***************************************************************************)
EXTENDS Integers

CONSTANTS
    Modes,        \* obstacle_perception.backend_options
    MaxRequests,  \* bound on the commands of the operator
    MaxHolds,     \* bound on the changes of the tracker's safety output
    None

VARIABLES
    request,  \* _requested_obstacle_backend_mode
    active,   \* _active_obstacle_backend_mode, the copy of the pipeline
    mux,      \* requested and active mode of the mux
    edge,     \* requested and active mode of the control bridge
    held,     \* safety_output_state of the tracked-obstacle node starts with "held_"
    yolo,     \* the YOLO model is loaded
    gui,      \* the command being handled: its step, the mode, the previous one
    due,      \* per thread, what it has decided to write and not yet written
    panel,    \* backend, state and held as shown
    bounds

vars == <<request, active, mux, edge, held, yolo, gui, due, panel, bounds>>

Threads == {"gui", "mux", "edge", "worker"}
Shown(backend, state, isHeld) == [backend |-> backend, state |-> state, held |-> isHeld]
EdgeMode(mode) == IF mode = "yolo" THEN "pointcloud" ELSE mode
Idle == [pc |-> "idle", mode |-> None, previous |-> None]

Init ==
    /\ request \in Modes /\ active = request
    /\ mux = [req |-> request, act |-> request]
    /\ edge = [req |-> EdgeMode(request), act |-> EdgeMode(request)]
    /\ held = FALSE /\ yolo \in BOOLEAN /\ gui = Idle
    /\ due = [t \in Threads |-> None]
    /\ panel = Shown(request, "waiting", FALSE)
    /\ bounds = [requests |-> 0, holds |-> 0]

-----------------------------------------------------------------------------
\* A seeded fault: the Edge callbacks write whatever is asked for.
EdgeWritesAlways(wanted, e, isHeld) ==
    Shown(IF e.req # e.act THEN e.req ELSE e.act,
          IF e.req # e.act THEN "loading" ELSE "active", isHeld)

\* update_edge_status: nothing while YOLO is asked for.
EdgeWrites(wanted, e, isHeld) ==
    IF wanted = "yolo" THEN None
    ELSE Shown(IF e.req # e.act THEN e.req ELSE e.act,
               IF e.req # e.act THEN "loading" ELSE "active", isHeld)

\* update_obstacle_mux_status: the mode asked for while it is waited for.
MuxWrites(m) ==
    Shown(IF m.req # m.act THEN m.req ELSE m.act,
          IF m.req # m.act THEN "waiting" ELSE "active", FALSE)

\* update_obstacle_backend_status: the last write is what is shown.
Write(thread) ==
    /\ due[thread] # None
    /\ panel' = due[thread] /\ due' = [due EXCEPT ![thread] = None]

\* A thread that decides while it owes a write would be two threads.
Decide(thread, what) == due[thread] = None /\ due' = [due EXCEPT ![thread] = what]

-----------------------------------------------------------------------------
\* handle_command: the wanted mode, the panel, the mux, the control bridge.
Ask(mode) ==
    /\ gui.pc = "idle" /\ bounds.requests < MaxRequests
    /\ bounds' = [bounds EXCEPT !.requests = @ + 1]
    /\ request' = mode /\ gui' = [pc |-> "mux", mode |-> mode, previous |-> request]
    /\ Decide("gui", Shown(mode, "loading", FALSE))
    /\ UNCHANGED <<active, mux, edge, held, yolo, panel>>

\* request_mode of the mux: Edge modes share a source and take over at once.
AskMux ==
    /\ gui.pc \in {"mux", "undo"}
    /\ mux' = [req |-> gui.mode,
               act |-> IF (gui.mode = "yolo") = (mux.act = "yolo") THEN gui.mode ELSE mux.act]
    /\ Decide("gui", MuxWrites(mux')) /\ active' = mux'.act
    /\ gui' = [gui EXCEPT !.pc = IF @ = "mux" THEN "control" ELSE "error"]
    /\ UNCHANGED <<request, edge, held, yolo, panel, bounds>>

\* request_mode of the control bridge, whose status is announced on this thread.
AskControl ==
    /\ gui.pc = "control"
    /\ edge' = [edge EXCEPT !.req = EdgeMode(gui.mode)]
    /\ Decide("gui", EdgeWrites(request, edge', held)) /\ gui' = Idle
    /\ UNCHANGED <<request, active, mux, held, yolo, panel, bounds>>

\* It raised: the wanted mode and the mux go back, and the panel says so.
ControlFails ==
    /\ gui.pc = "control" /\ due["gui"] = None
    /\ request' = gui.previous
    /\ gui' = [pc |-> "undo", mode |-> gui.previous, previous |-> None]
    /\ UNCHANGED <<active, mux, edge, held, yolo, due, panel, bounds>>

TellError ==
    /\ gui.pc = "error" /\ Decide("gui", Shown(gui.mode, "error", FALSE)) /\ gui' = Idle
    /\ UNCHANGED <<request, active, mux, edge, held, yolo, panel, bounds>>

-----------------------------------------------------------------------------
\* _on_source: the first cloud of the source waited for; YOLO needs its model.
MuxTakes ==
    /\ mux.req # mux.act /\ (mux.req = "yolo" => yolo)
    /\ mux' = [mux EXCEPT !.act = mux.req]
    /\ Decide("mux", MuxWrites(mux')) /\ active' = mux.req
    /\ UNCHANGED <<request, edge, held, yolo, gui, panel, bounds>>

\* The tracked-obstacle node holds its output or publishes again.
Hold ==
    /\ bounds.holds < MaxHolds /\ bounds' = [bounds EXCEPT !.holds = @ + 1]
    /\ held' = ~held
    /\ UNCHANGED <<request, active, mux, edge, yolo, gui, due, panel>>

\* _on_diagnostics: the node's diagnostics keep coming in every mode, and
\* an answered request takes effect.
Diagnostics ==
    /\ edge' = [edge EXCEPT !.act = edge.req]
    /\ Decide("edge", EdgeWrites(request, edge', held))
    /\ UNCHANGED <<request, active, mux, held, yolo, gui, panel, bounds>>

\* The people worker tells of YOLO while YOLO is asked for or still active.
TellYolo ==
    /\ "yolo" \in {request, active} /\ yolo
    /\ Decide("worker", Shown("yolo", IF active = "yolo" THEN "active" ELSE "loading", FALSE))
    /\ UNCHANGED <<request, active, mux, edge, held, yolo, gui, panel, bounds>>

WriteOf(thread) ==
    Write(thread) /\ UNCHANGED <<request, active, mux, edge, held, yolo, gui, bounds>>

-----------------------------------------------------------------------------
Gui == AskMux \/ AskControl \/ ControlFails \/ TellError

Next ==
    \/ \E mode \in Modes : Ask(mode)
    \/ Gui \/ MuxTakes \/ Hold \/ Diagnostics \/ TellYolo
    \/ \E thread \in Threads : WriteOf(thread)

\* The threads run, and the node's diagnostics and the clouds keep coming.
Fairness ==
    /\ WF_vars(Gui) /\ WF_vars(MuxTakes) /\ WF_vars(Diagnostics) /\ WF_vars(TellYolo)
    /\ \A thread \in Threads : WF_vars(WriteOf(thread))

PanelSpec == Init /\ [][Next]_vars /\ Fairness

-----------------------------------------------------------------------------
\* However the four writers interleave, the panel settles on the pipeline that
\* feeds the controller, and on whether the tracker's output is held when that
\* is the tracker (handle_command, update_obstacle_mux_status,
\* update_edge_status and the people worker together); only YOLO without a
\* model never comes.
Settled ==
    \/ request = "yolo" /\ ~yolo
    \/ panel.backend = mux.act /\ panel.held = (held /\ mux.act # "yolo")

PanelSettles == <>[]Settled

\* update_edge_status: "Edge diagnostics continue in the background, but must
\* not move the effective GUI selection away from the YOLO mux."
\* The code does not keep it.
EdgeKeepsOff ==
    due["edge"] # None /\ due'["edge"] = None => request # "yolo"

=============================================================================

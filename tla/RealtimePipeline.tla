--------------------------- MODULE RealtimePipeline ---------------------------
(***************************************************************************)
(* The threads of the vision pipeline (realtime_safety/scheduler.py): the  *)
(* capture worker, the fast-perception and safety workers of the safety    *)
(* mode or the people worker of the reconstruction mode, the 3-D worker,   *)
(* the renderer that decides when a run is over, and the dashboard thread  *)
(* that starts, rewinds and stops the source.  An action is a section      *)
(* under one lock, or a queue operation; between two of them every other   *)
(* thread may move.  A frame is its index and the epoch of the source it   *)
(* was read in; the epoch is a ghost that tells a stale frame from one of  *)
(* the input that plays now.                                               *)
(***************************************************************************)
EXTENDS Integers, Sequences

CONSTANTS
    MinDelay, MaxDelay, NoFrame,
    QueueSize,     \* video.queue_size
    Commands,      \* the commands the dashboard sends
    Plans          \* the runs: config.mode, the length of the file, max_frames (0 for none)
                   \* and a bound on the commands and failed inferences

ASSUME PipelineAssumption ==
    /\ QueueSize \in Nat \ {0}
    /\ \A plan \in Plans :
         /\ plan.mode \in {"safety", "reconstruction"} /\ plan.length \in Nat \ {0}
         /\ plan.limit \in Nat /\ plan.incidents \in Nat
    \* the number of incidents left tells whether there has been one
    /\ \A plan, other \in Plans :
         plan.mode = other.mode /\ plan.length = other.length =>
             plan.incidents = other.incidents
    /\ Commands \subseteq {"pause_resume", "stop", "restart", "seek", "start"}

VARIABLES
    mode,        \* config.mode
    source,      \* _source
    run,         \* identity of the source, _max_frames (0 for none),
                 \* _capture_complete, _source_done,
                 \* _final_frame_index and _captured_frames
    state,       \* what _state_lock guards
    queues,      \* capture_queue and reconstruction_queue
    epoch,       \* ghost: how often the source was replaced or moved
    capture, fast, recon, people, safety, renderer, gui,  \* the threads' locals
    left         \* how many more incidents there may be

threads == <<capture, fast, recon, people, safety, renderer, gui>>
vars == <<mode, source, run, state, queues, epoch, threads, left>>

Player == INSTANCE VideoSource

\* A frame is its index and the epoch it was read in.
Frames == [i : Nat, e : Nat]

ASSUME NoFrameAssumption == NoFrame \notin Int /\ NoFrame \notin Frames

\* The bounded queues between the capture worker and its consumers
\* (pipeline/frame_queue.py).  put_latest: a full queue loses its oldest item.
PutLatest(q, item, size) ==
    IF Len(q) >= size THEN Append(Tail(q), item) ELSE Append(q, item)

\* get_latest: the newest item; the queue is drained.
Latest(q) == q[Len(q)]
Drained == <<>>

Init ==
    /\ \E plan \in Plans :
         /\ mode = plan.mode
         /\ source = Player!Opened(Player!Fresh("file", FALSE, plan.length))
         /\ run = [id |-> 0, complete |-> FALSE, done |-> FALSE, final |-> -1,
                   captured |-> 0, limit |-> plan.limit]
         /\ left = plan.incidents
    /\ state = [latest |-> NoFrame, perception |-> NoFrame, cloud |-> NoFrame,
                version |-> 0, resets |-> 0, safety |-> FALSE,
                safetyVersion |-> -1, peopleVersion |-> -1]
    /\ queues = [fast |-> <<>>, recon |-> <<>>]
    /\ epoch = 0
    /\ capture = [pc |-> "read", frame |-> NoFrame, last |-> -1, id |-> 0]
    /\ fast = [pc |-> "take", frame |-> NoFrame]
    /\ recon = [pc |-> "take", frame |-> NoFrame, pending |-> NoFrame]
    /\ people = [pc |-> "look", version |-> 0, handled |-> -1]
    /\ safety = [pc |-> "tick", version |-> 0, handled |-> -1, resets |-> 0]
    /\ renderer = [pc |-> "look", seen |-> NoFrame]
    /\ gui = [pc |-> "idle"]

-----------------------------------------------------------------------------
\* _reset_runtime_state: the queues are emptied without a lock, then the
\* state is reset under its lock.
Emptied == queues' = [fast |-> Drained, recon |-> Drained]

Cleared ==
    state' = [state EXCEPT !.latest = NoFrame, !.perception = NoFrame,
                !.cloud = NoFrame, !.version = 0, !.resets = @ + 1,
                !.safety = FALSE, !.safetyVersion = -1, !.peopleVersion = -1]

\* _capture_worker.  A frame whose index does not grow resets the pipeline.
FirstPut == IF mode = "safety" THEN "put" ELSE "put3d"

CaptureRead ==
    /\ capture.pc = "read"
    /\ \E i \in 0 .. source.length - 1 :
         LET last == IF capture.id = run.id THEN capture.last ELSE -1
             now == IF i <= source.index THEN epoch + 1 ELSE epoch
         IN /\ Player!Read(i)
            /\ epoch' = now
            /\ capture' = [pc |-> IF i <= last THEN "clear" ELSE FirstPut,
                           frame |-> [i |-> i, e |-> now], last |-> i, id |-> run.id]
    /\ UNCHANGED <<mode, run, state, queues, fast, recon, people, safety, renderer, gui, left>>

CaptureFindsEnd ==
    /\ capture.pc = "read" /\ Player!Read(NoFrame)
    /\ UNCHANGED <<mode, run, state, queues, epoch, threads, left>>

CaptureSeesEnd ==
    /\ capture.pc = "read" /\ source.state = "ended" /\ ~run.complete
    /\ capture' = [capture EXCEPT !.pc = "ended"]
    /\ UNCHANGED <<mode, source, run, state, queues, epoch, fast, recon, people,
                   safety, renderer, gui, left>>

CaptureReportsEnd ==
    /\ capture.pc = "ended"
    /\ run' = [run EXCEPT !.complete = TRUE]
    /\ capture' = [capture EXCEPT !.pc = "read"]
    /\ UNCHANGED <<mode, source, state, queues, epoch, fast, recon, people, safety,
                   renderer, gui, left>>

CaptureStep(from, to) ==
    /\ capture.pc = from /\ capture' = [capture EXCEPT !.pc = to]
    /\ UNCHANGED <<mode, epoch, fast, recon, people, safety, renderer, gui, left>>

CaptureClears ==
    CaptureStep("clear", "reset") /\ Emptied /\ UNCHANGED <<source, run, state>>
CaptureResets ==
    CaptureStep("reset", FirstPut) /\ Cleared /\ UNCHANGED <<source, run, queues>>

CapturePuts ==
    /\ CaptureStep("put", "put3d")
    /\ queues' = [queues EXCEPT !.fast = PutLatest(@, capture.frame, QueueSize)]
    /\ UNCHANGED <<source, run, state>>

CapturePuts3d ==
    /\ CaptureStep("put3d", "store")
    /\ queues' = [queues EXCEPT !.recon = PutLatest(@, capture.frame, QueueSize)]
    /\ UNCHANGED <<source, run, state>>

CaptureStores ==
    /\ CaptureStep("store", "count")
    /\ state' = [state EXCEPT !.latest = capture.frame]
    /\ UNCHANGED <<source, run, queues>>

\* The last frame asked for stops the source it was read from, which may
\* have been replaced meanwhile.
CaptureCounts ==
    LET last == run.limit # 0 /\ run.captured + 1 >= run.limit IN
    /\ capture.pc = "count"
    /\ capture' = [capture EXCEPT !.pc = "read", !.frame = NoFrame]
    /\ run' = [run EXCEPT !.captured = @ + 1, !.final = capture.frame.i,
                          !.complete = @ \/ last]
    /\ source' = IF last /\ capture.id = run.id THEN Player!Closed(source) ELSE source
    /\ UNCHANGED <<mode, state, queues, epoch, fast, recon, people, safety, renderer,
                   gui, left>>

Capture ==
    \/ CaptureRead \/ CaptureFindsEnd \/ CaptureSeesEnd \/ CaptureReportsEnd
    \/ CaptureClears \/ CaptureResets \/ CapturePuts \/ CapturePuts3d
    \/ CaptureStores \/ CaptureCounts

-----------------------------------------------------------------------------
\* _fast_worker: detections on the newest frame, also when the segmentation
\* raises (the tracker then predicts).
FastTakes ==
    /\ mode = "safety" /\ fast.pc = "take" /\ queues.fast # <<>>
    /\ fast' = [pc |-> "append", frame |-> Latest(queues.fast)]
    /\ queues' = [queues EXCEPT !.fast = Drained]
    /\ UNCHANGED <<mode, source, run, state, epoch, capture, recon, people, safety,
                   renderer, gui, left>>

FastAppends ==
    /\ fast.pc = "append"
    /\ fast' = [pc |-> "take", frame |-> NoFrame]
    /\ state' = [state EXCEPT !.perception = fast.frame]
    /\ UNCHANGED <<mode, source, run, queues, epoch, capture, recon, people, safety,
                   renderer, gui, left>>

-----------------------------------------------------------------------------
\* _reconstruction_worker once its method is loaded.  A frame whose turn the
\* rate limit delays is kept as pending and gives way to a newer one.
\* A seeded fault: a frame that the rate limit delays is dropped.
ReconTakesOrDrops(due) ==
    /\ recon.pc = "take" /\ queues.recon # <<>>
    /\ recon' = IF due THEN [recon EXCEPT !.pc = "infer", !.frame = Latest(queues.recon)]
                ELSE recon
    /\ queues' = [queues EXCEPT !.recon = Drained]
    /\ UNCHANGED <<mode, source, run, state, epoch, capture, fast, people, safety,
                   renderer, gui, left>>

ReconTakes(due) ==
    /\ recon.pc = "take"
    /\ recon.pending # NoFrame \/ queues.recon # <<>>
    /\ LET frame == IF queues.recon # <<>> THEN Latest(queues.recon) ELSE recon.pending
           base == [recon EXCEPT !.pending = NoFrame]
       IN recon' = IF due THEN [base EXCEPT !.pc = "infer", !.frame = frame]
                   ELSE [base EXCEPT !.pending = frame]
    /\ queues' = [queues EXCEPT !.recon = Drained]
    /\ UNCHANGED <<mode, source, run, state, epoch, capture, fast, people, safety,
                   renderer, gui, left>>

\* A seeded fault: only a cloud with a higher frame index is installed.
ReconStoresNewer ==
    /\ recon.pc = "infer"
    /\ state' = IF state.cloud # NoFrame /\ state.cloud.i >= recon.frame.i THEN state
                ELSE [state EXCEPT !.cloud = recon.frame, !.version = @ + 1]
    /\ recon' = [recon EXCEPT !.pc = "take", !.frame = NoFrame]
    /\ UNCHANGED <<mode, source, run, queues, epoch, capture, fast, people, safety,
                   renderer, gui, left>>

ReconStores ==
    /\ recon.pc = "infer"
    /\ state' = [state EXCEPT !.cloud = recon.frame, !.version = @ + 1]
    /\ recon' = [recon EXCEPT !.pc = "take", !.frame = NoFrame]
    /\ UNCHANGED <<mode, source, run, queues, epoch, capture, fast, people, safety,
                   renderer, gui, left>>

\* An inference that raises loses its frame.
ReconFails ==
    /\ recon.pc = "infer" /\ left > 0 /\ left' = left - 1
    /\ recon' = [recon EXCEPT !.pc = "take", !.frame = NoFrame]
    /\ UNCHANGED <<mode, source, run, state, queues, epoch, capture, fast, people,
                   safety, renderer, gui>>

Recon == (\E due \in BOOLEAN : ReconTakes(due)) \/ ReconStores \/ ReconFails

-----------------------------------------------------------------------------
\* _people_worker: tracks for the newest cloud, once per version.  An
\* extraction that raises publishes empty tracks for that version.
PeopleLooks ==
    /\ mode = "reconstruction" /\ people.pc = "look"
    /\ state.cloud # NoFrame /\ state.version # people.handled
    /\ people' = [people EXCEPT !.pc = "store", !.version = state.version]
    /\ UNCHANGED <<mode, source, run, state, queues, epoch, capture, fast, recon,
                   safety, renderer, gui, left>>

PeopleStores ==
    /\ people.pc = "store"
    /\ people' = [pc |-> "look", version |-> 0, handled |-> people.version]
    /\ state' = [state EXCEPT !.peopleVersion = people.version]
    /\ UNCHANGED <<mode, source, run, queues, epoch, capture, fast, recon, safety,
                   renderer, gui, left>>

-----------------------------------------------------------------------------
\* _safety_worker.  It looks at the state, at the reset counter and at the
\* perceptions in three separate sections; min over the perceptions raises
\* when a reset has emptied them in between, and nothing catches it.
SafetyStep(from, to) ==
    /\ mode = "safety" /\ safety.pc = from
    /\ UNCHANGED <<mode, source, run, queues, epoch, capture, fast, recon, people,
                   renderer, gui, left>>

SafetyLooks ==
    /\ SafetyStep("tick", "check")
    /\ state.perception # NoFrame
    /\ safety' = [safety EXCEPT !.pc = "check", !.version = state.version]
    /\ UNCHANGED state

SafetyChecks ==
    /\ SafetyStep("check", "align")
    /\ LET handled == IF safety.resets # state.resets THEN -1 ELSE safety.handled
           fresh == safety.version > 0 /\ safety.version # handled
       IN safety' = [safety EXCEPT !.resets = state.resets, !.handled = handled,
                                   !.pc = IF fresh THEN "align" ELSE "decide"]
    /\ UNCHANGED state

SafetyAligns ==
    /\ SafetyStep("align", "decide")
    /\ safety' = IF state.perception = NoFrame THEN [safety EXCEPT !.pc = "dead"]
                 ELSE [safety EXCEPT !.pc = "decide", !.handled = safety.version]
    /\ UNCHANGED state

SafetyDecides ==
    /\ SafetyStep("decide", "tick")
    /\ safety' = [safety EXCEPT !.pc = "tick", !.version = 0]
    /\ state' = [state EXCEPT !.safety = TRUE, !.safetyVersion = safety.handled]

Safety == SafetyLooks \/ SafetyChecks \/ SafetyAligns \/ SafetyDecides

-----------------------------------------------------------------------------
\* _renderer_worker, as far as it decides that the run is over: from one
\* snapshot of the state, and flags and indices read later.
Index(frame) == IF frame = NoFrame THEN -1 ELSE frame.i

Snapshot ==
    [last |-> Index(IF mode = "safety" THEN state.perception ELSE state.latest),
     cloud |-> Index(state.cloud),
     handled |-> IF mode = "safety"
                 THEN state.safety /\ state.safetyVersion >= state.version
                 ELSE state.peopleVersion >= state.version]

\* A seeded fault: the end is declared without waiting for the 3-D branch.
OverUnhandled(seen) == run.complete /\ seen.last # -1 /\ seen.last >= run.final

Over(seen) ==
    /\ run.complete /\ seen.handled
    /\ seen.last # -1 /\ seen.last >= run.final
    /\ seen.cloud # -1 /\ seen.cloud >= run.final

RendererLooks ==
    /\ renderer.pc = "look" /\ state.latest # NoFrame
    /\ renderer' = [pc |-> "check", seen |-> Snapshot]
    /\ UNCHANGED <<mode, source, run, state, queues, epoch, capture, fast, recon,
                   people, safety, gui, left>>

RendererChecks ==
    /\ renderer.pc = "check"
    /\ renderer' = [pc |-> IF Over(renderer.seen) THEN "finish" ELSE "look",
                    seen |-> NoFrame]
    /\ UNCHANGED <<mode, source, run, state, queues, epoch, capture, fast, recon,
                   people, safety, gui, left>>

RendererFinishes ==
    /\ renderer.pc = "finish"
    /\ renderer' = [renderer EXCEPT !.pc = "look"]
    /\ run' = [run EXCEPT !.done = TRUE]
    /\ UNCHANGED <<mode, source, state, queues, epoch, capture, fast, recon, people,
                   safety, gui, left>>

Renderer == RendererLooks \/ RendererChecks \/ RendererFinishes

-----------------------------------------------------------------------------
\* handle_command and start_source, on the dashboard's thread.
Command(name, then) ==
    /\ gui.pc = "idle" /\ name \in Commands /\ left > 0 /\ left' = left - 1
    /\ gui' = [gui EXCEPT !.pc = then]
    /\ UNCHANGED <<mode, state, queues, capture, fast, recon, people, safety, renderer>>

PauseSource ==
    /\ Command("pause_resume", "idle") /\ Player!Pause /\ UNCHANGED <<run, epoch>>

ResumeSource ==
    /\ gui.pc = "idle" /\ Player!Resume
    /\ UNCHANGED <<mode, run, state, queues, epoch, threads, left>>

StopSource ==
    /\ Command("stop", "idle") /\ Player!Stop
    /\ run' = [run EXCEPT !.complete = TRUE, !.done = TRUE]
    /\ UNCHANGED epoch

RestartSource ==
    /\ Command("restart", "clear") /\ source' = Player!Opened(source)
    /\ run' = [run EXCEPT !.complete = FALSE, !.done = FALSE]
    /\ epoch' = epoch + 1

SeekSource ==
    /\ Command("seek", "clear") /\ \E position \in 0 .. source.length - 1 : Player!Seek(position)
    /\ epoch' = epoch + 1 /\ UNCHANGED run

StartSource ==
    /\ Command("start", "clear")
    /\ source' = Player!Opened(Player!Fresh("file", FALSE, source.length))
    /\ run' = [id |-> run.id + 1, complete |-> FALSE, done |-> FALSE, final |-> -1,
               captured |-> 0, limit |-> 0]
    /\ epoch' = epoch + 1

GuiStep(from, to) ==
    /\ gui.pc = from /\ gui' = [gui EXCEPT !.pc = to]
    /\ UNCHANGED <<mode, source, run, epoch, capture, fast, recon, people, safety, renderer, left>>

GuiClears == GuiStep("clear", "reset") /\ Emptied /\ UNCHANGED state
GuiResets == GuiStep("reset", "idle") /\ Cleared /\ UNCHANGED queues

Gui ==
    \/ PauseSource \/ ResumeSource \/ StopSource \/ RestartSource \/ SeekSource \/ StartSource
    \/ GuiClears \/ GuiResets

-----------------------------------------------------------------------------
Next ==
    \/ Capture \/ FastTakes \/ FastAppends \/ Recon \/ PeopleLooks \/ PeopleStores
    \/ Safety \/ Renderer \/ Gui

\* Every thread loops for as long as the program runs, and a rate limit
\* delays a frame but never for ever.
PipelineSpec ==
    /\ Init /\ [][Next]_vars
    /\ WF_vars(Capture) /\ WF_vars(FastTakes \/ FastAppends)
    /\ WF_vars(ReconTakes(TRUE)) /\ WF_vars(ReconStores \/ ReconFails)
    /\ WF_vars(PeopleLooks \/ PeopleStores) /\ WF_vars(Safety) /\ WF_vars(Renderer)
    /\ WF_vars(GuiClears \/ GuiResets)

-----------------------------------------------------------------------------
Untroubled ==
    \E plan \in Plans :
        /\ plan.mode = mode /\ plan.length = source.length /\ left = plan.incidents

\* A run that nobody interferes with is declared over only when its last
\* frame has been perceived, reconstructed and judged, and no thread or
\* queue holds another one (the end of _renderer_worker against every
\* other worker).
EndIsEarned ==
    renderer.pc = "finish" /\ Untroubled =>
        /\ Index(state.latest) = source.index /\ Index(state.cloud) = source.index
        /\ queues.fast = <<>> /\ queues.recon = <<>> /\ recon.pending = NoFrame
        /\ IF mode = "safety" THEN state.safetyVersion = state.version
           ELSE state.peopleVersion = state.version

\* ... and it does end, whatever the queues drop and the rate limits delay:
\* app.py --headless waits for _source_done.
EveryRunEnds == <>(run.done \/ ~Untroubled)

\* A reset takes no notice of the frame a worker holds, so geometry of the
\* old input can come back after it.  A frame of the new input that is
\* captured after the reset replaces it
Stale == state.cloud # NoFrame /\ state.cloud.e # epoch
StaleGeometryGoes ==
    (Stale /\ gui.pc = "idle" /\ capture.pc = "put3d" /\ capture.frame.e = epoch)
        ~> ~Stale

\* README.md: "Every safety tick predicts the latest 3D states forward ...
\* and publishes a current decision."
\* The code does not keep it.
SafetyKeepsTicking == safety.pc # "dead"

=============================================================================

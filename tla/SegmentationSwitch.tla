-------------------------- MODULE SegmentationSwitch --------------------------
(***************************************************************************)
(* Changing the segmentation model while the pipeline runs                 *)
(* (realtime_safety/scheduler.py with the status line of                   *)
(* realtime_safety/gui/dashboard.py).  The dashboard's thread queues a     *)
(* request under a lock and announces it after the lock is released; the   *)
(* inference worker loads a candidate without any lock, swaps it in under  *)
(* the lock when the request is still the newest, and closes whatever it   *)
(* no longer needs.                                                        *)
(***************************************************************************)
EXTENDS Integers, FiniteSets

CONSTANTS
    Models,         \* the allowlisted models whose files exist
    Unknown,        \* a model that request_segmentation_model refuses
    MaxGeneration,  \* bound on _segmentation_switch_generation
    None

VARIABLES
    request,        \* _segmentation_switch_request: None or generation and model
    generation,     \* _segmentation_switch_generation
    active,         \* _active_segmentation_model
    backend,        \* segmentation: the installed backend
    ready,          \* _models_ready["segmentation"]
    errors,         \* the segmentation keys of _errors
    opened,         \* backends created and not yet closed
    preflight,      \* require_tracking_preflight: the people worker
    frame,          \* whether a frame for the preflight is there
    needed,         \* whether the obstacle pipeline needs YOLO now
    stopping,       \* _stop_event
    worker,         \* the inference worker's step and locals
    gui,            \* the dashboard thread's step and locals
    shown           \* what the dashboard's status line says

switchVars == <<request, generation, active, backend, ready, errors>>
vars == <<switchVars, opened, preflight, frame, needed, stopping, worker, gui, shown>>

\* A backend is its model and the request that created it.
Backend(model, number) == [model |-> model, number |-> number]

Init ==
    /\ request = None /\ generation = 0
    /\ active \in Models
    /\ backend = Backend(active, 0)
    /\ ready = FALSE /\ errors = {}
    /\ opened = {backend}
    /\ preflight \in BOOLEAN
    /\ frame = ~preflight /\ needed \in BOOLEAN /\ (needed \/ preflight)
    /\ stopping = FALSE
    /\ worker = [pc |-> "start", handled |-> 0, taken |-> None, candidate |-> None,
                 status |-> None]
    /\ gui = None
    /\ shown = [generation |-> 0, active |-> active, requested |-> None,
                error |-> FALSE, ready |-> FALSE]

-----------------------------------------------------------------------------
Status(model, requested, error, isReady, number) ==
    [generation |-> number, active |-> model, requested |-> requested,
     error |-> error, ready |-> isReady]

\* update_obstacle_model_status: a status of an older generation is ignored.
Shows(status) ==
    shown' = IF status.generation < shown.generation THEN shown ELSE status

\* request_segmentation_model, up to the release of the lock.
AlreadyActive(model) ==
    /\ model = active /\ ready
    /\ request # None => request.model = model

RequestModel(model) ==
    /\ gui = None /\ model # Unknown
    /\ IF AlreadyActive(model)
         THEN /\ gui' = Status(active, None, FALSE, TRUE, generation)
              /\ UNCHANGED <<request, generation>>
         ELSE /\ generation < MaxGeneration
              /\ generation' = generation + 1
              /\ request' = [generation |-> generation + 1, model |-> model]
              /\ gui' = Status(active, model, FALSE, ready, generation + 1)
    /\ UNCHANGED <<active, backend, ready, errors, opened, preflight, frame, needed,
                   stopping, worker, shown>>

RefuseModel ==
    /\ gui = None
    /\ gui' = Status(active, None, TRUE, ready, generation)
    /\ UNCHANGED <<switchVars, opened, preflight, frame, needed, stopping, worker, shown>>

Announce ==
    /\ gui # None /\ Shows(gui) /\ gui' = None
    /\ UNCHANGED <<switchVars, opened, preflight, frame, needed, stopping, worker>>

-----------------------------------------------------------------------------
WorkerOnly == UNCHANGED <<preflight, frame, needed, stopping, gui>>

\* _initialize_segmentation_backend: once at the start of the fast worker;
\* by the people worker when YOLO is needed and no attempt has failed yet.
Initialize ==
    /\ worker.pc = "start" \/ (worker.pc = "loop" /\ preflight /\ ~ready /\ ~stopping)
    /\ needed /\ "segmentation" \notin errors
    /\ \/ /\ ready' = TRUE /\ errors' = errors \ {"segmentation"}
          /\ worker' = [worker EXCEPT !.pc = "initialized"]
       \/ /\ ready' = FALSE /\ errors' = errors \cup {"segmentation"}
          /\ worker' = [worker EXCEPT !.pc = "told",
                          !.status = Status(active, None, TRUE, FALSE, 0)]
    /\ UNCHANGED <<request, generation, active, backend, opened, shown>> /\ WorkerOnly

SkipInitialize ==
    /\ worker.pc = "start" /\ ~needed
    /\ worker' = [worker EXCEPT !.pc = "loop"]
    /\ UNCHANGED <<switchVars, opened, shown>> /\ WorkerOnly

ReadAfterInitialize ==
    /\ worker.pc = "initialized"
    /\ worker' = [worker EXCEPT !.pc = "told",
         !.status = Status(active,
                      IF request # None /\ request.model # active THEN request.model
                      ELSE None,
                      FALSE, TRUE, IF request # None THEN request.generation ELSE 0)]
    /\ UNCHANGED <<switchVars, opened, shown>> /\ WorkerOnly

Tell ==
    /\ worker.pc = "told" /\ Shows(worker.status)
    /\ worker' = [worker EXCEPT !.pc = "loop", !.status = None]
    /\ UNCHANGED <<switchVars, opened>> /\ WorkerOnly

\* _apply_pending_segmentation_switch
TakeRequest ==
    /\ worker.pc = "loop" /\ ~stopping /\ needed
    /\ request # None /\ request.generation > worker.handled
    /\ IF request.model = active /\ ready
         THEN /\ errors' = errors \ {"switch"}
              /\ worker' = [worker EXCEPT !.pc = "told", !.handled = request.generation,
                    !.status = Status(active, None, FALSE, TRUE, request.generation)]
         ELSE /\ preflight => frame
              /\ worker' = [worker EXCEPT !.pc = "load", !.taken = request]
              /\ UNCHANGED errors
    /\ UNCHANGED <<request, generation, active, backend, ready, opened, shown>>
    /\ WorkerOnly

Load ==
    /\ worker.pc = "load"
    /\ LET made == Backend(worker.taken.model, worker.taken.generation) IN
       \/ /\ opened' = opened \cup {made}
          /\ \E to \in {"swap", "failed"} :
               worker' = [worker EXCEPT !.pc = to, !.candidate = made]
       \/ worker' = [worker EXCEPT !.pc = "failed"] /\ UNCHANGED opened
    /\ UNCHANGED <<switchVars, shown>> /\ WorkerOnly

\* A seeded fault: a candidate that comes too late uses the newest request up.
SwapSkips ==
    LET stale == stopping \/ request # worker.taken
        done == [worker EXCEPT !.handled = request.generation, !.taken = None]
    IN /\ worker.pc = "swap"
       /\ IF stale
            THEN worker' = [done EXCEPT !.pc = "close"] /\ UNCHANGED <<active, backend>>
            ELSE /\ backend' = worker.candidate /\ active' = worker.candidate.model
                 /\ worker' = [done EXCEPT !.pc = "swapped", !.candidate = backend]
       /\ UNCHANGED <<request, generation, ready, errors, opened, shown>> /\ WorkerOnly

\* Under the lock: only the newest request is installed, and none once the
\* pipeline stops.
Swap ==
    LET stale == stopping \/ request # worker.taken
        done == [worker EXCEPT !.handled = worker.taken.generation, !.taken = None]
    IN /\ worker.pc = "swap"
       /\ IF stale
            THEN worker' = [done EXCEPT !.pc = "close"] /\ UNCHANGED <<active, backend>>
            ELSE /\ backend' = worker.candidate /\ active' = worker.candidate.model
                 /\ worker' = [done EXCEPT !.pc = "swapped", !.candidate = backend]
       /\ UNCHANGED <<request, generation, ready, errors, opened, shown>> /\ WorkerOnly

Swapped ==
    /\ worker.pc = "swapped"
    /\ ready' = TRUE /\ errors' = {}
    /\ Shows(Status(backend.model, None, FALSE, TRUE, backend.number))
    /\ worker' = [worker EXCEPT !.pc = "close"]
    /\ UNCHANGED <<request, generation, active, backend, opened>> /\ WorkerOnly

Fail ==
    LET newest == request = worker.taken IN
    /\ worker.pc = "failed"
    /\ errors' = IF newest THEN errors \cup {"switch"} ELSE errors
    /\ IF newest THEN Shows(Status(active, None, TRUE, ready, request.generation))
       ELSE UNCHANGED shown
    /\ worker' = [worker EXCEPT !.pc = "close", !.handled = worker.taken.generation,
                                !.taken = None]
    /\ UNCHANGED <<request, generation, active, backend, ready, opened>> /\ WorkerOnly

\* A seeded fault: only a candidate that lost is closed, never the old backend.
CloseStale ==
    /\ worker.pc = "close"
    /\ opened' = IF worker.candidate # None /\ worker.candidate.number = worker.handled
                 THEN opened \ {worker.candidate} ELSE opened
    /\ worker' = [worker EXCEPT !.pc = "loop", !.candidate = None]
    /\ UNCHANGED <<switchVars, shown>> /\ WorkerOnly

Close ==
    /\ worker.pc = "close"
    /\ opened' = opened \ {worker.candidate}
    /\ worker' = [worker EXCEPT !.pc = "loop", !.candidate = None]
    /\ UNCHANGED <<switchVars, shown>> /\ WorkerOnly

\* The loop ends when the pipeline stops; the installed backend is closed.
Exit ==
    /\ worker.pc = "loop" /\ stopping
    /\ opened' = opened \ {backend}
    /\ worker' = [worker EXCEPT !.pc = "ended"]
    /\ UNCHANGED <<switchVars, shown>> /\ WorkerOnly

Worker ==
    \/ Initialize \/ SkipInitialize \/ ReadAfterInitialize \/ Tell \/ TakeRequest
    \/ Load \/ Swap \/ Swapped \/ Fail \/ Close \/ Exit

-----------------------------------------------------------------------------
FrameArrives ==
    /\ ~frame /\ frame' = TRUE
    /\ UNCHANGED <<switchVars, opened, preflight, needed, stopping, worker, gui, shown>>

\* The other obstacle pipeline is chosen, or YOLO again (people worker only).
ChangePipeline ==
    /\ preflight /\ needed' = ~needed
    /\ UNCHANGED <<switchVars, opened, preflight, frame, stopping, worker, gui, shown>>

Stop ==
    /\ ~stopping /\ stopping' = TRUE
    /\ UNCHANGED <<switchVars, opened, preflight, frame, needed, worker, gui, shown>>

Next ==
    \/ \E model \in Models : RequestModel(model)
    \/ RefuseModel \/ Announce \/ Worker \/ FrameArrives \/ ChangePipeline \/ Stop

SwitchSpec ==
    /\ Init /\ [][Next]_vars
    /\ WF_vars(Worker) /\ WF_vars(Announce) /\ WF_vars(FrameArrives)

-----------------------------------------------------------------------------
\* Candidates are loaded without a lock, replaced while they load, fail and
\* are discarded; still no backend is leaked or closed while it is in use:
\* between two switches the installed one is open and alone, and nothing
\* stays open after the worker has ended (the finally of
\* _apply_pending_segmentation_switch).
NothingLeaks ==
    /\ worker.pc # "ended" => backend \in opened
    /\ opened \subseteq {backend, worker.candidate}
    /\ worker.pc = "ended" => opened = {}

\* The newest request is served: the worker gets to it and either its model
\* is active or the failure is on record, unless the program stops, YOLO is
\* not needed or a newer request comes first.
NewestServed ==
    \/ stopping \/ ~needed \/ generation = 0
    \/ worker.handled >= generation /\ (active = request.model \/ "switch" \in errors)

NewestIsServed == []<>NewestServed

=============================================================================

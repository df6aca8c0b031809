------------------------- MODULE ReconstructionSwitch -------------------------
(***************************************************************************)
(* Changing the point-cloud method while the pipeline runs                 *)
(* (realtime_safety/scheduler.py, with VideoDepthBackend,                  *)
(* MonocularDepthBackend and the St4RTrack adapter).  The dashboard's      *)
(* thread writes the waiting method under a lock; the 3-D worker closes all *)
(* backends, loads without a lock, falls back when a load raises, and      *)
(* writes the outcome under the lock.  Between two switches it takes       *)
(* frames, which are known by the input they were read from: a reset does  *)
(* not touch the frame that a thread holds.  Which load or inference fails *)
(* is a nondeterministic choice; Mast3rSlam models what a MASt3R call does.*)
(* _errors, whose reconstruction keys are only displayed, is left out.     *)
(***************************************************************************)
EXTENDS Integers, FiniteSets

CONSTANTS
    Methods,       \* reconstruction.depth_mode_options
    MaxRequests,   \* bound on the requests and on the changes of the input
    None

VARIABLES
    active,      \* _active_reconstruction_mode
    requested,   \* _requested_reconstruction_mode
    ready,       \* the names that _models_ready says are ready
    loaded,      \* the backends that hold a model: depth methods, "mast3r_slam", "st4rtrack"
    worker,      \* the 3-D worker: its step, depth_mode, the method it loads, the
                 \* _reset_counter it knows, and its frame, taken or pending
    anchored,    \* the anchor of St4RTrack: None, or the input of its frame and
                 \* (ghost) the reset counter when it was set
    epoch,       \* _reset_counter
    gui,         \* the dashboard's thread inside a change of the input
    waiting,     \* ghost: a request came that no switch has taken up since
    requests,    \* how many requests and changes of the input there were
    frames       \* the input that plays, the frame capture holds and the newest one in
                 \* reconstruction_queue, each as its input; ghost: how many of a
                 \* former input the models have been given since the queue was emptied

switchVars == <<active, requested, ready, loaded>>
vars == <<switchVars, worker, anchored, epoch, gui, waiting, requests, frames>>

Depths == {"video_depth", "fast_depth"}

Init ==
    /\ active \in Methods /\ requested = active
    /\ ready = {} /\ loaded = {}
    /\ worker = [pc |-> "load", mode |-> active, target |-> active, seen |-> 0,
                 first |-> TRUE, frame |-> None]
    /\ anchored = None /\ epoch = 0
    /\ gui = "idle" /\ waiting = FALSE /\ requests = 0
    /\ frames = [input |-> 0, read |-> None, queue |-> None, old |-> 0]

-----------------------------------------------------------------------------
\* request_reconstruction_method: refused when the method is unknown or the
\* preflight of MASt3R-SLAM raises; otherwise written under the lock.
RequestMethod(method) ==
    /\ gui = "idle" /\ requests < MaxRequests /\ requests' = requests + 1
    /\ requested' = method /\ waiting' = TRUE
    /\ UNCHANGED <<active, ready, loaded, worker, anchored, epoch, gui, frames>>

\* A new input, a restart or a seek; then _reset_runtime_state, which empties
\* the queue before it counts the reset.
ChangeInput ==
    /\ gui = "idle" /\ requests < MaxRequests /\ requests' = requests + 1
    /\ gui' = "clear" /\ frames' = [frames EXCEPT !.input = @ + 1]
    /\ UNCHANGED <<switchVars, worker, anchored, epoch, waiting>>

\* A seeded fault: the queue keeps what is in it.
ClearsNothing ==
    /\ gui = "clear" /\ gui' = "reset" /\ frames' = [frames EXCEPT !.old = 0]
    /\ UNCHANGED <<switchVars, worker, anchored, epoch, waiting, requests>>

ClearQueue ==
    /\ gui = "clear" /\ gui' = "reset"
    /\ frames' = [frames EXCEPT !.queue = None, !.old = 0]
    /\ UNCHANGED <<switchVars, worker, anchored, epoch, waiting, requests>>

CountReset ==
    /\ gui = "reset" /\ gui' = "idle" /\ epoch' = epoch + 1
    /\ UNCHANGED <<switchVars, worker, anchored, waiting, requests, frames>>

\* _capture_worker on its thread: a frame read before a reset may be put after it.
CaptureRead ==
    /\ frames.read = None /\ frames' = [frames EXCEPT !.read = frames.input]
    /\ UNCHANGED <<switchVars, worker, anchored, epoch, gui, waiting, requests>>

CapturePut ==
    /\ frames.read # None /\ frames' = [frames EXCEPT !.queue = frames.read, !.read = None]
    /\ UNCHANGED <<switchVars, worker, anchored, epoch, gui, waiting, requests>>

-----------------------------------------------------------------------------
WorkerOnly == UNCHANGED <<gui, waiting, requests>>

\* A seeded fault: the backends are closed and keep their ready flags.
ClosedUnnoticed == ready' = ready /\ loaded' = {} /\ anchored' = None

\* close_backends: each one, whatever another raises.
Closed == ready' = {} /\ loaded' = {} /\ anchored' = None

StartSwitch ==
    /\ worker.pc = "loop" /\ requested # worker.mode
    /\ Closed
    /\ worker' = [worker EXCEPT !.pc = "load", !.target = requested, !.frame = None]
    /\ waiting' = FALSE
    /\ UNCHANGED <<active, requested, epoch, frames, gui, requests>>

\* load_mode with its two fallbacks.  A St4RTrack model whose warm-up raises
\* stays loaded; VideoDepth is closed.
Loads(names, backends, outcome) ==
    /\ ready' = ready \cup names /\ loaded' = loaded \cup backends
    /\ worker' = [worker EXCEPT !.pc = "commit", !.target = outcome]
    /\ UNCHANGED <<active, requested, anchored, epoch, frames>> /\ WorkerOnly

LoadPlain(method) ==
    CASE method = "rgbd" -> Loads({"depth"}, {}, method)
      [] method = "mast3r_slam" -> Loads({"mast3r_slam"}, {"mast3r_slam"}, method)
      [] method = "st4rtrack" -> Loads({"st4rtrack"}, {"st4rtrack"}, method)
      [] method = "hybrid" ->
           Loads({"depth", "st4rtrack"}, {"fast_depth", "st4rtrack"}, method)
      [] OTHER -> Loads({"depth"}, {method}, method)

LoadFallback(method) ==
    \E left \in {{}, {"st4rtrack"}} :
        \/ /\ method \in {"st4rtrack", "hybrid"}
           /\ Loads({"depth"}, {"fast_depth"} \cup left,
                    IF method = "hybrid" THEN method ELSE "fast_depth")
        \/ /\ method = "video_depth" /\ left = {}
           /\ Loads({"depth"}, {"fast_depth"}, "fast_depth")

Load == worker.pc = "load" /\ (LoadPlain(worker.target) \/ LoadFallback(worker.target))

\* The load raised: everything is closed and fast depth is tried once.
LoadRaises ==
    /\ worker.pc = "load" /\ worker.target # "rgbd" /\ Closed
    /\ worker' = [worker EXCEPT !.pc = "fallback"]
    /\ UNCHANGED <<active, requested, epoch, frames>> /\ WorkerOnly

FallBack ==
    /\ worker.pc = "fallback"
    /\ \/ Loads({"depth"}, {"fast_depth"}, "fast_depth")
       \/ Loads({}, {}, worker.target)

\* Under the lock; a request that came while the method was loading is
\* overwritten.  Every switch but the first then resets the pipeline, whose
\* input stays.
Commit ==
    LET now == IF worker.first THEN epoch ELSE epoch + 1 IN
    /\ worker.pc = "commit"
    /\ active' = worker.target /\ requested' = worker.target
    /\ worker' = [worker EXCEPT !.pc = "loop", !.mode = worker.target, !.seen = now,
                                !.first = FALSE]
    /\ epoch' = now
    /\ frames' = IF worker.first THEN frames ELSE [frames EXCEPT !.queue = None]
    /\ UNCHANGED <<ready, loaded, anchored>> /\ WorkerOnly

-----------------------------------------------------------------------------
\* One turn of the loop: the newest frame is taken, or the one that was not
\* due is looked at again; then a reset is noticed.  The frame stays in hand.
TakeFrame ==
    /\ worker.pc = "loop" /\ requested = worker.mode /\ worker.mode # "rgbd"
    /\ frames.queue # None \/ worker.frame # None
    /\ worker' = [worker EXCEPT !.pc = "look",
                     !.frame = IF frames.queue # None THEN frames.queue ELSE @]
    /\ frames' = [frames EXCEPT !.queue = None]
    /\ UNCHANGED <<switchVars, anchored, epoch>> /\ WorkerOnly

\* A seeded fault: the reset is noticed and the anchor stays.
NoticeResetOnly ==
    /\ worker.pc = "look" /\ worker' = [worker EXCEPT !.pc = "infer", !.seen = epoch]
    /\ UNCHANGED <<switchVars, anchored, epoch, frames>> /\ WorkerOnly

NoticeReset ==
    /\ worker.pc = "look" /\ worker' = [worker EXCEPT !.pc = "infer", !.seen = epoch]
    /\ anchored' = IF worker.seen = epoch THEN anchored ELSE None
    /\ UNCHANGED <<switchVars, epoch, frames>> /\ WorkerOnly

UsesSlam == "mast3r_slam" \in ready /\ worker.mode = "mast3r_slam"
UsesSt4r == "st4rtrack" \in ready /\ worker.mode \in {"st4rtrack", "hybrid"}
UsesDepth == "depth" \in ready /\ (worker.mode = "st4rtrack" => "st4rtrack" \notin ready)

\* No model is ready or due: the frame is kept as pending.
Postpone ==
    /\ worker.pc = "infer" /\ worker' = [worker EXCEPT !.pc = "loop"]
    /\ UNCHANGED <<switchVars, anchored, epoch, frames>> /\ WorkerOnly

\* A frame of an input that no longer plays.
Old(frame) == frame # None /\ frame # frames.input
Count(frame) == IF Old(frame) THEN 1 ELSE 0

\* A model is given the frame in hand.
Gives(then) ==
    /\ worker.pc = "infer" /\ worker' = [worker EXCEPT !.pc = then, !.frame = None]
    /\ frames' = [frames EXCEPT !.old = @ + Count(worker.frame)]
    /\ UNCHANGED <<active, requested, loaded, epoch>> /\ WorkerOnly

Anchor == [input |-> worker.frame, since |-> epoch]

\* The first frame after a reset is the anchor, whatever input it is from, and
\* every frame that is anchor_interval past the anchor.
InferSt4r ==
    /\ UsesSt4r /\ Gives("loop")
    /\ anchored' \in {IF anchored = None THEN Anchor ELSE anchored, Anchor}
    /\ UNCHANGED ready

Infer == (UsesSlam \/ UsesDepth) /\ Gives("loop") /\ UNCHANGED <<ready, anchored>>

\* An inference that raises is logged; MASt3R-SLAM is then given up for fast
\* depth, in two steps.
InferFails ==
    /\ UsesSlam \/ UsesSt4r \/ UsesDepth
    /\ anchored' \in {anchored} \cup (IF UsesSt4r THEN {Anchor} ELSE {})
    /\ IF worker.mode = "mast3r_slam"
         THEN Gives("give_up") /\ ready' = ready \ {"mast3r_slam"}
         ELSE Gives("loop") /\ UNCHANGED ready

GiveUp ==
    /\ worker.pc = "give_up" /\ requested' = "fast_depth"
    /\ worker' = [worker EXCEPT !.pc = "loop"]
    /\ UNCHANGED <<active, ready, loaded, anchored, epoch, frames>> /\ WorkerOnly

Worker ==
    \/ StartSwitch \/ Load \/ LoadRaises \/ FallBack \/ Commit
    \/ TakeFrame \/ NoticeReset \/ Postpone \/ InferSt4r \/ Infer \/ InferFails \/ GiveUp

Next ==
    \/ \E method \in Methods : RequestMethod(method)
    \/ ChangeInput \/ ClearQueue \/ CountReset \/ CaptureRead \/ CapturePut \/ Worker

SwitchSpec == Init /\ [][Next]_vars

-----------------------------------------------------------------------------
\* Backends are closed, loaded half-way, replaced by a fallback, and the
\* flags are set and cleared apart from them; still no inference runs on a
\* backend that holds no model, nor on the one of another method.
UsesAreLoaded ==
    worker.pc = "infer" =>
        /\ UsesSlam => "mast3r_slam" \in loaded
        /\ UsesSt4r => "st4rtrack" \in loaded
        /\ UsesDepth =>
             loaded \cap Depths = {IF worker.mode \in {"hybrid", "st4rtrack"} THEN "fast_depth"
                                   ELSE worker.mode}

\* An anchor that an inference uses was not set before the last reset that the
\* worker has noticed, also when the reset came while a method was loading or
\* between two steps of the loop.
AnchorIsCurrent ==
    worker.pc = "infer" /\ anchored # None => anchored.since >= worker.seen

\* Nothing tells a frame of a former input from one of the new: after the queue
\* has been emptied the models may still be given such frames, but only the one
\* in the worker's hand and the one in capture's, as pending and late as they are.
OldFramesRunOut == gui # "clear" => frames.old <= 2

\* The anchor is a frame of the input that plays: what a reset is for.
\* The code does not keep it: the frame in hand when the reset is noticed, or
\* one that capture puts late, may be the new anchor.
AnchorIsOfTheInput ==
    worker.pc = "infer" /\ worker.seen = epoch /\ gui = "idle" /\ anchored # None
        => anchored.input = frames.input

\* request_reconstruction_method: "Queue one allowlisted point-cloud method
\* switch from the GUI."  A request stays queued until the worker takes it
\* up or a newer one replaces it.
\* The code does not keep it.
RequestsAreServed ==
    waiting /\ requested # worker.mode /\ requests' = requests => requested' = requested

=============================================================================

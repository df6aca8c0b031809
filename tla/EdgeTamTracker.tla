--------------------------- MODULE EdgeTamTracker ---------------------------
(***************************************************************************)
(* The asynchronous EdgeTAM refinement of the tracked-obstacle node and of *)
(* its model wrapper.  Four threads share the node: the executor (service  *)
(* and stale timer), the geometry worker, the model loader and the         *)
(* wrapper's inference worker.  Each action is one section under a lock;   *)
(* between two sections of a thread any other thread may run.              *)
(* Clouds and masks are abstracted to the frame and generation they are    *)
(* of.  Shutdown is left out: the process ends with it.                    *)
(***************************************************************************)
EXTENDS Naturals, FiniteSets

CONSTANTS
    MaxFrames,     \* bundles and predictions in a behaviour
    MaxStamp,      \* sensor time
    MaxCalls,      \* service calls and stale periods in a behaviour
    ContextLimit,  \* _edge_context_limit
    None

ASSUME BoundsAssumption ==
    /\ MaxFrames \in Nat /\ MaxStamp \in Nat /\ MaxCalls \in Nat
    /\ ContextLimit \in Nat \ {0}
    /\ None \notin Nat

VARIABLES
    \* under _edge_context_lock
    enabled, status,  \* _edge_enabled, _edge_status
    edge,             \* whether the node holds a loaded wrapper
    generation,       \* _edge_context_generation
    contexts,         \* _edge_contexts: sequence -> exact-frame context
    last_sequence,    \* _last_edge_result_sequence
    latest_masks,     \* generation the masks in _latest_masks are of, or None
    previous_masks,   \* the same for _previous_masks
    \* the wrapper, under its _submit_lock
    sequence, stream,
    job,              \* the pending job of the latest-only queue, or None
    running,          \* the job in inference, or None
    result,           \* _latest_result, or None
    \* under _publication_lock
    serial,           \* _safety_publication_serial
    last_stamp,       \* _last_safety_output_stamp, or None
    output,           \* the last safety output: its kind and frame
    \* threads
    call,             \* the sections a service or timer callback still owes
    calls,
    loader,
    worker,           \* program counter and locals of the geometry worker
    processed,        \* _last_processed_stamp
    gap,              \* _geometry_gap_active
    held,             \* _semantic_output_hold_active
    frame             \* frames seen so far

switchVars == <<enabled, status>>
contextVars == <<contexts, last_sequence, latest_masks, previous_masks>>
wrapperVars == <<sequence, stream, job, running, result>>
outputVars == <<serial, last_stamp, output>>
geometryVars == <<processed, gap, held, frame>>
vars == <<switchVars, edge, generation, contextVars, wrapperVars, outputVars,
          call, calls, loader, worker, geometryVars>>

Jobs == [sequence : Nat, stream : Nat]
Contexts == [generation : Nat, frame : Nat, stamp : Nat, serial : Nat]
Verdicts == {"missing", "stale", "failed", "degraded", "ready"}
Idle == [at |-> "idle"]

Init ==
    /\ enabled \in BOOLEAN
    /\ status = IF enabled THEN "loading" ELSE "disabled"
    /\ loader = IF enabled THEN "loading" ELSE "dead"
    /\ edge = FALSE
    /\ generation = 0 /\ contexts = <<>> /\ last_sequence = 0
    /\ latest_masks = None /\ previous_masks = None
    /\ sequence = 0 /\ stream = 0
    /\ job = None /\ running = None /\ result = None
    /\ serial = 0 /\ last_stamp = None
    /\ output = [kind |-> "none", frame |-> 0]
    /\ call = {} /\ calls = 0
    /\ worker = Idle
    /\ processed = 0 /\ gap = FALSE /\ held = FALSE /\ frame = 0

-----------------------------------------------------------------------------
\* Sections shared by several threads.

\* EdgeTAMWrapper.reset_stream: a running job keeps the generation it has.
ResetStream ==
    /\ stream' = stream + 1
    /\ job' = None /\ result' = None
    /\ UNCHANGED <<sequence, running>>

\* _invalidate_edge_contexts(reset_wrapper=True).
Invalidate ==
    /\ generation' = generation + 1
    /\ contexts' = <<>>
    /\ latest_masks' = None /\ previous_masks' = None
    /\ IF edge THEN ResetStream ELSE UNCHANGED wrapperVars
    /\ UNCHANGED last_sequence

-----------------------------------------------------------------------------
\* The executor: one callback at a time.

Called == call = {} /\ calls < MaxCalls /\ calls' = calls + 1

\* _set_edgetam_enabled, data false: first section.
SetDisabled ==
    /\ Called
    /\ enabled' = FALSE /\ status' = "disabled"
    /\ call' = {"invalidate"}
    /\ UNCHANGED <<edge, generation, contextVars, wrapperVars, outputVars, loader,
                   worker, geometryVars>>

\* _set_edgetam_enabled, data true: first section.
SetEnabled ==
    /\ Called
    /\ enabled' = TRUE
    /\ status' = IF edge THEN "ready" ELSE "loading"
    /\ call' = (IF enabled THEN {} ELSE {"invalidate"}) \union (IF edge THEN {} ELSE {"ensure"})
    /\ UNCHANGED <<edge, generation, contextVars, wrapperVars, outputVars, loader,
                   worker, geometryVars>>

\* _check_stale, on entering a gap of the geometry stream.
CheckStale ==
    /\ Called /\ processed > 0 /\ ~gap
    /\ gap' = TRUE
    /\ call' = {"invalidate"}
    /\ UNCHANGED <<switchVars, edge, generation, contextVars, wrapperVars, outputVars,
                   loader, worker, processed, held, frame>>

CallInvalidate ==
    /\ "invalidate" \in call
    /\ call' = call \ {"invalidate"}
    /\ Invalidate
    /\ UNCHANGED <<switchVars, edge, outputVars, calls, loader, worker, geometryVars>>

\* _ensure_edgetam_loader: one loader at a time; a thread that has reported but
\* not ended yet is alive.
CallEnsure ==
    /\ call = {"ensure"}
    /\ call' = {}
    /\ IF ~enabled THEN UNCHANGED <<status, loader>>
       ELSE IF edge THEN status' = "ready" /\ UNCHANGED loader
       ELSE status' = "loading" /\ loader' = IF loader = "dead" THEN "loading" ELSE loader
    /\ UNCHANGED <<enabled, edge, generation, contextVars, wrapperVars, outputVars,
                   calls, worker, geometryVars>>

-----------------------------------------------------------------------------
\* The loader thread.

\* _load_edgetam: the model is kept even if it is not wanted any more.
LoadEdgetam ==
    /\ loader = "loading" /\ loader' = "ending"
    /\ edge' = TRUE
    /\ status' = IF enabled THEN "ready" ELSE "disabled"
    /\ UNCHANGED <<enabled, generation, contextVars, wrapperVars, outputVars, call,
                   calls, worker, geometryVars>>

LoadFails ==
    /\ loader = "loading" /\ loader' = "ending"
    /\ status' = IF enabled THEN "error" ELSE "disabled"
    /\ UNCHANGED <<enabled, edge, generation, contextVars, wrapperVars, outputVars,
                   call, calls, worker, geometryVars>>

LoaderEnds ==
    /\ loader = "ending" /\ loader' = "dead"
    /\ UNCHANGED <<switchVars, edge, generation, contextVars, wrapperVars, outputVars,
                   call, calls, worker, geometryVars>>

-----------------------------------------------------------------------------
\* The inference worker of the wrapper.

StartJob ==
    /\ job # None /\ running = None
    /\ running' = job /\ job' = None
    /\ UNCHANGED <<switchVars, edge, generation, contextVars, sequence, stream, result,
                   outputVars, call, calls, loader, worker, geometryVars>>

\* Seeded fault: the result of an earlier stream is shown.
FinishJobOfAnyStream ==
    /\ running # None
    /\ running' = None
    /\ result' = IF result = None \/ result <= running.sequence
                 THEN running.sequence ELSE result
    /\ UNCHANGED <<switchVars, edge, generation, contextVars, sequence, stream, job,
                   outputVars, call, calls, loader, worker, geometryVars>>

\* A job of an earlier stream is finished for nothing.
FinishJob ==
    /\ running # None
    /\ running' = None
    /\ result' = IF /\ running.stream = stream
                    /\ result = None \/ result <= running.sequence
                 THEN running.sequence ELSE result
    /\ UNCHANGED <<switchVars, edge, generation, contextVars, sequence, stream, job,
                   outputVars, call, calls, loader, worker, geometryVars>>

-----------------------------------------------------------------------------
\* The geometry worker: polling a result.

\* What the worker goes on with after a poll.
Then(next) == IF next = "done" THEN Idle ELSE [at |-> next]

\* _poll_edge_result up to its second lock: the result is read without one.
ReadResult(next) ==
    worker' = IF enabled /\ edge /\ result # None
              THEN [at |-> "polled", next |-> next, result |-> result]
              ELSE Then(next)

\* _worker_loop: a bundle is taken, or none has come for a while.
Work ==
    /\ worker = Idle
    /\ \E next \in {"bundle", "predict"} : ReadResult(next)
    /\ UNCHANGED <<switchVars, edge, generation, contextVars, wrapperVars, outputVars,
                   call, calls, loader, geometryVars>>

PollAgain ==
    /\ worker.at = "submitted"
    /\ ReadResult("done")
    /\ UNCHANGED <<switchVars, edge, generation, contextVars, wrapperVars, outputVars,
                   call, calls, loader, geometryVars>>

\* Seeded fault: newer contexts go with the older ones.
TakeResultClearing ==
    /\ worker.at = "polled"
    /\ IF ~enabled \/ worker.result <= last_sequence
       THEN worker' = Then(worker.next) /\ UNCHANGED <<last_sequence, contexts>>
       ELSE /\ last_sequence' = worker.result
            /\ contexts' = <<>>
            /\ worker' = [at |-> "judging", next |-> worker.next,
                          context |-> IF worker.result \in DOMAIN contexts
                                      THEN contexts[worker.result] ELSE None]
    /\ UNCHANGED <<switchVars, edge, generation, latest_masks, previous_masks, wrapperVars,
                   outputVars, call, calls, loader, geometryVars>>

\* _poll_edge_result, second lock: results come once and in order, and no older
\* context can be used afterwards.
TakeResult ==
    /\ worker.at = "polled"
    /\ IF ~enabled \/ worker.result <= last_sequence
       THEN worker' = Then(worker.next) /\ UNCHANGED <<last_sequence, contexts>>
       ELSE /\ last_sequence' = worker.result
            /\ contexts' = [s \in {s \in DOMAIN contexts : s > worker.result} |-> contexts[s]]
            /\ worker' = [at |-> "judging", next |-> worker.next,
                          context |-> IF worker.result \in DOMAIN contexts
                                      THEN contexts[worker.result] ELSE None]
    /\ UNCHANGED <<switchVars, edge, generation, latest_masks, previous_masks, wrapperVars,
                   outputVars, call, calls, loader, geometryVars>>

Current(context) == enabled /\ context.generation = generation

\* _process_edge_result up to its verdict: whether the context is still the
\* node's, is young enough, and the inference went well.
JudgeResult ==
    /\ worker.at = "judging"
    /\ \E verdict \in Verdicts :
        /\ IF ~enabled THEN verdict = "stale"
           ELSE IF worker.context = None THEN verdict = "missing"
           ELSE IF ~Current(worker.context) THEN verdict = "stale"
           ELSE verdict # "missing"
        /\ worker' = IF ~enabled THEN Then(worker.next)
                     ELSE [at |-> IF verdict \in {"ready", "degraded"}
                                  THEN "learning" ELSE "reporting",
                           next |-> worker.next, context |-> worker.context,
                           verdict |-> verdict]
    /\ UNCHANGED <<switchVars, edge, generation, contextVars, wrapperVars, outputVars,
                   call, calls, loader, geometryVars>>

\* _update_edge_quality_memory.
UpdateMemory ==
    /\ worker.at = "learning"
    /\ previous_masks' = IF Current(worker.context) THEN worker.context.generation
                         ELSE previous_masks
    /\ worker' = [worker EXCEPT !.at = "reporting"]
    /\ UNCHANGED <<switchVars, edge, generation, contexts, last_sequence, latest_masks,
                   wrapperVars, outputVars, call, calls, loader, geometryVars>>

\* Seeded fault: the status is set whether or not the refinement is enabled.
ReportStatusAlways ==
    /\ worker.at = "reporting"
    /\ status' = CASE worker.verdict = "failed" -> "error"
                   [] worker.verdict = "ready" -> "ready"
                        [] OTHER -> "degraded"
    /\ worker' = IF worker.verdict \in {"ready", "degraded"}
                 THEN [worker EXCEPT !.at = "correcting"] ELSE Then(worker.next)
    /\ UNCHANGED <<enabled, edge, generation, contextVars, wrapperVars, outputVars,
                   call, calls, loader, geometryVars>>

\* _set_edge_inference_status.
ReportStatus ==
    /\ worker.at = "reporting"
    /\ status' = IF ~enabled THEN status
                 ELSE CASE worker.verdict = "failed" -> "error"
                        [] worker.verdict = "ready" -> "ready"
                        [] OTHER -> "degraded"
    /\ worker' = IF worker.verdict \in {"ready", "degraded"}
                 THEN [worker EXCEPT !.at = "correcting"] ELSE Then(worker.next)
    /\ UNCHANGED <<enabled, edge, generation, contextVars, wrapperVars, outputVars,
                   call, calls, loader, geometryVars>>

\* Seeded fault: newer outputs are not looked for.
TryPublishRefinedLate ==
    /\ worker.at = "correcting"
    /\ \/ /\ Current(worker.context)
          /\ output' = [kind |-> "corrected", frame |-> worker.context.frame]
          /\ serial' = serial + 1
          /\ worker' = [worker EXCEPT !.at = "remembering"]
       \/ /\ worker' = Then(worker.next)
          /\ UNCHANGED <<output, serial>>
    /\ UNCHANGED <<switchVars, edge, generation, contextVars, wrapperVars, last_stamp,
                   call, calls, loader, geometryVars>>

\* _try_publish_refined_context, if some track was refined: never for a context
\* that was invalidated, and never once there is a newer output.
TryPublishRefined ==
    /\ worker.at = "correcting"
    /\ \/ /\ Current(worker.context)
          /\ serial = worker.context.serial /\ last_stamp = worker.context.stamp
          /\ output' = [kind |-> "corrected", frame |-> worker.context.frame]
          /\ serial' = serial + 1
          /\ worker' = [worker EXCEPT !.at = "remembering"]
       \/ /\ worker' = Then(worker.next)
          /\ UNCHANGED <<output, serial>>
    /\ UNCHANGED <<switchVars, edge, generation, contextVars, wrapperVars, last_stamp,
                   call, calls, loader, geometryVars>>

\* Seeded fault: the masks are kept whatever has been invalidated.
RememberMasksUnchecked ==
    /\ worker.at = "remembering"
    /\ latest_masks' = worker.context.generation
    /\ worker' = Then(worker.next)
    /\ UNCHANGED <<switchVars, edge, generation, contexts, last_sequence, previous_masks,
                   wrapperVars, outputVars, call, calls, loader, geometryVars>>

\* The end of _process_edge_result.
RememberMasks ==
    /\ worker.at = "remembering"
    /\ latest_masks' = IF Current(worker.context) THEN worker.context.generation
                       ELSE latest_masks
    /\ worker' = Then(worker.next)
    /\ UNCHANGED <<switchVars, edge, generation, contexts, last_sequence, previous_masks,
                   wrapperVars, outputVars, call, calls, loader, geometryVars>>

\* An exception while a result is used, and _set_edge_inference_status after it or
\* after a refused job.
RejectResult ==
    /\ worker.at \in {"learning", "correcting"}
    /\ worker' = [at |-> "failing", next |-> worker.next]
    /\ UNCHANGED <<switchVars, edge, generation, contextVars, wrapperVars, outputVars,
                   call, calls, loader, geometryVars>>

ReportError ==
    /\ worker.at = "failing"
    /\ status' = IF enabled THEN "error" ELSE status
    /\ worker' = Then(worker.next)
    /\ UNCHANGED <<enabled, edge, generation, contextVars, wrapperVars, outputVars,
                   call, calls, loader, geometryVars>>

-----------------------------------------------------------------------------
\* The geometry worker: a bundle.

Accepted(stamp) ==
    /\ processed' = stamp
    /\ frame' = frame + 1
    /\ worker' = [at |-> "filtered", stamp |-> stamp]

\* _process_bundle up to the robot filter.  Time is counted in bundles.  A stamp
\* far in the past means that the clock was reset; a bundle may be dropped before
\* it changes anything.
ReceiveBundle ==
    /\ worker.at = "bundle"
    /\ \/ worker' = Idle /\ UNCHANGED <<processed, frame>>
       \/ /\ frame < MaxFrames
          /\ \E stamp \in 1..MaxStamp :
              \/ stamp = processed + 1 /\ Accepted(stamp)
              \/ /\ stamp < processed
                 /\ worker' = [at |-> "clock_reset", stamp |-> stamp]
                 /\ UNCHANGED <<processed, frame>>
    /\ UNCHANGED <<switchVars, edge, generation, contextVars, wrapperVars, outputVars,
                   call, calls, loader, gap, held>>

ResetClock ==
    /\ worker.at = "clock_reset"
    /\ Invalidate
    /\ worker' = [worker EXCEPT !.at = "new_epoch"]
    /\ UNCHANGED <<switchVars, edge, outputVars, call, calls, loader, geometryVars>>

\* _reset_safety_publication_epoch.
ResetEpoch ==
    /\ worker.at = "new_epoch"
    /\ serial' = serial + 1 /\ last_stamp' = None
    /\ Accepted(worker.stamp)
    /\ UNCHANGED <<switchVars, edge, generation, contextVars, wrapperVars, output,
                   call, calls, loader, gap, held>>

\* The end of a geometry gap; without transforms or a robot filter the bundle
\* is dropped before.
CheckGap ==
    /\ worker.at = "filtered"
    /\ \/ worker' = Idle /\ UNCHANGED gap
       \/ /\ gap' = FALSE
          /\ worker' = [worker EXCEPT !.at = IF gap THEN "resuming" ELSE "tracking"]
    /\ UNCHANGED <<switchVars, edge, generation, contextVars, wrapperVars, outputVars,
                   call, calls, loader, processed, held, frame>>

Resume ==
    /\ worker.at = "resuming"
    /\ Invalidate
    /\ worker' = [worker EXCEPT !.at = "tracking"]
    /\ UNCHANGED <<switchVars, edge, outputVars, call, calls, loader, geometryVars>>

\* An output that cannot be trusted is held.
HoldOutput ==
    /\ worker.at = "tracking"
    /\ IF held THEN UNCHANGED <<generation, contextVars, wrapperVars>> ELSE Invalidate
    /\ held' = TRUE
    /\ worker' = Idle
    /\ UNCHANGED <<switchVars, edge, outputVars, call, calls, loader, processed, gap, frame>>

\* _publish_new_safety_output: the stamp cannot regress within an epoch.
Published(kind, stamp) ==
    /\ last_stamp # None => stamp >= last_stamp
    /\ serial' = serial + 1 /\ last_stamp' = stamp
    /\ output' = [kind |-> kind, frame |-> frame']

\* _publish_outputs; a frame without a usable picture or prompts ends here.
PublishGeometry ==
    /\ worker.at = "tracking"
    /\ held' = FALSE
    /\ UNCHANGED frame
    /\ \/ /\ Published("geometry", worker.stamp)
          /\ \/ worker' = Idle
             \/ worker' = [at |-> "submitting", stamp |-> worker.stamp, serial |-> serial']
       \/ /\ last_stamp # None /\ worker.stamp < last_stamp
          /\ worker' = Idle
          /\ UNCHANGED outputVars
    /\ UNCHANGED <<switchVars, edge, generation, contextVars, wrapperVars, call, calls,
                   loader, processed, gap>>

\* Seeded fault: contexts are never dropped.
NewestAll(kept) == kept

\* The contexts a node with ContextLimit keeps: the oldest go first.
Newest(kept) == {s \in kept : Cardinality({t \in kept : t > s}) < ContextLimit}

\* _submit_edgetam with EdgeTAMWrapper.submit: job and context in one section; the
\* wrapper may refuse the job.
Submit ==
    /\ worker.at = "submitting"
    /\ \/ /\ ~enabled \/ ~edge
          /\ worker' = [at |-> "submitted"]
          /\ UNCHANGED <<contexts, sequence, job>>
       \/ /\ enabled /\ edge
          /\ worker' = [at |-> "failing", next |-> "submitted"]
          /\ UNCHANGED <<contexts, sequence, job>>
       \/ /\ enabled /\ edge
          /\ worker' = [at |-> "submitted"]
          /\ sequence' = sequence + 1
          /\ job' = [sequence |-> sequence', stream |-> stream]
          /\ contexts' = [s \in Newest(DOMAIN contexts \union {sequence'}) |->
                 IF s = sequence'
                 THEN [generation |-> generation, frame |-> frame,
                       stamp |-> worker.stamp, serial |-> worker.serial]
                 ELSE contexts[s]]
    /\ UNCHANGED <<switchVars, edge, generation, last_sequence, latest_masks,
                   previous_masks, stream, running, result, outputVars, call, calls,
                   loader, geometryVars>>

\* _maybe_publish_prediction up to the gap flag.
Predict ==
    /\ worker.at = "predict"
    /\ \/ worker' = Idle /\ UNCHANGED gap
       \/ /\ processed > 0 /\ frame < MaxFrames
          /\ \E stamp \in processed + 1..MaxStamp :
                worker' = [at |-> IF gap THEN "predicting" ELSE "entering_gap",
                           stamp |-> stamp]
          /\ gap' = TRUE
    /\ UNCHANGED <<switchVars, edge, generation, contextVars, wrapperVars, outputVars,
                   call, calls, loader, processed, held, frame>>

EnterGap ==
    /\ worker.at = "entering_gap"
    /\ Invalidate
    /\ worker' = [worker EXCEPT !.at = "predicting"]
    /\ UNCHANGED <<switchVars, edge, outputVars, call, calls, loader, geometryVars>>

PublishPrediction ==
    /\ worker.at = "predicting"
    /\ worker' = Idle
    /\ \/ frame' = frame + 1 /\ Published("predicted", worker.stamp)
       \/ UNCHANGED <<frame, outputVars>>
    /\ UNCHANGED <<switchVars, edge, generation, contextVars, wrapperVars, call, calls,
                   loader, processed, gap, held>>

-----------------------------------------------------------------------------
ServiceStep == SetDisabled \/ SetEnabled \/ CheckStale \/ CallInvalidate \/ CallEnsure
LoaderStep == LoadEdgetam \/ LoadFails \/ LoaderEnds
InferenceStep == StartJob \/ FinishJob
ResultStep ==
    \/ PollAgain \/ TakeResult \/ JudgeResult \/ UpdateMemory \/ ReportStatus
    \/ TryPublishRefined \/ RememberMasks \/ RejectResult \/ ReportError
GeometryStep ==
    \/ Work \/ ReceiveBundle \/ ResetClock \/ ResetEpoch \/ CheckGap \/ Resume
    \/ HoldOutput \/ PublishGeometry \/ Submit \/ Predict \/ EnterGap
    \/ PublishPrediction

Next == ServiceStep \/ LoaderStep \/ InferenceStep \/ ResultStep \/ GeometryStep

Spec == Init /\ [][Next]_vars

-----------------------------------------------------------------------------
\* Safety.

\* The types of the node's shared state.
TypeOK ==
    /\ enabled \in BOOLEAN /\ edge \in BOOLEAN /\ gap \in BOOLEAN /\ held \in BOOLEAN
    /\ status \in {"disabled", "loading", "ready", "degraded", "error"}
    /\ loader \in {"loading", "ending", "dead"}
    /\ generation \in Nat /\ sequence \in Nat /\ stream \in Nat
    /\ last_sequence \in 0..sequence
    /\ DOMAIN contexts \subseteq 1..sequence
    /\ \A s \in DOMAIN contexts : contexts[s] \in Contexts
    /\ Cardinality(DOMAIN contexts) <= ContextLimit
    /\ job \in Jobs \union {None} /\ running \in Jobs \union {None}
    /\ result \in (1..sequence) \union {None}
    /\ call \subseteq {"invalidate", "ensure"}
    /\ processed \in Nat /\ frame \in 0..MaxFrames /\ calls \in 0..MaxCalls

\* Once the service has answered a disable, the node holds no context and no
\* mask, and the wrapper neither a job to start nor a result to show, whatever
\* the worker and the inference were doing.
DisabledHoldsNothing ==
    ~enabled /\ "invalidate" \notin call =>
        /\ contexts = <<>> /\ latest_masks = None /\ previous_masks = None
        /\ job = None /\ result = None

\* Masks shown or compared with are never of an earlier generation.
MasksAreCurrent ==
    /\ latest_masks \in {None, generation}
    /\ previous_masks \in {None, generation}

\* A result the worker has not taken finds its context, unless ContextLimit
\* newer submissions have pushed it out.
ResultKeepsItsContext ==
    result # None /\ result > last_sequence =>
        result \in DOMAIN contexts \/ sequence - result >= ContextLimit

\* A correction directly follows the geometry output of its own frame: no
\* prediction, newer geometry or other correction comes between.
CorrectsTheLastOutput ==
    [][output' # output /\ output'.kind = "corrected" =>
           output.kind = "geometry" /\ output.frame = output'.frame]_vars

\* The diagnostics follow the switch and the model.
Switch == INSTANCE EdgeTamSwitch WITH loaded <- edge
ImplementsSwitch == Switch!Spec

=============================================================================

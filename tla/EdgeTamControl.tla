--------------------------- MODULE EdgeTamControl ---------------------------
(***************************************************************************)
(* EdgeTAMControlBridge, the dashboard's remote control of the refinement, *)
(* composed with the node it controls (EdgeTamSwitch).  Three threads run  *)
(* the bridge: the dashboard's, which requests modes, and the two of the   *)
(* shared executor (start is taken to run on the dashboard's thread, too). *)
(* One of the executor's threads runs the timer and the diagnostics,       *)
(* which exclude each other; the other, at the same time, the callback of  *)
(* an answer.  An action is one section under the bridge's lock, or the    *)
(* call of the service, which is made without it.                          *)
(***************************************************************************)
EXTENDS Naturals, Sequences, EdgeTamSwitch

CONSTANTS
    InitialModes,    \* configured startup modes
    MaxGeneration,   \* requests in a behaviour
    MaxCalls,        \* service calls in a behaviour
    DiagnosticsDepth,
    None

Modes == {"edgetam", "pointcloud"}

ASSUME ControlAssumption ==
    /\ InitialModes \subseteq Modes
    /\ MaxGeneration \in Nat /\ MaxCalls \in Nat /\ DiagnosticsDepth \in Nat \ {0}

VARIABLES
    \* the bridge, under its lock
    pending, inflight, generation,
    requested,     \* _requested_mode
    active,        \* _active_mode
    state,         \* _state
    confirmed,     \* _mode_confirmed
    diagnostics,   \* the state in _diagnostics, or None
    bridge,        \* how far start() has come
    thread,        \* what each thread is doing
    failed,        \* a timed-out request the executor has not reported yet
    \* between the bridge and the node
    inbox,         \* requests on their way, in order
    answers,       \* answers on their way: a set, by call
    calls,         \* service calls made
    reports,       \* diagnostics on their way
    newest         \* history: the newest generation the node has handled

requestVars == <<pending, inflight, generation>>
modeVars == <<requested, active, state, confirmed, diagnostics>>
channelVars == <<inbox, answers, calls, reports>>
vars == <<switchVars, requestVars, modeVars, bridge, thread, failed, channelVars,
          newest>>

Threads == {"dashboard", "executor", "answers"}
Requests == [generation : 1..MaxGeneration, mode : Modes]
Calls == [request : Requests, call : 1..MaxCalls]

ASSUME NoneAssumption == None \notin Statuses \union Requests \union Calls

Idle == [at |-> "idle"]
Due == [at |-> "due"]

ControlInit ==
    /\ Init
    /\ pending = None /\ inflight = None /\ generation = 0
    /\ requested \in InitialModes /\ active = requested
    /\ state = "loading" /\ confirmed = FALSE /\ diagnostics = None
    /\ bridge = "created"
    /\ thread = [t \in Threads |-> Idle] /\ failed = None
    /\ inbox = <<>> /\ answers = {} /\ calls = 0 /\ reports = <<>>
    /\ newest = 0

Continue(t, next) == thread' = [thread EXCEPT ![t] = next]

-----------------------------------------------------------------------------
\* The dashboard's thread.

\* A request supersedes a pending one.
Request(mode) ==
    /\ generation < MaxGeneration
    /\ generation' = generation + 1
    /\ pending' = [generation |-> generation', mode |-> mode]
    /\ state' = "loading"

\* request_mode: nothing is sent for a mode that is active already.
RequestMode(mode) ==
    /\ thread["dashboard"] = Idle
    /\ requested' = mode
    /\ IF confirmed /\ mode = active /\ pending = None /\ inflight = None
       THEN state' = "active" /\ UNCHANGED <<pending, generation, thread>>
       ELSE Request(mode) /\ Continue("dashboard", Due)
    /\ UNCHANGED <<switchVars, inflight, active, confirmed, diagnostics, bridge, failed,
                   channelVars, newest>>

\* start, up to the node joining the executor: callbacks may come from here on.
Attach ==
    /\ bridge = "created" /\ bridge' = "attached"
    /\ UNCHANGED <<switchVars, requestVars, modeVars, thread, failed, channelVars,
                   newest>>

\* start, second part: unless something is known or asked for, the mode that is
\* wanted now is requested.
Start ==
    /\ bridge = "attached" /\ bridge' = "started"
    /\ thread["dashboard"] = Idle /\ Continue("dashboard", Due)
    /\ IF ~confirmed /\ pending = None THEN Request(requested)
       ELSE UNCHANGED <<pending, generation, state>>
    /\ UNCHANGED <<switchVars, inflight, requested, active, confirmed, diagnostics, failed,
                   channelVars, newest>>

-----------------------------------------------------------------------------
\* _dispatch_pending_request, on either thread.

\* Seeded fault: the timeout is not reported.
DoneSilently(t) == Continue(t, Idle) /\ failed' = IF t = "executor" THEN None ELSE failed

\* The end of a dispatch: the executor may still owe the report of a timeout.
Done(t) ==
    IF t = "executor" /\ failed # None
    THEN /\ Continue(t, [at |-> "failing", request |-> failed, next |-> Due])
         /\ failed' = None
    ELSE Continue(t, Idle) /\ UNCHANGED failed

ReadPending(t) ==
    /\ thread[t] = Due
    /\ IF bridge = "started" /\ pending # None /\ inflight = None
       THEN Continue(t, [at |-> "read", request |-> pending]) /\ UNCHANGED failed
       ELSE Done(t)
    /\ UNCHANGED <<switchVars, requestVars, modeVars, bridge, channelVars, newest>>

\* The call is made without the lock, if the service is there.
CallService(t) ==
    /\ thread[t].at = "read"
    /\ \/ Done(t) /\ UNCHANGED <<inbox, calls>>
       \/ /\ calls < MaxCalls /\ calls' = calls + 1
          /\ inbox' = Append(inbox, [request |-> thread[t].request, call |-> calls'])
          /\ Continue(t, [at |-> "sent", sent |-> inbox'[Len(inbox')]])
          /\ UNCHANGED failed
       \/ /\ Continue(t, [at |-> "failing", request |-> thread[t].request, next |-> Idle])
          /\ UNCHANGED <<inbox, calls, failed>>
    /\ UNCHANGED <<switchVars, requestVars, modeVars, bridge, answers, reports, newest>>

\* The call counts only if its request is still the pending one.
CommitCall(t) ==
    /\ thread[t].at = "sent"
    /\ IF pending = thread[t].sent.request
       THEN /\ pending' = None /\ inflight' = thread[t].sent
            /\ Continue(t, [at |-> "adding", sent |-> thread[t].sent])
            /\ UNCHANGED failed
       ELSE Done(t) /\ UNCHANGED <<pending, inflight>>
    /\ UNCHANGED <<switchVars, generation, modeVars, bridge, channelVars, newest>>

\* _fail_request: an older request fails silently.
FailRequest(t) ==
    /\ thread[t].at = "failing"
    /\ pending' = IF pending = thread[t].request THEN None ELSE pending
    /\ state' = IF thread[t].request.generation = generation THEN "error" ELSE state
    /\ IF thread[t].next = Due THEN Continue(t, Due) /\ UNCHANGED failed ELSE Done(t)
    /\ UNCHANGED <<switchVars, inflight, generation, requested, active, confirmed,
                   diagnostics, bridge, channelVars, newest>>

-----------------------------------------------------------------------------
\* Answers.

\* Seeded fault: an accepted request is taken for a fulfilled one.
AcceptAtOnce(mode) ==
    /\ requested' = mode /\ active' = mode
    /\ confirmed' = TRUE /\ state' = "active"

\* What a successful answer to the newest request makes known: disabling is done,
\* enabling is only accepted unless the diagnostics have already said more.
Accept(mode) ==
    /\ requested' = mode
    /\ IF mode = "pointcloud" \/ diagnostics \in {"ready", "degraded"}
       THEN active' = mode /\ confirmed' = TRUE /\ state' = "active"
       ELSE state' = "loading" /\ UNCHANGED <<active, confirmed>>

\* Seeded fault: the answer to a superseded request counts too.
ServiceResultOfAny(t, sent, success) ==
    /\ inflight' = IF inflight = sent THEN None ELSE inflight
    /\ IF inflight = sent
       THEN \/ success /\ Accept(sent.request.mode)
            \/ ~success /\ state' = "error" /\ UNCHANGED <<requested, active, confirmed>>
       ELSE UNCHANGED <<requested, active, confirmed, state>>
    /\ Continue(t, Due)
    /\ UNCHANGED diagnostics

\* _on_service_result: an answer to an older request, or to a call given up, only
\* frees the way for the next one.
ServiceResult(t, sent, success) ==
    /\ inflight' = IF inflight = sent THEN None ELSE inflight
    /\ IF inflight = sent /\ sent.request.generation = generation
       THEN \/ success /\ Accept(sent.request.mode)
            \/ ~success /\ state' = "error" /\ UNCHANGED <<requested, active, confirmed>>
       ELSE UNCHANGED <<requested, active, confirmed, state>>
    /\ Continue(t, Due)
    /\ UNCHANGED diagnostics

\* add_done_callback: on a future that was cancelled it runs at once, on this
\* thread, and only dispatches; the one of an answered future waits for the executor.
AddCallback(t) ==
    /\ thread[t].at = "adding"
    /\ IF inflight = thread[t].sent THEN Done(t) ELSE Continue(t, Due) /\ UNCHANGED failed
    /\ UNCHANGED <<switchVars, requestVars, modeVars, bridge, channelVars, newest>>

Listening(sent) == \A t \in Threads : thread[t] # [at |-> "adding", sent |-> sent]

\* The callback of an answered call that still counts.
OnServiceResult ==
    /\ thread["answers"] = Idle
    /\ inflight # None /\ Listening(inflight)
    /\ \E answer \in answers :
          /\ answer.call = inflight.call
          /\ ServiceResult("answers", inflight, answer.success)
          /\ answers' = answers \ {answer}
    /\ UNCHANGED <<switchVars, pending, generation, bridge, failed, inbox, calls, reports,
                   newest>>

-----------------------------------------------------------------------------
\* The timer and the diagnostics.

\* _poll_requests.  Cancelling a call that timed out runs its callback, if there is
\* one already and no answer: the next request is then dispatched before the timeout
\* is reported.
PollRequests ==
    /\ thread["executor"] = Idle /\ bridge # "created"
    /\ \/ /\ inflight # None
          /\ inflight' = None
          /\ \/ /\ Listening(inflight)
                /\ failed' = inflight.request /\ Continue("executor", Due)
             \/ /\ ~Listening(inflight) \/ \E answer \in answers : answer.call = inflight.call
                /\ Continue("executor", [at |-> "failing", request |-> inflight.request,
                                        next |-> Due])
                /\ UNCHANGED failed
          /\ UNCHANGED pending
       \/ /\ inflight = None /\ pending # None
          /\ pending' = None
          /\ Continue("executor", [at |-> "failing", request |-> pending, next |-> Due])
          /\ UNCHANGED <<inflight, failed>>
       \/ /\ Continue("executor", Due)
          /\ UNCHANGED <<pending, inflight, failed>>
    /\ UNCHANGED <<switchVars, generation, modeVars, bridge, channelVars, newest>>

\* Before the first command, the bridge adopts what the node says.
Adopted(report) ==
    IF generation # 0 \/ confirmed THEN requested
    ELSE IF report = "disabled" THEN "pointcloud" ELSE "edgetam"

\* Seeded fault: every report to a bridge that wants EdgeTAM becomes its state.
ReconcileEchoing(report) ==
    IF requested' = "edgetam"
    THEN /\ state' = IF report = "ready" THEN "active" ELSE report
         /\ active' = IF report = "ready" THEN "edgetam" ELSE active
         /\ confirmed' = (confirmed \/ report = "ready")
    ELSE /\ state' = IF report = "disabled" THEN "active" ELSE state
         /\ active' = IF report = "disabled" THEN "pointcloud" ELSE active
         /\ confirmed' = (confirmed \/ report = "disabled")

\* The report is matched with the mode that is wanted.
Reconcile(report) ==
    \/ /\ requested' = "edgetam" /\ report \in {"ready", "degraded"}
       /\ active' = "edgetam" /\ confirmed' = TRUE /\ state' = "active"
    \/ /\ requested' = "edgetam" /\ report \in {"loading", "error"}
       /\ state' = report /\ UNCHANGED <<active, confirmed>>
    \/ /\ requested' = "edgetam" /\ report = "disabled"
       /\ UNCHANGED <<active, confirmed, state>>
    \/ /\ requested' = "pointcloud" /\ report = "disabled"
       /\ active' = "pointcloud" /\ confirmed' = TRUE /\ state' = "active"
    \/ /\ requested' = "pointcloud" /\ report # "disabled"
       /\ state' = IF pending # None \/ inflight # None THEN "loading" ELSE state
       /\ UNCHANGED <<active, confirmed>>

\* _on_diagnostics.
OnDiagnostics ==
    /\ thread["executor"] = Idle /\ bridge # "created"
    /\ reports # <<>>
    /\ reports' = Tail(reports)
    /\ diagnostics' = Head(reports)
    /\ requested' = Adopted(Head(reports))
    /\ Reconcile(Head(reports))
    /\ UNCHANGED <<switchVars, requestVars, bridge, thread, failed, inbox, answers, calls,
                   newest>>

-----------------------------------------------------------------------------
\* The node.

\* _set_edgetam_enabled, in the order of arrival; a node that is shutting down
\* refuses.
Serve ==
    /\ inbox # <<>>
    /\ inbox' = Tail(inbox)
    /\ LET request == Head(inbox).request IN
       \E success \in BOOLEAN :
          /\ answers' = answers \union {[call |-> Head(inbox).call, success |-> success]}
          /\ IF success
             THEN /\ IF request.mode = "edgetam" THEN Enable ELSE Disable
                  /\ newest' = IF request.generation > newest
                                THEN request.generation ELSE newest
             ELSE UNCHANGED <<switchVars, newest>>
    /\ UNCHANGED <<requestVars, modeVars, bridge, thread, failed, calls, reports>>

\* _publish_diagnostics: a full queue loses its oldest report.
PublishDiagnostics ==
    /\ reports' = Append(IF Len(reports) < DiagnosticsDepth THEN reports ELSE Tail(reports),
                         status)
    /\ UNCHANGED <<switchVars, requestVars, modeVars, bridge, thread, failed, inbox, answers,
                   calls, newest>>

\* The loader and the worker of the node.
NodeWorks ==
    /\ Load \/ LoadFails \/ Judge
    /\ UNCHANGED <<requestVars, modeVars, bridge, thread, failed, channelVars, newest>>

Dispatch(t) ==
    ReadPending(t) \/ CallService(t) \/ CommitCall(t) \/ AddCallback(t) \/ FailRequest(t)

ControlNext ==
    \/ \E mode \in Modes : RequestMode(mode)
    \/ Attach \/ Start
    \/ \E t \in Threads : Dispatch(t)
    \/ OnServiceResult \/ PollRequests \/ OnDiagnostics
    \/ Serve \/ PublishDiagnostics \/ NodeWorks

ControlSpec == ControlInit /\ [][ControlNext]_vars

-----------------------------------------------------------------------------
\* Safety.

\* The types of the bridge's state; generations and calls stay within bounds.
TypeOK ==
    /\ pending \in Requests \union {None} /\ inflight \in Calls \union {None}
    /\ generation \in 0..MaxGeneration /\ calls \in 0..MaxCalls
    /\ requested \in Modes /\ active \in Modes
    /\ state \in {"loading", "active", "error"} /\ confirmed \in BOOLEAN
    /\ diagnostics \in Statuses \union {None}
    /\ inbox \in Seq(Calls) /\ reports \in Seq(Statuses)
    /\ newest \in 0..generation

\* The bridge never announces the refinement as active before the node has a
\* model: an accepted enable is not a ready one.
NeverActiveUnloaded == confirmed /\ active = "edgetam" => loaded

\* A request that ended nowhere is not shown as loading for ever: while the
\* point-cloud mode is loading, its request is pending, in flight or in a thread.
Busy == pending # None \/ inflight # None \/ \E t \in Threads : thread[t] # Idle
LoadingIsOwed == state = "loading" /\ requested = "pointcloud" /\ generation > 0 => Busy

\* A mode that is announced because of an answer is the one asked for last, and
\* the node has handled that request: late answers and answers to superseded or
\* given-up requests announce nothing.
AnswersAnnounceNewest ==
    [][state # "active" /\ state' = "active" /\ answers' # answers =>
           newest = generation /\ requested' = requested]_vars

\* test_latest_request_wins: when every call has been answered, nothing is under
\* way and the bridge announces the mode asked for last, the node is in that mode.
\* The code does not keep it.
LatestRequestWins ==
    state = "active" /\ ~Busy /\ inbox = <<>> /\ answers = {} =>
        enabled = (requested = "edgetam")

=============================================================================

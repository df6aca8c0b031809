----------------------- MODULE EdgeTamControl_proofs -----------------------
(***************************************************************************)
(* Theorems about EdgeTamControl, for any number of requests, calls and    *)
(* reports on their way.                                                   *)
(***************************************************************************)
EXTENDS EdgeTamControl, TLAPS

-----------------------------------------------------------------------------
(***************************************************************************)
(* What is said of the model is true.                                      *)
(***************************************************************************)
\* A report that has been made of a model remains true: it is never unloaded.
Claims(report) == report \in {"ready", "degraded"} => loaded = TRUE

LoadInv ==
    /\ loaded \in BOOLEAN
    /\ status \in Statuses /\ Claims(status)
    /\ reports \in Seq(Statuses)
    /\ \A i \in 1..Len(reports) : Claims(reports[i])
    /\ Claims(diagnostics)
    /\ confirmed /\ active = "edgetam" => loaded = TRUE

LEMMA LoadInit == ControlInit => LoadInv
<1> SUFFICES ASSUME ControlInit PROVE LoadInv
  OBVIOUS
<1>1. loaded = FALSE /\ status \in {"loading", "disabled"}
  BY DEF ControlInit, Init, Reported
<1>2. reports = <<>> /\ diagnostics = None /\ confirmed = FALSE
  BY DEF ControlInit
<1>3. Claims(status) /\ Claims(diagnostics)
  BY <1>1, <1>2, NoneAssumption DEF Claims, Statuses
<1>4. reports \in Seq(Statuses) /\ Len(reports) = 0
  BY <1>2
<1>5. loaded \in BOOLEAN /\ status \in Statuses
  BY <1>1 DEF Statuses
<1>6. \A i \in 1..Len(reports) : Claims(reports[i])
  BY <1>4
<1>7. confirmed /\ active = "edgetam" => loaded = TRUE
  BY <1>2
<1>8. QED BY <1>3, <1>4, <1>5, <1>6, <1>7 DEF LoadInv

\* Where the bridge, the reports and the switch stay as they are.
LEMMA Unheard ==
    ASSUME LoadInv, UNCHANGED <<switchVars, reports, diagnostics, active, confirmed>>
    PROVE  LoadInv'
  BY DEF LoadInv, Claims, switchVars

LEMMA AnswerKeepsLoad ==
    ASSUME LoadInv, OnServiceResult
    PROVE  LoadInv'
<1> USE DEF LoadInv, Claims, switchVars
<1>1. PICK answer \in answers : ServiceResult("answers", inflight, answer.success)
  BY DEF OnServiceResult
<1>2. UNCHANGED <<switchVars, reports, diagnostics>>
  BY <1>1 DEF OnServiceResult, ServiceResult
<1>3. CASE UNCHANGED <<active, confirmed>>
  BY <1>2, <1>3
<1>4. CASE Accept(inflight.request.mode)
  BY <1>2, <1>4 DEF Accept
<1>5. QED BY <1>1, <1>2, <1>3, <1>4 DEF ServiceResult

LEMMA DiagnosticsKeepLoad ==
    ASSUME LoadInv, OnDiagnostics
    PROVE  LoadInv'
<1>1. /\ Head(reports) = reports[1] /\ 1 \in 1..Len(reports)
      /\ reports' \in Seq(Statuses)
      /\ \A i \in 1..Len(reports') : reports'[i] = reports[i + 1] /\ i + 1 \in 1..Len(reports)
  BY DEF OnDiagnostics, LoadInv
<1>2. Claims(Head(reports)) /\ \A i \in 1..Len(reports') : Claims(reports'[i])
  BY <1>1 DEF LoadInv
<1>3. UNCHANGED switchVars /\ diagnostics' = Head(reports)
  BY DEF OnDiagnostics
<1>4. confirmed' /\ active' = "edgetam" => loaded = TRUE
  BY <1>2 DEF OnDiagnostics, Reconcile, LoadInv, Claims
<1>5. QED BY <1>1, <1>2, <1>3, <1>4 DEF LoadInv, Claims, switchVars

LEMMA NodeKeepsLoad ==
    ASSUME LoadInv, Serve \/ PublishDiagnostics \/ NodeWorks
    PROVE  LoadInv'
<1> USE DEF modeVars, channelVars, switchVars
<1>1. CASE Serve
  BY <1>1 DEF Serve, Enable, Disable, Reported, LoadInv, Claims, Statuses
<1>2. CASE PublishDiagnostics
  <2> DEFINE kept == IF Len(reports) < DiagnosticsDepth THEN reports ELSE Tail(reports)
  <2>1. kept \in Seq(Statuses) /\ \A i \in 1..Len(kept) : Claims(kept[i])
    <3>1. CASE Len(reports) < DiagnosticsDepth
      BY <3>1 DEF LoadInv
    <3>2. CASE ~(Len(reports) < DiagnosticsDepth)
      <4>1. reports # <<>>
        BY <3>2, ControlAssumption
      <4>2. \A i \in 1..Len(Tail(reports)) :
               Tail(reports)[i] = reports[i + 1] /\ i + 1 \in 1..Len(reports)
        BY <4>1 DEF LoadInv
      <4>3. QED BY <3>2, <4>1, <4>2 DEF LoadInv
    <3>3. QED BY <3>1, <3>2
  <2>2. reports' = Append(kept, status)
    BY <1>2 DEF PublishDiagnostics
  <2> HIDE DEF kept
  <2>3. reports' \in Seq(Statuses) /\ \A i \in 1..Len(reports') : Claims(reports'[i])
    BY <2>1, <2>2 DEF LoadInv
  <2>4. UNCHANGED <<switchVars, modeVars>>
    BY <1>2 DEF PublishDiagnostics
  <2>5. QED BY <2>3, <2>4 DEF LoadInv, Claims
<1>3. CASE NodeWorks
  BY <1>3 DEF NodeWorks, Load, LoadFails, Judge, LoadInv, Claims, Statuses
<1>4. QED BY <1>1, <1>2, <1>3

LEMMA LoadStep == LoadInv /\ [ControlNext]_vars => LoadInv'
<1> SUFFICES ASSUME LoadInv, [ControlNext]_vars PROVE LoadInv'
  OBVIOUS
<1> USE DEF modeVars, channelVars
<1>1. CASE \E mode \in Modes : RequestMode(mode)
  BY <1>1, Unheard DEF RequestMode, Request
<1>2. CASE Attach \/ Start
  BY <1>2, Unheard DEF Attach, Start, Request
<1>3. CASE \E t \in Threads : Dispatch(t)
  BY <1>3, Unheard DEF Dispatch, ReadPending, CallService, CommitCall, AddCallback,
                       FailRequest
<1>4. CASE PollRequests
  BY <1>4, Unheard DEF PollRequests
<1>5. CASE OnServiceResult
  BY <1>5, AnswerKeepsLoad
<1>6. CASE OnDiagnostics
  BY <1>6, DiagnosticsKeepLoad
<1>7. CASE Serve \/ PublishDiagnostics \/ NodeWorks
  BY <1>7, NodeKeepsLoad
<1>8. CASE UNCHANGED vars
  BY <1>8, Unheard DEF vars
<1>9. QED BY <1>1, <1>2, <1>3, <1>4, <1>5, <1>6, <1>7, <1>8 DEF ControlNext

\* EdgeTAM is announced as active only once the node has had a model, in whatever
\* order requests, answers and diagnostics arrive or get lost.
THEOREM ActiveIsLoaded == ControlSpec => []NeverActiveUnloaded
<1>1. LoadInv => NeverActiveUnloaded
  BY DEF LoadInv, NeverActiveUnloaded
<1>2. QED BY <1>1, LoadInit, LoadStep, PTL DEF ControlSpec

-----------------------------------------------------------------------------
(***************************************************************************)
(* An answer that announces a mode answers the newest request.  The        *)
(* invariant follows a call from the thread that makes it to its answer: a *)
(* call's number identifies its request, and a successful answer means     *)
(* that the node has handled a request at least as new.                    *)
(***************************************************************************)
\* The calls that count or may still come to count.
SentCalls == {m \in Calls : \E t \in Threads : thread[t].at = "sent" /\ thread[t].sent = m}
Outstanding == SentCalls \union {m \in Calls : m = inflight}

Typed ==
    /\ generation \in Nat /\ calls \in Nat /\ newest \in Nat /\ newest <= generation
    /\ requested \in Modes
    /\ pending \in Requests \union {None} /\ inflight \in Calls \union {None}
    /\ inbox \in Seq(Calls)

ThreadsTyped ==
    /\ thread = [t \in Threads |-> thread[t]]
    /\ \A t \in Threads : thread[t].at = "read" =>
          thread[t].request \in Requests /\ thread[t].request.generation <= generation
    /\ \A t \in Threads : thread[t].at = "sent" => thread[t].sent \in Calls

\* What is pending, and what is in flight for the newest request, is wanted.
Asked ==
    /\ pending # None => pending.generation = generation /\ pending.mode = requested
    /\ inflight # None /\ inflight.request.generation = generation =>
          inflight.request.mode = requested

Posted ==
    /\ \A i \in 1..Len(inbox) :
          inbox[i].call <= calls /\ inbox[i].request.generation <= generation
    /\ \A a \in answers : a.call \in Nat /\ a.call <= calls
    /\ \A m \in Outstanding :
          /\ m.call <= calls /\ m.request.generation <= generation
          /\ \A i \in 1..Len(inbox) : inbox[i].call = m.call => inbox[i].request = m.request
          /\ \A a \in answers :
                a.call = m.call /\ a.success = TRUE => m.request.generation <= newest

OutInv == Typed /\ ThreadsTyped /\ Asked /\ Posted

LEMMA OutInit == ControlInit => OutInv
<1> SUFFICES ASSUME ControlInit PROVE OutInv
  OBVIOUS
<1> USE ControlAssumption DEF ControlInit
<1>1. Typed
  BY DEF Typed
<1>2. ThreadsTyped
  BY DEF ThreadsTyped, Idle
<1>3. Asked
  BY DEF Asked
<1>4. Posted
  <2>1. Len(inbox) = 0 /\ answers = {} /\ \A t \in Threads : thread[t].at = "idle"
    BY DEF Idle
  <2>2. Outstanding = {}
    BY <2>1, NoneAssumption DEF Outstanding, SentCalls
  <2>3. QED
    BY <2>1, <2>2 DEF Posted
<1>5. QED BY <1>1, <1>2, <1>3, <1>4 DEF OutInv

\* A thread that moves on without a request or a call in hand.
LetsGo(t) ==
    /\ thread' = [thread EXCEPT ![t] = thread'[t]]
    /\ thread'[t].at \notin {"read", "sent"}

LEMMA ThreadLetsGo ==
    ASSUME ThreadsTyped, NEW t \in Threads, LetsGo(t), generation \in Nat,
           generation' \in Nat, generation <= generation'
    PROVE  ThreadsTyped' /\ SentCalls' \subseteq SentCalls
<1>1. /\ thread' = [u \in Threads |-> thread'[u]]
      /\ \A u \in Threads : u # t => thread'[u] = thread[u]
  BY DEF ThreadsTyped, LetsGo
<1>2. ThreadsTyped'
  BY <1>1 DEF ThreadsTyped, LetsGo, Requests
<1>3. SentCalls' \subseteq SentCalls
  BY <1>1 DEF SentCalls, LetsGo
<1>4. QED BY <1>2, <1>3

LEMMA ContinueLetsGo ==
    ASSUME ThreadsTyped, NEW t \in Threads, NEW next, Continue(t, next),
           next.at \notin {"read", "sent"}
    PROVE  LetsGo(t)
  BY DEF Continue, LetsGo, ThreadsTyped

LEMMA DoneLetsGo ==
    ASSUME ThreadsTyped, NEW t \in Threads, Done(t)
    PROVE  LetsGo(t)
  BY DEF Done, Continue, LetsGo, ThreadsTyped, Idle

\* Nothing new is posted and nothing new counts.
LEMMA PostedStays ==
    ASSUME Typed, Posted, UNCHANGED <<calls, newest, inbox>>, answers' \subseteq answers,
           generation' \in Nat, generation <= generation', Outstanding' \subseteq Outstanding
    PROVE  Posted'
<1>1. \A i \in 1..Len(inbox) : inbox[i] \in Calls
  BY DEF Typed
<1>2. \A m \in Outstanding : m \in Calls
  BY DEF Outstanding, SentCalls
<1>3. QED
  BY <1>1, <1>2 DEF Typed, Posted, Calls, Requests

LEMMA FewerOutstanding ==
    ASSUME SentCalls' \subseteq SentCalls, inflight' = inflight \/ inflight' = None
    PROVE  Outstanding' \subseteq Outstanding
  BY NoneAssumption DEF Outstanding

\* Where threads only let go and requests only end.
LEMMA NothingNew ==
    ASSUME OutInv, NEW t \in Threads, LetsGo(t),
           UNCHANGED <<generation, requested, calls, newest, inbox>>,
           pending' \in {pending, None}, inflight' \in {inflight, None},
           answers' \subseteq answers
    PROVE  OutInv'
<1> USE DEF OutInv
<1>1. Typed' /\ Asked'
  BY DEF Typed, Asked
<1>2. ThreadsTyped' /\ SentCalls' \subseteq SentCalls
  BY ThreadLetsGo DEF Typed
<1>3. Posted'
  BY <1>2, FewerOutstanding, PostedStays DEF Typed
<1>4. QED BY <1>1, <1>2, <1>3

\* A new request: it is the newest, and what is in flight is older.
LEMMA RequestKeepsOut ==
    ASSUME OutInv, NEW t \in Threads, Continue(t, Due), NEW mode \in Modes, Request(mode),
           requested' = mode, UNCHANGED <<inflight, calls, newest, inbox, answers>>
    PROVE  OutInv'
<1> USE DEF OutInv
<1>1. generation' = generation + 1 /\ generation' \in 1..MaxGeneration
  BY ControlAssumption DEF Request, Typed
<1>2. pending' = [generation |-> generation', mode |-> mode] /\ pending' \in Requests
  BY <1>1 DEF Request, Requests
<1>3. Typed'
  BY <1>1, <1>2 DEF Typed
<1>4. ThreadsTyped' /\ SentCalls' \subseteq SentCalls
  BY <1>1, ContinueLetsGo, ThreadLetsGo DEF Typed, Due
<1>5. Posted'
  BY <1>1, <1>4, FewerOutstanding, PostedStays DEF Typed
<1>6. inflight # None => inflight.request.generation <= generation
  BY DEF Posted, Outstanding, Typed
<1>7. inflight # None => inflight.request.generation \in Nat
  BY DEF Typed, Calls, Requests
<1>8. Asked'
  BY <1>1, <1>2, <1>6, <1>7 DEF Asked, Typed
<1>9. QED BY <1>3, <1>4, <1>5, <1>8

LEMMA DashboardKeepsOut ==
    ASSUME OutInv, (\E mode \in Modes : RequestMode(mode)) \/ Attach \/ Start
    PROVE  OutInv'
<1> USE DEF modeVars, channelVars, requestVars
<1>1. CASE \E mode \in Modes : RequestMode(mode)
  <2>1. PICK mode \in Modes : RequestMode(mode)
    BY <1>1
  <2>2. CASE Request(mode) /\ Continue("dashboard", Due)
    BY <2>1, <2>2, RequestKeepsOut DEF RequestMode, Threads
  <2>3. CASE UNCHANGED <<pending, generation, thread>> /\ pending = None /\ inflight = None
    <3>1. UNCHANGED <<inflight, calls, newest, inbox, answers>> /\ requested' = mode
      BY <2>1 DEF RequestMode
    <3>2. Typed' /\ ThreadsTyped' /\ Asked'
      BY <2>3, <3>1 DEF OutInv, Typed, ThreadsTyped, Asked
    <3>3. Posted'
      BY <2>3, <3>1 DEF OutInv, Posted, Outstanding, SentCalls
    <3>4. QED BY <3>2, <3>3 DEF OutInv
  <2>4. QED BY <2>1, <2>2, <2>3 DEF RequestMode
<1>2. CASE Attach
  BY <1>2 DEF Attach, OutInv, Typed, ThreadsTyped, Asked, Posted, Outstanding, SentCalls
<1>3. CASE Start
  <2>1. CASE Request(requested)
    BY <1>3, <2>1, RequestKeepsOut DEF Start, OutInv, Typed, Threads
  <2>2. CASE UNCHANGED <<pending, generation, state>>
    <3>1. LetsGo("dashboard")
      BY <1>3, ContinueLetsGo DEF Start, OutInv, Threads, Due
    <3>2. QED BY <1>3, <2>2, <3>1, NothingNew DEF Start, Threads
  <2>3. QED BY <1>3, <2>1, <2>2 DEF Start
<1>4. QED BY <1>1, <1>2, <1>3

\* A dispatch: what a thread reads is the newest request, a call gets a number of
\* its own, and only a call for the pending request comes to count.
LEMMA ReadKeepsOut ==
    ASSUME OutInv, NEW t \in Threads, ReadPending(t)
    PROVE  OutInv'
<1> USE DEF modeVars, channelVars, requestVars
<1>1. CASE Done(t)
  BY <1>1, DoneLetsGo, NothingNew DEF ReadPending, OutInv
<1>2. CASE pending # None /\ Continue(t, [at |-> "read", request |-> pending])
  <2>1. /\ thread'[t] = [at |-> "read", request |-> pending]
        /\ thread' = [u \in Threads |-> thread'[u]]
        /\ \A u \in Threads : u # t => thread'[u] = thread[u]
    BY <1>2 DEF Continue, OutInv, ThreadsTyped
  <2>2. pending \in Requests /\ pending.generation = generation
    BY <1>2 DEF OutInv, Typed, Asked
  <2>3. UNCHANGED <<generation, calls, newest, requested, pending, inflight, inbox, answers>>
    BY <1>2 DEF ReadPending
  <2>4. ThreadsTyped'
    BY <2>1, <2>2, <2>3 DEF OutInv, Typed, ThreadsTyped
  <2>5. SentCalls' \subseteq SentCalls
    BY <2>1 DEF SentCalls
  <2>6. Typed' /\ Asked'
    BY <2>3 DEF OutInv, Typed, Asked
  <2>7. Posted'
    BY <2>3, <2>5, FewerOutstanding, PostedStays DEF OutInv, Typed
  <2>8. QED BY <2>4, <2>6, <2>7 DEF OutInv
<1>3. QED BY <1>1, <1>2 DEF ReadPending

LEMMA CallKeepsOut ==
    ASSUME OutInv, NEW t \in Threads, CallService(t)
    PROVE  OutInv'
<1> USE DEF modeVars, channelVars, requestVars
<1>1. CASE Done(t) /\ UNCHANGED <<inbox, calls>>
  BY <1>1, DoneLetsGo, NothingNew DEF CallService, OutInv
<1>2. CASE Continue(t, [at |-> "failing", request |-> thread[t].request, next |-> Idle])
           /\ UNCHANGED <<inbox, calls>>
  <2>1. LetsGo(t)
    BY <1>2, ContinueLetsGo DEF OutInv
  <2>2. QED BY <1>2, <2>1, NothingNew DEF CallService
<1>3. CASE /\ calls < MaxCalls /\ calls' = calls + 1
           /\ inbox' = Append(inbox, [request |-> thread[t].request, call |-> calls'])
           /\ Continue(t, [at |-> "sent", sent |-> inbox'[Len(inbox')]])
  <2> DEFINE new == [request |-> thread[t].request, call |-> calls + 1]
  <2>1. thread[t].request \in Requests /\ thread[t].request.generation <= generation
    BY DEF CallService, OutInv, ThreadsTyped
  <2>2. new \in Calls /\ new.request.generation <= generation
    BY <1>3, <2>1, ControlAssumption DEF OutInv, Typed, Calls
  <2>3. inbox' = Append(inbox, new) /\ new.call = calls + 1 /\ calls' = calls + 1
    BY <1>3
  <2>4. UNCHANGED <<generation, newest, requested, pending, inflight, answers>>
    BY DEF CallService
  <2> HIDE DEF new
  <2>5. /\ inbox' \in Seq(Calls) /\ Len(inbox') = Len(inbox) + 1
        /\ inbox'[Len(inbox')] = new
        /\ \A i \in 1..Len(inbox) : inbox'[i] = inbox[i]
    BY <2>2, <2>3 DEF OutInv, Typed
  <2>6. Typed' /\ Asked'
    BY <2>3, <2>4, <2>5 DEF OutInv, Typed, Asked
  <2>7. /\ thread'[t] = [at |-> "sent", sent |-> new]
        /\ thread' = [u \in Threads |-> thread'[u]]
        /\ \A u \in Threads : u # t => thread'[u] = thread[u]
    BY <1>3, <2>5 DEF Continue, OutInv, ThreadsTyped
  <2>8. ThreadsTyped'
    BY <2>2, <2>4, <2>7 DEF OutInv, ThreadsTyped
  <2>9. \A m \in Outstanding' : m \in Outstanding \/ m = new
    BY <2>4, <2>7 DEF Outstanding, SentCalls
  <2>10. Posted'
    <3>1. \A i \in 1..Len(inbox) : inbox[i] \in Calls
      BY DEF OutInv, Typed
    <3>2. \A m \in Outstanding : m \in Calls
      BY DEF Outstanding, SentCalls
    <3>3. \A i \in 1..Len(inbox') :
             inbox'[i].call <= calls' /\ inbox'[i].request.generation <= generation'
      BY <2>2, <2>3, <2>4, <2>5, <3>1 DEF OutInv, Typed, Posted, Calls
    <3>4. \A a \in answers' : a.call \in Nat /\ a.call <= calls'
      BY <2>3, <2>4 DEF OutInv, Typed, Posted
    <3>5. \A m \in Outstanding :
             /\ m.call <= calls' /\ m.request.generation <= generation'
             /\ \A i \in 1..Len(inbox') :
                   inbox'[i].call = m.call => inbox'[i].request = m.request
             /\ \A a \in answers' :
                   a.call = m.call /\ a.success = TRUE => m.request.generation <= newest'
      BY <2>3, <2>4, <2>5, <3>2 DEF OutInv, Typed, Posted, Calls
    <3>6. /\ new.call <= calls' /\ new.request.generation <= generation'
          /\ \A i \in 1..Len(inbox') :
                inbox'[i].call = new.call => inbox'[i].request = new.request
          /\ \A a \in answers' :
                a.call = new.call /\ a.success = TRUE => new.request.generation <= newest'
      BY <2>2, <2>3, <2>4, <2>5, <3>1 DEF OutInv, Typed, Posted, Calls
    <3>7. QED BY <2>9, <3>3, <3>4, <3>5, <3>6 DEF Posted
  <2>11. QED BY <2>6, <2>8, <2>10 DEF OutInv
<1>4. QED BY <1>1, <1>2, <1>3 DEF CallService

LEMMA CommitKeepsOut ==
    ASSUME OutInv, NEW t \in Threads, CommitCall(t)
    PROVE  OutInv'
<1> USE DEF modeVars, channelVars, requestVars
<1>1. CASE Done(t) /\ UNCHANGED <<pending, inflight>>
  BY <1>1, DoneLetsGo, NothingNew DEF CommitCall, OutInv
<1>2. CASE /\ pending = thread[t].sent.request
           /\ pending' = None /\ inflight' = thread[t].sent
           /\ Continue(t, [at |-> "adding", sent |-> thread[t].sent])
  <2>1. thread[t].sent \in Calls /\ thread[t].sent \in SentCalls
    BY DEF CommitCall, OutInv, ThreadsTyped, SentCalls
  <2>2. thread[t].sent.request \in Requests /\ pending # None
    BY <1>2, <2>1, NoneAssumption DEF Calls
  <2>3. UNCHANGED <<generation, calls, newest, requested, inbox, answers>>
    BY DEF CommitCall
  <2>4. Typed' /\ Asked'
    BY <1>2, <2>1, <2>2, <2>3 DEF OutInv, Typed, Asked
  <2>5. LetsGo(t)
    BY <1>2, ContinueLetsGo DEF OutInv
  <2>6. ThreadsTyped' /\ SentCalls' \subseteq SentCalls
    BY <2>3, <2>5, ThreadLetsGo DEF OutInv, Typed
  <2>7. Posted'
    BY <1>2, <2>1, <2>3, <2>6, PostedStays DEF OutInv, Typed, Outstanding
  <2>8. QED BY <2>4, <2>6, <2>7 DEF OutInv
<1>3. QED BY <1>1, <1>2 DEF CommitCall

LEMMA DispatchKeepsOut ==
    ASSUME OutInv, NEW t \in Threads, Dispatch(t)
    PROVE  OutInv'
<1> USE DEF modeVars, channelVars, requestVars
<1>1. CASE AddCallback(t)
  <2>1. LetsGo(t)
    BY <1>1, DoneLetsGo, ContinueLetsGo DEF AddCallback, Due, OutInv
  <2>2. QED BY <1>1, <2>1, NothingNew DEF AddCallback
<1>2. CASE FailRequest(t)
  <2>1. LetsGo(t)
    BY <1>2, DoneLetsGo, ContinueLetsGo DEF FailRequest, Due, OutInv
  <2>2. QED BY <1>2, <2>1, NothingNew DEF FailRequest
<1>3. QED
  BY <1>1, <1>2, ReadKeepsOut, CallKeepsOut, CommitKeepsOut DEF Dispatch

\* An answer that counts is removed together with what was in flight; what it
\* announces was wanted already.
LEMMA AnswerKeepsOut ==
    ASSUME OutInv, OnServiceResult
    PROVE  OutInv' /\ UNCHANGED requested
<1> USE DEF modeVars, channelVars, requestVars
<1>1. PICK answer \in answers : ServiceResult("answers", inflight, answer.success)
                                /\ answers' = answers \ {answer}
  BY DEF OnServiceResult
<1>2. inflight # None /\ inflight' = None
  BY <1>1 DEF OnServiceResult, ServiceResult
<1>3. UNCHANGED requested
  <2>1. CASE inflight.request.generation = generation /\ Accept(inflight.request.mode)
    BY <1>2, <2>1 DEF Accept, OutInv, Asked
  <2>2. CASE UNCHANGED requested
    BY <2>2
  <2>3. QED BY <1>1, <2>1, <2>2 DEF ServiceResult
<1>4. LetsGo("answers")
  BY <1>1, ContinueLetsGo DEF ServiceResult, OutInv, Threads, Due
<1>5. QED
  BY <1>1, <1>2, <1>3, <1>4, NothingNew DEF OnServiceResult, Threads

LEMMA TimerKeepsOut ==
    ASSUME OutInv, PollRequests
    PROVE  OutInv'
<1> USE DEF modeVars, channelVars, requestVars
<1>1. PICK next : Continue("executor", next) /\ next.at \notin {"read", "sent"}
  BY DEF PollRequests, Due
<1>2. LetsGo("executor")
  BY <1>1, ContinueLetsGo DEF OutInv, Threads
<1>3. QED
  BY <1>2, NothingNew DEF PollRequests, Threads

\* Once there has been a request, diagnostics do not change what is wanted.
LEMMA DiagnosticsKeepOut ==
    ASSUME OutInv, OnDiagnostics
    PROVE  OutInv'
<1> USE DEF modeVars, channelVars, requestVars
<1>1. UNCHANGED <<generation, calls, newest, pending, inflight, inbox, answers, thread>>
  BY DEF OnDiagnostics
<1>2. requested' \in Modes /\ (generation # 0 => requested' = requested)
  <2>1. requested' = Adopted(Head(reports)) /\ requested \in Modes
    BY DEF OnDiagnostics, OutInv, Typed
  <2>2. CASE generation # 0 \/ confirmed
    BY <2>1, <2>2 DEF Adopted
  <2>3. CASE ~(generation # 0 \/ confirmed)
    BY <2>1, <2>3 DEF Adopted, Modes
  <2>4. QED BY <2>2, <2>3
<1>3. pending # None => generation # 0
  BY DEF OutInv, Typed, Asked, Requests
<1>4. inflight # None => inflight.request.generation \in 1..MaxGeneration
  BY DEF OutInv, Typed, Calls, Requests
<1>5. Typed' /\ ThreadsTyped' /\ Posted'
  BY <1>1, <1>2 DEF OutInv, Typed, ThreadsTyped, Posted, Outstanding, SentCalls
<1>6. Asked'
  BY <1>1, <1>2, <1>3, <1>4, ControlAssumption DEF OutInv, Typed, Asked
<1>7. QED BY <1>5, <1>6 DEF OutInv

\* The node's answer to a call is about the request the call was made for.
LEMMA ServeKeepsOut ==
    ASSUME OutInv, Serve
    PROVE  OutInv'
<1> USE DEF modeVars, channelVars, requestVars
<1> DEFINE head == Head(inbox)
<1>1. /\ head = inbox[1] /\ 1 \in 1..Len(inbox) /\ head \in Calls
      /\ inbox' \in Seq(Calls)
      /\ \A i \in 1..Len(inbox') : inbox'[i] = inbox[i + 1] /\ i + 1 \in 1..Len(inbox)
  BY DEF Serve, OutInv, Typed
<1>2. UNCHANGED <<generation, calls, requested, pending, inflight, thread>>
  BY DEF Serve
<1>3. PICK success \in BOOLEAN :
        /\ answers' = answers \union {[call |-> head.call, success |-> success]}
        /\ newest' = IF success /\ head.request.generation > newest
                     THEN head.request.generation ELSE newest
  BY DEF Serve
<1> HIDE DEF head
<1>4. head.request.generation \in Nat /\ head.request.generation <= generation
      /\ head.call \in Nat /\ head.call <= calls
  BY <1>1 DEF OutInv, Typed, Posted, Calls, Requests
<1>5. newest' \in Nat /\ newest <= newest' /\ newest' <= generation
      /\ (success => head.request.generation <= newest')
  BY <1>3, <1>4 DEF OutInv, Typed
<1>6. Typed' /\ ThreadsTyped' /\ Asked'
  BY <1>1, <1>2, <1>5 DEF OutInv, Typed, ThreadsTyped, Asked
<1>7. Outstanding' = Outstanding /\ \A m \in Outstanding : m \in Calls
  BY <1>2 DEF Outstanding, SentCalls
<1>8. \A i \in 1..Len(inbox') :
         inbox'[i].call <= calls' /\ inbox'[i].request.generation <= generation'
  BY <1>1, <1>2 DEF OutInv, Posted
<1>9. \A a \in answers' : a.call \in Nat /\ a.call <= calls'
  BY <1>2, <1>3, <1>4 DEF OutInv, Posted
<1>10. \A m \in Outstanding :
         /\ m.call <= calls' /\ m.request.generation <= generation'
         /\ \A i \in 1..Len(inbox') : inbox'[i].call = m.call => inbox'[i].request = m.request
  <2>1. \A m \in Outstanding : m.call <= calls' /\ m.request.generation <= generation'
    BY <1>2 DEF OutInv, Posted
  <2>2. \A m \in Outstanding : \A i \in 1..Len(inbox) :
           inbox[i].call = m.call => inbox[i].request = m.request
    BY DEF OutInv, Posted
  <2>3. \A m \in Outstanding : \A i \in 1..Len(inbox') :
           inbox'[i].call = m.call => inbox'[i].request = m.request
    BY <1>1, <2>2
  <2>4. QED BY <2>1, <2>3
<1>11. \A m \in Outstanding : \A a \in answers' :
          a.call = m.call /\ a.success = TRUE => m.request.generation <= newest'
  <2> SUFFICES ASSUME NEW m \in Outstanding, NEW a \in answers',
                      a.call = m.call, a.success = TRUE
               PROVE  m.request.generation <= newest'
    OBVIOUS
  <2>1. m.request.generation \in Nat
    BY <1>7 DEF Calls, Requests
  <2>2. CASE a \in answers
    BY <1>5, <2>1, <2>2 DEF OutInv, Typed, Posted
  <2>3. CASE a = [call |-> head.call, success |-> success]
    <3>1. success /\ head.call = m.call
      BY <2>3
    <3>2. head.request = m.request
      BY <1>1, <3>1 DEF OutInv, Posted
    <3>3. QED BY <1>5, <3>1, <3>2
  <2>4. QED BY <1>3, <2>2, <2>3
<1>12. Posted'
  BY <1>7, <1>8, <1>9, <1>10, <1>11 DEF Posted
<1>13. QED BY <1>6, <1>12 DEF OutInv

LEMMA OutStep == OutInv /\ [ControlNext]_vars => OutInv'
<1> SUFFICES ASSUME OutInv, [ControlNext]_vars PROVE OutInv'
  OBVIOUS
<1>1. CASE UNCHANGED vars \/ PublishDiagnostics \/ NodeWorks
  <2>1. UNCHANGED <<generation, calls, newest, requested, pending, inflight, inbox,
                    answers, thread>>
    BY <1>1 DEF vars, PublishDiagnostics, NodeWorks, modeVars, channelVars, requestVars
  <2>2. Typed' /\ Asked'
    BY <2>1 DEF OutInv, Typed, Asked
  <2>3. ThreadsTyped' /\ Outstanding' = Outstanding
    BY <2>1 DEF OutInv, ThreadsTyped, Outstanding, SentCalls
  <2>4. Posted'
    BY <2>1, <2>3 DEF OutInv, Posted
  <2>5. QED BY <2>2, <2>3, <2>4 DEF OutInv
<1>2. QED
  BY <1>1, DashboardKeepsOut, DispatchKeepsOut, AnswerKeepsOut, TimerKeepsOut,
     DiagnosticsKeepOut, ServeKeepsOut DEF ControlNext

\* What an announcement by an answer tells.
Announces ==
    state # "active" /\ state' = "active" /\ answers' # answers =>
        newest = generation /\ requested' = requested

LEMMA StepAnnounces ==
    ASSUME OutInv, [ControlNext]_vars
    PROVE  Announces
<1> USE DEF modeVars, channelVars, requestVars
<1>1. CASE OnServiceResult
  <2> SUFFICES ASSUME state # "active", state' = "active"
               PROVE  newest = generation /\ requested' = requested
    BY DEF Announces
  <2>1. PICK answer \in answers : answer.call = inflight.call
                                  /\ ServiceResult("answers", inflight, answer.success)
    BY <1>1 DEF OnServiceResult
  <2>2. inflight.request.generation = generation /\ answer.success = TRUE
    BY <2>1 DEF ServiceResult
  <2>3. inflight \in Outstanding
    BY <1>1 DEF OnServiceResult, OutInv, Typed, Outstanding
  <2>4. generation <= newest
    BY <2>1, <2>2, <2>3 DEF OutInv, Posted
  <2>5. QED BY <1>1, <2>4, AnswerKeepsOut DEF OutInv, Typed
<1>2. CASE ~OnServiceResult
  <2>1. UNCHANGED answers \/ UNCHANGED state
    BY <1>2 DEF ControlNext, RequestMode, Attach, Start, Dispatch, ReadPending, CallService,
               CommitCall, AddCallback, FailRequest, PollRequests, OnDiagnostics, Serve,
               PublishDiagnostics, NodeWorks, vars
  <2>2. QED BY <2>1 DEF Announces
<1>3. QED BY <1>1, <1>2

\* A mode that an answer announces is the mode asked for last, and the node has
\* handled that request, for any number of requests, time-outs and late answers.
THEOREM AnnouncesNewest == ControlSpec => AnswersAnnounceNewest
<1>1. OutInv /\ [ControlNext]_vars => [Announces]_vars
  BY StepAnnounces
<1>2. QED
  BY <1>1, OutInit, OutStep, PTL DEF ControlSpec, AnswersAnnounceNewest, Announces

-----------------------------------------------------------------------------
(***************************************************************************)
(* Nothing is shown as loading for ever.  A call that is answered or timed *)
(* out may be the one for an older request: then the newer one is still    *)
(* pending, because nobody reads a pending request while a call is out.    *)
(***************************************************************************)
\* A thread that has the newest request in hand.
HoldsNewest(t) ==
    \/ thread[t].at \in {"read", "failing"} /\ thread[t].request.generation = generation
    \/ thread[t].at = "sent" /\ thread[t].sent.request.generation = generation

FailuresTyped ==
    /\ failed # None => failed \in Requests /\ failed.generation <= generation
    /\ failed # None => thread["executor"].at # "idle"
    /\ \A t \in Threads : thread[t].at = "failing" =>
          thread[t].request \in Requests /\ thread[t].request.generation <= generation

OlderCallOut ==
    inflight # None /\ inflight.request.generation # generation =>
        /\ pending # None
        /\ \A t \in Threads : ~HoldsNewest(t)
        /\ failed # None => failed.generation # generation

Owed ==
    state = "loading" /\ requested = "pointcloud" /\ generation > 0 =>
        \/ pending # None \/ inflight # None
        \/ failed # None /\ failed.generation = generation
        \/ \E t \in Threads :
              thread[t].at = "failing" /\ thread[t].request.generation = generation

OwedInv == FailuresTyped /\ OlderCallOut /\ Owed

LEMMA OwedInit == ControlInit => OwedInv
<1> SUFFICES ASSUME ControlInit PROVE OwedInv
  OBVIOUS
<1>1. \A t \in Threads : thread[t].at = "idle"
  BY DEF ControlInit, Idle
<1>2. failed = None /\ inflight = None /\ generation = 0
  BY DEF ControlInit
<1>3. QED
  BY <1>1, <1>2 DEF OwedInv, FailuresTyped, OlderCallOut, Owed

\* The threads after one of them has moved.
Moves(t, next) ==
    /\ thread'[t] = next
    /\ \A u \in Threads : u # t => thread'[u] = thread[u]

LEMMA ContinueMoves ==
    ASSUME ThreadsTyped, NEW t \in Threads, NEW next, Continue(t, next)
    PROVE  Moves(t, next)
  BY DEF Continue, Moves, ThreadsTyped

\* The end of a dispatch either reports the timeout it owes or owes none.
LEMMA DoneOutcome ==
    ASSUME ThreadsTyped, NEW t \in Threads, Done(t)
    PROVE  \/ /\ t = "executor" /\ failed # None /\ failed' = None
              /\ Moves(t, [at |-> "failing", request |-> failed, next |-> Due])
           \/ /\ t = "executor" => failed = None
              /\ failed' = failed /\ Moves(t, Idle)
  BY ContinueMoves DEF Done

\* A thread comes to the end of what it does, or to its next dispatch: what it had
\* in hand was not the newest request, or that one is shown as failed.
Leaves(t) ==
    \/ /\ pending' = pending /\ state' = state
       /\ thread[t].at = "failing" => thread[t].request.generation # generation
    \/ /\ pending' \in {pending, None} /\ state' = "error"
       /\ HoldsNewest(t)

LEMMA LeavingKeepsOwed ==
    ASSUME OutInv, OwedInv, NEW t \in Threads, thread[t].at # "idle",
           Done(t) \/ (Continue(t, Due) /\ UNCHANGED failed), Leaves(t),
           UNCHANGED <<generation, requested, inflight>>
    PROVE  OwedInv'
<1> USE DEF OutInv, OwedInv
<1>1. CASE /\ t = "executor" /\ failed # None /\ failed' = None
           /\ Moves(t, [at |-> "failing", request |-> failed, next |-> Due])
  <2>1. FailuresTyped'
    BY <1>1 DEF FailuresTyped, Moves
  <2>2. OlderCallOut'
    BY <1>1 DEF FailuresTyped, OlderCallOut, Moves, HoldsNewest, Leaves
  <2>3. Owed'
    BY <1>1 DEF Owed, Moves, Leaves
  <2>4. QED BY <2>1, <2>2, <2>3
<1>2. CASE /\ failed' = failed
           /\ \/ Moves(t, Idle) /\ (t = "executor" => failed = None)
              \/ Moves(t, Due)
  <2>1. FailuresTyped'
    BY <1>2 DEF FailuresTyped, Moves, Idle, Due, Threads
  <2>2. OlderCallOut'
    BY <1>2 DEF OlderCallOut, Moves, HoldsNewest, Leaves, Idle, Due
  <2>3. Owed'
    BY <1>2 DEF Owed, Moves, Leaves, Idle, Due
  <2>4. QED BY <2>1, <2>2, <2>3
<1>3. QED BY <1>1, <1>2, DoneOutcome, ContinueMoves

LEMMA ReadKeepsOwed ==
    ASSUME OutInv, OwedInv, NEW t \in Threads, ReadPending(t)
    PROVE  OwedInv'
<1> USE DEF modeVars, channelVars, requestVars
<1>1. CASE Done(t)
  BY <1>1, LeavingKeepsOwed DEF ReadPending, Leaves, Due
<1>2. CASE /\ pending # None /\ inflight = None
           /\ Continue(t, [at |-> "read", request |-> pending]) /\ UNCHANGED failed
  <2>1. Moves(t, [at |-> "read", request |-> pending])
    BY <1>2, ContinueMoves DEF OutInv
  <2>2. UNCHANGED <<generation, requested, state, pending, inflight>>
    BY DEF ReadPending
  <2>3. QED
    BY <1>2, <2>1, <2>2
       DEF OwedInv, FailuresTyped, OlderCallOut, Owed, Moves, Threads
<1>3. QED BY <1>1, <1>2 DEF ReadPending

LEMMA CallKeepsOwed ==
    ASSUME OutInv, OwedInv, NEW t \in Threads, CallService(t)
    PROVE  OwedInv'
<1> USE DEF modeVars, channelVars, requestVars
<1>1. UNCHANGED <<generation, requested, state, pending, inflight>> /\ thread[t].at = "read"
  BY DEF CallService
<1>2. thread[t].request \in Requests /\ thread[t].request.generation <= generation
  BY <1>1 DEF OutInv, ThreadsTyped
<1>3. CASE Done(t)
  BY <1>1, <1>3, LeavingKeepsOwed DEF Leaves
<1>4. CASE Continue(t, [at |-> "failing", request |-> thread[t].request, next |-> Idle])
           /\ UNCHANGED failed
  <2>1. Moves(t, [at |-> "failing", request |-> thread[t].request, next |-> Idle])
    BY <1>4, ContinueMoves DEF OutInv
  <2>2. QED
    BY <1>1, <1>2, <1>4, <2>1
       DEF OwedInv, FailuresTyped, OlderCallOut, Owed, Moves, HoldsNewest, Threads
<1>5. CASE /\ inbox' = Append(inbox, [request |-> thread[t].request, call |-> calls'])
           /\ Continue(t, [at |-> "sent", sent |-> inbox'[Len(inbox')]])
           /\ UNCHANGED failed
  <2> DEFINE new == [request |-> thread[t].request, call |-> calls']
  <2>1. new.request = thread[t].request /\ inbox' = Append(inbox, new)
    BY <1>5
  <2> HIDE DEF new
  <2>2. inbox'[Len(inbox')] = new
    <3>1. Len(inbox') = Len(inbox) + 1 /\ Len(inbox) \in Nat
      BY <2>1 DEF OutInv, Typed
    <3>2. QED BY <2>1, <3>1 DEF OutInv, Typed
  <2>3. Moves(t, [at |-> "sent", sent |-> new])
    BY <1>5, <2>2, ContinueMoves DEF OutInv
  <2>4. QED
    BY <1>1, <1>5, <2>1, <2>3
       DEF OwedInv, FailuresTyped, OlderCallOut, Owed, Moves, HoldsNewest, Threads
<1>6. QED BY <1>3, <1>4, <1>5 DEF CallService

LEMMA CommitKeepsOwed ==
    ASSUME OutInv, OwedInv, NEW t \in Threads, CommitCall(t)
    PROVE  OwedInv'
<1> USE DEF modeVars, channelVars, requestVars
<1>1. UNCHANGED <<generation, requested, state>> /\ thread[t].at = "sent"
  BY DEF CommitCall
<1>2. CASE Done(t) /\ UNCHANGED <<pending, inflight>>
  BY <1>1, <1>2, LeavingKeepsOwed DEF Leaves
<1>3. CASE /\ pending = thread[t].sent.request
           /\ inflight' = thread[t].sent
           /\ Continue(t, [at |-> "adding", sent |-> thread[t].sent]) /\ UNCHANGED failed
  <2>1. Moves(t, [at |-> "adding", sent |-> thread[t].sent])
    BY <1>3, ContinueMoves DEF OutInv
  <2>2. thread[t].sent \in Calls
    BY <1>1 DEF OutInv, ThreadsTyped
  <2>3. inflight' # None /\ pending # None
    BY <1>3, <2>2, NoneAssumption DEF Calls
  <2>4. inflight'.request.generation = generation
    BY <1>3, <2>3 DEF OutInv, Asked
  <2>5. QED
    BY <1>1, <1>3, <2>1, <2>3, <2>4
       DEF OwedInv, FailuresTyped, OlderCallOut, Owed, Moves, Threads
<1>4. QED BY <1>2, <1>3 DEF CommitCall

LEMMA FailKeepsOwed ==
    ASSUME OutInv, OwedInv, NEW t \in Threads, FailRequest(t)
    PROVE  OwedInv'
<1> USE DEF modeVars, channelVars, requestVars
<1>1. thread[t].at = "failing" /\ UNCHANGED <<generation, requested, inflight>>
  BY DEF FailRequest
<1>2. Done(t) \/ (Continue(t, Due) /\ UNCHANGED failed)
  BY DEF FailRequest
<1>3. Leaves(t)
  <2>1. CASE thread[t].request.generation = generation
    BY <1>1, <2>1 DEF FailRequest, Leaves, HoldsNewest
  <2>2. CASE thread[t].request.generation # generation
    <3>1. pending # thread[t].request
      BY <1>1, <2>2, NoneAssumption DEF OutInv, Asked, OwedInv, FailuresTyped
    <3>2. QED BY <2>2, <3>1 DEF FailRequest, Leaves
  <2>3. QED BY <2>1, <2>2
<1>4. QED BY <1>1, <1>2, <1>3, LeavingKeepsOwed

LEMMA DispatchKeepsOwed ==
    ASSUME OutInv, OwedInv, NEW t \in Threads, Dispatch(t)
    PROVE  OwedInv'
<1> USE DEF modeVars, channelVars, requestVars
<1>1. CASE AddCallback(t)
  BY <1>1, LeavingKeepsOwed DEF AddCallback, Leaves
<1>2. QED
  BY <1>1, ReadKeepsOwed, CallKeepsOwed, CommitKeepsOwed, FailKeepsOwed DEF Dispatch

\* A new request is pending, and nobody has it in hand yet.
LEMMA RequestKeepsOwed ==
    ASSUME OutInv, OwedInv, NEW t \in Threads, Continue(t, Due), NEW mode \in Modes,
           Request(mode), UNCHANGED <<inflight, failed>>
    PROVE  OwedInv'
<1>1. Moves(t, Due)
  BY ContinueMoves DEF OutInv
<1>2. generation \in Nat /\ generation' = generation + 1
  BY DEF OutInv, Typed, Request
<1>3. pending' # None
  <2>1. generation' \in 1..MaxGeneration
    BY <1>2, ControlAssumption DEF Request
  <2>2. pending' \in Requests
    BY <2>1 DEF Request, Requests
  <2>3. QED BY <2>2, NoneAssumption
<1>4. FailuresTyped'
  BY <1>1, <1>2 DEF OwedInv, FailuresTyped, Moves, Due, Requests, Threads
<1>5. \A u \in Threads : ~HoldsNewest(u)'
  <2> SUFFICES ASSUME NEW u \in Threads PROVE ~HoldsNewest(u)'
    OBVIOUS
  <2>1. CASE u = t
    BY <1>1, <2>1 DEF HoldsNewest, Moves, Due
  <2>2. CASE u # t
    <3>1. thread'[u] = thread[u]
      BY <1>1, <2>2 DEF Moves
    <3>2. thread[u].at \in {"read", "failing"} =>
             thread[u].request \in Requests /\ thread[u].request.generation <= generation
      BY DEF OutInv, ThreadsTyped, OwedInv, FailuresTyped
    <3>3. thread[u].at = "sent" =>
             thread[u].sent \in Calls /\ thread[u].sent.request.generation <= generation
      BY DEF OutInv, ThreadsTyped, Posted, Outstanding, SentCalls
    <3>4. QED BY <1>2, <3>1, <3>2, <3>3 DEF HoldsNewest, Requests, Calls
  <2>3. QED BY <2>1, <2>2
<1>6. failed' # None => failed'.generation # generation'
  BY <1>2 DEF OwedInv, FailuresTyped, Requests
<1>7. QED BY <1>3, <1>4, <1>5, <1>6 DEF OwedInv, OlderCallOut, Owed

LEMMA DashboardKeepsOwed ==
    ASSUME OutInv, OwedInv, (\E mode \in Modes : RequestMode(mode)) \/ Start
    PROVE  OwedInv'
<1> USE DEF modeVars, channelVars, requestVars
<1>1. CASE \E mode \in Modes : RequestMode(mode)
  <2>1. PICK mode \in Modes : RequestMode(mode)
    BY <1>1
  <2>2. CASE Request(mode) /\ Continue("dashboard", Due)
    BY <2>1, <2>2, RequestKeepsOwed DEF RequestMode, Threads
  <2>3. CASE state' = "active" /\ UNCHANGED <<pending, generation, thread>>
    BY <2>1, <2>3
       DEF RequestMode, OwedInv, FailuresTyped, OlderCallOut, Owed, HoldsNewest
  <2>4. QED BY <2>1, <2>2, <2>3 DEF RequestMode
<1>2. CASE Start
  <2>1. CASE Request(requested)
    BY <1>2, <2>1, RequestKeepsOwed DEF Start, OutInv, Typed, Threads
  <2>2. CASE UNCHANGED <<pending, generation, state>>
    <3>1. Moves("dashboard", Due) /\ thread["dashboard"].at = "idle"
      BY <1>2, ContinueMoves DEF Start, OutInv, Threads, Idle
    <3>2. UNCHANGED <<generation, requested, state, pending, inflight, failed>>
      BY <1>2, <2>2 DEF Start
    <3>3. QED
      BY <3>1, <3>2
         DEF OwedInv, FailuresTyped, OlderCallOut, Owed, HoldsNewest, Moves, Due, Threads
  <2>3. QED BY <1>2, <2>1, <2>2 DEF Start
<1>3. QED BY <1>1, <1>2

\* An answer to the newest request ends it; after an older one the newest is pending.
LEMMA AnswerKeepsOwed ==
    ASSUME OutInv, OwedInv, OnServiceResult
    PROVE  OwedInv'
<1> USE DEF modeVars, channelVars, requestVars
<1>1. PICK answer \in answers : ServiceResult("answers", inflight, answer.success)
  BY DEF OnServiceResult
<1>2. UNCHANGED <<pending, generation, failed>> /\ inflight # None /\ inflight' = None
  BY <1>1 DEF OnServiceResult, ServiceResult
<1>3. Moves("answers", Due) /\ thread["answers"].at = "idle"
  BY <1>1, ContinueMoves DEF OnServiceResult, ServiceResult, OutInv, Threads, Idle
<1>4. FailuresTyped' /\ OlderCallOut'
  BY <1>2, <1>3 DEF OwedInv, FailuresTyped, OlderCallOut, Moves, Due, Threads
<1>5. Owed'
  <2>1. CASE inflight.request.generation = generation
    BY <1>1, <2>1 DEF ServiceResult, Accept, Owed
  <2>2. CASE inflight.request.generation # generation
    BY <1>2, <2>2 DEF OwedInv, OlderCallOut, Owed
  <2>3. QED BY <2>1, <2>2
<1>6. QED BY <1>4, <1>5 DEF OwedInv

\* A call or a request that is given up is reported as failed later.
LEMMA TimerKeepsOwed ==
    ASSUME OutInv, OwedInv, PollRequests
    PROVE  OwedInv'
<1> USE DEF modeVars, channelVars, requestVars
<1>1. UNCHANGED <<generation, requested, state>> /\ thread["executor"].at = "idle"
  BY DEF PollRequests, Idle
<1>2. failed = None
  BY <1>1 DEF OwedInv, FailuresTyped
<1>3. inflight # None => /\ inflight \in Calls /\ inflight.request \in Requests
                         /\ inflight.request.generation <= generation
  BY DEF OutInv, Typed, Posted, Outstanding, Calls
<1>4. pending # None => pending \in Requests /\ pending.generation = generation
  BY DEF OutInv, Typed, Asked
<1>5. generation \in Nat
  BY DEF OutInv, Typed
<1>6. CASE /\ inflight # None /\ inflight' = None /\ UNCHANGED pending
           /\ failed' = inflight.request /\ Continue("executor", Due)
  <2>1. Moves("executor", Due)
    BY <1>6, ContinueMoves DEF OutInv, Threads
  <2>2. failed' # None
    BY <1>3, <1>6, NoneAssumption
  <2>3. FailuresTyped'
    BY <1>1, <1>3, <1>6, <2>1 DEF OwedInv, FailuresTyped, Moves, Due
  <2>4. QED
    BY <1>1, <1>6, <2>1, <2>2, <2>3 DEF OwedInv, OlderCallOut, Owed, Moves
<1>7. CASE /\ inflight # None /\ inflight' = None /\ UNCHANGED <<pending, failed>>
           /\ Continue("executor", [at |-> "failing", request |-> inflight.request,
                                    next |-> Due])
  <2>1. Moves("executor", [at |-> "failing", request |-> inflight.request, next |-> Due])
    BY <1>7, ContinueMoves DEF OutInv, Threads
  <2>2. FailuresTyped'
    BY <1>1, <1>2, <1>3, <1>7, <2>1 DEF OwedInv, FailuresTyped, Moves
  <2>3. QED
    BY <1>1, <1>7, <2>1, <2>2 DEF OwedInv, OlderCallOut, Owed, Moves, Threads
<1>8. CASE /\ inflight = None /\ pending # None /\ UNCHANGED <<inflight, failed>>
           /\ Continue("executor", [at |-> "failing", request |-> pending, next |-> Due])
  <2>1. Moves("executor", [at |-> "failing", request |-> pending, next |-> Due])
    BY <1>8, ContinueMoves DEF OutInv, Threads
  <2>2. FailuresTyped'
    BY <1>1, <1>2, <1>4, <1>5, <1>8, <2>1 DEF OwedInv, FailuresTyped, Moves
  <2>3. QED
    BY <1>1, <1>4, <1>8, <2>1, <2>2 DEF OwedInv, OlderCallOut, Owed, Moves, Threads
<1>9. CASE Continue("executor", Due) /\ UNCHANGED <<pending, inflight, failed>>
  <2>1. Moves("executor", Due)
    BY <1>9, ContinueMoves DEF OutInv, Threads
  <2>2. QED
    BY <1>1, <1>2, <1>9, <2>1
       DEF OwedInv, FailuresTyped, OlderCallOut, Owed, HoldsNewest, Moves, Due
<1>10. QED BY <1>6, <1>7, <1>8, <1>9 DEF PollRequests

\* A report makes the bridge wait for the point cloud only while a request is out.
LEMMA DiagnosticsKeepOwed ==
    ASSUME OutInv, OwedInv, OnDiagnostics
    PROVE  OwedInv'
<1> USE DEF modeVars, channelVars, requestVars
<1>1. UNCHANGED <<generation, pending, inflight, thread, failed>>
  BY DEF OnDiagnostics
<1>2. FailuresTyped' /\ OlderCallOut'
  BY <1>1 DEF OwedInv, FailuresTyped, OlderCallOut, HoldsNewest
<1>3. Owed'
  <2>1. generation > 0 => requested' = requested
    BY DEF OnDiagnostics, Adopted, OutInv, Typed
  <2>2. \/ state' # "loading" \/ requested' = "edgetam" \/ state' = state
        \/ pending # None \/ inflight # None
    BY DEF OnDiagnostics, Reconcile
  <2>3. QED BY <1>1, <2>1, <2>2 DEF OwedInv, Owed
<1>4. QED BY <1>2, <1>3 DEF OwedInv

LEMMA OwedStep == OutInv /\ OwedInv /\ [ControlNext]_vars => OwedInv'
<1> SUFFICES ASSUME OutInv, OwedInv, [ControlNext]_vars PROVE OwedInv'
  OBVIOUS
<1>1. CASE UNCHANGED vars \/ Attach \/ Serve \/ PublishDiagnostics \/ NodeWorks
  <2>1. UNCHANGED <<generation, requested, state, pending, inflight, thread, failed>>
    BY <1>1 DEF vars, Attach, Serve, PublishDiagnostics, NodeWorks, modeVars, channelVars,
                requestVars
  <2>2. QED
    BY <2>1 DEF OwedInv, FailuresTyped, OlderCallOut, Owed, HoldsNewest
<1>2. QED
  BY <1>1, DashboardKeepsOwed, DispatchKeepsOwed, AnswerKeepsOwed, TimerKeepsOwed,
     DiagnosticsKeepOwed DEF ControlNext

\* While the point-cloud mode is shown as loading, its request is pending, in flight
\* or in a thread, for any number of requests, calls, time-outs and late answers.
THEOREM NothingLoadsForEver == ControlSpec => []LoadingIsOwed
<1>1. OwedInv => LoadingIsOwed
  BY DEF OwedInv, FailuresTyped, Owed, LoadingIsOwed, Busy, Idle, Threads
<1>2. QED
  BY <1>1, OutInit, OutStep, OwedInit, OwedStep, PTL DEF ControlSpec

=============================================================================
